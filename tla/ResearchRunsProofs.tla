-------------------------- MODULE ResearchRunsProofs --------------------------
(***************************************************************************)
(* What holds of ResearchRuns for any number of workers, attempts, crashes,*)
(* late leases, cancel requests and lost connections: the event list and   *)
(* the client's view of it implement RunFeed, the row agrees with the list *)
(* on how the run ended, and a result is final unless a lease ran out      *)
(* between its check and its commit.                                       *)
(*                                                                         *)
(* The argument: an attempt id is one worker's and is not used again once  *)
(* the list names it; a result is the last thing its attempt writes; while *)
(* a worker holds the row's lock the list stands still; and a run that     *)
(* goes on has no terminal event.                                          *)
(*                                                                         *)
(* The last section is about Investigations, which queues the runs: no     *)
(* research begins before a signal has been triaged.                       *)
(***************************************************************************)
EXTENDS ResearchRuns, FiniteSetTheorems, SequenceTheorems, TLAPS

Names == EventSteps \cup {"queued", "started", "evidence", "claim", "injection_review",
                          "completed", "cancelled"}
Steps == EventSteps \cup {"start", "beat", "propose", "raise", "persist", "complete", "fail"}
Whats == [name : Names, by : Attempts \cup {Nobody}]

RunRow    == [state : States, attempt : Attempts \cup {Nobody},
              lease : {"none", "live", "late"}, latest : Nat]
EventRow  == [seq : Nat, what : Whats]
WorkerRow == [todo : Seq(Steps), attempt : Attempts \cup {Nobody},
              phase : {"ready", "locked", "checked"}, base : Nat, known : SUBSET Whats]
Heard     == [state : States, latest : Nat]
ClientRow == [phase : {"off", "open", "stopped"}, heard : Heard \cup {Nobody},
              cursor : Nat, shown : SUBSET Nat]

\* The result is the last thing an attempt writes.
PersistLast(todo) ==
  \A i \in 1..Len(todo) : todo[i] = "persist" => Len(todo) = i + 1 /\ todo[i + 1] = "complete"

\* An attempt is one worker's.
Apart ==
  \A v, w \in Workers :
    worker[v].attempt = worker[w].attempt /\ worker[v].attempt # Nobody => v = w

\* A worker's place fits its program, and the list stands still under the lock.
Placed ==
  \A w \in Workers :
    /\ PersistLast(worker[w].todo)
    /\ worker[w].phase = "checked" => worker[w].todo # <<>> /\ Head(worker[w].todo) = "persist"
    /\ worker[w].phase = "locked" =>
         /\ worker[w].todo # <<>> /\ Head(worker[w].todo) \in EventSteps
         /\ worker[w].base = run.latest /\ worker[w].known = WhatIsKnown

WorkersFit ==
  /\ worker \in [Workers -> WorkerRow]
  /\ holder \in Workers \cup {Nobody}
  /\ \A w \in Workers : (worker[w].phase = "locked") <=> (holder = w)
  /\ \A w \in Workers : (worker[w].attempt = Nobody) <=> (worker[w].todo = <<>>)
  /\ Apart /\ Placed

\* A list of n events is dense, and repeats nothing.
DenseList(list, n) ==
  /\ {e.seq : e \in list} = 1..n
  /\ \A e, f \in list : e.seq = f.seq => e = f
  /\ \A e, f \in list : e.what = f.what => e = f

\* What an attempt writes was not written before.
Unrepeated ==
  /\ run.state = "queued" => \A e \in events : e.what.name # "started"
  /\ \A e \in events : e.what.by # Nobody /\ e.what.name # "started" => e.what.by \in results
  /\ \A a \in results : \E e \in events : e.what.by = a

Ending(e) == e.what.name \in {"completed", "cancelled"}

\* A run that goes on has no terminal event.
NoEarlyEnd == run.state \in Unfinished => \A e \in events : ~Ending(e)

ListFits ==
  /\ run \in RunRow /\ events \in SUBSET EventRow /\ results \in SUBSET Attempts
  /\ DenseList(events, run.latest)
  /\ Unrepeated /\ NoEarlyEnd /\ StateFollowsEvents

\* An attempt writes its result once.
Once ==
  \A w \in Workers : worker[w].attempt \in results =>
    \A i \in 1..Len(worker[w].todo) : worker[w].todo[i] # "persist"

Fenced ==
  ~overtaken =>
    /\ \A w \in Workers : worker[w].phase = "checked" =>
         run.attempt = worker[w].attempt /\ run.lease = "live" /\ run.state # "failed"
    /\ \A w \in Workers : worker[w].attempt \in results => worker[w].todo = <<"complete">>
    /\ results \subseteq {run.attempt}
    /\ results # {} => run.state = "completed" /\ run.lease = "none"

\* What a client has heard of the run, and what it shows.
Watching ==
  /\ client.cursor \in 0..run.latest
  /\ client.heard # Nobody =>
       /\ client.heard.state \in {"completed", "cancelled"} => \E e \in events : Ending(e)
       /\ ~overtaken /\ client.heard.state = "failed" => run.state = "failed"
  /\ \A e \in events : Ending(e) /\ e.seq <= client.cursor => e.seq \in client.shown

ClientFits ==
  /\ client \in ClientRow /\ client.shown \subseteq 1..run.latest
  /\ Watching
  /\ ~overtaken => StoppedShowsTheEnd

IInv ==
  /\ job \in Jobs /\ overtaken \in BOOLEAN
  /\ WorkersFit /\ ListFits /\ Once /\ Fenced /\ ClientFits

-----------------------------------------------------------------------------
(* The event list.                                                         *)

LEMMA Counting ==
  ASSUME NEW n \in Nat, NEW list, DenseList(list, n)
  PROVE  IsFiniteSet(list) /\ Cardinality(list) = n
<1> DEFINE f == [m \in 1..n |-> CHOOSE e \in list : e.seq = m]
<1>1. \A m \in 1..n : \E e \in list : e.seq = m
  BY DEF DenseList
<1>2. \A m \in 1..n : f[m] \in list /\ f[m].seq = m
  BY <1>1
<1>3. \A e \in list : e.seq \in 1..n /\ f[e.seq] = e
  <2>1. \A e \in list : e.seq \in 1..n
    BY DEF DenseList
  <2> QED
    BY <1>2, <2>1 DEF DenseList
<1>4. f \in Bijection(1..n, list)
  <2>1. f \in [1..n -> list]
    BY <1>2
  <2>2. \A a, b \in 1..n : f[a] = f[b] => a = b
    BY <1>2
  <2>3. \A e \in list : \E m \in 1..n : f[m] = e
    BY <1>3
  <2> HIDE DEF f
  <2> QED
    BY <2>1, <2>2, <2>3 DEF Bijection, Injection, Surjection, IsInjective
<1>5. ExistsBijection(1..n, list)
  BY <1>4 DEF ExistsBijection
<1>6. IsFiniteSet(1..n) /\ Cardinality(1..n) = n
  BY FS_Interval
<1> QED
  BY <1>5, <1>6, FS_Bijection

\* Events the list does not have, numbered after its n.
Extended(list, n, whats) ==
  /\ list \cup Numbered(n, whats) \in SUBSET EventRow
  /\ DenseList(list \cup Numbered(n, whats), n + Len(whats))
  /\ \A e \in list : e.seq <= n
  /\ \A e \in Numbered(n, whats) :
       e.seq > n /\ \E i \in 1..Len(whats) : e.seq = n + i /\ e.what = whats[i]

LEMMA Extending ==
  ASSUME NEW n \in Nat, NEW list \in SUBSET EventRow, DenseList(list, n),
         NEW whats \in Seq(Whats),
         \A i, j \in 1..Len(whats) : whats[i] = whats[j] => i = j,
         \A i \in 1..Len(whats) : \A e \in list : e.what # whats[i]
  PROVE  Extended(list, n, whats)
<1> DEFINE k   == Len(whats)
           new == Numbered(n, whats)
<1>1. k \in Nat /\ \A i \in 1..k : whats[i] \in Whats
  OBVIOUS
<1>2. \A e \in new : \E i \in 1..k : e = [seq |-> n + i, what |-> whats[i]]
  BY DEF Numbered
<1>3. \A i \in 1..k : [seq |-> n + i, what |-> whats[i]] \in new
  BY DEF Numbered
<1> HIDE DEF new, k
<1>4. \A e \in new : e \in EventRow /\ e.seq \in (n + 1)..(n + k) /\ e.seq > n
                     /\ \E i \in 1..k : e.seq = n + i /\ e.what = whats[i]
  BY <1>1, <1>2 DEF EventRow
<1>5. \A e \in list : e \in EventRow /\ e.seq \in 1..n /\ e.seq <= n
  BY DEF DenseList
<1>6. {e.seq : e \in list \cup new} = 1..(n + k)
  <2>1. \A e \in list \cup new : e.seq \in 1..(n + k)
    BY <1>1, <1>4, <1>5
  <2>2. ASSUME NEW m \in 1..(n + k) PROVE \E e \in list \cup new : e.seq = m
    <3>1. CASE m \in 1..n
      <4>1. m \in {e.seq : e \in list}
        BY <3>1 DEF DenseList
      <4>2. \E e \in list : e.seq = m
        BY <4>1, Zenon
      <4> QED
        BY <4>2
    <3>2. CASE m \notin 1..n
      <4>1. m - n \in 1..k /\ n + (m - n) = m
        BY <1>1, <3>2
      <4>2. [seq |-> n + (m - n), what |-> whats[m - n]] \in new
        BY <1>3, <4>1
      <4> QED
        BY <4>1, <4>2
    <3> QED
      BY <3>1, <3>2
  <2> QED
    BY <2>1, <2>2
<1>7. ASSUME NEW e \in list \cup new, NEW f \in list \cup new, e.seq = f.seq \/ e.what = f.what
      PROVE  e = f
  <2>1. CASE e \in list /\ f \in list
    BY <1>7, <2>1 DEF DenseList
  <2>2. CASE e \in new /\ f \in new
    <3>1. PICK i \in 1..k : e = [seq |-> n + i, what |-> whats[i]]
      BY <1>2, <2>2
    <3>2. PICK j \in 1..k : f = [seq |-> n + j, what |-> whats[j]]
      BY <1>2, <2>2
    <3>3. e.seq = n + i /\ f.seq = n + j /\ e.what = whats[i] /\ f.what = whats[j]
      BY <3>1, <3>2
    <3>4. CASE e.seq = f.seq
      <4>1. i \in Nat /\ j \in Nat
        BY <1>1
      <4>2. i = j
        BY <3>3, <3>4, <4>1
      <4> QED
        BY <3>1, <3>2, <4>2
    <3>5. CASE e.what = f.what
      <4>1. i = j
        BY <3>3, <3>5 DEF k
      <4> QED
        BY <3>1, <3>2, <4>1
    <3> QED
      BY <1>7, <3>4, <3>5
  <2>3. CASE e \in list /\ f \in new
    BY <1>1, <1>4, <1>5, <1>7, <2>3 DEF k
  <2>4. CASE e \in new /\ f \in list
    BY <1>1, <1>4, <1>5, <1>7, <2>4 DEF k
  <2> QED
    BY <2>1, <2>2, <2>3, <2>4
<1>8. DenseList(list \cup new, n + k)
  BY <1>6, <1>7 DEF DenseList
<1> QED
  BY <1>4, <1>5, <1>8 DEF k, new, Extended

-----------------------------------------------------------------------------
(* Programs.                                                               *)

Plain(q) == q \in Seq(Steps) /\ \A i \in 1..Len(q) : q[i] # "persist"

Fine(q) == q \in Seq(Steps) /\ PersistLast(q)

LEMMA Joining ==
  ASSUME NEW q, NEW r, Plain(q), r \in Seq(Steps)
  PROVE  /\ q \o r \in Seq(Steps) /\ Len(q \o r) = Len(q) + Len(r)
         /\ Plain(r) => Plain(q \o r)
         /\ Fine(r) => Fine(q \o r)
<1>1. /\ q \in Seq(Steps) /\ Len(q) \in Nat /\ Len(r) \in Nat
      /\ q \o r \in Seq(Steps) /\ Len(q \o r) = Len(q) + Len(r)
  BY DEF Plain
<1>2. /\ \A i \in 1..Len(q) : (q \o r)[i] = q[i]
      /\ \A i \in 1..(Len(q) + Len(r)) : i \notin 1..Len(q) =>
           i - Len(q) \in 1..Len(r) /\ (q \o r)[i] = r[i - Len(q)]
  BY <1>1
<1>3. ASSUME Plain(r) PROVE Plain(q \o r)
  BY <1>1, <1>2, <1>3 DEF Plain
<1>4. ASSUME Fine(r) PROVE Fine(q \o r)
  <2> SUFFICES ASSUME NEW i \in 1..Len(q \o r), (q \o r)[i] = "persist"
               PROVE  Len(q \o r) = i + 1 /\ (q \o r)[i + 1] = "complete"
    BY <1>1 DEF Fine, PersistLast
  <2>1. i \notin 1..Len(q)
    BY <1>2 DEF Plain
  <2>2. i - Len(q) \in 1..Len(r) /\ r[i - Len(q)] = "persist"
    BY <1>1, <1>2, <2>1
  <2>3. Len(r) = (i - Len(q)) + 1 /\ r[(i - Len(q)) + 1] = "complete"
    BY <1>4, <2>2 DEF Fine, PersistLast
  <2>4. Len(q \o r) = i + 1 /\ i + 1 \in 1..(Len(q) + Len(r)) /\ i + 1 \notin 1..Len(q)
    BY <1>1, <2>1, <2>3
  <2>5. (q \o r)[i + 1] = r[(i + 1) - Len(q)] /\ (i + 1) - Len(q) = (i - Len(q)) + 1
    BY <1>1, <1>2, <2>4
  <2> QED
    BY <2>3, <2>4, <2>5
<1> QED
  BY <1>1, <1>3, <1>4

LEMMA PlainWhen ==
  ASSUME NEW c \in BOOLEAN, NEW q, Plain(q)
  PROVE  Plain(When(c, q))
<1>1. Plain(<<>>)
  BY DEF Plain
<1> QED
  BY <1>1 DEF When

LEMMA PlainIsFine ==
  ASSUME NEW q, Plain(q)
  PROVE  Fine(q)
BY DEF Plain, Fine, PersistLast

LEMMA Programs ==
  ASSUME job \in Jobs
  PROVE  /\ Fine(Program(job)) /\ Program(job) # <<>>
         /\ Fine(Failure) /\ Failure # <<>> /\ Fine(ConfigFailure) /\ ConfigFailure # <<>>
         /\ Plain(Failure)
<1>1. job.kind \in Kinds /\ job.evidence \in BOOLEAN /\ job.flags \in BOOLEAN
  BY JobsTyped
<1> DEFINE a == <<"start", "task_started", "beat">>
           b == When(job.flags, <<"injection">>)
           c == When(~job.evidence, <<"no_evidence">>)
           d == <<"task_completed", "beat", "review">>
           p == When(job.evidence, <<"persist">>)
           x == ((a \o b) \o c) \o d
           y == p \o <<"complete">>
<1>2. /\ Plain(<<"injection">>) /\ Plain(<<"no_evidence">>) /\ Plain(<<"raise">>) /\ Plain(<<"complete">>)
      /\ Plain(a) /\ Plain(d)
  BY DEF Plain, Steps, EventSteps
<1>3. Plain(b) /\ Plain(c)
  BY <1>1, <1>2, PlainWhen
<1>4. p \in Seq(Steps)
  <2>1. <<"persist">> \in Seq(Steps) /\ <<>> \in Seq(Steps)
    BY DEF Steps
  <2> QED
    BY <2>1 DEF When
<1>5. y \in Seq(Steps) /\ Fine(y) /\ y # <<>>
  <2>1. CASE job.evidence
    <3>1. y = <<"persist">> \o <<"complete">>
      BY <2>1, Zenon DEF When
    <3>2. <<"persist">> \in Seq(Steps) /\ <<"complete">> \in Seq(Steps)
      BY DEF Steps
    <3> HIDE DEF y
    <3>3. y \in Seq(Steps) /\ Len(y) = 2 /\ y[1] = "persist" /\ y[2] = "complete"
      BY <3>1, <3>2
    <3>4. ASSUME NEW i \in 1..Len(y), y[i] = "persist"
          PROVE  Len(y) = i + 1 /\ y[i + 1] = "complete"
      <4>1. i = 1 \/ i = 2
        BY <3>3
      <4> QED
        BY <3>3, <3>4, <4>1
    <3>5. y # <<>>
      BY <3>3
    <3> QED
      BY <3>3, <3>4, <3>5 DEF Fine, PersistLast
  <2>2. CASE ~job.evidence
    <3>1. y = <<>> \o <<"complete">>
      BY <2>2 DEF When
    <3>2. y = <<"complete">>
      BY <3>1
    <3> HIDE DEF y
    <3> QED
      BY <3>2 DEF Fine, PersistLast, Steps
  <2> QED
    BY <1>1, <2>1, <2>2
<1>6. RulesProgram(job) = x \o y
  <2>1. x \in Seq(Steps)
    BY <1>2, <1>3, Joining DEF Plain
  <2>2. RulesProgram(job) = (x \o p) \o <<"complete">>
    BY DEF RulesProgram
  <2>3. <<"complete">> \in Seq(Steps)
    BY DEF Steps
  <2> HIDE DEF x, p
  <2> QED
    BY <1>4, <2>1, <2>2, <2>3
<1>7. Plain(x)
  <2>1. Plain(a \o b)
    BY <1>2, <1>3, Joining DEF Plain
  <2>2. Plain((a \o b) \o c)
    BY <1>3, <2>1, Joining DEF Plain
  <2> QED
    BY <1>2, <2>2, Joining DEF Plain
<1>8. Fine(RulesProgram(job)) /\ RulesProgram(job) # <<>>
  <2> HIDE DEF x, y
  <2>1. Fine(x \o y) /\ Len(x \o y) = Len(x) + Len(y) /\ Len(x) \in Nat /\ Len(y) \in Nat /\ Len(y) > 0
        /\ x \o y \in Seq(Steps)
    BY <1>5, <1>7, Joining DEF Plain
  <2> QED
    BY <1>6, <2>1
<1> DEFINE m == <<"start", "task_started", "beat", "propose">>
           r == <<"task_completed", "review", "beat", "persist", "complete">>
           t == When(job.evidence, <<"injection">>) \o <<"raise">>
           u == IF job.evidence /\ ~job.flags THEN r ELSE t
<1>9. Plain(m) /\ Fine(r) /\ m # <<>>
  BY DEF Plain, Fine, PersistLast, Steps, EventSteps
<1>10. Fine(t)
  <2>1. Plain(When(job.evidence, <<"injection">>)) /\ <<"raise">> \in Seq(Steps)
    BY <1>1, <1>2, PlainWhen DEF Steps
  <2> QED
    BY <1>2, <2>1, Joining, PlainIsFine
<1>11. Fine(ModelProgram(job)) /\ ModelProgram(job) # <<>>
  <2>1. Fine(u) /\ u \in Seq(Steps)
    BY <1>9, <1>10 DEF Fine
  <2>2. ModelProgram(job) = m \o u
    BY DEF ModelProgram
  <2>4. m \in Seq(Steps) /\ Len(m) > 0
    BY <1>9 DEF Plain
  <2> HIDE DEF u, m
  <2>3. Fine(m \o u) /\ m \o u \in Seq(Steps) /\ Len(m \o u) = Len(m) + Len(u) /\ Len(m) > 0 /\ Len(m) \in Nat /\ Len(u) \in Nat
    BY <1>9, <2>1, <2>4, Joining
  <2> QED
    BY <2>2, <2>3
<1>12. Fine(Failure) /\ Failure # <<>> /\ Fine(ConfigFailure) /\ ConfigFailure # <<>> /\ Plain(Failure)
  BY DEF Fine, Plain, PersistLast, Failure, ConfigFailure, Steps, EventSteps
<1> QED
  BY <1>1, <1>8, <1>11, <1>12 DEF Program, Kinds

-----------------------------------------------------------------------------
(* Workers.                                                                *)

\* A worker's next row: it goes on under its attempt, or is idle.
NextRow(w, row) ==
  /\ row \in WorkerRow /\ row.phase = "ready"
  /\ (row.attempt = Nobody) <=> (row.todo = <<>>)
  /\ row.attempt \in {worker[w].attempt, Nobody}
  /\ PersistLast(row.todo)
  /\ \A i \in 1..Len(row.todo) : row.todo[i] = "persist" =>
       \E j \in 1..Len(worker[w].todo) : worker[w].todo[j] = "persist"

LEMMA IdleRow ==
  ASSUME NEW w \in Workers
  PROVE  NextRow(w, IdleWorker) /\ IdleWorker.attempt = Nobody
<1>1. <<>> \in Seq(Steps) /\ Len(<<>>) = 0 /\ 0 \in Nat
  OBVIOUS
<1>2. /\ IdleWorker \in WorkerRow /\ IdleWorker.todo = <<>> /\ IdleWorker.attempt = Nobody
      /\ IdleWorker.phase = "ready"
  BY <1>1 DEF IdleWorker, WorkerRow
<1>3. \A i \in 1..Len(<<>>) : FALSE
  BY <1>1
<1> QED
  BY <1>2, <1>3 DEF NextRow, PersistLast

LEMMA WorkerFields ==
  ASSUME WorkersFit, NEW w \in Workers
  PROVE  /\ worker[w] \in WorkerRow /\ worker[w].todo \in Seq(Steps)
         /\ worker[w].attempt \in Attempts \cup {Nobody}
         /\ worker[w].phase \in {"ready", "locked", "checked"}
         /\ PersistLast(worker[w].todo)
         /\ worker[w].todo # <<>> => worker[w].attempt \in Attempts /\ worker[w].attempt # Nobody
BY NobodyIsNone DEF WorkersFit, WorkerRow, Placed

LEMMA Proceeding ==
  ASSUME WorkersFit, NEW w \in Workers, worker[w].todo # <<>>, Proceed(w)
  PROVE  \E row : /\ NextRow(w, row) /\ worker' = [worker EXCEPT ![w] = row]
                  /\ Len(worker[w].todo) = 1 => row = IdleWorker
                  /\ row.attempt # Nobody => row.todo = Tail(worker[w].todo)
<1>1. /\ worker[w] \in WorkerRow /\ worker[w].todo \in Seq(Steps) /\ worker[w].attempt \in Attempts
      /\ worker[w].attempt # Nobody /\ PersistLast(worker[w].todo)
  BY WorkerFields
<1> DEFINE q   == worker[w].todo
           on  == [IdleWorker EXCEPT !.todo = Tail(q), !.attempt = worker[w].attempt]
           row == IF Len(q) = 1 THEN IdleWorker ELSE on
<1>2. worker' = [worker EXCEPT ![w] = row]
  BY DEF Proceed
<1> HIDE DEF q
<1>3. Len(q) \in Nat /\ Len(q) > 0
  BY <1>1 DEF q
<1>0. q \in Seq(Steps) /\ PersistLast(q)
  BY <1>1 DEF q
<1>4. ASSUME Len(q) # 1
      PROVE  /\ Tail(q) \in Seq(Steps) /\ Tail(q) # <<>> /\ PersistLast(Tail(q))
             /\ Len(Tail(q)) = Len(q) - 1
             /\ \A i \in 1..Len(Tail(q)) : i + 1 \in 1..Len(q) /\ Tail(q)[i] = q[i + 1]
  <2>1. Tail(q) \in Seq(Steps) /\ Len(Tail(q)) = Len(q) - 1
    BY <1>0, <1>3
  <2>2. \A i \in 1..Len(Tail(q)) : i + 1 \in 1..Len(q) /\ Tail(q)[i] = q[i + 1]
    BY <1>0, <1>3, <2>1
  <2>3. Tail(q) # <<>>
    BY <1>3, <1>4, <2>1
  <2>4. ASSUME NEW i \in 1..Len(Tail(q)), Tail(q)[i] = "persist"
        PROVE  Len(Tail(q)) = i + 1 /\ Tail(q)[i + 1] = "complete"
    <3>1. Len(q) = (i + 1) + 1 /\ q[(i + 1) + 1] = "complete"
      BY <1>0, <2>2, <2>4 DEF PersistLast
    <3>2. Len(Tail(q)) = i + 1 /\ i + 1 \in 1..Len(Tail(q))
      BY <1>3, <2>1, <3>1
    <3> QED
      BY <2>2, <3>1, <3>2
  <2> QED
    BY <2>1, <2>2, <2>3, <2>4 DEF PersistLast
<1>5. ASSUME Len(q) # 1 PROVE NextRow(w, on) /\ on.todo = Tail(q)
  <2>1. /\ on.todo = Tail(q) /\ on.phase = "ready" /\ on.attempt = worker[w].attempt
        /\ on \in WorkerRow
    BY <1>1, <1>4, <1>5 DEF WorkerRow, IdleWorker
  <2>2. \A i \in 1..Len(Tail(q)) : Tail(q)[i] = "persist" => \E j \in 1..Len(q) : q[j] = "persist"
    BY <1>4, <1>5
  <2> HIDE DEF on
  <2> QED
    BY <1>1, <1>4, <1>5, <2>1, <2>2 DEF NextRow, q
<1>6. CASE Len(q) = 1
  BY <1>2, <1>6, IdleRow DEF q
<1>7. CASE Len(q) # 1
  <2>1. row = on
    BY <1>7
  <2> HIDE DEF row, on
  <2> QED
    BY <1>2, <1>5, <1>7, <2>1 DEF q
<1> QED
  BY <1>6, <1>7

LEMMA Raising ==
  ASSUME WorkersFit, job \in Jobs, NEW w \in Workers, worker[w].todo # <<>>, Raise(w)
  PROVE  \E row : NextRow(w, row) /\ worker' = [worker EXCEPT ![w] = row]
<1>1. worker[w] \in WorkerRow /\ worker[w].attempt \in Attempts /\ worker[w].attempt # Nobody
  BY WorkerFields
<1>2. Plain(Failure) /\ Failure # <<>> /\ Fine(Failure)
  BY Programs
<1> DEFINE fail == [IdleWorker EXCEPT !.todo = Failure, !.attempt = worker[w].attempt]
<1>3. /\ fail \in WorkerRow /\ fail.todo = Failure /\ fail.phase = "ready" /\ fail.attempt = worker[w].attempt
  BY <1>1, <1>2 DEF IdleWorker, WorkerRow, Fine
<1> HIDE DEF fail
<1>4. NextRow(w, fail)
  BY <1>1, <1>2, <1>3 DEF NextRow, Plain, Fine
<1>5. worker' = [worker EXCEPT ![w] = IF Caught(w) THEN fail ELSE IdleWorker]
  BY DEF Raise, fail
<1> QED
  BY <1>4, <1>5, IdleRow

\* The other workers, and the lock, after worker w took a step.
LEMMA WorkersMove ==
  ASSUME WorkersFit, NEW w \in Workers, NEW row, NextRow(w, row),
         worker' = [worker EXCEPT ![w] = row],
         holder' = IF holder = w THEN Nobody ELSE holder,
         \/ run'.latest = run.latest /\ events' = events
         \/ holder \in {w, Nobody}
  PROVE  WorkersFit'
<1>1. worker \in [Workers -> WorkerRow] /\ row \in WorkerRow /\ row.phase = "ready"
  BY DEF WorkersFit, NextRow
<1>2. /\ worker' \in [Workers -> WorkerRow] /\ worker'[w] = row
      /\ \A v \in Workers \ {w} : worker'[v] = worker[v]
  BY <1>1
<1>3. holder' \in Workers \cup {Nobody}
  BY DEF WorkersFit
<1>4. \A v \in Workers : (worker'[v].phase = "locked") <=> (holder' = v)
  <2>1. holder' # w
    BY NobodyIsNone
  <2>2. \A v \in Workers \ {w} : holder' = v <=> holder = v
    BY NobodyIsNone
  <2> QED
    BY <1>1, <1>2, <2>1, <2>2 DEF WorkersFit
<1>5. \A v \in Workers : (worker'[v].attempt = Nobody) <=> (worker'[v].todo = <<>>)
  BY <1>2 DEF WorkersFit, NextRow
<1>6. Apart'
  BY <1>2 DEF WorkersFit, Apart, NextRow
<1>7. ASSUME NEW v \in Workers
      PROVE  /\ PersistLast(worker'[v].todo)
             /\ worker'[v].phase = "checked" => worker'[v].todo # <<>> /\ Head(worker'[v].todo) = "persist"
             /\ worker'[v].phase = "locked" =>
                  /\ worker'[v].todo # <<>> /\ Head(worker'[v].todo) \in EventSteps
                  /\ worker'[v].base = run'.latest /\ worker'[v].known = WhatIsKnown'
  <2>1. CASE v = w
    BY <1>1, <1>2, <2>1 DEF NextRow
  <2>2. CASE v # w
    <3>1. worker'[v] = worker[v]
      BY <1>2, <2>2
    <3>2. worker[v].phase = "locked" => run'.latest = run.latest /\ WhatIsKnown' = WhatIsKnown
      BY <2>2, NobodyIsNone DEF WorkersFit, WhatIsKnown
    <3> QED
      BY <3>1, <3>2 DEF WorkersFit, Placed
  <2> QED
    BY <2>1, <2>2
<1>8. Placed'
  BY <1>7 DEF Placed
<1> QED
  BY <1>2, <1>3, <1>4, <1>5, <1>6, <1>8 DEF WorkersFit

LEMMA WorkersStay ==
  ASSUME WorkersFit, UNCHANGED <<worker, holder>>,
         \/ run'.latest = run.latest /\ events' = events
         \/ holder = Nobody
  PROVE  WorkersFit'
<1>1. \A v \in Workers : worker[v].phase = "locked" => run'.latest = run.latest /\ WhatIsKnown' = WhatIsKnown
  BY NobodyIsNone DEF WorkersFit, WhatIsKnown
<1>2. Placed'
  BY <1>1 DEF WorkersFit, Placed
<1> QED
  BY <1>2 DEF WorkersFit, Apart

-----------------------------------------------------------------------------
(* The list, the results and the client.                                   *)

\* What a step may do to the list: new events take later numbers.
Grown ==
  /\ events \subseteq events' /\ run'.latest \in Nat /\ run.latest <= run'.latest
  /\ \A e \in events' : e \notin events => e.seq > run.latest
  /\ events' = events => run'.latest = run.latest

LEMMA ListStays ==
  ASSUME ListFits, UNCHANGED <<events, results>>, run' \in RunRow, run'.latest = run.latest,
         run'.state \in {run.state, "failed"}
  PROVE  ListFits' /\ Grown
<1>1. run.latest \in Nat
  BY DEF ListFits, RunRow
<1>2. Unrepeated'
  <2>1. run'.state = "queued" => run.state = "queued"
    OBVIOUS
  <2> QED
    BY <2>1 DEF ListFits, Unrepeated
<1>3. NoEarlyEnd'
  <2>1. run'.state \in Unfinished => run.state \in Unfinished
    BY DEF Unfinished
  <2> QED
    BY <2>1 DEF ListFits, NoEarlyEnd, Ending
<1>4. StateFollowsEvents'
  <2>1. run'.state \in {"completed", "cancelled"} => run'.state = run.state
    OBVIOUS
  <2> QED
    BY <2>1 DEF ListFits, StateFollowsEvents
<1>5. DenseList(events, run.latest)'
  BY DEF ListFits, DenseList
<1>6. Grown
  BY <1>1 DEF Grown
<1> QED
  BY <1>2, <1>3, <1>4, <1>5, <1>6 DEF ListFits

\* What is written is new.
Fresh(whats) ==
  /\ whats \in Seq(Whats)
  /\ \A i, j \in 1..Len(whats) : whats[i] = whats[j] => i = j
  /\ \A i \in 1..Len(whats) : whats[i] \notin WhatIsKnown

Quiet(whats) == \A i \in 1..Len(whats) : whats[i].name \notin {"completed", "cancelled"}

\* The events written, the results and the run's state fit one another.
Written(whats) ==
  /\ run'.state = "queued" =>
       run.state = "queued" /\ \A i \in 1..Len(whats) : whats[i].name # "started"
  /\ \A i \in 1..Len(whats) : whats[i].by # Nobody /\ whats[i].name # "started" => whats[i].by \in results'
  /\ \A a \in results' : a \notin results => \E i \in 1..Len(whats) : whats[i].by = a
  /\ run'.state \in Unfinished => run.state \in Unfinished /\ Quiet(whats)
  /\ run'.state \in {"completed", "cancelled"} =>
       \/ run.state = run'.state /\ Quiet(whats)
       \/ Len(whats) > 0 /\ whats[Len(whats)].name = run'.state

LEMMA ListGrows ==
  ASSUME ListFits, NEW whats, Fresh(whats), Written(whats),
         events' = events \cup Numbered(run.latest, whats),
         run' \in RunRow, run'.latest = run.latest + Len(whats),
         results \subseteq results', results' \in SUBSET Attempts
  PROVE  ListFits' /\ Grown
<1> DEFINE n   == run.latest
           k   == Len(whats)
           new == Numbered(n, whats)
<1>1. n \in Nat /\ k \in Nat /\ events \in SUBSET EventRow /\ DenseList(events, n) /\ run'.latest = n + k
      /\ whats \in Seq(Whats)
  BY DEF ListFits, RunRow, Fresh
<1>2. /\ \A i \in 1..Len(whats) : \A e \in events : e.what # whats[i]
      /\ \A i, j \in 1..Len(whats) : whats[i] = whats[j] => i = j
  BY DEF WhatIsKnown, Fresh
<1>3. /\ events \cup new \in SUBSET EventRow /\ DenseList(events \cup new, n + k)
      /\ \A e \in events : e.seq <= n
      /\ \A e \in new : e.seq > n /\ \E i \in 1..k : e.seq = n + i /\ e.what = whats[i]
  <2>1. Extended(events, n, whats)
    BY <1>1, <1>2, Extending
  <2> QED
    BY <2>1 DEF Extended
<1>4. \A i \in 1..k : \E e \in new : e.seq = n + i /\ e.what = whats[i]
  <2>1. \A i \in 1..k : [seq |-> n + i, what |-> whats[i]] \in new
    BY DEF Numbered
  <2> HIDE DEF new, n, k
  <2>2. ASSUME NEW i \in 1..k PROVE \E e \in new : e.seq = n + i /\ e.what = whats[i]
    <3> DEFINE e == [seq |-> n + i, what |-> whats[i]]
    <3>1. e \in new /\ e.seq = n + i /\ e.what = whats[i]
      BY <2>1
    <3> QED
      BY <3>1
  <2> QED
    BY <2>2
<1>5. events' = events \cup new
  OBVIOUS
<1> HIDE DEF new, n, k
<1>6. \A e \in events' : e \in events \/ e \in new
  BY <1>5
<1>7. Unrepeated'
  <2>1. run'.state = "queued" => \A e \in events' : e.what.name # "started"
    BY <1>3, <1>6 DEF ListFits, Unrepeated, Written, k
  <2>2. \A e \in events' : e.what.by # Nobody /\ e.what.name # "started" => e.what.by \in results'
    BY <1>3, <1>6 DEF ListFits, Unrepeated, Written, k
  <2>3. \A a \in results' : \E e \in events' : e.what.by = a
    BY <1>4, <1>5 DEF ListFits, Unrepeated, Written, k
  <2> QED
    BY <2>1, <2>2, <2>3 DEF Unrepeated
<1>8. NoEarlyEnd'
  BY <1>3, <1>6 DEF ListFits, NoEarlyEnd, Ending, Written, Quiet, k
<1>9. StateFollowsEvents'
  <2> SUFFICES ASSUME run'.state \in {"completed", "cancelled"}
               PROVE  \E e \in events' : /\ e.what.name = run'.state
                                         /\ \A f \in events' : f.what.name \in {"completed", "cancelled"} => f.seq <= e.seq
    BY DEF StateFollowsEvents
  <2>1. CASE run.state = run'.state /\ \A i \in 1..k : whats[i].name \notin {"completed", "cancelled"}
    <3>1. PICK e \in events : /\ e.what.name = run'.state
                              /\ \A f \in events : f.what.name \in {"completed", "cancelled"} => f.seq <= e.seq
      BY <2>1 DEF ListFits, StateFollowsEvents
    <3>2. \A f \in new : f.what.name \notin {"completed", "cancelled"}
      BY <1>3, <2>1
    <3> QED
      BY <1>5, <1>6, <3>1, <3>2
  <2>2. CASE k > 0 /\ whats[k].name = run'.state
    <3>1. PICK e \in new : e.seq = n + k /\ e.what = whats[k]
      BY <1>1, <1>4, <2>2
    <3>2. \A f \in events' : f.seq <= n + k
      <4>1. \A f \in events : f.seq <= n /\ f.seq \in Nat
        BY <1>1, <1>3 DEF EventRow
      <4>2. \A f \in new : \E i \in 1..k : f.seq = n + i
        BY <1>3
      <4> QED
        BY <1>1, <1>6, <4>1, <4>2
    <3> QED
      BY <1>5, <2>2, <3>1, <3>2
  <2> QED
    BY <2>1, <2>2 DEF Written, Quiet, k
<1>10. Grown
  <2>1. events' = events => k = 0
    <3>1. CASE k = 0
      BY <3>1
    <3>2. CASE 1 \in 1..k
      <4>1. PICK e \in new : e.seq = n + 1
        BY <1>4, <3>2
      <4>2. ~(e.seq <= n)
        BY <1>1, <4>1
      <4>3. e \in events' /\ e \notin events
        BY <1>3, <1>5, <4>2
      <4> QED
        BY <4>3
    <3> QED
      BY <1>1, <3>1, <3>2
  <2>2. n + k \in Nat /\ n <= n + k /\ (k = 0 => n + k = n)
    BY <1>1
  <2>3. \A e \in events' : e \notin events => e.seq > n
    BY <1>3, <1>6
  <2> QED
    BY <1>1, <1>5, <2>1, <2>2, <2>3 DEF Grown, n
<1> QED
  BY <1>1, <1>3, <1>5, <1>7, <1>8, <1>9, <1>10 DEF ListFits

LEMMA ClientStays ==
  ASSUME IInv, UNCHANGED client, Grown, ListFits',
         ~overtaken' => ~overtaken /\ (run.state = "failed" => run'.state = "failed")
  PROVE  ClientFits'
<1>1. /\ run.latest \in Nat /\ client \in ClientRow /\ client.cursor \in 0..run.latest
      /\ client.shown \subseteq 1..run.latest /\ events \subseteq events'
      /\ client.cursor \in Nat
  BY DEF IInv, ListFits, RunRow, ClientFits, Watching, Grown
<1>0. \A e \in events' : e.seq \in Nat
  BY DEF ListFits, EventRow
<1>2. client'.shown \subseteq 1..run'.latest /\ client'.cursor \in 0..run'.latest
  BY <1>1 DEF Grown
<1>3. ASSUME NEW e \in events', Ending(e), e.seq <= client.cursor
      PROVE  e.seq \in client.shown
  <2>1. ASSUME e \notin events PROVE FALSE
    <3>1. e.seq > run.latest
      BY <2>1 DEF Grown
    <3>2. ~(e.seq <= client.cursor)
      BY <1>1, <1>0, <3>1
    <3> QED
      BY <1>3, <3>2
  <2> QED
    BY <1>3, <2>1 DEF IInv, ClientFits, Watching
<1>4. client.heard # Nobody =>
       /\ client.heard.state \in {"completed", "cancelled"} => \E e \in events' : Ending(e)
       /\ ~overtaken' /\ client.heard.state = "failed" => run'.state = "failed"
  BY <1>1 DEF IInv, ClientFits, Watching
<1>5. Watching'
  BY <1>2, <1>3, <1>4 DEF Watching, Ending
<1>6. ASSUME ~overtaken' PROVE StoppedShowsTheEnd'
  BY <1>1, <1>6 DEF IInv, ClientFits, StoppedShowsTheEnd
<1> QED
  BY <1>1, <1>2, <1>5, <1>6 DEF ClientFits

-----------------------------------------------------------------------------
(* Once and Fenced.                                                        *)

\* What a step leaves of the row, as far as the fence goes.
Fences(movers) ==
  ~overtaken' =>
    /\ ~overtaken
    /\ (\E v \in Workers \ movers : worker[v].phase = "checked") =>
         run'.attempt = run.attempt /\ run'.lease = run.lease /\ run'.state # "failed"
    /\ results # {} =>
         run'.attempt = run.attempt /\ run'.lease = run.lease /\ run'.state = run.state

LEMMA FenceMoves ==
  ASSUME IInv, NEW w \in Workers, NEW row, NextRow(w, row), worker' = [worker EXCEPT ![w] = row],
         results' = results, Fences({w}),
         ~overtaken /\ worker[w].attempt \in results => row.attempt = Nobody
  PROVE  Once' /\ Fenced'
<1>1. worker \in [Workers -> WorkerRow] /\ results \subseteq Attempts /\ Nobody \notin results
  BY NobodyIsNone DEF IInv, WorkersFit, ListFits
<1>2. worker'[w] = row /\ \A v \in Workers \ {w} : worker'[v] = worker[v]
  BY <1>1
<1>3. ASSUME NEW v \in Workers, worker'[v].attempt \in results'
      PROVE  \A i \in 1..Len(worker'[v].todo) : worker'[v].todo[i] # "persist"
  <2>1. CASE v = w
    <3>1. worker[w].attempt \in results
      BY <1>1, <1>2, <1>3, <2>1 DEF NextRow
    <3>2. \A j \in 1..Len(worker[w].todo) : worker[w].todo[j] # "persist"
      BY <3>1 DEF IInv, Once
    <3> QED
      BY <1>2, <2>1, <3>2 DEF NextRow
  <2>2. CASE v # w
    BY <1>2, <1>3, <2>2 DEF IInv, Once
  <2> QED
    BY <2>1, <2>2
<1>4. ASSUME ~overtaken'
      PROVE  /\ \A v \in Workers : worker'[v].phase = "checked" =>
                  run'.attempt = worker'[v].attempt /\ run'.lease = "live" /\ run'.state # "failed"
             /\ \A v \in Workers : worker'[v].attempt \in results' => worker'[v].todo = <<"complete">>
             /\ results' \subseteq {run'.attempt}
             /\ results' # {} => run'.state = "completed" /\ run'.lease = "none"
  <2>1. ~overtaken
    BY <1>4 DEF Fences
  <2>2. ASSUME NEW v \in Workers, worker'[v].phase = "checked"
        PROVE  run'.attempt = worker'[v].attempt /\ run'.lease = "live" /\ run'.state # "failed"
    <3>1. v # w /\ worker'[v] = worker[v]
      BY <1>2, <2>2 DEF NextRow
    <3>2. run.attempt = worker[v].attempt /\ run.lease = "live"
      BY <2>1, <2>2, <3>1 DEF IInv, Fenced
    <3> QED
      BY <1>4, <2>2, <3>1, <3>2 DEF Fences
  <2>3. ASSUME NEW v \in Workers, worker'[v].attempt \in results'
        PROVE  worker'[v].todo = <<"complete">>
    <3>1. v # w
      BY <1>1, <1>2, <2>1, <2>3 DEF NextRow
    <3> QED
      BY <1>2, <2>1, <2>3, <3>1 DEF IInv, Fenced
  <2>4. results \subseteq {run.attempt} /\ (results # {} => run.state = "completed" /\ run.lease = "none")
    BY <2>1 DEF IInv, Fenced
  <2>5. results # {} =>
         run'.attempt = run.attempt /\ run'.lease = run.lease /\ run'.state = run.state
    BY <1>4 DEF Fences
  <2>6. results' \subseteq {run'.attempt}
    BY <2>4, <2>5
  <2> QED
    BY <2>2, <2>3, <2>4, <2>5, <2>6
<1> QED
  BY <1>3, <1>4 DEF Once, Fenced

LEMMA FenceStays ==
  ASSUME IInv, UNCHANGED <<worker, results>>, Fences({})
  PROVE  Once' /\ Fenced'
<1>1. Once'
  BY DEF IInv, Once
<1>2. ASSUME ~overtaken'
      PROVE  /\ \A v \in Workers : worker'[v].phase = "checked" =>
                  run'.attempt = worker'[v].attempt /\ run'.lease = "live" /\ run'.state # "failed"
             /\ \A v \in Workers : worker'[v].attempt \in results' => worker'[v].todo = <<"complete">>
             /\ results' \subseteq {run'.attempt}
             /\ results' # {} => run'.state = "completed" /\ run'.lease = "none"
  <2>1. /\ \A v \in Workers : worker[v].phase = "checked" => run.attempt = worker[v].attempt /\ run.lease = "live"
        /\ \A v \in Workers : worker[v].attempt \in results => worker[v].todo = <<"complete">>
        /\ results \subseteq {run.attempt} /\ (results # {} => run.state = "completed" /\ run.lease = "none")
    BY <1>2 DEF IInv, Fenced, Fences
  <2>2. /\ (\E v \in Workers : worker[v].phase = "checked") =>
             run'.attempt = run.attempt /\ run'.lease = run.lease /\ run'.state # "failed"
        /\ results # {} =>
             run'.attempt = run.attempt /\ run'.lease = run.lease /\ run'.state = run.state
    BY <1>2 DEF Fences
  <2>3. results' \subseteq {run'.attempt}
    BY <2>1, <2>2
  <2> QED
    BY <2>1, <2>2, <2>3
<1> QED
  BY <1>1, <1>2 DEF Fenced

-----------------------------------------------------------------------------
(* The invariant, after a step that does no more than move worker w on.    *)

Kept == IInv' /\ Grown

LEMMA Moving ==
  ASSUME IInv, NEW w \in Workers, NEW row, NextRow(w, row), worker' = [worker EXCEPT ![w] = row],
         ~overtaken /\ worker[w].attempt \in results => row.attempt = Nobody,
         holder' = IF holder = w THEN Nobody ELSE holder,
         UNCHANGED <<job, run, events, results, client, overtaken>>
  PROVE  Kept
<1>1. ListFits' /\ Grown
  BY ListStays DEF IInv, ListFits
<1>2. ClientFits'
  BY <1>1, ClientStays DEF IInv
<1>3. WorkersFit'
  BY WorkersMove DEF IInv
<1>4. Fences({w})
  <2>1. ~overtaken /\ (\E v \in Workers : worker[v].phase = "checked") => run.state # "failed"
    BY DEF IInv, Fenced
  <2> QED
    BY <2>1 DEF Fences
<1>5. Once' /\ Fenced'
  BY <1>4, FenceMoves
<1> QED
  BY <1>1, <1>2, <1>3, <1>5 DEF IInv, Kept

LEMMA HeadStep ==
  ASSUME IInv, NEW w \in Workers, worker[w].todo # <<>>
  PROVE  /\ Head(worker[w].todo) = worker[w].todo[1] /\ 1 \in 1..Len(worker[w].todo)
         /\ Head(worker[w].todo) \in Steps
         /\ worker[w].attempt \in Attempts /\ worker[w].attempt # Nobody
         /\ ~overtaken /\ worker[w].attempt \in results =>
              Head(worker[w].todo) = "complete" /\ Len(worker[w].todo) = 1 /\ run.state = "completed"
<1>1. worker[w].todo \in Seq(Steps) /\ worker[w].attempt \in Attempts /\ worker[w].attempt # Nobody
  BY WorkerFields DEF IInv
<1>2. ~overtaken /\ worker[w].attempt \in results => worker[w].todo = <<"complete">> /\ run.state = "completed"
  BY DEF IInv, Fenced
<1>3. Head(worker[w].todo) = worker[w].todo[1] /\ 1 \in 1..Len(worker[w].todo)
  BY <1>1
<1>4. Head(worker[w].todo) \in Steps
  BY <1>1, <1>3
<1>5. ASSUME worker[w].todo = <<"complete">>
      PROVE  Head(worker[w].todo) = "complete" /\ Len(worker[w].todo) = 1
  BY <1>5
<1> QED
  BY <1>1, <1>2, <1>3, <1>4, <1>5

LEMMA Continuing ==
  ASSUME IInv, NEW w \in Workers, worker[w].todo # <<>>, worker[w].phase # "locked",
         Proceed(w) \/ Raise(w),
         ~overtaken /\ worker[w].attempt \in results => Proceed(w),
         UNCHANGED <<job, run, events, results, holder, client, overtaken>>
  PROVE  Kept
<1>1. holder' = IF holder = w THEN Nobody ELSE holder
  BY DEF IInv, WorkersFit
<1>2. ~overtaken /\ worker[w].attempt \in results => Len(worker[w].todo) = 1
  BY HeadStep
<1>3. CASE Proceed(w)
  <2>1. PICK row : /\ NextRow(w, row) /\ worker' = [worker EXCEPT ![w] = row]
                   /\ Len(worker[w].todo) = 1 => row = IdleWorker
    BY <1>3, Proceeding DEF IInv
  <2>2. ~overtaken /\ worker[w].attempt \in results => row.attempt = Nobody
    BY <1>2, <2>1, IdleRow
  <2> QED
    BY <1>1, <2>1, <2>2, Moving
<1>4. CASE Raise(w) /\ ~(~overtaken /\ worker[w].attempt \in results)
  <2>1. PICK row : NextRow(w, row) /\ worker' = [worker EXCEPT ![w] = row]
    BY <1>4, Raising DEF IInv
  <2> QED
    BY <1>1, <1>4, <2>1, Moving
<1> QED
  BY <1>3, <1>4

-----------------------------------------------------------------------------
(* The worker's steps.                                                     *)

LEMMA BeatStep ==
  ASSUME IInv, NEW w \in Workers, Beat(w)
  PROVE  Kept
<1>1. /\ worker[w].todo # <<>> /\ Head(worker[w].todo) = "beat" /\ worker[w].phase = "ready"
      /\ Proceed(w) \/ Raise(w)
      /\ UNCHANGED <<job, run, events, results, holder, client, overtaken>>
  BY DEF Beat, AtStep
<1>2. ~(~overtaken /\ worker[w].attempt \in results)
  BY <1>1, HeadStep
<1> QED
  BY <1>1, <1>2, Continuing

LEMMA ProposeStep ==
  ASSUME IInv, NEW w \in Workers, Propose(w)
  PROVE  Kept
<1>1. /\ worker[w].todo # <<>> /\ Head(worker[w].todo) \in {"propose", "raise"} /\ worker[w].phase = "ready"
      /\ Proceed(w) \/ Raise(w)
      /\ UNCHANGED <<job, run, events, results, holder, client, overtaken>>
  BY DEF Propose, AtStep
<1>2. ~(~overtaken /\ worker[w].attempt \in results)
  BY <1>1, HeadStep
<1> QED
  BY <1>1, <1>2, Continuing

LEMMA CompleteStep ==
  ASSUME IInv, NEW w \in Workers, Complete(w)
  PROVE  Kept
<1>1. /\ worker[w].todo # <<>> /\ worker[w].phase = "ready"
      /\ Proceed(w) \/ Raise(w)
      /\ run.state = "completed" => Proceed(w)
      /\ UNCHANGED <<job, run, events, results, holder, client, overtaken>>
  BY DEF Complete, AtStep
<1>2. ~overtaken /\ worker[w].attempt \in results => Proceed(w)
  BY <1>1, HeadStep
<1> QED
  BY <1>1, <1>2, Continuing

LEMMA StartStep ==
  ASSUME IInv, NEW w \in Workers, Start(w)
  PROVE  Kept
<1>1. /\ worker[w].todo # <<>> /\ Head(worker[w].todo) = "start" /\ worker[w].phase = "ready"
      /\ holder = Nobody
      /\ UNCHANGED <<job, results, holder, client, overtaken>>
  BY DEF Start, AtStep, RowFree
<1>2. ~(~overtaken /\ worker[w].attempt \in results)
  BY <1>1, HeadStep
<1>3. CASE (Proceed(w) \/ Raise(w)) /\ UNCHANGED <<run, events>>
  BY <1>1, <1>2, <1>3, Continuing
<1>4. CASE /\ MayStart(w)
           /\ run' = [run EXCEPT !.state = "running", !.latest = @ + 1]
           /\ events' = events \cup Numbered(run.latest, <<Own("started", worker[w].attempt)>>)
           /\ Proceed(w)
  <2>1. worker[w].attempt \in Attempts /\ run.state = "queued"
    BY <1>1, <1>4, HeadStep DEF MayStart
  <2>2. run \in RunRow /\ run.latest \in Nat
    BY DEF IInv, ListFits, RunRow
  <2>3. /\ run' \in RunRow /\ run'.state = "running" /\ run'.latest = run.latest + 1
        /\ run'.attempt = run.attempt /\ run'.lease = run.lease
    <3>1. run' = [run EXCEPT !.state = "running", !.latest = run.latest + 1]
      BY <1>4, <2>2 DEF RunRow
    <3>2. run.latest + 1 \in Nat /\ "running" \in States
      BY <2>2 DEF States, Unfinished
    <3> QED
      BY <2>2, <3>1, <3>2 DEF RunRow
  <2> DEFINE what == Own("started", worker[w].attempt)
  <2>4. what \in Whats /\ what.name = "started" /\ what \notin WhatIsKnown
    <3>1. what \in Whats /\ what.name = "started"
      BY <2>1 DEF Own, Whats, Names
    <3>2. \A e \in events : e.what # what
      BY <2>1, <3>1 DEF IInv, ListFits, Unrepeated
    <3> HIDE DEF what
    <3> QED
      BY <3>1, <3>2 DEF WhatIsKnown
  <2> HIDE DEF what
  <2>5. Len(<<what>>) = 1 /\ <<what>>[1] = what /\ <<what>> \in Seq(Whats)
    BY <2>4
  <2>6. Fresh(<<what>>)
    BY <2>4, <2>5 DEF Fresh
  <2>7. Written(<<what>>)
    <3>1. \A i \in 1..1 : <<what>>[i].name = "started"
      BY <2>4, <2>5
    <3>2. /\ \A i \in 1..1 : <<what>>[i].name \notin {"completed", "cancelled"}
          /\ run'.state \notin {"queued", "completed", "cancelled"} /\ run.state \in Unfinished
          /\ \A a \in results' : a \in results
      BY <1>1, <2>1, <2>3, <3>1 DEF Unfinished
    <3> QED
      BY <2>5, <3>1, <3>2 DEF Written, Quiet
  <2>8. ListFits' /\ Grown
    <3>1. events' = events \cup Numbered(run.latest, <<what>>)
      BY <1>4 DEF what
    <3>2. results' \in SUBSET Attempts /\ results \subseteq results'
      BY <1>1 DEF IInv, ListFits
    <3> QED
      BY <2>3, <2>5, <2>6, <2>7, <3>1, <3>2, ListGrows DEF IInv
  <2>9. ClientFits'
    BY <1>1, <2>1, <2>8, ClientStays
  <2>10. PICK row : NextRow(w, row) /\ worker' = [worker EXCEPT ![w] = row]
    BY <1>1, <1>4, Proceeding DEF IInv
  <2>11. holder' = (IF holder = w THEN Nobody ELSE holder)
    BY <1>1
  <2>12. WorkersFit'
    BY <1>1, <2>10, <2>11, WorkersMove DEF IInv
  <2>13. Fences({w})
    <3>1. ~overtaken => results = {}
      BY <2>1 DEF IInv, Fenced
    <3> QED
      BY <1>1, <2>3, <3>1 DEF Fences
  <2>14. Once' /\ Fenced'
    BY <1>1, <1>2, <2>10, <2>13, FenceMoves
  <2> QED
    BY <1>1, <2>8, <2>9, <2>12, <2>14 DEF IInv, Kept
<1> QED
  BY <1>3, <1>4 DEF Start

\* A worker's row changes its phase, and what it noted under the lock.
LEMMA SameProgram ==
  ASSUME IInv, NEW w \in Workers, NEW row \in WorkerRow, worker' = [worker EXCEPT ![w] = row],
         row.todo = worker[w].todo, row.attempt = worker[w].attempt,
         worker[w].todo # <<>>, worker[w].phase = "ready",
         row.phase = "locked" =>
           /\ Head(row.todo) \in EventSteps /\ row.base = run.latest /\ row.known = WhatIsKnown,
         row.phase = "checked" =>
           /\ Head(row.todo) = "persist"
           /\ run.attempt = row.attempt /\ run.lease = "live" /\ run.state = "running",
         holder' = (IF row.phase = "locked" THEN w ELSE holder), row.phase = "locked" => holder = Nobody,
         UNCHANGED <<job, run, events, results, client, overtaken>>
  PROVE  Kept
<1>1. ListFits' /\ Grown
  BY ListStays DEF IInv, ListFits
<1>2. ClientFits'
  BY <1>1, ClientStays DEF IInv
<1>3. /\ worker' \in [Workers -> WorkerRow] /\ worker'[w] = row
      /\ \A v \in Workers \ {w} : worker'[v] = worker[v]
  BY DEF IInv, WorkersFit
<1>4. WorkersFit'
  <2>1. holder' \in Workers \cup {Nobody}
    BY DEF IInv, WorkersFit
  <2>2. \A v \in Workers : (worker'[v].phase = "locked") <=> (holder' = v)
    <3>1. holder # w
      BY DEF IInv, WorkersFit
    <3>2. CASE row.phase = "locked"
      <4>1. \A v \in Workers \ {w} : worker[v].phase # "locked"
        BY <3>2, NobodyIsNone DEF IInv, WorkersFit
      <4> QED
        BY <1>3, <3>2, <4>1
    <3>3. CASE row.phase # "locked"
      BY <1>3, <3>1, <3>3 DEF IInv, WorkersFit
    <3> QED
      BY <3>2, <3>3
  <2>3. \A v \in Workers : (worker'[v].attempt = Nobody) <=> (worker'[v].todo = <<>>)
    BY <1>3 DEF IInv, WorkersFit
  <2>4. Apart'
    BY <1>3 DEF IInv, WorkersFit, Apart
  <2>5. ASSUME NEW v \in Workers
        PROVE  /\ PersistLast(worker'[v].todo)
               /\ worker'[v].phase = "checked" => worker'[v].todo # <<>> /\ Head(worker'[v].todo) = "persist"
               /\ worker'[v].phase = "locked" =>
                    /\ worker'[v].todo # <<>> /\ Head(worker'[v].todo) \in EventSteps
                    /\ worker'[v].base = run'.latest /\ worker'[v].known = WhatIsKnown'
    <3>1. WhatIsKnown' = WhatIsKnown
      BY DEF WhatIsKnown
    <3>2. CASE v = w
      BY <1>3, <3>1, <3>2 DEF IInv, WorkersFit, Placed
    <3>3. CASE v # w
      BY <1>3, <3>1, <3>3 DEF IInv, WorkersFit, Placed
    <3> QED
      BY <3>2, <3>3
  <2>6. Placed'
    BY <2>5 DEF Placed
  <2> QED
    BY <1>3, <2>1, <2>2, <2>3, <2>4, <2>6 DEF WorkersFit
<1>5. Once'
  BY <1>3 DEF IInv, Once
<1>6. Fenced'
  BY <1>3 DEF IInv, Fenced
<1> QED
  BY <1>1, <1>2, <1>4, <1>5, <1>6 DEF IInv, Kept

LEMMA LockForEventStep ==
  ASSUME IInv, NEW w \in Workers, LockForEvent(w)
  PROVE  Kept
<1>1. /\ worker[w].todo # <<>> /\ Head(worker[w].todo) \in EventSteps /\ worker[w].phase = "ready"
      /\ holder = Nobody /\ holder' = w
      /\ UNCHANGED <<job, run, events, results, client, overtaken>>
  BY DEF LockForEvent, AtStep, RowFree
<1> DEFINE row == [worker[w] EXCEPT !.phase = "locked", !.base = run.latest, !.known = WhatIsKnown]
<1>2. worker' = [worker EXCEPT ![w] = row]
  BY DEF LockForEvent
<1>3. worker[w] \in WorkerRow
  BY WorkerFields DEF IInv
<1>4. run.latest \in Nat /\ WhatIsKnown \in SUBSET Whats
  BY DEF IInv, ListFits, RunRow, EventRow, WhatIsKnown
<1>5. /\ row \in WorkerRow /\ row.todo = worker[w].todo /\ row.attempt = worker[w].attempt
      /\ row.phase = "locked" /\ row.base = run.latest /\ row.known = WhatIsKnown
  BY <1>3, <1>4 DEF WorkerRow
<1> HIDE DEF row
<1> QED
  BY <1>1, <1>2, <1>5, SameProgram

LEMMA CheckResultStep ==
  ASSUME IInv, NEW w \in Workers, CheckResult(w)
  PROVE  Kept
<1>1. /\ worker[w].todo # <<>> /\ Head(worker[w].todo) = "persist" /\ worker[w].phase = "ready"
      /\ UNCHANGED <<job, run, events, results, holder, client, overtaken>>
  BY DEF CheckResult, AtStep
<1>2. CASE ~MayPersist(w)
  <2>1. Raise(w)
    BY <1>2 DEF CheckResult
  <2>2. ~(~overtaken /\ worker[w].attempt \in results)
    BY <1>1, HeadStep
  <2> QED
    BY <1>1, <2>1, <2>2, Continuing
<1>3. CASE MayPersist(w)
  <2> DEFINE row == [worker[w] EXCEPT !.phase = "checked"]
  <2>1. worker' = [worker EXCEPT ![w] = row]
    BY <1>3 DEF CheckResult
  <2>2. worker[w] \in WorkerRow
    BY WorkerFields DEF IInv
  <2>3. /\ row \in WorkerRow /\ row.todo = worker[w].todo /\ row.attempt = worker[w].attempt
        /\ row.phase = "checked"
    BY <2>2 DEF WorkerRow
  <2>4. run.state = "running" /\ run.attempt = worker[w].attempt /\ run.lease = "live"
    BY <1>3 DEF MayPersist, HasLease
  <2> HIDE DEF row
  <2> QED
    BY <1>1, <2>1, <2>3, <2>4, SameProgram
<1> QED
  BY <1>2, <1>3

LEMMA AppendEventStep ==
  ASSUME IInv, NEW w \in Workers, AppendEvent(w)
  PROVE  Kept
<1>1. /\ worker[w].phase = "locked" /\ holder = w /\ holder' = Nobody /\ Proceed(w)
      /\ UNCHANGED <<job, results, client, overtaken>>
  BY DEF AppendEvent, IInv, WorkersFit
<1>2. /\ worker[w].todo # <<>> /\ Head(worker[w].todo) \in EventSteps
      /\ worker[w].base = run.latest /\ worker[w].known = WhatIsKnown
  BY <1>1 DEF IInv, WorkersFit, Placed
<1>3. ~(~overtaken /\ worker[w].attempt \in results)
  BY <1>2, HeadStep DEF EventSteps
<1>4. PICK row : NextRow(w, row) /\ worker' = [worker EXCEPT ![w] = row]
  BY <1>1, <1>2, Proceeding DEF IInv
<1>5. holder' = (IF holder = w THEN Nobody ELSE holder)
  BY <1>1
<1> DEFINE what == Shared(Head(worker[w].todo))
<1>6. CASE what \in worker[w].known
  <2>1. UNCHANGED <<run, events>>
    BY <1>6 DEF AppendEvent
  <2> QED
    BY <1>1, <1>3, <1>4, <1>5, <2>1, Moving
<1>7. CASE what \notin worker[w].known
  <2>1. /\ events' = events \cup Numbered(run.latest, <<what>>)
        /\ run' = [run EXCEPT !.latest = run.latest + 1]
    BY <1>2, <1>7 DEF AppendEvent
  <2>2. run \in RunRow /\ run.latest \in Nat
    BY DEF IInv, ListFits, RunRow
  <2>3. /\ run' \in RunRow /\ run'.state = run.state /\ run'.latest = run.latest + 1
        /\ run'.attempt = run.attempt /\ run'.lease = run.lease
    BY <2>1, <2>2 DEF RunRow
  <2>4. /\ what \in Whats /\ what.by = Nobody /\ what \notin WhatIsKnown
        /\ what.name \notin {"started", "completed", "cancelled"}
    BY <1>2, <1>7 DEF Shared, Whats, Names, EventSteps
  <2> HIDE DEF what
  <2>5. Len(<<what>>) = 1 /\ <<what>>[1] = what /\ <<what>> \in Seq(Whats)
    BY <2>4
  <2>6. Fresh(<<what>>)
    BY <2>4, <2>5 DEF Fresh
  <2>7. Written(<<what>>)
    <3>1. \A j \in 1..1 : <<what>>[j].name \notin {"started", "completed", "cancelled"} /\ <<what>>[j].by = Nobody
      BY <2>4, <2>5
    <3>2. run'.state = run.state /\ results' = results
      BY <1>1, <2>3
    <3> QED
      BY <2>5, <3>1, <3>2 DEF Written, Quiet
  <2>8. ListFits' /\ Grown
    <3>1. results' \in SUBSET Attempts /\ results \subseteq results'
      BY <1>1 DEF IInv, ListFits
    <3> QED
      BY <2>1, <2>3, <2>5, <2>6, <2>7, <3>1, ListGrows DEF IInv
  <2>9. ClientFits'
    BY <1>1, <2>3, <2>8, ClientStays
  <2>10. WorkersFit'
    BY <1>1, <1>4, <1>5, WorkersMove DEF IInv
  <2>11. Fences({w})
    <3>1. ~overtaken /\ (\E v \in Workers : worker[v].phase = "checked") => run.state # "failed"
      BY DEF IInv, Fenced
    <3> QED
      BY <1>1, <2>3, <3>1 DEF Fences
  <2>12. Once' /\ Fenced'
    BY <1>1, <1>3, <1>4, <2>11, FenceMoves
  <2> QED
    BY <1>1, <2>8, <2>9, <2>10, <2>12 DEF IInv, Kept
<1> QED
  BY <1>6, <1>7

\* What an attempt writes with its result: kinds of its own, ending the run.
ResultShape(q, a) ==
  /\ q \in Seq(Whats) /\ Len(q) \in {3, 4}
  /\ \A i, j \in 1..Len(q) : q[i] = q[j] => i = j
  /\ \A i \in 1..Len(q) : q[i].by = a /\ q[i].name # "started"
  /\ q[Len(q)].name = "completed"

LEMMA ResultList ==
  ASSUME NEW a \in Attempts
  PROVE  ResultShape(ResultEvents(a), a)
<1> DEFINE p == Own("evidence", a)
           q == Own("claim", a)
           r == Own("injection_review", a)
           s == Own("completed", a)
<1>1. /\ p \in Whats /\ q \in Whats /\ r \in Whats /\ s \in Whats
      /\ p.by = a /\ q.by = a /\ r.by = a /\ s.by = a
      /\ p.name = "evidence" /\ q.name = "claim" /\ r.name = "injection_review" /\ s.name = "completed"
  BY DEF Own, Whats, Names
<1>2. ResultEvents(a) = (<<p, q>> \o When(job.flags, <<r>>)) \o <<s>>
  BY DEF ResultEvents
<1> HIDE DEF p, q, r, s
<1> DEFINE x == <<p, q>> \o <<r>>
<1>3. /\ <<p, q>> \in Seq(Whats) /\ Len(<<p, q>>) = 2 /\ <<p, q>>[1] = p /\ <<p, q>>[2] = q
      /\ <<r>> \in Seq(Whats) /\ Len(<<r>>) = 1 /\ <<r>>[1] = r
      /\ <<s>> \in Seq(Whats) /\ Len(<<s>>) = 1 /\ <<s>>[1] = s
  BY <1>1
<1>4. x \in Seq(Whats) /\ Len(x) = 3 /\ x[1] = p /\ x[2] = q /\ x[3] = r
  BY <1>3
<1> HIDE DEF x
<1>5. CASE job.flags
  <2>1. PICK list : list = x \o <<s>>
    OBVIOUS
  <2>2. list \in Seq(Whats) /\ Len(list) = 4 /\ list[1] = p /\ list[2] = q /\ list[3] = r /\ list[4] = s
    <3>1. PICK y : y = <<s>>
      OBVIOUS
    <3>2. y \in Seq(Whats) /\ Len(y) = 1 /\ y[1] = s /\ list = x \o y
      BY <1>3, <2>1, <3>1
    <3>3. /\ list \in Seq(Whats) /\ Len(list) = 3 + 1
          /\ \A i \in 1..(3 + 1) : list[i] = IF i <= 3 THEN x[i] ELSE y[i - 3]
      <4>1. /\ x \o y \in Seq(Whats) /\ Len(x \o y) = Len(x) + Len(y)
            /\ \A i \in 1..(Len(x) + Len(y)) : (x \o y)[i] = IF i <= Len(x) THEN x[i] ELSE y[i - Len(x)]
        BY <1>4, <3>2, ConcatProperties
      <4>2. Len(x) = 3 /\ Len(y) = 1
        BY <1>4, <3>2
      <4> QED
        BY <3>2, <4>1, <4>2
    <3>4. 1 <= 3 /\ 2 <= 3 /\ 3 <= 3 /\ ~(4 <= 3) /\ 4 - 3 = 1 /\ 3 + 1 = 4
      OBVIOUS
    <3> QED
      BY <1>4, <3>2, <3>3, <3>4
  <2>3. \A i \in 1..4 : i = 1 \/ i = 2 \/ i = 3 \/ i = 4
    OBVIOUS
  <2>4. \A i \in 1..4 : list[i].by = a /\ list[i].name # "started"
    BY <1>1, <2>2, <2>3
  <2>5. \A i, j \in 1..4 : list[i] = list[j] => i = j
    BY <1>1, <2>2, <2>3
  <2>6. ResultShape(list, a)
    BY <1>1, <2>2, <2>4, <2>5 DEF ResultShape
  <2>7. ResultEvents(a) = list
    BY <1>2, <1>5, <2>1 DEF When, x
  <2> QED
    BY <2>6, <2>7
<1>6. CASE ~job.flags
  <2>0. <<p, q>> \o <<>> = <<p, q>>
    BY <1>3
  <2>1. PICK list : list = <<p, q>> \o <<s>>
    OBVIOUS
  <2>2. list \in Seq(Whats) /\ Len(list) = 3 /\ list[1] = p /\ list[2] = q /\ list[3] = s
    BY <1>3, <2>1
  <2>3. \A i \in 1..3 : i = 1 \/ i = 2 \/ i = 3
    OBVIOUS
  <2>4. \A i \in 1..3 : list[i].by = a /\ list[i].name # "started"
    BY <1>1, <2>2, <2>3
  <2>5. \A i, j \in 1..3 : list[i] = list[j] => i = j
    BY <1>1, <2>2, <2>3
  <2>6. ResultShape(list, a)
    BY <1>1, <2>2, <2>4, <2>5 DEF ResultShape
  <2>7. ResultEvents(a) = list
    <3>1. When(job.flags, <<r>>) = <<>>
      BY <1>6 DEF When
    <3> QED
      BY <1>2, <2>0, <2>1, <3>1, Zenon
  <2> QED
    BY <2>6, <2>7
<1> QED
  BY <1>5, <1>6

LEMMA Single ==
  ASSUME NEW S, NEW q \in Seq(S), NEW c \in S, Len(q) = 1, q[1] = c
  PROVE  q = <<c>>
<1>1. q = [i \in 1..1 |-> q[i]]
  OBVIOUS
<1>2. <<c>> = [i \in 1..1 |-> c]
  OBVIOUS
<1> QED
  BY <1>1, <1>2

LEMMA CommitResultStep ==
  ASSUME IInv, NEW w \in Workers, CommitResult(w)
  PROVE  Kept
<1> DEFINE a == worker[w].attempt
           whats == ResultEvents(a)
<1>1. /\ worker[w].phase = "checked" /\ holder = Nobody /\ holder' = holder /\ Proceed(w)
      /\ UNCHANGED <<job, client, overtaken>>
      /\ events' = events \cup Numbered(run.latest, whats)
      /\ run' = [run EXCEPT !.state = "completed", !.lease = "none", !.latest = @ + Len(whats)]
      /\ results' = results \cup {a}
  BY DEF CommitResult, RowFree
<1>2. /\ worker[w].todo # <<>> /\ Head(worker[w].todo) = "persist" /\ PersistLast(worker[w].todo)
      /\ worker[w].todo \in Seq(Steps)
  BY <1>1, WorkerFields DEF IInv, WorkersFit, Placed
<1>3. a \in Attempts /\ a # Nobody /\ worker[w].todo[1] = "persist" /\ 1 \in 1..Len(worker[w].todo)
  BY <1>2, HeadStep
<1>4. a \notin results
  BY <1>3 DEF IInv, Once
<1>5. Tail(worker[w].todo) = <<"complete">>
  <2>1. PICK q : q = worker[w].todo
    OBVIOUS
  <2>2. Len(q) = 1 + 1 /\ q[1 + 1] = "complete"
    BY <1>2, <1>3, <2>1 DEF PersistLast
  <2>3. Len(q) = 2 /\ q[2] = "complete" /\ q \in Seq(Steps)
    BY <1>2, <2>1, <2>2
  <2>4. Tail(q) \in Seq(Steps) /\ Len(Tail(q)) = 1 /\ Tail(q)[1] = "complete"
    BY <2>3
  <2>5. Tail(q) = <<"complete">>
    <3>1. "complete" \in Steps
      BY DEF Steps
    <3> QED
      BY <2>4, <3>1, Single
  <2> QED
    BY <2>1, <2>5
<1>7. PICK row : /\ NextRow(w, row) /\ worker' = [worker EXCEPT ![w] = row]
                 /\ row.attempt # Nobody => row.todo = Tail(worker[w].todo)
  BY <1>1, <1>2, Proceeding DEF IInv
<1>8. /\ whats \in Seq(Whats) /\ Len(whats) \in Nat /\ Len(whats) > 0
      /\ \A i, j \in 1..Len(whats) : whats[i] = whats[j] => i = j
      /\ \A i \in 1..Len(whats) : whats[i].by = a /\ whats[i].name # "started"
      /\ whats[Len(whats)].name = "completed"
  <2>1. ResultShape(whats, a)
    BY <1>3, ResultList
  <2> HIDE DEF whats, a
  <2> QED
    BY <2>1 DEF ResultShape
<1>9. run \in RunRow /\ run.latest \in Nat /\ results \subseteq Attempts
  BY DEF IInv, ListFits, RunRow
<1> HIDE DEF whats
<1>10. /\ run' \in RunRow /\ run'.state = "completed" /\ run'.lease = "none"
       /\ run'.attempt = run.attempt /\ run'.latest = run.latest + Len(whats)
  <2>1. run' = [run EXCEPT !.state = "completed", !.lease = "none", !.latest = run.latest + Len(whats)]
    BY <1>1, <1>9 DEF RunRow
  <2>2. run.latest + Len(whats) \in Nat /\ "completed" \in States
    BY <1>8, <1>9 DEF States, Terminal
  <2> QED
    BY <1>9, <2>1, <2>2 DEF RunRow
<1>11. Fresh(whats)
  <2>1. \A e \in events : e.what.by = a => e.what.name = "started"
    BY <1>3, <1>4 DEF IInv, ListFits, Unrepeated
  <2>2. \A i \in 1..Len(whats) : whats[i] \notin WhatIsKnown
    BY <1>8, <2>1 DEF WhatIsKnown
  <2> QED
    BY <1>8, <2>2 DEF Fresh
<1>12. Written(whats)
  <2>1. /\ \A i \in 1..Len(whats) : whats[i].by \in results'
        /\ \A b \in results' : b \notin results => b = a
        /\ 1 \in 1..Len(whats)
    BY <1>1, <1>8
  <2> QED
    BY <1>8, <1>10, <2>1 DEF Written, Unfinished
<1>13. ListFits' /\ Grown
  <2>1. results' \in SUBSET Attempts /\ results \subseteq results'
    BY <1>1, <1>3, <1>9
  <2> QED
    BY <1>1, <1>10, <1>11, <1>12, <2>1, ListGrows DEF IInv
<1>14. ClientFits'
  <2>1. ~overtaken => run.state # "failed"
    BY <1>1 DEF IInv, Fenced
  <2> QED
    BY <1>1, <1>13, <2>1, ClientStays
<1>15. WorkersFit'
  <2>1. holder' = (IF holder = w THEN Nobody ELSE holder)
    BY <1>1
  <2> QED
    BY <1>1, <1>7, <2>1, WorkersMove DEF IInv
<1>16. /\ worker' \in [Workers -> WorkerRow] /\ worker'[w] = row
       /\ \A v \in Workers \ {w} : worker'[v] = worker[v] /\ worker[v].attempt # a
  BY <1>3, <1>7 DEF IInv, WorkersFit, NextRow, Apart
<1>17. row.attempt \in {a, Nobody} /\ row.phase = "ready"
       /\ (row.attempt # Nobody => row.todo = <<"complete">>)
  BY <1>5, <1>7 DEF NextRow
<1>18. Nobody \notin results'
  BY <1>1, <1>3, <1>9, NobodyIsNone
<1>19. Once'
  <2>1. ASSUME NEW v \in Workers, worker'[v].attempt \in results'
        PROVE  \A i \in 1..Len(worker'[v].todo) : worker'[v].todo[i] # "persist"
    <3>1. CASE v = w
      <4>1. worker'[v].todo = <<"complete">>
        BY <1>16, <1>17, <1>18, <2>1, <3>1
      <4>2. Len(<<"complete">>) = 1 /\ <<"complete">>[1] = "complete"
        OBVIOUS
      <4> QED
        BY <4>1, <4>2
    <3>2. CASE v # w
      <4>1. worker[v].attempt \in results /\ worker'[v] = worker[v]
        BY <1>1, <1>16, <2>1, <3>2
      <4> QED
        BY <4>1 DEF IInv, Once
    <3> QED
      BY <3>1, <3>2
  <2> QED
    BY <2>1 DEF Once
<1>20. ASSUME ~overtaken'
       PROVE  /\ \A v \in Workers : worker'[v].phase # "checked"
              /\ \A v \in Workers : worker'[v].attempt \in results' => worker'[v].todo = <<"complete">>
              /\ results' \subseteq {run'.attempt}
  <2>1. run.attempt = a
    BY <1>1, <1>20 DEF IInv, Fenced
  <2>2. \A v \in Workers : worker'[v].phase # "checked"
    BY <1>1, <1>16, <1>17, <1>20, <2>1 DEF IInv, Fenced
  <2>3. \A v \in Workers : worker'[v].attempt \in results' => worker'[v].todo = <<"complete">>
    <3>1. \A v \in Workers \ {w} : worker'[v].attempt \in results' => worker'[v].attempt \in results
      BY <1>1, <1>16
    <3>2. \A v \in Workers \ {w} : worker[v].attempt \in results => worker[v].todo = <<"complete">>
      BY <1>1, <1>20 DEF IInv, Fenced
    <3> QED
      BY <1>16, <1>17, <1>18, <3>1, <3>2
  <2>4. results \subseteq {run.attempt}
    BY <1>1, <1>20 DEF IInv, Fenced
  <2> QED
    BY <1>1, <1>10, <2>1, <2>2, <2>3, <2>4
<1>21. Fenced'
  BY <1>10, <1>20 DEF Fenced
<1> QED
  BY <1>1, <1>13, <1>14, <1>15, <1>19, <1>21 DEF IInv, Kept

LEMMA FailStep ==
  ASSUME IInv, NEW w \in Workers, Fail(w)
  PROVE  Kept
<1>1. /\ worker[w].todo # <<>> /\ Head(worker[w].todo) = "fail" /\ holder = Nobody /\ Raise(w)
      /\ run' = IF run.attempt = worker[w].attempt THEN [run EXCEPT !.state = "failed"] ELSE run
      /\ UNCHANGED <<job, events, results, holder, client, overtaken>>
  BY DEF Fail, AtStep, RowFree
<1>2. ~(~overtaken /\ worker[w].attempt \in results)
  BY <1>1, HeadStep
<1>3. worker[w].attempt # Nobody
  BY <1>1, HeadStep
<1>4. /\ run' \in RunRow /\ run'.latest = run.latest /\ run'.state \in {run.state, "failed"}
      /\ run'.attempt = run.attempt /\ run'.lease = run.lease
      /\ run.attempt # worker[w].attempt => run' = run
  BY <1>1 DEF IInv, ListFits, RunRow, States, Terminal
<1>5. ListFits' /\ Grown
  BY <1>1, <1>4, ListStays DEF IInv
<1>6. ClientFits'
  <2>1. run.state = "failed" => run'.state = "failed"
    BY <1>4
  <2> QED
    BY <1>1, <1>5, <2>1, ClientStays
<1>7. PICK row : NextRow(w, row) /\ worker' = [worker EXCEPT ![w] = row]
  BY <1>1, Raising DEF IInv
<1>8. WorkersFit'
  <2>1. holder' = (IF holder = w THEN Nobody ELSE holder)
    BY <1>1
  <2> QED
    BY <1>1, <1>4, <1>7, <2>1, WorkersMove DEF IInv
<1>9. Fences({w})
  <2>1. ASSUME ~overtaken, NEW v \in Workers \ {w}, worker[v].phase = "checked"
        PROVE  run' = run /\ run.state # "failed"
    <3>1. run.attempt = worker[v].attempt /\ run.state # "failed"
      BY <2>1 DEF IInv, Fenced
    <3>2. worker[v].attempt # worker[w].attempt
      BY <1>3, <2>1 DEF IInv, WorkersFit, Apart
    <3> QED
      BY <1>4, <3>1, <3>2
  <2>2. ASSUME ~overtaken, results # {}
        PROVE  run' = run
    <3>1. results \subseteq {run.attempt}
      BY <2>2 DEF IInv, Fenced
    <3>2. run.attempt \in results
      BY <2>2, <3>1
    <3> QED
      BY <1>2, <1>4, <2>2, <3>2
  <2> QED
    BY <1>1, <1>4, <2>1, <2>2 DEF Fences
<1>10. Once' /\ Fenced'
  BY <1>1, <1>2, <1>7, <1>9, FenceMoves
<1> QED
  BY <1>1, <1>5, <1>6, <1>8, <1>10 DEF IInv, Kept

LEMMA CrashStep ==
  ASSUME IInv, NEW w \in Workers, Crash(w)
  PROVE  Kept
<1>1. /\ worker' = [worker EXCEPT ![w] = IdleWorker]
      /\ holder' = IF holder = w THEN Nobody ELSE holder
      /\ UNCHANGED <<job, run, events, results, client, overtaken>>
  BY DEF Crash
<1> QED
  BY <1>1, IdleRow, Moving

LEMMA ClaimStep ==
  ASSUME IInv, NEW w \in Workers, Claim(w)
  PROVE  Kept
<1>1. /\ worker[w].todo = <<>> /\ holder = Nobody /\ holder' = holder
      /\ run.state \in {"queued", "running"} /\ run.lease \in {"none", "late"}
      /\ UNCHANGED <<job, events, results, client, overtaken>>
  BY DEF Claim, RowFree, Claimable
<1>2. PICK a \in FreeAttempts, todo \in {Program(job), ConfigFailure} :
        /\ run' = [run EXCEPT !.attempt = a, !.lease = "live"]
        /\ worker' = [worker EXCEPT ![w] = [IdleWorker EXCEPT !.todo = todo, !.attempt = a]]
  BY DEF Claim
<1>3. /\ a \in Attempts /\ a # Nobody /\ \A v \in Workers : worker[v].attempt # a
      /\ \A e \in events : e.what.by # a
  BY NobodyIsNone DEF FreeAttempts
<1>4. a \notin results
  BY <1>3 DEF IInv, ListFits, Unrepeated
<1> DEFINE row == [IdleWorker EXCEPT !.todo = todo, !.attempt = a]
<1>5. todo \in Seq(Steps) /\ todo # <<>> /\ PersistLast(todo)
  BY <1>2, Programs DEF IInv, Fine
<1>6. row \in WorkerRow /\ row.todo = todo /\ row.attempt = a /\ row.phase = "ready"
  BY <1>3, <1>5 DEF IdleWorker, WorkerRow
<1>7. /\ run' \in RunRow /\ run'.latest = run.latest /\ run'.state = run.state
  BY <1>2, <1>3 DEF IInv, ListFits, RunRow
<1>8. /\ worker' \in [Workers -> WorkerRow] /\ worker'[w] = row
      /\ \A v \in Workers \ {w} : worker'[v] = worker[v]
  BY <1>2, <1>6 DEF IInv, WorkersFit
<1> HIDE DEF row
<1>9. ListFits' /\ Grown
  BY <1>1, <1>7, ListStays DEF IInv
<1>10. ClientFits'
  BY <1>1, <1>7, <1>9, ClientStays
<1>11. \A v \in Workers : worker[v].phase # "locked"
  BY <1>1, NobodyIsNone DEF IInv, WorkersFit
<1>12. WorkersFit'
  <2>1. \A v \in Workers : worker'[v].phase # "locked"
    BY <1>6, <1>8, <1>11
  <2>2. \A v \in Workers : (worker'[v].attempt = Nobody) <=> (worker'[v].todo = <<>>)
    BY <1>3, <1>5, <1>6, <1>8 DEF IInv, WorkersFit
  <2>3. Apart'
    BY <1>3, <1>6, <1>8 DEF IInv, WorkersFit, Apart
  <2>4. Placed'
    <3>1. \A v \in Workers :
            /\ PersistLast(worker'[v].todo)
            /\ worker'[v].phase = "checked" => worker'[v].todo # <<>> /\ Head(worker'[v].todo) = "persist"
      BY <1>5, <1>6, <1>8 DEF IInv, WorkersFit, Placed
    <3> QED
      BY <2>1, <3>1 DEF Placed
  <2> QED
    BY <1>1, <1>8, <2>1, <2>2, <2>3, <2>4, NobodyIsNone DEF WorkersFit
<1>13. Once'
  BY <1>1, <1>4, <1>6, <1>8 DEF IInv, Once
<1>14. Fenced'
  <2>1. ~overtaken => results = {} /\ \A v \in Workers : worker[v].phase # "checked"
    BY <1>1 DEF IInv, Fenced
  <2> QED
    BY <1>1, <1>6, <1>8, <2>1 DEF Fenced
<1> QED
  BY <1>1, <1>9, <1>10, <1>12, <1>13, <1>14 DEF IInv, Kept

-----------------------------------------------------------------------------
(* The lease, the cancel requests and the client.                          *)

LEMMA LeasePassesStep ==
  ASSUME IInv, LeasePasses
  PROVE  Kept
<1>1. /\ run.lease = "live" /\ run' = [run EXCEPT !.lease = "late"]
      /\ UNCHANGED <<job, events, results, holder, worker, client>>
      /\ overtaken' \in BOOLEAN
      /\ ~overtaken' => ~overtaken /\ (Abandoned \/ \A v \in Workers : worker[v].phase # "checked")
  BY DEF LeasePasses, IInv
<1>2. run' \in RunRow /\ run'.latest = run.latest /\ run'.state = run.state
  BY <1>1 DEF IInv, ListFits, RunRow
<1>3. ListFits' /\ Grown
  BY <1>1, <1>2, ListStays DEF IInv
<1>4. ClientFits'
  BY <1>1, <1>2, <1>3, ClientStays
<1>5. WorkersFit'
  BY <1>1, <1>2, WorkersStay DEF IInv
<1>6. ~overtaken' => results = {} /\ \A v \in Workers : worker[v].phase # "checked"
  BY <1>1 DEF IInv, Fenced, Abandoned
<1>7. Once' /\ Fenced'
  BY <1>1, <1>6, FenceStays DEF Fences
<1> QED
  BY <1>1, <1>3, <1>4, <1>5, <1>7 DEF IInv, Kept

LEMMA CommitCancelStep ==
  ASSUME IInv, CommitCancel
  PROVE  Kept
<1>1. holder = Nobody /\ UNCHANGED <<job, results, holder, worker, client, overtaken>>
  BY DEF CommitCancel, RowFree
<1> DEFINE new == IF Shared("cancelled") \in WhatIsKnown THEN <<>> ELSE <<Shared("cancelled")>>
<1>2. CASE ~GuardAllowsCancel
  <2>1. UNCHANGED <<run, events>>
    BY <1>2 DEF CommitCancel
  <2>2. ListFits' /\ Grown
    BY <1>1, <2>1, ListStays DEF IInv, ListFits
  <2>3. ClientFits'
    BY <1>1, <2>1, <2>2, ClientStays
  <2>4. WorkersFit'
    BY <1>1, <2>1, WorkersStay DEF IInv
  <2>5. ~overtaken /\ (\E v \in Workers : worker[v].phase = "checked") => run.state # "failed"
    BY DEF IInv, Fenced
  <2>6. Once' /\ Fenced'
    BY <1>1, <2>1, <2>5, FenceStays DEF Fences
  <2> QED
    BY <1>1, <2>2, <2>3, <2>4, <2>6 DEF IInv, Kept
<1>3. CASE GuardAllowsCancel
  <2>1. /\ events' = events \cup Numbered(run.latest, new)
        /\ run' = [run EXCEPT !.state = "cancelled", !.latest = @ + Len(new)]
        /\ run.state \in {"queued", "running", "waiting_for_input", "cancelled"}
    BY <1>3 DEF CommitCancel, GuardAllowsCancel, Unfinished
  <2> DEFINE what == Shared("cancelled")
  <2>2. /\ what \in Whats /\ what.name = "cancelled" /\ what.by = Nobody
    BY DEF Shared, Whats, Names
  <2>3. /\ Len(<<>>) = 0 /\ <<>> \in Seq(Whats)
        /\ Len(<<what>>) = 1 /\ <<what>>[1] = what /\ <<what>> \in Seq(Whats)
    BY <2>2
  <2> HIDE DEF what
  <2>4. /\ new \in Seq(Whats) /\ Len(new) \in {0, 1}
        /\ \A i \in 1..Len(new) : new[i] = what /\ what \notin WhatIsKnown
        /\ Len(new) = 0 => what \in WhatIsKnown
    <3>1. CASE what \in WhatIsKnown
      <4>1. new = <<>>
        BY <3>1 DEF what
      <4> HIDE DEF new
      <4> QED
        BY <2>3, <3>1, <4>1
    <3>2. CASE what \notin WhatIsKnown
      <4>1. new = <<what>>
        BY <3>2 DEF what
      <4>2. \A i \in 1..1 : i = 1
        OBVIOUS
      <4> HIDE DEF new
      <4> QED
        BY <2>3, <3>2, <4>1, <4>2
    <3> QED
      BY <3>1, <3>2
  <2> HIDE DEF new
  <2>5. run \in RunRow /\ run.latest \in Nat /\ results \subseteq Attempts
    BY DEF IInv, ListFits, RunRow
  <2>6. /\ run' \in RunRow /\ run'.state = "cancelled" /\ run'.latest = run.latest + Len(new)
        /\ run'.attempt = run.attempt /\ run'.lease = run.lease
    <3>1. run' = [run EXCEPT !.state = "cancelled", !.latest = run.latest + Len(new)]
      BY <2>1, <2>5 DEF RunRow
    <3>2. run.latest + Len(new) \in Nat /\ "cancelled" \in States
      BY <2>4, <2>5 DEF States, Terminal
    <3> QED
      BY <2>5, <3>1, <3>2 DEF RunRow
  <2>7. Fresh(new)
    <3>1. \A i, j \in 1..Len(new) : i = j
      BY <2>4
    <3> QED
      BY <2>4, <3>1 DEF Fresh
  <2>8. Len(new) = 0 => run.state = "cancelled"
    <3>1. what \in WhatIsKnown => \E e \in events : Ending(e)
      BY <2>2 DEF WhatIsKnown, Ending
    <3> QED
      BY <2>1, <2>4, <3>1 DEF IInv, ListFits, NoEarlyEnd, Unfinished
  <2>9. Written(new)
    <3>1. /\ \A i \in 1..Len(new) : new[i].by = Nobody
          /\ Len(new) > 0 => new[Len(new)].name = "cancelled"
      BY <2>2, <2>4
    <3>2. Len(new) = 0 => Quiet(new)
      BY DEF Quiet
    <3>3. Len(new) = 0 \/ Len(new) > 0
      BY <2>4
    <3> QED
      BY <1>1, <2>6, <2>8, <3>1, <3>2, <3>3 DEF Written, Unfinished
  <2>10. ListFits' /\ Grown
    <3>1. results' \in SUBSET Attempts /\ results \subseteq results'
      BY <1>1, <2>5
    <3> QED
      BY <2>1, <2>6, <2>7, <2>9, <3>1, ListGrows DEF IInv
  <2>11. ClientFits'
    BY <1>1, <2>1, <2>10, ClientStays
  <2>12. WorkersFit'
    BY <1>1, WorkersStay DEF IInv
  <2>13. Fences({})
    <3>1. ~overtaken => results = {}
      BY <2>1 DEF IInv, Fenced
    <3> QED
      BY <1>1, <2>6, <3>1 DEF Fences
  <2>14. Once' /\ Fenced'
    BY <1>1, <2>13, FenceStays
  <2> QED
    BY <1>1, <2>10, <2>11, <2>12, <2>14 DEF IInv, Kept
<1> QED
  BY <1>2, <1>3

\* A step of which the run and its workers notice nothing.
LEMMA Unnoticed ==
  ASSUME IInv, UNCHANGED <<job, run, events, results, holder, worker, overtaken>>, ClientFits'
  PROVE  Kept
<1>1. ListFits' /\ Grown
  BY ListStays DEF IInv, ListFits
<1>2. WorkersFit'
  BY WorkersStay DEF IInv
<1>3. ~overtaken /\ (\E v \in Workers : worker[v].phase = "checked") => run.state # "failed"
  BY DEF IInv, Fenced
<1>4. Once' /\ Fenced'
  BY <1>3, FenceStays DEF Fences
<1> QED
  BY <1>1, <1>2, <1>4 DEF IInv, Kept

LEMMA Unseen ==
  ASSUME IInv, UNCHANGED <<job, run, events, results, holder, worker, overtaken, client>>
  PROVE  Kept
<1>1. ListFits' /\ Grown
  BY ListStays DEF IInv, ListFits
<1>2. ClientFits'
  BY <1>1, ClientStays
<1> QED
  BY <1>2, Unnoticed

-----------------------------------------------------------------------------
(* What a client is sent.                                                  *)

FeedStep == [Feed!Next]_(Feed!vars)

LEMMA SameCount ==
  ASSUME NEW list
  PROVE  Feed!Cardinality(list) = Cardinality(list)
BY DEF Feed!Cardinality, Cardinality

LEMMA Publishing ==
  ASSUME IInv, Kept, client' = client
  PROVE  FeedStep
<1>1. CASE events' = events
  BY <1>1 DEF FeedStep, Feed!vars
<1>2. CASE events' # events
  <2>1. run'.latest \in Nat /\ DenseList(events', run'.latest)
    BY DEF Kept, IInv, ListFits, DenseList, Grown
  <2>2. Cardinality(events') = run'.latest
    BY <2>1, Counting
  <2>3. Feed!Publish
    <3>1. events \subseteq events' /\ UNCHANGED <<client.cursor, client.shown>>
      BY DEF Kept, Grown
    <3>2. {e.seq : e \in events'} = 1..Cardinality(events')
      BY <2>1, <2>2, Zenon DEF DenseList
    <3>3. \A e, f \in events' : e.what = f.what => e = f
      BY <2>1 DEF DenseList
    <3> QED
      BY <1>2, <3>1, <3>2, <3>3, SameCount, Zenon DEF Feed!Publish
  <2> QED
    BY <2>3 DEF FeedStep, Feed!Next
<1> QED
  BY <1>1, <1>2

LEMMA Polled ==
  ASSUME IInv
  PROVE  /\ client.cursor \in Nat /\ run.latest \in Nat /\ client.cursor <= run.latest
         /\ Poll(client).rows = (client.cursor + 1)..run.latest
<1>1. client.cursor \in Nat /\ run.latest \in Nat /\ client.cursor <= run.latest
  BY DEF IInv, ListFits, RunRow, ClientFits, Watching
<1> DEFINE rows == {e.seq : e \in {f \in events : f.seq > client.cursor}}
<1>2. \A e \in events : e.seq \in 1..run.latest
  BY DEF IInv, ListFits, DenseList
<1>3. \A m \in 1..run.latest : \E e \in events : e.seq = m
  <2>1. {e.seq : e \in events} = 1..run.latest
    BY DEF IInv, ListFits, DenseList
  <2> QED
    BY <2>1, Zenon
<1>4. \A m \in rows : m \in (client.cursor + 1)..run.latest
  BY <1>1, <1>2
<1>5. ASSUME NEW m \in (client.cursor + 1)..run.latest PROVE m \in rows
  <2>1. m \in 1..run.latest /\ m > client.cursor
    BY <1>1
  <2>2. PICK e \in events : e.seq = m
    BY <1>3, <2>1
  <2> QED
    BY <2>1, <2>2
<1>6. rows = (client.cursor + 1)..run.latest
  <2> HIDE DEF rows
  <2> QED
    BY <1>4, <1>5
<1> QED
  BY <1>1, <1>6 DEF Poll

LEMMA Last ==
  ASSUME NEW c \in Nat, NEW m \in Nat, c <= m
  PROVE  LastOf((c + 1)..m, c) = m
<1> DEFINE rows == (c + 1)..m
<1>1. CASE c = m
  <2>1. rows = {}
    BY <1>1
  <2> QED
    BY <1>1, <2>1 DEF LastOf
<1>2. CASE c # m
  <2>1. m \in rows /\ \A n \in rows : n <= m /\ n \in Nat
    BY <1>2
  <2>2. \A n \in rows : (\A k \in rows : k <= n) => n = m
    BY <2>1
  <2> HIDE DEF rows
  <2>3. (CHOOSE n \in rows : \A k \in rows : k <= n) = m
    BY <2>1, <2>2
  <2> QED
    BY <2>1, <2>3 DEF LastOf, rows
<1> QED
  BY <1>1, <1>2

LEMMA Ordered ==
  ASSUME client.cursor \in Nat, NEW m \in Nat
  PROVE  InOrder(client, (client.cursor + 1)..m) = (client.cursor + 1)..m
<1> DEFINE rows == (client.cursor + 1)..m
<1>1. \A n \in rows : (client.cursor + 1)..n \subseteq rows
  OBVIOUS
<1> HIDE DEF rows
<1> QED
  BY <1>1 DEF InOrder, rows

\* The client is shown the events up to number m, and its stream may end.
LEMMA Showing ==
  ASSUME IInv, NEW m \in Nat, client.cursor <= m, m <= run.latest,
         UNCHANGED <<job, run, events, results, holder, worker, overtaken>>,
         client' \in ClientRow, client'.heard = Nobody, client'.cursor = m,
         client'.shown = client.shown \cup ((client.cursor + 1)..m),
         client'.phase = "stopped" =>
           client.heard # Nobody /\ client.heard.state \in Terminal /\ m = run.latest
  PROVE  Kept /\ FeedStep
<1>1. /\ client.cursor \in Nat /\ run.latest \in Nat /\ client.shown \subseteq 1..run.latest
      /\ \A e \in events : e.seq \in 1..run.latest
  BY Polled DEF IInv, ListFits, DenseList, ClientFits
<1>2. client'.cursor \in 0..run'.latest /\ client'.shown \subseteq 1..run'.latest
  BY <1>1
<1>3. \A e \in events : Ending(e) /\ e.seq <= m => e.seq \in client'.shown
  <2>1. \A e \in events : Ending(e) /\ e.seq <= client.cursor => e.seq \in client.shown
    BY DEF IInv, ClientFits, Watching
  <2> QED
    BY <1>1, <2>1
<1>4. Watching'
  BY <1>2, <1>3 DEF Watching, Ending
<1>5. ASSUME ~overtaken', client'.phase = "stopped"
      PROVE  run.state = "failed" \/ \E e \in events : e.seq \in client'.shown /\ Ending(e)
  <2>1. CASE client.heard.state = "failed"
    BY <1>5, <2>1 DEF IInv, ClientFits, Watching
  <2>2. CASE client.heard.state \in {"completed", "cancelled"}
    <3>1. PICK e \in events : Ending(e)
      BY <1>5, <2>2 DEF IInv, ClientFits, Watching
    <3>2. e.seq <= m
      BY <1>1, <1>5
    <3> QED
      BY <1>3, <3>1, <3>2
  <2> QED
    BY <1>5, <2>1, <2>2 DEF Terminal
<1>6. ~overtaken' => StoppedShowsTheEnd'
  BY <1>5 DEF StoppedShowsTheEnd, Ending
<1>7. Kept
  BY <1>2, <1>4, <1>6, Unnoticed DEF ClientFits
<1>8. FeedStep
  <2>1. CASE m = client.cursor
    <3>1. (client.cursor + 1)..m = {}
      BY <1>1, <2>1
    <3> QED
      BY <2>1, <3>1 DEF FeedStep, Feed!vars
  <2>2. CASE m # client.cursor
    <3>1. Cardinality(events) = run.latest
      BY <1>1, Counting DEF IInv, ListFits
    <3>2. /\ client'.cursor > client.cursor /\ client'.cursor <= Cardinality(events)
          /\ client'.shown = client.shown \cup ((client.cursor + 1)..client'.cursor)
          /\ events' = events
      BY <1>1, <2>2, <3>1
    <3>3. Feed!Show
      BY <3>2, SameCount, Zenon DEF Feed!Show
    <3> QED
      BY <3>3 DEF FeedStep, Feed!Next
  <2> QED
    BY <2>1, <2>2
<1> QED
  BY <1>7, <1>8

LEMMA ConnectStep ==
  ASSUME IInv, Connect
  PROVE  Kept /\ FeedStep
<1>1. /\ client' = [client EXCEPT !.phase = "open", !.heard = Nobody]
      /\ UNCHANGED <<job, run, events, results, holder, worker, overtaken>>
  BY DEF Connect
<1>2. client \in ClientRow
  BY DEF IInv, ClientFits
<1>3. /\ client' \in ClientRow /\ client'.heard = Nobody /\ client'.phase = "open"
      /\ client'.cursor = client.cursor /\ client'.shown = client.shown
  BY <1>1, <1>2 DEF ClientRow
<1>4. ClientFits'
  BY <1>1, <1>3 DEF IInv, ClientFits, Watching, Ending, StoppedShowsTheEnd
<1>5. FeedStep
  BY <1>1, <1>3 DEF FeedStep, Feed!vars
<1> QED
  BY <1>1, <1>4, <1>5, Unnoticed

LEMMA StreamReadsRunStep ==
  ASSUME IInv, StreamReadsRun
  PROVE  Kept /\ FeedStep
<1> DEFINE heard == [state |-> run.state, latest |-> run.latest]
<1>1. /\ client' = [client EXCEPT !.heard = heard] /\ client.phase = "open"
      /\ UNCHANGED <<job, run, events, results, holder, worker, overtaken>>
  BY DEF StreamReadsRun
<1>2. client \in ClientRow
  BY DEF IInv, ClientFits
<1>3. heard \in Heard /\ heard.state = run.state
  BY DEF IInv, ListFits, RunRow, Heard
<1> HIDE DEF heard
<1>4. /\ client' \in ClientRow /\ client'.heard = heard /\ client'.phase = "open"
      /\ client'.cursor = client.cursor /\ client'.shown = client.shown
  BY <1>1, <1>2, <1>3 DEF ClientRow
<1>5. run.state \in {"completed", "cancelled"} => \E e \in events : Ending(e)
  BY DEF IInv, ListFits, StateFollowsEvents, Ending
<1>6. ClientFits'
  BY <1>1, <1>3, <1>4, <1>5 DEF IInv, ClientFits, Watching, Ending, StoppedShowsTheEnd
<1>7. FeedStep
  BY <1>1, <1>4 DEF FeedStep, Feed!vars
<1> QED
  BY <1>1, <1>6, <1>7, Unnoticed

\* Rows shown to the client as it is.
LEMMA RowsShown ==
  ASSUME IInv, NEW m \in Nat, client.cursor <= m, NEW c, c = ShowRows(client, (client.cursor + 1)..m)
  PROVE  /\ c \in ClientRow /\ c.cursor = m /\ c.phase = client.phase /\ c.heard = client.heard
         /\ c.shown = client.shown \cup ((client.cursor + 1)..m)
<1>1. client \in ClientRow /\ client.cursor \in Nat /\ client.shown \in SUBSET Nat
  BY DEF IInv, ClientFits, ClientRow
<1>2. LastOf((client.cursor + 1)..m, client.cursor) = m
  BY <1>1, Last
<1> DEFINE rows == (client.cursor + 1)..m
<1>3. rows \subseteq Nat
  BY <1>1
<1>4. c = [client EXCEPT !.cursor = LastOf(rows, client.cursor), !.shown = client.shown \cup rows]
  BY <1>1 DEF ShowRows, ClientRow
<1> HIDE DEF rows
<1>5. c = [client EXCEPT !.cursor = m, !.shown = client.shown \cup rows]
  BY <1>2, <1>4 DEF rows
<1>6. /\ c \in ClientRow /\ c.cursor = m /\ c.phase = client.phase /\ c.heard = client.heard
      /\ c.shown = client.shown \cup rows
  BY <1>1, <1>3, <1>5 DEF ClientRow
<1> QED
  BY <1>6 DEF rows

LEMMA StreamSendsEventsStep ==
  ASSUME IInv, StreamSendsEvents
  PROVE  Kept /\ FeedStep
<1>1. /\ client.phase = "open" /\ client.heard # Nobody
      /\ UNCHANGED <<job, run, events, results, holder, worker, overtaken>>
  BY DEF StreamSendsEvents
<1> DEFINE rows == (client.cursor + 1)..run.latest
<1>2. /\ Poll(client).rows = rows /\ client.cursor \in Nat /\ run.latest \in Nat
      /\ client.cursor <= run.latest /\ Poll(client).state = client.heard.state
  BY Polled DEF Poll
<1>3. InOrder(client, rows) = rows
  BY <1>2, Ordered
<1>4. PICK c : c = ShowRows(client, rows)
  OBVIOUS
<1>5. /\ c \in ClientRow /\ c.cursor = run.latest /\ c.phase = "open"
      /\ c.shown = client.shown \cup rows
  BY <1>1, <1>2, <1>4, RowsShown
<1>6. PICK next : next = [c EXCEPT !.heard = Nobody]
  OBVIOUS
<1>7. /\ next \in ClientRow /\ next.cursor = run.latest /\ next.phase = "open" /\ next.heard = Nobody
      /\ next.shown = client.shown \cup rows
  BY <1>5, <1>6 DEF ClientRow
<1>8. client' = IF EndsStream(client.heard.state) THEN [next EXCEPT !.phase = "stopped"] ELSE next
  <2> HIDE DEF rows
  <2> QED
    BY <1>2, <1>3, <1>4, <1>6 DEF StreamSendsEvents
<1>9. /\ client' \in ClientRow /\ client'.cursor = run.latest /\ client'.heard = Nobody
      /\ client'.shown = client.shown \cup rows
      /\ client'.phase = "stopped" => client.heard.state \in Terminal
  <2> HIDE DEF rows
  <2> QED
    BY <1>7, <1>8 DEF ClientRow, EndsStream
<1> QED
  BY <1>1, <1>2, <1>9, Showing

LEMMA CutStep ==
  ASSUME IInv, Cut
  PROVE  Kept /\ FeedStep
<1>1. UNCHANGED <<job, run, events, results, holder, worker, overtaken>>
  BY DEF Cut
<1>2. /\ Poll(client).rows = (client.cursor + 1)..run.latest /\ client.cursor \in Nat /\ run.latest \in Nat
      /\ client.cursor <= run.latest
  BY Polled
<1> DEFINE Sent(n) == IF client.heard = Nobody THEN {} ELSE {m \in Poll(client).rows : m <= n}
<1>3. PICK n \in client.cursor..run.latest :
        client' = [ShowRows(client, Sent(n)) EXCEPT !.phase = "off", !.heard = Nobody]
  BY DEF Cut
<1>0. PICK sent : sent = Sent(n)
  OBVIOUS
<1>4. PICK m \in Nat : /\ client.cursor <= m /\ m <= run.latest /\ sent = (client.cursor + 1)..m
  <2>1. CASE client.heard = Nobody
    <3>1. (client.cursor + 1)..client.cursor = {}
      BY <1>2
    <3> QED
      BY <1>0, <1>2, <1>3, <2>1, <3>1
  <2>2. CASE client.heard # Nobody
    <3>1. n \in Nat /\ client.cursor <= n /\ n <= run.latest
      BY <1>2
    <3>2. {m \in (client.cursor + 1)..run.latest : m <= n} = (client.cursor + 1)..n
      BY <1>2, <3>1
    <3> QED
      BY <1>0, <1>2, <1>3, <2>2, <3>1, <3>2
  <2> QED
    BY <2>1, <2>2
<1>5. PICK c : c = ShowRows(client, sent)
  OBVIOUS
<1>6. c \in ClientRow /\ c.cursor = m /\ c.shown = client.shown \cup ((client.cursor + 1)..m)
  BY <1>4, <1>5, RowsShown
<1>7. /\ client' \in ClientRow /\ client'.cursor = m /\ client'.heard = Nobody /\ client'.phase = "off"
      /\ client'.shown = client.shown \cup ((client.cursor + 1)..m)
  BY <1>0, <1>3, <1>5, <1>6 DEF ClientRow
<1> QED
  BY <1>1, <1>4, <1>7, Showing

LEMMA ReloadStep ==
  ASSUME IInv, Reload
  PROVE  Kept /\ FeedStep
<1>1. /\ UNCHANGED <<job, run, events, results, holder, worker, overtaken>>
      /\ client' = [phase |-> "off", heard |-> Nobody, shown |-> {},
                    cursor |-> IF run.state \in Terminal THEN 0 ELSE client.cursor]
  BY DEF Reload
<1>2. client.cursor \in 0..run.latest /\ client.cursor \in Nat /\ run.latest \in Nat
  BY Polled
<1>3. /\ client' \in ClientRow /\ client'.phase = "off" /\ client'.heard = Nobody /\ client'.shown = {}
      /\ client'.cursor \in {0, client.cursor}
      /\ run.state \in Terminal => client'.cursor = 0
  BY <1>1, <1>2 DEF ClientRow
<1>4. \A e \in events : Ending(e) /\ e.seq <= client'.cursor => FALSE
  <2>1. CASE run.state \in Terminal
    BY <1>3, <2>1 DEF IInv, ListFits, DenseList
  <2>2. CASE run.state \notin Terminal
    BY <2>2 DEF IInv, ListFits, NoEarlyEnd, RunRow, States
  <2> QED
    BY <2>1, <2>2
<1>5. ClientFits'
  <2>1. Watching'
    BY <1>1, <1>2, <1>3, <1>4 DEF Watching, Ending
  <2> QED
    BY <1>3, <2>1 DEF ClientFits, StoppedShowsTheEnd
<1>6. FeedStep
  BY <1>1, <1>3 DEF FeedStep, Feed!Next, Feed!Forget
<1> QED
  BY <1>1, <1>5, <1>6, Unnoticed

-----------------------------------------------------------------------------
(* The theorems.                                                           *)

LEMMA Starting ==
  ASSUME Init
  PROVE  IInv /\ Feed!Init
<1>1. /\ job \in Jobs /\ overtaken \in BOOLEAN
      /\ run = [state |-> "queued", attempt |-> Nobody, lease |-> "none", latest |-> 1]
      /\ events = {[seq |-> 1, what |-> Shared("queued")]}
      /\ results = {} /\ holder = Nobody /\ worker = [w \in Workers |-> IdleWorker]
      /\ client = [phase |-> "off", heard |-> Nobody, cursor |-> 0, shown |-> {}]
  BY DEF Init
<1>2. <<>> \in Seq(Steps) /\ \A i \in 1..Len(<<>>) : FALSE
  OBVIOUS
<1>3. /\ IdleWorker \in WorkerRow /\ IdleWorker.attempt = Nobody /\ IdleWorker.phase = "ready"
      /\ IdleWorker.todo = <<>>
  BY <1>2 DEF IdleWorker, WorkerRow
<1>4. WorkersFit
  <2>1. worker \in [Workers -> WorkerRow] /\ \A w \in Workers : worker[w] = IdleWorker
    BY <1>1, <1>3
  <2>2. \A w \in Workers : worker[w].phase # "locked" /\ holder # w
    BY <1>1, <1>3, <2>1, NobodyIsNone
  <2> QED
    BY <1>1, <1>2, <1>3, <2>1, <2>2 DEF WorkersFit, Apart, Placed, PersistLast
<1>5. ListFits
  <2> DEFINE first == [seq |-> 1, what |-> Shared("queued")]
  <2>1. first \in EventRow /\ first.seq = 1 /\ first.what.by = Nobody /\ first.what.name = "queued"
    BY DEF EventRow, Whats, Names, Shared
  <2>2. run \in RunRow /\ run.latest = 1 /\ run.state = "queued"
    BY <1>1 DEF RunRow, States, Unfinished
  <2> HIDE DEF first
  <2>3. events = {first}
    BY <1>1 DEF first
  <2>4. {e.seq : e \in events} = 1..1
    <3>1. {e.seq : e \in events} = {1}
      BY <2>1, <2>3
    <3> QED
      BY <3>1
  <2>5. DenseList(events, run.latest)
    BY <2>2, <2>3, <2>4 DEF DenseList
  <2>6. Unrepeated /\ NoEarlyEnd
    BY <1>1, <2>1, <2>3 DEF Unrepeated, NoEarlyEnd, Ending
  <2>7. StateFollowsEvents
    BY <2>2 DEF StateFollowsEvents
  <2> QED
    BY <1>1, <2>1, <2>2, <2>3, <2>5, <2>6, <2>7 DEF ListFits
<1>6. Once /\ Fenced
  <2>1. \A w \in Workers : worker[w].phase # "checked"
    BY <1>1, <1>3
  <2> QED
    BY <1>1, <2>1 DEF Once, Fenced
<1>7. ClientFits
  <2>1. /\ client \in ClientRow /\ client.cursor = 0 /\ client.heard = Nobody /\ client.shown = {}
        /\ client.phase = "off" /\ run.latest = 1
    BY <1>1 DEF ClientRow
  <2>2. \A e \in events : ~Ending(e)
    BY <1>1 DEF Ending, Shared
  <2> QED
    BY <2>1, <2>2 DEF ClientFits, Watching, StoppedShowsTheEnd
<1>8. Feed!Init
  BY <1>1 DEF Feed!Init
<1> QED
  BY <1>1, <1>4, <1>5, <1>6, <1>7, <1>8 DEF IInv

LEMMA Stepping ==
  ASSUME IInv, [Next]_vars
  PROVE  Kept /\ FeedStep
<1>1. ASSUME NEW w \in Workers, Claim(w) \/ WorkerStep(w) \/ Crash(w)
      PROVE  Kept /\ FeedStep
  <2>1. client' = client
    BY <1>1 DEF Claim, WorkerStep, Crash, Start, LockForEvent, AppendEvent, Beat, Propose,
                CheckResult, CommitResult, Complete, Fail
  <2>2. Kept
    BY <1>1, ClaimStep, StartStep, LockForEventStep, AppendEventStep, BeatStep, ProposeStep,
       CheckResultStep, CommitResultStep, CompleteStep, FailStep, CrashStep DEF WorkerStep
  <2> QED
    BY <2>1, <2>2, Publishing
<1>2. ASSUME LeasePasses \/ CommitCancel
      PROVE  Kept /\ FeedStep
  <2>1. client' = client
    BY <1>2 DEF LeasePasses, CommitCancel
  <2> QED
    BY <1>2, <2>1, LeasePassesStep, CommitCancelStep, Publishing
<1>3. ASSUME ReadForCancel \/ UNCHANGED vars
      PROVE  Kept /\ FeedStep
  <2>1. UNCHANGED <<job, run, events, results, holder, worker, overtaken, client>>
    BY <1>3 DEF ReadForCancel, vars
  <2> QED
    BY <2>1, Unseen, Publishing
<1>4. ASSUME ClientStep \/ Cut \/ Reload
      PROVE  Kept /\ FeedStep
  BY <1>4, ConnectStep, StreamReadsRunStep, StreamSendsEventsStep, CutStep, ReloadStep DEF ClientStep
<1> QED
  BY <1>1, <1>2, <1>3, <1>4 DEF Next

THEOREM Inductive == Spec => []IInv
<1>1. Init => IInv
  BY Starting
<1>2. IInv /\ [Next]_vars => IInv'
  BY Stepping DEF Kept
<1> QED
  BY <1>1, <1>2, PTL DEF Spec

\* Type correctness: every variable keeps its shape, and the row's lock is
\* held by the worker inside append_run_event and by nobody else.
THEOREM TypeCorrect == Spec => []TypeOK
<1>1. IInv => TypeOK
  <2> SUFFICES ASSUME IInv PROVE TypeOK
    OBVIOUS
  <2>1. job \in Jobs /\ run \in RunRow /\ results \subseteq Attempts /\ holder \in Workers \cup {Nobody}
    BY DEF IInv, ListFits, WorkersFit
  <2>2. \A e \in events : e.seq \in 1..run.latest /\ e.what.by \in Attempts \cup {Nobody}
    <3>1. \A e \in events : e.seq \in 1..run.latest
      BY DEF IInv, ListFits, DenseList
    <3>2. \A e \in events : e \in EventRow
      BY DEF IInv, ListFits
    <3> QED
      BY <3>1, <3>2 DEF EventRow, Whats
  <2>3. \A w \in Workers :
          /\ worker[w].phase \in {"ready", "locked", "checked"}
          /\ (worker[w].phase = "locked") <=> (holder = w)
          /\ (worker[w].attempt = Nobody) <=> (worker[w].todo = <<>>)
    BY WorkerFields DEF IInv, WorkersFit
  <2>4. client.phase \in {"off", "open", "stopped"} /\ client.shown \subseteq 1..run.latest
    BY DEF IInv, ClientFits, ClientRow
  <2> QED
    BY <2>1, <2>2, <2>3, <2>4 DEF TypeOK, RunRow
<1> QED
  BY <1>1, Inductive, PTL

\* The row of a run and its event list agree on how the run ended, whatever
\* results, failures and cancellations commit from reads that are stale.
THEOREM EventsTellTheEnd == Spec => []StateFollowsEvents
<1>1. IInv => StateFollowsEvents
  BY DEF IInv, ListFits
<1> QED
  BY <1>1, Inductive, PTL

\* Unless a lease ran out between the check of a result and its commit, a run
\* has one attempt's Evidence and Claim and stays completed with them.
THEOREM ResultsAreFinal == Spec => []ResultIsFinal
<1>1. IInv => ResultIsFinal
  <2> SUFFICES ASSUME IInv, ~overtaken
               PROVE  Cardinality(results) <= 1 /\ (results # {} => run.state = "completed")
    BY DEF ResultIsFinal
  <2>1. results \subseteq {run.attempt} /\ (results # {} => run.state = "completed")
    BY DEF IInv, Fenced
  <2>2. Cardinality(results) <= 1
    <3>1. IsFiniteSet({run.attempt}) /\ Cardinality({run.attempt}) = 1
      BY FS_Singleton
    <3> QED
      BY <2>1, <3>1, FS_Subset
  <2> QED
    BY <2>1, <2>2
<1> QED
  BY <1>1, Inductive, PTL

\* Under the same proviso a client whose stream the server closed shows how
\* the run ended, or the run failed: the state is read before the events.
THEOREM TheEndIsShown == Spec => [](~overtaken => StoppedShowsTheEnd)
<1>1. IInv => (~overtaken => StoppedShowsTheEnd)
  BY DEF IInv, ClientFits
<1> QED
  BY <1>1, Inductive, PTL

\* append_run_event, the stream and the client's cursor implement the feed of
\* RunFeed: dense numbers, nothing recorded twice, and nothing skipped.
THEOREM FeedIsImplemented == Spec => FeedIsKept
<1>1. Init => Feed!Init
  BY Starting
<1>2. IInv /\ [Next]_vars => [Feed!Next]_(Feed!vars)
  BY Stepping DEF FeedStep
<1> QED
  BY <1>1, <1>2, Inductive, PTL DEF Spec, FeedIsKept, Feed!Spec
-----------------------------------------------------------------------------
(* Where runs come from: the requests of Investigations that triage a      *)
(* signal, investigate it and queue a run.                                 *)
(*                                                                         *)
(* Any request may write a signal over from a row that is long out of      *)
(* date, so the invariant is about the rows requests have read as well:    *)
(* a row whose status or earlier status asks for a triage is a confirmed   *)
(* one, and once confirmed the signal stays so (Trusted).                  *)
CONSTANTS Threads, MaxRequests, MaxInvestigations, MaxRuns
VARIABLES signal, investigations, request, requests

Origin == INSTANCE Investigations

Untriaged == {"new", "monitoring", "dismissed"}

\* A row that is past triage, or was before its disposition, is confirmed.
Sound(row) ==
  /\ row.status \notin Untriaged => row.confirmed
  /\ row.previous \notin Untriaged => row.confirmed

Trusted(seen) == seen \in Origin!SignalRow /\ Sound(seen) /\ (seen.confirmed => signal.confirmed)

\* The inductive invariant.
TriageInv ==
  /\ signal \in Origin!SignalRow /\ Sound(signal)
  /\ request \in [Threads -> {request[t] : t \in Threads}]  \* a function of the threads
  /\ \A t \in Threads : request[t] # Origin!IdleRequest => Trusted(request[t].signal)
  /\ investigations # <<>> => signal.confirmed

-----------------------------------------------------------------------------
LEMMA UpdatedRow ==
  ASSUME NEW row \in Origin!SignalRow, NEW read \in Origin!SignalRow, NEW edited \in Origin!SignalRow,
         edited.confirmed = read.confirmed
  PROVE  /\ Origin!Updated(row, read, edited) \in Origin!SignalRow
         /\ Origin!Updated(row, read, edited).status \in {row.status, edited.status}
         /\ Origin!Updated(row, read, edited).confirmed = row.confirmed
         /\ Origin!Updated(row, read, edited).previous \in {row.previous, edited.previous}
<1> DEFINE u == Origin!Updated(row, read, edited)
<1>1. DOMAIN row = {"status", "version", "confirmed", "action", "previous"}
  BY DEF Origin!SignalRow
<1>2. /\ u.status = IF edited.status # read.status THEN edited.status ELSE row.status
      /\ u.version = IF edited.version # read.version THEN edited.version ELSE row.version
      /\ u.confirmed = IF edited.confirmed # read.confirmed THEN edited.confirmed ELSE row.confirmed
      /\ u.action = IF edited.action # read.action THEN edited.action ELSE row.action
      /\ u.previous = IF edited.previous # read.previous THEN edited.previous ELSE row.previous
  BY <1>1 DEF Origin!Updated
<1>3. u = [status |-> u.status, version |-> u.version, confirmed |-> u.confirmed,
           action |-> u.action, previous |-> u.previous]
  BY <1>1 DEF Origin!Updated
<1> HIDE DEF u
<1>4. /\ u.status \in {row.status, edited.status} /\ u.version \in {row.version, edited.version}
      /\ u.confirmed = row.confirmed
      /\ u.action \in {row.action, edited.action} /\ u.previous \in {row.previous, edited.previous}
  BY <1>2
<1>5. u \in Origin!SignalRow
  BY <1>3, <1>4 DEF Origin!SignalRow
<1> QED
  BY <1>4, <1>5 DEF u

\* The row a request would write, with another status and the next version.
LEMMA EditedRow ==
  ASSUME NEW read \in Origin!SignalRow, NEW status \in Origin!SignalStates
  PROVE  LET edited == [read EXCEPT !.status = status, !.version = @ + 1]
         IN  /\ edited \in Origin!SignalRow
             /\ edited.status = status /\ edited.confirmed = read.confirmed
             /\ edited.previous = read.previous
<1>1. read.version \in Nat
  BY DEF Origin!SignalRow
<1>2. read.version + 1 \in Nat
  BY <1>1
<1> DEFINE next == read.version + 1
<1>3. [read EXCEPT !.status = status, !.version = @ + 1] = [read EXCEPT !.status = status, !.version = next]
  OBVIOUS
<1> HIDE DEF next
<1>4. next \in Nat => [read EXCEPT !.status = status, !.version = next] \in Origin!SignalRow
  BY DEF Origin!SignalRow
<1>5. /\ [read EXCEPT !.status = status, !.version = next].status = status
      /\ [read EXCEPT !.status = status, !.version = next].confirmed = read.confirmed
      /\ [read EXCEPT !.status = status, !.version = next].previous = read.previous
  BY DEF Origin!SignalRow
<1> QED
  BY <1>2, <1>3, <1>4, <1>5 DEF next

\* A request that ends leaves the others as they were.
LEMMA Responded ==
  ASSUME NEW t \in Threads, Origin!Respond(t), TriageInv
  PROVE  /\ request' \in [Threads -> {request'[u] : u \in Threads}]
         /\ \A u \in Threads : request'[u] \in {request[u], Origin!IdleRequest}
  BY DEF Origin!Respond, TriageInv

\* A step that keeps the signal confirmed keeps what requests have read trusted.
LEMMA HandleKeeps ==
  ASSUME TriageInv, NEW t \in Threads, Origin!Respond(t), signal' \in Origin!SignalRow, Sound(signal'),
         signal.confirmed => signal'.confirmed, investigations' # <<>> => signal'.confirmed
  PROVE  TriageInv'
  BY Responded DEF TriageInv, Trusted

LEMMA DisposeKeeps ==
  ASSUME TriageInv, NEW t \in Threads, request[t] # Origin!IdleRequest,
         NEW status \in Origin!SignalStates, NEW action \in {"investigate", "explain", "monitor", "dismiss", "undo"},
         NEW previous \in Origin!SignalStates, Origin!Dispose(t, status, action, previous),
         status \notin Untriaged \/ previous \notin Untriaged => request[t].signal.confirmed
  PROVE  TriageInv'
<1> DEFINE read   == request[t].signal
           edited == [read EXCEPT !.status = status, !.version = @ + 1]
           u      == Origin!Updated(signal, read, edited)
<1>1. read \in Origin!SignalRow /\ signal \in Origin!SignalRow /\ (read.confirmed => signal.confirmed)
  BY DEF TriageInv, Trusted
<1>2. edited \in Origin!SignalRow /\ edited.confirmed = read.confirmed /\ edited.status = status
  BY <1>1, EditedRow
<1>3. u \in Origin!SignalRow /\ u.status \in {signal.status, status} /\ u.confirmed = signal.confirmed
  <2> HIDE DEF edited, read
  <2> QED
    BY <1>1, <1>2, UpdatedRow
<1>4. signal' = [u EXCEPT !.action = action, !.previous = previous]
  BY DEF Origin!Dispose
<1> HIDE DEF u, edited
<1>5. /\ signal' \in Origin!SignalRow /\ signal'.status = u.status
      /\ signal'.confirmed = signal.confirmed /\ signal'.previous = previous
  BY <1>3, <1>4 DEF Origin!SignalRow
<1>6. Sound(signal')
  BY <1>1, <1>3, <1>5 DEF Sound, TriageInv
<1> QED
  BY <1>5, <1>6, HandleKeeps DEF Origin!Dispose, TriageInv

LEMMA TriageKeeps ==
  ASSUME TriageInv, NEW t \in Threads, Origin!Triage(t)
  PROVE  TriageInv'
<1> DEFINE read   == request[t].signal
           edited == [read EXCEPT !.status = "triaged", !.version = @ + 1]
           u      == Origin!Updated(signal, read, edited)
<1>1. read \in Origin!SignalRow /\ signal \in Origin!SignalRow
  BY DEF TriageInv, Trusted, Origin!Triage, Origin!IdleRequest
<1>2. edited \in Origin!SignalRow /\ edited.confirmed = read.confirmed
  BY <1>1, EditedRow DEF Origin!SignalStates
<1>3. u \in Origin!SignalRow
  <2> HIDE DEF edited, read
  <2> QED
    BY <1>1, <1>2, UpdatedRow
<1>4. signal' = [u EXCEPT !.confirmed = TRUE]
  BY DEF Origin!Triage
<1> HIDE DEF u, edited
<1>5. signal' \in Origin!SignalRow /\ signal'.confirmed
  BY <1>3, <1>4 DEF Origin!SignalRow
<1> QED
  BY <1>5, HandleKeeps DEF Origin!Triage, Sound

LEMMA MoveSignalKeeps ==
  ASSUME TriageInv, NEW t \in Threads, Origin!MoveSignal(t)
  PROVE  TriageInv'
<1> DEFINE read == request[t].signal
<1>1. request[t] # Origin!IdleRequest
  BY DEF Origin!MoveSignal, Origin!IdleRequest
<1>2. read \in Origin!SignalRow /\ Sound(read)
  BY <1>1 DEF TriageInv, Trusted
<1>3. PICK move \in Origin!SignalMoves :
        /\ move[1] = read.status
        /\ move[2] = "investigate" => Origin!MayInvestigate(read)
        /\ Origin!Dispose(t, move[3], move[2], read.status)
  BY DEF Origin!MoveSignal
<1>4. /\ move[3] \in Origin!SignalStates
      /\ move[2] \in {"investigate", "explain", "monitor", "dismiss", "undo"}
      /\ move[3] \notin Untriaged =>
           move[1] \in {"triaged", "investigating"} \/ (move[1] = "monitoring" /\ move[2] = "investigate")
  BY DEF Origin!SignalMoves, Origin!SignalStates, Untriaged
<1>5. move[3] \notin Untriaged \/ read.status \notin Untriaged => read.confirmed
  BY <1>2, <1>3, <1>4 DEF Sound, Origin!MayInvestigate, Untriaged
<1> QED
  BY <1>1, <1>2, <1>3, <1>4, <1>5, DisposeKeeps DEF Origin!SignalRow

LEMMA UndoSignalKeeps ==
  ASSUME TriageInv, NEW t \in Threads, Origin!UndoSignal(t)
  PROVE  TriageInv'
<1>1. request[t] # Origin!IdleRequest
  BY DEF Origin!UndoSignal, Origin!IdleRequest
<1>2. request[t].signal \in Origin!SignalRow /\ Sound(request[t].signal)
  BY <1>1 DEF TriageInv, Trusted
<1>3. request[t].signal.previous \in Origin!SignalStates
  BY <1>2 DEF Origin!SignalRow
<1>4. Origin!Dispose(t, request[t].signal.previous, "undo", request[t].signal.previous)
  BY DEF Origin!UndoSignal
<1> QED
  BY <1>1, <1>2, <1>3, <1>4, DisposeKeeps DEF Sound

LEMMA CreateRunKeeps ==
  ASSUME TriageInv, NEW t \in Threads, Origin!CreateRun(t)
  PROVE  TriageInv'
<1> DEFINE seen   == request[t].signal
           edited == [seen EXCEPT !.status = "investigating", !.version = @ + 1]
           u      == Origin!Updated(signal, seen, edited)
<1>1. request[t] # Origin!IdleRequest
  BY DEF Origin!CreateRun, Origin!IdleRequest
<1>2. seen \in Origin!SignalRow /\ signal \in Origin!SignalRow /\ (seen.confirmed => signal.confirmed)
  BY <1>1 DEF TriageInv, Trusted
<1>3. CASE UNCHANGED signal /\ request[t].row.status # "draft"
  <2>1. investigations' # <<>> => investigations # <<>>
    BY <1>3 DEF Origin!CreateRun
  <2> QED
    BY <1>3, <2>1, HandleKeeps DEF Origin!CreateRun, TriageInv
<1>4. CASE Origin!Triaged(seen) /\ signal' = u
  <2>1. edited \in Origin!SignalRow /\ edited.confirmed = seen.confirmed /\ edited.previous = seen.previous
    BY <1>2, EditedRow DEF Origin!SignalStates
  <2>2. u \in Origin!SignalRow /\ u.confirmed = signal.confirmed
    <3> HIDE DEF edited, seen
    <3> QED
      BY <1>2, <2>1, UpdatedRow
  <2>3. signal.confirmed
    BY <1>2, <1>4 DEF Origin!Triaged
  <2> HIDE DEF u
  <2> QED
    BY <1>4, <2>2, <2>3, HandleKeeps DEF Origin!CreateRun, Sound
<1> QED
  BY <1>3, <1>4 DEF Origin!CreateRun

LEMMA ReadKeeps ==
  ASSUME TriageInv, NEW t \in Threads, NEW op, op # "idle", NEW i, Origin!Read(t, op, i)
  PROVE  TriageInv'
<1>1. /\ request' \in [Threads -> {request'[u] : u \in Threads}]
      /\ request'[t].signal = signal
      /\ \A u \in Threads : u # t => request'[u] = request[u]
  BY DEF Origin!Read, TriageInv
<1>2. UNCHANGED <<signal, investigations>>
  BY DEF Origin!Read
<1> QED
  BY <1>1, <1>2 DEF TriageInv, Trusted

LEMMA NextKeeps ==
  ASSUME TriageInv, [Origin!Next]_(Origin!vars)
  PROVE  TriageInv'
<1>1. CASE UNCHANGED Origin!vars
  BY <1>1 DEF Origin!vars, TriageInv, Trusted
<1>2. ASSUME NEW t \in Threads, Origin!Handle(t)  PROVE TriageInv'
  <2>1. CASE Origin!CreateInvestigation(t)
    <3>1. investigations' # <<>> => investigations # <<>> \/ Origin!Triaged(request[t].signal)
      BY <2>1 DEF Origin!CreateInvestigation
    <3>2. request[t] # Origin!IdleRequest
      BY <2>1 DEF Origin!CreateInvestigation, Origin!IdleRequest
    <3> QED
      BY <2>1, <3>1, <3>2, HandleKeeps DEF Origin!CreateInvestigation, TriageInv, Trusted, Origin!Triaged
  <2>2. CASE Origin!MoveInvestigation(t)
    <3>1. investigations' # <<>> => investigations # <<>>
      BY <2>2 DEF Origin!MoveInvestigation
    <3> QED
      BY <2>2, <3>1, HandleKeeps DEF Origin!MoveInvestigation, TriageInv
  <2>3. CASE Origin!EndRequest(t)
    BY <2>3, HandleKeeps DEF Origin!EndRequest, TriageInv
  <2> QED
    BY <1>2, <2>1, <2>2, <2>3, TriageKeeps, MoveSignalKeeps, UndoSignalKeeps, CreateRunKeeps DEF Origin!Handle
<1>3. ASSUME NEW i \in DOMAIN investigations, Origin!ReviseScope(i)  PROVE TriageInv'
  <2>1. UNCHANGED <<signal, request>> /\ (investigations' # <<>> => investigations # <<>>)
    BY <1>3 DEF Origin!ReviseScope
  <2> QED
    BY <2>1 DEF TriageInv, Trusted
<1> QED
  BY <1>1, <1>2, <1>3, ReadKeeps DEF Origin!Next

\* In every state of every instance, nothing is investigated or explained and no
\* investigation exists unless the signal has been triaged.
THEOREM ResearchIsTriaged == Origin!Spec => []Origin!ResearchFollowsTriage
<1>1. Origin!Init => TriageInv
  BY DEF Origin!Init, TriageInv, Origin!SignalRow, Origin!SignalStates, Sound, Untriaged
<1>2. TriageInv /\ [Origin!Next]_(Origin!vars) => TriageInv'
  BY NextKeeps
<1>3. TriageInv => Origin!ResearchFollowsTriage
  BY DEF TriageInv, Sound, Untriaged, Origin!ResearchFollowsTriage
<1> QED
  BY <1>1, <1>2, <1>3, PTL DEF Origin!Spec
=============================================================================
