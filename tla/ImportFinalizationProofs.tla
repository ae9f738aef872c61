---------------------- MODULE ImportFinalizationProofs ----------------------
(***************************************************************************)
(* What TLAPS proves of ImportFinalization for every number of sessions,   *)
(* sources, workers and concurrent requests, and with no bound on versions,*)
(* source edits or faults other than the guards' own.                      *)
(*                                                                         *)
(* LinearHistory alone is not inductive: a manifest could have replaced a  *)
(* pointer to a session that publishes only later.  Published rules that   *)
(* out, and says the pin of a published session is never set again.        *)
(*                                                                         *)
(* A validating session keeps its command because a worker fails only what *)
(* it holds, and what is claimed is validating (Driven).  Only the late    *)
(* write of a request can break that, which takes two requests at a time.  *)
(***************************************************************************)
EXTENDS ImportFinalization, FiniteSetTheorems, TLAPS

\* A published session exists, and what it replaced was published before it.
Published ==
  \A s \in manifests :
    /\ session[s].state # "none"
    /\ pinned[s].pointer \in manifests \cup {Nobody}

\* The inductive invariant: types, the line of manifests, and Published.
IInv == TypeOK /\ LinearHistory /\ Published

\* What one step of a worker or of a request may read is of the right type.
LEMMA BusyWorkerFields ==
  ASSUME TypeOK, NEW w \in Workers, worker[w] # IdleWorker
  PROVE  /\ worker[w] \in BusyWorkers
         /\ worker[w].s \in Sessions
         /\ worker[w].pc \in PCs
         /\ worker[w].version \in Nat /\ worker[w].seenVersion \in Nat
         /\ worker[w].seen \in SessionStates
         /\ worker[w].outcome \in {"failed", "retryable"}
  BY DEF TypeOK, BusyWorkers, PCs

LEMMA NotIdle ==
  ASSUME TypeOK, NEW w \in Workers, worker[w].pc # "idle"
  PROVE  worker[w] # IdleWorker
  BY DEF IdleWorker

LEMMA BusyRequestFields ==
  ASSUME TypeOK, NEW t \in Threads, request[t].op # "idle"
  PROVE  /\ request[t] \in BusyRequests
         /\ request[t].s \in Sessions
         /\ request[t].op # "store" => request[t].version \in Nat
  BY DEF TypeOK, BusyRequests, IdleRequest

LEMMA PinFields ==
  ASSUME TypeOK, NEW s \in Sessions
  PROVE  /\ SourceOf(s) \in Sources
         /\ source[SourceOf(s)].version \in Nat
         /\ source[SourceOf(s)].pointer \in Pointers
  BY DEF TypeOK, Pin, Fence, SourceOf

-----------------------------------------------------------------------------
(* Type correctness.                                                       *)

\* Writing a session row, or columns of a job row, keeps the table's type.
LEMMA WriteSession ==
  ASSUME TypeOK, NEW s \in Sessions, NEW st \in SessionStates, NEW v \in Nat
  PROVE  [session EXCEPT ![s] = [state |-> st, version |-> v]] \in [Sessions -> SessionRow]
  BY DEF TypeOK, SessionRow

LEMMA ReadSessionRow ==
  ASSUME TypeOK, NEW s \in Sessions
  PROVE  session[s].state \in SessionStates /\ session[s].version \in Nat
  BY DEF TypeOK, SessionRow

LEMMA WriteJob ==
  ASSUME TypeOK, NEW s \in Sessions, NEW row \in JobRow
  PROVE  [job EXCEPT ![s] = row] \in [Sessions -> JobRow]
  BY DEF TypeOK

LEMMA SettleJob ==
  ASSUME TypeOK, NEW s \in Sessions, NEW st \in JobStates
  PROVE  [job EXCEPT ![s].state = st, ![s].live = FALSE] \in [Sessions -> JobRow]
<1>1. [job[s] EXCEPT !.state = st, !.live = FALSE] \in JobRow
  BY DEF TypeOK, JobRow
<1>2. [job EXCEPT ![s].state = st, ![s].live = FALSE]
        = [job EXCEPT ![s] = [job[s] EXCEPT !.state = st, !.live = FALSE]]
  BY DEF TypeOK
<1> QED
  BY <1>1, <1>2, WriteJob

LEMMA TypeInit == Init => TypeOK
<1> SUFFICES ASSUME Init PROVE TypeOK
  OBVIOUS
<1> QED
  BY ImportConstants DEF ImportConstants, Init, TypeOK, SessionRow, SessionStates, TerminalStates,
     JobRow, JobStates, Fence, Pin, Pointers, Names, IdleWorker, IdleRequest

\* The API handlers keep the types.
LEMMA TypeHandlers ==
  ASSUME TypeOK, NEW t \in Threads, Handler(t)
  PROVE  TypeOK'
<1>0. {"uploaded", "failed", "validating", "cancelled"} \subseteq SessionStates
  BY DEF SessionStates, ActiveStates, TerminalStates
<1>1. CASE CommitStore(t)
  BY <1>1, BusyRequestFields DEF CommitStore, Respond, TypeOK
<1>2. CASE CommitCompleteUpload(t)
  <2>1. request[t].s \in Sessions /\ request[t].version + 1 \in Nat
    BY <1>2, BusyRequestFields DEF CommitCompleteUpload
  <2>2. session' \in [Sessions -> SessionRow]
    BY <1>0, <1>2, <2>1, WriteSession DEF CommitCompleteUpload
  <2>3. object' \in [Sessions -> {"none", "good", "bad"}]
    BY <1>2, <2>1 DEF CommitCompleteUpload, TypeOK
  <2> QED
    BY <1>2, <2>2, <2>3 DEF CommitCompleteUpload, Respond, TypeOK
<1>3. CASE CommitFinalize(t)
  <2> DEFINE s == request[t].s
             v == request[t].version + 1
             n == Cardinality({r \in Sessions : job[r].state # "none"})
  <2>1. s \in Sessions /\ v \in Nat
    BY <1>3, BusyRequestFields DEF CommitFinalize
  <2>2. n \in Nat
    <3>1. {r \in Sessions : job[r].state # "none"} \subseteq Sessions
      OBVIOUS
    <3> QED
      BY <3>1, FS_Subset, FS_CardinalityType, ImportConstants DEF ImportConstants
  <2>3. session' \in [Sessions -> SessionRow]
    BY <1>0, <1>3, <2>1, WriteSession DEF CommitFinalize
  <2>4. job' \in [Sessions -> JobRow]
    <3>1. CASE job' = [job EXCEPT ![s] = [state |-> "queued", holder |-> Nobody, live |-> FALSE,
                                         version |-> v, ticket |-> 1 + n]]
      <4>1. [state |-> "queued", holder |-> Nobody, live |-> FALSE,
             version |-> v, ticket |-> 1 + n] \in JobRow
        BY <2>1, <2>2 DEF JobRow, JobStates
      <4> QED
        BY <3>1, <4>1, <2>1, WriteJob
    <3>2. CASE job' = [job EXCEPT ![s].state = "queued", ![s].holder = Nobody, ![s].version = v]
      <4>1. [job[s] EXCEPT !.state = "queued", !.holder = Nobody, !.version = v] \in JobRow
        <5>1. job[s] \in JobRow /\ v \in Nat
          BY <2>1 DEF TypeOK
        <5> HIDE DEF v
        <5> QED
          BY <5>1 DEF JobStates, JobRow
      <4>2. job' = [job EXCEPT ![s] = [job[s] EXCEPT !.state = "queued", !.holder = Nobody,
                                                     !.version = v]]
        BY <3>2, <2>1 DEF TypeOK
      <4> QED
        BY <4>1, <4>2, <2>1, WriteJob
    <3> QED
      BY <3>1, <3>2, <1>3 DEF CommitFinalize
  <2> QED
    BY <1>3, <2>3, <2>4 DEF CommitFinalize, Respond, TypeOK
<1>4. CASE CommitCancel(t)
  <2>1. request[t].s \in Sessions /\ request[t].version + 1 \in Nat
    BY <1>4, BusyRequestFields DEF CommitCancel
  <2>2. session' \in [Sessions -> SessionRow]
    BY <1>0, <1>4, <2>1, WriteSession DEF CommitCancel
  <2>3. /\ consent' \in [Sessions -> {"none", "granted", "expired", "revoked"}]
        /\ object' \in [Sessions -> {"none", "good", "bad"}]
    BY <1>4, <2>1 DEF CommitCancel, TypeOK
  <2> QED
    BY <1>4, <2>2, <2>3 DEF CommitCancel, Respond, TypeOK
<1>5. CASE CancelDiesAfterDelete(t)
  BY <1>5, BusyRequestFields DEF CancelDiesAfterDelete, Respond, TypeOK
<1>6. CASE AbandonRequest(t)
  BY <1>6 DEF AbandonRequest, Respond, TypeOK
<1>7. ASSUME NEW s \in Sessions,
             BeginStore(t, s) \/ BeginCompleteUpload(t, s) \/ BeginFinalize(t, s) \/ BeginCancel(t, s)
      PROVE  TypeOK'
  <2>1. PICK row \in BusyRequests : Read(t, row)
    BY <1>7, ReadSessionRow DEF BeginStore, BeginCompleteUpload, BeginFinalize, BeginCancel,
       BusyRequests
  <2> QED
    BY <2>1 DEF Read, TypeOK
<1> QED
  BY <1>1, <1>2, <1>3, <1>4, <1>5, <1>6, <1>7 DEF Handler

\* The worker's steps keep the types.
LEMMA TypeWorker ==
  ASSUME TypeOK, NEW w \in Workers, Step(w) \/ Crash(w)
  PROVE  TypeOK'
<1> DEFINE WorkerTable == [Workers -> {IdleWorker} \cup BusyWorkers]
<1>0. /\ {"validating", "failed", "retryable", "finalized"} \subseteq SessionStates
      /\ {"claimed", "failed", "retryable", "completed"} \subseteq JobStates
      /\ NameOf[w] \in Names
  BY DEF SessionStates, ActiveStates, TerminalStates, JobStates, Names
<1>1. ASSUME NEW s \in Sessions, NEW v \in Nat
      PROVE  [worker EXCEPT ![w] = Command(s, v)] \in WorkerTable
  <2>1. Command(s, v) \in BusyWorkers
    BY <1>0 DEF Command, BusyWorkers, PCs
  <2> QED
    BY <2>1 DEF TypeOK
<1>2. ASSUME worker[w].pc # "idle", NEW outcome \in {"failed", "retryable"},
             BeginFail(w, outcome)
      PROVE  worker' \in WorkerTable
  <2> DEFINE s   == worker[w].s
             row == [worker[w] EXCEPT !.pc = "failing", !.outcome = outcome,
                                      !.seen = session[s].state, !.seenVersion = session[s].version]
  <2>1. worker[w] \in BusyWorkers /\ s \in Sessions
    BY <1>2, NotIdle, BusyWorkerFields
  <2>2. row \in BusyWorkers
    BY <2>1, ReadSessionRow DEF BusyWorkers, PCs
  <2>3. worker' = [worker EXCEPT ![w] = row]
    BY <1>2 DEF BeginFail, TypeOK
  <2> QED
    BY <2>2, <2>3 DEF TypeOK
<1>3. ASSUME Exit(w)
      PROVE  worker' \in WorkerTable
  BY <1>3 DEF Exit, TypeOK
<1>4. ASSUME NEW pc \in PCs \ {"idle"}, worker[w].pc # "idle",
             worker' = [worker EXCEPT ![w].pc = pc]
      PROVE  worker' \in WorkerTable
  <2>1. worker[w] \in BusyWorkers
    BY <1>4, NotIdle, BusyWorkerFields
  <2>2. [worker[w] EXCEPT !.pc = pc] \in BusyWorkers
    BY <2>1 DEF BusyWorkers
  <2> QED
    BY <1>4, <2>2 DEF TypeOK
<1>5. ASSUME NEW s \in Sessions, Claim(w, s)
      PROVE  TypeOK'
  <2>1. [job[s] EXCEPT !.state = "claimed", !.holder = NameOf[w], !.live = TRUE] \in JobRow
    <3>1. job[s] \in JobRow
      BY DEF TypeOK
    <3> QED
      BY <1>0, <3>1 DEF JobRow
  <2>2. job' = [job EXCEPT ![s] = [job[s] EXCEPT !.state = "claimed", !.holder = NameOf[w],
                                                 !.live = TRUE]]
    BY <1>5 DEF Claim, TypeOK
  <2>3. job' \in [Sessions -> JobRow]
    BY <2>1, <2>2, WriteJob
  <2>4. job[s].version \in Nat
    BY DEF TypeOK, JobRow
  <2> QED
    BY <1>1, <1>5, <2>3, <2>4 DEF Claim, TypeOK
<1>6. ASSUME NEW s \in Sessions, ClaimRetry(w, s)
      PROVE  TypeOK'
  <2> DEFINE v   == session[s].version + 1
             row == [job[s] EXCEPT !.state = "claimed", !.holder = NameOf[w],
                                   !.live = TRUE, !.version = v]
  <2>1. v \in Nat
    BY ReadSessionRow
  <2>2. row \in JobRow
    <3>1. job[s] \in JobRow
      BY DEF TypeOK
    <3> HIDE DEF v
    <3> QED
      BY <1>0, <2>1, <3>1 DEF JobRow
  <2>3. job' = [job EXCEPT ![s] = row]
    BY <1>6 DEF ClaimRetry, TypeOK
  <2>4. job' \in [Sessions -> JobRow]
    BY <2>2, <2>3, WriteJob
  <2>5. session' \in [Sessions -> SessionRow]
    BY <1>0, <1>6, <2>1, WriteSession DEF ClaimRetry
  <2> QED
    BY <1>1, <1>6, <2>1, <2>4, <2>5 DEF ClaimRetry, TypeOK
<1>7. CASE LostLease(w) \/ SessionChanged(w) \/ AbortComplete(w) \/ Crash(w)
  <2>1. worker' \in WorkerTable
    BY <1>7, <1>2, <1>3 DEF LostLease, SessionChanged, AbortComplete, Crash
  <2> QED
    BY <1>7, <2>1 DEF LostLease, SessionChanged, AbortComplete, Crash, TypeOK
<1>8. CASE Inspect(w)
  <2>1. worker[w].s \in Sessions
    BY <1>8, NotIdle, BusyWorkerFields DEF Inspect
  <2>2. worker' \in WorkerTable
    BY <1>8, <1>2, <1>4 DEF Inspect, PCs
  <2>3. object' \in [Sessions -> {"none", "good", "bad"}] /\ faults' \in Nat
    BY <1>8, <2>1 DEF Inspect, TypeOK
  <2> QED
    BY <1>8, <2>2, <2>3 DEF Inspect, TypeOK
<1>9. CASE CommitFail(w)
  <2>1. worker[w].s \in Sessions
        /\ worker[w].outcome \in {"failed", "retryable"} /\ worker[w].seenVersion + 1 \in Nat
    BY <1>9, NotIdle, BusyWorkerFields DEF CommitFail
  <2>2. session' \in [Sessions -> SessionRow]
    BY <1>0, <1>9, <2>1, WriteSession DEF CommitFail, TypeOK
  <2>3. job' \in [Sessions -> JobRow]
    <3>1. worker[w].outcome \in JobStates
      BY <1>0, <2>1
    <3>2. [job EXCEPT ![worker[w].s].state = worker[w].outcome, ![worker[w].s].live = FALSE]
            \in [Sessions -> JobRow]
      BY <2>1, <3>1, SettleJob
    <3> QED
      BY <1>9, <3>2 DEF CommitFail, TypeOK
  <2> QED
    BY <1>9, <1>3, <2>2, <2>3 DEF CommitFail, TypeOK
<1>10. CASE ReadSession(w)
  <2> DEFINE s   == worker[w].s
             row == [worker[w] EXCEPT !.pc = "reading", !.seen = session[s].state,
                                      !.seenVersion = session[s].version]
  <2>1. worker[w] \in BusyWorkers /\ s \in Sessions
    BY <1>10, NotIdle, BusyWorkerFields DEF ReadSession
  <2>2. row \in BusyWorkers
    BY <2>1, ReadSessionRow DEF BusyWorkers, PCs
  <2>3. worker' = [worker EXCEPT ![w] = row]
    BY <1>10 DEF ReadSession, TypeOK
  <2> QED
    BY <1>10, <2>2, <2>3 DEF ReadSession, TypeOK
<1>11. CASE LockJob(w)
  <2>1. worker[w].s \in Sessions
    BY <1>11, NotIdle, BusyWorkerFields DEF LockJob
  <2>2. worker' \in WorkerTable
    BY <1>11, <1>2, <1>3, <1>4 DEF LockJob, PCs
  <2>3. object' \in [Sessions -> {"none", "good", "bad"}]
    BY <1>11, <2>1 DEF LockJob, TypeOK
  <2> QED
    BY <1>11, <2>2, <2>3 DEF LockJob, TypeOK
<1>12. CASE CommitComplete(w)
  <2>1. worker[w].s \in Sessions /\ worker[w].seenVersion + 1 \in Nat
    BY <1>12, NotIdle, BusyWorkerFields DEF CommitComplete
  <2>2. source' \in [Sources -> Fence]
    <3> DEFINE c == SourceOf(worker[w].s)
    <3>1. c \in Sources
      BY <2>1, PinFields
    <3>2. [version |-> source[c].version + 1, pointer |-> worker[w].s] \in Fence
      BY <2>1, <3>1 DEF TypeOK, Fence, Pointers
    <3>3. source' = [source EXCEPT ![c] = [version |-> source[c].version + 1,
                                           pointer |-> worker[w].s]]
      BY <1>12, <3>1 DEF CommitComplete, TypeOK
    <3> QED
      BY <3>1, <3>2, <3>3 DEF TypeOK
  <2>3. session' \in [Sessions -> SessionRow]
    BY <1>0, <1>12, <2>1, WriteSession DEF CommitComplete
  <2>4. job' \in [Sessions -> JobRow]
    BY <1>0, <1>12, <2>1, SettleJob DEF CommitComplete
  <2> QED
    BY <1>12, <1>3, <2>1, <2>2, <2>3, <2>4 DEF CommitComplete, TypeOK
<1> QED
  BY <1>5, <1>6, <1>7, <1>8, <1>9, <1>10, <1>11, <1>12 DEF Step

\* Creating a session pins the fence of its source and leaves its source alone.
LEMMA PinKeeps ==
  ASSUME TypeOK, NEW s \in Sessions, NEW v \in Nat, NEW p \in Pointers,
         pinned' = [pinned EXCEPT ![s].version = v, ![s].pointer = p]
  PROVE  /\ pinned' \in [Sessions -> Pin]
         /\ \A r \in Sessions : r # s => pinned'[r] = pinned[r]
         /\ \A r \in Sessions : pinned'[r].source = pinned[r].source
<1>1. pinned \in [Sessions -> Pin]
  BY DEF TypeOK
<1>2. [pinned[s] EXCEPT !.version = v, !.pointer = p] \in Pin
  BY <1>1 DEF Pin
<1>3. [pinned[s] EXCEPT !.version = v, !.pointer = p].source = pinned[s].source
  BY <1>1 DEF Pin
<1>4. pinned' = [pinned EXCEPT ![s] = [pinned[s] EXCEPT !.version = v, !.pointer = p]]
  BY <1>1
<1> QED
  BY <1>1, <1>2, <1>3, <1>4

\* The rest of the steps: the locked session handlers, time and source edits.
LEMMA TypeInductive == TypeOK /\ [Next]_vars => TypeOK'
<1> SUFFICES ASSUME TypeOK, [Next]_vars PROVE TypeOK'
  OBVIOUS
<1>0. {"draft", "consented"} \subseteq SessionStates
  BY DEF SessionStates, ActiveStates
<1>1. ASSUME NEW s \in Sessions, CreateSession(s)
      PROVE  TypeOK'
  <2>1. session' \in [Sessions -> SessionRow]
    BY <1>0, <1>1, WriteSession DEF CreateSession
  <2>2. pinned' \in [Sessions -> Pin]
    BY <1>1, PinFields, PinKeeps DEF CreateSession
  <2> QED
    BY <1>1, <2>1, <2>2 DEF CreateSession, TypeOK
<1>2. ASSUME NEW s \in Sessions, GrantConsent(s)
      PROVE  TypeOK'
  <2>1. session' \in [Sessions -> SessionRow]
    BY <1>0, <1>2, ReadSessionRow, WriteSession DEF GrantConsent
  <2>2. consent' \in [Sessions -> {"none", "granted", "expired", "revoked"}]
    BY <1>2 DEF GrantConsent, TypeOK
  <2> QED
    BY <1>2, <2>1, <2>2 DEF GrantConsent, TypeOK
<1>3. ASSUME NEW s \in Sessions, ExpireConsent(s)
      PROVE  TypeOK'
  BY <1>3 DEF ExpireConsent, TypeOK
<1>4. ASSUME NEW s \in Sessions, ExpireLease(s)
      PROVE  TypeOK'
  <2>1. [job[s] EXCEPT !.live = FALSE] \in JobRow
    BY DEF TypeOK, JobRow
  <2>2. job' \in [Sessions -> JobRow]
    BY <1>4, <2>1 DEF ExpireLease, TypeOK
  <2> QED
    BY <1>4, <2>2 DEF ExpireLease, TypeOK
<1>5. ASSUME NEW c \in Sources, EditSource(c)
      PROVE  TypeOK'
  <2>1. [source[c] EXCEPT !.version = @ + 1] \in Fence
    BY DEF TypeOK, Fence
  <2> QED
    BY <1>5, <2>1 DEF EditSource, TypeOK
<1>6. CASE UNCHANGED vars
  BY <1>6 DEF vars, TypeOK
<1> QED
  BY <1>1, <1>2, <1>3, <1>4, <1>5, <1>6, TypeHandlers, TypeWorker DEF Next

\* Every row, request and worker of every reachable state has its documented type.
THEOREM TypeCorrect == Spec => []TypeOK
  BY TypeInit, TypeInductive, PTL DEF Spec
-----------------------------------------------------------------------------
(* The line of manifests.                                                  *)

\* Only CreateSession pins, only EditSource moves a source without a manifest,
\* and no step un-creates a session or unpublishes a manifest.
LEMMA Quiet ==
  ASSUME IInv, UNCHANGED <<pinned, manifests>>,
         \A c \in Sources : source'[c].pointer = source[c].pointer,
         \A s \in Sessions : session[s].state # "none" => session'[s].state # "none"
  PROVE  LinearHistory' /\ Published'
<1>1. LinearHistory'
  BY DEF IInv, LinearHistory, SourceOf
<1>2. Published'
  BY DEF IInv, Published, TypeOK
<1> QED
  BY <1>1, <1>2

\* A publication: the compare-and-set ties the new pointer to the pinned one.
LEMMA PublishKeepsLine ==
  ASSUME IInv, NEW w \in Workers, CommitComplete(w)
  PROVE  LinearHistory' /\ Published'
<1> DEFINE s == worker[w].s
           c == SourceOf(s)
<1>1. s \in Sessions /\ c \in Sources /\ s # Nobody
  BY NotIdle, BusyWorkerFields, PinFields, ImportConstants DEF CommitComplete, IInv, ImportConstants
<1>2. /\ source[c].pointer = pinned[s].pointer /\ s \notin manifests
      /\ manifests' = manifests \cup {s} /\ pinned' = pinned
  BY DEF CommitComplete, FenceHolds
<1>3. source'[c].pointer = s /\ \A d \in Sources \ {c} : source'[d] = source[d]
  BY <1>1 DEF CommitComplete, IInv, TypeOK
<1>4. session'[s].state # "none" /\ \A r \in Sessions \ {s} : session'[r] = session[r]
  BY <1>1 DEF CommitComplete, IInv, TypeOK
<1>5. pinned[s].pointer \in manifests \cup {Nobody}
  BY <1>1, <1>2 DEF IInv, LinearHistory
<1>6. \A r \in manifests' : pinned[r].pointer # s
  BY <1>1, <1>2, <1>5 DEF IInv, Published
<1>7. \A r, q \in manifests' :
        r # q /\ SourceOf(r) = SourceOf(q) => pinned[r].pointer # pinned[q].pointer
  <2>1. \A r \in manifests : SourceOf(r) = c => pinned[r].pointer # pinned[s].pointer
    BY <1>1, <1>2 DEF IInv, LinearHistory
  <2> QED
    BY <2>1, <1>2 DEF IInv, LinearHistory
<1>8. \A d \in Sources :
        /\ source'[d].pointer # Nobody => source'[d].pointer \in manifests'
        /\ \A r \in manifests' : SourceOf(r) = d => pinned[r].pointer # source'[d].pointer
  BY <1>2, <1>3, <1>6 DEF IInv, LinearHistory
<1>9. LinearHistory'
  <2>1. \A r : SourceOf(r)' = SourceOf(r)
    BY <1>2 DEF SourceOf
  <2> QED
    BY <1>2, <1>7, <1>8, <2>1 DEF LinearHistory
<1>10. Published'
  BY <1>1, <1>2, <1>4, <1>5 DEF IInv, TypeOK, Published
<1> QED
  BY <1>9, <1>10

LEMMA LineInit == Init => LinearHistory /\ Published
  BY DEF Init, LinearHistory, Published

LEMMA LineInductive == IInv /\ [Next]_vars => LinearHistory' /\ Published'
<1> SUFFICES ASSUME IInv, [Next]_vars PROVE LinearHistory' /\ Published'
  OBVIOUS
<1>0. TypeOK
  BY DEF IInv
<1>1. ASSUME NEW s \in Sessions, CreateSession(s)
      PROVE  LinearHistory' /\ Published'
  <2>1. s \notin manifests
    BY <1>1 DEF CreateSession, IInv, Published
  <2>2. \A r \in manifests : pinned'[r] = pinned[r] /\ session'[r] = session[r]
    BY <1>1, <2>1 DEF CreateSession, IInv, TypeOK
  <2>3. source' = source /\ manifests' = manifests
    BY <1>1 DEF CreateSession
  <2> QED
    BY <2>2, <2>3 DEF IInv, LinearHistory, Published, SourceOf
<1>2. ASSUME NEW s \in Sessions, GrantConsent(s) \/ ExpireConsent(s) \/ ExpireLease(s)
      PROVE  LinearHistory' /\ Published'
  BY <1>2, Quiet DEF GrantConsent, ExpireConsent, ExpireLease, IInv, TypeOK
<1>3. ASSUME NEW c \in Sources, EditSource(c)
      PROVE  LinearHistory' /\ Published'
  <2>1. \A d \in Sources : source'[d].pointer = source[d].pointer
    BY <1>3 DEF EditSource, IInv, TypeOK, Fence
  <2> QED
    BY <1>3, <2>1, Quiet DEF EditSource
<1>4. ASSUME NEW t \in Threads, Handler(t)
      PROVE  LinearHistory' /\ Published'
  <2>1. UNCHANGED <<pinned, manifests, source>>
    BY <1>4 DEF Handler, CommitStore, CommitCompleteUpload, CommitFinalize, CommitCancel,
       CancelDiesAfterDelete, AbandonRequest, BeginStore, BeginCompleteUpload, BeginFinalize,
       BeginCancel, Read
  <2>2. \A s \in Sessions : session[s].state # "none" => session'[s].state # "none"
    BY <1>4, <1>0 DEF Handler, CommitStore, CommitCompleteUpload, CommitFinalize, CommitCancel,
       CancelDiesAfterDelete, AbandonRequest, BeginStore, BeginCompleteUpload, BeginFinalize,
       BeginCancel, Read, TypeOK
  <2> QED
    BY <2>1, <2>2, Quiet
<1>5. ASSUME NEW w \in Workers, Step(w) \/ Crash(w), ~CommitComplete(w)
      PROVE  LinearHistory' /\ Published'
  <2>1. UNCHANGED <<pinned, manifests, source>>
    BY <1>5 DEF Step, Crash, Claim, ClaimRetry, LostLease, SessionChanged, Inspect, CommitFail,
       ReadSession, LockJob, AbortComplete
  <2>2. CASE CommitFail(w)
    <3>1. worker[w].outcome # "none"
      BY <2>2, <1>0, NotIdle, BusyWorkerFields DEF CommitFail
    <3>2. \A s \in Sessions : session[s].state # "none" => session'[s].state # "none"
      BY <2>2, <3>1, <1>0 DEF CommitFail, TypeOK
    <3> QED
      BY <2>1, <3>2, Quiet
  <2>3. CASE ~CommitFail(w)
    <3>1. CASE \E s \in Sessions : ClaimRetry(w, s)
      <4>1. \A s \in Sessions : session[s].state # "none" => session'[s].state # "none"
        BY <3>1, <1>0 DEF ClaimRetry, TypeOK
      <4> QED
        BY <2>1, <4>1, Quiet
    <3>2. CASE session' = session
      BY <2>1, <3>2, Quiet
    <3> QED
      BY <1>5, <2>3, <3>1, <3>2 DEF Step, Crash, Claim, LostLease, SessionChanged, Inspect,
         ReadSession, LockJob, AbortComplete
  <2> QED
    BY <2>2, <2>3
<1>6. CASE UNCHANGED vars
  BY <1>6, Quiet DEF vars
<1> QED
  BY <1>1, <1>2, <1>3, <1>4, <1>5, <1>6, PublishKeepsLine DEF Next

\* No two imports of a source ever replace the same dataset, and the current
\* pointer of a source is a manifest that nothing has replaced: however many
\* workers, takeovers and cancellations overlap, no publication is lost.
THEOREM HistoryIsLinear == Spec => []LinearHistory
<1>1. Init => IInv
  BY TypeInit, LineInit DEF IInv
<1>2. IInv /\ [Next]_vars => IInv'
  BY TypeInductive, LineInductive DEF IInv
<1>3. IInv => LinearHistory
  BY DEF IInv
<1> QED
  BY <1>1, <1>2, <1>3, PTL DEF Spec

-----------------------------------------------------------------------------
(* Revocation.                                                             *)

\* A session that was ever granted a consent is past its draft, so that no grant follows.
Consented == \A s \in Sessions : consent[s] # "none" => session[s].state \notin {"none", "draft"}

LEMMA ConsentedInit == Init => Consented
  BY DEF Init, Consented

LEMMA ConsentedInductive ==
  ASSUME TypeOK, Consented, [Next]_vars
  PROVE  Consented'
<1>1. ASSUME NEW s \in Sessions, CreateSession(s)
      PROVE  Consented'
  BY <1>1 DEF CreateSession, Consented, TypeOK
<1>2. ASSUME NEW s \in Sessions, GrantConsent(s) \/ ExpireConsent(s) \/ ExpireLease(s)
      PROVE  Consented'
  BY <1>2 DEF GrantConsent, ExpireConsent, ExpireLease, Consented, TypeOK
<1>3. ASSUME NEW c \in Sources, EditSource(c)
      PROVE  Consented'
  BY <1>3 DEF EditSource, Consented
<1>4. ASSUME NEW t \in Threads, Handler(t)
      PROVE  Consented'
  BY <1>4 DEF Handler, CommitStore, CommitCompleteUpload, CommitFinalize, CommitCancel,
     CancelDiesAfterDelete, AbandonRequest, BeginStore, BeginCompleteUpload, BeginFinalize,
     BeginCancel, Read, Consented, TypeOK
<1>5. ASSUME NEW w \in Workers, Step(w) \/ Crash(w)
      PROVE  Consented'
  <2>1. consent' = consent
    BY <1>5 DEF Step, Crash, Claim, ClaimRetry, LostLease, SessionChanged, Inspect, CommitFail,
       ReadSession, LockJob, AbortComplete, CommitComplete
  <2>2. \A s \in Sessions : session'[s].state # session[s].state
                              => session'[s].state \notin {"none", "draft"}
    <3>1. CASE CommitFail(w)
      BY <3>1, NotIdle, BusyWorkerFields DEF CommitFail, TypeOK
    <3>2. CASE CommitComplete(w)
      BY <3>2 DEF CommitComplete, TypeOK
    <3>3. CASE \E s \in Sessions : ClaimRetry(w, s)
      BY <3>3 DEF ClaimRetry, TypeOK
    <3>4. CASE session' = session
      BY <3>4
    <3> QED
      BY <1>5, <3>1, <3>2, <3>3, <3>4 DEF Step, Crash, Claim, LostLease, SessionChanged, Inspect,
         ReadSession, LockJob, AbortComplete
  <2> QED
    BY <2>1, <2>2 DEF Consented
<1>6. CASE UNCHANGED vars
  BY <1>6 DEF vars, Consented
<1> QED
  BY <1>1, <1>2, <1>3, <1>4, <1>5, <1>6 DEF Next

\* One step, for one session whose consent is revoked.
Revoked(s) ==
  /\ consent'[s] = "revoked"
  /\ JobFree(s) =>
       /\ JobFree(s)'
       /\ s \in manifests' => s \in manifests
       /\ job'[s].state = "completed" => job[s].state = "completed"
       /\ session'[s].state = "finalized" => session[s].state = "finalized"

\* The step neither completes the command of s nor finalizes its session.
Unfinished(s) ==
  /\ job'[s].state = "completed" => job[s].state = "completed"
  /\ session'[s].state = "finalized" => session[s].state = "finalized"

\* Only the commit of a completing worker does, and only for the session it has locked.
LEMMA NoOtherFinishes ==
  ASSUME TypeOK, Next, NEW s \in Sessions,
         ~\E w \in Workers : CommitComplete(w) /\ worker[w].s = s
  PROVE  Unfinished(s)
<1>0. session \in [Sessions -> SessionRow] /\ job \in [Sessions -> JobRow]
  BY DEF TypeOK
<1>1. CASE session' = session /\ \A r \in Sessions : job'[r].state = job[r].state
  BY <1>1 DEF Unfinished
<1>2. ASSUME NEW r \in Sessions, CreateSession(r) \/ GrantConsent(r)
      PROVE  Unfinished(s)
  BY <1>0, <1>2 DEF CreateSession, GrantConsent, Unfinished
<1>3. ASSUME NEW r \in Sessions, ExpireConsent(r) \/ ExpireLease(r)
      PROVE  Unfinished(s)
  BY <1>0, <1>1, <1>3 DEF ExpireConsent, ExpireLease, JobRow
<1>4. ASSUME NEW t \in Threads, Handler(t)
      PROVE  Unfinished(s)
  <2>1. CASE CommitCompleteUpload(t) \/ CommitCancel(t)
    BY <1>0, <2>1 DEF CommitCompleteUpload, CommitCancel, Unfinished
  <2>2. CASE CommitFinalize(t)
    <3>1. request[t].s \in Sessions
      BY <2>2, BusyRequestFields DEF CommitFinalize
    <3>2. session' = [session EXCEPT ![request[t].s] =
                        [state |-> "validating", version |-> request[t].version + 1]]
      BY <2>2 DEF CommitFinalize
    <3>3. \A r \in Sessions : job'[r] = job[r] \/ job'[r].state = "queued"
      BY <1>0, <2>2, <3>1 DEF CommitFinalize, JobRow
    <3> QED
      BY <1>0, <3>2, <3>3 DEF Unfinished
  <2>3. CASE ~(CommitCompleteUpload(t) \/ CommitCancel(t) \/ CommitFinalize(t))
    BY <1>1, <1>4, <2>3 DEF Handler, CommitStore, CancelDiesAfterDelete, AbandonRequest,
       BeginStore, BeginCompleteUpload, BeginFinalize, BeginCancel, Read
  <2> QED
    BY <2>1, <2>2, <2>3
<1>5. ASSUME NEW w \in Workers, Step(w) \/ Crash(w)
      PROVE  Unfinished(s)
  <2>1. ASSUME NEW r \in Sessions, Claim(w, r) \/ ClaimRetry(w, r)
        PROVE  Unfinished(s)
    <3>1. \A q \in Sessions : job'[q] = job[q] \/ job'[q].state = "claimed"
      BY <1>0, <2>1 DEF Claim, ClaimRetry, JobRow
    <3>2. \A q \in Sessions : session'[q] = session[q] \/ session'[q].state = "validating"
      BY <1>0, <2>1 DEF Claim, ClaimRetry
    <3> QED
      BY <3>1, <3>2 DEF Unfinished
  <2>2. CASE CommitFail(w)
    <3>1. worker[w].s \in Sessions /\ worker[w].outcome \in {"failed", "retryable"}
      BY <2>2, NotIdle, BusyWorkerFields DEF CommitFail
    <3>2. \A q \in Sessions : job'[q] = job[q] \/ job'[q].state = worker[w].outcome
      BY <1>0, <2>2, <3>1 DEF CommitFail, JobRow
    <3>3. \A q \in Sessions : session'[q] = session[q] \/ session'[q].state = worker[w].outcome
      BY <1>0, <2>2, <3>1 DEF CommitFail
    <3> QED
      BY <3>1, <3>2, <3>3 DEF Unfinished
  <2>3. CASE CommitComplete(w)
    BY <1>0, <2>3 DEF CommitComplete, Unfinished
  <2>4. CASE ~(CommitFail(w) \/ CommitComplete(w) \/ \E r \in Sessions : Claim(w, r) \/ ClaimRetry(w, r))
    BY <1>1, <1>5, <2>4 DEF Step, Crash, LostLease, SessionChanged, Inspect, ReadSession, LockJob,
       AbortComplete
  <2> QED
    BY <2>1, <2>2, <2>3, <2>4
<1>6. ASSUME NEW c \in Sources, EditSource(c)
      PROVE  Unfinished(s)
  BY <1>1, <1>6 DEF EditSource
<1> QED
  BY <1>2, <1>3, <1>4, <1>5, <1>6 DEF Next

LEMMA ExitSets ==
  ASSUME TypeOK, NEW w \in Workers, Exit(w)
  PROVE  worker'[w].pc = "idle"
  BY DEF Exit, IdleWorker, TypeOK

LEMMA BeginFailSets ==
  ASSUME TypeOK, NEW w \in Workers, NEW outcome, BeginFail(w, outcome)
  PROVE  worker'[w].pc # "locked"
  BY DEF BeginFail, Exit, IdleWorker, TypeOK

LEMMA RevocationStep ==
  ASSUME TypeOK, Consented, Next, NEW s \in Sessions, consent[s] = "revoked"
  PROVE  Revoked(s)
<1>0. JobFree(s) => Unfinished(s)
  BY NoOtherFinishes DEF JobFree, CommitComplete
<1>1. ASSUME NEW r \in Sessions, CreateSession(r) \/ ExpireConsent(r) \/ ExpireLease(r)
      PROVE  Revoked(s)
  BY <1>0, <1>1 DEF CreateSession, ExpireConsent, ExpireLease, Unfinished, Revoked, JobFree, TypeOK
<1>2. ASSUME NEW r \in Sessions, GrantConsent(r)
      PROVE  Revoked(s)
  BY <1>0, <1>2 DEF GrantConsent, Unfinished, Revoked, JobFree, Consented, TypeOK
<1>3. ASSUME NEW c \in Sources, EditSource(c)
      PROVE  Revoked(s)
  BY <1>0, <1>3 DEF EditSource, Unfinished, Revoked, JobFree
<1>4. ASSUME NEW t \in Threads, Handler(t)
      PROVE  Revoked(s)
  <2>1. worker' = worker /\ manifests' = manifests
    BY <1>4 DEF Handler, CommitStore, CommitCompleteUpload, CommitFinalize, CommitCancel,
       CancelDiesAfterDelete, AbandonRequest, BeginStore, BeginCompleteUpload, BeginFinalize,
       BeginCancel, Read
  <2>2. consent'[s] = "revoked"
    BY <1>4 DEF Handler, CommitStore, CommitCompleteUpload, CommitFinalize, CommitCancel,
       CancelDiesAfterDelete, AbandonRequest, BeginStore, BeginCompleteUpload, BeginFinalize,
       BeginCancel, Read, TypeOK
  <2> QED
    BY <1>0, <2>1, <2>2 DEF Unfinished, Revoked, JobFree
<1>5. ASSUME NEW w \in Workers, Step(w) \/ Crash(w)
      PROVE  Revoked(s)
  <2>0. consent' = consent
    BY <1>5 DEF Step, Crash, Claim, ClaimRetry, LostLease, SessionChanged, Inspect, CommitFail,
       ReadSession, LockJob, AbortComplete, CommitComplete
  <2>1. CASE CommitComplete(w)
    BY <1>0, <2>0, <2>1 DEF Unfinished, CommitComplete, Exit, IdleWorker, Revoked, JobFree, TypeOK
  <2>2. CASE ~CommitComplete(w)
    <3>1. manifests' = manifests
      BY <1>5, <2>2 DEF Step, Crash, Claim, ClaimRetry, LostLease, SessionChanged, Inspect,
         CommitFail, ReadSession, LockJob, AbortComplete
    <3>2. \A v \in Workers : v # w => worker'[v] = worker[v]
      <4>1. \A outcome : Exit(w) \/ BeginFail(w, outcome) =>
              \A v \in Workers : v # w => worker'[v] = worker[v]
        BY DEF Exit, BeginFail, TypeOK
      <4>2. CASE \E r \in Sessions : Claim(w, r) \/ ClaimRetry(w, r)
        BY <4>2 DEF Claim, ClaimRetry, TypeOK
      <4>3. CASE LostLease(w) \/ SessionChanged(w) \/ CommitFail(w) \/ Crash(w) \/ AbortComplete(w)
        BY <4>1, <4>3 DEF LostLease, SessionChanged, CommitFail, Crash, AbortComplete, TypeOK
      <4>4. CASE Inspect(w) \/ ReadSession(w) \/ LockJob(w)
        BY <4>1, <4>4 DEF Inspect, ReadSession, LockJob, TypeOK
      <4> QED
        BY <1>5, <2>2, <4>2, <4>3, <4>4 DEF Step
    <3>3. worker'[w].pc = "locked" => worker'[w].s # s
      <4>0. \A outcome : (Exit(w) \/ BeginFail(w, outcome)) => worker'[w].pc # "locked"
        BY BeginFailSets, ExitSets
      <4>1. CASE LockJob(w)
        <5>1. worker[w].pc # "idle" /\ worker[w] # IdleWorker
          BY <4>1 DEF LockJob, IdleWorker
        <5>2. worker' = [worker EXCEPT ![w].pc = "locked"] => worker'[w].s = worker[w].s
          BY <5>1, BusyWorkerFields DEF TypeOK, BusyWorkers
        <5> QED
          BY <4>0, <4>1, <5>2 DEF LockJob, ConsentEffective
      <4>2. CASE ~LockJob(w)
        <5>1. CASE \E r \in Sessions : Claim(w, r) \/ ClaimRetry(w, r)
          BY <5>1 DEF Claim, ClaimRetry, Command, TypeOK
        <5>2. CASE Inspect(w) \/ ReadSession(w)
          <6>1. \A pc \in {"verified", "reading"} :
                  worker' = [worker EXCEPT ![w].pc = pc] => worker'[w].pc = pc
            BY <5>2, NotIdle, BusyWorkerFields DEF Inspect, ReadSession, TypeOK, BusyWorkers
          <6>2. CASE Inspect(w)
            BY <4>0, <6>1, <6>2 DEF Inspect
          <6>3. CASE ReadSession(w)
            BY <6>3, NotIdle, BusyWorkerFields DEF ReadSession, TypeOK, BusyWorkers
          <6> QED
            BY <5>2, <6>2, <6>3
        <5>3. CASE LostLease(w) \/ SessionChanged(w) \/ CommitFail(w) \/ AbortComplete(w) \/ Crash(w)
          BY <4>0, <5>3 DEF LostLease, SessionChanged, CommitFail, AbortComplete, Crash
        <5> QED
          BY <1>5, <2>2, <4>2, <5>1, <5>2, <5>3 DEF Step
      <4> QED
        BY <4>1, <4>2
    <3> QED
      BY <1>0, <2>0, <3>1, <3>2, <3>3 DEF Unfinished, Revoked, JobFree
  <2> QED
    BY <2>1, <2>2
<1> QED
  BY <1>1, <1>2, <1>3, <1>4, <1>5 DEF Next

\* A revoked consent is never effective again; and unless a transaction is past its own
\* check of it already, none gets past that check, publishes, completes the command or
\* finalizes the session, whatever requests and workers were in flight: a finalization
\* that was read before the revocation may commit its command, but nothing comes of it.
THEOREM RevocationsHold == Spec => RevocationHolds
<1>1. Init => TypeOK /\ Consented
  BY TypeInit, ConsentedInit
<1>2. TypeOK /\ Consented /\ [Next]_vars => (TypeOK /\ Consented)'
  BY TypeInductive, ConsentedInductive
<1>3. TypeOK /\ Consented /\ [Next]_vars
        => [\A s \in Sessions : consent[s] = "revoked" =>
              /\ consent'[s] = "revoked"
              /\ JobFree(s) =>
                   /\ JobFree(s)'
                   /\ s \in manifests' => s \in manifests
                   /\ job'[s].state = "completed" => job[s].state = "completed"
                   /\ session'[s].state = "finalized" => session[s].state = "finalized"]_vars
  BY RevocationStep DEF Revoked
<1> QED
  BY <1>1, <1>2, <1>3, PTL DEF Spec, RevocationHolds

-----------------------------------------------------------------------------
(* Commands.  A worker fails a job only while it holds the lease, and a     *)
(* claimed job has a validating session as long as no late request took the *)
(* session away; so it also fails the session (Driven).                     *)

\* For a session that is not revoked: the worker that fails its job fails it too, and
\* a session that is validated has its command.
Driven(s) ==
  consent[s] # "revoked" =>
    /\ job[s].state = "claimed" => session[s].state = "validating"
    /\ \A w \in Workers : worker[w].pc = "failing" /\ worker[w].s = s
                            => worker[w].seen = "validating"
    /\ session[s].state = "validating" => /\ job[s].state \in {"queued", "claimed"}
                                          /\ job[s].version = session[s].version

CInv == TypeOK /\ Consented /\ \A s \in Sessions : Driven(s)

\* The step takes no validating session away by a late write.
Timely ==
  \A s \in Sessions : session[s].state = "validating" /\ session'[s].state # "validating" =>
    worker' # worker \/ consent'[s] = "revoked"

LEMMA CommandInit == Init => CInv
<1> SUFFICES ASSUME Init PROVE CInv
  OBVIOUS
<1>1. /\ worker = [w \in Workers |-> IdleWorker]
      /\ job = [s \in Sessions |-> [state |-> "none", holder |-> Nobody, live |-> FALSE,
                                    version |-> 0, ticket |-> 0]]
      /\ session = [s \in Sessions |-> [state |-> "none", version |-> 0]]
  BY DEF Init
<1> QED
  BY <1>1, TypeInit, ConsentedInit DEF CInv, Driven, IdleWorker

\* A step that leaves jobs and sessions of s alone, and no worker begins to fail on it.
LEMMA DrivenStays ==
  ASSUME CInv, Next, NEW s \in Sessions, job'[s] = job[s], session'[s] = session[s],
         \A w \in Workers : worker'[w].pc = "failing" /\ worker'[w].s = s
           => worker'[w] = worker[w] \/ worker'[w].seen = "validating"
  PROVE  Driven(s)'
<1>1. consent'[s] # "revoked" => consent[s] # "revoked"
  BY RevocationStep DEF CInv, Revoked
<1> QED
  BY <1>1 DEF Driven, CInv

LEMMA DrivenByHandlers ==
  ASSUME CInv, Next, Timely, NEW t \in Threads, Handler(t), NEW s \in Sessions
  PROVE  Driven(s)'
<1>1. worker' = worker
  BY DEF Handler, CommitStore, CommitCompleteUpload, CommitFinalize, CommitCancel,
     CancelDiesAfterDelete, AbandonRequest, BeginStore, BeginCompleteUpload, BeginFinalize,
     BeginCancel, Read
<1>2. consent'[s] # "revoked" => consent[s] # "revoked"
  BY RevocationStep DEF CInv, Revoked
<1>3. CASE CommitFinalize(t) /\ request[t].s = s
  <2>1. /\ request[t].version + 1 \in Nat
        /\ session \in [Sessions -> SessionRow] /\ job \in [Sessions -> JobRow]
    <3>1. request[t].op = "finalize"
      BY <1>3 DEF CommitFinalize
    <3> QED
      BY <3>1, BusyRequestFields DEF CInv, TypeOK
  <2>2. session'[s].state = "validating" /\ session'[s].version = request[t].version + 1
    BY <1>3, <2>1 DEF CommitFinalize
  <2>3. job'[s].state = "queued" /\ job'[s].version = request[t].version + 1
    BY <1>3, <2>1 DEF CommitFinalize, JobRow
  <2> QED
    BY <1>1, <1>2, <2>2, <2>3 DEF Driven, CInv
<1>4. CASE CommitFinalize(t) /\ request[t].s # s
  <2>1. job'[s] = job[s] /\ session'[s] = session[s]
    BY <1>4 DEF CommitFinalize, CInv, TypeOK
  <2> QED
    BY <1>1, <2>1, DrivenStays
<1>5. CASE ~CommitFinalize(t)
  <2>1. job' = job
    BY <1>5 DEF Handler, CommitStore, CommitCompleteUpload, CommitCancel,
       CancelDiesAfterDelete, AbandonRequest, BeginStore, BeginCompleteUpload, BeginFinalize,
       BeginCancel, Read
  <2>2. session'[s] = session[s] \/ session'[s].state # "validating"
    BY <1>5 DEF Handler, CommitStore, CommitCompleteUpload, CommitCancel,
       CancelDiesAfterDelete, AbandonRequest, BeginStore, BeginCompleteUpload, BeginFinalize,
       BeginCancel, Read, CInv, TypeOK
  <2>3. session'[s] = session[s] \/ consent'[s] = "revoked" \/ session[s].state # "validating"
    BY <1>1, <2>2 DEF Timely
  <2> QED
    BY <1>1, <1>2, <2>1, <2>2, <2>3 DEF Driven, CInv
<1> QED
  BY <1>3, <1>4, <1>5

\* A worker that begins to fail on a session that is not revoked holds its lease, and so
\* reads that it is validating.
LEMMA FailsWhatItValidates ==
  ASSUME CInv, NEW w \in Workers, worker[w] # IdleWorker, NEW outcome, BeginFail(w, outcome),
         Holds(w, worker[w].s) \/ session[worker[w].s].state = "validating",
         consent[worker[w].s] # "revoked"
  PROVE  worker'[w].seen = "validating"
<1>1. worker[w].s \in Sessions /\ worker[w] \in BusyWorkers /\ worker \in [Workers -> {IdleWorker} \cup BusyWorkers]
  BY BusyWorkerFields DEF CInv, TypeOK
<1>2. session[worker[w].s].state = "validating"
  BY <1>1 DEF CInv, Driven, Holds
<1>3. worker'[w].seen = session[worker[w].s].state
  BY <1>1 DEF BeginFail, BusyWorkers
<1> QED
  BY <1>2, <1>3

\* What a worker's step leaves of the other workers.
LEMMA OnlyOneWorker ==
  ASSUME TypeOK, NEW w \in Workers, Step(w) \/ Crash(w)
  PROVE  consent' = consent /\ \A v \in Workers : v # w => worker'[v] = worker[v]
<1>1. CASE \E s \in Sessions : Claim(w, s) \/ ClaimRetry(w, s)
  BY <1>1 DEF Claim, ClaimRetry, TypeOK
<1>2. Exit(w) \/ (\E outcome : BeginFail(w, outcome)) =>
        \A v \in Workers : v # w => worker'[v] = worker[v]
  BY DEF Exit, BeginFail, TypeOK
<1>3. CASE LostLease(w) \/ SessionChanged(w) \/ CommitFail(w) \/ CommitComplete(w)
           \/ AbortComplete(w) \/ Crash(w)
  BY <1>2, <1>3 DEF LostLease, SessionChanged, CommitFail, CommitComplete, AbortComplete, Crash
<1>4. CASE Inspect(w)
  BY <1>2, <1>4 DEF Inspect, TypeOK
<1>5. CASE ReadSession(w)
  BY <1>5 DEF ReadSession, TypeOK
<1>6. CASE LockJob(w)
  BY <1>2, <1>6 DEF LockJob, TypeOK
<1> QED
  BY <1>1, <1>3, <1>4, <1>5, <1>6 DEF Step

\* The steps of a worker that write neither its job nor its session.
LEMMA DrivenByReaders ==
  ASSUME CInv, Next, NEW w \in Workers, NEW s \in Sessions, consent[s] # "revoked",
         \/ LostLease(w) \/ SessionChanged(w) \/ Inspect(w) \/ ReadSession(w) \/ LockJob(w)
         \/ AbortComplete(w) \/ Crash(w)
  PROVE  Driven(s)'
<1>1. job' = job /\ session' = session
  BY DEF LostLease, SessionChanged, Inspect, ReadSession, LockJob, AbortComplete, Crash
<1>2. consent' = consent /\ \A v \in Workers : v # w => worker'[v] = worker[v]
  BY OnlyOneWorker DEF CInv, Step
<1>3. worker[w] # IdleWorker
  BY NotIdle DEF CInv, LostLease, SessionChanged, Inspect, ReadSession, LockJob, AbortComplete, Crash
<1>4. worker[w].s \in Sessions /\ worker[w] \in BusyWorkers
  BY <1>3, BusyWorkerFields DEF CInv
<1>5. ASSUME Exit(w)
      PROVE  worker'[w].pc # "failing"
  BY <1>5, ExitSets DEF CInv
<1>6. ASSUME NEW outcome, BeginFail(w, outcome), worker'[w].s = s,
             Holds(w, worker[w].s) \/ session[worker[w].s].state = "validating"
      PROVE  worker'[w].seen = "validating"
  <2>1. worker'[w].s = worker[w].s
    BY <1>4, <1>6 DEF BeginFail, CInv, TypeOK, BusyWorkers
  <2> QED
    BY <1>3, <1>6, <2>1, FailsWhatItValidates
<1>7. ASSUME NEW pc \in PCs, worker' = [worker EXCEPT ![w].pc = pc]
      PROVE  worker'[w].pc = pc
  BY <1>4, <1>7 DEF CInv, TypeOK, BusyWorkers
<1>8. worker'[w].pc = "failing" /\ worker'[w].s = s => worker'[w].seen = "validating"
  <2> SUFFICES ASSUME worker'[w].pc = "failing", worker'[w].s = s
               PROVE  worker'[w].seen = "validating"
    OBVIOUS
  <2>1. CASE LostLease(w) \/ SessionChanged(w) \/ Crash(w)
    BY <1>5, <2>1 DEF LostLease, SessionChanged, Crash
  <2>2. CASE Inspect(w)
    <3>1. session[worker[w].s].state = "validating"
      BY <2>2 DEF Inspect
    <3>2. \/ worker' = [worker EXCEPT ![w].pc = "verified"]
          \/ \E outcome : BeginFail(w, outcome)
      BY <2>2 DEF Inspect
    <3>3. "verified" \in PCs
      BY DEF PCs
    <3> QED
      BY <1>6, <1>7, <3>1, <3>2, <3>3
  <2>3. CASE ReadSession(w)
    <3>1. worker'[w].pc = "reading"
      BY <1>4, <2>3 DEF ReadSession, CInv, TypeOK, BusyWorkers
    <3> QED
      BY <3>1
  <2>4. CASE LockJob(w)
    <3>1. \/ worker' = [worker EXCEPT ![w].pc = "locked"]
          \/ Exit(w)
          \/ Holds(w, worker[w].s) /\ \E outcome : BeginFail(w, outcome)
      BY <2>4 DEF LockJob
    <3>2. "locked" \in PCs
      BY DEF PCs
    <3> QED
      BY <1>5, <1>6, <1>7, <3>1, <3>2
  <2>5. CASE AbortComplete(w)
    <3>1. \/ Exit(w)
          \/ Holds(w, worker[w].s) /\ BeginFail(w, "failed")
      BY <2>5 DEF AbortComplete
    <3> QED
      BY <1>5, <1>6, <3>1
  <2> QED
    BY <2>1, <2>2, <2>3, <2>4, <2>5
<1> QED
  BY <1>1, <1>2, <1>8, DrivenStays

\* The steps of a worker that claim a command or settle one.
LEMMA DrivenByWriters ==
  ASSUME CInv, Next, NEW w \in Workers, NEW s \in Sessions, consent[s] # "revoked",
         \/ \E r \in Sessions : Claim(w, r) \/ ClaimRetry(w, r)
         \/ CommitFail(w) \/ CommitComplete(w)
  PROVE  Driven(s)'
<1>0. TypeOK /\ Driven(s)
  BY DEF CInv
<1>1. consent' = consent /\ \A v \in Workers : v # w => worker'[v] = worker[v]
  BY <1>0, OnlyOneWorker DEF Step
<1>2. worker'[w].pc # "failing"
  <2>1. ASSUME NEW r, NEW v, worker' = [worker EXCEPT ![w] = Command(r, v)]
        PROVE  worker'[w].pc = "loaded"
    BY <1>0, <2>1 DEF Command, TypeOK
  <2>2. Exit(w) => worker'[w].pc = "idle"
    BY <1>0, ExitSets
  <2> QED
    <3>1. CASE \E r \in Sessions : Claim(w, r)
      <4>1. PICK r \in Sessions : Claim(w, r)
        BY <3>1
      <4>2. worker' = [worker EXCEPT ![w] = Command(r, job[r].version)]
        BY <4>1 DEF Claim
      <4>3. worker'[w].pc = "loaded"
        BY <2>1, <4>2
      <4> QED
        BY <4>3
    <3>2. CASE \E r \in Sessions : ClaimRetry(w, r)
      <4>1. PICK r \in Sessions : ClaimRetry(w, r)
        BY <3>2
      <4>2. worker' = [worker EXCEPT ![w] = Command(r, session[r].version + 1)]
        BY <4>1 DEF ClaimRetry
      <4>3. worker'[w].pc = "loaded"
        BY <2>1, <4>2
      <4> QED
        BY <4>3
    <3>3. CASE CommitFail(w) \/ CommitComplete(w)
      BY <2>2, <3>3 DEF CommitFail, CommitComplete
    <3> QED
      BY <3>1, <3>2, <3>3
<1>3. ASSUME job'[s] = job[s], session'[s] = session[s]
      PROVE  Driven(s)'
  BY <1>1, <1>2, <1>3, DrivenStays
<1>4. /\ session \in [Sessions -> SessionRow] /\ job \in [Sessions -> JobRow]
      /\ session[s].version \in Nat
  BY <1>0 DEF TypeOK, SessionRow
<1>5. CASE \E r \in Sessions : Claim(w, r)
  <2>1. PICK r \in Sessions : Claim(w, r)
    BY <1>5
  <2>2. CASE r # s
    BY <1>0, <1>3, <2>1, <2>2 DEF Claim, TypeOK
  <2>3. CASE r = s
    <3>0. session[s] = [state |-> "validating", version |-> job[s].version] /\ session' = session
      BY <2>1, <2>3 DEF Claim
    <3>1. session' = session /\ session[s].state = "validating" /\ session[s].version = job[s].version
      BY <3>0
    <3>2. job'[s].state = "claimed" /\ job'[s].version = job[s].version
      BY <1>4, <2>1, <2>3 DEF Claim, JobRow
    <3> QED
      BY <1>0, <1>1, <1>2, <3>1, <3>2 DEF Driven
  <2> QED
    BY <2>2, <2>3
<1>6. CASE \E r \in Sessions : ClaimRetry(w, r)
  <2>1. PICK r \in Sessions : ClaimRetry(w, r)
    BY <1>6
  <2>2. CASE r # s
    BY <1>0, <1>3, <2>1, <2>2 DEF ClaimRetry, TypeOK
  <2>3. CASE r = s
    <3>1. session'[s].state = "validating" /\ session'[s].version = session[s].version + 1
      BY <1>4, <2>1, <2>3 DEF ClaimRetry
    <3>2. job'[s].state = "claimed" /\ job'[s].version = session[s].version + 1
      BY <1>4, <2>1, <2>3 DEF ClaimRetry, JobRow
    <3> QED
      BY <1>0, <1>1, <1>2, <3>1, <3>2 DEF Driven
  <2> QED
    BY <2>2, <2>3
<1>7. CASE CommitFail(w)
  <2>1. CASE worker[w].s # s
    BY <1>0, <1>3, <1>7, <2>1 DEF CommitFail, TypeOK
  <2>2. CASE worker[w].s = s
    <3>1. worker[w].seen = "validating" /\ worker[w].outcome \in {"failed", "retryable"}
      BY <1>0, <1>7, <2>2, NotIdle, BusyWorkerFields DEF CommitFail, Driven
    <3>2. CASE UNCHANGED <<session, job>>
      BY <1>3, <3>2
    <3>3. CASE ~UNCHANGED <<session, job>>
      <4>1. /\ job' = [job EXCEPT ![s].state = worker[w].outcome, ![s].live = FALSE]
            /\ session' = [session EXCEPT ![s] = [state |-> worker[w].outcome,
                                                  version |-> worker[w].seenVersion + 1]]
        BY <1>7, <2>2, <3>1, <3>3 DEF CommitFail
      <4>2. job'[s].state = worker[w].outcome /\ session'[s].state = worker[w].outcome
        BY <1>4, <4>1 DEF JobRow
      <4> QED
        BY <1>0, <1>1, <1>2, <3>1, <4>2 DEF Driven
    <3> QED
      BY <3>2, <3>3
  <2> QED
    BY <2>1, <2>2
<1>8. CASE CommitComplete(w)
  <2>1. CASE worker[w].s # s
    BY <1>0, <1>3, <1>8, <2>1 DEF CommitComplete, TypeOK
  <2>2. CASE worker[w].s = s
    <3>1. job'[s].state = "completed" /\ session'[s].state = "finalized"
      BY <1>4, <1>8, <2>2 DEF CommitComplete, JobRow
    <3> QED
      BY <1>0, <1>1, <1>2, <3>1 DEF Driven
  <2> QED
    BY <2>1, <2>2
<1> QED
  BY <1>5, <1>6, <1>7, <1>8

LEMMA CommandStep ==
  ASSUME CInv, [Next]_vars, [Timely]_vars
  PROVE  CInv'
<1>1. CASE UNCHANGED vars
  BY <1>1 DEF vars, CInv, TypeOK, Consented, Driven
<1>2. CASE Next /\ Timely
  <2>1. TypeOK' /\ Consented'
    BY <1>2, TypeInductive, ConsentedInductive DEF CInv
  <2>2. ASSUME NEW s \in Sessions PROVE Driven(s)'
    <3>1. CASE consent[s] = "revoked"
      <4>1. consent'[s] = "revoked"
        BY <1>2, <3>1, RevocationStep DEF CInv, Revoked
      <4> QED
        BY <4>1 DEF Driven
    <3>2. CASE consent[s] # "revoked"
      <4>1. ASSUME NEW r \in Sessions, CreateSession(r) \/ GrantConsent(r)
            PROVE  Driven(s)'
        <5>1. /\ job' = job /\ worker' = worker
              /\ \/ session'[s] = session[s]
                 \/ session'[s].state # "validating" /\ session[s].state # "validating"
          <6>1. job' = job /\ worker' = worker
            BY <4>1 DEF CreateSession, GrantConsent
          <6>2. session \in [Sessions -> SessionRow] /\ r \in Sessions
            BY DEF CInv, TypeOK
          <6>3. /\ session[r].state \in {"none", "draft"}
                /\ \E v : \/ session' = [session EXCEPT ![r] = [state |-> "draft", version |-> v]]
                          \/ session' = [session EXCEPT ![r] = [state |-> "consented", version |-> v]]
            BY <4>1 DEF CreateSession, GrantConsent
          <6>4. s # r => session'[s] = session[s]
            BY <6>2, <6>3
          <6>5. session'[r].state \in {"draft", "consented"}
            BY <6>2, <6>3
          <6> QED
            BY <6>1, <6>3, <6>4, <6>5
        <5>2. Driven(s)
          BY DEF CInv
        <5> QED
          BY <3>2, <5>1, <5>2 DEF Driven
      <4>2. ASSUME NEW r \in Sessions, ExpireConsent(r)
            PROVE  Driven(s)'
        BY <3>2, <4>2 DEF ExpireConsent, Driven, CInv
      <4>3. ASSUME NEW r \in Sessions, ExpireLease(r)
            PROVE  Driven(s)'
        <5>1. /\ session' = session /\ worker' = worker
              /\ job'[s].state = job[s].state /\ job'[s].version = job[s].version
          BY <4>3 DEF ExpireLease, CInv, TypeOK, JobRow
        <5> QED
          BY <3>2, <5>1 DEF Driven, CInv
      <4>4. ASSUME NEW c \in Sources, EditSource(c)
            PROVE  Driven(s)'
        BY <3>2, <4>4 DEF EditSource, Driven, CInv
      <4>5. ASSUME NEW t \in Threads, Handler(t)
            PROVE  Driven(s)'
        BY <1>2, <4>5, DrivenByHandlers
      <4>6. ASSUME NEW w \in Workers, Step(w) \/ Crash(w)
            PROVE  Driven(s)'
        BY <1>2, <3>2, <4>6, DrivenByReaders, DrivenByWriters DEF Step
      <4> QED
        BY <1>2, <4>1, <4>2, <4>3, <4>4, <4>5, <4>6 DEF Next
    <3> QED
      BY <3>1, <3>2
  <2> QED
    BY <2>1, <2>2 DEF CInv
<1> QED
  BY <1>1, <1>2

LEMMA CInvIsEnough == CInv => ValidatingHasCommand
BY DEF CInv, Driven, ValidatingHasCommand

\* Whatever workers do, claim twice, fail late or lose, a session that is not revoked and
\* validating has a command that can be claimed for it, unless a request wrote late.
THEOREM CommandsSurvive == Spec /\ WritesAreTimely => []ValidatingHasCommand
<1>1. Init => CInv
  BY CommandInit
<1>2. CInv /\ [Next]_vars /\
      [\A s \in Sessions : session[s].state = "validating" /\ session'[s].state # "validating" =>
         worker' # worker \/ consent'[s] = "revoked"]_vars => CInv'
  BY CommandStep DEF Timely
<1>3. CInv => ValidatingHasCommand
  BY CInvIsEnough
<1> QED
  BY <1>1, <1>2, <1>3, PTL DEF Spec, WritesAreTimely

=============================================================================
