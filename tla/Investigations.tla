--------------------------- MODULE Investigations ---------------------------
(***************************************************************************)
(* A Signal, its triage and disposition, and the Investigations and        *)
(* Research Runs that start from it.                                       *)
(*                                                                         *)
(*   services/api/app/api/routes_core.py            triage_signal          *)
(*   services/api/app/modules/signals/service.py    transition_signal      *)
(*   services/api/app/modules/research/service.py   investigations, runs   *)
(*                                                                         *)
(* Except for a revision of the scope, a request reads its rows without a  *)
(* lock, decides on what it read, and commits: two steps.  Its UPDATE      *)
(* names the row by its primary key alone and holds the columns it has     *)
(* changed; row_version, which the client's expectation is compared with,  *)
(* becomes the number that was read plus one.  Refusals are left out, and  *)
(* so are the cooldown of a monitored signal, sessions, and what a scope   *)
(* says: only requests that name what they read get as far as a commit.    *)
(***************************************************************************)
EXTENDS Naturals, Sequences, FiniteSets

CONSTANTS
  Threads,            \* concurrent API requests
  MaxRequests,        \* bound on requests
  MaxInvestigations,  \* bound on investigations
  MaxRuns             \* bound on the runs of an investigation

VARIABLES
  signal,          \* the row of the signal
  investigations,  \* its investigations, oldest first
  request,         \* requests in progress, with the rows they have read
  requests         \* counter for the bound

vars == <<signal, investigations, request, requests>>

-----------------------------------------------------------------------------
SignalStates == {"new", "triaged", "investigating", "explained", "monitoring", "dismissed"}

\* confirmed: both assessments are confirmed; disposition_json is its action and
\* the status before it.
SignalRow == [status: SignalStates, version: Nat, confirmed: BOOLEAN,
              action: {"none", "investigate", "explain", "monitor", "dismiss", "undo"},
              previous: SignalStates]

Ended  == {"completed", "closed_insufficient", "cancelled"}
States == {"draft", "active", "needs_input", "reviewing"} \cup Ended

\* scope: the current scope version; runs: the scope version each run pins.
InvestigationRow == [status: States, version: Nat, scope: Nat, runs: Seq(Nat)]

NoRow       == [status |-> "none"]
IdleRequest == [op |-> "idle"]
Live(row)   == row.status \notin {"cancelled", "closed_insufficient"}

Init ==
  /\ signal = [status |-> "new", version |-> 1, confirmed |-> FALSE,
               action |-> "none", previous |-> "new"]
  /\ investigations = <<>>
  /\ request = [t \in Threads |-> IdleRequest]
  /\ requests = 0

\* What an UPDATE leaves: the columns whose value the request has changed.
Updated(row, read, edited) ==
  [column \in DOMAIN row |-> IF edited[column] # read[column] THEN edited[column] ELSE row[column]]

Respond(t) == request' = [request EXCEPT ![t] = IdleRequest]

\* A request reads the signal and, by its id, an investigation.
Read(t, op, i) ==
  /\ request[t] = IdleRequest
  /\ requests < MaxRequests
  /\ requests' = requests + 1
  /\ request' = [request EXCEPT ![t] =
       [op |-> op, id |-> i, signal |-> signal,
        row |-> IF i \in DOMAIN investigations THEN investigations[i] ELSE NoRow,
        live |-> \E k \in DOMAIN investigations : Live(investigations[k])]]
  /\ UNCHANGED <<signal, investigations>>

-----------------------------------------------------------------------------
(* The signal.                                                             *)

Triage(t) ==
  LET read == request[t].signal  IN
  /\ request[t].op = "triage"
  /\ signal' = [Updated(signal, read, [read EXCEPT !.status = "triaged", !.version = @ + 1])
                  EXCEPT !.confirmed = TRUE]
  /\ Respond(t)
  /\ UNCHANGED <<investigations, requests>>

\* _TRANSITIONS: <<status, action, target>>.
SignalMoves ==
  {<<from, "monitor", "monitoring">> : from \in {"new", "triaged", "investigating", "explained"}}
    \cup {<<from, "dismiss", "dismissed">> : from \in {"new", "triaged", "explained", "monitoring"}}
    \cup {<<from, "investigate", "investigating">> : from \in {"triaged", "monitoring"}}
    \cup {<<"investigating", "explain", "explained">>}

\* Mutant of MayInvestigate: any monitored signal may be investigated.
MayInvestigateMonitored(read) == read.status = "monitoring" => read.action = "monitor"

\* A monitored signal is investigated only if it had been triaged before.
MayInvestigate(read) ==
  read.status = "monitoring" => read.previous \in {"triaged", "investigating", "explained"}

\* The disposition is written whole, with an id of its own.
Dispose(t, status, action, previous) ==
  LET read == request[t].signal  IN
  /\ signal' = [Updated(signal, read, [read EXCEPT !.status = status, !.version = @ + 1])
                  EXCEPT !.action = action, !.previous = previous]
  /\ Respond(t)
  /\ UNCHANGED <<investigations, requests>>

MoveSignal(t) ==
  LET read == request[t].signal  IN
  /\ request[t].op = "move_signal"
  /\ \E move \in SignalMoves :
       /\ move[1] = read.status
       /\ move[2] = "investigate" => MayInvestigate(read)
       /\ Dispose(t, move[3], move[2], read.status)

\* Undo takes back the last monitor or dismiss, once.
UndoSignal(t) ==
  LET read == request[t].signal  IN
  /\ request[t].op = "undo_signal"
  /\ read.status \in {"monitoring", "dismissed"} /\ read.action \in {"monitor", "dismiss"}
  /\ Dispose(t, read.previous, "undo", read.previous)

-----------------------------------------------------------------------------
(* Investigations and runs.                                                *)

Triaged(read) == read.status = "triaged" /\ read.confirmed

\* The request returns the investigation that is there, or starts one.
CreateInvestigation(t) ==
  /\ request[t].op = "create"
  /\ IF request[t].live THEN UNCHANGED investigations
     ELSE /\ Triaged(request[t].signal)
          /\ Len(investigations) < MaxInvestigations
          /\ investigations' = Append(investigations,
               [status |-> "draft", version |-> 1, scope |-> 1, runs |-> <<>>])
  /\ Respond(t)
  /\ UNCHANGED <<signal, requests>>

\* The row is locked and read again, and the version compared after that.
ReviseScope(i) ==
  /\ requests < MaxRequests
  /\ requests' = requests + 1
  /\ investigations[i].status \in {"draft", "needs_input"}
  /\ investigations' = [investigations EXCEPT ![i].scope = @ + 1, ![i].version = @ + 1]
  /\ UNCHANGED <<signal, request>>

\* The transitions of transition_investigation: <<status, action, target>>.
Moves ==
  {<<"active", "request_input", "needs_input">>, <<"needs_input", "provide_input", "active">>,
   <<"active", "start_review", "reviewing">>, <<"needs_input", "start_review", "reviewing">>,
   <<"reviewing", "complete", "completed">>,
   <<"active", "close_insufficient", "closed_insufficient">>,
   <<"needs_input", "close_insufficient", "closed_insufficient">>}
    \cup {<<from, "cancel", "cancelled">> : from \in {"draft", "active", "needs_input", "reviewing"}}

MoveInvestigation(t) ==
  LET read == request[t].row
      i    == request[t].id
  IN
  /\ request[t].op = "move"
  /\ \E move \in Moves :
       /\ move[1] = read.status
       /\ investigations' = [investigations EXCEPT ![i] =
            Updated(@, read, [read EXCEPT !.status = move[3], !.version = @ + 1])]
  /\ Respond(t)
  /\ UNCHANGED <<signal, requests>>

\* A run pins the scope that was read.  The first run of a draft makes the
\* investigation active and the signal investigating.
CreateRun(t) ==
  LET read  == request[t].row
      seen  == request[t].signal
      i     == request[t].id
      first == read.status = "draft"
      with  == [investigations[i] EXCEPT !.runs = Append(@, read.scope)]
  IN
  /\ request[t].op = "run"
  /\ read.status \in {"draft", "active", "needs_input"}
  /\ first => Triaged(seen)
  /\ Len(investigations[i].runs) < MaxRuns
  /\ IF first
       THEN /\ investigations' = [investigations EXCEPT ![i] =
                 [with EXCEPT !.status = "active", !.version = read.version + 1]]
            /\ signal' = Updated(signal, seen, [seen EXCEPT !.status = "investigating", !.version = @ + 1])
       ELSE investigations' = [investigations EXCEPT ![i] = with] /\ UNCHANGED signal
  /\ Respond(t)
  /\ UNCHANGED requests

\* A refusal, or a process that dies before its commit.
EndRequest(t) ==
  /\ request[t] # IdleRequest
  /\ Respond(t)
  /\ UNCHANGED <<signal, investigations, requests>>

-----------------------------------------------------------------------------
Handle(t) ==
  \/ Triage(t) \/ MoveSignal(t) \/ UndoSignal(t)
  \/ CreateInvestigation(t) \/ MoveInvestigation(t) \/ CreateRun(t) \/ EndRequest(t)

Next ==
  \/ \E t \in Threads, op \in {"triage", "move_signal", "undo_signal", "create"} : Read(t, op, 0)
  \/ \E t \in Threads, op \in {"move", "run"}, i \in DOMAIN investigations : Read(t, op, i)
  \/ \E t \in Threads : Handle(t)
  \/ \E i \in DOMAIN investigations : ReviseScope(i)

Spec == Init /\ [][Next]_vars

-----------------------------------------------------------------------------
(* Properties.                                                             *)

RequestRow ==
  [op: {"triage", "move_signal", "undo_signal", "create", "move", "run"}, id: Nat,
   signal: SignalRow, row: InvestigationRow \cup {NoRow}, live: BOOLEAN]

TypeOK ==
  /\ signal \in SignalRow
  /\ investigations \in Seq(InvestigationRow)
  /\ request \in [Threads -> {IdleRequest} \cup RequestRow]
  /\ \A t \in Threads :
       request[t] # IdleRequest /\ request[t].op \in {"move", "run"} =>
         request[t].id \in DOMAIN investigations /\ request[t].row \in InvestigationRow
  /\ requests \in Nat

\* Nothing is investigated or explained, and no investigation exists, before a
\* person has confirmed impact and urgency, however dispositions, undos and
\* requests with old rows follow on each other.
ResearchFollowsTriage ==
  signal.status \in {"investigating", "explained"} \/ investigations # <<>> => signal.confirmed

\* An investigation that is past its draft has a run, or was cancelled before it had one.
ActiveHasRun ==
  \A i \in DOMAIN investigations :
    investigations[i].status \notin {"draft", "cancelled"} => investigations[i].runs # <<>>

\* Documented (packages/domain/lifecycle.py:57): completed, closed and cancelled are
\* terminal states of an investigation.
EndedIsFinal ==
  [][\A i \in DOMAIN investigations :
       investigations[i].status \in Ended =>
         investigations'[i].status = investigations[i].status]_vars
=============================================================================
