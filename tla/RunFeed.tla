------------------------------- MODULE RunFeed -------------------------------
(***************************************************************************)
(* What a Research Run promises to whoever watches it: its events form one *)
(* append-only list, numbered from 1 without a hole, in which no occurrence*)
(* is recorded twice, and a watcher is shown every event after its cursor, *)
(* in order, however often the connection is lost and opened again.        *)
(*                                                                         *)
(* An event is a record with its number, `seq`, and what happened, `what`. *)
(***************************************************************************)
EXTENDS Naturals, FiniteSets

CONSTANT FirstWhat   \* what the run is created with

VARIABLES
  events,   \* the events published so far
  cursor,   \* the number of the last event the watcher keeps as its place
  shown     \* the numbers of the events the watcher shows now

vars == <<events, cursor, shown>>

Init ==
  /\ events = {[seq |-> 1, what |-> FirstWhat]}
  /\ cursor = 0
  /\ shown = {}

(***************************************************************************)
(* New events take the next numbers and repeat nothing; what was published *)
(* is neither changed nor withdrawn.                                       *)
(***************************************************************************)
Publish ==
  /\ events \subseteq events'
  /\ events' # events
  /\ \A e, f \in events' : e.what = f.what => e = f
  /\ {e.seq : e \in events'} = 1..Cardinality(events')
  /\ UNCHANGED <<cursor, shown>>

(***************************************************************************)
(* The watcher is shown the events that follow its place, none left out.   *)
(***************************************************************************)
Show ==
  /\ cursor' > cursor
  /\ cursor' <= Cardinality(events)
  /\ shown' = shown \cup ((cursor + 1)..cursor')
  /\ UNCHANGED events

(***************************************************************************)
(* The watcher forgets what it shows, and its place with it or not.        *)
(***************************************************************************)
Forget ==
  /\ shown' = {}
  /\ cursor' \in {0, cursor}
  /\ UNCHANGED events

Next == Publish \/ Show \/ Forget

Spec == Init /\ [][Next]_vars
=============================================================================
