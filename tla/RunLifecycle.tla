----------------------------- MODULE RunLifecycle -----------------------------
(***************************************************************************)
(* The Research Run state machine that packages/domain/lifecycle.py calls  *)
(* canonical: transition_research_run maps a state and a command to the    *)
(* next state, or refuses.                                                 *)
(***************************************************************************)
VARIABLE state

Terminal == {"completed", "failed", "cancelled"}

Init == state = "queued"

Move(from, to) == state \in from /\ state' = to

Start        == Move({"queued"}, "running")
WaitForInput == Move({"running"}, "waiting_for_input")
Resume       == Move({"waiting_for_input"}, "running")
Complete     == Move({"running"}, "completed")
Fail         == Move({"running"}, "failed")
Cancel       == Move({"queued", "running", "waiting_for_input"}, "cancelled")

Next == Start \/ WaitForInput \/ Resume \/ Complete \/ Fail \/ Cancel

Spec == Init /\ [][Next]_state
=============================================================================
