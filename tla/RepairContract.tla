--------------------------- MODULE RepairContract ---------------------------
(***************************************************************************)
(* What the agent contract promises of a rejected tool call: the retry     *)
(* policy is modify_arguments_or_stop.  While a rejected call of a run is  *)
(* open, the run either starts a call that applies the repair, or ends.    *)
(***************************************************************************)
CONSTANTS
  Runs,            \* runs
  Calls,           \* tool calls: an action and its arguments
  NoCall,          \* "nothing rejected"
  Repairs(_, _)    \* Repairs(d, c): call d applies the repair of rejected call c

VARIABLES
  open,    \* the rejected call a run still owes a repair, or NoCall
  trying,  \* the call a run is executing, or NoCall
  ended    \* runs that accept no further call

contract == <<open, trying, ended>>

Init ==
  /\ open = [r \in Runs |-> NoCall]
  /\ trying = [r \in Runs |-> NoCall]
  /\ ended = {}

\* A run starts a tool call; over an open rejection only a repair of it.
Start(r, c) ==
  /\ r \notin ended
  /\ open[r] # NoCall => Repairs(c, open[r])
  /\ trying' = [trying EXCEPT ![r] = c]
  /\ UNCHANGED <<open, ended>>

\* The call that was started comes back: accepted, refused for another
\* reason, or rejected.
Answer(r) ==
  /\ trying[r] # NoCall
  /\ open' \in {[open EXCEPT ![r] = c] : c \in {NoCall, trying[r]}}
  /\ trying' = [trying EXCEPT ![r] = NoCall]
  /\ ended' \in {ended, ended \cup {r}}

\* The run completes, fails or is cancelled, whatever is open.
End(r) ==
  /\ ended' = ended \cup {r}
  /\ UNCHANGED <<open, trying>>

Next == \E r \in Runs : Answer(r) \/ End(r) \/ \E c \in Calls : Start(r, c)

Spec == Init /\ [][Next]_contract
=============================================================================
