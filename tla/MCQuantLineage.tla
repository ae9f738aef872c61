--------------------------- MODULE MCQuantLineage ---------------------------
EXTENDS QuantLineage
CONSTANTS keyA, keyB, keyC

\* keyA and keyB share a template, keyC has the other.
Templates == [k \in Keys |-> IF k \in {keyA, keyB} THEN "trend" ELSE "reversion"]
Ranks     == [k \in Keys |-> CASE k = keyA -> 3 [] k = keyB -> 1 [] k = keyC -> 2]

\* Each override applies to some set of completed strategies.
Passed    == [k \in Keys |-> IF k = keyB THEN 1 ELSE 2]
Covered   == [k \in Keys |-> IF k = keyC THEN 2 ELSE 1]
Traded    == [k \in Keys |-> IF k = keyC THEN 0 ELSE 1]

Proposed  == [r \in Runs |-> IF r = 1 THEN <<{keyA}, {keyB, keyC}, {keyB, keyC}>> ELSE <<{keyA}, {keyC}, {keyB}>>]
Repairs   == [r \in Runs |-> IF r = 1 THEN 0 ELSE 1]

\* Two ranges of one dataset whose holdouts overlap.
Sets  == [w \in Windows |-> "bars"]
Bars  == [w \in Windows |-> IF w = "full" THEN {1, 2} ELSE {2}]
Ask(window, mode, policy) == [window |-> window, mode |-> mode, policy |-> policy]
AllRequests == [r \in Runs |-> {Ask("late", "plan", "none")} \cup
                  IF r = 1 THEN {Ask("full", "auto", "one_follow_up")} ELSE {}]
==============================================================================
