-------------------------- MODULE MCQuantLearning --------------------------
EXTENDS QuantLearning

\* create_candidate calls: right, with a surplus field, with the
\* wrong replan action; finish_research
\* calls: right, without the required field, and with a null in it.
Call(action, need, extra) == [action |-> action, need |-> need, extra |-> extra, rest |-> 1]

SomeCalls ==
  {Call(Create, "good", FALSE), Call(Create, "good", TRUE), Call(Create, "worse", FALSE),
   Call(Finish, "good", FALSE), Call(Finish, "absent", FALSE), Call(Finish, "null", FALSE)}

\* The first run makes every mistake, the second the one memory can repair.
SomeOffers ==
  [r \in Runs |-> IF r = 1 THEN Calls
                  ELSE {Call(Create, "good", TRUE), Call(Finish, "good", FALSE)}]

\* A finish_research call whose field is null.
NullCalls ==
  {Call(Create, "good", FALSE), Call(Finish, "good", FALSE), Call(Finish, "null", FALSE)}

AllOffers == [r \in Runs |-> Calls]
=============================================================================
