\* Three calls, a retraining, two losses of the consumer and one restart of the service, under a
\* fair broker.
SPECIFICATION FairSpec
CONSTANTS
  Calls = {c1, c2, c3}
  MaxVersion = 2
  MaxLosses = 2
  MaxRestarts = 1
INVARIANTS TypeOK NoCallForgotten
PROPERTIES KeepsThePromise WaitingEnds
CHECK_DEADLOCK FALSE
