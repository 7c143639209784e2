SPECIFICATION FairSpec
CONSTANTS
  Ceremony = {c1}
  First = First
  Attempts = 2
  MaxRestarts = 1
INVARIANTS TypeOK AcceptedOnce DeliveredMeansDone
PROPERTIES OutcomeOnce OutcomeComes CallbackEnds
CHECK_DEADLOCK FALSE
