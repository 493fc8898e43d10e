SPECIFICATION FairSpec
CONSTANTS
  Workers = {w1, w2, w3}
  Messages = 2
  None = none
  MayFail = TRUE
INVARIANTS
  TypeOK
  StartTogether
  DoneMeansAll
  ThreadsOutliveDrain
  NoFailureSwallowed
PROPERTIES
  RunEnds
CHECK_DEADLOCK FALSE
