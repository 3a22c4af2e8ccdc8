SPECIFICATION FairSpec
CONSTANTS
  Reads = {g1}
  Creates = {c1, c2, c3}
  MaxItems = 3
  MaxRestarts = 1
INVARIANTS
  TypeOK
  Exclusion
  Capacity
  NotifyAfterCommit
  CommitWillNotify
  AnswersAreHistory
PROPERTIES
  ImplementsService
  EveryRequestEnds
  EveryCommitAnnounced
CHECK_DEADLOCK FALSE
