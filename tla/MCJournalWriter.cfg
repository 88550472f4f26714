CONSTANTS
  Callers = {c1, c2, c3}
  Capacity = 2
  MaxPushed = 3
  MaxFailures = 2
  NoOne = NoOne
  Torn = Torn
SPECIFICATION FairSpec
INVARIANTS FileOperationsExclusive NothingLostWithoutCause
           WrittenOnceInOrder RepeatedOnlyByRetry NoResurrection
PROPERTY CallsSettle
