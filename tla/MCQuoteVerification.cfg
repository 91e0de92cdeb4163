SPECIFICATION ChecksSpec
CONSTANTS
  Checks = {"first", "second"}
  Quotes <- MCQuotes
  GoogleKeys <- TwoKeys
  FirstKeys <- OneKey
  FirstListed = {"build"}
  MaxTime = 2
  MaxFailures = 1
INVARIANTS
  AcceptedIsGenuine
  FailureIsNotCached
PROPERTY EveryCheckEnds
CHECK_DEADLOCK FALSE
