SPECIFICATION ChecksSpec
CONSTANTS
  Checks = {"first", "second"}
  Quotes <- HardwareQuotes
  GoogleKeys <- TwoKeys
  FirstKeys <- OneKey
  FirstListed = {"build"}
  MaxTime = 2
  MaxFailures = 2
INVARIANT GenuineQuotePasses
CHECK_DEADLOCK FALSE
