CONSTANTS
  Samplers <- OnlyGreedy
  Number <- Numbers
  NegInfinity <- Lowest
  NaN = NaN
  MaxVocabulary = 3
  None = None
  Error = Error
SPECIFICATION Spec
INVARIANT NanNeverWins
CHECK_DEADLOCK FALSE
