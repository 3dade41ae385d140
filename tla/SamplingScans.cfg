CONSTANTS
  Samplers <- AllSamplers
  Number <- Numbers
  NegInfinity <- Lowest
  NaN = NaN
  MaxVocabulary = 3
  None = None
  Error = Error
SPECIFICATION Spec
INVARIANTS SampleIsLowestMax SuppressedNeverSampled
CHECK_DEADLOCK FALSE
