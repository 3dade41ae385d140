SPECIFICATION FairSpec
CONSTANTS
  Ids = {1, 2, 3}
  Token <- MCToken
  Prompts <- TwoPrompts
  MaxNews = {0, 1, 3}
  DecodeOne <- MCDecodeOne
  MayFail = FALSE
  MaxQueueLen = 3
  Limits <- MCLimits
  MaxSubmissions = 3
  NoToken = NoToken
  NoRequest = NoRequest
INVARIANTS
  BatchingTransparent
PROPERTIES
  ReturnInSubmissionOrder
  ActiveIsAnswered
