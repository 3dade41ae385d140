SPECIFICATION FairSpec
CONSTANTS
  Ids = {1, 2, 3}
  Token <- MCToken
  Prompts <- OnePrompt
  MaxNews = {2}
  DecodeOne <- MCDecodeOne
  MayFail = TRUE
  MaxQueueLen = 2
  Limits <- MCLimits
  MaxSubmissions = 4
  NoToken = NoToken
  NoRequest = NoRequest
INVARIANTS
  TypeOK
  UniqueIds
  QueueBound
  Lifecycle
  EventsExplainState
  RoundRobin
PROPERTIES
  CompletedIsDelivered
  RunTerminates
  ImplementsService
