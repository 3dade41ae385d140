CONSTANTS
  Token = {0, 1, 2, 3}
  TextContextLength = 5
  NumLayers = 2
  Embed <- MCEmbed
  Project <- MCProject
  Layer <- MCLayer
  Logits <- MCLogits
  Requests <- MCRequests
  BadAudio = 0
  MaskedSample <- MCSample
  AllSuppressed = AllSuppressed
  MaxPromptTokens = 5
  MaxNewTokens = 4
  MaxContextTokens = 7
  MayFail = TRUE
  None = None
SPECIFICATION FairSpec
INVARIANT DecoderOneBehind
PROPERTIES Returns ImplementsGreedy
