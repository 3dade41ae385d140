CONSTANTS
  Token = {0, 1}
  TextContextLength = 3
  NumLayers = 2
  Embed <- MCEmbed
  Project <- MCProject
  Layer <- MCLayer
  Logits <- MCLogits
  Holders = {a, b}
  Storages = {s, t}
  Audios = {1}
  Prompts <- SomePrompts
  AnyToken = {0, 1, 9}
  MayFail = TRUE
  Zero = 0
  NoState = NoState
  a = a
  b = b
  s = s
  t = t
SYMMETRY Alike
SPECIFICATION StateSpec
INVARIANTS RowsMatchFullContext AppendMatchesFullContext
PROPERTY FailureLeavesNoTrace
