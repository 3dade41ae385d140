SPECIFICATION Spec
CONSTANTS
  MaxUsize = 1048575
  Lanes = 2
  SdpaMinSeq = 2
  AttnWg = 4
  MaxU32 = 30
  CellWg = 4
  RowWg = 2
  LinearMinRows = 5
  LinearMinOutputs = 5
  MatmulMinRows = 3
  NoBias = NoBias
  TileM = 2
  TileN = 2
  TileK = 2
  RtBm = 4
  RtBn = 4
  RtBk = 2
  RtTm = 2
  RtTn = 2
  Zero = Zero
  AttentionCalls <- MCAttentionCalls
  SdpaCalls <- MCSdpaCalls
  LinearCalls <- MCLinearCalls
  PointCalls <- MCPointCalls
  ConvCalls <- MCConvCalls
  StagedCalls <- MCStagedCalls
  QuantCalls <- MCQuantCalls
  GgufCalls <- MCGgufCalls
  SafetensorsCalls <- MCSafetensorsCalls
  BodyMinRows = 4
  MaxContext = 4
  MinVocab = 3
  MaxAudioContext = 4
  MaxTextContext = 4
  FftSize = 4
  HopLength = 2
  MelBins = 2
  PrimitiveCalls <- MCPrimitiveCalls
  GemmaCalls <- MCGemmaCalls
  QwenCalls <- MCQwenCalls
  WhisperCalls <- MCWhisperCalls
  ParakeetCalls <- MCParakeetCalls
INVARIANTS
  RowsExact
  BackendsAgree
  
  SharedMemoryApart
  QuantsAsLoaded
  FilesReadAsWritten
  ModelsLoadAndRun
