CONSTANTS
  MelFrames <- ShortUtterances
  ChunkFrames <- SmallChunks
  ContextFrames <- SmallContexts
SPECIFICATION Spec
INVARIANTS BodiesTile TimeAxisExact FrameArithmeticAgrees
CHECK_DEADLOCK FALSE
