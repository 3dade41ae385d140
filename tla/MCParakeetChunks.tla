--------------------------- MODULE MCParakeetChunks ---------------------------
(***************************************************************************)
(* ParakeetChunks for utterances of up to nine encoder frames, whose last  *)
(* frame is of one to eight mel frames.                                    *)
(***************************************************************************)
EXTENDS ParakeetChunks

ShortUtterances == 1..72
SmallChunks == 0..5
SmallContexts == 0..4
=============================================================================
