------------------------ MODULE MCWhisperTranscription ------------------------
(***************************************************************************)
(* WhisperTranscription for a decoder of two layers and a context of five  *)
(* tokens; requests within and beyond every limit.                         *)
(***************************************************************************)
EXTENDS WhisperTranscription, FiniteSetsExt

MCEmbed(token, position) == token + 2 * position + 1
MCProject(layer, hidden) == (3 * hidden + layer) % 7
MCLayer(layer, audio, hidden, rows) ==
  (hidden + layer + audio
     + MapThenSumSet(LAMBDA q : (q + 1) * rows[q], DOMAIN rows)) % 7
MCLogits(hidden) == hidden

\* The mask suppresses token 3; logits 6 are all suppressed
MCSample(x) == IF x = 6 THEN AllSuppressed ELSE x % 3

\* Token 9 is outside the vocabulary; audio 0 is refused
MCRequests ==
  [audio : 0..3,
   prompt : {<<>>, <<1>>, <<2, 0>>, <<9>>, <<0, 0, 0, 1>>, <<1, 1, 1, 1, 1, 1>>},
   wanted : 0..4,
   stop : 0..2]
=============================================================================
