--------------------------- MODULE MCWhisperDecode ---------------------------
(***************************************************************************)
(* WhisperDecode for a decoder of two layers whose results depend on every *)
(* row they read, on the layer, the position and the audio.                *)
(***************************************************************************)
EXTENDS WhisperDecode, FiniteSetsExt, TLC

MCEmbed(token, position) == token + 2 * position + 1
MCProject(layer, hidden) == (3 * hidden + layer) % 7
MCLayer(layer, audio, hidden, rows) ==
  (hidden + layer + audio
     + MapThenSumSet(LAMBDA q : (q + 1) * rows[q], DOMAIN rows)) % 7
MCLogits(hidden) == hidden

\* Token 9 is outside the vocabulary; four tokens are more than the context
SomePrompts == {<<>>, <<1>>, <<0, 1>>, <<9>>, <<1, 0, 0, 1>>}

\* No operator tells one holder, or one storage, from another
Alike == Permutations(Holders) \cup Permutations(Storages)
=============================================================================
