----------------------------- MODULE MCQwenCache -----------------------------
(***************************************************************************)
(* QwenCache on small instances: a model of two layers whose every result  *)
(* depends on every row it reads, on the layer and on the position.        *)
(***************************************************************************)
EXTENDS QwenCache, FiniteSetsExt, TLC

MCEmbed(token) == token + 1
MCProject(layer, hidden, position) == (3 * hidden + layer + 5 * position) % 7
MCAttend(layer, hidden, rows) ==
  (hidden + layer + MapThenSumSet(LAMBDA q : (q + 1) * rows[q], DOMAIN rows)) % 7
MCLogits(hidden) == hidden
MCSample(logits) == IF logits < 4 THEN 0 ELSE 1

\* Token 9 is outside the vocabulary; four tokens are more than the context
SomePrompts == {<<>>, <<1>>, <<0, 1>>, <<9>>, <<1, 0, 0, 1>>}

\* No operator tells one handle from another
Alike == Permutations(Handles)
=============================================================================
