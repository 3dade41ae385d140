----------------------------- MODULE GemmaLayers -----------------------------
(***************************************************************************)
(* crates/models/src/gemma/gemma4.rs: the layers of a Gemma4 text decoder, *)
(* as its configuration c describes them: those with a window, the widths  *)
(* of each kind, and those that attend to the keys and values of an        *)
(* earlier layer. An optional field that is absent is None, an absent      *)
(* pattern <<>>.                                                           *)
(***************************************************************************)
EXTENDS Integers, Sequences

None == -1

UsesSwa(c, layer) ==
  IF c.pattern # <<>> /\ layer < Len(c.pattern) THEN c.pattern[layer + 1] ELSE layer % 6 # 5
UsesGlobal(c, layer) == ~UsesSwa(c, layer)

HeadWidths(c, layer) ==
  IF UsesGlobal(c, layer) THEN [key |-> c.key, value |-> c.value]
  ELSE [key |-> c.keySwa, value |-> c.valueSwa]
\* gemma4_layer_attention_dims
AttentionDims(c, layer) ==
  LET w == HeadWidths(c, layer)
  IN  [key |-> w.key, q |-> c.heads * w.key, k |-> c.kvHeads * w.key, v |-> c.kvHeads * w.value]

FirstShared(c) == c.blocks - c.shared
\* gemma4_shared_kv_source_layer, of a layer that shares
SourceOf(c, layer) == IF UsesSwa(c, layer) THEN FirstShared(c) - 2 ELSE FirstShared(c) - 1
SharedKv(c, layer) ==
  IF c.shared = None THEN None
  ELSE IF layer < FirstShared(c) THEN None ELSE SourceOf(c, layer)
ValidSharedKv(c) ==
  c.shared # None =>
    /\ c.shared > 0 /\ c.shared <= c.blocks
    /\ \A layer \in FirstShared(c)..(c.blocks - 1) :
         /\ SourceOf(c, layer) \in 0..(layer - 1)
         /\ UsesSwa(c, SourceOf(c, layer)) = UsesSwa(c, layer)
==============================================================================
