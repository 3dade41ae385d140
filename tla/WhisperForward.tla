---------------------------- MODULE WhisperForward ----------------------------
(***************************************************************************)
(* Whisper's decoder forward pass (crates/models/src/whisper/decode.rs):   *)
(* over a whole prompt, and for one appended token from K/V rows kept      *)
(* before. Layers and positions are counted from 0. A layer is one         *)
(* function: self-attention over rows of its K/V cache, cross-attention    *)
(* over the encoded audio, and the MLP.                                    *)
(*                                                                         *)
(* IncrementalLate, IncrementalPreviousPosition and AppendedRowsTooLow are *)
(* slips that the checks must notice; no behaviour uses them.              *)
(***************************************************************************)
EXTENDS Naturals, Sequences

CONSTANTS
  Token,               \* the vocabulary
  TextContextLength,   \* WhisperConfig::text_context_length
  NumLayers,           \* WhisperConfig::text_layers
  Embed(_, _),         \* token embedding + positional embedding
  Project(_, _),       \* a layer's K/V row of a hidden state
  Layer(_, _, _, _),   \* a layer's output, from audio, input and visible rows
  Logits(_),           \* decoder.ln and the vocabulary projection
  MayFail              \* may a kernel return an error?

ASSUME ForwardAssumption ==
  /\ TextContextLength \in Nat \ {0}
  /\ NumLayers \in Nat \ {0}
  /\ MayFail \in BOOLEAN

Layers == 0..(NumLayers - 1)

\* Hidden states of all positions after so many layers: the causal attention
\* of a position sees it and those before it
Hidden(audio, tokens) ==
  LET hidden[l \in 0..NumLayers] ==
        IF l = 0 THEN [p \in 0..(Len(tokens) - 1) |-> Embed(tokens[p + 1], p)]
        ELSE [p \in 0..(Len(tokens) - 1) |->
                Layer(l - 1, audio, hidden[l - 1][p],
                      [q \in 0..p |-> Project(l - 1, hidden[l - 1][q])])]
  IN  hidden

\* forward_next_token_logits: only the last row is projected
FreshLogits(audio, tokens) ==
  Logits(Hidden(audio, tokens)[NumLayers][Len(tokens) - 1])

\* The K/V rows that the pass over the prompt leaves in each layer
PromptRows(audio, tokens) ==
  [x \in Layers \X (0..(Len(tokens) - 1)) |->
     Project(x[1], Hidden(audio, tokens)[x[1]][x[2]])]

\* Hidden states of the one position len of an appended token: each layer puts
\* its row into the cache and then attends to the rows up to it
IncrementalLate(audio, rows, len, token) ==
  LET hidden[l \in 0..NumLayers] ==
        IF l = 0 THEN Embed(token, len)
        ELSE Layer(l - 1, audio, hidden[l - 1],
                   [q \in 0..len |-> rows[<<l - 1, q>>]])
  IN  hidden
IncrementalPreviousPosition(audio, rows, len, token) ==
  LET hidden[l \in 0..NumLayers] ==
        IF l = 0 THEN Embed(token, len - 1)
        ELSE Layer(l - 1, audio, hidden[l - 1],
                   [q \in 0..len |->
                      IF q = len THEN Project(l - 1, hidden[l - 1])
                      ELSE rows[<<l - 1, q>>]])
  IN  hidden
Incremental(audio, rows, len, token) ==
  LET hidden[l \in 0..NumLayers] ==
        IF l = 0 THEN Embed(token, len)
        ELSE Layer(l - 1, audio, hidden[l - 1],
                   [q \in 0..len |->
                      IF q = len THEN Project(l - 1, hidden[l - 1])
                      ELSE rows[<<l - 1, q>>]])
  IN  hidden

AppendedRowsTooLow(audio, rows, len, token) ==
  [x \in Layers \X {len - 1} |->
     Project(x[1], Incremental(audio, rows, len, token)[x[1]])]
\* The rows of the appended token
AppendedRows(audio, rows, len, token) ==
  [x \in Layers \X {len} |->
     Project(x[1], Incremental(audio, rows, len, token)[x[1]])]

\* rows with those of some layers replaced
Overwritten(rows, new, layers) ==
  [x \in DOMAIN rows |->
     IF x \in DOMAIN new /\ x[1] < layers THEN new[x] ELSE rows[x]]

\* validate_decoder_tokens
ValidPrompt(tokens) ==
  /\ tokens # <<>>
  /\ Len(tokens) <= TextContextLength
  /\ \A i \in DOMAIN tokens : tokens[i] \in Token
=============================================================================
