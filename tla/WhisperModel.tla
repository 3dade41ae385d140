----------------------------- MODULE WhisperModel -----------------------------
(***************************************************************************)
(* crates/models/src/whisper (config.rs, tensors.rs, weights.rs, model.rs, *)
(* audio.rs, encode.rs, and the operations of decode.rs): a Whisper model  *)
(* from config.json and the tensors of a safetensors file to the encoding  *)
(* of audio and the passes of the decoder.                                 *)
(*                                                                         *)
(* A configuration c has the fields of WhisperConfig under shorter names.  *)
(* A tensor is known by <<part, layer, name>>: part "model" holds those of *)
(* the model as a whole, under layer 0; "encoder" and "decoder" those of   *)
(* their layers. What the passes compute is in WhisperForward; here they   *)
(* are the operations they call.                                           *)
(*                                                                         *)
(* WholeFrames is a slip that the checks must notice; no behaviour uses    *)
(* it.                                                                     *)
(***************************************************************************)
EXTENDS KernelSteps, WhisperPrimitives, ChunkPlanner

CONSTANTS
  MinVocab,         \* WHISPER_MIN_VOCAB_SIZE
  MaxAudioContext,  \* WHISPER_MAX_AUDIO_CONTEXT
  MaxTextContext,   \* WHISPER_MAX_TEXT_CONTEXT
  FftSize,          \* WHISPER_FFT_SIZE
  HopLength,        \* WHISPER_HOP_LENGTH
  MelBins           \* WHISPER_MEL_BINS

-----------------------------------------------------------------------------
(***************************************************************************)
(* Configuration: a file is [form, architecture, dtype, c], in the form of *)
(* Hugging Face or of OpenAI.                                              *)
(***************************************************************************)
Sizes == {"mels", "audioCtx", "audioState", "audioHeads", "audioLayers", "audioFfn",
          "textCtx", "textState", "textHeads", "textLayers", "textFfn"}
DtypesOfFile == [absent |-> "F32", float32 |-> "F32", f32 |-> "F32", float16 |-> "F16", f16 |-> "F16",
                 bfloat16 |-> "BF16", bf16 |-> "BF16"]

ConfigAccepted(c) ==
  /\ \A size \in Sizes : c[size] > 0
  /\ c.vocab >= MinVocab
  /\ c.audioCtx <= MaxAudioContext /\ c.textCtx <= MaxTextContext
  /\ c.audioState % c.audioHeads = 0 /\ c.textState % c.textHeads = 0
  /\ c.dtype \in {"F32", "F16", "BF16"}
  /\ FitsUsize(<<c.audioCtx, c.audioState>>) /\ FitsUsize(<<c.textCtx, c.textState>>)

\* HfWhisperConfig::into_config: one width for both parts
HfConfig(file) ==
  [file.c EXCEPT !.textState = file.c.audioState, !.dtype = DtypesOfFile[file.dtype]]
\* OpenAiWhisperConfig::into_config: feed-forward networks four times as wide
OpenAiConfig(file) ==
  [file.c EXCEPT !.audioFfn = 4 * file.c.audioState, !.textFfn = 4 * file.c.textState,
                 !.dtype = DtypesOfFile[file.dtype]]
ConfigOf(file) == IF file.form = "hf" THEN HfConfig(file) ELSE OpenAiConfig(file)
\* parse_whisper_config_json
Parses(file) ==
  /\ file.architecture = "whisper" /\ file.dtype \in DOMAIN DtypesOfFile
  /\ file.form = "openai" =>
       FitsUsize(<<file.c.audioState, 4>>) /\ FitsUsize(<<file.c.textState, 4>>)
  /\ ConfigAccepted(ConfigOf(file))

-----------------------------------------------------------------------------
(***************************************************************************)
(* Tensors. The shapes are written twice: as the file is inspected, tensor *)
(* by tensor, and as the tensors are taken, by name.                       *)
(***************************************************************************)
ConvWidth == 3
Keyed(part, layers, ofLayer) ==
  [key \in {part} \X layers \X DOMAIN ofLayer |-> ofLayer[key[3]]]

EndsOf(c) ==
  LET s == c.audioState
      t == c.textState
      always == [conv1 |-> <<s, c.mels, ConvWidth>>, conv1_bias |-> <<s>>,
                 conv2 |-> <<s, s, ConvWidth>>, conv2_bias |-> <<s>>, positions |-> <<c.audioCtx, s>>,
                 ln_post |-> <<s>>, ln_post_bias |-> <<s>>,
                 token_embedding |-> <<c.vocab, t>>, text_positions |-> <<c.textCtx, t>>,
                 ln |-> <<t>>, ln_bias |-> <<t>>]
  IN  IF c.tied THEN always ELSE always @@ [proj_out |-> <<c.vocab, t>>]
\* check_self_attention_block; the keys have no bias
SelfBlock(s, ffn) ==
  [query |-> <<s, s>>, query_bias |-> <<s>>, key |-> <<s, s>>, value |-> <<s, s>>, value_bias |-> <<s>>,
   out |-> <<s, s>>, out_bias |-> <<s>>, attn_ln |-> <<s>>, attn_ln_bias |-> <<s>>,
   mlp0 |-> <<ffn, s>>, mlp0_bias |-> <<ffn>>, mlp2 |-> <<s, ffn>>, mlp2_bias |-> <<s>>,
   mlp_ln |-> <<s>>, mlp_ln_bias |-> <<s>>]
\* check_cross_attention_block
CrossBlock(c) ==
  LET t == c.textState
      s == c.audioState
  IN  [cross_query |-> <<t, t>>, cross_query_bias |-> <<t>>, cross_key |-> <<t, s>>,
       cross_value |-> <<t, s>>, cross_value_bias |-> <<t>>, cross_out |-> <<t, t>>,
       cross_out_bias |-> <<t>>, cross_ln |-> <<t>>, cross_ln_bias |-> <<t>>]
Required(c) ==
  Keyed("model", {0}, EndsOf(c))
  @@ Keyed("encoder", Upto(c.audioLayers), SelfBlock(c.audioState, c.audioFfn))
  @@ Keyed("decoder", Upto(c.textLayers), SelfBlock(c.textState, c.textFfn) @@ CrossBlock(c))

\* check_shape
ShapeChecked(c, tensor, shape) == tensor.shape = shape /\ tensor.dtype = c.dtype
\* validate_whisper_tensors
TensorsAccepted(c, tensors) ==
  LET required == Required(c)
  IN  /\ ConfigAccepted(c) /\ DOMAIN required \subseteq DOMAIN tensors
      /\ \A key \in DOMAIN required : ShapeChecked(c, tensors[key], required[key])

\* block_shape of a name in a layer
NoAudio == 0
BlockShape(name, state, ffn, audio) ==
  CASE name \in {"cross_key", "cross_value"} -> <<state, audio>>
    [] name \in {"query", "key", "value", "out", "cross_query", "cross_out"} -> <<state, state>>
    [] name = "mlp0" -> <<ffn, state>> [] name = "mlp2" -> <<state, ffn>> [] name = "mlp0_bias" -> <<ffn>>
    [] OTHER -> <<state>>
ExpectedShape(key, c) ==
  LET name == key[3]
  IN  CASE key[1] = "encoder" -> BlockShape(name, c.audioState, c.audioFfn, NoAudio)
        [] key[1] = "decoder" -> BlockShape(name, c.textState, c.textFfn, c.audioState)
        [] name = "conv1" -> <<c.audioState, c.mels, ConvWidth>>
        [] name = "conv2" -> <<c.audioState, c.audioState, ConvWidth>>
        [] name \in {"conv1_bias", "conv2_bias", "ln_post", "ln_post_bias"} -> <<c.audioState>>
        [] name = "positions" -> <<c.audioCtx, c.audioState>>
        [] name = "text_positions" -> <<c.textCtx, c.textState>>
        [] name \in {"token_embedding", "proj_out"} -> <<c.vocab, c.textState>>
        [] name \in {"ln", "ln_bias"} -> <<c.textState>>
OfModelPart(name, c) == ExpectedShape(<<"model", 0, name>>, c)
\* from_loaded_tensors
Takes(c, tensors) ==
  /\ ConfigAccepted(c)
  /\ \A key \in DOMAIN Required(c) :
       LET shape == ExpectedShape(key, c)
       IN  /\ key \in DOMAIN tensors /\ ShapeChecked(c, tensors[key], shape)
           /\ FitsUsize(shape)
\* load_from_paths_with_kernel_backend
Loads(file, tensors) ==
  Parses(file) /\ TensorsAccepted(ConfigOf(file), tensors) /\ Takes(ConfigOf(file), tensors)

-----------------------------------------------------------------------------
(***************************************************************************)
(* Audio: as many mel frames as there are hops in the samples.             *)
(***************************************************************************)
MetadataAccepted(audio) == audio.rate = 16000 /\ audio.channels = 1
\* max_audio_samples_for_context, validate_audio_samples_for_context
MaxSamples(audioCtx) == audioCtx * 2 * HopLength
SamplesFit(samples, audioCtx) == FitsUsize(<<audioCtx, 2, HopLength>>) /\ samples <= MaxSamples(audioCtx)

\* reflect_pad_centered: the cells of the audio that the padded one has
Reflected(samples) ==
  LET pad == FftSize \div 2
  IN  [i \in 1..pad |-> pad + 1 - i] \o [i \in 1..samples |-> i - 1]
      \o [i \in 1..pad |-> samples - 1 - i]
StftFrames(samples) == (samples - FftSize) \div HopLength + 1
WholeFrames(samples) == StftFrames(Len(Reflected(samples)))
Frames(samples) == StftFrames(Len(Reflected(samples))) - 1
\* log_mel_spectrogram_with_limits
MelAccepted(audio, maxSamples) ==
  /\ MetadataAccepted(audio) /\ audio.samples <= maxSamples
  /\ audio.samples >= FftSize /\ FitsUsize(<<Frames(audio.samples), MelBins>>)

-----------------------------------------------------------------------------
(***************************************************************************)
(* Operations of a pass, with the model's checks and the kernels'.         *)
(***************************************************************************)
Apply(c, key, rows, ins, outs, bias) ==
  LET w == ExpectedShape(key, c)
      b == IF bias = "" THEN <<>> ELSE ExpectedShape(<<key[1], key[2], bias>>, c)
  IN  StepOf(key, CheckedLinear([rows |-> rows, ins |-> ins, outs |-> outs, hasBias |-> b # <<>>,
                                 len |-> [x |-> rows * ins, w |-> Size(w), bias |-> Size(b),
                                          out |-> rows * outs]]),
             w = <<outs, ins>> /\ b \in {<<>>, <<outs>>})
LayerNorm(c, key, bias, rows, width) ==
  LET w == ExpectedShape(key, c)
      b == ExpectedShape(<<key[1], key[2], bias>>, c)
  IN  StepOf(key, CheckedLayerNorm([rows |-> rows, hidden |-> width,
                                    len |-> [a |-> rows * width, b |-> Size(w), c |-> Size(b),
                                             out |-> rows * width]]), w = <<width>> /\ b = <<width>>)
Residual(cells) == StepOf("residual", CheckedAdd(cells, cells), TRUE)
\* mlp_gelu_d
MlpGelu(c, part, layer, rows, width, ffn) ==
  <<Apply(c, <<part, layer, "mlp0">>, rows, width, ffn, "mlp0_bias"),
    StepOf("gelu", CheckedGelu(rows * ffn), TRUE),
    Apply(c, <<part, layer, "mlp2">>, rows, ffn, width, "mlp2_bias")>>
AttentionArgs(heads, width, seq, kvSeq, capacity, q, kv) ==
  [heads |-> heads, dim |-> width \div heads, seq |-> seq, kvSeq |-> kvSeq, capacity |-> capacity,
   len |-> [q |-> q * width, out |-> q * width, k |-> kv * width, v |-> kv * width,
            newK |-> width, newV |-> width]]

Convolution(c, weight, bias, time, ins, outs, stride, x) ==
  LET w == OfModelPart(weight, c)
  IN  StepOf(weight, ValidConv1d([width |-> time, inChannels |-> ins, outChannels |-> outs,
                                  kernel |-> <<1, ConvWidth>>, stride |-> <<1, stride>>, padding |-> <<0, 1>>,
                                  len |-> [x |-> x, w |-> Size(w), bias |-> Size(OfModelPart(bias, c))]]),
             w = <<outs, ins, ConvWidth>>)
Conv1Frames(frames) == ConvOutputLen(frames, ConvWidth, 1, 1)
EncodedFrames(frames) == ConvOutputLen(Conv1Frames(frames), ConvWidth, 2, 1)

-----------------------------------------------------------------------------
(***************************************************************************)
(* Encoding of frames * mels cells.                                        *)
(***************************************************************************)
\* validate_audio_request, validate_mel_frames_for_audio_context
FeaturesAccepted(c, frames, cells) ==
  /\ frames # 0 /\ FitsUsize(<<frames, c.mels>>) /\ cells = frames * c.mels
  /\ ConvOutputFits(frames, ConvWidth, 1) /\ EncodedFrames(frames) <= c.audioCtx

EncoderLayer(c, seq, layer) ==
  LET s == c.audioState
      key(name) == <<"encoder", layer, name>>
  IN  <<LayerNorm(c, key("attn_ln"), "attn_ln_bias", seq, s),
        Apply(c, key("query"), seq, s, s, "query_bias"), Apply(c, key("key"), seq, s, s, ""),
        Apply(c, key("value"), seq, s, s, "value_bias"),
        StepOf("attention", CheckedEncoder(AttentionArgs(c.audioHeads, s, seq, seq, seq, seq, seq)), TRUE),
        Apply(c, key("out"), seq, s, s, "out_bias"), Residual(seq * s),
        LayerNorm(c, key("mlp_ln"), "mlp_ln_bias", seq, s)>>
      \o MlpGelu(c, "encoder", layer, seq, s, c.audioFfn) \o <<Residual(seq * s)>>
EncoderSteps(c, frames, cells) ==
  LET s == c.audioState
      seq == EncodedFrames(frames)
  IN  <<Convolution(c, "conv1", "conv1_bias", frames, c.mels, s, 1, cells),
        Convolution(c, "conv2", "conv2_bias", Conv1Frames(frames), s, s, 2, Conv1Frames(frames) * s),
        StepOf("frames", seq <= c.audioCtx, TRUE),
        StepOf("positions", CheckedPositions(seq, s, Size(OfModelPart("positions", c)), c.audioCtx),
               OfModelPart("positions", c) = <<c.audioCtx, s>>)>>
      \o FlattenSeq([n \in 1..c.audioLayers |-> EncoderLayer(c, seq, n - 1)])
      \o <<LayerNorm(c, <<"model", 0, "ln_post">>, "ln_post_bias", seq, s)>>

\* precompute_cross_attention takes the encoder's rows to be as wide as the
\* decoder's
CrossSteps(c, seq) ==
  LET t == c.textState
      project(layer, name, bias) ==
        LET w == ExpectedShape(<<"decoder", layer, name>>, c)
        IN  StepOf(name, CheckedLinear([rows |-> seq, ins |-> t, outs |-> t, hasBias |-> bias,
                                        len |-> [x |-> seq * c.audioState, w |-> Size(w), bias |-> t,
                                                 out |-> seq * t]]), w = <<t, t>>)
  IN  FlattenSeq([n \in 1..c.textLayers |->
        <<project(n - 1, "cross_key", FALSE), project(n - 1, "cross_value", TRUE)>>])

-----------------------------------------------------------------------------
(***************************************************************************)
(* The decoder over the rows of a prompt, or over the one row that is      *)
(* appended to the filled rows of its caches.                              *)
(***************************************************************************)
TokensAccepted(c, ids) == ids # <<>> /\ Len(ids) <= c.textCtx /\ \A i \in DOMAIN ids : ids[i] < c.vocab

\* validate_encoded_audio: the lengths that encoding left
AudioAccepted(c, frames, stateSize, values, crossLayers, cross) ==
  /\ frames # 0 /\ stateSize = c.audioState
  /\ values = Product(frames, stateSize)
  /\ crossLayers = c.textLayers /\ cross = Product(frames, c.textState)

\* A row of the token embedding plus a row of the positions
Embedded(c, id, position) ==
  <<LookupStep("token_embedding", id, c.textState, OfModelPart("token_embedding", c)),
    LookupStep("text_positions", position, c.textState, OfModelPart("text_positions", c))>>

SelfAttention(c, rows, filled, appends) ==
  LET t == c.textState
      cache == c.textCtx * t
      copy == StepOf("cache", CheckedCopy([start |-> 0, len |-> [a |-> cache, b |-> rows * t]]), FitsUsize(<<c.textCtx, t>>))
  IN  IF appends
      THEN <<StepOf("append", CheckedAppend(AttentionArgs(c.textHeads, t, filled, 0, c.textCtx, 1, c.textCtx)), TRUE)>>
      ELSE <<StepOf("causal", CheckedCausal(AttentionArgs(c.textHeads, t, rows, rows, rows, rows, rows)), TRUE),
             copy, copy>>
DecoderLayer(c, rows, filled, appends, frames, layer) ==
  LET t == c.textState
      key(name) == <<"decoder", layer, name>>
  IN  <<LayerNorm(c, key("attn_ln"), "attn_ln_bias", rows, t),
        Apply(c, key("query"), rows, t, t, "query_bias"), Apply(c, key("key"), rows, t, t, ""),
        Apply(c, key("value"), rows, t, t, "value_bias")>>
      \o SelfAttention(c, rows, filled, appends)
      \o <<Apply(c, key("out"), rows, t, t, "out_bias"), Residual(rows * t),
           LayerNorm(c, key("cross_ln"), "cross_ln_bias", rows, t),
           Apply(c, key("cross_query"), rows, t, t, "cross_query_bias"),
           StepOf("cross", CheckedCross(AttentionArgs(c.textHeads, t, rows, frames, 0, rows, frames)), TRUE),
           Apply(c, key("cross_out"), rows, t, t, "cross_out_bias"), Residual(rows * t),
           LayerNorm(c, key("mlp_ln"), "mlp_ln_bias", rows, t)>>
      \o MlpGelu(c, "decoder", layer, rows, t, c.textFfn) \o <<Residual(rows * t)>>
\* project_decoder_logits
LogitsStep(c) ==
  Apply(c, <<"model", 0, IF c.tied THEN "token_embedding" ELSE "proj_out">>, 1, c.textState, c.vocab, "")

\* decode_tokens_with_self_attention_cache
PromptSteps(c, ids, frames) ==
  FlattenSeq([i \in DOMAIN ids |-> Embedded(c, ids[i], i - 1)])
  \o FlattenSeq([n \in 1..c.textLayers |-> DecoderLayer(c, Len(ids), 0, FALSE, frames, n - 1)])
  \o <<LayerNorm(c, <<"model", 0, "ln">>, "ln_bias", Len(ids), c.textState), LogitsStep(c)>>
\* decode_appended_token, after filled tokens
AppendSteps(c, id, filled, frames) ==
  Embedded(c, id, filled)
  \o FlattenSeq([n \in 1..c.textLayers |-> DecoderLayer(c, 1, filled, TRUE, frames, n - 1)])
  \o <<LayerNorm(c, <<"model", 0, "ln">>, "ln_bias", 1, c.textState), LogitsStep(c)>>
==============================================================================
