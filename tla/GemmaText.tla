------------------------------ MODULE GemmaText ------------------------------
(***************************************************************************)
(* crates/models/src/gemma/gemma4.rs: the text decoder of Gemma4, from the *)
(* metadata and tensors of a GGUF file to a pass over a prompt.            *)
(*                                                                         *)
(* A configuration c has the fields of Gemma4Config under shorter names;   *)
(* an optional one that is absent is None, an absent pattern <<>>. A       *)
(* tensor is known by <<layer, name>>, layer 0 holding those of the model  *)
(* as a whole and layer n + 1 those of the n-th.                           *)
(***************************************************************************)
EXTENDS KernelSteps, GgufFile, GemmaLayers

-----------------------------------------------------------------------------
(***************************************************************************)
(* Configuration.                                                          *)
(***************************************************************************)
Whole == {"ctx", "blocks", "h", "epl", "f", "heads", "kvHeads", "key", "value", "keySwa",
          "valueSwa", "rope", "ropeSwa"}
Optional == {"window", "shared"}
Fractions == {"base", "baseSwa", "eps"}

HasInteger(types, key) == types[key] \in {"U32", "U64"}
HasNumber(types, key) == types[key] \in {"F32", "F64", "U32", "U64"}
QuantizationOf(fileType) == CASE fileType = 0 -> "unquantized" [] fileType = 15 -> "Q4KM" [] OTHER -> "other"
IsQuantised(type) == type \notin DOMAIN FixedSize

\* Gemma4Config::try_from: meta has the type of each key, "absent" if none, and
\* the numbers
ConfigAccepted(meta) ==
  LET c == meta.c
      t == meta.types
  IN  /\ t["arch"] = "String" /\ meta.arch = "gemma4"
      /\ \A key \in Whole : HasInteger(t, key) /\ c[key] > 0
      /\ \A key \in Fractions : HasNumber(t, key) /\ meta.positive
      /\ HasInteger(t, "fileType")
      /\ c.heads % c.kvHeads = 0
      /\ t["tokens"] = "String array" /\ c.vocab > 0
      /\ \A key \in Optional : t[key] # "absent" => HasInteger(t, key) /\ c[key] > 0
      /\ t["pattern"] \in {"absent", "Bool array"}
      /\ t["pattern"] = "Bool array" => Len(c.pattern) = c.blocks
      /\ t["softcap"] # "absent" => HasNumber(t, "softcap") /\ meta.positive
\* Whatever the file says it is taken to be multimodal
ConfigOf(meta, tensors) ==
  [meta.c EXCEPT !.multimodal = TRUE,
                 !.quantised = \E key \in DOMAIN tensors : IsQuantised(tensors[key].type)]

SupportedForTextForward(c) ==
  /\ ~c.multimodal
  /\ <<QuantizationOf(c.fileType), c.quantised>> \in {<<"unquantized", FALSE>>, <<"Q4KM", TRUE>>}
  /\ c.key = c.value /\ c.keySwa = c.valueSwa
  /\ c.rope = c.key /\ c.ropeSwa = c.keySwa

TensorDimensionsFit(c) ==
  /\ FitsUsize(<<c.blocks, c.epl>>)
  /\ \A n \in {c.heads, c.kvHeads} : FitsUsize(<<n, c.key>>) /\ FitsUsize(<<n, c.keySwa>>)
  /\ FitsUsize(<<c.kvHeads, c.value>>) /\ FitsUsize(<<c.kvHeads, c.valueSwa>>)

\* validate_gemma4_text_weight_config
ValidTextConfig(c) ==
  /\ \A key \in Whole : c[key] > 0
  /\ c.window # None => c.window > 0
  /\ c.pattern # <<>> => Len(c.pattern) = c.blocks
  /\ ValidSharedKv(c)
  /\ c.rope % 2 = 0 /\ c.ropeSwa % 2 = 0
  /\ c.vocab > 0 /\ c.heads % c.kvHeads = 0
  /\ TensorDimensionsFit([c EXCEPT !.epl = 1]) /\ FitsUsize(<<c.h, c.vocab>>)

-----------------------------------------------------------------------------
(***************************************************************************)
(* The tensors of a file, and what is loaded of them.                      *)
(***************************************************************************)
Spec_(shape, kind) == [shape |-> shape, kind |-> kind]
PerLayerWidth(c) == c.blocks * c.epl

\* required_gemma4_tensor_specs: of the model, then of a layer
RequiredOfModel(c) ==
  [token_embd |-> Spec_(<<c.h, c.vocab>>, "K"), output_norm |-> Spec_(<<c.h>>, "F32"),
   rope_freqs |-> Spec_(<<c.rope \div 2>>, "F32"),
   per_layer_model_proj |-> Spec_(<<c.h, PerLayerWidth(c)>>, "BF16"),
   per_layer_proj_norm |-> Spec_(<<c.epl>>, "F32"),
   per_layer_token_embd |-> Spec_(<<PerLayerWidth(c), c.vocab>>, "K")]
RequiredOfLayer(c, layer) ==
  LET w == HeadWidths(c, layer)
      q == c.heads * w.key
  IN  [attn_norm |-> Spec_(<<c.h>>, "F32"), attn_q |-> Spec_(<<c.h, q>>, "K"),
       attn_k |-> Spec_(<<c.h, c.kvHeads * w.key>>, "K"),
       attn_v |-> Spec_(<<c.h, c.kvHeads * w.value>>, "K"),
       attn_output |-> Spec_(<<q, c.h>>, "K"),
       attn_q_norm |-> Spec_(<<w.key>>, "F32"), attn_k_norm |-> Spec_(<<w.key>>, "F32"),
       ffn_norm |-> Spec_(<<c.h>>, "F32"), ffn_gate |-> Spec_(<<c.h, c.f>>, "K"),
       ffn_up |-> Spec_(<<c.h, c.f>>, "K"), ffn_down |-> Spec_(<<c.f, c.h>>, "K"),
       inp_gate |-> Spec_(<<c.h, c.epl>>, "K"), proj |-> Spec_(<<c.epl, c.h>>, "K"),
       layer_output_scale |-> Spec_(<<1>>, "F32"), post_attention_norm |-> Spec_(<<c.h>>, "F32"),
       post_ffw_norm |-> Spec_(<<c.h>>, "F32"), post_norm |-> Spec_(<<c.h>>, "F32")]

Required(c) == ByLayer(c.blocks, RequiredOfModel(c), LAMBDA layer : RequiredOfLayer(c, layer))

KindMatches(type, kind) == IF kind = "K" THEN type \in DOMAIN QuantBlock ELSE type = kind
\* tensors: [key -> [shape, type]], of which the first of a name counts
InventoryAccepted(c, tensors) ==
  LET required == Required(c)
  IN  /\ TensorDimensionsFit(c)
      /\ \A key \in DOMAIN required :
           /\ key \in DOMAIN tensors
           /\ tensors[key].shape = required[key].shape
           /\ KindMatches(tensors[key].type, required[key].kind)

\* load_gguf_tensors_dequantized_f32; all the values are f32 from here on
Loaded(tensors, keys) ==
  [key \in keys |-> [shape |-> tensors[key].shape, values |-> Elements(tensors[key].shape),
                     dtype |-> IF IsQuantised(tensors[key].type) THEN "F32" ELSE tensors[key].type]]
DenseKeys(c) ==
  LET required == Required(c)
  IN  {key \in DOMAIN required : required[key].kind # "K"}
DequantisedMatches(dtype, kind) == dtype = (IF kind = "K" THEN "F32" ELSE kind)
LoadedMatches(tensor, spec) ==
  /\ tensor.shape = spec.shape
  /\ DequantisedMatches(tensor.dtype, spec.kind)
  /\ FitsUsize(spec.shape) /\ tensor.values = Elements(spec.shape)

\* validate_gemma4_dense_tensors and validate_gemma4_dequantized_tensors
AllMatch(c, loaded, keys) ==
  LET required == Required(c)
  IN  /\ TensorDimensionsFit(c)
      /\ \A key \in keys : key \in DOMAIN loaded /\ LoadedMatches(loaded[key], required[key])
LoadDense(c, tensors) ==
  InventoryAccepted(c, tensors) /\ AllMatch(c, Loaded(tensors, DenseKeys(c)), DenseKeys(c))
LoadDequantised(c, tensors) ==
  LET keys == DOMAIN Required(c)
  IN  InventoryAccepted(c, tensors) /\ AllMatch(c, Loaded(tensors, keys), keys)

-----------------------------------------------------------------------------
(***************************************************************************)
(* Weights: the layout of each, from the tensor that from_loaded_tensors   *)
(* takes for it. A GGUF matrix <<in, out>> has out rows.                   *)
(***************************************************************************)
AsStored(shape) == IF Len(shape) = 2 THEN <<shape[2], shape[1]>> ELSE shape
Transposed(shape) == <<AsStored(shape)[2], AsStored(shape)[1]>>

Take(tensor, shape, layout(_)) == [tensor |-> tensor, shape |-> shape, layout |-> layout(shape)]
Vector(tensor, n) == Take(tensor, <<n>>, AsStored)
Table(tensor, shape) == Take(tensor, shape, AsStored)
Matrix(tensor, ins, outs) == Take(tensor, <<ins, outs>>, Transposed)

TakenForModel(c) ==
  [token_embd |-> Table("token_embd", <<c.h, c.vocab>>),
   lm_head_w |-> Matrix("token_embd", c.h, c.vocab),
   per_layer_token_embd |-> Table("per_layer_token_embd", <<PerLayerWidth(c), c.vocab>>),
   per_layer_model_proj_w |-> Matrix("per_layer_model_proj", c.h, PerLayerWidth(c)),
   per_layer_proj_norm_w |-> Vector("per_layer_proj_norm", c.epl),
   rope_freqs |-> Vector("rope_freqs", c.rope \div 2),
   output_norm_w |-> Vector("output_norm", c.h)]
TakenForLayer(c, layer) ==
  LET a == AttentionDims(c, layer)
  IN  [attn_norm_w |-> Vector("attn_norm", c.h),
       attn_q_w |-> Matrix("attn_q", c.h, a.q), attn_k_w |-> Matrix("attn_k", c.h, a.k),
       attn_v_w |-> Matrix("attn_v", c.h, a.v), attn_o_w |-> Matrix("attn_output", a.q, c.h),
       attn_q_norm_w |-> Vector("attn_q_norm", a.key), attn_k_norm_w |-> Vector("attn_k_norm", a.key),
       ffn_norm_w |-> Vector("ffn_norm", c.h), ffn_gate_w |-> Matrix("ffn_gate", c.h, c.f),
       ffn_up_w |-> Matrix("ffn_up", c.h, c.f), ffn_down_w |-> Matrix("ffn_down", c.f, c.h),
       attn_post_norm_w |-> Vector("post_attention_norm", c.h),
       ffn_post_norm_w |-> Vector("post_ffw_norm", c.h),
       per_layer_inp_gate_w |-> Matrix("inp_gate", c.h, c.epl),
       per_layer_proj_w |-> Matrix("proj", c.epl, c.h),
       per_layer_post_norm_w |-> Vector("post_norm", c.h),
       layer_output_scale |-> Vector("layer_output_scale", 1)]
Taken(c) == ByLayer(c.blocks, TakenForModel(c), LAMBDA layer : TakenForLayer(c, layer))

\* take_text_tensor removes a tensor and checks it again; the kinds are those
\* of the inventory
Takes(c, loaded) ==
  LET taken == Taken(c)
  IN  /\ ValidTextConfig(c) /\ FitsUsize(<<c.blocks, c.epl>>)
      /\ \A key \in DOMAIN taken :
           LET from == <<key[1], taken[key].tensor>>
           IN  from \in DOMAIN loaded /\ loaded[from].shape = taken[key].shape
Weights(c) ==
  LET taken == Taken(c)
  IN  [key \in DOMAIN taken |-> taken[key].layout]

\* validate_gemma4_text_weight_lengths
LengthsForModel(c) ==
  [token_embd |-> c.vocab * c.h, output_norm_w |-> c.h, lm_head_w |-> c.h * c.vocab,
   per_layer_token_embd |-> c.vocab * PerLayerWidth(c),
   per_layer_model_proj_w |-> c.h * PerLayerWidth(c), per_layer_proj_norm_w |-> c.epl,
   rope_freqs |-> c.rope \div 2]
LengthOfValues(c, layer) == AttentionDims(c, layer).v
LengthsForLayer(c, layer) ==
  LET a == AttentionDims(c, layer)
  IN  [attn_norm_w |-> c.h, attn_q_w |-> c.h * a.q, attn_k_w |-> c.h * a.k,
       attn_v_w |-> c.h * LengthOfValues(c, layer), attn_o_w |-> a.q * c.h,
       attn_q_norm_w |-> a.key, attn_k_norm_w |-> a.key, ffn_norm_w |-> c.h,
       ffn_gate_w |-> c.h * c.f, ffn_up_w |-> c.h * c.f, ffn_down_w |-> c.f * c.h,
       attn_post_norm_w |-> c.h, ffn_post_norm_w |-> c.h, per_layer_inp_gate_w |-> c.h * c.epl,
       per_layer_proj_w |-> c.epl * c.h, per_layer_post_norm_w |-> c.h, layer_output_scale |-> 1]
Lengths(c) == ByLayer(c.blocks, LengthsForModel(c), LAMBDA layer : LengthsForLayer(c, layer))
ValidLengths(c, w) ==
  LET lengths == Lengths(c)
  IN  /\ DOMAIN w = DOMAIN lengths
      /\ \A key \in DOMAIN w : lengths[key] <= MaxUsize /\ Size(w[key]) = lengths[key]
-----------------------------------------------------------------------------
(***************************************************************************)
(* Native projections: the bytes of quantised matrices, which stand in for *)
(* the weight of their name. A pass with none uses the weights alone.      *)
(***************************************************************************)
ProjectedByModel(c) == [lm_head_w |-> <<c.h, c.vocab>>]
ProjectedByLayer(c, layer) ==
  LET a == AttentionDims(c, layer)
  IN  [attn_q_w |-> <<c.h, a.q>>, attn_k_w |-> <<c.h, a.k>>, attn_v_w |-> <<c.h, a.v>>,
       attn_o_w |-> <<a.q, c.h>>, ffn_gate_w |-> <<c.h, c.f>>, ffn_up_w |-> <<c.h, c.f>>,
       ffn_down_w |-> <<c.f, c.h>>, per_layer_inp_gate_w |-> <<c.h, c.epl>>,
       per_layer_proj_w |-> <<c.epl, c.h>>]
Projected(c) == ByLayer(c.blocks, ProjectedByModel(c), LAMBDA layer : ProjectedByLayer(c, layer))

ValidNative(n, ins, outs) ==
  /\ n.ins = ins /\ n.outs = outs /\ n.ins % QKK = 0
  /\ FitsUsize(<<n.outs, n.ins \div QKK, BlockBytes(n.kind)>>)
  /\ n.bytes = n.outs * (n.ins \div QKK) * BlockBytes(n.kind)
\* validate_gemma4_native_text_projections
ValidNatives(c, natives) ==
  LET projected == Projected(c)
  IN  \A key \in DOMAIN natives :
        key \in DOMAIN projected /\ ValidNative(natives[key], projected[key][1], projected[key][2])

\* load_gemma4_native_text_projections_from_gguf, of a file that was inspected
RawOf(taken, tensors, key) == tensors[<<key[1], taken[key].tensor>>]
RawAccepted(raw, projected) == raw.shape = projected /\ raw.type \in DOMAIN QuantBlock
NativeFromRaw(raw) ==
  [kind |-> raw.type, ins |-> raw.shape[1], outs |-> raw.shape[2],
   bytes |-> ByteLen([dims |-> raw.shape, type |-> raw.type])]
NativesOf(c, tensors) ==
  LET taken == Taken(c)
  IN  [key \in DOMAIN Projected(c) |-> NativeFromRaw(RawOf(taken, tensors, key))]
LoadNatives(c, tensors) ==
  LET taken == Taken(c)
      projected == Projected(c)
  IN  /\ ValidTextConfig(c)
      /\ \A key \in DOMAIN projected : RawAccepted(RawOf(taken, tensors, key), projected[key])
      /\ ValidNatives(c, NativesOf(c, tensors))

-----------------------------------------------------------------------------
(***************************************************************************)
(* A pass of a model m = [c, w, natives] over a prompt of seq tokens.      *)
(***************************************************************************)
Project(m, key, rows, ins, outs, x, out) ==
  IF key \in DOMAIN m.natives THEN KQuantStep(key, rows, ins, outs, x, m.natives[key], out)
  ELSE MatmulStep(key, rows, ins, outs, x, m.w[key], out)
Norm(m, key, rows, width, cells) == NormStep(key, rows, width, cells, m.w[key], cells)

\* prefill_inner, its checks
PromptAccepted(c, ids) ==
  ids # <<>> /\ Len(ids) <= c.ctx /\ \A i \in DOMAIN ids : ids[i] < c.vocab

Embedding(m, ids) ==
  [i \in DOMAIN ids |-> LookupStep("token_embd", ids[i], m.c.h, m.w[OfModel("token_embd")])]
PerLayerInputs(m, ids) ==
  LET c == m.c
      cells == Len(ids) * PerLayerWidth(c)
      table == m.w[OfModel("per_layer_token_embd")]
  IN  [i \in DOMAIN ids |-> LookupStep("per_layer_token_embd", ids[i], PerLayerWidth(c), table)]
      \o <<MatmulStep("per_layer_model_proj_w", Len(ids), c.h, PerLayerWidth(c), Len(ids) * c.h,
                     m.w[OfModel("per_layer_model_proj_w")], cells),
           Norm(m, OfModel("per_layer_proj_norm_w"), Len(ids) * c.blocks, c.epl, cells),
           SumStep("per_layer_inputs", cells, cells, cells)>>

\* The queries, and the keys and values of a layer that does not share
Rope(m, name, cells, layer) ==
  RopeStep(name, cells, AttentionDims(m.c, layer).key,
           IF UsesGlobal(m.c, layer) THEN m.w[OfModel("rope_freqs")][1] ELSE NoFactors)
Queries(m, seq, layer) ==
  LET c == m.c
      a == AttentionDims(c, layer)
      key(name) == <<layer + 1, name>>
  IN  <<Norm(m, key("attn_norm_w"), seq, c.h, seq * c.h),
        Project(m, key("attn_q_w"), seq, c.h, a.q, seq * c.h, seq * a.q),
        Norm(m, key("attn_q_norm_w"), seq * c.heads, a.key, seq * a.q), Rope(m, "q", a.q, layer)>>
KeysAndValues(m, seq, layer) ==
  LET c == m.c
      a == AttentionDims(c, layer)
      key(name) == <<layer + 1, name>>
  IN  <<Project(m, key("attn_k_w"), seq, c.h, a.k, seq * c.h, seq * a.k),
        Project(m, key("attn_v_w"), seq, c.h, a.v, seq * c.h, seq * a.v),
        Norm(m, key("attn_k_norm_w"), seq * c.kvHeads, a.key, seq * a.k), Rope(m, "k", a.k, layer),
        NormStep("v_norm", seq * c.kvHeads, a.key, seq * a.v, <<a.key>>, seq * a.v)>>
\* kv: of each layer that computed its own in this pass, their widths
SharedSource(m, kv, layer) ==
  LET source == SharedKv(m.c, layer)
  IN  <<StepOf("shared K/V", source \in DOMAIN kv /\ kv[source] = AttentionDims(m.c, layer),
               UsesSwa(m.c, source) = UsesSwa(m.c, layer))>>

Attention(m, seq, dims, layer) ==
  LET c == m.c
      a == AttentionDims(c, layer)
      window == IF c.window # None /\ ~UsesGlobal(c, layer) THEN c.window ELSE NoWindow
      key(name) == <<layer + 1, name>>
  IN  <<SdpaStep("attention", seq, c.heads, c.kvHeads, a.key, window,
                 seq * a.q, seq * dims.k, seq * dims.v, seq * a.q),
        Project(m, key("attn_o_w"), seq, a.q, c.h, seq * a.q, seq * c.h),
        Norm(m, key("attn_post_norm_w"), seq, c.h, seq * c.h),
        SumStep("attention", seq * c.h, seq * c.h, seq * c.h)>>
FeedForward(m, seq, layer) ==
  LET c == m.c
      key(name) == <<layer + 1, name>>
  IN  <<Norm(m, key("ffn_norm_w"), seq, c.h, seq * c.h),
        Project(m, key("ffn_gate_w"), seq, c.h, c.f, seq * c.h, seq * c.f),
        Project(m, key("ffn_up_w"), seq, c.h, c.f, seq * c.h, seq * c.f),
        SumStep("gate", seq * c.f, seq * c.f, seq * c.f),
        Project(m, key("ffn_down_w"), seq, c.f, c.h, seq * c.f, seq * c.h),
        Norm(m, key("ffn_post_norm_w"), seq, c.h, seq * c.h),
        SumStep("mlp", seq * c.h, seq * c.h, seq * c.h)>>
\* The layer's part of the inputs of every position
InputSlice(m, seq, layer) ==
  LET c == m.c
  IN  StepOf("inputs", \A pos \in Upto(seq) : pos * PerLayerWidth(c) + (layer + 1) * c.epl <= seq * PerLayerWidth(c),
             (layer + 1) * c.epl <= PerLayerWidth(c))
PerLayerInput(m, seq, layer) ==
  LET c == m.c
      key(name) == <<layer + 1, name>>
  IN  <<Project(m, key("per_layer_inp_gate_w"), seq, c.h, c.epl, seq * c.h, seq * c.epl),
        InputSlice(m, seq, layer),
        Project(m, key("per_layer_proj_w"), seq, c.epl, c.h, seq * c.epl, seq * c.h),
        Norm(m, key("per_layer_post_norm_w"), seq, c.h, seq * c.h),
        SumStep("per_layer", seq * c.h, seq * c.h, seq * c.h)>>

\* A layer after the ones that left kv
Layer(m, seq, before, layer) ==
  LET own == AttentionDims(m.c, layer)
      shares == SharedKv(m.c, layer) # None
      source == IF shares THEN SharedSource(m, before.kv, layer) ELSE KeysAndValues(m, seq, layer)
      dims == IF shares /\ Runs(source) THEN before.kv[SharedKv(m.c, layer)] ELSE own
  IN  [kv |-> IF shares THEN before.kv ELSE before.kv @@ (layer :> own),
       steps |-> before.steps \o Queries(m, seq, layer) \o source \o Attention(m, seq, dims, layer)
                 \o FeedForward(m, seq, layer) \o PerLayerInput(m, seq, layer)]
LastLogits(m, seq) ==
  LET c == m.c
  IN  <<Norm(m, OfModel("output_norm_w"), seq, c.h, seq * c.h),
        Project(m, OfModel("lm_head_w"), 1, c.h, c.vocab, c.h, c.vocab)>>

\* prefill, and prefill_prefix_with_trace through fewer layers, which has no logits
PrefixAccepted(c, layers) == layers \in 1..c.blocks
PrefixSteps(m, ids, layers) ==
  FoldLeft(LAMBDA before, layer : Layer(m, Len(ids), before, layer),
           [kv |-> <<>>, steps |-> Embedding(m, ids) \o PerLayerInputs(m, ids)],
           [n \in 1..layers |-> n - 1]).steps
PrefillSteps(m, ids) == PrefixSteps(m, ids, m.c.blocks) \o LastLogits(m, Len(ids))
==============================================================================
