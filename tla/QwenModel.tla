------------------------------ MODULE QwenModel ------------------------------
(***************************************************************************)
(* crates/models/src/qwen/qwen2_5 and the configuration part of            *)
(* crates/loader/src/lib.rs: a Qwen2.5 model, from config.json and the     *)
(* tensors of a safetensors file to a prefill and a decode step.           *)
(*                                                                         *)
(* A file config.json is [complete, architecture, dtype, c]; c has the     *)
(* fields of Qwen2_5Config under shorter names, and tied. A tensor is      *)
(* known by <<layer, name>>, layer 0 holding those of the model as a whole *)
(* and layer n + 1 those of the n-th. What the passes compute and how they *)
(* use the cache is in QwenCache; here they are the kernels they call.     *)
(***************************************************************************)
EXTENDS KernelSteps

CONSTANT MaxContext   \* QWEN2_5_MAX_CONTEXT_LENGTH

-----------------------------------------------------------------------------
(***************************************************************************)
(* Configuration.                                                          *)
(***************************************************************************)
Sizes == {"heads", "kvHeads", "h", "inner", "layers", "dim", "vocab", "ctx"}
TorchDtypes == [float32 |-> "F32", float16 |-> "F16", bfloat16 |-> "BF16"]

\* parse_hf_config: there is no head_dim in the file
ParsesHfConfig(file) ==
  /\ file.architecture = "qwen2" /\ file.dtype \in DOMAIN TorchDtypes
  /\ file.complete
  /\ file.c.heads # 0 /\ file.c.h % file.c.heads = 0
InfoOf(file) ==
  [file.c EXCEPT !.dim = file.c.h \div file.c.heads, !.dtype = TorchDtypes[file.dtype]]

\* validate_config_for_model
ConfigForModel(c) ==
  /\ \A size \in Sizes : c[size] > 0
  /\ c.heads % c.kvHeads = 0
  /\ FitsUsize(<<c.dim, c.heads>>) /\ c.dim * c.heads = c.h
  /\ c.dim % 2 = 0
  /\ c.positive                    \* rope_theta and rms_norm_eps
  /\ c.vocab >= 2
  /\ c.dtype \in {"F32", "BF16"}
\* Qwen2_5Config::try_from
ConfigAccepted(c) == ConfigForModel(c) /\ c.ctx <= MaxContext

-----------------------------------------------------------------------------
(***************************************************************************)
(* Tensors.                                                                *)
(***************************************************************************)
QueryWidth(c) == c.heads * c.dim
KeyWidth(c) == c.kvHeads * c.dim

ShapesOfModel(c) ==
  LET always == [embed_tokens |-> <<c.vocab, c.h>>, norm |-> <<c.h>>]
  IN  IF c.tied THEN always ELSE always @@ [lm_head |-> <<c.vocab, c.h>>]
ShapesOfLayer(c) ==
  [q_proj |-> <<QueryWidth(c), c.h>>, q_bias |-> <<QueryWidth(c)>>,
   k_proj |-> <<KeyWidth(c), c.h>>, k_bias |-> <<KeyWidth(c)>>,
   v_proj |-> <<KeyWidth(c), c.h>>, v_bias |-> <<KeyWidth(c)>>,
   o_proj |-> <<c.h, QueryWidth(c)>>,
   gate_proj |-> <<c.inner, c.h>>, up_proj |-> <<c.inner, c.h>>, down_proj |-> <<c.h, c.inner>>,
   input_layernorm |-> <<c.h>>, post_attention_layernorm |-> <<c.h>>]
\* required_tensor_names, with the shape of each
Required(c) == ByLayer(c.layers, ShapesOfModel(c), LAMBDA layer : ShapesOfLayer(c))

\* check_shape of one tensor [shape, dtype]
ShapeChecked(c, tensor, shape) == tensor.shape = shape /\ tensor.dtype = c.dtype
\* validate_qwen2_5_tensors
TensorsAccepted(c, tensors) ==
  LET required == Required(c)
  IN  /\ DOMAIN required \subseteq DOMAIN tensors
      /\ FitsUsize(<<c.heads, c.dim>>) /\ FitsUsize(<<c.kvHeads, c.dim>>)
      /\ \A key \in DOMAIN required : ShapeChecked(c, tensors[key], required[key])

-----------------------------------------------------------------------------
(***************************************************************************)
(* Weights. Matrices are transposed as they are taken; the embedding also  *)
(* serves as the output matrix when the two are tied.                      *)
(***************************************************************************)
Transposed(shape) == <<shape[2], shape[1]>>
Matrices == {"q_proj", "k_proj", "v_proj", "o_proj", "gate_proj", "up_proj", "down_proj", "lm_head"}
LayoutOf(key, shape) == IF key[2] \in Matrices THEN Transposed(shape) ELSE shape
OutputMatrix == OfModel("lm_head")

\* take_tensor_values of every tensor that is loaded
Takes(c, tensors) ==
  LET required == Required(c)
  IN  /\ ConfigForModel(c)
      /\ DOMAIN required \subseteq DOMAIN tensors
      /\ \A key \in DOMAIN required :
           ShapeChecked(c, tensors[key], required[key]) /\ FitsUsize(required[key])
Weights(c) ==
  LET required == Required(c)
  IN  [key \in DOMAIN required \cup {OutputMatrix} |->
         IF key \notin DOMAIN required THEN Transposed(required[OfModel("embed_tokens")])
         ELSE LayoutOf(key, required[key])]

\* with_kernel_backend
LengthsOfModel(c) == [embed_tokens |-> c.vocab * c.h, norm |-> c.h, lm_head |-> c.h * c.vocab]
LengthsOfLayer(c) ==
  [q_proj |-> c.h * QueryWidth(c), q_bias |-> QueryWidth(c),
   k_proj |-> c.h * KeyWidth(c), k_bias |-> KeyWidth(c),
   v_proj |-> c.h * KeyWidth(c), v_bias |-> KeyWidth(c),
   o_proj |-> QueryWidth(c) * c.h, input_layernorm |-> c.h, post_attention_layernorm |-> c.h,
   gate_proj |-> c.h * c.inner, up_proj |-> c.h * c.inner, down_proj |-> c.inner * c.h]
Lengths(c) == ByLayer(c.layers, LengthsOfModel(c), LAMBDA layer : LengthsOfLayer(c))
\* check_len
ValidLengths(c, w) ==
  LET lengths == Lengths(c)
  IN  /\ ConfigForModel(c)
      /\ DOMAIN w = DOMAIN lengths
      /\ \A key \in DOMAIN w : lengths[key] <= MaxUsize /\ Size(w[key]) = lengths[key]

\* load_from_paths_with_kernel_backend
Loads(file, tensors) ==
  LET c == InfoOf(file)
  IN  /\ ParsesHfConfig(file) /\ ConfigAccepted(c)
      /\ TensorsAccepted(c, tensors) /\ Takes(c, tensors) /\ ValidLengths(c, Weights(c))

-----------------------------------------------------------------------------
(***************************************************************************)
(* A pass over some rows: prefill over the rows of a prompt, decode over   *)
(* one row that follows those of the cache.                                *)
(***************************************************************************)
Accepted(c, ids) ==
  /\ ids # <<>> /\ Len(ids) <= c.ctx
  /\ \A i \in DOMAIN ids : ids[i] < c.vocab
TokenAccepted(c, token) == token < c.vocab

Project(w, key, rows, ins, outs) == MatmulStep(key, rows, ins, outs, rows * ins, w[key], rows * outs)
\* A projection of the normed rows, to which add_bias_per_row adds a bias
Biased(w, layer, name, bias, rows, ins, outs) ==
  <<Project(w, <<layer, name>>, rows, ins, outs),
    StepOf(bias, Size(w[<<layer, bias>>]) = outs, w[<<layer, bias>>] = <<outs>>)>>
Norm(w, key, rows, h) == NormStep(key, rows, h, rows * h, w[key], rows * h)

\* rows of a sequence whose keys and values have the rows seen, from the pass
\* itself or read from the cache
Attend(c, rows, seen, incremental) ==
  IF incremental THEN SdpaRowStep("attention", seen, c.heads, c.kvHeads, c.dim, QueryWidth(c),
                                  seen * KeyWidth(c), seen * KeyWidth(c))
  ELSE SdpaStep("attention", rows, c.heads, c.kvHeads, c.dim, NoWindow, rows * QueryWidth(c),
                rows * KeyWidth(c), rows * KeyWidth(c), rows * QueryWidth(c))

Layer(c, w, layer, rows, seen, incremental) ==
  LET cells == rows * c.h
      key(name) == <<layer + 1, name>>
  IN  <<Norm(w, key("input_layernorm"), rows, c.h)>>
      \o Biased(w, layer + 1, "q_proj", "q_bias", rows, c.h, QueryWidth(c))
      \o Biased(w, layer + 1, "k_proj", "k_bias", rows, c.h, KeyWidth(c))
      \o Biased(w, layer + 1, "v_proj", "v_bias", rows, c.h, KeyWidth(c))
      \o <<RopeStep("q", QueryWidth(c), c.dim, NoFactors), RopeStep("k", KeyWidth(c), c.dim, NoFactors),
           Attend(c, rows, seen, incremental),
           Project(w, key("o_proj"), rows, QueryWidth(c), c.h), SumStep("attention", cells, cells, cells),
           Norm(w, key("post_attention_layernorm"), rows, c.h),
           MlpStep("mlp", rows, c.h, c.inner, w[key("gate_proj")], w[key("up_proj")],
                   w[key("down_proj")], cells),
           SumStep("mlp", cells, cells, cells)>>

PassSteps(c, w, ids, seen, incremental) ==
  LET rows == Len(ids)
  IN  [i \in DOMAIN ids |-> LookupStep("embed_tokens", ids[i], c.h, w[OfModel("embed_tokens")])]
      \o FlattenSeq([n \in 1..c.layers |-> Layer(c, w, n - 1, rows, seen, incremental)])
      \o <<Norm(w, OfModel("norm"), rows, c.h), Project(w, OutputMatrix, 1, c.h, c.vocab)>>

PrefillSteps(c, w, ids) == PassSteps(c, w, ids, Len(ids), FALSE)
DecodeSteps(c, w, token, position) == PassSteps(c, w, <<token>>, position + 1, TRUE)

\* generate_tokens of the chat facade: its checks of a prompt and of the tokens
\* wanted, under limits [prompt, output, context], and the positions at which it
\* then decodes, one after another, without checking again
ChatAccepted(c, limits, prompt, new) ==
  /\ new # 0 /\ prompt + new <= MaxUsize
  /\ prompt <= limits.prompt /\ new <= limits.output /\ prompt + new <= limits.context
  /\ prompt + new <= c.ctx
ChatPositions(prompt, new) == prompt..(prompt + new - 1)
==============================================================================
