---------------------------- MODULE MCLibraryCalls ----------------------------
(***************************************************************************)
(* Small calls: sizes on both sides of every threshold, buffers of the     *)
(* right length and one cell off, operands on either side.                 *)
(***************************************************************************)
EXTENDS LibraryCalls

Ops == {"encoder", "batched", "causal", "incremental", "cache", "append", "cross"}

AttentionCall(heads, kvHeads, dim, seq, other, batch, threads, mode, len, device) ==
  [heads |-> heads, kvHeads |-> kvHeads, dim |-> dim, seq |-> seq, kvSeq |-> other,
   capacity |-> other, window |-> other, batch |-> batch, threads |-> threads,
   mode |-> mode, finite |-> TRUE, len |-> len, device |-> device]

\* The lengths a caller that does not err passes
Lens(op, heads, kvHeads, dim, seq, other, batch) ==
  LET row == heads * dim
      rows == CASE op \in {"incremental", "cache", "append", "last"} -> 1
                [] op = "batched" -> batch * seq
                [] OTHER -> seq
      kv == CASE op = "batched" -> batch * seq
              [] op = "cross" -> other
              [] op \in {"cache", "append"} -> other
              [] OTHER -> seq
  IN  [q |-> rows * row, out |-> rows * row, k |-> kv * kvHeads * dim,
       v |-> kv * kvHeads * dim, newK |-> row, newV |-> row]

\* One buffer may be a cell longer or shorter
OneOff(len) ==
  {len} \cup {[len EXCEPT ![b] = @ + d] : b \in DOMAIN len, d \in {1}}
        \cup {[len EXCEPT ![b] = @ - 1] : b \in {x \in DOMAIN len : len[x] > 0}}

Devices == {{}, WithNew, WithNew \ {"k"}}

MCAttentionCalls ==
  {[backend |-> backend, op |-> op,
    z |-> AttentionCall(h, h, d, s, other, b, t, m, Lens(op, h, h, d, s, other, b), device)] :
     backend \in {"cpu"}, op \in Ops \ {"batched"}, h \in {1, 2}, d \in {1, 3},
     s \in 0..3, other \in {1, 3}, b \in {1}, t \in {1, 2}, m \in {"Scalar", "Avx2"},
     device \in {{}, {"k"}}}
  \cup
  {[backend |-> backend, op |-> op,
    z |-> AttentionCall(h, h, d, s, other, b, 1, "Scalar", Lens(op, h, h, d, s, other, b), device)] :
     backend \in {"cubecl"}, op \in Ops, h \in {1, 2, 3}, d \in {2},
     s \in 1..3, other \in {1, 3}, b \in {1, 2}, device \in Devices}
  \cup
  UNION {{[backend |-> backend, op |-> op,
    z |-> AttentionCall(h, h, d, 2, other, 2, 2, "Avx2", len, WithNew)] :
     len \in OneOff(Lens(op, h, h, d, 2, other, 2))} :
     backend \in {"cubecl"}, op \in Ops, h \in {1, 2}, d \in {3}, other \in {3, 5}}
  \cup
  {[backend |-> "cubecl", op |-> op,
    z |-> AttentionCall(2, 2, 1, s, s + 1, 1, 1, "Scalar", Lens(op, 2, 2, 1, s, s + 1, 1), device)] :
     op \in Ops, s \in {(MaxU32 \div 2), (MaxU32 \div 2) + 1, MaxU32}, device \in {WithNew, QKVOut}}

MCSdpaCalls ==
  UNION {{[op |-> op, z |-> AttentionCall(h, kv, d, s, w, 1, t, m, len, {})] :
     len \in OneOff(Lens(op, h, kv, d, s, w, 1))} :
     op \in {"sdpa", "scaled", "windowed", "windowed, scaled", "bidirectional", "last"},
     h \in {2, 4}, kv \in {1, 2}, d \in {1}, s \in {1, 3}, w \in {0, 1, 2, 4},
     t \in {1, 2}, m \in {"Scalar", "Avx2"}}

Sizes(rows, ins, outs, hasBias) ==
  [x |-> rows * ins, w |-> outs * ins, out |-> rows * outs, bias |-> IF hasBias THEN outs ELSE 0]
MCLinearCalls ==
  UNION {{[backend |-> backend, op |-> op,
    z |-> [rows |-> r, ins |-> i, outs |-> o, bRows |-> i, hasBias |-> op = "linear",
           threads |-> t, mode |-> m, len |-> Sizes(r, i, o, op = "linear"),
           device |-> device]] :
       t \in {1, 2, 3}, m \in {"Scalar", "Optimized", "Avx2"}, device \in {{}}} :
     backend \in {"cpu"}, op \in {"linear", "matmul"}, r \in {1, 3, 5, 9}, i \in {1, 2}, o \in {1, 3, 5, 9}}
  \cup
  {[backend |-> backend, op |-> "linear",
    z |-> [rows |-> r, ins |-> i, outs |-> o, bRows |-> i, hasBias |-> TRUE,
           threads |-> 1, mode |-> "Scalar", len |-> Sizes(r, i, o, TRUE),
           device |-> {"x", "w", "out", "bias"}]] :
     backend \in {"naive", "tiled", "cubecl"}, r \in {0, 1, 5}, i \in {1, 3, 4}, o \in {1, 4, 6}}

\* Rows of a buffer, with the other operands of each operation
PointCall(rows, hidden, start, len, ok, device) ==
  [rows |-> rows, hidden |-> hidden, tableRows |-> 3, start |-> start, dim |-> hidden,
   heads |-> 2, kvHeads |-> 1, factors |-> 2, factorsOk |-> ok, epsilonOk |-> ok,
   contiguous |-> ok, len |-> len, device |-> device]
PointLens(op, rows, hidden) ==
  [a |-> rows * hidden, out |-> IF op = "expand" THEN 2 * rows * hidden ELSE rows * hidden,
   b |-> CASE op \in {"layer_norm", "rmsnorm"} -> hidden
           [] op = "positions" -> 3 * hidden
           [] OTHER -> rows * hidden,
   c |-> hidden]
Everything == {"a", "b", "c", "out"}
PointOps == {"add", "mul", "gelu", "silu", "layer_norm", "rmsnorm", "positions", "copy"}
MCPointCalls ==
  {[backend |-> backend, op |-> op,
    z |-> PointCall(r, h, start, PointLens(op, r, h), ok, device)] :
     backend \in {"default", "cpu", "cubecl"}, op \in PointOps, r \in 0..3, h \in 0..3,
     start \in 0..2, ok \in BOOLEAN, device \in {{}, Everything, Everything \ {"b"}}}
  \cup
  UNION {{[backend |-> backend, op |-> op, z |-> PointCall(2, 3, start, len, TRUE, device)] :
     len \in OneOff(PointLens(op, 2, 3))} :
     backend \in {"default", "cubecl"}, op \in PointOps, start \in {0, 1},
     device \in {{}, Everything}}
  \cup
  {[backend |-> backend, op |-> op,
    z |-> PointCall(2 * r, h, 0, PointLens(op, 2 * r, h), ok, device)] :
     backend \in {"default", "cubecl"}, op \in {"rope", "rope with factors", "rope tables", "expand"},
     r \in 1..3, h \in {2, 4}, ok \in BOOLEAN, device \in {{}, Everything}}

ConvCall(c, o, h, w, kernel, stride, padding, bias, len) ==
  [inChannels |-> c, outChannels |-> o, height |-> h, width |-> w, kernel |-> kernel,
   stride |-> stride, padding |-> padding, hasBias |-> bias, len |-> len]
ConvLens(op, c, o, h, w, kernel, stride, padding) ==
  LET cells == conv_out_len(h, kernel[1], stride[1], padding[1])
               * conv_out_len(w, kernel[2], stride[2], padding[2])
      outs == IF op = "conv2d" THEN o ELSE c
  IN  [x |-> c * h * w, w |-> outs * (IF op = "conv2d" THEN c ELSE 1) * kernel[1] * kernel[2],
       out |-> outs * cells, bias |-> outs]
GridLens(op, r, c) ==
  [x |-> CASE op = "rel_shift" -> r * (2 * r - 1) [] op = "glu" -> 2 * r * c [] OTHER -> r * c,
   out |-> IF op = "rel_shift" THEN r * r ELSE r * c, stats |-> r]
MCConvCalls ==
  UNION {{[op |-> op, z |-> ConvCall(c, 2, h, 3, k, s, p, bias, len)] :
     len \in OneOff(ConvLens(op, c, 2, h, 3, k, s, p))} :
     op \in {"conv2d", "depthwise2d"}, c \in {1, 2}, h \in {2}, k \in {<<1, 1>>, <<2, 3>>},
     s \in {<<1, 1>>, <<2, 1>>}, p \in {<<0, 0>>, <<1, 1>>}, bias \in BOOLEAN}
  \cup
  {[op |-> "depthwise1d",
    z |-> ConvCall(c, c, 1, w, <<1, k>>, <<1, s>>, <<0, p>>, FALSE,
                   ConvLens("depthwise1d", c, c, 1, w, <<1, k>>, <<1, s>>, <<0, p>>))] :
     c \in {1, 2}, w \in 1..4, k \in 1..5, s \in {1, 2, 3}, p \in 0..2}
  \cup
  {[op |-> op, z |-> [rows |-> r, cols |-> c, epsilonOk |-> TRUE, len |-> GridLens(op, r, c)]] :
     op \in {"rel_shift", "glu", "batch_norm", "mean_pool", "transpose"}, r \in 1..4, c \in 1..3}

StagedLens(seq, hidden, inner) ==
  [x |-> seq * hidden, out |-> seq * hidden, gate |-> hidden * inner, up |-> hidden * inner,
   down |-> hidden * inner, gateBuf |-> seq * inner, upBuf |-> seq * inner]
LstmLens(ins, hidden) ==
  [x |-> ins, h |-> hidden, c |-> hidden, hOut |-> hidden, cOut |-> hidden,
   wih |-> Gates(hidden) * ins, whh |-> Gates(hidden) * hidden,
   bih |-> Gates(hidden), bhh |-> Gates(hidden)]
MCStagedCalls ==
  UNION {{[op |-> op, z |-> [seq |-> s, hidden |-> h, inner |-> i, len |-> len]] :
     len \in OneOff(StagedLens(s, h, i))} :
     op \in {"silu", "gelu"}, s \in {0, 1, 3}, h \in {1, 2}, i \in {1, 3}}
  \cup
  UNION {{[op |-> "lstm", z |-> [hidden |-> h, hasBias |-> bias, len |-> len]] :
     len \in OneOff(LstmLens(ins, h))} : ins \in {1, 2}, h \in {0, 1, 2}, bias \in BOOLEAN}

MCQuantCalls ==
  UNION {{[kind |-> kind, rows |-> r, ins |-> i, outs |-> o,
    len |-> [x |-> r * i, out |-> r * o, data |-> n]] :
     n \in {o * (i \div QKK) * BlockBytes(kind), o * (i \div QKK) * BlockBytes(kind) + 2}} :
     kind \in {"Q4K", "Q5K", "Q6K"}, r \in {1, 2}, i \in {128, 256, 512}, o \in {1, 3}}

\* Entries and tensors of a file, right and wrong, and lengths around its end
MCLimits == [file |-> 4000, header |-> 200, entries |-> 2, tensors |-> 2, string |-> 30, key |-> 30,
             name |-> 4, elements |-> 2, depth |-> 2, dims |-> 2]
Item(element, items) == [number |-> 8, len |-> 1, utf8 |-> TRUE, bit |-> 1, element |-> element,
                         items |-> items]
Plain == Item("U8", <<>>)
Nested == Item("Array", <<Item("Array", <<Item("U8", <<Plain>>)>>)>>)
Values == {Plain, [Plain EXCEPT !.number = 12], [Plain EXCEPT !.len = 31], [Plain EXCEPT !.utf8 = FALSE],
           [Plain EXCEPT !.bit = 2], Item("Bool", <<[Plain EXCEPT !.bit = 2]>>),
           Item("String", <<Plain, [Plain EXCEPT !.len = 3]>>), Item("F32", <<Plain, Plain>>),
           Item("F32", <<Plain, Plain, Plain>>), Item("Array", <<Item("Bool", <<Plain>>)>>), Nested}
FileEntry(key, keyLen, type, value) ==
  [key |-> key, keyLen |-> keyLen, utf8 |-> TRUE, type |-> type, value |-> value]
Entries ==
  {FileEntry("general.other", n, type, Plain) : n \in {0, 30, 31}, type \in {"U8", "F64", "odd"}}
  \cup {FileEntry(key, IF key = "general.alignment" THEN 17 ELSE 25, type, value) :
          key \in {"general.alignment", "tokens", "scores", "model", "add_bos_token", "bos_token_id"},
          type \in {"U32", "Bool", "String", "Array"}, value \in Values}
FileTensor(name, dims, type, offset) ==
  [name |-> name, nameLen |-> 1, utf8 |-> TRUE, dims |-> dims, type |-> type, offset |-> offset]
Tensors ==
  {FileTensor("a", dims, type, offset) :
     dims \in {<<1>>, <<2, 3>>, <<0>>, <<MaxUsize, 2>>, <<>>}, type \in {"F32", "BF16", "MXFP4"},
     offset \in {0, 8, 32, MaxUsize - 31, MaxUsize + 1}}
  \cup {FileTensor("b", dims, type, 0) : dims \in {<<256>>, <<128, 2>>, <<256, 2>>}, type \in {"Q4K", "Q6K"}}
WrittenLen(entries, tensors) ==
  LET sum(items, bytes(_)) == FoldLeft(LAMBDA n, item : n + bytes(item), 0, items)
      known == SelectSeq(entries, LAMBDA e : e.type # "odd")
      start == AlignOffset(24 + sum(known, EntryBytes) + sum(tensors, TensorBytes), 32)
  IN  FoldLeft(LAMBDA n, t : LET end == start + t.offset + ByteLen(t)
                             IN  IF end > n /\ end < 4000 THEN end ELSE n, start, tensors)
GgufCall(entries, tensors, d, magic, version, limits) ==
  [file |-> [len |-> WrittenLen(entries, tensors) + d, magic |-> magic, version |-> version,
             entries |-> entries, tensors |-> tensors],
   limits |-> limits]
One == <<FileTensor("a", <<2, 3>>, "BF16", 0)>>
MCGgufCalls ==
  {GgufCall(<<e>>, tensors, d, TRUE, 3, MCLimits) : e \in Entries, tensors \in {<<>>, One}, d \in {-1, 0}}
  \cup {GgufCall(<<FileEntry("tokens", 21, "Array", Item("String", <<Plain>>)), e>>, <<>>, d, TRUE, 3, MCLimits) :
          e \in Entries, d \in {0, 1}}
  \cup {GgufCall(<<>>, <<t>>, d, TRUE, 3, MCLimits) : t \in Tensors, d \in {-1, 0, 1, -40, -100}}
  \cup {GgufCall(<<>>, One \o <<t>>, d, TRUE, 3, MCLimits) : t \in Tensors, d \in {-1, 0}}
  \cup {GgufCall(<<>>, [n \in 1..k |-> One[1]], 0, magic, v, [MCLimits EXCEPT !.header = h, !.name = most]) :
          k \in 0..3, magic \in BOOLEAN, v \in {2, 3}, h \in {0, 56, 200, 5000}, most \in {4, 10}}

StTensor(name, dtype, shape, first, last) ==
  [name |-> name, dtype |-> dtype, shape |-> shape, first |-> first, last |-> last]
MCSafetensorsCalls ==
  {[len |-> 8 + h + last + d, headerLen |-> h, json |-> json,
    tensors |-> <<StTensor("a", dtype, <<2>>, 0, first), StTensor(name, "BF16", <<n, 3>>, first, last)>>] :
     h \in {0, 5}, d \in {-8, -1, 0, 1}, json \in BOOLEAN, dtype \in {"F32", "I64"},
     name \in {"a", "b"}, n \in 0..2, first \in {4, 8, 16}, last \in {8, 14, 16, 20, 28}}

\* The output is the body's own
BodyLens(op, state, seq, kvSeq) ==
  LET rows == IF op = "incremental body" THEN 1 ELSE seq
  IN  [q |-> rows * state, out |-> rows * state,
       k |-> kvSeq * state, v |-> kvSeq * state, newK |-> state, newV |-> state]
MCPrimitiveCalls ==
  UNION {{[op |-> op,
    z |-> AttentionCall(h, h, (h * 2 + odd) \div h, s, o, 1, t, "Scalar", len, {}) @@ [state |-> h * 2 + odd]] :
     len \in {l \in OneOff(BodyLens(op, h * 2 + odd, s, IF op = "incremental body" THEN s ELSE o)) :
                 l.out = BodyLens(op, h * 2 + odd, s, o).out}} :
     op \in {"body", "causal body", "incremental body"}, h \in {1, 2}, s \in {1, 2, 5}, o \in {2, 5},
     t \in {0, 1, 2, 3}, odd \in {0, 1}}
  \cup
  UNION {{[op |-> "conv1d", z |-> ConvCall(c, o, 1, w, <<1, k>>, <<1, s>>, <<0, p>>, TRUE, len)] :
     len \in OneOff([x |-> w * c, w |-> o * c * k, bias |-> o])} :
     c \in {1, 2}, o \in {1, 3}, w \in {1, 4}, k \in {1, 3}, s \in {1, 2}, p \in {0, 1}}

\* A model and what a file that was written for it holds, or almost
GemmaConfig(heads, kvHeads, key, keySwa, blocks, window, shared, pattern, f) ==
  [ctx |-> 3, blocks |-> blocks, h |-> 256, epl |-> 256, f |-> f, heads |-> heads, kvHeads |-> kvHeads,
   key |-> key, value |-> key, keySwa |-> keySwa, valueSwa |-> keySwa, rope |-> key, ropeSwa |-> keySwa,
   vocab |-> 3, window |-> window, shared |-> shared, pattern |-> pattern,
   multimodal |-> FALSE, fileType |-> 15, quantised |-> TRUE]
Patterns(blocks) == {<<>>, [n \in 1..blocks |-> n % 2 = 1], [n \in 1..blocks |-> n < blocks]}
GemmaConfigs ==
  UNION {{GemmaConfig(heads, kv, key, swa, blocks, window, shared, pattern, 512) : pattern \in Patterns(blocks)} :
     heads \in {2}, kv \in {1, 2}, key \in {128, 256}, swa \in {128}, blocks \in {1, 3, 4},
     window \in {Gemma!None, 2}, shared \in {Gemma!None, 1, 2}}
  \cup {[GemmaConfig(2, 1, 256, 128, 2, 2, Gemma!None, <<TRUE, FALSE>>, 256) EXCEPT ![field] = n] :
          field \in {"heads", "kvHeads", "rope", "ropeSwa", "value", "valueSwa", "vocab", "fileType", "shared"},
          n \in {0, 1, 3, 256}}
GemmaTypes ==
  [key \in {"arch", "fileType", "tokens", "pattern", "softcap"}
           \cup Gemma!Whole \cup Gemma!Optional \cup Gemma!Fractions |->
     CASE key = "arch" -> "String" [] key = "tokens" -> "String array" [] key \in {"pattern", "softcap"} -> "absent"
       [] key \in Gemma!Fractions -> "F32" [] OTHER -> "U32"]
GemmaMeta(c) ==
  [c |-> c, arch |-> "gemma4", positive |-> TRUE,
   types |-> [GemmaTypes EXCEPT !["pattern"] = IF c.pattern = <<>> THEN "absent" ELSE "Bool array",
                                !["window"] = IF c.window = Gemma!None THEN "absent" ELSE "U64",
                                !["shared"] = IF c.shared = Gemma!None THEN "absent" ELSE "U32"]]
GemmaTensors(c) ==
  LET required == Gemma!Required(c)
  IN  [key \in DOMAIN required |->
         LET spec == required[key]
         IN  [shape |-> spec.shape,
              type |-> IF spec.kind # "K" THEN spec.kind ELSE IF key[1] = 1 THEN "Q6K" ELSE "Q4K"]]
MCGemmaCalls ==
  UNION {{[meta |-> GemmaMeta(c), tensors |-> GemmaTensors(c), native |-> native, ids |-> ids, layers |-> 1] :
     native \in BOOLEAN, ids \in {<<0, 2>>, <<3>>}} :
     c \in {x \in GemmaConfigs : x.kvHeads # 0 /\ x.key # 0}}
  \cup
  LET c == GemmaConfig(2, 1, 256, 128, 2, 2, Gemma!None, <<TRUE, FALSE>>, 512)
  IN  {[meta |-> GemmaMeta(c), tensors |-> GemmaTensors(c), native |-> FALSE, ids |-> ids, layers |-> 1] :
         ids \in {<<>>, <<1, 2, 0>>, <<0, 0, 0, 0>>}}
      \cup
      {[meta |-> [GemmaMeta(c) EXCEPT !.types[key] = type, !.positive = positive], tensors |-> GemmaTensors(c),
        native |-> FALSE, ids |-> <<0, 2>>, layers |-> 1] :
         <<key, type>> \in {"arch", "h", "eps", "softcap", "tokens"} \X {"absent", "U64", "F64", "String"}
                            \cup {"window", "pattern"} \X {"U64", "F64", "Bool array"}, positive \in BOOLEAN}
      \cup
      {[meta |-> GemmaMeta(c), tensors |-> [GemmaTensors(c) EXCEPT ![key].shape = shape, ![key].type = type],
        native |-> native, ids |-> <<0, 2>>, layers |-> layers] :
         key \in {<<0, "token_embd">>, <<1, "attn_v">>, <<2, "attn_q">>, <<2, "ffn_norm">>},
         shape \in {<<256>>, <<256, 128>>, <<256, 512>>, <<512, 256>>, <<256, 3>>},
         type \in {"F32", "BF16", "Q4K", "Q6K"}, native \in BOOLEAN, layers \in {0, 2, 3}}

QwenConfig(heads, kvHeads, dim, layers, tied) ==
  [heads |-> heads, kvHeads |-> kvHeads, h |-> heads * dim, inner |-> 5, layers |-> layers, dim |-> dim,
   vocab |-> 3, ctx |-> 3, tied |-> tied, dtype |-> "F32", positive |-> TRUE]
QwenFile(c, architecture, dtype, complete) ==
  [c |-> c, architecture |-> architecture, dtype |-> dtype, complete |-> complete]
QwenTensors(c, dtype) ==
  LET required == Qwen!Required(c)
  IN  [key \in DOMAIN required |-> [shape |-> required[key], dtype |-> dtype]]
QwenCall(file, tensors, ids, token, position) ==
  [file |-> file, tensors |-> tensors, ids |-> ids, token |-> token, position |-> position,
   limits |-> [prompt |-> 3, output |-> 2, context |-> 4], new |-> IF position = 0 THEN 1 ELSE position]
QwenConfigs ==
  {QwenConfig(heads, kv, dim, layers, tied) : heads \in {1, 2, 4}, kv \in {1, 2}, dim \in {2, 3, 4},
     layers \in {1, 2}, tied \in BOOLEAN}
  \cup {[QwenConfig(2, 1, 2, 1, TRUE) EXCEPT ![size] = n] :
          size \in {"heads", "h", "inner", "layers", "vocab", "ctx"}, n \in {0, 1, 3, MaxContext + 1}}
MCQwenCalls ==
  {QwenCall(QwenFile(c, "qwen2", dtype, TRUE), QwenTensors(c, "F32"), ids, 2, position) : c \in QwenConfigs,
     dtype \in {"float32", "float16"}, ids \in {<<0, 2>>, <<3>>, <<0, 0, 0, 0>>}, position \in {0, 2, 3}}
  \cup {QwenCall(QwenFile(QwenConfig(2, 1, 2, 1, tied), a, dtype, done), QwenTensors(QwenConfig(2, 1, 2, 1, tied), d),
                 <<1>>, 3, 1) :
          a \in {"qwen2", "llama"}, dtype \in {"float32", "bfloat16", "int8"}, done \in BOOLEAN,
          d \in {"F32", "BF16"}, tied \in BOOLEAN}
  \cup {QwenCall(QwenFile(QwenConfig(2, 1, 2, 1, FALSE), "qwen2", "float32", TRUE),
                 [QwenTensors(QwenConfig(2, 1, 2, 1, FALSE), "F32") EXCEPT ![key].shape = <<n, 4>>],
                 <<1>>, 2, 1) :
          key \in {<<0, "lm_head">>, <<1, "k_proj">>, <<1, "norm">>} \cap DOMAIN QwenTensors(QwenConfig(2, 1, 2, 1, FALSE), "F32"),
          n \in {2, 3, 4}}

WhisperConfig(s, t, heads, layers, audioCtx, tied, mels) ==
  [mels |-> mels, audioCtx |-> audioCtx, audioState |-> s, audioHeads |-> heads, audioLayers |-> layers,
   audioFfn |-> 3, textCtx |-> 3, textState |-> t, textHeads |-> heads, textLayers |-> layers, textFfn |-> 5,
   vocab |-> 3, tied |-> tied, dtype |-> "F32"]
WhisperConfigs ==
  {WhisperConfig(s, t, heads, layers, ctx, tied, mels) : s \in {2, 4}, t \in {2, 4}, heads \in {1, 2},
     layers \in {1, 2}, ctx \in {1, 3}, tied \in BOOLEAN, mels \in {MelBins, MelBins + 1}}
  \cup {[WhisperConfig(4, 4, 2, 1, 3, TRUE, MelBins) EXCEPT ![size] = n] :
          size \in Whisper!Sizes \cup {"vocab"}, n \in {0, 1, 5, 8}}
WhisperFile(form, architecture, dtype, c) ==
  [form |-> form, architecture |-> architecture, dtype |-> dtype, c |-> c]
WhisperTensors(c) ==
  LET required == Whisper!Required(c)
  IN  [key \in DOMAIN required |-> [shape |-> required[key], dtype |-> c.dtype]]
WhisperCall(file, samples, channels, window, overlap, ids, filled) ==
  [file |-> file, tensors |-> WhisperTensors(Whisper!ConfigOf(file)),
   audio |-> [samples |-> samples, rate |-> 16000, channels |-> channels],
   plan |-> [samples |-> samples, window |-> window, overlap |-> overlap], ids |-> ids, filled |-> filled]
MCWhisperCalls ==
  {WhisperCall(WhisperFile(form, "whisper", "float16", c), samples, 1, 5, 1, ids, filled) : form \in {"hf", "openai"},
     c \in WhisperConfigs, samples \in {FftSize - 1, FftSize, FftSize + HopLength, 2 * HopLength * 3, 2 * HopLength * 3 + 1},
     ids \in {<<0, 2>>, <<3>>}, filled \in {2, 3}}
  \cup {WhisperCall(WhisperFile("hf", a, dtype, WhisperConfig(4, 4, 2, 1, 3, TRUE, MelBins)), 8, n, 5, 1, <<1>>, 1) :
          a \in {"whisper", "wav2vec"}, dtype \in {"absent", "f32", "bf16"}, n \in {1, 2}}
  \cup {WhisperCall(WhisperFile("hf", "whisper", "f32", WhisperConfig(4, 4, 2, 1, 3, TRUE, MelBins)),
                    samples, 1, window, overlap, <<1>>, 1) :
          samples \in 0..14, window \in {0, 1, 4, 5, 12, 13, MaxUsize}, overlap \in {0, 1, 3, 4, 11}}

ParakeetSizes(hop, fft, window, mels, channels, heads, dim, kernel, blocks) ==
  [hop |-> hop, fft |-> fft, window |-> window, mels |-> mels, maxSamples |-> 30, channels |-> channels,
   d |-> heads * dim, heads |-> heads, dim |-> dim, ffn |-> 5, kernel |-> kernel, blocks |-> blocks,
   pred |-> 3, layers |-> 2, joint |-> 7, vocab |-> 4, durations |-> 2]
ParakeetTensors(c) == [name \in ToSet(Parakeet!Names(c)) |-> Parakeet!Layout(name, c)]
ParakeetModel(samples, c) ==
  {[part |-> "model", c |-> c, samples |-> samples, token |-> 3, tensors |-> tensors] :
     tensors \in {ParakeetTensors(c), [name \in DOMAIN ParakeetTensors(c) \ {Parakeet!Names(c)[1]} |-> <<1>>]}}
MCParakeetCalls ==
  {[part |-> "audio", c |-> ParakeetSizes(hop, fft, window, 2, 1, 1, 2, 3, 1), samples |-> samples] :
     hop \in {2, 3}, fft \in {4, 8}, window \in {2, 4}, samples \in 0..15}
  \cup {[part |-> "attention", c |-> ParakeetSizes(2, 4, 2, 2, 1, heads, dim, 3, 1), rows |-> rows] :
          heads \in {1, 2}, dim \in {1, 2}, rows \in 1..3}
  \cup {[part |-> "convolution", c |-> ParakeetSizes(2, 4, 2, 2, 1, 1, width, kernel, 1), rows |-> rows] :
          width \in {1, 2}, kernel \in {3, 5}, rows \in 1..6}
  \cup {[part |-> "subsample", c |-> ParakeetSizes(2, 4, 2, mels, 2, 1, 2, 3, 1), time |-> time,
          skip |-> skip, to |-> to] :
          mels \in {5, 9}, time \in {1, 8, 26}, skip \in {0, 1}, to \in {24, 30}}
  \cup UNION {ParakeetModel(samples, ParakeetSizes(2, 4, 2, 9, 2, heads, 2, 3, blocks)) :
          samples \in {0, 2, 3, 30, 31}, heads \in {1, 2}, blocks \in {1, 2}}
==============================================================================
