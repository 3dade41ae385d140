---------------------------- MODULE ParakeetEncoder ----------------------------
(***************************************************************************)
(* crates/models/src/parakeet (audio.rs, subsample.rs, encoder.rs, and     *)
(* what model.rs and decoder.rs load and call): from samples to the rows   *)
(* of the encoder and the logits of the joint network. The greedy loop     *)
(* over them is in TdtDecode, the windows of long audio in ParakeetChunks. *)
(*                                                                         *)
(* The sizes, constants of the code, are the fields of a record c:         *)
(*   hop, fft, window, mels, maxSamples          of the audio front end    *)
(*   channels                                    of the subsampler         *)
(*   d, heads, dim, ffn, kernel, blocks          of the encoder            *)
(*   pred, layers, joint, vocab, durations       of the decoder            *)
(* A relation of cells <<to, from>> is what a stage computes a cell from.  *)
(***************************************************************************)
EXTENDS KernelSteps

Image(relation, cells) == {link[2] : link \in {l \in relation : l[1] \in cells}}
\* What cells of the last of several stages come from, through all of them
Origin(stages, cells) == FoldLeft(LAMBDA at, stage : Image(stage, at), cells, Reverse(stages))

TermLinks(tasks) == UNION {{<<tasks[u].out, t[1]>> : t \in ToSet(tasks[u].from.terms)} : u \in DOMAIN tasks}
Links(tasks) == UNION {{<<tasks[u].out, x>> : x \in ToSet(tasks[u].from)} : u \in DOMAIN tasks}
Transposition(rows, cols) == {<<p[2] * rows + p[1], p[1] * cols + p[2]>> : p \in Upto(rows) \X Upto(cols)}

-----------------------------------------------------------------------------
(***************************************************************************)
(* Audio: a frame per hop, each from the taps of a window that lies in the *)
(* middle of the longer frame of the transform, over samples mirrored at   *)
(* both ends. Features are laid out band by band.                          *)
(***************************************************************************)
Pad(c) == c.fft \div 2
WindowOffset(c) == (c.fft - c.window) \div 2
frame_count(samples, c) == samples \div c.hop + 1

reflect_pad_centered(samples, c) ==
  [i \in 1..Pad(c) |-> Pad(c) + 1 - i] \o [i \in 1..samples |-> i - 1]
  \o [i \in 1..Pad(c) |-> samples - 1 - i]

\* Taps are of samples after pre-emphasis; power_spectrum takes a zero for what
\* is past the end
Nothing == -1
Taps(padded, frame, c) ==
  [n \in 1..c.window |->
     LET at == frame * c.hop + WindowOffset(c) + n - 1
     IN  IF at < Len(padded) THEN padded[at + 1] ELSE Nothing]

parakeet_log_mel(samples, c) ==
  LET frames == frame_count(samples, c)
      padded == reflect_pad_centered(samples, c)
  IN  Outcome(samples > Pad(c) /\ samples + 2 * Pad(c) <= MaxUsize /\ FitsUsize(<<frames, c.mels>>),
              [u \in Upto(frames) \X Upto(c.mels) |->
                 [out |-> u[2] * frames + u[1], from |-> Taps(padded, u[1], c)]])

\* A frame is of the window around its sample
PromisedFeatures(samples, c) ==
  LET frames == frame_count(samples, c)
      mirrored(at) == IF at < 0 THEN -at ELSE IF at < samples THEN at ELSE 2 * (samples - 1) - at
  IN  [out \in Upto(frames * c.mels) |->
         [n \in 1..c.window |-> mirrored((out % frames) * c.hop - c.window \div 2 + n - 1)]]

\* slice_frames: the frames from "from" to before "to", of every band
SliceFrames(frames, from, to) ==
  LET start == Smaller(from, frames)
      end == Smaller(to, frames)
  IN  IF end >= start THEN end - start ELSE 0
Slice(frames, from, to, c) ==
  LET n == SliceFrames(frames, from, to)
  IN  {<<p[1] * n + p[2], p[1] * frames + Smaller(from, frames) + p[2]>> : p \in Upto(c.mels) \X Upto(n)}

-----------------------------------------------------------------------------
(***************************************************************************)
(* Subsampler. The image has time as its height and the bands as its       *)
(* width; three stages halve both.                                         *)
(***************************************************************************)
stage_len(n) == conv_out_len(n, 3, 2, 1)
subsampled_frames(n) == stage_len(stage_len(stage_len(n)))
Flat(c) == c.channels * subsampled_frames(c.mels)

\* The arguments of a convolution over a plane of each channel
Plane(ins, outs, height, width, w, bias) ==
  [inChannels |-> ins, outChannels |-> outs, height |-> height, width |-> width,
   kernel |-> <<3, 3>>, stride |-> <<2, 2>>, padding |-> <<1, 1>>, hasBias |-> TRUE,
   len |-> [x |-> ins * height * width, w |-> w, bias |-> bias,
            out |-> outs * stage_len(height) * stage_len(width)]]
Square(c) == c.channels * 3 * 3

\* pointwise: to a row per position, by the weight, and back
PointwiseStages(channels, positions) ==
  <<Transposition(channels, positions),
    TermLinks(LinearCompute([rows |-> positions, ins |-> channels, outs |-> channels, hasBias |-> TRUE])),
    Transposition(positions, channels)>>

\* A row per time, in it a run of bands per channel
Flatten(time, bands, c) ==
  {<<p[1] * (c.channels * bands) + p[2] * bands + p[3], (p[2] * time + p[1]) * bands + p[3]>> :
     p \in Upto(time) \X Upto(c.channels) \X Upto(bands)}

\* subsample, up to the rows that its last product is of
SubsampleStages(time, c) ==
  LET t1 == stage_len(time)  f1 == stage_len(c.mels)
      t2 == stage_len(t1)    f2 == stage_len(f1)
      t3 == stage_len(t2)    f3 == stage_len(f2)
      apart(height, width) ==
        TermLinks(DepthwiseConv2d(Plane(c.channels, c.channels, height, width, Square(c), c.channels)))
  IN  <<Transposition(c.mels, time),
        TermLinks(Conv2d(Plane(1, c.channels, time, c.mels, Square(c), c.channels))),
        apart(t1, f1)>>
      \o PointwiseStages(c.channels, t2 * f2) \o <<apart(t2, f2)>>
      \o PointwiseStages(c.channels, t3 * f3) \o <<Flatten(t3, f3, c)>>

\* Row t is of the frames around 8t, its band f of the bands around 8f
Around(n, size) == (8 * n - 7)..(8 * n + 7) \cap Upto(size)
Field(t, f, time, c) == {p[1] * time + p[2] : p \in Around(f, c.mels) \X Around(t, time)}
FlatCell(t, channel, f, c) == t * Flat(c) + channel * subsampled_frames(c.mels) + f

-----------------------------------------------------------------------------
(***************************************************************************)
(* Attention of a block. The products are of cells gathered head by head;  *)
(* a cell below is of the projections q, k, v (rows of the input) and p    *)
(* (rows of the table of positions).                                       *)
(***************************************************************************)
Gathered(x, head, c) == (x \div c.dim) * c.d + head * c.dim + (x % c.dim)
GatheredAcross(x, head, rows, c) == (x % rows) * c.d + head * c.dim + x \div rows
OfProduct(rows, ins, outs, out) ==
  PromisedLinear([rows |-> rows, ins |-> ins, outs |-> outs, hasBias |-> FALSE])[out].terms

\* What a score is the sum of: a cell of q, of a bias, and of k or p
Scored(terms, head, c) ==
  [n \in DOMAIN terms |->
     <<Gathered(terms[n][1], head, c), head * c.dim + (terms[n][1] % c.dim), Gathered(terms[n][2], head, c)>>]
ScoreCell(s, head, rows, c) ==
  LET wide == 2 * rows - 1
      shift == RelShift([rows |-> rows, len |-> [x |-> rows * wide, out |-> rows * rows]]).tasks
  IN  [content |-> Scored(OfProduct(rows, c.dim, rows, s), head, c),
       position |-> Scored(OfProduct(rows, c.dim, wide, shift[<<s \div rows, s % rows>>].from[1]), head, c)]

\* self_attention, up to the context that its last product is of
SelfAttention(rows, c) ==
  [u \in Upto(c.heads) \X Upto(rows * c.dim) |->
     LET weighed == OfProduct(rows, rows, c.dim, u[2])
     IN  [out |-> Gathered(u[2], u[1], c),
          from |-> [n \in DOMAIN weighed |->
            [score |-> ScoreCell(weighed[n][1], u[1], rows, c),
             value |-> GatheredAcross(weighed[n][2], u[1], rows, c)]]]]

\* Each row of a head sees all rows, with the bias and distance of each
PromisedAttention(rows, c) ==
  [out \in Upto(rows * c.d) |->
     LET row == out \div c.d
         first == ((out % c.d) \div c.dim) * c.dim
         pairs(other) == [k \in 1..c.dim |-> <<row * c.d + first + k - 1, first + k - 1,
                                               other * c.d + first + k - 1>>]
     IN  [n \in 1..rows |->
            [score |-> [content |-> pairs(n - 1),
                        position |-> pairs(CHOOSE r \in Upto(2 * rows - 1) :
                                             TableDistance(r, rows) = row - (n - 1))],
             value |-> (n - 1) * c.d + (out % c.d)]]]

\* conv_module between its two products
ConvolutionStages(rows, c) ==
  <<Links(GluHalves([rows |-> rows, cols |-> c.d, len |-> [x |-> rows * 2 * c.d, out |-> rows * c.d]]).tasks),
    Transposition(rows, c.d),
    TermLinks(DepthwiseConv1d([inChannels |-> c.d, height |-> 1, width |-> rows, hasBias |-> FALSE,
                            kernel |-> <<1, c.kernel>>, stride |-> <<1, 1>>,
                            padding |-> <<0, c.kernel \div 2>>])),
    Transposition(c.d, rows)>>
\* A channel and its gate, at the times around
GatedAround(t, channel, rows, c) ==
  {p[1] * 2 * c.d + p[2] : p \in ((t - c.kernel \div 2)..(t + c.kernel \div 2) \cap Upto(rows))
                                  \X {channel, c.d + channel}}
-----------------------------------------------------------------------------
(***************************************************************************)
(* Weights. All tensors are loaded in one list, and go to the fields of    *)
(* the weights one by one in that order. A tensor is <<part, layer, name>> *)
(* of the file, a field the same of the weights; part "block" has c.blocks *)
(* layers, "lstm" has c.layers, the others one.                            *)
(***************************************************************************)
Both(module) == <<<<module, "weight">>, <<module, "bias">>>>
Weight(module) == <<<<module, "weight">>>>
Tensors == [
  subsampling |-> Both("layers.0") \o Both("layers.2") \o Both("layers.3") \o Both("layers.5")
                  \o Both("layers.6") \o Both("linear"),
  block |-> Both("norm_feed_forward1") \o Weight("feed_forward1.linear1") \o Weight("feed_forward1.linear2")
            \o Both("norm_self_att") \o Weight("q_proj") \o Weight("k_proj") \o Weight("v_proj")
            \o Weight("o_proj") \o Weight("relative_k_proj") \o <<<<"self_attn", "bias_u">>, <<"self_attn", "bias_v">>>>
            \o Both("norm_conv") \o Weight("pointwise_conv1") \o Weight("depthwise_conv")
            \o <<<<"conv.norm", "running_mean">>, <<"conv.norm", "running_var">>>> \o Both("conv.norm")
            \o Weight("pointwise_conv2") \o Both("norm_feed_forward2")
            \o Weight("feed_forward2.linear1") \o Weight("feed_forward2.linear2") \o Both("norm_out"),
  embedding |-> Weight("embedding"),
  lstm |-> <<<<"weight", "ih">>, <<"weight", "hh">>, <<"bias", "ih">>, <<"bias", "hh">>>>,
  joint |-> Both("encoder_projector") \o Both("decoder_projector") \o Both("head")]
Fields == [
  subsampling |-> <<"conv0_w", "conv0_b", "dw1_w", "dw1_b", "pw1_w", "pw1_b", "dw2_w", "dw2_b", "pw2_w", "pw2_b",
                    "linear_w", "linear_b">>,
  block |-> <<"norm_ff1_w", "norm_ff1_b", "ff1_l1", "ff1_l2", "norm_attn_w", "norm_attn_b", "q_proj", "k_proj",
              "v_proj", "o_proj", "pos_proj", "bias_u", "bias_v", "norm_conv_w", "norm_conv_b", "pw1", "dw",
              "bn_mean", "bn_var", "bn_w", "bn_b", "pw2", "norm_ff2_w", "norm_ff2_b", "ff2_l1", "ff2_l2",
              "norm_out_w", "norm_out_b">>,
  embedding |-> <<"embedding">>,
  lstm |-> <<"weight_ih", "weight_hh", "bias_ih", "bias_hh">>,
  joint |-> <<"enc_proj_w", "enc_proj_b", "pred_proj_w", "pred_proj_b", "head_w", "head_b">>]
InOrderOfLoading(lists, c) ==
  LET of(part, layers) == FlattenSeq([n \in 1..layers |-> [i \in DOMAIN lists[part] |-> <<part, n, lists[part][i]>>]])
  IN  of("subsampling", 1) \o of("block", c.blocks) \o of("embedding", 1) \o of("lstm", c.layers) \o of("joint", 1)

Names(c) == InOrderOfLoading(Tensors, c)
\* Per field, the tensor it is given: its name and its shape
Loaded(tensors, c) ==
  LET names == Names(c)
      fields == InOrderOfLoading(Fields, c)
  IN  [field \in ToSet(fields) |->
         LET name == names[CHOOSE i \in DOMAIN fields : fields[i] = field]
         IN  [name |-> name, shape |-> tensors[name]]]
Loads(tensors, c) == ToSet(Names(c)) \subseteq DOMAIN tensors

\* The layouts that the weights are described with
Layout(name, c) ==
  LET module == name[3][1]
      gates == Gates(c.pred)
      wide == c.vocab + c.durations
      of(rows, cols) == IF name[3][2] = "bias" THEN <<rows>> ELSE <<rows>> \o cols
  IN  CASE name[1] = "lstm" -> IF module = "bias" THEN <<gates>> ELSE <<gates, c.pred>>
        [] module = "layers.0" -> of(c.channels, <<1, 3, 3>>)
        [] module \in {"layers.2", "layers.5"} -> of(c.channels, <<1, 3, 3>>)
        [] module \in {"layers.3", "layers.6"} -> of(c.channels, <<c.channels, 1, 1>>)
        [] module = "linear" -> of(c.d, <<Flat(c)>>)
        [] module \in {"feed_forward1.linear1", "feed_forward2.linear1"} -> <<c.ffn, c.d>>
        [] module \in {"feed_forward1.linear2", "feed_forward2.linear2"} -> <<c.d, c.ffn>>
        [] module = "self_attn" -> <<c.heads, c.dim>>
        [] module = "pointwise_conv1" -> <<2 * c.d, c.d, 1>> [] module = "pointwise_conv2" -> <<c.d, c.d, 1>>
        [] module = "depthwise_conv" -> <<c.d, 1, c.kernel>>
        [] module = "embedding" -> <<c.vocab, c.pred>>
        [] module = "encoder_projector" -> of(c.joint, <<c.d>>)
        [] module = "decoder_projector" -> of(c.joint, <<c.pred>>)
        [] module = "head" -> of(wide, <<c.joint>>)
        [] module \in {"q_proj", "k_proj", "v_proj", "o_proj", "relative_k_proj"} -> <<c.d, c.d>>
        [] OTHER -> <<c.d>>

-----------------------------------------------------------------------------
(***************************************************************************)
(* A pass. A step names the module of the model that it carries out; its   *)
(* weight is as it should be if it is the one of that module, laid out as  *)
(* the kernel reads it. A step without checks panics when a buffer is too  *)
(* short.                                                                  *)
(***************************************************************************)
Holds(w, part, layer, name, layout) == w.name = <<part, layer, name>> /\ w.shape = layout

\* linear_out_by_in by a weight, with a bias or none
Project(w, part, layer, module, rows, ins, outs, x) ==
  StepOf(module, ValidLinear([rows |-> rows, ins |-> ins, outs |-> outs, hasBias |-> FALSE,
                              len |-> [x |-> x, w |-> Size(w.shape), out |-> rows * outs]]),
         w.name = <<part, layer, <<module, "weight">>>> /\ Size(w.shape) = outs * ins
           /\ SubSeq(w.shape, 1, 2) = <<outs, ins>>)
ProjectBiased(w, b, part, layer, module, rows, ins, outs, x) ==
  LET unbiased == Project(w, part, layer, module, rows, ins, outs, x)
  IN  StepOf(module, unbiased.ok /\ Size(b.shape) = outs,
             unbiased.laid /\ Holds(b, part, layer, <<module, "bias">>, <<outs>>))
SubsampleSteps(w, time, c) ==
  LET t1 == stage_len(time)  f1 == stage_len(c.mels)
      t2 == stage_len(t1)    f2 == stage_len(f1)
      t3 == stage_len(t2)    f3 == stage_len(f2)
      of(field) == w[<<"subsampling", 1, field>>]
      holds(weight, bias, module, cols) ==
        /\ Holds(of(weight), "subsampling", 1, <<module, "weight">>, <<c.channels>> \o cols)
        /\ Holds(of(bias), "subsampling", 1, <<module, "bias">>, <<c.channels>>)
      plane(ins, height, width, weight, bias) ==
        Plane(ins, c.channels, height, width, Size(of(weight).shape), Size(of(bias).shape))
      pointwise(weight, bias, module, positions) ==
        ProjectBiased(of(weight), of(bias), "subsampling", 1, module, positions, c.channels, c.channels,
                      positions * c.channels)
  IN  <<StepOf("layers.0", ValidConv2d(plane(1, time, c.mels, "conv0_w", "conv0_b")),
               holds("conv0_w", "conv0_b", "layers.0", <<1, 3, 3>>)),
        StepOf("layers.2", ValidDepthwise2d(plane(c.channels, t1, f1, "dw1_w", "dw1_b")),
               holds("dw1_w", "dw1_b", "layers.2", <<1, 3, 3>>)),
        pointwise("pw1_w", "pw1_b", "layers.3", t2 * f2),
        StepOf("layers.5", ValidDepthwise2d(plane(c.channels, t2, f2, "dw2_w", "dw2_b")),
               holds("dw2_w", "dw2_b", "layers.5", <<1, 3, 3>>)),
        pointwise("pw2_w", "pw2_b", "layers.6", t3 * f3),
        StepOf("rows", Size(of("linear_w").shape) = c.d * (c.channels * f3), TRUE),
        ProjectBiased(of("linear_w"), of("linear_b"), "subsampling", 1, "linear", t3, c.channels * f3, c.d,
                      t3 * (c.channels * f3))>>

\* layer_norm_whisper_scalar, which checks nothing
Normalise(w, layer, weight, bias, module, c) ==
  LET of(field) == w[<<"block", layer, field>>]
  IN  StepOf(module, {Size(of(weight).shape), Size(of(bias).shape)} \subseteq {n \in Nat : n >= c.d},
             /\ Holds(of(weight), "block", layer, <<module, "weight">>, <<c.d>>)
             /\ Holds(of(bias), "block", layer, <<module, "bias">>, <<c.d>>))
FeedForward(w, layer, l1, l2, first, second, rows, c) ==
  <<Project(w[<<"block", layer, l1>>], "block", layer, first, rows, c.d, c.ffn, rows * c.d),
    Project(w[<<"block", layer, l2>>], "block", layer, second, rows, c.ffn, c.d, rows * c.ffn)>>
AttentionSteps(w, layer, rows, table, c) ==
  LET of(field) == w[<<"block", layer, field>>]
      wide == 2 * rows - 1
      project(field, module, n, x) == Project(of(field), "block", layer, module, n, c.d, c.d, x)
      product(step, ins, outs) ==
        StepOf(step, ValidLinear([rows |-> rows, ins |-> ins, outs |-> outs, hasBias |-> FALSE,
                                  len |-> [x |-> rows * ins, w |-> outs * ins, out |-> rows * outs]]), TRUE)
      perHead == <<product("content", c.dim, rows), product("position", c.dim, wide),
                   StepOf("shift", RelShift([rows |-> rows, len |-> [x |-> rows * wide, out |-> rows * rows]]).ok,
                          TRUE),
                   product("values", rows, c.dim)>>
  IN  <<project("q_proj", "q_proj", rows, rows * c.d), project("k_proj", "k_proj", rows, rows * c.d),
        project("v_proj", "v_proj", rows, rows * c.d), project("pos_proj", "relative_k_proj", wide, table),
        StepOf("biases", {Size(of("bias_u").shape), Size(of("bias_v").shape)} \subseteq {n \in Nat : n >= c.d},
               /\ Holds(of("bias_u"), "block", layer, <<"self_attn", "bias_u">>, <<c.heads, c.dim>>)
               /\ Holds(of("bias_v"), "block", layer, <<"self_attn", "bias_v">>, <<c.heads, c.dim>>))>>
      \o FlattenSeq([h \in 1..c.heads |-> perHead]) \o <<project("o_proj", "o_proj", rows, rows * c.d)>>
ConvolutionSteps(w, layer, rows, c) ==
  LET of(field) == w[<<"block", layer, field>>]
      statistics == {<<"bn_mean", "running_mean">>, <<"bn_var", "running_var">>,
                     <<"bn_w", "weight">>, <<"bn_b", "bias">>}
  IN  <<Project(of("pw1"), "block", layer, "pointwise_conv1", rows, c.d, 2 * c.d, rows * c.d),
        StepOf("gate", GluHalves([rows |-> rows, cols |-> c.d,
                                  len |-> [x |-> rows * 2 * c.d, out |-> rows * c.d]]).ok, TRUE),
        StepOf("depthwise_conv",
               ValidDepthwise1d([inChannels |-> c.d, height |-> 1, width |-> rows, kernel |-> <<1, c.kernel>>,
                                 stride |-> <<1, 1>>, padding |-> <<0, c.kernel \div 2>>,
                                 len |-> [x |-> c.d * rows, w |-> Size(of("dw").shape), out |-> c.d * rows]]),
               Holds(of("dw"), "block", layer, <<"depthwise_conv", "weight">>, <<c.d, 1, c.kernel>>)),
        StepOf("conv.norm", \A s \in statistics : Size(of(s[1]).shape) = c.d,
               \A s \in statistics : Holds(of(s[1]), "block", layer, <<"conv.norm", s[2]>>, <<c.d>>)),
        Project(of("pw2"), "block", layer, "pointwise_conv2", rows, c.d, c.d, rows * c.d)>>

\* block_forward over x cells; every part is added to them at the end
BlockSteps(w, layer, rows, x, table, c) ==
  LET added == StepOf("add", x = rows * c.d, TRUE)
  IN  <<StepOf("block", x = rows * c.d, TRUE),
        Normalise(w, layer, "norm_ff1_w", "norm_ff1_b", "norm_feed_forward1", c)>>
      \o FeedForward(w, layer, "ff1_l1", "ff1_l2", "feed_forward1.linear1", "feed_forward1.linear2", rows, c)
      \o <<added, Normalise(w, layer, "norm_attn_w", "norm_attn_b", "norm_self_att", c)>>
      \o AttentionSteps(w, layer, rows, table, c)
      \o <<added, Normalise(w, layer, "norm_conv_w", "norm_conv_b", "norm_conv", c)>>
      \o ConvolutionSteps(w, layer, rows, c)
      \o <<added, Normalise(w, layer, "norm_ff2_w", "norm_ff2_b", "norm_feed_forward2", c)>>
      \o FeedForward(w, layer, "ff2_l1", "ff2_l2", "feed_forward2.linear1", "feed_forward2.linear2", rows, c)
      \o <<added, Normalise(w, layer, "norm_out_w", "norm_out_b", "norm_out", c)>>
\* encode; the table of positions needs a row to be pairs of sine and cosine
EncodeSteps(w, rows, x, c) ==
  <<StepOf("encode", c.blocks # 0 /\ rows # 0, TRUE), StepOf("positions", c.d # 0 /\ c.d % 2 = 0, TRUE)>>
  \o FlattenSeq([n \in 1..c.blocks |-> BlockSteps(w, n, rows, x, (2 * rows - 1) * c.d, c)])

\* encode_features
FeatureSteps(w, time, c) ==
  SubsampleSteps(w, time, c) \o EncodeSteps(w, subsampled_frames(time), subsampled_frames(time) * c.d, c)

\* encode_audio refuses long audio before anything is done
AudioAccepted(samples, c) == samples <= c.maxSamples /\ parakeet_log_mel(samples, c).ok

\* project_encoder of so many frames
ProjectEncoder(w, frames, c) ==
  ProjectBiased(w[<<"joint", 1, "enc_proj_w">>], w[<<"joint", 1, "enc_proj_b">>], "joint", 1, "encoder_projector",
                frames, c.d, c.joint, frames * c.d)
\* prednet_step
PrednetSteps(w, token, c) ==
  LET embedding == w[<<"embedding", 1, "embedding">>]
      layer(n) ==
        LET of(field) == w[<<"lstm", n, field>>]
            z == [hidden |-> c.pred, hasBias |-> TRUE,
                  len |-> [x |-> c.pred, h |-> c.pred, c |-> c.pred, hOut |-> c.pred, cOut |-> c.pred,
                           wih |-> Size(of("weight_ih").shape), whh |-> Size(of("weight_hh").shape),
                           bih |-> Size(of("bias_ih").shape), bhh |-> Size(of("bias_hh").shape)]]
        IN  StepOf("lstm", \A i \in 1..3 : LstmStep(z)[i],
                   /\ \A at \in {<<"weight_ih", "ih">>, <<"weight_hh", "hh">>} :
                        Holds(of(at[1]), "lstm", n, <<"weight", at[2]>>, <<Gates(c.pred), c.pred>>)
                   /\ \A at \in {<<"bias_ih", "ih">>, <<"bias_hh", "hh">>} :
                        Holds(of(at[1]), "lstm", n, <<"bias", at[2]>>, <<Gates(c.pred)>>))
  IN  <<StepOf("embedding", c.layers # 0 /\ Size(embedding.shape) = c.vocab * c.pred /\ token < c.vocab,
               Holds(embedding, "embedding", 1, <<"embedding", "weight">>, <<c.vocab, c.pred>>))>>
      \o [n \in 1..c.layers |-> layer(n)]
\* joint_step of a row of the encoder and one of the prediction network
JointSteps(w, c) ==
  LET of(field) == w[<<"joint", 1, field>>]
  IN  <<ProjectBiased(of("pred_proj_w"), of("pred_proj_b"), "joint", 1, "decoder_projector", 1, c.pred, c.joint,
                      c.pred),
        ProjectBiased(of("head_w"), of("head_b"), "joint", 1, "head", 1, c.joint, c.vocab + c.durations, c.joint)>>
==============================================================================
