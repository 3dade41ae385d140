--------------------------- MODULE WhisperPrimitives ---------------------------
(***************************************************************************)
(* crates/models/src/whisper/primitives.rs: the convolution of the encoder *)
(* over rows of time, the attention bodies on the host that the ones of    *)
(* the backends are compared with, and the checks of lengths with which    *)
(* the model calls the backends' operations.                               *)
(*                                                                         *)
(* Tasks and calls are as in LinearKernels and AttentionKernels; the input   *)
(* of the convolution has z.width rows of z.inChannels cells.              *)
(***************************************************************************)
EXTENDS AttentionKernels, PointKernels, LinearKernels

CONSTANT BodyMinRows   \* PARALLEL_ATTENTION_MIN_Q

ASSUME PrimitivesAssumption == BodyMinRows \in Nat \ {0}

-----------------------------------------------------------------------------
(***************************************************************************)
(* Convolution. Rows of the output are written one by one, by whichever    *)
(* worker; a kernel wider than the padded input is refused.                *)
(***************************************************************************)
ConvOutputFits(time, kernel, padding) == time + 2 * padding <= MaxUsize /\ time + 2 * padding >= kernel
ConvOutputLen(time, kernel, stride, padding) == (time + 2 * padding - kernel) \div stride + 1
OutTime(z) == ConvOutputLen(z.width, z.kernel[2], z.stride[2], z.padding[2])

InputCell(t, channel, z) == t * z.inChannels + channel
\* conv1d_write_row
RowOfConv(t, channel, z) ==
  LET places == SelectSeq([n \in 1..(z.inChannels * z.kernel[2]) |->
                             <<(n - 1) \div z.kernel[2], (n - 1) % z.kernel[2]>>],
                          LAMBDA place : Inside(t, place[2], 2, z))
  IN  [bias |-> channel,
       terms |-> [n \in DOMAIN places |->
         <<InputCell(At(t, places[n][2], 2, z), places[n][1], z),
           (channel * z.inChannels + places[n][1]) * z.kernel[2] + places[n][2]>>]]
Conv1d(z) ==
  LET chunks == Chunks(OutTime(z) * z.outChannels, z.outChannels)
  IN  [u \in (DOMAIN chunks) \X Upto(z.outChannels) |->
         [out |-> chunks[u[1]].first + u[2], from |-> RowOfConv(u[1], u[2], z)]]
ValidConv1d(z) ==
  /\ z.stride[2] # 0 /\ z.kernel[2] # 0
  /\ z.len.x = Product(z.width, z.inChannels)
  /\ FitsUsize(<<z.outChannels, z.inChannels, z.kernel[2]>>)
  /\ z.len.w = z.outChannels * z.inChannels * z.kernel[2]
  /\ z.len.bias = z.outChannels
  /\ ConvOutputFits(z.width, z.kernel[2], z.padding[2])

\* The convolution of a plane of height 1, with time before channels
PromisedConv1d(z) ==
  LET plane == PromisedConv(z, FALSE)
  IN  [out \in Upto(OutTime(z) * z.outChannels) |->
         LET cell == plane[(out % z.outChannels) * OutTime(z) + out \div z.outChannels]
         IN  [cell EXCEPT !.terms = [n \in DOMAIN @ |->
                <<(@[n][1] % z.width) * z.inChannels + @[n][1] \div z.width, @[n][2]>>]]]

-----------------------------------------------------------------------------
(***************************************************************************)
(* Attention on the host. A worker has a share of the rows and one buffer  *)
(* of scores, which each of its rows fills anew as far as it sees.         *)
(***************************************************************************)
ValidBody(z, causal) ==
  /\ z.heads # 0 /\ z.state % z.heads = 0
  /\ z.len.q = Product(z.seq, z.state)
  /\ {z.len.k, z.len.v} = {Product(z.kvSeq, z.state)}
  /\ causal => z.seq <= z.kvSeq
\* compute_attention_row_with_scratch, of one head
BodyOf(out, row, head, causal, z) ==
  OverRows(out, row * State(z) + head * z.dim, IF causal THEN row + 1 ELSE z.kvSeq, head * z.dim, Scalar(z))
BodySerial(z, causal) ==
  [u \in Loop(z.seq, z) |-> BodyOf(u[1] * State(z) + u[2] * z.dim, u[1], u[2], causal, z)]
BodyParallel(z, causal) ==
  LET perChunk == CeilDiv(z.seq, AtLeastOne(z.threads))
      chunks == Chunks(z.seq * State(z), perChunk * State(z))
  IN  [u \in {v \in (DOMAIN chunks) \X Upto(z.seq) \X HeadsOf(z) :
                 v[2] < chunks[v[1]].len \div State(z)} |->
         BodyOf(chunks[u[1]].first + u[2] * State(z) + u[3] * z.dim,
                u[1] * perChunk + u[2], u[3], causal, z)]
\* attention_body_host; there is a pool when there are threads
BodyHost(z, causal) ==
  Outcome(ValidBody(z, causal),
          IF z.threads > 0 /\ z.seq >= BodyMinRows THEN BodyParallel(z, causal) ELSE BodySerial(z, causal))

ValidIncrementalBody(z) ==
  /\ z.heads # 0 /\ z.state % z.heads = 0
  /\ {z.len.q, z.len.newK, z.len.newV} = {z.state}
  /\ {z.len.k, z.len.v} = {Product(z.seq, z.state)}
  /\ z.seq + 1 <= MaxUsize
IncrementalBodyHost(z) == Outcome(ValidIncrementalBody(z), IncrementalScalar(z))

-----------------------------------------------------------------------------
(***************************************************************************)
(* The lengths the model checks before it calls an operation. The ones of  *)
(* the attention operations are checked again by the kernels.              *)
(***************************************************************************)
CheckedLinear(z) ==
  /\ z.len.x = Product(z.rows, z.ins) /\ z.len.w = Product(z.outs, z.ins)
  /\ z.hasBias => z.len.bias = z.outs
  /\ z.len.out = Product(z.rows, z.outs)
  /\ ValidLinear(z)
CheckedLayerNorm(z) ==
  /\ {z.len.a, z.len.out} = {Product(z.rows, z.hidden)} /\ {z.len.b, z.len.c} = {z.hidden}
  /\ ValidLayerNorm(z)
CheckedAdd(a, b) == a = b
CheckedCopy(z) == z.start + z.len.b <= MaxUsize /\ ValidCopy(z)
CheckedGelu(a) == TRUE
CheckedPositions(rows, cols, table, tableRows) == rows <= tableRows /\ table = tableRows * cols
CheckedEncoder(z) == Dims(z) /\ ValidEncoder(z)
CheckedCausal(z) == Dims(z) /\ ValidCausal(z)
CheckedAppend(z) == z.seq < z.capacity /\ Dims(z) /\ ValidAppend(z)
CheckedCross(z) == Dims(z) /\ ValidCross(z)

-----------------------------------------------------------------------------
PrimitiveOutcome(op, z) ==
  CASE op = "conv1d" -> Outcome(ValidConv1d(z), Conv1d(z))
    [] op = "body" -> BodyHost(z, FALSE) [] op = "causal body" -> BodyHost(z, TRUE)
    [] op = "incremental body" -> IncrementalBodyHost(z)
PrimitivePromised(op, z) ==
  CASE op = "conv1d" -> PromisedConv1d(z)
    [] op = "body" -> PromisedCross(z) [] op = "causal body" -> PromisedCausal(z)
    [] op = "incremental body" -> PromisedAppend(z)
==============================================================================
