----------------------------- MODULE KernelSteps -----------------------------
(***************************************************************************)
(* A model's pass as the kernels it calls, in order. A step is refused     *)
(* when the kernel refuses the lengths of its buffers. The kernels cannot  *)
(* tell a matrix from its transpose: a weight carries the sizes it is laid *)
(* out in, <<rows, columns>>, and a step records whether they are those    *)
(* that the kernel reads it by.                                            *)
(***************************************************************************)
EXTENDS AttentionKernels, PointKernels, LinearKernels, KQuants

\* A function of the tensors <<layer, name>> of a model, layer 0 holding those of
\* the model as a whole and layer n + 1 those of the n-th
ByLayer(layers, ofModel, ofLayer(_)) ==
  LET keys == {<<0, name>> : name \in DOMAIN ofModel}
              \cup {<<layer, name>> : layer \in 1..layers, name \in DOMAIN ofLayer(0)}
  IN  [key \in keys |-> IF key[1] = 0 THEN ofModel[key[2]] ELSE ofLayer(key[1] - 1)[key[2]]]
OfModel(name) == <<0, name>>

Size(layout) == FoldLeft(LAMBDA m, n : m * n, 1, layout)

StepOf(step, ok, laid) == [step |-> step, ok |-> ok, laid |-> laid]

\* rmsnorm of rows * width cells
NormStep(step, rows, width, x, w, out) ==
  StepOf(step, ValidRmsNorm([rows |-> rows, hidden |-> width, epsilonOk |-> TRUE,
                           len |-> [a |-> x, b |-> Size(w), out |-> out]]),
       w = <<width>>)

\* matmul by a weight of ins rows and outs columns
MatmulStep(step, rows, ins, outs, x, w, out) ==
  StepOf(step, ValidMatmul([rows |-> rows, ins |-> ins, bRows |-> ins, outs |-> outs,
                          len |-> [x |-> x, w |-> Size(w), out |-> out]]),
       w = <<ins, outs>>)

\* linear by a weight of outs rows and ins columns
LinearStep(step, rows, ins, outs, x, w, bias, out) ==
  StepOf(step, ValidLinear([rows |-> rows, ins |-> ins, outs |-> outs, hasBias |-> bias # <<>>,
                          len |-> [x |-> x, w |-> Size(w), bias |-> Size(bias), out |-> out]]),
       w = <<outs, ins>> /\ bias \in {<<>>, <<outs>>})

\* linear_q8_k_k_quant by the bytes of a quantised weight
KQuantStep(step, rows, ins, outs, x, native, out) ==
  StepOf(step, ValidKQuant([rows |-> rows, ins |-> native.ins, outs |-> native.outs, kind |-> native.kind,
                          len |-> [x |-> x, out |-> out, data |-> native.bytes]]),
       <<native.ins, native.outs>> = <<ins, outs>>)

\* vec_add, and every other operation on buffers of one length
SumStep(step, a, b, out) == StepOf(step, {a, b} = {out}, TRUE)

\* Rotary embedding of the heads of one position, with a table of factors or none
NoFactors == -1
RopeStep(step, cells, dim, factors) ==
  LET z == [dim |-> dim, len |-> [a |-> cells], factors |-> factors, factorsOk |-> TRUE]
  IN  StepOf(step, ValidRope(z) /\ (factors # NoFactors => ValidFactors(z)), TRUE)

\* The feed-forward network of gated layers
MlpStep(step, rows, width, inner, gate, up, down, cells) ==
  StepOf(step, GatedChecks([seq |-> rows, hidden |-> width, inner |-> inner,
                            len |-> [x |-> cells, out |-> cells, gate |-> Size(gate), up |-> Size(up),
                                     down |-> Size(down), gateBuf |-> rows * inner, upBuf |-> rows * inner]]),
         gate = <<width, inner>> /\ up = <<width, inner>> /\ down = <<inner, width>>)

\* Causal attention with grouped heads, windowed or not
NoWindow == 0
SdpaStep(step, seq, heads, kvHeads, dim, window, q, k, v, out) ==
  LET z == [seq |-> seq, heads |-> heads, kvHeads |-> kvHeads, dim |-> dim, window |-> window,
            finite |-> TRUE, len |-> [q |-> q, k |-> k, v |-> v, out |-> out]]
  IN  StepOf(step, IF window = NoWindow THEN ValidSdpa(z) ELSE ValidWindowed(z), TRUE)

\* The attention of one query row over the cached rows
SdpaRowStep(step, seq, heads, kvHeads, dim, q, k, v) ==
  StepOf(step, ValidSdpaIncremental([seq |-> seq, heads |-> heads, kvHeads |-> kvHeads, dim |-> dim,
                                     len |-> [q |-> q, k |-> k, v |-> v, out |-> q]]), TRUE)

\* A row of a table of rows
LookupStep(step, row, width, table) ==
  StepOf(step, (row + 1) * width <= Size(table), table[2] = width)

\* A pass stops at the first step that is refused
Runs(steps) == \A i \in DOMAIN steps : steps[i].ok
ReadsAsLaidOut(steps) == \A i \in DOMAIN steps : steps[i].laid
==============================================================================
