------------------------------ MODULE KernelCalls ------------------------------
(***************************************************************************)
(* Calls of the kernels of crates/kernels, on every backend, and of the    *)
(* primitives of the Whisper model that are kernels themselves. They keep  *)
(* no state: a caller makes one call after another, and what a call comes  *)
(* to is a function of its arguments.                                      *)
(***************************************************************************)
EXTENDS DeviceKernels, PointKernels, KQuants, WhisperPrimitives

CONSTANTS
  AttentionCalls,   \* [backend, op, z], z as in AttentionKernels
  SdpaCalls,        \* [op, z]
  LinearCalls,      \* [backend, op, z], z as in LinearKernels
  PointCalls,       \* [backend, op, z], z as in PointKernels
  ConvCalls,        \* [op, z], z as in LinearKernels
  StagedCalls,      \* [op, z]
  QuantCalls,       \* z as in KQuants
  PrimitiveCalls    \* [op, z] as in WhisperPrimitives

\* What a caller can pass: sizes and lengths are a usize
Lengths(names) == [names -> 0..MaxUsize]
AttentionArgs ==
  [heads : 0..MaxUsize, kvHeads : 0..MaxUsize, dim : 0..MaxUsize, seq : 0..MaxUsize,
   kvSeq : 0..MaxUsize, capacity : 0..MaxUsize, window : 0..MaxUsize, batch : 0..MaxUsize,
   threads : 0..MaxUsize, mode : {"Scalar", "Optimized", "Avx2"}, finite : BOOLEAN,
   len : Lengths(WithNew), device : SUBSET WithNew]
LinearArgs ==
  [rows : 0..MaxUsize, ins : 0..MaxUsize, outs : 0..MaxUsize, bRows : 0..MaxUsize,
   hasBias : BOOLEAN, threads : 0..MaxUsize, mode : {"Scalar", "Optimized", "Avx2"},
   len : Lengths({"x", "w", "out", "bias"}), device : SUBSET {"x", "w", "out", "bias"}]
PointArgs ==
  [rows : 0..MaxUsize, hidden : 0..MaxUsize, tableRows : 0..MaxUsize, start : 0..MaxUsize,
   dim : 0..MaxUsize, heads : 0..MaxUsize, kvHeads : 0..MaxUsize, factors : 0..MaxUsize,
   factorsOk : BOOLEAN, epsilonOk : BOOLEAN, contiguous : BOOLEAN,
   len : Lengths({"a", "b", "c", "out"}), device : SUBSET {"a", "b", "c", "out"}]
QuantArgs ==
  [kind : {"Q4K", "Q5K", "Q6K"}, rows : 0..MaxUsize, ins : 0..MaxUsize, outs : 0..MaxUsize,
   len : Lengths({"x", "out", "data"})]

AttentionOps == {"encoder", "batched", "causal", "incremental", "cache", "append", "cross"}
SdpaOps == {"sdpa", "scaled", "windowed", "windowed, scaled", "bidirectional", "last"}
BodyOps == {"body", "causal body", "incremental body"}
RowOps == {"add", "mul", "gelu", "silu", "layer_norm", "rmsnorm", "positions", "copy"}
TurnOps == {"rope", "rope with factors", "rope tables", "expand"}

\* The bodies of the Whisper model divide a row evenly among the heads, and
\* make their output themselves, as long as what they write
BodyRows(c) == IF c.op = "incremental body" THEN 1 ELSE c.z.seq
BodyCall(c) ==
  /\ c.op \in BodyOps
  /\ Restrict(c.z, DOMAIN c.z \ {"state"}) \in AttentionArgs /\ c.z.state \in 0..MaxUsize
  /\ c.z.heads # 0 => c.z.dim = c.z.state \div c.z.heads
  /\ BodyRows(c) * c.z.state <= MaxUsize => c.z.len.out = BodyRows(c) * c.z.state

\* Only the GPU backend has an operation on stacked sequences
ASSUME KernelCallsAssumption ==
  /\ AttentionCalls \subseteq [backend : {"cpu", "cubecl"}, op : AttentionOps, z : AttentionArgs]
  /\ \A c \in AttentionCalls : c.op = "batched" => c.backend = "cubecl"
  /\ SdpaCalls \subseteq [op : SdpaOps, z : AttentionArgs]
  /\ \A c \in PrimitiveCalls : c.op = "conv1d" \/ BodyCall(c)
  /\ LinearCalls \subseteq
       [backend : {"cpu", "naive", "tiled", "cubecl"}, op : {"linear", "matmul"}, z : LinearArgs]
  /\ PointCalls \subseteq
       [backend : {"default", "cpu", "cubecl"}, op : RowOps \cup TurnOps, z : PointArgs]
  /\ QuantCalls \subseteq QuantArgs

VARIABLE call

Idle == [kind |-> "none"]

Init == call = Idle

Request(kind, calls) == call = Idle /\ \E c \in calls : call' = [kind |-> kind, args |-> c]

Attend == Request("attention", AttentionCalls)
AttendGrouped == Request("sdpa", SdpaCalls)
Multiply == Request("linear", LinearCalls)
ComputePoints == Request("point", PointCalls)
Convolve == Request("conv", ConvCalls)
RunStages == Request("staged", StagedCalls)
MultiplyQuantised == Request("quant", QuantCalls)
ComputePrimitive == Request("primitive", PrimitiveCalls)
Return == call # Idle /\ call' = Idle

KernelNext ==
  \/ Attend \/ AttendGrouped \/ Multiply \/ ComputePoints \/ Convolve \/ RunStages
  \/ MultiplyQuantised \/ ComputePrimitive \/ Return

KernelSpec == Init /\ [][KernelNext]_call

Is(kind) == call.kind = kind

-----------------------------------------------------------------------------
\* An operation of the trait KernelBackend, or a body on the host beside it,
\* does what it promises: it reads and writes inside its buffers, and writes
\* each cell of its output once, from what it should be computed from.
\* What is taken on trust: that there are heads and cells in them
\* (attention_encoder_batched_d, attention_body_host), and on the GPU that
\* attention_decoder_cross_d has a key, since a unit starts from row 0.
Trusted(backend, op, z) ==
  /\ op = "batched" => 0 \notin {z.heads, z.dim}
  /\ (op = "cross" /\ backend = "cubecl" /\ QKVOut \subseteq z.device) => z.kvSeq # 0
AsPromised(outcome, promised, z) ==
  outcome.ok => Performs(outcome.tasks, promised) /\ InBuffers(outcome.tasks, z)
AttentionExact ==
  /\ (Is("attention") /\ Trusted(call.args.backend, call.args.op, call.args.z)) =>
       LET c == call.args
       IN  AsPromised(OutcomeOf(c.backend, c.op, c.z), Promised(c.op, c.z), c.z)
  /\ Is("sdpa") =>
       LET c == call.args
       IN  AsPromised(SdpaOutcome(c.op, c.z), Promised(c.op, c.z), c.z)
PrimitivesExact ==
  (Is("primitive") /\ call.args.op # "conv1d" /\ call.args.z.state # 0) =>
    LET c == call.args
    IN  AsPromised(PrimitiveOutcome(c.op, c.z), PrimitivePromised(c.op, c.z), c.z)

\* The sizes that an operation takes on trust: mul_inplace_d of the GPU backend
\* does not compare lengths when it runs on the host, and rope_tables_d and
\* expand_kv_heads_d, called for embeddings, check nothing: they mean heads
\* of whole pairs, rows of whole heads and groups of equally many heads.
WholeTables(z) == z.heads # 0 /\ z.dim # 0 /\ z.dim % 2 = 0 /\ z.len.a % z.dim = 0
WholeGroups(z) == 0 \notin {z.dim, z.heads, z.kvHeads} /\ z.heads % z.kvHeads = 0
Meant(op, z) ==
  /\ op = "mul" => SameLength(z)
  /\ op = "rope tables" => WholeTables(z)
  /\ op = "expand" => WholeGroups(z)
PointsExact ==
  Is("point") =>
    LET c == call.args
        outcome == PointOutcome(c.backend, c.op, c.z)
    IN  (outcome.ok /\ Meant(c.op, c.z)) =>
          WritesPromised(outcome.tasks, PointPromised(c.op, c.z))

\* Every attention operation that accepts a call computes each head of each
\* query from that query and from exactly the rows of its own head that it may
\* see, in order: on the host, split among workers, or by units of a GPU; and
\* every element-wise or row-wise operation writes each cell once, the spare
\* units of the last workgroup none.
RowsExact == AttentionExact /\ PrimitivesExact /\ PointsExact

\* The backends accept the same calls, except that the GPU backend refuses
\* what a u32 cannot count when it runs on the GPU; that there it does not
\* check the epsilon of rmsnorm_d, or that its rows have cells; and that on the
\* host it does not compare the lengths of mul_inplace_d.
BackendsAgree ==
  /\ (Is("attention") /\ call.args.op # "batched") =>
       LET c == call.args
           ok(backend) == OutcomeOf(backend, c.op, c.z).ok
           counted == {c.z.seq + 1, c.z.heads, c.z.seq * c.z.heads}
       IN  /\ ok("cpu") = ok("default")
           /\ ok("cubecl") => ok("default")
           /\ (ok("default") /\ counted \subseteq 0..MaxU32) => ok("cubecl")
  /\ (Is("point") /\ call.args.op \in RowOps) =>
       LET c == call.args
           ok(backend) == PointOutcome(backend, c.op, c.z).ok
           lax == \/ c.op = "rmsnorm" /\ (~c.z.epsilonOk \/ c.z.hidden = 0)
                  \/ c.op = "mul" /\ ~SameLength(c.z)
           counted == {c.z.len.a, c.z.start, c.z.rows}
       IN  /\ ok("cpu") = ok("default")
           /\ ok("cubecl") => (ok("default") \/ lax)
           /\ (ok("default") /\ counted \subseteq 0..MaxU32) => ok("cubecl")

\* A product of matrices sums, for each cell of the output, the products of its
\* row and its row of the weight, each once and in order.
MatricesExact ==
  Is("linear") =>
    LET c == call.args
        outcome == LinearOutcome(c.backend, c.op, c.z)
    IN  outcome.ok =>
          /\ Performs(outcome.tasks, IF c.op = "matmul" THEN PromisedMatmul(c.z)
                                     ELSE PromisedLinear(c.z))
          /\ TermsInBuffers(outcome.tasks, c.z)
\* A convolution computes each cell from the places of the padded input under
\* its window, through the patch matrix or directly, and has as many windows
\* as fit; the other kernels of the speech encoders read the cells they should.
WindowsExact ==
  /\ Is("conv") =>
       LET c == call.args
           outcome == ConvOutcome(c.op, c.z)
       IN  outcome.ok => /\ Performs(outcome.tasks, ConvPromised(c.op, c.z))
                         /\ c.op \in ConvOps => WindowsAllFit(c.z)
  /\ (Is("primitive") /\ call.args.op = "conv1d") =>
       LET z == call.args.z
           outcome == PrimitiveOutcome("conv1d", z)
       IN  outcome.ok => Performs(outcome.tasks, PrimitivePromised("conv1d", z))
\* A kernel of several products that passes its own checks is not stopped
\* between them with a buffer half done.
StagesWholeOrNothing == Is("staged") => WholeOrNothing(Stages(call.args.op, call.args.z))

\* Every product of matrices and every convolution that accepts a call sums the
\* products that it should, in blocks, split among workers, through a matrix of
\* patches or through shared tiles on the GPU; and a kernel made of several of
\* them is carried out whole or not at all.
ProductsExact == MatricesExact /\ WindowsExact /\ StagesWholeOrNothing

\* Units of a workgroup that share memory between two barriers never store in
\* the same cell, read only what was stored, and stay inside the memory.
SharedMemoryApart ==
  /\ (Is("linear") /\ call.args.op = "linear" /\ LinearCubecl(call.args.z)) =>
       TiledRaceFree(call.args.z) /\ RegTiledRaceFree(call.args.z)
  /\ (Is("attention") /\ call.args.backend = "cubecl" /\ call.args.op # "incremental") =>
       LET outcome == OutcomeOf("cubecl", call.args.op, call.args.z)
       IN  (outcome.ok /\ QKVOut \subseteq call.args.z.device) =>
             SlabsApart(outcome.tasks, call.args.z)

\* The kernels of quantised weights multiply every activation by the bits that
\* the loader would unpack for the weight at its place, block by block and row
\* by row, and no two values of a block share a bit.
QuantsAsLoaded ==
  Is("quant") =>
    /\ DotAsLoaded(call.args.kind) /\ BitsApart(call.args.kind)
    /\ ValidKQuant(call.args) => ValidPayload(call.args) /\ RowsAsLoaded(call.args)
==============================================================================
