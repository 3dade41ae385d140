----------------------------- MODULE DeviceKernels -----------------------------
(***************************************************************************)
(* The operations on device tensors, and the kernels of the GPU backend    *)
(* under them (crates/kernels/src/cubecl_backend.rs).                      *)
(*                                                                         *)
(* Attention: what a unit of the GPU computes, and how many are launched.  *)
(* Units come in whole workgroups; those past the last task return at      *)
(* once. A unit keeps its running sum in a slab of the workgroup's shared  *)
(* memory. Then the operations, as the trait KernelBackend defines them    *)
(* (lib.rs), as the CPU backend and as the GPU backend do (cpu_backend.rs, *)
(* cubecl_backend.rs). Operands may be on the host or on the GPU, each by  *)
(* itself. The GPU's kernels run when all are there; otherwise, and in the *)
(* trait's defaults, they are copied to the host. A call is a record as in *)
(* AttentionKernels, with the number of stacked sequences in z.batch.      *)
(*                                                                         *)
(* linear_out_by_in: a naive kernel, one that shares square tiles of both  *)
(* operands among the units of a workgroup, and one that computes a block  *)
(* of cells per unit. The tiled kernels go through the columns in chunks.  *)
(* In a chunk every unit stores its share of the tiles, the workgroup      *)
(* waits, every unit reads what it needs, the workgroup waits again. A     *)
(* store is the buffer, the cell of the tile and the cell of the operand   *)
(* it keeps (or Zero); a read is a cell of a tile. So a unit's sum is what *)
(* it reads, if no two units store into a cell and all that is read was    *)
(* stored.                                                                 *)
(*                                                                         *)
(* RegCellAdjacent is a slip that the checks must notice; no behaviour     *)
(* uses it.                                                                *)
(***************************************************************************)
EXTENDS AttentionKernels, LinearKernels

CONSTANT AttnWg     \* ENC_ATTN_WG, the units of a workgroup

ASSUME GpuAttentionAssumption == AttnWg \in Nat \ {0}

\* The units launched for so many tasks, and those that do not return at once
Launched(total, wg) == 0..(AtLeastOne(CeilDiv(total, wg)) * wg - 1)
Working(total, wg) == {pos \in Launched(total, wg) : pos < total}

\* Where a unit's slab begins, and the cells of shared memory
Slab(pos, z) == (pos % AttnWg) * z.dim
SharedCells(z) == AttnWg * z.dim

\* A running softmax is seeded with row "first", then takes the others in turn
Streamed(out, q, first, rows, offset, z) ==
  LET keys(buffer) == <<<<buffer, first * State(z) + offset>>>>
                      \o Strided(buffer, first + 1, first + rows - 1, State(z), offset)
  IN  Weigh(out, q, keys("k"), keys("v"), Scalar(z))

GpuEncoder(z) ==
  [pos \in Working(z.seq * z.heads, AttnWg) |->
     LET row == pos \div z.heads
         head == pos - row * z.heads
         base == row * State(z) + head * z.dim
     IN  Streamed(base, base, 0, z.seq, head * z.dim, z)]

KeyStart(row, seqLen) == (row \div seqLen) * seqLen

\* The rows are told from the length of the output
GpuBatched(z) ==
  [pos \in {p \in Launched(z.batch * z.seq * z.heads, AttnWg) :
              p < (z.len.out \div State(z)) * z.heads} |->
     LET row == pos \div z.heads
         head == pos - row * z.heads
         base == row * State(z) + head * z.dim
     IN  Streamed(base, base, KeyStart(row, z.seq), z.seq, head * z.dim, z)]

\* All units go through all rows, and pass over the later ones
StreamedUpTo(buffer, row, offset, z) ==
  LET taken[j \in 0..(z.seq - 1)] ==
        IF j = 0 THEN <<<<buffer, offset>>>>
        ELSE IF j < row + 1 THEN Append(taken[j - 1], <<buffer, j * State(z) + offset>>)
        ELSE taken[j - 1]
  IN  taken[z.seq - 1]
GpuCausal(z) ==
  [pos \in Working(z.seq * z.heads, AttnWg) |->
     LET row == pos \div z.heads
         head == pos - row * z.heads
         base == row * State(z) + head * z.dim
     IN  Weigh(base, base, StreamedUpTo("k", row, head * z.dim, z),
               StreamedUpTo("v", row, head * z.dim, z), Scalar(z))]

\* One unit to a workgroup: the rows before the last are in the past buffers
GpuIncremental(z) ==
  LET visible == z.seq + 1
  IN  [head \in Working(z.heads, 1) |->
         LET row(ki, past, new) == IF ki < visible - 1
                                   THEN <<past, ki * State(z) + head * z.dim>>
                                   ELSE <<new, head * z.dim>>
         IN  Weigh(head * z.dim, head * z.dim,
                   [i \in 1..visible |-> row(i - 1, "k", "newK")],
                   [i \in 1..visible |-> row(i - 1, "v", "newV")], Scalar(z))]

GpuCache(z) ==
  [head \in Working(z.heads, AttnWg) |->
     Streamed(head * z.dim, head * z.dim, 0, z.seq, head * z.dim, z)]

\* A head first copies its slice of the new row, and reads only its slices
GpuAppend(z) ==
  [head \in Working(z.heads, AttnWg) |->
     LET t == Streamed(head * z.dim, head * z.dim, 0, z.seq + 1, head * z.dim, z)
         appended == z.seq * State(z) + head * z.dim
         copied(at, new) == IF at[2] = appended THEN <<new, head * z.dim>> ELSE at
     IN  [t EXCEPT !.from.keys = [i \in DOMAIN @ |-> copied(@[i], "newK")],
                   !.from.values = [i \in DOMAIN @ |-> copied(@[i], "newV")]]]

GpuCross(z) ==
  [pos \in Working(z.seq * z.heads, AttnWg) |->
     LET row == pos \div z.heads
         head == pos - row * z.heads
         base == row * State(z) + head * z.dim
     IN  Streamed(base, base, 0, z.kvSeq, head * z.dim, z)]

-----------------------------------------------------------------------------
(***************************************************************************)
(* The launch helpers check the lengths again, and the number of units     *)
(* against a u32.                                                          *)
(***************************************************************************)
StateFits(z) == FitsUsize(<<z.heads, z.dim>>)

RunEncoder(z) ==
  /\ StateFits(z)
  /\ {z.len.q, z.len.k, z.len.v, z.len.out} = {Product(z.seq, State(z))}
  /\ z.seq * z.heads <= MaxU32
RunBatched(z) ==
  /\ StateFits(z) /\ FitsUsize(<<z.batch, z.seq, State(z)>>)
  /\ {z.len.q, z.len.k, z.len.v, z.len.out} = {z.batch * z.seq * State(z)}
  /\ z.batch * z.seq * z.heads <= MaxU32
RunCausal(z) ==
  /\ StateFits(z)
  /\ {z.len.q, z.len.k, z.len.v, z.len.out} = {Product(z.seq, State(z))}
  /\ z.seq * z.heads <= MaxU32
RunIncremental(z) ==
  /\ StateFits(z)
  /\ {z.len.q, z.len.newK, z.len.newV, z.len.out} = {State(z)}
  /\ {z.len.k, z.len.v} = {z.seq * State(z)}
  /\ z.seq + 1 <= MaxU32 /\ z.heads <= MaxU32
RunCache(z) ==
  /\ StateFits(z)
  /\ z.seq # 0 /\ z.seq <= z.capacity
  /\ {z.len.q, z.len.out} = {State(z)}
  /\ {z.len.k, z.len.v} = {Product(z.capacity, State(z))}
  /\ z.seq <= MaxU32 /\ z.heads <= MaxU32
RunAppend(z) ==
  /\ StateFits(z)
  /\ z.seq < z.capacity
  /\ {z.len.q, z.len.newK, z.len.newV, z.len.out} = {State(z)}
  /\ {z.len.k, z.len.v} = {Product(z.capacity, State(z))}
  /\ z.seq + 1 <= MaxU32 /\ z.heads <= MaxU32
RunCross(z) ==
  /\ StateFits(z)
  /\ {z.len.q, z.len.out} = {Product(z.seq, State(z))}
  /\ {z.len.k, z.len.v} = {Product(z.kvSeq, State(z))}
  /\ z.seq * z.heads <= MaxU32

\* On the host, the stacked sequences are encoded one after the other
HostBatched(z) ==
  LET block == z.seq * State(z)
      one == EncoderScalar([z EXCEPT !.len.out = block])
      moved(row, b) == <<row[1], b * block + row[2]>>
  IN  [u \in (0..(z.batch - 1)) \X DOMAIN one |->
         LET t == one[u[2]]
         IN  [out |-> u[1] * block + t.out,
              from |-> [t.from EXCEPT
                          !.q = u[1] * block + @,
                          !.keys = [i \in DOMAIN @ |-> moved(@[i], u[1])],
                          !.values = [i \in DOMAIN @ |-> moved(@[i], u[1])]]]]

PromisedBatched(z) ==
  Promise(z.batch * z.seq, z.heads,
          LAMBDA r : LET first == r - (r % z.seq) IN Visible(first, first + z.seq - 1), z)

\* The slabs of a workgroup are apart and inside its shared memory
SlabsApart(tasks, z) ==
  \A p, r \in DOMAIN tasks :
    /\ Slab(p, z) + z.dim <= SharedCells(z)
    /\ (p # r /\ p \div AttnWg = r \div AttnWg) =>
         \/ Slab(p, z) + z.dim <= Slab(r, z)
         \/ Slab(r, z) + z.dim <= Slab(p, z)

-----------------------------------------------------------------------------
\* On the GPU if all the operands are; the launch checks again
Dispatched(z, operands, valid, run, gpu, host) ==
  IF operands \subseteq z.device THEN Outcome(valid /\ run, gpu)
  ELSE Outcome(valid, host)

QKVOut == {"q", "k", "v", "out"}
WithNew == QKVOut \cup {"newK", "newV"}

DefaultEncoder(z) == Outcome(ValidEncoder(z), EncoderScalar(z))
DefaultCausal(z) == Outcome(ValidCausal(z), CausalScalar(z))
DefaultIncremental(z) == Outcome(ValidIncremental(z), IncrementalScalar(z))
DefaultCache(z) == Outcome(ValidCache(z), CacheScalar(z))
DefaultAppended(z) == Outcome(ValidAppend(z), DefaultAppend(z))
DefaultCross(z) == Outcome(ValidCross(z), CrossScalar(z))

CubeEncoder(z) ==
  Dispatched(z, QKVOut, ValidEncoder(z), RunEncoder(z), GpuEncoder(z), EncoderScalar(z))
\* On the host only the output's length is checked; longer inputs are cut off,
\* shorter ones panic
CubeBatched(z) ==
  LET rows == z.batch * z.seq * State(z)
  IN  IF QKVOut \subseteq z.device THEN Outcome(RunBatched(z), GpuBatched(z))
      ELSE Outcome(z.len.out = rows /\ \A b \in {"q", "k", "v"} : z.len[b] >= rows,
                   HostBatched(z))
CubeCausal(z) ==
  Dispatched(z, QKVOut, ValidCausal(z), RunCausal(z), GpuCausal(z), CausalScalar(z))
CubeIncremental(z) ==
  Dispatched(z, WithNew, ValidIncremental(z), RunIncremental(z), GpuIncremental(z),
             IncrementalScalar(z))
CubeCache(z) ==
  Dispatched(z, QKVOut, ValidCache(z), RunCache(z), GpuCache(z), CacheScalar(z))
\* Unless all are on the GPU: the copies, then the operation on the cache, which
\* may run there and refuse; the copies stay, but nothing is computed
CubeAppend(z) ==
  LET cached == CubeCache([z EXCEPT !.seq = z.seq + 1])
  IN  IF WithNew \subseteq z.device THEN Outcome(ValidAppend(z) /\ RunAppend(z), GpuAppend(z))
      ELSE Outcome(ValidAppend(z) /\ cached.ok, AfterCopies(cached.tasks, z))
CubeCross(z) ==
  Dispatched(z, QKVOut, ValidCross(z), RunCross(z), GpuCross(z), CrossScalar(z))

\* Which outcome a backend has for an operation, and what it promises
DefaultOutcome(op, z) ==
  CASE op = "encoder" -> DefaultEncoder(z)
    [] op = "causal" -> DefaultCausal(z)
    [] op = "incremental" -> DefaultIncremental(z)
    [] op = "cache" -> DefaultCache(z)
    [] op = "append" -> DefaultAppended(z)
    [] op = "cross" -> DefaultCross(z)
CpuOutcome(op, z) ==
  CASE op = "encoder" -> Outcome(ValidEncoder(z), CpuEncoder(z))
    [] op = "cache" -> Outcome(ValidCache(z), CpuCache(z))
    [] op = "append" -> Outcome(ValidAppend(z), CpuAppend(z))
    [] op = "cross" -> Outcome(ValidCross(z), CpuCross(z))
    [] OTHER -> DefaultOutcome(op, z)
CubeOutcome(op, z) ==
  CASE op = "encoder" -> CubeEncoder(z)
    [] op = "batched" -> CubeBatched(z)
    [] op = "causal" -> CubeCausal(z)
    [] op = "incremental" -> CubeIncremental(z)
    [] op = "cache" -> CubeCache(z)
    [] op = "append" -> CubeAppend(z)
    [] op = "cross" -> CubeCross(z)
OutcomeOf(backend, op, z) ==
  CASE backend = "cpu" -> CpuOutcome(op, z)
    [] backend = "cubecl" -> CubeOutcome(op, z)
    [] OTHER -> DefaultOutcome(op, z)

\* attention.rs is called on slices, by the CPU backend and as it is: its
\* entries check the lengths and a scale that is given, and then compute
WindowedOutcome(op, z) ==
  CASE op = "windowed" -> Outcome(ValidWindowed(z), SdpaWindowed(z))
    [] op = "windowed, scaled" ->
         Outcome(ValidWindowed(z) /\ ValidScale(z), SdpaWindowedWithScale(z))
SdpaOutcome(op, z) ==
  CASE op = "sdpa" -> Outcome(ValidSdpa(z), Sdpa(z))
    [] op = "scaled" -> Outcome(ValidSdpa(z) /\ ValidScale(z), SdpaWithScale(z))
    [] op = "bidirectional" -> Outcome(ValidSdpa(z), Bidirectional(z))
    [] op = "last" -> Outcome(ValidSdpaIncremental(z), SdpaIncremental(z))
    [] OTHER -> WindowedOutcome(op, z)

Promised(op, z) ==
  CASE op = "encoder" -> PromisedEncoder(z)
    [] op = "batched" -> PromisedBatched(z)
    [] op = "causal" -> PromisedCausal(z)
    [] op \in {"incremental", "append"} -> PromisedAppend(z)
    [] op = "cache" -> PromisedCache(z)
    [] op = "cross" -> PromisedCross(z)
    [] op \in {"sdpa", "scaled"} -> PromisedSdpa(z)
    [] op \in {"windowed", "windowed, scaled"} -> PromisedWindowed(z)
    [] op = "bidirectional" -> PromisedBoth(z)
    [] op = "last" -> PromisedSdpaLast(z)

-----------------------------------------------------------------------------
CONSTANTS
  TileM, TileN, TileK,      \* LINEAR_TILE_M, LINEAR_TILE_N, LINEAR_TILE_K
  RtBm, RtBn, RtBk,         \* RT_BM, RT_BN, RT_BK
  RtTm, RtTn,               \* RT_TM, RT_TN
  Zero                      \* what a cell outside the operand is filled with

ASSUME GpuLinearAssumption ==
  /\ {TileM, TileN, TileK, RtBm, RtBn, RtBk, RtTm, RtTn} \subseteq Nat \ {0}
  /\ TileM = TileN /\ TileN = TileK
  /\ RtBm % RtTm = 0 /\ RtBn % RtTn = 0
  /\ (RtBm * RtBk) % ((RtBn \div RtTn) * (RtBm \div RtTm)) = 0
  /\ (RtBn * RtBk) % ((RtBn \div RtTn) * (RtBm \div RtTm)) = 0

\* One unit per cell of the output, in workgroups of some size
GpuLinearNaive(z, wg) ==
  [cell \in {c \in 0..(AtLeastOne(CeilDiv(z.len.out, wg)) * wg - 1) : c < z.len.out} |->
     LET row == cell \div z.outs
         o == cell - row * z.outs
     IN  Output(row * z.outs + o, row, o, z)]

\* Cells of the operands, where they have them
XCell(row, k, z) == IF row < z.rows /\ k < z.ins THEN row * z.ins + k ELSE Zero
WCell(o, k, z) == IF o < z.outs /\ k < z.ins THEN o * z.ins + k ELSE Zero

-----------------------------------------------------------------------------
(***************************************************************************)
(* The kernel with square tiles: a workgroup g = <<tile column, tile row>> *)
(* has a unit u = <<tx, ty>> per cell.                                     *)
(***************************************************************************)
TiledUnits == (0..(TileN - 1)) \X (0..(TileM - 1))
TiledGroups(z) == (0..(AtLeastOne(CeilDiv(z.outs, TileN)) - 1))
                  \X (0..(AtLeastOne(CeilDiv(z.rows, TileM)) - 1))

WTileCell(u) == u[1] * TileK + u[2]

TiledStores(g, chunk, z) ==
  [u \in TiledUnits |->
     LET row == g[2] * TileM + u[2]
         o == g[1] * TileN + u[1]
     IN  {<<"x", u[2] * TileK + u[1], XCell(row, chunk * TileK + u[1], z)>>,
          <<"w", WTileCell(u), WCell(o, chunk * TileK + u[2], z)>>}]

\* The pairs of cells that a unit multiplies, in order
TiledReads(g, u, z) ==
  IF g[2] * TileM + u[2] < z.rows /\ g[1] * TileN + u[1] < z.outs
  THEN [k \in 1..TileK |-> <<u[2] * TileK + k - 1, u[1] * TileK + k - 1>>]
  ELSE <<>>

\* What a sum of products of cells of the tiles comes to
Kept(stores, buffer, cell) ==
  {s[3] : s \in {t \in UNION {stores[u] : u \in DOMAIN stores} :
                   t[1] = buffer /\ t[2] = cell}}
Products(stores, reads) ==
  LET both == [k \in DOMAIN reads |-> <<CHOOSE c \in Kept(stores, "x", reads[k][1]) : TRUE,
                                        CHOOSE c \in Kept(stores, "w", reads[k][2]) : TRUE>>]
  IN  SelectSeq(both, LAMBDA p : Zero \notin {p[1], p[2]})

GpuLinearTiled(z) ==
  LET chunks == [c \in 1..CeilDiv(z.ins, TileK) |-> c - 1]
      sum(g, u) == FlattenSeq([c \in DOMAIN chunks |->
                     Products(TiledStores(g, chunks[c], z), TiledReads(g, u, z))])
  IN  [u \in {v \in TiledGroups(z) \X TiledUnits :
                /\ v[1][2] * TileM + v[2][2] < z.rows
                /\ v[1][1] * TileN + v[2][1] < z.outs} |->
         LET row == u[1][2] * TileM + u[2][2]
             o == u[1][1] * TileN + u[2][1]
         IN  [out |-> row * z.outs + o,
              from |-> [bias |-> IF z.hasBias THEN o ELSE NoBias, terms |-> sum(u[1], u[2])]]]

-----------------------------------------------------------------------------
(***************************************************************************)
(* The kernel with a block of RtTm by RtTn cells to a unit.                *)
(***************************************************************************)
RegThreads == (RtBn \div RtTn) * (RtBm \div RtTm)
RegUnits == (0..(RtBn \div RtTn - 1)) \X (0..(RtBm \div RtTm - 1))
Tid(u) == u[2] * (RtBn \div RtTn) + u[1]
RegGroups(z) == (0..(AtLeastOne(CeilDiv(z.outs, RtBn)) - 1))
                \X (0..(AtLeastOne(CeilDiv(z.rows, RtBm)) - 1))

RegCellAdjacent(u, l) == Tid(u) + l
RegCell(u, l) == Tid(u) + l * RegThreads

RegStores(g, chunk, z) ==
  [u \in RegUnits |->
     {<<"x", RegCell(u, l), XCell(g[2] * RtBm + (RegCell(u, l) \div RtBk),
                                  chunk * RtBk + (RegCell(u, l) % RtBk), z)>> :
        l \in 0..((RtBm * RtBk) \div RegThreads - 1)}
     \cup
     {<<"w", RegCell(u, l), WCell(g[1] * RtBn + (RegCell(u, l) \div RtBk),
                                  chunk * RtBk + (RegCell(u, l) % RtBk), z)>> :
        l \in 0..((RtBn * RtBk) \div RegThreads - 1)}]

\* For the cell <<i, j>> of a unit's block
RegReads(u, i, j) ==
  [k \in 1..RtBk |-> <<(u[2] * RtTm + i) * RtBk + k - 1, (u[1] * RtTn + j) * RtBk + k - 1>>]

GpuLinearRegTiled(z) ==
  LET row(v) == v[1][2] * RtBm + v[2][2] * RtTm + v[3]
      col(v) == v[1][1] * RtBn + v[2][1] * RtTn + v[4]
      sum(v) == FlattenSeq([c \in 1..CeilDiv(z.ins, RtBk) |->
                  Products(RegStores(v[1], c - 1, z), RegReads(v[2], v[3], v[4]))])
  IN  [v \in {c \in RegGroups(z) \X RegUnits \X (0..(RtTm - 1)) \X (0..(RtTn - 1)) :
                row(c) < z.rows /\ col(c) < z.outs} |->
         [out |-> row(v) * z.outs + col(v),
          from |-> [bias |-> IF z.hasBias THEN col(v) ELSE NoBias, terms |-> sum(v)]]]

-----------------------------------------------------------------------------
(***************************************************************************)
(* The launches.                                                           *)
(***************************************************************************)
\* What a u32 does not hold, or no cell at all, is refused
Launches(z) ==
  /\ {z.ins, z.outs, z.rows, z.rows * z.outs} \subseteq 0..MaxU32
  /\ z.rows * z.outs # 0
GpuLinear(z) == GpuLinearRegTiled(z)

\* From host buffers, and back
LinearCubecl(z) == ValidLinear(z) /\ Launches(z)
\* From buffers on the GPU, whose lengths are checked as on the host
RunLinearD(z) ==
  /\ FitsUsize(<<z.rows, z.ins>>) /\ FitsUsize(<<z.outs, z.ins>>)
  /\ FitsUsize(<<z.rows, z.outs>>)
  /\ z.len.x = z.rows * z.ins /\ z.len.w = z.outs * z.ins
  /\ z.len.out = z.rows * z.outs
  /\ z.hasBias => z.len.bias = z.outs
  /\ Launches(z)

\* The outcomes of linear_d: with the GPU, either way, the GPU computes
CubeLinearD(z) ==
  IF {"x", "w", "out"} \cup (IF z.hasBias THEN {"bias"} ELSE {}) \subseteq z.device
  THEN RunLinearD(z) ELSE LinearCubecl(z)
DefaultLinearD(z) == ValidLinear(z)

\* What linear_out_by_in and matmul come to, whichever kernel is taken
LinearOutcome(backend, op, z) ==
  IF op = "matmul" THEN Outcome(ValidMatmul(z), CpuMatmul(z))
  ELSE CASE backend = "cpu" -> Outcome(ValidLinear(z), CpuLinear(z))
         [] backend = "naive" -> Outcome(LinearCubecl(z), GpuLinearNaive(z, TileM * TileN))
         [] backend = "tiled" -> Outcome(LinearCubecl(z), GpuLinearTiled(z))
         [] backend = "cubecl" -> Outcome(CubeLinearD(z), GpuLinear(z))
         [] OTHER -> Outcome(DefaultLinearD(z), LinearCompute(z))

\* Between the barriers: no two units store into a cell, all that is read has
\* been stored, and it is inside the tile
StoredOnce(stores, cells) ==
  /\ \A u, v \in DOMAIN stores : \A s \in stores[u], t \in stores[v] :
       (s[1] = t[1] /\ s[2] = t[2]) => (u = v /\ s = t)
  /\ \A u \in DOMAIN stores : \A s \in stores[u] : s[2] < cells[s[1]]
ReadsStored(stores, reads) ==
  \A k \in DOMAIN reads : Kept(stores, "x", reads[k][1]) # {}
                          /\ Kept(stores, "w", reads[k][2]) # {}

TiledRaceFree(z) ==
  \A g \in TiledGroups(z), c \in 0..(CeilDiv(z.ins, TileK) - 1) :
    LET stores == TiledStores(g, c, z)
    IN  /\ StoredOnce(stores, [x |-> TileM * TileK, w |-> TileN * TileK])
        /\ \A u \in TiledUnits : ReadsStored(stores, TiledReads(g, u, z))
RegTiledRaceFree(z) ==
  \A g \in RegGroups(z), c \in 0..(CeilDiv(z.ins, RtBk) - 1) :
    LET stores == RegStores(g, c, z)
    IN  /\ StoredOnce(stores, [x |-> RtBm * RtBk, w |-> RtBn * RtBk])
        /\ \A u \in RegUnits, i \in 0..(RtTm - 1), j \in 0..(RtTn - 1) :
             ReadsStored(stores, RegReads(u, i, j))
================================================================================
