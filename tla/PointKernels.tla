----------------------------- MODULE PointKernels -----------------------------
(***************************************************************************)
(* The element-wise and row-wise operations of crates/kernels: addition,   *)
(* product, activations, normalisation, positions, rotary embedding,       *)
(* copies and repeated heads; on the host, as the trait KernelBackend      *)
(* defines them or the CPU backend does, and on the GPU, where each unit   *)
(* has a cell, a pair or a row, and the last workgroup has units to spare. *)
(*                                                                         *)
(* A task writes a set of cells from others. A call is a record z: the     *)
(* lengths of its buffers, those on a device, and what sizes it passes.    *)
(***************************************************************************)
EXTENDS Buffers

CONSTANTS
  CellWg,   \* the units of a workgroup that has a cell or a pair each
  RowWg     \* the units of one that has a row each

ASSUME PointAssumption == {CellWg, RowWg} \subseteq Nat \ {0}

\* prepare_elementwise_launch, prepare_per_row_launch: what is launched
CellLaunch(total) == Upto(AtLeastOne(CeilDiv(total, CellWg)) * CellWg)
RowLaunch(rows) == Upto(AtLeastOne(CeilDiv(rows, RowWg)) * RowWg)

PerCell(units) == [i \in units |-> [out |-> {i}, from |-> <<i>>]]
SameLength(z) == z.len.a = z.len.b
Zipped(z) == PerCell(Upto(Smaller(z.len.a, z.len.b)))
AllCells(z) == PerCell(Upto(z.len.a))

OnGpu(z, operands) == operands \subseteq z.device

\* The kernels of the GPU: a unit past the output returns
AddOut(z) == PerCell({i \in CellLaunch(z.len.a) : i < z.len.a})
MulOut(z) == PerCell({i \in CellLaunch(z.len.a) : i < z.len.a})
SiluOut(z) == PerCell({i \in CellLaunch(z.len.a) : i < z.len.a})
GeluOut(z) == PerCell({i \in CellLaunch(z.len.a) : i < z.len.a})

RunAdd(z) == Outcome(SameLength(z) /\ z.len.a <= MaxU32, AddOut(z))
RunMul(z) == Outcome(SameLength(z) /\ z.len.a <= MaxU32, MulOut(z))
RunSilu(z) == Outcome(z.len.a <= MaxU32, SiluOut(z))
RunGelu(z) == Outcome(z.len.a <= MaxU32, GeluOut(z))

DefaultAdd(z) == Outcome(SameLength(z), Zipped(z))
DefaultMul(z) == Outcome(SameLength(z), Zipped(z))
DefaultGelu(z) == Outcome(TRUE, AllCells(z))
DefaultSilu(z) == Outcome(TRUE, AllCells(z))
CpuAdd(z) == Outcome(SameLength(z), Zipped(z))
CpuGelu(z) == Outcome(TRUE, AllCells(z))

CubeAdd(z) == IF OnGpu(z, {"a", "b"}) THEN RunAdd(z) ELSE Outcome(SameLength(z), Zipped(z))
\* On the host the lengths are not compared: the shorter one decides
CubeMul(z) == IF OnGpu(z, {"a", "b"}) THEN RunMul(z) ELSE Outcome(TRUE, Zipped(z))
CubeGelu(z) == IF OnGpu(z, {"a"}) THEN RunGelu(z) ELSE Outcome(TRUE, AllCells(z))
CubeSilu(z) == IF OnGpu(z, {"a"}) THEN RunSilu(z) ELSE Outcome(TRUE, AllCells(z))

-----------------------------------------------------------------------------
\* Rows of z.hidden cells, each normalised by itself and scaled cell by cell
NormRow(row, z) ==
  LET cells == (row * z.hidden)..(row * z.hidden + z.hidden - 1)
  IN  [out |-> cells, from |-> cells]
Rows(z) == [row \in Upto(z.rows) |-> NormRow(row, z)]
RowsFit(z) == FitsUsize(<<z.rows, z.hidden>>) /\ z.len.a = z.rows * z.hidden

LayerNormScalar(z) == Rows(z)
RmsNormScalar(z) == Rows(z)
\* The guard is the room for a whole row, since the output tells no rows
LayerNormUnits(z) ==
  [row \in {r \in RowLaunch(z.rows) : r * z.hidden + z.hidden <= z.len.out} |-> NormRow(row, z)]
RmsNormUnits(z) ==
  [row \in {r \in RowLaunch(z.rows) : r * z.hidden + z.hidden <= z.len.out} |-> NormRow(row, z)]

ValidLayerNorm(z) ==
  /\ RowsFit(z) /\ z.len.out = z.len.a
  /\ z.len.b = z.hidden /\ z.len.c = z.hidden
ValidRmsNorm(z) ==
  /\ z.hidden # 0 /\ z.len.b = z.hidden
  /\ RowsFit(z) /\ z.len.out = z.len.a
  /\ z.epsilonOk

RunLayerNorm(z) == Outcome(z.rows <= MaxU32, LayerNormUnits(z))
RunRmsNorm(z) == Outcome(z.rows <= MaxU32, RmsNormUnits(z))

DefaultLayerNorm(z) == Outcome(ValidLayerNorm(z), LayerNormScalar(z))
CpuLayerNorm(z) == Outcome(ValidLayerNorm(z), LayerNormScalar(z))
CubeLayerNorm(z) ==
  IF ValidLayerNorm(z) /\ OnGpu(z, {"a", "b", "c", "out"}) THEN RunLayerNorm(z)
  ELSE Outcome(ValidLayerNorm(z), LayerNormScalar(z))

DefaultRmsNorm(z) == Outcome(ValidRmsNorm(z), RmsNormScalar(z))
\* On the GPU nothing but the lengths is checked
CubeRmsNorm(z) ==
  LET lengths == z.len.b = z.hidden /\ z.len.a = z.rows * z.hidden /\ z.len.out = z.len.a
  IN  IF lengths /\ OnGpu(z, {"a", "b", "out"}) THEN RunRmsNorm(z)
      ELSE Outcome(lengths /\ ValidRmsNorm(z), RmsNormScalar(z))

-----------------------------------------------------------------------------
\* add_positional_embedding_d: rows from z.start on of the table b are added
ValidPositions(z) ==
  /\ FitsUsize(<<z.rows, z.hidden>>) /\ z.len.a = z.rows * z.hidden
  /\ FitsUsize(<<z.tableRows, z.hidden>>) /\ z.len.b = z.tableRows * z.hidden
  /\ z.start + z.rows <= z.tableRows
WithPositions(z, units) ==
  [i \in units |-> [out |-> {i}, from |-> <<i, z.start * z.hidden + i>>]]
PositionsOut(z) == WithPositions(z, {i \in CellLaunch(z.len.a) : i < z.len.a})
RunPositions(z) ==
  Outcome(/\ FitsUsize(<<z.rows, z.hidden>>) /\ z.len.a = z.rows * z.hidden
       /\ FitsUsize(<<z.start, z.hidden>>)
       /\ z.start * z.hidden + z.len.a <= z.len.b
       /\ z.len.a <= MaxU32, PositionsOut(z))
DefaultPositions(z) == Outcome(ValidPositions(z), WithPositions(z, Upto(z.len.a)))
CpuPositions(z) == Outcome(ValidPositions(z), WithPositions(z, Upto(z.len.a)))
CubePositions(z) ==
  IF ValidPositions(z) /\ OnGpu(z, {"a", "b"}) THEN RunPositions(z)
  ELSE Outcome(ValidPositions(z), WithPositions(z, Upto(z.len.a)))

\* copy_into_d: all of b goes into a, from z.start on
ValidCopy(z) == z.start + z.len.b <= z.len.a
CopyCells(z, units) == [i \in units |-> [out |-> {z.start + i}, from |-> <<i>>]]
CopyUnits(z) == CopyCells(z, {i \in CellLaunch(z.len.b) : i < z.len.b})
RunCopy(z) == Outcome(ValidCopy(z) /\ {z.start, z.len.b} \subseteq 0..MaxU32, CopyUnits(z))
DefaultCopy(z) == Outcome(ValidCopy(z), CopyCells(z, Upto(z.len.b)))
CubeCopy(z) ==
  IF ValidCopy(z) /\ OnGpu(z, {"a", "b"}) THEN RunCopy(z)
  ELSE Outcome(ValidCopy(z), CopyCells(z, Upto(z.len.b)))

-----------------------------------------------------------------------------
(***************************************************************************)
(* Rotary embedding (rope.rs, cubecl_backend.rs): cell i of the first half *)
(* of a head turns with cell i of the second, by the angle of pair i at a  *)
(* position. A task writes both, from both and the angle's cell.           *)
(***************************************************************************)
PairOf(base, i, half) == <<base + i, base + i + half>>
Turn(base, i, half, angle) ==
  LET pair == PairOf(base, i, half)
  IN  [out |-> {pair[1], pair[2]}, from |-> <<pair[1], pair[2], angle>>]

ValidRope(z) == z.dim # 0 /\ z.dim % 2 = 0 /\ z.len.a # 0 /\ z.len.a % z.dim = 0
\* One angle for each pair of a head: all the cells are at one position
TrigTable(z) == [i \in Upto(z.dim \div 2) |-> [pair |-> i, factor |-> FALSE]]
TrigTableWithFactors(z) == [i \in Upto(z.dim \div 2) |-> [pair |-> i, factor |-> TRUE]]
ApplyTables(z, table) ==
  [u \in Steps(z.len.a, z.dim) \X Upto(z.dim \div 2) |->
     Turn(u[1], u[2], z.dim \div 2, table[u[2]])]
RopeInplace(z) == Outcome(ValidRope(z), ApplyTables(z, TrigTable(z)))
ValidFactors(z) == z.factors >= z.dim \div 2 /\ z.factorsOk
RopeWithFactors(z) ==
  Outcome(ValidRope(z) /\ ValidFactors(z), ApplyTables(z, TrigTableWithFactors(z)))
\* A workgroup of as many units as there are pairs
RopeUnits(z) ==
  [pair \in Upto(z.len.a \div 2) |->
     LET half == z.dim \div 2
         head == pair \div half
     IN  Turn(head * z.dim, pair - head * half, half, TrigTable(z)[pair - head * half])]
RopeCubecl(z) ==
  Outcome(/\ z.contiguous /\ ValidRope(z)
       /\ {z.dim, z.len.a \div 2} \subseteq 0..MaxU32, RopeUnits(z))

\* rope_tables_d: rows are heads of positions, and the tables have a row for
\* each position. Nothing checks the sizes.
Position(row, heads) == row \div heads
RowTurn(row, i, z) ==
  LET half == z.dim \div 2
  IN  Turn(row * z.dim, i, half, Position(row, z.heads) * half + i)
RopeTablesHost(z) ==
  [u \in Upto(z.len.a \div z.dim) \X Upto(z.dim \div 2) |-> RowTurn(u[1], u[2], z)]
RopeTablesUnits(z) ==
  LET half == z.dim \div 2
      pairs == (z.len.a \div z.dim) * half
  IN  [pair \in {p \in CellLaunch(pairs) : p < pairs} |->
         RowTurn(pair \div half, pair - (pair \div half) * half, z)]
RunRopeTables(z) == Outcome((z.len.a \div z.dim) * (z.dim \div 2) <= MaxU32, RopeTablesUnits(z))
RopeTables(z) ==
  IF OnGpu(z, {"a", "b", "c"}) THEN RunRopeTables(z) ELSE Outcome(TRUE, RopeTablesHost(z))

\* expand_kv_heads_d: each head is repeated for the query heads of its group
ExpandUnits(z) ==
  [cell \in {c \in CellLaunch(z.len.out) : c < z.len.out} |->
     LET rest == cell \div z.dim
         token == rest \div z.heads
         head == (rest % z.heads) \div (z.heads \div z.kvHeads)
     IN  [out |-> {cell}, from |-> <<(token * z.kvHeads + head) * z.dim + (cell % z.dim)>>]]
RunExpand(z) == Outcome(z.len.out <= MaxU32, ExpandUnits(z))
ExpandHost(z) ==
  [u \in Upto(z.len.a \div (z.kvHeads * z.dim)) \X Upto(z.heads) \X Upto(z.dim) |->
     [out |-> {(u[1] * z.heads + u[2]) * z.dim + u[3]},
      from |-> <<(u[1] * z.kvHeads + u[2] \div (z.heads \div z.kvHeads)) * z.dim + u[3]>>]]
\* The host writes a whole output, whose length must be the destination's
Expand(z) ==
  IF OnGpu(z, {"a", "out"}) THEN RunExpand(z)
  ELSE Outcome(z.len.out = (z.len.a \div (z.kvHeads * z.dim)) * z.heads * z.dim, ExpandHost(z))

-----------------------------------------------------------------------------
(***************************************************************************)
(* What they are for, cell by cell.                                        *)
(***************************************************************************)
PointOutcome(backend, op, z) ==
  CASE op = "add" -> (CASE backend = "cpu" -> CpuAdd(z) [] backend = "cubecl" -> CubeAdd(z)
                        [] OTHER -> DefaultAdd(z))
    [] op = "mul" -> IF backend = "cubecl" THEN CubeMul(z) ELSE DefaultMul(z)
    [] op = "gelu" -> (CASE backend = "cpu" -> CpuGelu(z) [] backend = "cubecl" -> CubeGelu(z)
                         [] OTHER -> DefaultGelu(z))
    [] op = "silu" -> IF backend = "cubecl" THEN CubeSilu(z) ELSE DefaultSilu(z)
    [] op = "layer_norm" ->
         (CASE backend = "cpu" -> CpuLayerNorm(z) [] backend = "cubecl" -> CubeLayerNorm(z)
            [] OTHER -> DefaultLayerNorm(z))
    [] op = "rmsnorm" -> IF backend = "cubecl" THEN CubeRmsNorm(z) ELSE DefaultRmsNorm(z)
    [] op = "positions" ->
         (CASE backend = "cpu" -> CpuPositions(z) [] backend = "cubecl" -> CubePositions(z)
            [] OTHER -> DefaultPositions(z))
    [] op = "copy" -> IF backend = "cubecl" THEN CubeCopy(z) ELSE DefaultCopy(z)
    [] op = "rope" -> IF backend = "cubecl" THEN RopeCubecl(z) ELSE RopeInplace(z)
    [] op = "rope with factors" -> RopeWithFactors(z)
    [] op = "rope tables" -> RopeTables(z)
    [] op = "expand" -> Expand(z)

\* What each written cell is computed from
PointPromised(op, z) ==
  LET inHead(cell) == cell % z.dim
      pair(cell) == inHead(cell) % (z.dim \div 2)
      low(cell) == cell - inHead(cell) + pair(cell)
  IN  CASE op \in {"add", "mul", "gelu", "silu"} -> [cell \in Upto(z.len.a) |-> <<cell>>]
        [] op \in {"layer_norm", "rmsnorm"} ->
             [cell \in Upto(z.len.a) |->
                {c \in Upto(z.len.a) : c \div z.hidden = cell \div z.hidden}]
        [] op = "positions" ->
             [cell \in Upto(z.len.a) |->
                <<cell, (z.start + (cell \div z.hidden)) * z.hidden + (cell % z.hidden)>>]
        [] op = "copy" -> [cell \in z.start..(z.start + z.len.b - 1) |-> <<cell - z.start>>]
        [] op \in {"rope", "rope with factors"} ->
             [cell \in Upto(z.len.a) |->
                <<low(cell), low(cell) + z.dim \div 2,
                  [pair |-> pair(cell), factor |-> op # "rope"]>>]
        [] op = "rope tables" ->
             [cell \in Upto(z.len.a) |->
                <<low(cell), low(cell) + z.dim \div 2,
                  (cell \div (z.heads * z.dim)) * (z.dim \div 2) + pair(cell)>>]
        [] op = "expand" ->
             [cell \in Upto(z.len.out) |->
                LET token == cell \div (z.heads * z.dim)
                    head == (cell % (z.heads * z.dim)) \div z.dim
                IN  <<token * z.kvHeads * z.dim
                      + ((head * z.kvHeads) \div z.heads) * z.dim + inHead(cell)>>]

\* Everything promised is written once, from what it should be
WritesPromised(tasks, promised) ==
  /\ UNION {tasks[u].out : u \in DOMAIN tasks} = DOMAIN promised
  /\ \A u \in DOMAIN tasks : \A cell \in tasks[u].out : tasks[u].from = promised[cell]
  /\ \A u, v \in DOMAIN tasks : u # v => tasks[u].out \cap tasks[v].out = {}
==============================================================================
