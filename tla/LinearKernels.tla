---------------------------- MODULE LinearKernels ----------------------------
(***************************************************************************)
(* The host matrix products of crates/kernels/src/lib.rs and cpu_avx2.rs:  *)
(* linear_out_by_in (a weight of out_features rows) and matmul, in blocks  *)
(* of four, vectorised, and split among the workers of a pool.             *)
(*                                                                         *)
(* A task writes the cell "out": a bias and a sum of products, each the    *)
(* cell of the input and the cell of the weight, in the order added. A     *)
(* call is a record z of sizes, buffer lengths, threads and mode.          *)
(*                                                                         *)
(* WeightRowInChunk is a slip that the checks must notice; no behaviour    *)
(* uses it.                                                                *)
(***************************************************************************)
EXTENDS Buffers

CONSTANTS
  LinearMinRows,     \* PARALLEL_LINEAR_MIN_ROWS
  LinearMinOutputs,  \* PARALLEL_LINEAR_MIN_OUTPUTS
  MatmulMinRows,     \* PARALLEL_MATMUL_MIN_ROWS
  NoBias

ASSUME LinearAssumption ==
  {LinearMinRows, LinearMinOutputs, MatmulMinRows} \subseteq Nat \ {0}

\* The cells of row x of the input against row w of the weight
Terms(x, w, ins) == [k \in 1..ins |-> <<x * ins + k - 1, w * ins + k - 1>>]

\* One output of one row; the rows, outputs and weights of a worker's share
\* are numbered from where the share begins
Output(out, x, w, z) ==
  [out |-> out,
   from |-> [bias |-> IF z.hasBias THEN w ELSE NoBias, terms |-> Terms(x, w, z.ins)]]

Tile == 4

\* Blocks of four as far as they go, then single ones
Blocks(n) ==
  LET tiled == n - (n % Tile)
  IN  {<<b, Tile>> : b \in Steps(tiled, Tile)} \cup {<<b, 1>> : b \in tiled..(n - 1)}
InBlock(b) == 0..(b[2] - 1)

\* A loop over blocks of rows and outputs, with an accumulator per pair
Blocked(rowBlocks, z) ==
  [u \in UNION {{<<r, o>>} \X InBlock(r) \X InBlock(o) :
                  r \in rowBlocks, o \in Blocks(z.outs)} |->
     LET row == u[1][1][1] + u[2]
         col == u[1][2][1] + u[3]
     IN  Output(row * z.outs + col, row, col, z)]

LinearCompute(z) == Blocked(Blocks(z.rows), z)

\* Four rows at a time, each pair's products in vectors and then the tail
Avx2RowBlocks(z) == Blocked({b \in Blocks(z.rows) : b[2] = Tile}, z)
Avx2RowTail(z) == Blocked({b \in Blocks(z.rows) : b[2] = 1}, z)
LinearAvx2(z) ==
  LET blocks == Avx2RowBlocks(z)
      tail == Avx2RowTail(z)
  IN  [u \in DOMAIN blocks \cup DOMAIN tail |->
         IF u \in DOMAIN blocks THEN blocks[u] ELSE tail[u]]

\* Every output of a row starts from its bias and is added to, input by input
LinearOptimized(z) ==
  [u \in (0..(z.rows - 1)) \X (0..(z.outs - 1)) |->
     Output(u[1] * z.outs + u[2], u[1], u[2], z)]

LinearByMode(z) ==
  CASE z.mode = "Scalar" -> LinearCompute(z)
    [] z.mode = "Optimized" -> LinearOptimized(z)
    [] OTHER -> LinearAvx2(z)

\* The tasks of the workers, their inputs and outputs counted from the start
\* of their share
Shares(chunks, share(_), moved(_, _)) ==
  LET of == [c \in DOMAIN chunks |-> share(c)]
  IN  [u \in UNION {{c} \X DOMAIN of[c] : c \in DOMAIN chunks} |->
         moved(u[1], of[u[1]][u[2]])]

WeightRowInChunk(c, chunks) == 0
WeightStart(c, chunks) == chunks[c].first

\* One row: the outputs are shared out, with their rows of the weight
LinearOutputParallel(z) ==
  LET perChunk == AtLeastOne(CeilDiv(CeilDiv(z.outs, Tile), z.threads)) * Tile
      chunks == Chunks(z.len.out, perChunk)
  IN  Shares(chunks,
        LAMBDA c : LinearByMode([z EXCEPT !.rows = 1, !.outs = chunks[c].len]),
        LAMBDA c, t :
          [out |-> chunks[c].first + t.out,
           from |-> [bias |-> IF z.hasBias THEN chunks[c].first + t.from.bias ELSE NoBias,
                     terms |-> [k \in DOMAIN t.from.terms |->
                       <<t.from.terms[k][1],
                         WeightStart(c, chunks) * z.ins + t.from.terms[k][2]>>]]])

\* Blocks of four rows are shared out
LinearParallel(z) ==
  LET perChunk == AtLeastOne(CeilDiv(CeilDiv(z.rows, Tile), z.threads)) * Tile
      chunks == Chunks(z.len.out, perChunk * z.outs)
  IN  Shares(chunks,
        LAMBDA c : LinearByMode([z EXCEPT !.rows = chunks[c].len \div z.outs]),
        LAMBDA c, t :
          [out |-> chunks[c].first + t.out,
           from |-> [t.from EXCEPT !.terms =
                       [k \in DOMAIN @ |-> <<c * perChunk * z.ins + @[k][1], @[k][2]>>]]])

ValidLinear(z) ==
  /\ FitsUsize(<<z.rows, z.ins>>) /\ z.len.x = z.rows * z.ins
  /\ FitsUsize(<<z.outs, z.ins>>) /\ z.len.w = z.outs * z.ins
  /\ FitsUsize(<<z.rows, z.outs>>) /\ z.len.out = z.rows * z.outs
  /\ z.hasBias => z.len.bias = z.outs

\* The CPU backend's choice; there is a pool if there is more than one thread
CpuLinear(z) ==
  IF z.threads > 1 /\ z.rows = 1 /\ z.outs >= LinearMinOutputs THEN LinearOutputParallel(z)
  ELSE IF z.threads > 1 /\ z.rows >= LinearMinRows THEN LinearParallel(z)
  ELSE LinearByMode(z)

-----------------------------------------------------------------------------
\* Row i against column j, whose cells are a row of b apart
Entry(out, i, j, z) ==
  [out |-> out,
   from |-> [bias |-> NoBias,
             terms |-> [p \in 1..z.ins |-> <<i * z.ins + p - 1, (p - 1) * z.outs + j>>]]]
MatmulCompute(z) ==
  [u \in (0..(z.rows - 1)) \X (0..(z.outs - 1)) |->
     Entry(u[1] * z.outs + u[2], u[1], u[2], z)]
\* Each row of the output is zeroed and added to, row by row of b
MatmulOptimized(z) == MatmulCompute(z)

MatmulParallel(z) ==
  LET perChunk == AtLeastOne(CeilDiv(z.rows, z.threads))
      chunks == Chunks(z.len.out, perChunk * z.outs)
  IN  Shares(chunks,
        LAMBDA c : LET mine == [z EXCEPT !.rows = chunks[c].len \div z.outs]
                   IN  IF z.mode = "Scalar" THEN MatmulCompute(mine)
                       ELSE MatmulOptimized(mine),
        LAMBDA c, t :
          [out |-> chunks[c].first + t.out,
           from |-> [t.from EXCEPT !.terms =
                       [k \in DOMAIN @ |-> <<c * perChunk * z.ins + @[k][1], @[k][2]>>]]])

\* b is given its own number of rows
ValidMatmul(z) ==
  /\ z.ins = z.bRows
  /\ FitsUsize(<<z.rows, z.ins>>) /\ z.len.x = z.rows * z.ins
  /\ FitsUsize(<<z.bRows, z.outs>>) /\ z.len.w = z.bRows * z.outs
  /\ FitsUsize(<<z.rows, z.outs>>) /\ z.len.out = z.rows * z.outs

CpuMatmul(z) ==
  IF z.threads > 1 /\ z.rows >= MatmulMinRows THEN MatmulParallel(z)
  ELSE IF z.mode = "Scalar" THEN MatmulCompute(z)
  ELSE MatmulOptimized(z)

-----------------------------------------------------------------------------
\* What they are for: every cell of the output is its row's products with its
\* row (its column, for matmul) of the weight, in order, on top of its bias
PromisedLinear(z) ==
  [out \in 0..(z.rows * z.outs - 1) |->
     Output(out, out \div z.outs, out % z.outs, z).from]
PromisedMatmul(z) ==
  [out \in 0..(z.rows * z.outs - 1) |->
     Entry(out, out \div z.outs, out % z.outs, z).from]

TermsInBuffers(tasks, z) ==
  \A u \in DOMAIN tasks :
    /\ tasks[u].out < z.len.out
    /\ tasks[u].from.bias # NoBias => tasks[u].from.bias < z.len.bias
    /\ \A k \in DOMAIN tasks[u].from.terms :
         /\ tasks[u].from.terms[k][1] < z.len.x
         /\ tasks[u].from.terms[k][2] < z.len.w

-----------------------------------------------------------------------------
(***************************************************************************)
(* The kernels of speech encoders and of gated layers on the host          *)
(* (crates/kernels: conv.rs, relpos.rs, recurrent.rs, activation.rs,       *)
(* mlp.rs, pooling.rs, layout.rs). A task writes the cell "out" from the   *)
(* cells "from", in the order they are added. Kernels that call matrix     *)
(* products are the sequence of their stages, each accepted or refused by  *)
(* its own checks.                                                         *)
(***************************************************************************)

conv_out_len(input, kernel, stride, padding) ==
  LET room == input + 2 * padding
  IN  (IF room >= kernel THEN room - kernel ELSE 0) \div stride + 1

OutHeight(z) == conv_out_len(z.height, z.kernel[1], z.stride[1], z.padding[1])
OutWidth(z) == conv_out_len(z.width, z.kernel[2], z.stride[2], z.padding[2])
NonZero(z) == 0 \notin {z.kernel[1], z.kernel[2], z.stride[1], z.stride[2]}

\* The row and column that a place of the window is at, if it is not padding
At(o, k, axis, z) == o * z.stride[axis] + k - z.padding[axis]
Inside(o, k, axis, z) ==
  At(o, k, axis, z) >= 0 /\ At(o, k, axis, z) < (IF axis = 1 THEN z.height ELSE z.width)

PatchColumn(ic, ky, kx, z) == (ic * z.kernel[1] + ky) * z.kernel[2] + kx

\* im2col: the cells of the patch matrix that are not left zero, and what of
\* the input they hold
Patches(z) ==
  {<<(w[1] * OutWidth(z) + w[2]) * (z.inChannels * z.kernel[1] * z.kernel[2])
       + PatchColumn(w[3], w[4], w[5], z),
     (w[3] * z.height + At(w[1], w[4], 1, z)) * z.width + At(w[2], w[5], 2, z)>> :
     w \in {v \in Upto(OutHeight(z)) \X Upto(OutWidth(z)) \X Upto(z.inChannels)
                  \X Upto(z.kernel[1]) \X Upto(z.kernel[2]) :
              Inside(v[1], v[4], 1, z) /\ Inside(v[2], v[5], 2, z)}}

\* The product of the patches with the weight, and its transposition
Conv2d(z) ==
  LET patches == Patches(z)
      patch == z.inChannels * z.kernel[1] * z.kernel[2]
      cells == OutHeight(z) * OutWidth(z)
      product == LinearCompute([rows |-> cells, ins |-> patch, outs |-> z.outChannels,
                                hasBias |-> z.hasBias])
      input == [col \in Upto(cells * patch) |-> {p[2] : p \in {q \in patches : q[1] = col}}]
  IN  [u \in DOMAIN product |->
         LET t == product[u]
             cell == t.out \div z.outChannels
             used == SelectSeq(t.from.terms, LAMBDA m : input[m[1]] # {})
         IN  [out |-> (t.out % z.outChannels) * cells + cell,
              from |-> [bias |-> t.from.bias,
                        terms |-> [k \in DOMAIN used |->
                          <<CHOOSE i \in input[used[k][1]] : TRUE, used[k][2]>>]]]]
ValidConv2d(z) ==
  /\ NonZero(z)
  /\ z.len.x = z.inChannels * z.height * z.width
  /\ z.len.w = z.outChannels * z.inChannels * z.kernel[1] * z.kernel[2]
  /\ z.len.out = z.outChannels * OutHeight(z) * OutWidth(z)
  /\ z.hasBias => z.len.bias = z.outChannels    \* the product's check

\* The places of a window, row by row, that are not padding
Window(oy, ox, z) ==
  SelectSeq([n \in 1..(z.kernel[1] * z.kernel[2]) |->
               <<(n - 1) \div z.kernel[2], (n - 1) % z.kernel[2]>>],
            LAMBDA k : Inside(oy, k[1], 1, z) /\ Inside(ox, k[2], 2, z))
Filtered(c, oy, ox, z) ==
  LET window == Window(oy, ox, z)
  IN  [out |-> c * OutHeight(z) * OutWidth(z) + oy * OutWidth(z) + ox,
       from |-> [bias |-> IF z.hasBias THEN c ELSE NoBias,
                 terms |-> [n \in DOMAIN window |->
                   <<c * z.height * z.width + At(oy, window[n][1], 1, z) * z.width
                       + At(ox, window[n][2], 2, z),
                     c * z.kernel[1] * z.kernel[2] + window[n][1] * z.kernel[2]
                       + window[n][2]>>]]]
DepthwiseConv2d(z) ==
  [u \in Upto(z.inChannels) \X Upto(OutHeight(z)) \X Upto(OutWidth(z)) |->
     Filtered(u[1], u[2], u[3], z)]
ValidDepthwise2d(z) ==
  /\ NonZero(z)
  /\ z.len.x = z.inChannels * z.height * z.width
  /\ z.len.w = z.inChannels * z.kernel[1] * z.kernel[2]
  /\ z.hasBias => z.len.bias = z.inChannels
  /\ z.len.out = z.inChannels * OutHeight(z) * OutWidth(z)

\* The same along one axis, of height 1; a bias is as long as the channels
DepthwiseConv1d(z) ==
  [u \in Upto(z.inChannels) \X Upto(OutWidth(z)) |->
     LET places == SelectSeq([k \in 1..z.kernel[2] |-> k - 1],
                             LAMBDA k : Inside(u[2], k, 2, z))
     IN  [out |-> u[1] * OutWidth(z) + u[2],
          from |-> [bias |-> IF z.hasBias THEN u[1] ELSE NoBias,
                    terms |-> [n \in DOMAIN places |->
                      <<u[1] * z.width + At(u[2], places[n], 2, z),
                        u[1] * z.kernel[2] + places[n]>>]]]]
ValidDepthwise1d(z) ==
  /\ NonZero(z)
  /\ z.len.x = z.inChannels * z.width
  /\ z.len.w = z.inChannels * z.kernel[2]
  /\ z.len.out = z.inChannels * OutWidth(z)

\* What a convolution is: the places of the padded input, a stride apart,
\* under the whole of a filter; channels are summed, or are apart
PromisedConv(z, apart) ==
  LET cells == OutHeight(z) * OutWidth(z)
      perFilter == (IF apart THEN 1 ELSE z.inChannels) * z.kernel[1] * z.kernel[2]
      outs == IF apart THEN z.inChannels ELSE z.outChannels
      row(out, n) == ((out % cells) \div OutWidth(z)) * z.stride[1]
                     + ((n \div z.kernel[2]) % z.kernel[1]) - z.padding[1]
      col(out, n) == (out % OutWidth(z)) * z.stride[2] + (n % z.kernel[2]) - z.padding[2]
      plane(out, n) == IF apart THEN out \div cells ELSE n \div (z.kernel[1] * z.kernel[2])
      real(out) == SelectSeq([n \in 1..perFilter |-> n - 1],
                             LAMBDA n : row(out, n) \in Upto(z.height)
                                        /\ col(out, n) \in Upto(z.width))
  IN  [out \in Upto(outs * cells) |->
         [bias |-> IF z.hasBias THEN out \div cells ELSE NoBias,
          terms |-> [i \in DOMAIN real(out) |->
            LET n == real(out)[i]
            IN  <<plane(out, n) * z.height * z.width + row(out, n) * z.width + col(out, n),
                  (out \div cells) * perFilter + n>>]]]

\* As many windows as fit; one, with more padding, if none does
WindowsFit(input, kernel, stride, padding) ==
  LET windows == conv_out_len(input, kernel, stride, padding)
      room == input + 2 * padding
  IN  IF kernel > room THEN windows = 1
      ELSE (windows - 1) * stride + kernel <= room /\ windows * stride + kernel > room

ConvOps == {"conv2d", "depthwise2d", "depthwise1d"}
WindowsAllFit(z) ==
  /\ WindowsFit(z.height, z.kernel[1], z.stride[1], z.padding[1])
  /\ WindowsFit(z.width, z.kernel[2], z.stride[2], z.padding[2])

-----------------------------------------------------------------------------
\* Relative positions: row r of the table is for the distance len - 1 - r,
\* and a score of query i and key j is found in the column of distance i - j
TableDistance(r, len) == (len - 1) - r
ShiftStart(i, rows) == (rows - 1) - i
RelShift(z) ==
  Outcome(z.rows # 0 /\ z.len.x = z.rows * (2 * z.rows - 1) /\ z.len.out = z.rows * z.rows,
          [u \in Upto(z.rows) \X Upto(z.rows) |->
             [out |-> u[1] * z.rows + u[2],
              from |-> <<u[1] * (2 * z.rows - 1) + ShiftStart(u[1], z.rows) + u[2]>>]])

\* Half of a row is gated by the other half
GluHalves(z) ==
  Outcome(z.cols # 0 /\ z.len.x = z.rows * 2 * z.cols /\ z.len.out = z.rows * z.cols,
          [u \in Upto(z.rows) \X Upto(z.cols) |->
             [out |-> u[1] * z.cols + u[2],
              from |-> <<u[1] * 2 * z.cols + u[2], u[1] * 2 * z.cols + z.cols + u[2]>>]])
\* A row is a channel, with statistics of its own
BatchNorm(z) ==
  Outcome(z.len.x = z.rows * z.cols /\ z.len.stats = z.rows /\ z.epsilonOk,
          [u \in Upto(z.rows) \X Upto(z.cols) |->
             [out |-> u[1] * z.cols + u[2], from |-> <<u[1] * z.cols + u[2], u[1]>>]])
MeanPool(z) ==
  Outcome(0 \notin {z.rows, z.cols} /\ FitsUsize(<<z.rows, z.cols>>) /\ z.len.x = z.rows * z.cols,
          [d \in Upto(z.cols) |->
             [out |-> d, from |-> [i \in 1..z.rows |-> (i - 1) * z.cols + d]]])
Transpose2d(z) ==
  Outcome(TRUE, [u \in Upto(z.rows) \X Upto(z.cols) |->
                   [out |-> u[2] * z.rows + u[1], from |-> <<u[1] * z.cols + u[2]>>]])

ConvOutcome(op, z) ==
  CASE op = "conv2d" -> Outcome(ValidConv2d(z), Conv2d(z))
    [] op = "depthwise2d" -> Outcome(ValidDepthwise2d(z), DepthwiseConv2d(z))
    [] op = "depthwise1d" -> Outcome(ValidDepthwise1d(z), DepthwiseConv1d(z))
    [] op = "rel_shift" -> RelShift(z) [] op = "glu" -> GluHalves(z)
    [] op = "batch_norm" -> BatchNorm(z) [] op = "mean_pool" -> MeanPool(z)
    [] op = "transpose" -> Transpose2d(z)
ConvPromised(op, z) ==
  LET row(out) == out \div z.cols
      cells == Upto(z.rows * z.cols)
  IN  CASE op \in ConvOps -> PromisedConv(z, op # "conv2d")
        [] op = "rel_shift" ->
             [out \in Upto(z.rows * z.rows) |->
                <<(out \div z.rows) * (2 * z.rows - 1)
                  + CHOOSE r \in Upto(2 * z.rows - 1) :
                      TableDistance(r, z.rows) = (out \div z.rows) - (out % z.rows)>>]
        [] op = "glu" -> [out \in cells |-> <<out + row(out) * z.cols,
                                              out + (row(out) + 1) * z.cols>>]
        [] op = "batch_norm" -> [out \in cells |-> <<out, row(out)>>]
        [] op = "mean_pool" ->
             [d \in Upto(z.cols) |->
                SelectSeq([i \in 1..(z.rows * z.cols) |-> i - 1], LAMBDA i : i % z.cols = d)]
        [] op = "transpose" ->
             [out \in cells |-> <<(out % z.rows) * z.cols + (out \div z.rows)>>]

-----------------------------------------------------------------------------
(***************************************************************************)
(* Kernels of several stages. A stage that is refused ends the kernel with *)
(* the stages before it done.                                              *)
(***************************************************************************)
Product3(rows, ins, outs, x, w, out) ==
  ValidMatmul([rows |-> rows, ins |-> ins, bRows |-> ins, outs |-> outs,
               len |-> [x |-> x, w |-> w, out |-> out]])

GatedChecks(z) ==
  /\ 0 \notin {z.seq, z.hidden, z.inner}
  /\ FitsUsize(<<z.seq, z.hidden>>) /\ FitsUsize(<<z.hidden, z.inner>>)
  /\ FitsUsize(<<z.inner, z.hidden>>) /\ FitsUsize(<<z.seq, z.inner>>)
  /\ {z.len.x, z.len.out} = {z.seq * z.hidden}
  /\ {z.len.gate, z.len.up, z.len.down} = {z.hidden * z.inner}
  /\ {z.len.gateBuf, z.len.upBuf} = {z.seq * z.inner}

\* mlp_gated_silu and mlp_gated_gelu: gate, up, activation and product, down
MlpGatedSilu(z) ==
  <<GatedChecks(z),
    Product3(z.seq, z.hidden, z.inner, z.len.x, z.len.gate, z.len.gateBuf),
    Product3(z.seq, z.hidden, z.inner, z.len.x, z.len.up, z.len.upBuf),
    z.len.upBuf >= z.len.gateBuf,
    Product3(z.seq, z.inner, z.hidden, z.len.gateBuf, z.len.down, z.len.out)>>
MlpGatedGelu(z) == MlpGatedSilu(z)

Gates(hidden) == 4 * hidden
LstmProduct(ins, hidden, w, bias, z) ==
  ValidLinear([rows |-> 1, ins |-> ins, outs |-> Gates(hidden), hasBias |-> z.hasBias,
               len |-> [x |-> ins, w |-> w, out |-> Gates(hidden), bias |-> bias]])
\* lstm_step: both products; their sums are the gates of each cell
LstmStep(z) ==
  <<z.hidden # 0 /\ {z.len.h, z.len.c, z.len.hOut, z.len.cOut} = {z.hidden}
      /\ z.len.wih = Gates(z.hidden) * z.len.x /\ z.len.whh = Gates(z.hidden) * z.hidden
      /\ (z.hasBias => {z.len.bih, z.len.bhh} = {Gates(z.hidden)}),
    LstmProduct(z.len.x, z.hidden, z.len.wih, z.len.bih, z),
    LstmProduct(z.len.h, z.hidden, z.len.whh, z.len.bhh, z)>>

Stages(op, z) ==
  CASE op = "silu" -> MlpGatedSilu(z) [] op = "gelu" -> MlpGatedGelu(z) [] op = "lstm" -> LstmStep(z)

\* What passes the first checks passes all
WholeOrNothing(stages) == stages[1] => \A i \in DOMAIN stages : stages[i]
==============================================================================
