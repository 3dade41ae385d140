--------------------------- MODULE AttentionKernels ---------------------------
(***************************************************************************)
(* The host attention kernels of crates/kernels: those of the device-      *)
(* tensor operations (lib.rs, cpu_avx2.rs) and scaled dot-product          *)
(* attention with grouped heads (attention.rs), each scalar, vectorised    *)
(* and split among the workers of a thread pool.                           *)
(*                                                                         *)
(* A task writes the dim cells from "out" on, from the query at q and the  *)
(* keys and values of the listed rows. A call is a record z: its sizes,    *)
(* the lengths of its buffers, those on a device, threads and mode.        *)
(*                                                                         *)
(* WindowStartLate and ValidCacheLoose are slips that the checks must      *)
(* notice; no behaviour uses them.                                         *)
(***************************************************************************)
EXTENDS Buffers

CONSTANTS
  Lanes,        \* f32 lanes of a vector register: 8 for AVX2
  SdpaMinSeq    \* PARALLEL_SDPA_MIN_SEQ

ASSUME AttentionAssumption == {Lanes, SdpaMinSeq} \subseteq Nat \ {0}

State(z) == z.heads * z.dim
HeadsOf(z) == 0..(z.heads - 1)

\* The columns of a head in the order they are visited: whole vectors, then
\* the tail
InOrder(n) == [i \in 1..n |-> i - 1]
Vectorised(n) ==
  LET simd == n - (n % Lanes)
  IN  [i \in 1..simd |-> Lanes * ((i - 1) \div Lanes) + ((i - 1) % Lanes)]
      \o [i \in 1..(n - simd) |-> simd + i - 1]
DotColumns(n) == Vectorised(n)
ValueColumns(n) == Vectorised(n)
ScoreColumns(z) == IF z.mode = "Avx2" THEN DotColumns(z.dim) ELSE InOrder(z.dim)
SumColumns(z) == IF z.mode = "Avx2" THEN ValueColumns(z.dim) ELSE InOrder(z.dim)

\* Where the rows of a buffer begin for one head, from the first to the last
Strided(buffer, first, last, stride, offset) ==
  [i \in 1..(last - first + 1) |-> <<buffer, (first + i - 1) * stride + offset>>]

Weigh(out, q, keys, values, z) ==
  [out |-> out,
   from |-> [q |-> q, keys |-> keys, values |-> values,
             scored |-> ScoreColumns(z), summed |-> SumColumns(z)]]

\* One head of a query over rows 0..(visible - 1) of k and v
OverRows(out, q, visible, offset, z) ==
  Weigh(out, q, Strided("k", 0, visible - 1, State(z), offset),
        Strided("v", 0, visible - 1, State(z), offset), z)

Loop(rows, z) == (0..(rows - 1)) \X HeadsOf(z)
Scalar(z) == [z EXCEPT !.mode = "Scalar"]

-----------------------------------------------------------------------------
(***************************************************************************)
(* lib.rs.                                                                 *)
(***************************************************************************)
EncoderScalar(z) ==
  [u \in Loop(z.seq, z) |->
     LET base == u[1] * State(z) + u[2] * z.dim
     IN  OverRows(base, base, z.seq, u[2] * z.dim, Scalar(z))]

RowsPerChunk(rows, threads) == AtLeastOne(CeilDiv(rows, threads))

\* A worker's rows are numbered from its chunk, its output from 0
EncoderParallel(z) ==
  LET perChunk == RowsPerChunk(z.seq, z.threads)
      chunks == Chunks(z.len.out, perChunk * State(z))
  IN  [u \in {v \in (DOMAIN chunks) \X (0..(z.seq - 1)) \X HeadsOf(z) :
                 v[2] < chunks[v[1]].len \div State(z)} |->
         OverRows(chunks[u[1]].first + u[2] * State(z) + u[3] * z.dim,
                  (u[1] * perChunk + u[2]) * State(z) + u[3] * z.dim,
                  z.seq, u[3] * z.dim, z)]

CrossScalar(z) ==
  [u \in Loop(z.seq, z) |->
     LET base == u[1] * State(z) + u[2] * z.dim
     IN  OverRows(base, base, z.kvSeq, u[2] * z.dim, Scalar(z))]
CrossHost(z) ==
  IF z.mode # "Avx2" THEN CrossScalar(z)
  ELSE [u \in Loop(z.seq, z) |->
          OverRows(u[1] * State(z) + u[2] * z.dim,
                   u[1] * State(z) + u[2] * z.dim, z.kvSeq, u[2] * z.dim, z)]
\* One chunk per head of a row
CrossParallel(z) ==
  LET chunks == Chunks(z.len.out, z.dim)
  IN  [c \in DOMAIN chunks |->
         LET row == c \div z.heads
             head == c % z.heads
         IN  OverRows(chunks[c].first, row * State(z) + head * z.dim,
                      z.kvSeq, head * z.dim, z)]

CacheScalar(z) ==
  [h \in HeadsOf(z) |-> OverRows(h * z.dim, h * z.dim, z.seq, h * z.dim, Scalar(z))]
CacheHost(z) ==
  IF z.mode # "Avx2" THEN CacheScalar(z)
  ELSE [h \in HeadsOf(z) |-> OverRows(h * z.dim, h * z.dim, z.seq, h * z.dim, z)]
CacheParallel(z) ==
  LET chunks == Chunks(z.len.out, z.dim)
  IN  [c \in DOMAIN chunks |->
         OverRows(chunks[c].first, c * z.dim, z.seq, c * z.dim, z)]

CausalScalar(z) ==
  [u \in Loop(z.seq, z) |->
     LET base == u[1] * State(z) + u[2] * z.dim
     IN  OverRows(base, base, u[1] + 1, u[2] * z.dim, Scalar(z))]

\* The past rows, then the new one, which has buffers of its own
IncrementalScalar(z) ==
  [h \in HeadsOf(z) |->
     Weigh(h * z.dim, h * z.dim,
           Strided("k", 0, z.seq - 1, State(z), h * z.dim) \o <<<<"newK", h * z.dim>>>>,
           Strided("v", 0, z.seq - 1, State(z), h * z.dim) \o <<<<"newV", h * z.dim>>>>,
           Scalar(z))]

\* The checks, in the order that decides what is an overflow
Dims(z) == z.heads > 0 /\ z.dim > 0 /\ FitsUsize(<<z.heads, z.dim>>)
Product(m, n) == IF FitsUsize(<<m, n>>) THEN m * n ELSE -1

ValidEncoder(z) ==
  Dims(z) /\ {z.len.q, z.len.k, z.len.v, z.len.out} = {Product(z.seq, State(z))}
ValidCausal(z) ==
  Dims(z) /\ {z.len.q, z.len.k, z.len.v, z.len.out} = {Product(z.seq, State(z))}
ValidIncremental(z) ==
  /\ Dims(z)
  /\ {z.len.q, z.len.newK, z.len.newV, z.len.out} = {State(z)}
  /\ {z.len.k, z.len.v} = {Product(z.seq, State(z))}
ValidCacheLoose(z) ==
  Dims(z) /\ {z.len.q, z.len.out} = {State(z)}
  /\ {z.len.k, z.len.v} = {Product(z.capacity, State(z))}
ValidCache(z) ==
  /\ z.seq > 0 /\ z.seq <= z.capacity
  /\ Dims(z)
  /\ {z.len.q, z.len.out} = {State(z)}
  /\ {z.len.k, z.len.v} = {Product(z.capacity, State(z))}
ValidAppend(z) ==
  /\ z.seq < z.capacity
  /\ ValidCache([z EXCEPT !.seq = z.seq + 1])
  /\ {z.len.newK, z.len.newV} = {State(z)}
ValidCross(z) ==
  /\ Dims(z)
  /\ {z.len.q, z.len.out} = {Product(z.seq, State(z))}
  /\ {z.len.k, z.len.v} = {Product(z.kvSeq, State(z))}

-----------------------------------------------------------------------------
(***************************************************************************)
(* The device-tensor operations that end in these kernels. Append first    *)
(* copies the new row into the caches at the row of its position.          *)
(***************************************************************************)
\* The pool is used on host buffers, which are borrowed; others are copied
PoolTakes(z, rows) == z.threads > 1 /\ rows >= SdpaMinSeq
OnHost(z, operands) == z.device \cap operands = {}

CpuEncoder(z) ==
  IF OnHost(z, {"q", "k", "v", "out"}) /\ PoolTakes(z, z.seq)
  THEN EncoderParallel(z) ELSE EncoderScalar(z)
CpuCross(z) ==
  IF /\ OnHost(z, {"q", "k", "v", "out"})
     /\ PoolTakes(z, z.kvSeq) /\ z.seq * z.heads > 1
  THEN CrossParallel(z) ELSE CrossHost(z)
CpuCache(z) ==
  IF /\ OnHost(z, {"q", "k", "v", "out"})
     /\ PoolTakes(z, z.seq) /\ z.heads > 1
  THEN CacheParallel(z) ELSE CacheHost(z)

CopiedIn(row, new, z) ==
  IF row[2] \div State(z) = z.seq THEN <<new, row[2] % State(z)>> ELSE row
AfterCopies(tasks, z) ==
  [u \in DOMAIN tasks |->
     [tasks[u] EXCEPT
        !.from.keys = [i \in DOMAIN @ |-> CopiedIn(@[i], "newK", z)],
        !.from.values = [i \in DOMAIN @ |-> CopiedIn(@[i], "newV", z)]]]
CpuAppend(z) == AfterCopies(CpuCache([z EXCEPT !.seq = z.seq + 1]), z)
DefaultAppend(z) == AfterCopies(CacheScalar([z EXCEPT !.seq = z.seq + 1]), z)

-----------------------------------------------------------------------------
(***************************************************************************)
(* attention.rs: queries of grouped heads.                                 *)
(***************************************************************************)
ValidSdpa(z) ==
  /\ 0 \notin {z.dim, z.seq, z.heads, z.kvHeads}
  /\ z.heads % z.kvHeads = 0
  /\ FitsUsize(<<z.seq, z.heads, z.dim>>)
  /\ FitsUsize(<<z.seq, z.kvHeads, z.dim>>)
  /\ {z.len.q, z.len.out} = {z.seq * z.heads * z.dim}
  /\ {z.len.k, z.len.v} = {z.seq * z.kvHeads * z.dim}
ValidWindowed(z) == z.window # 0 /\ ValidSdpa(z)
ValidScale(z) == z.finite

KvHead(h, z) == h \div (z.heads \div z.kvHeads)

\* Head h of query row i over rows first..last of k and v
Grouped(out, i, h, first, last, z) ==
  LET rows(buffer) == Strided(buffer, first, last, z.kvHeads * z.dim,
                              KvHead(h, z) * z.dim)
  IN  Weigh(out, (i * z.heads + h) * z.dim, rows("k"), rows("v"), Scalar(z))

\* Rows first..(end - 1) of the queries, into an output of their own from "at"
Causal(z, first, end, at) ==
  [u \in (first..(end - 1)) \X HeadsOf(z) |->
     Grouped(at + (u[1] - first) * z.heads * z.dim + u[2] * z.dim,
             u[1], u[2], 0, u[1], z)]
CausalOptimized(z, first, end, at) == Causal(z, first, end, at)

WindowStartLate(i, window) == IF i >= window THEN i - window ELSE 0
WindowStart(i, window) == IF i + 1 >= window THEN i + 1 - window ELSE 0
Windowed(z, first, end, at) ==
  [u \in (first..(end - 1)) \X HeadsOf(z) |->
     Grouped(at + (u[1] - first) * z.heads * z.dim + u[2] * z.dim,
             u[1], u[2], WindowStart(u[1], z.window), u[1], z)]
WindowedOptimized(z, first, end, at) == Windowed(z, first, end, at)

ChunkStart(c, perChunk) == c * perChunk

\* A worker runs the same loop on its rows
SdpaParallel(z) ==
  LET perChunk == RowsPerChunk(z.seq, z.threads)
      width == z.heads * z.dim
      chunks == Chunks(z.len.out, perChunk * width)
      rowsOf(c) == LET first == ChunkStart(c, perChunk)
                   IN  first..(first + chunks[c].len \div width - 1)
      share(c) == LET first == ChunkStart(c, perChunk)
                      end == first + chunks[c].len \div width
                  IN  IF z.mode = "Scalar" THEN Causal(z, first, end, chunks[c].first)
                      ELSE CausalOptimized(z, first, end, chunks[c].first)
      shares == [c \in DOMAIN chunks |-> share(c)]
  IN  [u \in UNION {{c} \X rowsOf(c) \X HeadsOf(z) : c \in DOMAIN chunks} |->
         shares[u[1]][u[2], u[3]]]

Bidirectional(z) ==
  [u \in Loop(z.seq, z) |->
     Grouped((u[1] * z.heads + u[2]) * z.dim, u[1], u[2], 0, z.seq - 1, z)]

\* One query over all the rows of a cache
SdpaIncremental(z) ==
  [h \in HeadsOf(z) |-> Grouped(h * z.dim, 0, h, 0, z.seq - 1, z)]
ValidSdpaIncremental(z) ==
  /\ 0 \notin {z.dim, z.seq, z.heads, z.kvHeads}
  /\ z.heads % z.kvHeads = 0
  /\ FitsUsize(<<z.heads, z.dim>>)
  /\ FitsUsize(<<z.seq, z.kvHeads, z.dim>>)
  /\ {z.len.q, z.len.out} = {z.heads * z.dim}
  /\ {z.len.k, z.len.v} = {z.seq * z.kvHeads * z.dim}

\* The CPU backend's choice among them; a scale that is given is checked
Sdpa(z) ==
  IF PoolTakes(z, z.seq) THEN SdpaParallel(z)
  ELSE IF z.mode = "Scalar" THEN Causal(z, 0, z.seq, 0)
  ELSE CausalOptimized(z, 0, z.seq, 0)
SdpaWithScale(z) ==
  IF z.mode = "Scalar" THEN Causal(z, 0, z.seq, 0) ELSE CausalOptimized(z, 0, z.seq, 0)
SdpaWindowed(z) ==
  IF z.mode = "Scalar" THEN Windowed(z, 0, z.seq, 0) ELSE WindowedOptimized(z, 0, z.seq, 0)
SdpaWindowedWithScale(z) ==
  IF z.mode = "Scalar" THEN Windowed(z, 0, z.seq, 0) ELSE WindowedOptimized(z, 0, z.seq, 0)

-----------------------------------------------------------------------------
(***************************************************************************)
(* What attention is: head h of query row r weighs the rows visible to it, *)
(* in the K/V head that h shares. Rows are laid out head by head.          *)
(***************************************************************************)
PromisedFrom(out, seen, kvHeads, z) ==
  LET head == ((out % (z.heads * z.dim)) \div z.dim) \div (z.heads \div kvHeads)
      cell(buffer, row) == <<buffer, (row * kvHeads + head) * z.dim>>
  IN  [q |-> out,
       keys |-> [i \in DOMAIN seen |-> cell(seen[i].k, seen[i].row)],
       values |-> [i \in DOMAIN seen |-> cell(seen[i].v, seen[i].row)],
       scored |-> InOrder(z.dim), summed |-> InOrder(z.dim)]
Promise(rows, kvHeads, visible(_), z) ==
  [out \in {(r * z.heads + h) * z.dim : r \in 0..(rows - 1), h \in HeadsOf(z)} |->
     PromisedFrom(out, visible(out \div (z.heads * z.dim)), kvHeads, z)]

Visible(first, last) ==
  [i \in 1..(last - first + 1) |-> [k |-> "k", v |-> "v", row |-> first + i - 1]]
NewRow == <<[k |-> "newK", v |-> "newV", row |-> 0]>>

PromisedEncoder(z) == Promise(z.seq, z.heads, LAMBDA r : Visible(0, z.seq - 1), z)
PromisedCausal(z) == Promise(z.seq, z.heads, LAMBDA r : Visible(0, r), z)
PromisedCross(z) == Promise(z.seq, z.heads, LAMBDA r : Visible(0, z.kvSeq - 1), z)
PromisedCache(z) == Promise(1, z.heads, LAMBDA r : Visible(0, z.seq - 1), z)
PromisedAppend(z) ==
  Promise(1, z.heads, LAMBDA r : Visible(0, z.seq - 1) \o NewRow, z)
PromisedSdpa(z) == Promise(z.seq, z.kvHeads, LAMBDA r : Visible(0, r), z)
PromisedSdpaLast(z) == Promise(1, z.kvHeads, LAMBDA r : Visible(0, z.seq - 1), z)
PromisedBoth(z) == Promise(z.seq, z.kvHeads, LAMBDA r : Visible(0, z.seq - 1), z)
PromisedWindowed(z) ==
  Promise(z.seq, z.kvHeads,
          LAMBDA r : Visible(r + 1 - Smaller(r + 1, z.window), r), z)

\* The slices that tasks read and write are inside their buffers
InBuffers(tasks, z) ==
  \A u \in DOMAIN tasks :
    LET from == tasks[u].from
        inside(row) == row[2] + z.dim <= z.len[row[1]]
    IN  /\ tasks[u].out + z.dim <= z.len.out
        /\ from.q + z.dim <= z.len.q
        /\ \A i \in DOMAIN from.keys : inside(from.keys[i])
        /\ \A i \in DOMAIN from.values : inside(from.values[i])
==============================================================================
