----------------------------- MODULE LibraryProofs -----------------------------
(***************************************************************************)
(* Theorems about operations that keep no state, for arguments of every    *)
(* size: the split of an output among workers (Buffers), the chunks of     *)
(* long audio (ChunkPlanner), the layers of Gemma4 that attend to the keys *)
(* and values of another (GemmaLayers), and, of KernelCalls, the shared    *)
(* memory of a GPU, what the backends accept, quantised weights, and what  *)
(* attention and the element-wise and row-wise operations read and write.  *)
(***************************************************************************)
EXTENDS KernelCalls, ChunkPlanner, GemmaLayers, FiniteSetTheorems, TLAPS

-----------------------------------------------------------------------------
(***************************************************************************)
(* The shares of an output that rayon hands to its workers.                *)
(***************************************************************************)

\* A quotient is the last multiple not beyond the dividend.
LEMMA Quotient ==
  ASSUME NEW n \in Nat, NEW d \in Nat \ {0}
  PROVE  n \div d \in Nat /\ (n \div d) * d <= n /\ n < (n \div d) * d + d
  OBVIOUS

\* Multiplication by a size keeps the order.
LEMMA ProductMonotone ==
  ASSUME NEW a \in Int, NEW b \in Int, NEW d \in Nat, a <= b
  PROVE  a * d <= b * d
  OBVIOUS

\* As many shares as reach the end of the output, and the last not past it.
LEMMA SharesReachTheEnd ==
  ASSUME NEW len \in Nat, NEW size \in Nat \ {0}
  PROVE  /\ CeilDiv(len, size) \in Nat
         /\ len <= CeilDiv(len, size) * size
         /\ CeilDiv(len, size) * size < len + size
  <1>1. len + size - 1 \in Nat
    OBVIOUS
  <1> QED
    BY <1>1, Quotient DEF CeilDiv

\* A share of par_chunks_mut is where the ones before it end, and is short
\* only if it ends the output.
LEMMA ShareOfChunk ==
  ASSUME NEW len \in Nat, NEW size \in Nat \ {0}, NEW c \in DOMAIN Chunks(len, size)
  PROVE  /\ c \in Nat
         /\ Chunks(len, size)[c].first = c * size
         /\ Chunks(len, size)[c].len = Smaller(size, len - c * size)
         /\ c * size \in Nat /\ c * size < len
  <1> DEFINE n == CeilDiv(len, size)
  <1>1. c \in 0..(n - 1)
    BY DEF Chunks
  <1>2. n \in Nat /\ n * size < len + size
    BY SharesReachTheEnd
  <1> HIDE DEF n
  <1>3. c \in Nat /\ c + 1 <= n
    BY <1>1, <1>2
  <1>4. (c + 1) * size <= n * size
    BY <1>2, <1>3, ProductMonotone
  <1>5. (c + 1) * size = c * size + size /\ c * size \in Nat /\ n * size \in Nat
    BY <1>2, <1>3
  <1>6. c * size < len
    BY <1>2, <1>4, <1>5
  <1> QED
    BY <1>3, <1>5, <1>6 DEF Chunks

Cells(chunk) == chunk.first..(chunk.first + chunk.len - 1)

\* The workers that rayon hands the shares of an output write every cell of it
\* and no cell twice, however short the last share is: the cells of the shares
\* are inside the output, cover it, and belong to one share each.
THEOREM SharesPartition ==
  ASSUME NEW len \in Nat, NEW size \in Nat \ {0}
  PROVE  LET chunks == Chunks(len, size)
         IN  /\ \A c \in DOMAIN chunks : Cells(chunks[c]) # {} /\ Cells(chunks[c]) \subseteq 0..(len - 1)
             /\ \A cell \in 0..(len - 1) : \E c \in DOMAIN chunks : cell \in Cells(chunks[c])
             /\ \A c, d \in DOMAIN chunks : Cells(chunks[c]) \cap Cells(chunks[d]) # {} => c = d
  <1> DEFINE chunks == Chunks(len, size)
  <1>1. ASSUME NEW c \in DOMAIN chunks
        PROVE  Cells(chunks[c]) # {} /\ Cells(chunks[c]) \subseteq 0..(len - 1)
    <2>1. /\ chunks[c].first = c * size /\ c * size \in Nat /\ c * size < len
          /\ chunks[c].len = Smaller(size, len - c * size)
      BY ShareOfChunk
    <2>2. chunks[c].len \in 1..(len - c * size)
      BY <2>1 DEF Smaller
    <2>3. c * size \in Cells(chunks[c])
      BY <2>1, <2>2 DEF Cells
    <2> QED
      BY <2>1, <2>2, <2>3 DEF Cells
  <1>2. ASSUME NEW cell \in 0..(len - 1)
        PROVE  \E c \in DOMAIN chunks : cell \in Cells(chunks[c])
    <2> DEFINE c == cell \div size
    <2>1. c \in Nat /\ c * size <= cell /\ cell < c * size + size
      BY Quotient
    <2> HIDE DEF c
    <2>2. c < CeilDiv(len, size)
      <3>1. SUFFICES ASSUME CeilDiv(len, size) <= c PROVE FALSE
        BY <2>1, SharesReachTheEnd
      <3>2. CeilDiv(len, size) * size <= c * size
        BY <3>1, <2>1, SharesReachTheEnd, ProductMonotone
      <3>3. c * size \in Nat /\ CeilDiv(len, size) * size \in Nat
        BY <2>1, SharesReachTheEnd
      <3> QED
        BY <2>1, <3>2, <3>3, SharesReachTheEnd
    <2>3. c \in DOMAIN chunks
      BY <2>1, <2>2, SharesReachTheEnd DEF Chunks
    <2>4. /\ chunks[c].first = c * size /\ c * size \in Nat
          /\ chunks[c].len = Smaller(size, len - c * size)
      BY <2>3, ShareOfChunk
    <2>5. cell \in Cells(chunks[c])
      BY <2>1, <2>4 DEF Cells, Smaller
    <2> QED
      BY <2>3, <2>5
  <1>3. ASSUME NEW c \in DOMAIN chunks, NEW d \in DOMAIN chunks, c < d
        PROVE  Cells(chunks[c]) \cap Cells(chunks[d]) = {}
    <2>1. /\ c \in Nat /\ c * size \in Nat /\ chunks[c].first = c * size
          /\ chunks[c].len = Smaller(size, len - c * size)
      BY ShareOfChunk
    <2>2. d \in Nat /\ d * size \in Nat /\ chunks[d].first = d * size
      BY ShareOfChunk
    <2>3. (c + 1) * size <= d * size
      BY <1>3, <2>1, <2>2, ProductMonotone
    <2>4. (c + 1) * size = c * size + size
      BY <2>1
    <2>5. c * size + chunks[c].len <= d * size
      BY <2>1, <2>2, <2>3, <2>4 DEF Smaller
    <2>6. chunks[c].len \in Int /\ chunks[d].len \in Int
      BY <2>1, <2>2, ShareOfChunk DEF Smaller
    <2> QED
      BY <2>1, <2>2, <2>5, <2>6 DEF Cells
  <1>4. ASSUME NEW c \in DOMAIN chunks, NEW d \in DOMAIN chunks,
               Cells(chunks[c]) \cap Cells(chunks[d]) # {}
        PROVE  c = d
    <2>1. c \in Nat /\ d \in Nat
      BY ShareOfChunk
    <2> QED
      BY <1>3, <1>4, <2>1
  <1> QED
    BY <1>1, <1>2, <1>4

-----------------------------------------------------------------------------
(***************************************************************************)
(* One round of the loop of plan_transcription_chunks: what holds of a     *)
(* start holds of the next.                                                *)
(***************************************************************************)

ChunkRequest(r) ==
  /\ r.samples \in Nat /\ r.window \in 0..MaxUsize /\ r.overlap \in Nat
  /\ ChunkRequestAccepted(r)
\* A slice of f32 has at most isize::MAX bytes, so twice its length can be counted
Addressable(r) == 2 * r.samples <= MaxUsize

\* What the loop keeps true of its start
StartOK(r, start) ==
  /\ start \in 0..(r.samples - 1)
  /\ start = 0 \/ r.window < r.samples

\* An accepted request enters the loop of plan_transcription_chunks at such a
\* start: its audio is not empty.
THEOREM FirstStart == ASSUME NEW r, ChunkRequest(r) PROVE StartOK(r, 0)
  BY DEF ChunkRequest, ChunkRequestAccepted, StartOK

\* From such a start the planner cannot be refused for an overflow; the chunk
\* is in the audio and not empty; and if it is not the last, it is a whole
\* window, the next start is such a start too, and the next chunk goes on
\* exactly overlap samples before this one's end and brings samples that this
\* one has not. So the loop leaves no gap, and ends.
THEOREM ChunksAdvance ==
  ASSUME NEW r, ChunkRequest(r), Addressable(r),
         NEW start, StartOK(r, start)
  PROVE  LET chunk == ChunkAt(r, start)
             next == start + Step(r)
         IN  /\ WindowFits(r, start)
             /\ chunk.start < chunk.end /\ chunk.end <= r.samples
             /\ ~chunk.last =>
                  /\ chunk.end = start + r.window
                  /\ next <= MaxUsize /\ StartOK(r, next) /\ start < next
                  /\ next = chunk.end - r.overlap
                  /\ chunk.end < ChunkAt(r, next).end
  <1> USE BuffersAssumption DEF ChunkRequest, ChunkRequestAccepted, Addressable, StartOK
  <1> DEFINE end == Smaller(start + r.window, r.samples)
  <1>1. /\ ChunkAt(r, start).start = start
        /\ ChunkAt(r, start).end = end
        /\ ChunkAt(r, start).last <=> end = r.samples
    BY DEF ChunkAt
  <1>2. MaxUsize \in Nat /\ r.window \in Nat
    OBVIOUS
  <1>3. WindowFits(r, start)
    BY <1>2 DEF WindowFits
  <1>4. start < end /\ end <= r.samples
    BY <1>2 DEF Smaller
  <1>5. ASSUME end # r.samples
        PROVE  /\ end = start + r.window
               /\ start + Step(r) <= MaxUsize /\ StartOK(r, start + Step(r)) /\ start < start + Step(r)
               /\ start + Step(r) = end - r.overlap
               /\ end < ChunkAt(r, start + Step(r)).end
    <2>1. end = start + r.window /\ end < r.samples
      BY <1>2, <1>4, <1>5 DEF Smaller
    <2>2. Step(r) \in 1..r.window /\ Step(r) = r.window - r.overlap
      BY <1>2 DEF Step
    <2>3. start + Step(r) <= end
      BY <1>2, <2>1, <2>2
    <2>4. ChunkAt(r, start + Step(r)).end = Smaller(start + Step(r) + r.window, r.samples)
      BY DEF ChunkAt
    <2>5. end < ChunkAt(r, start + Step(r)).end
      BY <1>2, <2>1, <2>2, <2>4 DEF Smaller
    <2>6. StartOK(r, start + Step(r))
      BY <1>2, <2>1, <2>2, <2>3
    <2>7. start + Step(r) <= MaxUsize
      BY <1>2, <2>1, <2>2, <2>3
    <2> QED
      BY <1>2, <2>1, <2>2, <2>5, <2>6, <2>7
  <1> HIDE DEF end
  <1> QED
    BY <1>1, <1>3, <1>4, <1>5, Zenon

-----------------------------------------------------------------------------
(***************************************************************************)
(* What prefill_inner relies on when a layer shares keys and values: for   *)
(* every number of layers, pattern of windows and number of those sharing. *)
(***************************************************************************)

\* The fields that say which layers share: a usize, or one that is absent
SharingFields(c) == c.blocks \in Nat /\ c.shared \in Nat \cup {None}

\* The layers that leave keys and values of their own in a pass
Owners(c, before) == {layer \in 0..(before - 1) : SharedKv(c, layer) = None}

\* A layer that shares comes after the layers that do not, and its source is
\* one of the last two of those.
LEMMA SourceBeforeShared ==
  ASSUME NEW c, SharingFields(c), ValidSharedKv(c),
         NEW layer \in 0..(c.blocks - 1), SharedKv(c, layer) # None
  PROVE  /\ SharedKv(c, layer) = SourceOf(c, layer)
         /\ layer \in FirstShared(c)..(c.blocks - 1)
         /\ SourceOf(c, layer) \in 0..(FirstShared(c) - 1)
  <1>1. c.shared # None /\ c.shared \in Nat
    BY DEF SharedKv, SharingFields
  <1>2. c.shared > 0 /\ c.shared <= c.blocks
    BY <1>1 DEF ValidSharedKv
  <1>3. FirstShared(c) \in Nat
    BY <1>1, <1>2 DEF FirstShared, SharingFields
  <1>4. layer >= FirstShared(c) /\ SharedKv(c, layer) = SourceOf(c, layer)
    BY <1>1, <1>3 DEF SharedKv, SharingFields
  <1>5. layer \in FirstShared(c)..(c.blocks - 1)
    BY <1>3, <1>4 DEF SharingFields
  <1>6. SourceOf(c, layer) \in 0..(layer - 1)
    BY <1>1, <1>5 DEF ValidSharedKv
  <1>7. SourceOf(c, layer) < FirstShared(c)
    BY <1>3, <1>6 DEF SourceOf
  <1> QED
    BY <1>3, <1>4, <1>5, <1>6, <1>7

\* A layer before the first that shares keeps its own keys and values.
LEMMA UnsharedBeforeFirst ==
  ASSUME NEW c, SharingFields(c), c.shared # None, c.shared <= c.blocks,
         NEW source \in 0..(FirstShared(c) - 1)
  PROVE  SharedKv(c, source) = None
  BY DEF SharedKv, FirstShared, SharingFields

\* A configuration that validate_shared_kv_layers accepts never makes a pass
\* stop at "shared KV source layer has not been computed" or at the check that
\* the two layers have the same widths: when a layer that shares is reached,
\* its source has left keys and values of its own in this pass, of the widths
\* that the layer attends with, under the same kind of window.
THEOREM SharedKvIsThere ==
  ASSUME NEW c, SharingFields(c), ValidSharedKv(c),
         NEW layer \in 0..(c.blocks - 1), SharedKv(c, layer) # None
  PROVE  /\ SharedKv(c, layer) \in Owners(c, layer)
         /\ AttentionDims(c, SharedKv(c, layer)) = AttentionDims(c, layer)
         /\ UsesSwa(c, SharedKv(c, layer)) = UsesSwa(c, layer)
  <1> DEFINE source == SharedKv(c, layer)
  <1>1. /\ source = SourceOf(c, layer)
        /\ layer \in FirstShared(c)..(c.blocks - 1)
        /\ source \in 0..(FirstShared(c) - 1)
    BY SourceBeforeShared
  <1>2. c.shared # None /\ c.shared <= c.blocks
    BY DEF SharedKv, ValidSharedKv, SharingFields
  <1>3. SharedKv(c, source) = None
    BY <1>1, <1>2, UnsharedBeforeFirst
  <1>4. source \in 0..(layer - 1) /\ UsesSwa(c, source) = UsesSwa(c, layer)
    <2>1. \A l \in FirstShared(c)..(c.blocks - 1) :
            /\ SourceOf(c, l) \in 0..(l - 1)
            /\ UsesSwa(c, SourceOf(c, l)) = UsesSwa(c, l)
      BY <1>2 DEF ValidSharedKv
    <2> QED
      BY <2>1, <1>1
  <1>5. AttentionDims(c, source) = AttentionDims(c, layer)
    BY <1>4 DEF AttentionDims, HeadWidths, UsesGlobal
  <1> QED
    BY <1>3, <1>4, <1>5 DEF Owners
-----------------------------------------------------------------------------
(***************************************************************************)
(* The shared memory of a workgroup.                                       *)
(***************************************************************************)

\* A number below a bound has one quotient and one remainder.
LEMMA Digits ==
  ASSUME NEW d \in Nat \ {0}, NEW a \in Nat, NEW b \in Nat,
         NEW x \in 0..(d - 1), NEW y \in 0..(d - 1), a * d + x = b * d + y
  PROVE  a = b /\ x = y
  <1>1. ASSUME NEW m \in Nat, NEW n \in Nat, NEW v \in 0..(d - 1), NEW w \in 0..(d - 1), m < n
        PROVE  m * d + v < n * d + w
    <2>1. (m + 1) * d <= n * d
      BY <1>1, ProductMonotone
    <2>2. (m + 1) * d = m * d + d /\ m * d \in Nat /\ n * d \in Nat
      OBVIOUS
    <2> QED
      BY <2>1, <2>2
  <1>2. ~(a < b)
    BY <1>1
  <1>3. ~(b < a)
    BY <1>1
  <1>4. a = b /\ a * d \in Nat
    BY <1>2, <1>3
  <1> QED
    BY <1>4

\* A quotient and a remainder make a number below the product of their bounds.
LEMMA Composed ==
  ASSUME NEW n \in Nat, NEW d \in Nat \ {0}, NEW a \in 0..(n - 1), NEW x \in 0..(d - 1)
  PROVE  a * d + x \in 0..(n * d - 1)
  <1>1. (a + 1) * d <= n * d
    BY ProductMonotone
  <1>2. (a + 1) * d = a * d + d /\ a * d \in Nat /\ n * d \in Nat
    OBVIOUS
  <1> QED
    BY <1>1, <1>2

\* Every such number is made of its quotient and its remainder.
LEMMA Decomposed ==
  ASSUME NEW n \in Nat, NEW d \in Nat \ {0}, NEW cell \in 0..(n * d - 1)
  PROVE  /\ cell \div d \in 0..(n - 1)
         /\ cell % d \in 0..(d - 1)
         /\ (cell \div d) * d + (cell % d) = cell
  <1> DEFINE q == cell \div d
  <1>1. n * d \in Nat /\ cell \in Nat
    OBVIOUS
  <1>2. q \in Nat /\ q * d <= cell /\ q * d \in Nat
    BY <1>1, Quotient
  <1>3. cell % d \in 0..(d - 1) /\ q * d + (cell % d) = cell
    BY <1>1
  <1> HIDE DEF q
  <1>4. q < n
    <2>1. SUFFICES ASSUME n <= q PROVE FALSE
      BY <1>2
    <2>2. n * d <= q * d
      BY <1>2, <2>1, ProductMonotone
    <2> QED
      BY <1>1, <1>2, <2>2
  <1> QED
    BY <1>2, <1>3, <1>4 DEF q

\* A divisor of a number goes into it a whole number of times.
LEMMA WholeQuotient ==
  ASSUME NEW n \in Nat, NEW d \in Nat \ {0}, n % d = 0
  PROVE  n \div d \in Nat /\ (n \div d) * d = n
  <1>1. n \div d \in Nat /\ (n \div d) * d + (n % d) = n
    OBVIOUS
  <1> QED
    BY <1>1

\* What a unit has stored is kept.
LEMMA StoredIsKept ==
  ASSUME NEW stores, NEW u \in DOMAIN stores, NEW buffer, NEW cell, NEW value,
         <<buffer, cell, value>> \in stores[u]
  PROVE  Kept(stores, buffer, cell) # {}
  <1> DEFINE s == <<buffer, cell, value>>
  <1>1. s \in UNION {stores[v] : v \in DOMAIN stores} /\ s[1] = buffer /\ s[2] = cell
    OBVIOUS
  <1> HIDE DEF s
  <1>2. s[3] \in Kept(stores, buffer, cell)
    BY <1>1 DEF Kept
  <1> QED
    BY <1>2

\* linear_tiled_f32: with square tiles of any size, in every chunk of columns of
\* every workgroup, each unit stores its own two cells, and the cells that are
\* read are all stored.
LEMMA TiledApart ==
  ASSUME NEW z
  PROVE  TiledRaceFree(z)
  <1> DEFINE T == TileK
  <1>1. T \in Nat \ {0} /\ TileM = T /\ TileN = T
    BY GpuLinearAssumption
  <1>2. TiledUnits = (0..(T - 1)) \X (0..(T - 1))
    BY <1>1 DEF TiledUnits
  <1> HIDE DEF T
  <1> SUFFICES ASSUME NEW g \in TiledGroups(z), NEW c \in 0..(CeilDiv(z.ins, TileK) - 1)
               PROVE  /\ StoredOnce(TiledStores(g, c, z), [x |-> TileM * TileK, w |-> TileN * TileK])
                      /\ \A u \in TiledUnits :
                           ReadsStored(TiledStores(g, c, z), TiledReads(g, u, z))
    BY DEF TiledRaceFree
  <1> DEFINE stores == TiledStores(g, c, z)
             x(u) == XCell(g[2] * TileM + u[2], c * TileK + u[1], z)
             w(u) == WCell(g[1] * TileN + u[1], c * TileK + u[2], z)
  <1>3. /\ DOMAIN stores = TiledUnits
        /\ \A u \in TiledUnits :
             stores[u] = {<<"x", u[2] * T + u[1], x(u)>>, <<"w", u[1] * T + u[2], w(u)>>}
    BY DEF TiledStores, WTileCell, T
  <1> HIDE DEF stores, x, w
  <1>4. \A u \in TiledUnits : u[1] \in 0..(T - 1) /\ u[2] \in 0..(T - 1) /\ u = <<u[1], u[2]>>
    BY <1>2
  <1>5. ASSUME NEW u \in TiledUnits, NEW v \in TiledUnits, NEW s \in stores[u], NEW t \in stores[v],
               s[1] = t[1], s[2] = t[2]
        PROVE  u = v /\ s = t
    <2>1. CASE s[1] = "x"
      <3>1. s = <<"x", u[2] * T + u[1], x(u)>> /\ t = <<"x", v[2] * T + v[1], x(v)>>
        <4>1. s \in {<<"x", u[2] * T + u[1], x(u)>>, <<"w", u[1] * T + u[2], w(u)>>}
          BY <1>3
        <4>2. t \in {<<"x", v[2] * T + v[1], x(v)>>, <<"w", v[1] * T + v[2], w(v)>>}
          BY <1>3
        <4>3. t[1] = "x"
          BY <1>5, <2>1
        <4>4. s = <<"x", u[2] * T + u[1], x(u)>>
          BY <4>1, <2>1
        <4>5. t = <<"x", v[2] * T + v[1], x(v)>>
          BY <4>2, <4>3
        <4> QED
          BY <4>4, <4>5
      <3>2. u[2] * T + u[1] = v[2] * T + v[1]
        BY <1>5, <3>1
      <3>3. u[2] = v[2] /\ u[1] = v[1]
        BY <1>1, <1>4, <3>2, Digits
      <3> QED
        BY <1>4, <3>1, <3>3
    <2>2. CASE s[1] = "w"
      <3>1. s = <<"w", u[1] * T + u[2], w(u)>> /\ t = <<"w", v[1] * T + v[2], w(v)>>
        <4>1. s \in {<<"x", u[2] * T + u[1], x(u)>>, <<"w", u[1] * T + u[2], w(u)>>}
          BY <1>3
        <4>2. t \in {<<"x", v[2] * T + v[1], x(v)>>, <<"w", v[1] * T + v[2], w(v)>>}
          BY <1>3
        <4>3. t[1] = "w"
          BY <1>5, <2>2
        <4>4. s = <<"w", u[1] * T + u[2], w(u)>>
          BY <4>1, <2>2
        <4>5. t = <<"w", v[1] * T + v[2], w(v)>>
          BY <4>2, <4>3
        <4> QED
          BY <4>4, <4>5
      <3>2. u[1] * T + u[2] = v[1] * T + v[2]
        BY <1>5, <3>1
      <3>3. u[2] = v[2] /\ u[1] = v[1]
        BY <1>1, <1>4, <3>2, Digits
      <3> QED
        BY <1>4, <3>1, <3>3
    <2> QED
      BY <1>3, <2>1, <2>2
  <1>6. ASSUME NEW u \in TiledUnits, NEW s \in stores[u]
        PROVE  s[2] < [x |-> TileM * TileK, w |-> TileN * TileK][s[1]]
    <2>1. u[2] * T + u[1] \in 0..(T * T - 1) /\ u[1] * T + u[2] \in 0..(T * T - 1)
      BY <1>1, <1>4, Composed
    <2>2. T * T \in Nat
      BY <1>1
    <2>3. s[2] < T * T /\ s[1] \in {"x", "w"}
      BY <1>3, <2>1, <2>2
    <2> QED
      BY <1>1, <2>3 DEF T
  <1>7. ASSUME NEW u \in TiledUnits, NEW k \in DOMAIN TiledReads(g, u, z)
        PROVE  /\ Kept(stores, "x", TiledReads(g, u, z)[k][1]) # {}
               /\ Kept(stores, "w", TiledReads(g, u, z)[k][2]) # {}
    <2>1. /\ k \in 1..T
          /\ TiledReads(g, u, z)[k] = <<u[2] * T + k - 1, u[1] * T + k - 1>>
      BY DEF TiledReads, T
    <2>2. k - 1 \in 0..(T - 1)
      BY <1>1, <2>1
    <2> DEFINE p == <<k - 1, u[2]>>
               q == <<u[1], k - 1>>
    <2>3. p \in TiledUnits /\ q \in TiledUnits
      BY <1>2, <1>4, <2>2
    <2>4. p[1] = k - 1 /\ p[2] = u[2] /\ q[1] = u[1] /\ q[2] = k - 1
      OBVIOUS
    <2> HIDE DEF p, q
    <2>5. u[2] * T \in Int /\ u[1] * T \in Int
      BY <1>1, <1>4
    <2>6. /\ p[2] * T + p[1] = u[2] * T + k - 1
          /\ q[1] * T + q[2] = u[1] * T + k - 1
      BY <2>1, <2>4, <2>5
    <2>7. /\ <<"x", u[2] * T + k - 1, x(p)>> \in stores[p]
          /\ <<"w", u[1] * T + k - 1, w(q)>> \in stores[q]
      BY <1>3, <2>3, <2>6
    <2> QED
      BY <1>3, <2>1, <2>3, <2>7, StoredIsKept
  <1> QED
    BY <1>3, <1>5, <1>6, <1>7 DEF StoredOnce, ReadsStored, stores

\* The units of linear_reg_tiled_f32 are numbered without gaps.
LEMMA RegThreadIds ==
  /\ RegThreads \in Nat \ {0}
  /\ \A u \in RegUnits : Tid(u) \in 0..(RegThreads - 1)
  /\ \A u, v \in RegUnits : Tid(u) = Tid(v) => u = v
  /\ \A t \in 0..(RegThreads - 1) : \E u \in RegUnits : Tid(u) = t
  <1> DEFINE across == RtBn \div RtTn
             down == RtBm \div RtTm
  <1>1. /\ RtBn \in Nat \ {0} /\ RtTn \in Nat \ {0} /\ RtBn % RtTn = 0
        /\ RtBm \in Nat \ {0} /\ RtTm \in Nat \ {0} /\ RtBm % RtTm = 0
    BY GpuLinearAssumption
  <1>2. across \in Nat \ {0} /\ down \in Nat \ {0}
    <2>1. across \in Nat /\ across * RtTn = RtBn
      BY <1>1, WholeQuotient
    <2>2. down \in Nat /\ down * RtTm = RtBm
      BY <1>1, WholeQuotient
    <2> HIDE DEF across, down
    <2> QED
      BY <1>1, <2>1, <2>2
  <1>3. /\ RegThreads = across * down
        /\ RegUnits = (0..(across - 1)) \X (0..(down - 1))
        /\ \A u : Tid(u) = u[2] * across + u[1]
    BY DEF RegThreads, RegUnits, Tid
  <1> HIDE DEF across, down
  <1>4. RegThreads = down * across /\ RegThreads \in Nat \ {0}
    BY <1>2, <1>3
  <1>5. \A u \in RegUnits : u[1] \in 0..(across - 1) /\ u[2] \in 0..(down - 1) /\ u = <<u[1], u[2]>>
    BY <1>3
  <1>6. ASSUME NEW u \in RegUnits PROVE Tid(u) \in 0..(RegThreads - 1)
    BY <1>2, <1>3, <1>4, <1>5, Composed
  <1>7. ASSUME NEW u \in RegUnits, NEW v \in RegUnits, Tid(u) = Tid(v) PROVE u = v
    <2>1. u[2] * across + u[1] = v[2] * across + v[1]
      BY <1>3, <1>7
    <2>2. u[2] = v[2] /\ u[1] = v[1]
      BY <1>2, <1>5, <2>1, Digits
    <2> QED
      BY <1>5, <2>2
  <1>8. ASSUME NEW t \in 0..(RegThreads - 1) PROVE \E u \in RegUnits : Tid(u) = t
    <2> DEFINE u == <<t % across, t \div across>>
    <2>1. /\ t \div across \in 0..(down - 1) /\ t % across \in 0..(across - 1)
          /\ (t \div across) * across + (t % across) = t
      BY <1>2, <1>4, Decomposed, ZenonT(40)
    <2>2. u \in RegUnits
      BY <1>3, <2>1
    <2>3. u[1] = t % across /\ u[2] = t \div across
      OBVIOUS
    <2> HIDE DEF u
    <2>4. Tid(u) = t
      BY <1>3, <2>1, <2>3
    <2> QED
      BY <2>2, <2>4
  <1> QED
    BY <1>4, <1>6, <1>7, <1>8

\* If the units divide the cells of a tile evenly, every cell is stored by one
\* of them, in one round.
LEMMA RegRounds ==
  ASSUME NEW total \in Nat, total % RegThreads = 0
  PROVE  LET rounds == 0..(total \div RegThreads - 1)
         IN  /\ \A u \in RegUnits : \A l \in rounds : RegCell(u, l) \in 0..(total - 1)
             /\ \A u, v \in RegUnits : \A l, m \in rounds :
                  RegCell(u, l) = RegCell(v, m) => u = v /\ l = m
             /\ \A cell \in 0..(total - 1) :
                  \E u \in RegUnits : \E l \in rounds : RegCell(u, l) = cell
  <1> DEFINE n == total \div RegThreads
             rounds == 0..(n - 1)
  <1>1. RegThreads \in Nat \ {0}
    BY RegThreadIds
  <1>2. n \in Nat /\ n * RegThreads = total
    BY <1>1, WholeQuotient
  <1> HIDE DEF n
  <1>3. \A u \in RegUnits : \A l \in rounds :
          /\ Tid(u) \in 0..(RegThreads - 1)
          /\ RegCell(u, l) = l * RegThreads + Tid(u)
    <2> SUFFICES ASSUME NEW u \in RegUnits, NEW l \in rounds
                 PROVE  /\ Tid(u) \in 0..(RegThreads - 1)
                        /\ RegCell(u, l) = l * RegThreads + Tid(u)
      OBVIOUS
    <2>1. Tid(u) \in 0..(RegThreads - 1)
      BY RegThreadIds
    <2>2. RegCell(u, l) = Tid(u) + l * RegThreads
      BY DEF RegCell
    <2>3. l * RegThreads \in Nat
      BY <1>1, <1>2
    <2> QED
      BY <1>1, <2>1, <2>2, <2>3
  <1>4. ASSUME NEW u \in RegUnits, NEW l \in rounds PROVE RegCell(u, l) \in 0..(total - 1)
    BY <1>1, <1>2, <1>3, Composed
  <1>5. ASSUME NEW u \in RegUnits, NEW v \in RegUnits, NEW l \in rounds, NEW m \in rounds,
               RegCell(u, l) = RegCell(v, m)
        PROVE  u = v /\ l = m
    <2>1. l * RegThreads + Tid(u) = m * RegThreads + Tid(v)
      BY <1>3, <1>5
    <2>2. l \in Nat /\ m \in Nat
      BY <1>2
    <2>3. Tid(u) \in 0..(RegThreads - 1) /\ Tid(v) \in 0..(RegThreads - 1)
      BY RegThreadIds
    <2>4. l = m /\ Tid(u) = Tid(v)
      BY <1>1, <2>1, <2>2, <2>3, Digits
    <2> QED
      BY <2>4, RegThreadIds
  <1>6. ASSUME NEW cell \in 0..(total - 1)
        PROVE  \E u \in RegUnits : \E l \in rounds : RegCell(u, l) = cell
    <2> DEFINE l == cell \div RegThreads
               t == cell % RegThreads
    <2>1. l \in rounds /\ t \in 0..(RegThreads - 1) /\ l * RegThreads + t = cell
      <3>1. cell \in 0..(n * RegThreads - 1)
        BY <1>2
      <3>2. n \in Nat
        BY <1>2
      <3>3. /\ l \in 0..(n - 1) /\ t \in 0..(RegThreads - 1)
            /\ l * RegThreads + t = cell
        BY ONLY <1>1, <3>1, <3>2, Decomposed
      <3> QED
        BY <3>3
    <2> HIDE DEF l, t
    <2>2. PICK u \in RegUnits : Tid(u) = t
      BY <2>1, RegThreadIds
    <2>3. RegCell(u, l) = cell
      BY <1>3, <2>1, <2>2
    <2> QED
      BY <2>1, <2>3
  <1> QED
    BY <1>4, <1>5, <1>6 DEF n

\* linear_reg_tiled_f32: whatever the blocks of the units, if they divide the
\* tiles evenly, no two stores meet and the cells that are read are all stored.
LEMMA RegTiledApart ==
  ASSUME NEW z
  PROVE  RegTiledRaceFree(z)
  <1> DEFINE cellsX == RtBm * RtBk
             cellsW == RtBn * RtBk
             roundsX == 0..(cellsX \div RegThreads - 1)
             roundsW == 0..(cellsW \div RegThreads - 1)
  <1>1. /\ RtBm \in Nat \ {0} /\ RtBn \in Nat \ {0} /\ RtBk \in Nat \ {0}
        /\ RtTm \in Nat \ {0} /\ RtTn \in Nat \ {0}
        /\ RtBm % RtTm = 0 /\ RtBn % RtTn = 0
    BY GpuLinearAssumption
  <1>2. /\ cellsX \in Nat /\ cellsX % RegThreads = 0
        /\ cellsW \in Nat /\ cellsW % RegThreads = 0
    BY <1>1, GpuLinearAssumption DEF RegThreads
  <1> HIDE DEF cellsX, cellsW
  <1>3. /\ \A u \in RegUnits : \A l \in roundsX : RegCell(u, l) \in 0..(cellsX - 1)
        /\ \A u, v \in RegUnits : \A l, m \in roundsX :
             RegCell(u, l) = RegCell(v, m) => u = v /\ l = m
        /\ \A cell \in 0..(cellsX - 1) :
             \E u \in RegUnits : \E l \in roundsX : RegCell(u, l) = cell
    BY <1>2, RegRounds
  <1>4. /\ \A u \in RegUnits : \A l \in roundsW : RegCell(u, l) \in 0..(cellsW - 1)
        /\ \A u, v \in RegUnits : \A l, m \in roundsW :
             RegCell(u, l) = RegCell(v, m) => u = v /\ l = m
        /\ \A cell \in 0..(cellsW - 1) :
             \E u \in RegUnits : \E l \in roundsW : RegCell(u, l) = cell
    BY <1>2, RegRounds
  <1> SUFFICES ASSUME NEW g \in RegGroups(z), NEW c \in 0..(CeilDiv(z.ins, RtBk) - 1)
               PROVE  /\ StoredOnce(RegStores(g, c, z), [x |-> cellsX, w |-> cellsW])
                      /\ \A u \in RegUnits, i \in 0..(RtTm - 1), j \in 0..(RtTn - 1) :
                           ReadsStored(RegStores(g, c, z), RegReads(u, i, j))
    BY DEF RegTiledRaceFree, cellsX, cellsW
  <1> DEFINE stores == RegStores(g, c, z)
             x(u, l) == XCell(g[2] * RtBm + (RegCell(u, l) \div RtBk),
                              c * RtBk + (RegCell(u, l) % RtBk), z)
             w(u, l) == WCell(g[1] * RtBn + (RegCell(u, l) \div RtBk),
                              c * RtBk + (RegCell(u, l) % RtBk), z)
             storesX(u) == {<<"x", RegCell(u, l), x(u, l)>> : l \in roundsX}
             storesW(u) == {<<"w", RegCell(u, l), w(u, l)>> : l \in roundsW}
  <1>5. /\ DOMAIN stores = RegUnits
        /\ \A u \in RegUnits : stores[u] = storesX(u) \cup storesW(u)
    BY DEF RegStores, cellsX, cellsW
  <1> HIDE DEF stores, x, w
  <1>6. \A u \in RegUnits : \A s \in storesX(u) : s[1] = "x"
    OBVIOUS
  <1>7. \A u \in RegUnits : \A s \in storesW(u) : s[1] = "w"
    OBVIOUS
  <1>8. ASSUME NEW u \in RegUnits, NEW v \in RegUnits, NEW s \in stores[u], NEW t \in stores[v],
               s[1] = t[1], s[2] = t[2]
        PROVE  u = v /\ s = t
    <2>1. CASE s[1] = "x"
      <3>1. s \in storesX(u) /\ t \in storesX(v)
        BY <1>5, <1>7, <1>8, <2>1
      <3>2. PICK l \in roundsX : s = <<"x", RegCell(u, l), x(u, l)>>
        BY <3>1
      <3>3. PICK m \in roundsX : t = <<"x", RegCell(v, m), x(v, m)>>
        BY <3>1
      <3>4. RegCell(u, l) = RegCell(v, m)
        BY <1>8, <3>2, <3>3
      <3>5. u = v /\ l = m
        BY <1>3, <3>4
      <3> QED
        BY <3>2, <3>3, <3>5
    <2>2. CASE s[1] = "w"
      <3>1. s \in storesW(u) /\ t \in storesW(v)
        BY <1>5, <1>6, <1>8, <2>2
      <3>2. PICK l \in roundsW : s = <<"w", RegCell(u, l), w(u, l)>>
        BY <3>1
      <3>3. PICK m \in roundsW : t = <<"w", RegCell(v, m), w(v, m)>>
        BY <3>1
      <3>4. RegCell(u, l) = RegCell(v, m)
        BY <1>8, <3>2, <3>3
      <3>5. u = v /\ l = m
        BY <1>4, <3>4
      <3> QED
        BY <3>2, <3>3, <3>5
    <2> QED
      BY <1>5, <1>6, <1>7, <2>1, <2>2
  <1>9. ASSUME NEW u \in RegUnits, NEW s \in stores[u]
        PROVE  s[2] < [x |-> cellsX, w |-> cellsW][s[1]]
    <2>1. CASE s \in storesX(u)
      <3>1. PICK l \in roundsX : s = <<"x", RegCell(u, l), x(u, l)>>
        BY <2>1
      <3>2. s[1] = "x" /\ s[2] = RegCell(u, l) /\ RegCell(u, l) \in 0..(cellsX - 1)
        BY <1>3, <3>1
      <3> QED
        BY <1>2, <3>2
    <2>2. CASE s \in storesW(u)
      <3>1. PICK l \in roundsW : s = <<"w", RegCell(u, l), w(u, l)>>
        BY <2>2
      <3>2. s[1] = "w" /\ s[2] = RegCell(u, l) /\ RegCell(u, l) \in 0..(cellsW - 1)
        BY <1>4, <3>1
      <3> QED
        BY <1>2, <3>2
    <2> QED
      BY <1>5, <2>1, <2>2
  <1>10. \A cell \in 0..(cellsX - 1) : Kept(stores, "x", cell) # {}
    <2> SUFFICES ASSUME NEW cell \in 0..(cellsX - 1) PROVE Kept(stores, "x", cell) # {}
      OBVIOUS
    <2>1. PICK u \in RegUnits, l \in roundsX : RegCell(u, l) = cell
      BY <1>3
    <2>2. <<"x", cell, x(u, l)>> \in stores[u]
      BY <1>5, <2>1
    <2> QED
      BY <1>5, <2>2, StoredIsKept
  <1>11. \A cell \in 0..(cellsW - 1) : Kept(stores, "w", cell) # {}
    <2> SUFFICES ASSUME NEW cell \in 0..(cellsW - 1) PROVE Kept(stores, "w", cell) # {}
      OBVIOUS
    <2>1. PICK u \in RegUnits, l \in roundsW : RegCell(u, l) = cell
      BY <1>4
    <2>2. <<"w", cell, w(u, l)>> \in stores[u]
      BY <1>5, <2>1
    <2> QED
      BY <1>5, <2>2, StoredIsKept
  <1>12. ASSUME NEW u \in RegUnits, NEW i \in 0..(RtTm - 1), NEW j \in 0..(RtTn - 1),
                NEW k \in DOMAIN RegReads(u, i, j)
         PROVE  /\ Kept(stores, "x", RegReads(u, i, j)[k][1]) # {}
                /\ Kept(stores, "w", RegReads(u, i, j)[k][2]) # {}
    <2> DEFINE rowX == u[2] * RtTm + i
               rowW == u[1] * RtTn + j
    <2>1. /\ k \in 1..RtBk
          /\ RegReads(u, i, j)[k] = <<rowX * RtBk + k - 1, rowW * RtBk + k - 1>>
      BY DEF RegReads
    <2>2. /\ RtBm \div RtTm \in Nat /\ (RtBm \div RtTm) * RtTm = RtBm
          /\ RtBn \div RtTn \in Nat /\ (RtBn \div RtTn) * RtTn = RtBn
      BY <1>1, WholeQuotient
    <2>3. u[1] \in 0..(RtBn \div RtTn - 1) /\ u[2] \in 0..(RtBm \div RtTm - 1)
      BY DEF RegUnits
    <2>4. rowX \in 0..(RtBm - 1) /\ rowW \in 0..(RtBn - 1)
      <3>1. rowX \in 0..((RtBm \div RtTm) * RtTm - 1)
        BY <1>1, <2>2, <2>3, Composed
      <3>2. rowW \in 0..((RtBn \div RtTn) * RtTn - 1)
        BY <1>1, <2>2, <2>3, Composed
      <3> QED
        BY <2>2, <3>1, <3>2
    <2> HIDE DEF rowX, rowW
    <2>5. k - 1 \in 0..(RtBk - 1)
      BY <1>1, <2>1
    <2>6. rowX * RtBk + (k - 1) \in 0..(cellsX - 1) /\ rowW * RtBk + (k - 1) \in 0..(cellsW - 1)
      BY <1>1, <2>4, <2>5, Composed DEF cellsX, cellsW
    <2>7. /\ rowX * RtBk + (k - 1) = rowX * RtBk + k - 1
          /\ rowW * RtBk + (k - 1) = rowW * RtBk + k - 1
      <3>1. rowX * RtBk \in Int /\ rowW * RtBk \in Int /\ k \in Int
        BY <1>1, <2>1, <2>4
      <3> QED
        BY <3>1
    <2>8. /\ RegReads(u, i, j)[k][1] = rowX * RtBk + (k - 1)
          /\ RegReads(u, i, j)[k][2] = rowW * RtBk + (k - 1)
      BY <2>1, <2>7
    <2> QED
      BY <1>10, <1>11, <2>6, <2>8
  <1> QED
    BY <1>5, <1>8, <1>9, <1>12 DEF StoredOnce, ReadsStored, stores

\* The units launched for a number of tasks are numbers.
LEMMA UnitsAreNumbers ==
  ASSUME NEW total \in Nat, NEW wg \in Nat \ {0}
  PROVE  Launched(total, wg) \subseteq Nat /\ Working(total, wg) \subseteq Nat
  <1>1. CeilDiv(total, wg) \in Nat
    BY SharesReachTheEnd
  <1>2. AtLeastOne(CeilDiv(total, wg)) * wg - 1 \in Int
    BY <1>1 DEF AtLeastOne
  <1> QED
    BY <1>2 DEF Launched, Working

\* A number is its quotient and its remainder.
LEMMA Remainder ==
  ASSUME NEW n \in Nat, NEW d \in Nat \ {0}
  PROVE  n % d \in 0..(d - 1) /\ n = (n \div d) * d + (n % d)
  OBVIOUS

\* The units of a workgroup differ in their place in it, and so do their slabs.
LEMMA UnitsHaveSlabs ==
  ASSUME NEW tasks, DOMAIN tasks \subseteq Nat, NEW z, z.dim \in Nat
  PROVE  SlabsApart(tasks, z)
  <1> SUFFICES ASSUME NEW p \in DOMAIN tasks, NEW r \in DOMAIN tasks
               PROVE  /\ Slab(p, z) + z.dim <= SharedCells(z)
                      /\ (p # r /\ p \div AttnWg = r \div AttnWg) =>
                           \/ Slab(p, z) + z.dim <= Slab(r, z)
                           \/ Slab(r, z) + z.dim <= Slab(p, z)
    BY DEF SlabsApart
  <1> DEFINE a == p % AttnWg
             b == r % AttnWg
  <1>1. AttnWg \in Nat \ {0} /\ p \in Nat /\ r \in Nat
    BY GpuAttentionAssumption
  <1>2. /\ a \in 0..(AttnWg - 1) /\ b \in 0..(AttnWg - 1)
        /\ p = (p \div AttnWg) * AttnWg + a /\ r = (r \div AttnWg) * AttnWg + b
    BY <1>1, Remainder
  <1>3. Slab(p, z) = a * z.dim /\ Slab(r, z) = b * z.dim /\ SharedCells(z) = AttnWg * z.dim
    BY DEF Slab, SharedCells
  <1>4. (p # r /\ p \div AttnWg = r \div AttnWg) => a # b
    BY <1>2
  <1> HIDE DEF a, b
  <1>5. (a + 1) * z.dim <= AttnWg * z.dim
    BY <1>1, <1>2, ProductMonotone
  <1>6. (a + 1) * z.dim = a * z.dim + z.dim /\ (b + 1) * z.dim = b * z.dim + z.dim
    BY <1>2
  <1>7. a < b => (a + 1) * z.dim <= b * z.dim
    BY <1>2, ProductMonotone
  <1>8. b < a => (b + 1) * z.dim <= a * z.dim
    BY <1>2, ProductMonotone
  <1>9. a < b \/ b < a \/ a = b
    BY <1>2
  <1> QED
    BY <1>3, <1>4, <1>5, <1>6, <1>7, <1>8, <1>9

\* The tasks of an accepted call.
LEMMA Accepted ==
  ASSUME NEW ok, NEW tasks, Outcome(ok, tasks).ok
  PROVE  Outcome(ok, tasks).tasks = tasks
  BY DEF Outcome

\* The units of every attention kernel of the GPU.
LEMMA AttentionUnits ==
  ASSUME NEW op \in AttentionOps \ {"incremental"}, NEW z \in AttentionArgs,
         OutcomeOf("cubecl", op, z).ok, QKVOut \subseteq z.device
  PROVE  DOMAIN OutcomeOf("cubecl", op, z).tasks \subseteq Nat
  <1>1. AttnWg \in Nat \ {0} /\ MaxUsize \in Nat
    BY GpuAttentionAssumption, BuffersAssumption
  <1>2. z.heads \in Nat /\ z.seq \in Nat /\ z.batch \in Nat
    BY <1>1 DEF AttentionArgs
  <1>3. z.seq * z.heads \in Nat /\ z.batch * z.seq * z.heads \in Nat
    BY <1>2
  <1>4. /\ Working(z.seq * z.heads, AttnWg) \subseteq Nat
        /\ Launched(z.batch * z.seq * z.heads, AttnWg) \subseteq Nat
        /\ Working(z.heads, AttnWg) \subseteq Nat
    BY <1>1, <1>2, <1>3, UnitsAreNumbers
  <1>5. /\ DOMAIN GpuEncoder(z) \subseteq Nat /\ DOMAIN GpuBatched(z) \subseteq Nat
        /\ DOMAIN GpuCausal(z) \subseteq Nat /\ DOMAIN GpuCache(z) \subseteq Nat
        /\ DOMAIN GpuAppend(z) \subseteq Nat /\ DOMAIN GpuCross(z) \subseteq Nat
    BY <1>4 DEF GpuEncoder, GpuBatched, GpuCausal, GpuCache, GpuAppend, GpuCross
  <1>6. OutcomeOf("cubecl", op, z) = CubeOutcome(op, z)
    BY DEF OutcomeOf
  <1>7. CASE op = "encoder"
    BY <1>5, <1>6, <1>7 DEF CubeOutcome, CubeEncoder, Dispatched, Outcome
  <1>8. CASE op = "batched"
    BY <1>5, <1>6, <1>8 DEF CubeOutcome, CubeBatched, Outcome
  <1>9. CASE op = "causal"
    BY <1>5, <1>6, <1>9 DEF CubeOutcome, CubeCausal, Dispatched, Outcome
  <1>10. CASE op = "cache"
    BY <1>5, <1>6, <1>10 DEF CubeOutcome, CubeCache, Dispatched, Outcome
  <1>11. CASE op = "cross"
    BY <1>5, <1>6, <1>11 DEF CubeOutcome, CubeCross, Dispatched, Outcome
  <1>12. CASE op = "append"
    <2> DEFINE later == [z EXCEPT !.seq = z.seq + 1]
               onCache == CubeCache(later).tasks
    <2>1. OutcomeOf("cubecl", op, z).tasks = GpuAppend(z)
          \/ OutcomeOf("cubecl", op, z).tasks = AfterCopies(onCache, z)
      <3>1. OutcomeOf("cubecl", op, z) = CubeAppend(z)
        BY <1>6, <1>12 DEF CubeOutcome
      <3>2. \/ CubeAppend(z) = Outcome(ValidAppend(z) /\ RunAppend(z), GpuAppend(z))
            \/ CubeAppend(z) = Outcome(ValidAppend(z) /\ CubeCache(later).ok, AfterCopies(onCache, z))
        BY DEF CubeAppend
      <3> HIDE DEF onCache, later
      <3> QED
        BY <3>1, <3>2, Accepted
    <2>2. later.heads = z.heads /\ later.device = z.device
      BY DEF AttentionArgs
    <2> HIDE DEF later
    <2>3. DOMAIN GpuCache(later) \subseteq Nat
      BY <1>4, <2>2 DEF GpuCache
    <2>4. DOMAIN onCache \subseteq Nat
      <3>1. onCache = GpuCache(later) \/ onCache = <<>>
        BY <2>2 DEF CubeCache, Dispatched, Outcome
      <3> HIDE DEF onCache
      <3>2. CASE onCache = <<>>
        BY <3>2
      <3> QED
        BY <2>3, <3>1, <3>2
    <2>5. DOMAIN AfterCopies(onCache, z) = DOMAIN onCache
      BY DEF AfterCopies
    <2> QED
      BY <1>5, <2>1, <2>4, <2>5
  <1> QED
    BY <1>7, <1>8, <1>9, <1>10, <1>11, <1>12 DEF AttentionOps

-----------------------------------------------------------------------------
(***************************************************************************)
(* The calls.                                                              *)
(***************************************************************************)
\* A call has the arguments that a caller can pass. Only the kinds that the
\* theorems speak of are told apart.
CallInv ==
  \/ call = Idle
  \/ call.kind = "attention" /\ call.args \in AttentionCalls
  \/ call.kind = "sdpa" /\ call.args \in SdpaCalls
  \/ call.kind = "linear" /\ call.args \in LinearCalls
  \/ call.kind = "point" /\ call.args \in PointCalls
  \/ call.kind = "quant" /\ call.args \in QuantCalls
  \/ call.kind = "primitive" /\ call.args \in PrimitiveCalls
  \/ call.kind \in {"conv", "staged"}

\* The arguments of a call stay what a caller can pass.
THEOREM CallInvAlways == KernelSpec => []CallInv
  <1>1. Init => CallInv
    BY DEF Init, CallInv
  <1>2. CallInv /\ [KernelNext]_call => CallInv'
    <2> SUFFICES ASSUME CallInv, [KernelNext]_call PROVE CallInv'
      OBVIOUS
    <2>1. CASE Attend
      BY <2>1 DEF Attend, Request, CallInv
    <2>2. CASE Multiply
      BY <2>2 DEF Multiply, Request, CallInv
    <2>3. CASE ComputePoints
      BY <2>3 DEF ComputePoints, Request, CallInv
    <2>4. CASE MultiplyQuantised
      BY <2>4 DEF MultiplyQuantised, Request, CallInv
    <2>5. CASE AttendGrouped \/ Convolve \/ RunStages \/ ComputePrimitive
      BY <2>5 DEF AttendGrouped, Convolve, RunStages, ComputePrimitive, Request, CallInv
    <2>6. CASE Return
      BY <2>6 DEF Return, CallInv, Idle
    <2>7. CASE UNCHANGED call
      BY <2>7 DEF CallInv, Idle
    <2> QED
      BY <2>1, <2>2, <2>3, <2>4, <2>5, <2>6, <2>7 DEF KernelNext
  <1> QED
    BY <1>1, <1>2, PTL DEF KernelSpec

\* Shared memory of the GPU: units between two barriers never store in the
\* same cell, read only what one of them stored, and stay inside it, for
\* operands, tiles, blocks and workgroups of every size.
THEOREM SharedMemoryApartAlways == KernelSpec => []SharedMemoryApart
  <1>1. CallInv => SharedMemoryApart
    <2> SUFFICES ASSUME CallInv PROVE SharedMemoryApart
      OBVIOUS
    <2>1. ASSUME Is("attention"), call.args.backend = "cubecl", call.args.op # "incremental",
                 OutcomeOf("cubecl", call.args.op, call.args.z).ok,
                 QKVOut \subseteq call.args.z.device
          PROVE  SlabsApart(OutcomeOf("cubecl", call.args.op, call.args.z).tasks, call.args.z)
      <3>1. call.args \in AttentionCalls
        BY <2>1 DEF CallInv, Is, Idle
      <3>2. call.args.op \in AttentionOps \ {"incremental"} /\ call.args.z \in AttentionArgs
        BY <2>1, <3>1, KernelCallsAssumption
      <3>3. DOMAIN OutcomeOf("cubecl", call.args.op, call.args.z).tasks \subseteq Nat
        BY <2>1, <3>2, AttentionUnits
      <3>4. call.args.z.dim \in Nat
        BY <3>2, BuffersAssumption DEF AttentionArgs
      <3> QED
        BY <3>3, <3>4, UnitsHaveSlabs
    <2> QED
      BY <2>1, TiledApart, RegTiledApart DEF SharedMemoryApart
  <1> QED
    BY <1>1, CallInvAlways, PTL

-----------------------------------------------------------------------------
(***************************************************************************)
(* What the backends accept.                                               *)
(***************************************************************************)

\* Two factors that are small enough fit if their product does.
LEMMA FitsPair ==
  ASSUME NEW m \in Nat, NEW n \in Nat
  PROVE  FitsUsize(<<m, n>>) <=> (m <= MaxUsize /\ m * n <= MaxUsize)
  <1> DEFINE dims == <<m, n>>
             upTo == [i \in 0..Len(dims) |-> IF i = 0 THEN 1 ELSE IF i = 1 THEN m ELSE m * n]
             Multiplies(f) == f = [i \in 0..Len(dims) |->
                                     IF i = 0 THEN 1 ELSE f[i - 1] * dims[i]]
             product == CHOOSE f : Multiplies(f)
  <1>1. Len(dims) = 2 /\ dims[1] = m /\ dims[2] = n
    OBVIOUS
  <1>2. FitsUsize(dims) <=> \A i \in 0..Len(dims) : product[i] <= MaxUsize
    BY DEF FitsUsize
  <1> HIDE DEF dims
  <1>3. Multiplies(upTo)
    <2> SUFFICES ASSUME NEW i \in 0..2
                 PROVE  upTo[i] = IF i = 0 THEN 1 ELSE upTo[i - 1] * dims[i]
      BY <1>1
    <2> QED
      BY <1>1
  <1>4. Multiplies(product)
    <2> HIDE DEF Multiplies
    <2> QED
      BY <1>3
  <1> HIDE DEF product
  <1>5. /\ DOMAIN product = 0..2
        /\ \A i \in 0..2 : product[i] = IF i = 0 THEN 1 ELSE product[i - 1] * dims[i]
    BY <1>1, <1>4
  <1>6. product[0] = 1 /\ product[1] = m /\ product[2] = m * n
    <2>1. product[0] = 1
      BY <1>5
    <2>2. product[1] = product[0] * dims[1]
      BY <1>5
    <2>3. product[2] = product[1] * dims[2]
      BY <1>5
    <2> QED
      BY <1>1, <2>1, <2>2, <2>3
  <1>7. MaxUsize \in Nat \ {0}
    BY BuffersAssumption
  <1>8. 0..2 = {0, 1, 2}
    OBVIOUS
  <1> QED
    BY <1>1, <1>2, <1>6, <1>7, <1>8 DEF dims

\* A length that is a checked product is the product.
LEMMA CheckedProduct ==
  ASSUME NEW m \in Nat, NEW n \in Nat, Product(m, n) \in Nat
  PROVE  Product(m, n) = m * n
  BY DEF Product

\* Every attention operation that other backends than the GPU's have.
LEMMA AttentionBackendsAgree ==
  ASSUME NEW op \in AttentionOps \ {"batched"}, NEW z \in AttentionArgs
  PROVE  LET ok(backend) == OutcomeOf(backend, op, z).ok
             counted == {z.seq + 1, z.heads, z.seq * z.heads}
         IN  /\ ok("cpu") = ok("default")
             /\ ok("cubecl") => ok("default")
             /\ (ok("default") /\ counted \subseteq 0..MaxU32) => ok("cubecl")
  <1> DEFINE cpu == CpuOutcome(op, z).ok
             cube == CubeOutcome(op, z).ok
             default == DefaultOutcome(op, z).ok
             counted == {z.seq + 1, z.heads, z.seq * z.heads}
  <1>1. /\ OutcomeOf("cpu", op, z).ok = cpu
        /\ OutcomeOf("cubecl", op, z).ok = cube
        /\ OutcomeOf("default", op, z).ok = default
    BY DEF OutcomeOf
  <1>2. /\ MaxUsize \in Nat /\ MaxU32 \in Nat
        /\ z.heads \in Nat /\ z.dim \in Nat /\ z.seq \in Nat /\ z.kvSeq \in Nat /\ z.capacity \in Nat
        /\ \A b \in WithNew : z.len[b] \in Nat
    BY BuffersAssumption DEF AttentionArgs, Lengths
  <1>3. State(z) \in Nat /\ {"q", "k", "v", "out", "newK", "newV"} = WithNew
    BY <1>2 DEF State, WithNew, QKVOut
  <1>4. counted \subseteq 0..MaxU32 =>
          z.seq + 1 <= MaxU32 /\ z.seq <= MaxU32 /\ z.heads <= MaxU32 /\ z.seq * z.heads <= MaxU32
    BY <1>2
  <1> HIDE DEF counted
  <1>5. Dims(z) => StateFits(z)
    BY DEF Dims, StateFits
  <1> SUFFICES /\ cpu = default
               /\ cube => default
               /\ (default /\ counted \subseteq 0..MaxU32) => cube
    BY <1>1 DEF counted
  <1>6. CASE op = "encoder"
    <2>1. cpu = ValidEncoder(z) /\ default = ValidEncoder(z)
      BY <1>6 DEF CpuOutcome, DefaultOutcome, DefaultEncoder, Outcome
    <2>2. cube = IF QKVOut \subseteq z.device THEN ValidEncoder(z) /\ RunEncoder(z) ELSE ValidEncoder(z)
      BY <1>6 DEF CubeOutcome, CubeEncoder, Dispatched, Outcome
    <2>3. ValidEncoder(z) /\ counted \subseteq 0..MaxU32 => RunEncoder(z)
      BY <1>4, <1>5 DEF ValidEncoder, RunEncoder
    <2> QED
      BY <2>1, <2>2, <2>3
  <1>7. CASE op = "causal"
    <2>1. cpu = ValidCausal(z) /\ default = ValidCausal(z)
      BY <1>7 DEF CpuOutcome, DefaultOutcome, DefaultCausal, Outcome
    <2>2. cube = IF QKVOut \subseteq z.device THEN ValidCausal(z) /\ RunCausal(z) ELSE ValidCausal(z)
      BY <1>7 DEF CubeOutcome, CubeCausal, Dispatched, Outcome
    <2>3. ValidCausal(z) /\ counted \subseteq 0..MaxU32 => RunCausal(z)
      BY <1>4, <1>5 DEF ValidCausal, RunCausal
    <2> QED
      BY <2>1, <2>2, <2>3
  <1>8. CASE op = "incremental"
    <2>1. cpu = ValidIncremental(z) /\ default = ValidIncremental(z)
      BY <1>8 DEF CpuOutcome, DefaultOutcome, DefaultIncremental, Outcome
    <2>2. cube = IF WithNew \subseteq z.device THEN ValidIncremental(z) /\ RunIncremental(z)
                 ELSE ValidIncremental(z)
      BY <1>8 DEF CubeOutcome, CubeIncremental, Dispatched, Outcome
    <2>3. ASSUME ValidIncremental(z), counted \subseteq 0..MaxU32 PROVE RunIncremental(z)
      <3>1. {z.len.k, z.len.v} = {Product(z.seq, State(z))}
        BY <2>3 DEF ValidIncremental
      <3>2. z.len.k \in Nat /\ z.len.k = Product(z.seq, State(z))
        BY <1>2, <1>3, <3>1
      <3>3. Product(z.seq, State(z)) = z.seq * State(z)
        BY <1>2, <1>3, <3>2, CheckedProduct
      <3> QED
        BY <1>4, <1>5, <2>3, <3>1, <3>3 DEF ValidIncremental, RunIncremental
    <2> QED
      BY <2>1, <2>2, <2>3
  <1>9. CASE op = "cache"
    <2>1. cpu = ValidCache(z) /\ default = ValidCache(z)
      BY <1>9 DEF CpuOutcome, DefaultOutcome, DefaultCache, Outcome
    <2>2. cube = IF QKVOut \subseteq z.device THEN ValidCache(z) /\ RunCache(z) ELSE ValidCache(z)
      BY <1>9 DEF CubeOutcome, CubeCache, Dispatched, Outcome
    <2>3. ValidCache(z) /\ counted \subseteq 0..MaxU32 => RunCache(z)
      BY <1>2, <1>4, <1>5 DEF ValidCache, RunCache
    <2> QED
      BY <2>1, <2>2, <2>3
  <1>10. CASE op = "append"
    <2>1. cpu = ValidAppend(z) /\ default = ValidAppend(z)
      BY <1>10 DEF CpuOutcome, DefaultOutcome, DefaultAppended, Outcome
    <2>2. cube = IF WithNew \subseteq z.device THEN ValidAppend(z) /\ RunAppend(z)
                 ELSE ValidAppend(z) /\ CubeCache([z EXCEPT !.seq = z.seq + 1]).ok
      BY <1>10 DEF CubeOutcome, CubeAppend, Outcome
    <2>3. ASSUME ValidAppend(z), counted \subseteq 0..MaxU32 PROVE RunAppend(z)
      <3> DEFINE later == [z EXCEPT !.seq = z.seq + 1]
      <3>1. ValidCache(later) /\ {z.len.newK, z.len.newV} = {State(z)} /\ z.seq < z.capacity
        BY <2>3 DEF ValidAppend
      <3>2. /\ later.heads = z.heads /\ later.dim = z.dim /\ later.len = z.len
            /\ later.capacity = z.capacity
        BY DEF AttentionArgs
      <3> HIDE DEF later
      <3>3. State(later) = State(z) /\ (Dims(later) => Dims(z))
        BY <3>2 DEF State, Dims
      <3>4. /\ Dims(z) /\ {z.len.q, z.len.out} = {State(z)}
            /\ {z.len.k, z.len.v} = {Product(z.capacity, State(z))}
        BY <3>1, <3>2, <3>3 DEF ValidCache
      <3> QED
        BY <1>4, <1>5, <2>3, <3>1, <3>4 DEF RunAppend
    <2>4. ASSUME ValidAppend(z), counted \subseteq 0..MaxU32
          PROVE  CubeCache([z EXCEPT !.seq = z.seq + 1]).ok
      <3> DEFINE later == [z EXCEPT !.seq = z.seq + 1]
      <3>1. ValidCache(later)
        BY <2>4 DEF ValidAppend
      <3>2. later.heads = z.heads /\ later.dim = z.dim /\ later.seq = z.seq + 1
        BY DEF AttentionArgs
      <3> HIDE DEF later
      <3>3. RunCache(later)
        <4>1. later.seq <= MaxU32 /\ later.heads <= MaxU32 /\ later.seq \in Nat
          BY <1>2, <1>4, <2>4, <3>2
        <4> QED
          BY <3>1, <4>1 DEF ValidCache, RunCache, Dims, StateFits
      <3>4. CubeCache(later).ok
        BY <3>1, <3>3 DEF CubeCache, Dispatched, Outcome
      <3> QED
        BY <3>4 DEF later
    <2> QED
      BY <2>1, <2>2, <2>3, <2>4
  <1>11. CASE op = "cross"
    <2>1. cpu = ValidCross(z) /\ default = ValidCross(z)
      BY <1>11 DEF CpuOutcome, DefaultOutcome, DefaultCross, Outcome
    <2>2. cube = IF QKVOut \subseteq z.device THEN ValidCross(z) /\ RunCross(z) ELSE ValidCross(z)
      BY <1>11 DEF CubeOutcome, CubeCross, Dispatched, Outcome
    <2>3. ValidCross(z) /\ counted \subseteq 0..MaxU32 => RunCross(z)
      BY <1>4, <1>5 DEF ValidCross, RunCross
    <2> QED
      BY <2>1, <2>2, <2>3
  <1> QED
    BY <1>6, <1>7, <1>8, <1>9, <1>10, <1>11 DEF AttentionOps

\* Rows of a table from some row on are in the table.
LEMMA RowsInTable ==
  ASSUME NEW start \in Nat, NEW rows \in Nat, NEW all \in Nat, NEW width \in Nat, start + rows <= all
  PROVE  start * width + rows * width <= all * width /\ start * width <= all * width
  <1>1. (start + rows) * width <= all * width
    BY ProductMonotone
  <1>2. (start + rows) * width = start * width + rows * width /\ rows * width \in Nat
        /\ start * width \in Nat /\ all * width \in Nat
    OBVIOUS
  <1> QED
    BY <1>1, <1>2

\* Every operation on cells and on rows.
LEMMA PointBackendsAgree ==
  ASSUME NEW op \in RowOps, NEW z \in PointArgs
  PROVE  LET ok(backend) == PointOutcome(backend, op, z).ok
             lax == \/ op = "rmsnorm" /\ (~z.epsilonOk \/ z.hidden = 0)
                    \/ op = "mul" /\ ~SameLength(z)
             counted == {z.len.a, z.start, z.rows}
         IN  /\ ok("cpu") = ok("default")
             /\ ok("cubecl") => (ok("default") \/ lax)
             /\ (ok("default") /\ counted \subseteq 0..MaxU32) => ok("cubecl")
  <1> DEFINE cpu == PointOutcome("cpu", op, z).ok
             cube == PointOutcome("cubecl", op, z).ok
             default == PointOutcome("default", op, z).ok
             lax == \/ op = "rmsnorm" /\ (~z.epsilonOk \/ z.hidden = 0)
                    \/ op = "mul" /\ ~SameLength(z)
             counted == {z.len.a, z.start, z.rows}
             Agree == /\ cpu = default
                      /\ cube => (default \/ lax)
                      /\ (default /\ counted \subseteq 0..MaxU32) => cube
  <1>1. /\ MaxUsize \in Nat /\ MaxU32 \in Nat
        /\ z.rows \in 0..MaxUsize /\ z.hidden \in 0..MaxUsize /\ z.start \in 0..MaxUsize
        /\ z.tableRows \in 0..MaxUsize
        /\ \A b \in {"a", "b", "c", "out"} : z.len[b] \in 0..MaxUsize
    BY BuffersAssumption DEF PointArgs, Lengths
  <1>2. /\ z.len.a \in 0..MaxUsize /\ z.len.b \in 0..MaxUsize
        /\ z.len.c \in 0..MaxUsize /\ z.len.out \in 0..MaxUsize
    BY <1>1
  <1>3. counted \subseteq 0..MaxU32 =>
          z.len.a <= MaxU32 /\ z.start \in 0..MaxU32 /\ z.rows <= MaxU32
    BY <1>1
  <1>4. ASSUME op = "add" PROVE Agree
    BY <1>3, <1>4 DEF PointOutcome, CpuAdd, CubeAdd, DefaultAdd, RunAdd, Outcome
  <1>5. ASSUME op = "mul" PROVE Agree
    BY <1>3, <1>5 DEF PointOutcome, CubeMul, DefaultMul, RunMul, Outcome
  <1>6. ASSUME op = "gelu" PROVE Agree
    BY <1>3, <1>6 DEF PointOutcome, CpuGelu, CubeGelu, DefaultGelu, RunGelu, Outcome
  <1>7. ASSUME op = "silu" PROVE Agree
    BY <1>3, <1>7 DEF PointOutcome, CubeSilu, DefaultSilu, RunSilu, Outcome
  <1>8. ASSUME op = "layer_norm" PROVE Agree
    BY <1>3, <1>8 DEF PointOutcome, CpuLayerNorm, CubeLayerNorm, DefaultLayerNorm, RunLayerNorm, Outcome
  <1>9. ASSUME op = "rmsnorm" PROVE Agree
    <2> DEFINE lengths == z.len.b = z.hidden /\ z.len.a = z.rows * z.hidden /\ z.len.out = z.len.a
    <2>1. cpu = ValidRmsNorm(z) /\ default = ValidRmsNorm(z)
      BY <1>9 DEF PointOutcome, DefaultRmsNorm, Outcome
    <2>2. cube = IF lengths /\ OnGpu(z, {"a", "b", "out"}) THEN z.rows <= MaxU32
                 ELSE lengths /\ ValidRmsNorm(z)
      BY <1>9 DEF PointOutcome, CubeRmsNorm, RunRmsNorm, Outcome
    <2>3. ValidRmsNorm(z) => lengths
      BY DEF ValidRmsNorm, RowsFit
    <2>4. lengths => RowsFit(z)
      BY <1>1, <1>2, FitsPair DEF RowsFit
    <2>5. lengths /\ ~lax => ValidRmsNorm(z)
      BY <1>9, <2>4 DEF ValidRmsNorm
    <2> HIDE DEF lengths
    <2> QED
      BY <1>3, <2>1, <2>2, <2>3, <2>5
  <1>10. ASSUME op = "positions" PROVE Agree
    <2> DEFINE run == /\ FitsUsize(<<z.rows, z.hidden>>) /\ z.len.a = z.rows * z.hidden
                      /\ FitsUsize(<<z.start, z.hidden>>)
                      /\ z.start * z.hidden + z.len.a <= z.len.b
                      /\ z.len.a <= MaxU32
    <2>1. cpu = ValidPositions(z) /\ default = ValidPositions(z)
      BY <1>10 DEF PointOutcome, DefaultPositions, CpuPositions, Outcome
    <2>2. cube = IF ValidPositions(z) /\ OnGpu(z, {"a", "b"}) THEN run ELSE ValidPositions(z)
      BY <1>10 DEF PointOutcome, CubePositions, RunPositions, Outcome
    <2>3. ASSUME ValidPositions(z), counted \subseteq 0..MaxU32 PROVE run
      <3>1. /\ FitsUsize(<<z.rows, z.hidden>>) /\ z.len.a = z.rows * z.hidden
            /\ FitsUsize(<<z.tableRows, z.hidden>>) /\ z.len.b = z.tableRows * z.hidden
            /\ z.start + z.rows <= z.tableRows
        BY <2>3 DEF ValidPositions
      <3>2. /\ z.start * z.hidden + z.rows * z.hidden <= z.tableRows * z.hidden
            /\ z.start * z.hidden <= z.tableRows * z.hidden
        <4>1. z.start \in Nat /\ z.rows \in Nat /\ z.tableRows \in Nat /\ z.hidden \in Nat
          BY <1>1
        <4>2. z.start + z.rows <= z.tableRows
          BY <3>1
        <4> QED
          BY ONLY <4>1, <4>2, RowsInTable
      <3>3. z.tableRows * z.hidden <= MaxUsize
        BY <1>2, <3>1
      <3>4. z.start * z.hidden \in Nat /\ z.tableRows * z.hidden \in Nat
        BY <1>1
      <3>5. z.start * z.hidden <= MaxUsize
        BY <1>1, <3>2, <3>3, <3>4
      <3>6. FitsUsize(<<z.start, z.hidden>>)
        BY <1>1, <3>5, FitsPair
      <3> QED
        BY <1>3, <2>3, <3>1, <3>2, <3>6
    <2> HIDE DEF run
    <2> QED
      BY <2>1, <2>2, <2>3
  <1>11. ASSUME op = "copy" PROVE Agree
    <2>1. cpu = ValidCopy(z) /\ default = ValidCopy(z)
      BY <1>11 DEF PointOutcome, DefaultCopy, Outcome
    <2>2. cube = IF ValidCopy(z) /\ OnGpu(z, {"a", "b"})
                 THEN ValidCopy(z) /\ {z.start, z.len.b} \subseteq 0..MaxU32 ELSE ValidCopy(z)
      BY <1>11 DEF PointOutcome, CubeCopy, RunCopy, Outcome
    <2>3. ValidCopy(z) /\ counted \subseteq 0..MaxU32 => {z.start, z.len.b} \subseteq 0..MaxU32
      BY <1>1, <1>2, <1>3 DEF ValidCopy
    <2> QED
      BY <2>1, <2>2, <2>3
  <1> QED
    BY <1>4, <1>5, <1>6, <1>7, <1>8, <1>9, <1>10, <1>11 DEF RowOps

\* The backends accept the same calls, for arguments of every size: what the
\* CPU backend and the trait's defaults refuse the GPU backend refuses too,
\* with the exceptions that the property names, and what they accept it
\* accepts if a u32 counts it.
THEOREM BackendsAgreeAlways == KernelSpec => []BackendsAgree
  <1>1. CallInv => BackendsAgree
    <2> SUFFICES ASSUME CallInv PROVE BackendsAgree
      OBVIOUS
    <2>1. (Is("attention") /\ call.args.op # "batched") =>
            call.args.op \in AttentionOps \ {"batched"} /\ call.args.z \in AttentionArgs
      BY KernelCallsAssumption DEF CallInv, Is, Idle
    <2>2. (Is("point") /\ call.args.op \in RowOps) => call.args.z \in PointArgs
      BY KernelCallsAssumption DEF CallInv, Is, Idle
    <2> QED
      BY <2>1, <2>2, AttentionBackendsAgree, PointBackendsAgree DEF BackendsAgree
  <1> QED
    BY <1>1, CallInvAlways, PTL

-----------------------------------------------------------------------------
(***************************************************************************)
(* Quantised weights: a block of 256 values of each kind.                  *)
(***************************************************************************)

\* Two runs of bits one after the other.
LEMMA Concatenated ==
  ASSUME NEW S, NEW s \in Seq(S), NEW t \in Seq(S)
  PROVE  s \o t \in Seq(S) /\ Len(s \o t) = Len(s) + Len(t)
  OBVIOUS

\* The place of a value in its block: the group of 64, the half of it, and the
\* byte of the half, which a lane of four bytes has.
LEMMA PlaceInBlock ==
  ASSUME NEW i \in 0..255
  PROVE  /\ i \div 64 \in 0..3 /\ (i % 64) \div 32 \in {0, 1} /\ i % 32 \in 0..31
         /\ i = 64 * (i \div 64) + 32 * ((i % 64) \div 32) + (i % 32)
         /\ (i % 32) \div 4 \in 0..7 /\ i % 4 \in 0..3
         /\ i % 32 = 4 * ((i % 32) \div 4) + (i % 4)
         /\ i \div 32 = 2 * (i \div 64) + ((i % 64) \div 32)
  OBVIOUS

\* and the other way round.
LEMMA BlockPlace ==
  ASSUME NEW g \in 0..3, NEW half \in {0, 1}, NEW l \in 0..31
  PROVE  LET i == 64 * g + 32 * half + l
         IN  i \in 0..255 /\ i \div 64 = g /\ (i % 64) \div 32 = half /\ i % 32 = l
  OBVIOUS

\* The loader and the kernel unpack the scales alike, and a minimum is of six bits.
LEMMA SameScaleMin ==
  ASSUME NEW index \in 0..7
  PROVE  ScaleMin(index) = ScaleMinLoader(index) /\ ScaleMin(index).min # ZeroPoint
  <1>1. ScaleMin(index) = ScaleMinLoader(index)
    BY DEF ScaleMin, ScaleMinLoader
  <1>2. DOMAIN ScaleMin(index).min = 1..6
    <2>1. CASE index < 4
      BY <2>1 DEF ScaleMin, Bits
    <2>2. CASE ~(index < 4)
      <3> DEFINE S == {<<4 + index + 4, n>> : n \in 0..7} \cup {<<4 + index, n>> : n \in 0..7}
      <3>1. High(4 + index + 4) \in Seq(S) /\ Len(High(4 + index + 4)) = 4
        BY DEF High, Bits
      <3>2. Bits(4 + index, 6, 2) \in Seq(S) /\ Len(Bits(4 + index, 6, 2)) = 2
        BY DEF Bits
      <3>3. ScaleMin(index).min = High(4 + index + 4) \o Bits(4 + index, 6, 2)
        BY <2>2 DEF ScaleMin
      <3> HIDE DEF S
      <3>4. ASSUME NEW s \in Seq(S), NEW t \in Seq(S), Len(s) = 4, Len(t) = 2
            PROVE  s \o t \in Seq(S) /\ Len(s \o t) = 6
        <4>1. s \o t \in Seq(S) /\ Len(s \o t) = Len(s) + Len(t)
          BY ONLY <3>4, Concatenated
        <4> QED BY ONLY <3>4, <4>1
      <3>5. ScaleMin(index).min \in Seq(S) /\ Len(ScaleMin(index).min) = 6
        <4> HIDE DEF Bits, High
        <4> QED BY ONLY <3>1, <3>2, <3>3, <3>4, Zenon
      <3> QED
        BY <3>5
    <2> QED
      BY <2>1, <2>2
  <1>3. DOMAIN ZeroPoint = 1..1
    BY DEF ZeroPoint
  <1>4. 6 \in 1..6 /\ 6 \notin 1..1
    OBVIOUS
  <1> QED
    BY <1>1, <1>2, <1>3, <1>4

\* The values of a block of Q4_K.
LEMMA ValuesQ4 ==
  ASSUME NEW g \in 0..3, NEW half \in {0, 1}, NEW l \in 0..31
  PROVE  DequantizeQ4[64 * g + 32 * half + l + 1]
           = Value(IF half = 0 THEN Low(16 + 32 * g + l) ELSE High(16 + 32 * g + l),
                   ScaleMin(2 * g + half))
  <1> DEFINE i == 64 * g + 32 * half + l
  <1>1. i \in 0..255 /\ i \div 64 = g /\ (i % 64) \div 32 = half /\ i % 32 = l
    BY BlockPlace
  <1>2. 2 * g + half \in 0..7
    OBVIOUS
  <1>3. ScaleMin(2 * g + half) = ScaleMinLoader(2 * g + half)
    BY <1>2, SameScaleMin
  <1> HIDE DEF i
  <1>4. i + 1 \in 1..256 /\ (i + 1) - 1 = i
    BY <1>1
  <1> QED
    BY <1>1, <1>3, <1>4 DEF DequantizeQ4, QKK, i

\* Every activation of a block of Q4_K meets the nibble and scale of its value.
LEMMA ProductsQ4 ==
  VecDotQ4.products =
    {<<i, DequantizeQ4[i + 1].quant, DequantizeQ4[i + 1].scale>> : i \in 0..(QKK - 1)}
  <1> DEFINE product(i) == <<i, DequantizeQ4[i + 1].quant, DequantizeQ4[i + 1].scale>>
             low(g, lane, o) ==
               <<64 * g + 4 * lane + o, Low(16 + 32 * g + 4 * lane + o), ScaleMin(2 * g).scale>>
             high(g, lane, o) ==
               <<64 * g + 32 + 4 * lane + o, High(16 + 32 * g + 4 * lane + o),
                 ScaleMin(2 * g + 1).scale>>
  <1>1. VecDotQ4.products =
          UNION {{low(g, lane, o), high(g, lane, o)} : g \in 0..3, lane \in 0..7, o \in 0..3}
    BY DEF VecDotQ4
  <1>2. ASSUME NEW g \in 0..3, NEW lane \in 0..7, NEW o \in 0..3
        PROVE  /\ low(g, lane, o) = product(64 * g + 4 * lane + o)
               /\ high(g, lane, o) = product(64 * g + 32 + 4 * lane + o)
               /\ 64 * g + 4 * lane + o \in 0..255 /\ 64 * g + 32 + 4 * lane + o \in 0..255
    <2>1. 4 * lane + o \in 0..31 /\ 0 \in {0, 1} /\ 1 \in {0, 1}
      OBVIOUS
    <2>2. DequantizeQ4[64 * g + 32 * 0 + (4 * lane + o) + 1]
            = Value(Low(16 + 32 * g + (4 * lane + o)), ScaleMin(2 * g + 0))
      BY <2>1, ValuesQ4
    <2>3. DequantizeQ4[64 * g + 32 * 1 + (4 * lane + o) + 1]
            = Value(High(16 + 32 * g + (4 * lane + o)), ScaleMin(2 * g + 1))
      BY <2>1, ValuesQ4
    <2>4. /\ 64 * g + 32 * 0 + (4 * lane + o) + 1 = (64 * g + 4 * lane + o) + 1
          /\ 64 * g + 32 * 1 + (4 * lane + o) + 1 = (64 * g + 32 + 4 * lane + o) + 1
          /\ 16 + 32 * g + (4 * lane + o) = 16 + 32 * g + 4 * lane + o
          /\ 2 * g + 0 = 2 * g
      OBVIOUS
    <2>5. /\ DequantizeQ4[(64 * g + 4 * lane + o) + 1]
               = Value(Low(16 + 32 * g + 4 * lane + o), ScaleMin(2 * g))
          /\ DequantizeQ4[(64 * g + 32 + 4 * lane + o) + 1]
               = Value(High(16 + 32 * g + 4 * lane + o), ScaleMin(2 * g + 1))
      BY <2>2, <2>3, <2>4
    <2>6. 64 * g + 4 * lane + o \in 0..255 /\ 64 * g + 32 + 4 * lane + o \in 0..255
      OBVIOUS
    <2> QED
      BY <2>5, <2>6 DEF Value
  <1>3. ASSUME NEW i \in 0..255
        PROVE  \E g \in 0..3, lane \in 0..7, o \in 0..3 :
                 i = 64 * g + 4 * lane + o \/ i = 64 * g + 32 + 4 * lane + o
    <2>1. /\ i \div 64 \in 0..3 /\ (i % 32) \div 4 \in 0..7 /\ i % 4 \in 0..3
          /\ \/ i = 64 * (i \div 64) + 4 * ((i % 32) \div 4) + (i % 4)
             \/ i = 64 * (i \div 64) + 32 + 4 * ((i % 32) \div 4) + (i % 4)
      BY PlaceInBlock
    <2> QED
      BY <2>1
  <1> HIDE DEF product, low, high
  <1>4. VecDotQ4.products = {product(i) : i \in 0..255}
    <2>1. ASSUME NEW i \in 0..255
          PROVE  product(i) \in VecDotQ4.products
      <3>1. PICK g \in 0..3, lane \in 0..7, o \in 0..3 :
              i = 64 * g + 4 * lane + o \/ i = 64 * g + 32 + 4 * lane + o
        BY <1>3
      <3>2. product(i) \in {low(g, lane, o), high(g, lane, o)}
        BY <1>2, <3>1
      <3> DEFINE pairs == {{low(h, m, n), high(h, m, n)} : h \in 0..3, m \in 0..7, n \in 0..3}
      <3>3. {low(g, lane, o), high(g, lane, o)} \in pairs
        OBVIOUS
      <3>4. VecDotQ4.products = UNION pairs
        BY <1>1
      <3> HIDE DEF pairs
      <3> QED
        BY <3>2, <3>3, <3>4
    <2>2. ASSUME NEW p \in VecDotQ4.products
          PROVE  \E i \in 0..255 : p = product(i)
      <3>1. PICK g \in 0..3, lane \in 0..7, o \in 0..3 : p \in {low(g, lane, o), high(g, lane, o)}
        BY <1>1
      <3> QED
        BY <1>2, <3>1
    <2> QED
      BY <2>1, <2>2
  <1> QED
    BY <1>4 DEF product, QKK

\* A minimum of 32 values is taken off with the sums of their two halves.
LEMMA MinimaOf32 ==
  UNION {Sum16(2 * g, ScaleMin(g).min) \cup Sum16(2 * g + 1, ScaleMin(g).min) : g \in 0..7}
    = {<<i, ScaleMin(i \div 32).min>> : i \in 0..255}
  <1> DEFINE sums(g) == Sum16(2 * g, ScaleMin(g).min) \cup Sum16(2 * g + 1, ScaleMin(g).min)
             minimum(i) == <<i, ScaleMin(i \div 32).min>>
  <1>1. ASSUME NEW g \in 0..7
        PROVE  sums(g) = {<<i, ScaleMin(g).min>> : i \in (32 * g)..(32 * g + 31)}
    <2>1. (16 * (2 * g))..(16 * (2 * g) + 15) \cup (16 * (2 * g + 1))..(16 * (2 * g + 1) + 15)
            = (32 * g)..(32 * g + 31)
      OBVIOUS
    <2> QED
      BY <2>1 DEF Sum16
  <1>2. ASSUME NEW g \in 0..7, NEW i \in (32 * g)..(32 * g + 31)
        PROVE  i \in 0..255 /\ i \div 32 = g
    OBVIOUS
  <1>3. ASSUME NEW i \in 0..255
        PROVE  i \div 32 \in 0..7 /\ i \in (32 * (i \div 32))..(32 * (i \div 32) + 31)
    OBVIOUS
  <1> HIDE DEF sums
  <1> QED
    <2>1. ASSUME NEW i \in 0..255 PROVE \E g \in 0..7 : minimum(i) \in sums(g)
      BY <1>1, <1>3
    <2>2. ASSUME NEW g \in 0..7, NEW p \in sums(g) PROVE \E i \in 0..255 : p = minimum(i)
      BY <1>1, <1>2
    <2>3. UNION {sums(g) : g \in 0..7} = {minimum(i) : i \in 0..255}
      <3> HIDE DEF minimum
      <3> QED BY <2>1, <2>2
    <2> QED
      BY <2>3 DEF sums

\* Q5_K: a fifth bit of the byte of the lane.
LEMMA ValuesQ5 ==
  ASSUME NEW i \in 0..255
  PROVE  DequantizeQ5[i + 1] = Value(QuantsQ5[i], ScaleMin(i \div 32))
  <1>0. i \in 0..(QKK - 1)
    BY DEF QKK
  <1>1. /\ i \div 64 \in 0..3 /\ (i % 64) \div 32 \in {0, 1}
        /\ i \div 32 = 2 * (i \div 64) + ((i % 64) \div 32)
    BY PlaceInBlock
  <1>2. ScaleMin(i \div 32) = ScaleMinLoader(2 * (i \div 64) + ((i % 64) \div 32))
    <2>1. i \div 32 \in 0..7
      OBVIOUS
    <2> QED
      BY <1>1, <2>1, SameScaleMin
  <1>3. i + 1 \in 1..QKK /\ (i + 1) - 1 = i
    BY DEF QKK
  <1>4. QuantsQ5[i] =
          (IF (i % 64) \div 32 = 0 THEN Low(48 + 32 * (i \div 64) + (i % 32))
           ELSE High(48 + 32 * (i \div 64) + (i % 32)))
          \o Bits(16 + (i % 32), 2 * (i \div 64) + ((i % 64) \div 32), 1)
    BY <1>0 DEF QuantsQ5, HighBit
  <1> QED
    <2> DEFINE at(g, half, k) ==
                 Value((IF half = 0 THEN Low(48 + 32 * g + k) ELSE High(48 + 32 * g + k))
                       \o Bits(16 + k, 2 * g + half, 1),
                       ScaleMinLoader(2 * g + half))
    <2>1. DequantizeQ5 = [n \in 1..QKK |-> at((n - 1) \div 64, ((n - 1) % 64) \div 32, (n - 1) % 32)]
      BY DEF DequantizeQ5
    <2> HIDE DEF at
    <2>2. DequantizeQ5[i + 1] = at(i \div 64, (i % 64) \div 32, i % 32)
      BY <1>3, <2>1
    <2> QED
      BY <1>2, <1>4, <2>2 DEF at

\* The sums of 16 of the kernel of Q5_K are those of Q4_K.
LEMMA MinimaQ5 ==
  VecDotQ5.minima = {<<i, ScaleMin(i \div 32).min>> : i \in 0..255}
  <1> DEFINE minimum(i) == <<i, ScaleMin(i \div 32).min>>
  <1>1. VecDotQ5.minima = UNION {Sum16(g, ScaleMin(g \div 2).min) : g \in 0..15}
    BY DEF VecDotQ5
  <1>2. ASSUME NEW g \in 0..15, NEW i \in (16 * g)..(16 * g + 15)
        PROVE  i \in 0..255 /\ i \div 32 = g \div 2
    OBVIOUS
  <1>3. ASSUME NEW i \in 0..255
        PROVE  /\ i \div 16 \in 0..15 /\ i \in (16 * (i \div 16))..(16 * (i \div 16) + 15)
               /\ i \div 32 = (i \div 16) \div 2
    OBVIOUS
  <1>4. \A g : Sum16(g, ScaleMin(g \div 2).min)
                 = {<<i, ScaleMin(g \div 2).min>> : i \in (16 * g)..(16 * g + 15)}
    BY DEF Sum16
  <1>5. ASSUME NEW i \in 0..255 PROVE minimum(i) \in VecDotQ5.minima
    <2>1. PICK g \in 0..15 : i \in (16 * g)..(16 * g + 15) /\ i \div 32 = g \div 2
      BY <1>3
    <2>2. minimum(i) \in Sum16(g, ScaleMin(g \div 2).min)
      BY <1>4, <2>1, ZenonT(60)
    <2> HIDE DEF minimum
    <2> QED BY <1>1, <2>2
  <1>6. ASSUME NEW p \in VecDotQ5.minima PROVE \E i \in 0..255 : p = minimum(i)
    <2>1. PICK g \in 0..15 : p \in Sum16(g, ScaleMin(g \div 2).min)
      BY <1>1
    <2>2. PICK i \in (16 * g)..(16 * g + 15) : p = <<i, ScaleMin(g \div 2).min>>
      BY <1>4, <2>1
    <2> QED
      BY <1>2, <2>2
  <1>7. VecDotQ5.minima = {minimum(i) : i \in 0..255}
    <2> HIDE DEF minimum
    <2> QED BY <1>5, <1>6
  <1> QED
    BY <1>7

\* Q6_K: two bits of the high byte, and a scale for 16 values.
ValueQ6(sg, quarter, l) ==
  LET ql == 64 * sg + l + 32 * (quarter % 2)
  IN  [quant |-> (IF quarter < 2 THEN Low(ql) ELSE High(ql)) \o Bits(128 + 32 * sg + l, 2 * quarter, 2),
       scale |-> Bits(192 + 8 * sg + (l \div 16) + 2 * quarter, 0, 8),
       min |-> ZeroPoint]

\* The value at a place of a block, as the loader unpacks it.
LEMMA UnpackedQ6 ==
  ASSUME NEW i \in 0..255
  PROVE  DequantizeQ6[i + 1] = ValueQ6(i \div 128, (i % 128) \div 32, i % 32)
  <1>1. DequantizeQ6 = [n \in 1..QKK |-> ValueQ6((n - 1) \div 128, ((n - 1) % 128) \div 32, (n - 1) % 32)]
    BY DEF DequantizeQ6, ValueQ6
  <1>2. i + 1 \in 1..QKK /\ (i + 1) - 1 = i
    BY DEF QKK
  <1> QED
    BY <1>1, <1>2

\* It has the quant of the kernel's, the scale of its 16 values and the zero point.
LEMMA ValuesQ6 ==
  ASSUME NEW i \in 0..255
  PROVE  /\ DequantizeQ6[i + 1].quant = QuantsQ6[i]
         /\ DequantizeQ6[i + 1].scale = Bits(192 + i \div 16, 0, 8)
         /\ DequantizeQ6[i + 1].min = ZeroPoint
  <1>0. i \in 0..(QKK - 1)
    BY DEF QKK
  <1> DEFINE sg == i \div 128
             quarter == (i % 128) \div 32
             l == i % 32
  <1>1. /\ sg \in 0..1 /\ quarter \in 0..3 /\ l \in 0..31
        /\ i \div 16 = 8 * sg + (l \div 16) + 2 * quarter
    OBVIOUS
  <1>3. DequantizeQ6[i + 1] = ValueQ6(sg, quarter, l)
    BY UnpackedQ6
  <1>4. QuantsQ6[i] =
          CASE quarter = 0 -> Low(64 * sg + l) \o Bits(128 + 32 * sg + l, 0, 2)
            [] quarter = 1 -> Low(64 * sg + l + 32) \o Bits(128 + 32 * sg + l, 2, 2)
            [] quarter = 2 -> High(64 * sg + l) \o Bits(128 + 32 * sg + l, 4, 2)
            [] OTHER -> High(64 * sg + l + 32) \o Bits(128 + 32 * sg + l, 6, 2)
    BY <1>0 DEF QuantsQ6
  <1> HIDE DEF sg, quarter, l
  <1>5. 192 + 8 * sg + (l \div 16) + 2 * quarter = 192 + i \div 16
    BY <1>1
  <1>6. QuantsQ6[i] =
          (IF quarter < 2 THEN Low(64 * sg + l + 32 * (quarter % 2))
           ELSE High(64 * sg + l + 32 * (quarter % 2)))
          \o Bits(128 + 32 * sg + l, 2 * quarter, 2)
    <2>1. CASE quarter = 0
      <3>1. quarter % 2 = 0 /\ quarter < 2 /\ 64 * sg + l + 32 * 0 = 64 * sg + l /\ 2 * quarter = 0
        BY <1>1, <2>1
      <3> QED BY <1>4, <2>1, <3>1
    <2>2. CASE quarter = 1
      <3>1. quarter % 2 = 1 /\ quarter < 2 /\ 64 * sg + l + 32 * 1 = 64 * sg + l + 32 /\ 2 * quarter = 2
            /\ quarter # 0
        BY <1>1, <2>2
      <3> QED BY <1>4, <2>2, <3>1
    <2>3. CASE quarter = 2
      <3>1. quarter % 2 = 0 /\ ~(quarter < 2) /\ 64 * sg + l + 32 * 0 = 64 * sg + l /\ 2 * quarter = 4
            /\ quarter # 0 /\ quarter # 1
        BY <1>1, <2>3
      <3> QED BY <1>4, <2>3, <3>1
    <2>4. CASE quarter = 3
      <3>1. quarter % 2 = 1 /\ ~(quarter < 2) /\ 64 * sg + l + 32 * 1 = 64 * sg + l + 32 /\ 2 * quarter = 6
            /\ quarter # 0 /\ quarter # 1 /\ quarter # 2
        BY <1>1, <2>4
      <3> QED BY <1>4, <2>4, <3>1
    <2>5. quarter = 0 \/ quarter = 1 \/ quarter = 2 \/ quarter = 3
      BY <1>1
    <2> QED
      BY <2>1, <2>2, <2>3, <2>4, <2>5
  <1> QED
    <2> DEFINE quant == QuantsQ6[i]
    <2>1. DequantizeQ6[i + 1] = [quant |-> quant, scale |-> Bits(192 + i \div 16, 0, 8), min |-> ZeroPoint]
      BY <1>3, <1>5, <1>6 DEF ValueQ6
    <2> HIDE DEF quant
    <2>2. /\ DequantizeQ6[i + 1].quant = quant
          /\ DequantizeQ6[i + 1].scale = Bits(192 + i \div 16, 0, 8)
          /\ DequantizeQ6[i + 1].min = ZeroPoint
      BY <2>1
    <2> QED BY <2>2 DEF quant

\* Every activation of a block of Q6_K meets the quant and scale of its value.
LEMMA ProductsQ6 ==
  VecDotQ6.products = {<<i, QuantsQ6[i], Bits(192 + i \div 16, 0, 8)>> : i \in 0..255}
  <1> DEFINE product(i) == <<i, QuantsQ6[i], Bits(192 + i \div 16, 0, 8)>>
             laned(g, lane, o) ==
               <<32 * g + 4 * lane + o, QuantsQ6[32 * g + 4 * lane + o],
                 Bits(192 + ScaleQ6(g, lane), 0, 8)>>
  <1>1. VecDotQ6.products = {laned(g, lane, o) : g \in 0..7, lane \in 0..7, o \in 0..3}
    BY DEF VecDotQ6
  <1>2. ASSUME NEW g \in 0..7, NEW lane \in 0..7, NEW o \in 0..3
        PROVE  /\ 32 * g + 4 * lane + o \in 0..255
               /\ laned(g, lane, o) = product(32 * g + 4 * lane + o)
    <2>1. 32 * g + 4 * lane + o \in 0..255 /\ ScaleQ6(g, lane) = (32 * g + 4 * lane + o) \div 16
      BY DEF ScaleQ6
    <2> QED
      BY <2>1
  <1>3. ASSUME NEW i \in 0..255
        PROVE  /\ i \div 32 \in 0..7 /\ (i % 32) \div 4 \in 0..7 /\ i % 4 \in 0..3
               /\ i = 32 * (i \div 32) + 4 * ((i % 32) \div 4) + (i % 4)
    OBVIOUS
  <1> HIDE DEF product, laned
  <1>4. ASSUME NEW i \in 0..255 PROVE product(i) \in VecDotQ6.products
    <2>1. PICK g \in 0..7, lane \in 0..7, o \in 0..3 : i = 32 * g + 4 * lane + o
      BY <1>3
    <2> QED BY <1>1, <1>2, <2>1
  <1>5. ASSUME NEW p \in VecDotQ6.products PROVE \E i \in 0..255 : p = product(i)
    BY <1>1, <1>2
  <1>6. VecDotQ6.products = {product(i) : i \in 0..255}
    BY <1>4, <1>5
  <1> QED
    BY <1>6 DEF product

\* The zero point of a value of Q6_K is taken off with the scale of its sum of 16.
LEMMA MinimaQ6 ==
  VecDotQ6.minima = {<<i, <<ZeroPoint, Bits(192 + i \div 16, 0, 8)>>>> : i \in 0..255}
  <1> DEFINE minimum(i) == <<i, <<ZeroPoint, Bits(192 + i \div 16, 0, 8)>>>>
             sums(g) == {<<i, <<ZeroPoint, Bits(192 + g, 0, 8)>>>> : i \in (16 * g)..(16 * g + 15)}
  <1>1. VecDotQ6.minima = UNION {sums(g) : g \in 0..15}
    BY DEF VecDotQ6
  <1>2. ASSUME NEW g \in 0..15, NEW i \in (16 * g)..(16 * g + 15)
        PROVE  i \in 0..255 /\ i \div 16 = g
    OBVIOUS
  <1>3. ASSUME NEW i \in 0..255
        PROVE  i \div 16 \in 0..15 /\ i \in (16 * (i \div 16))..(16 * (i \div 16) + 15)
    OBVIOUS
  <1>4. ASSUME NEW i \in 0..255 PROVE minimum(i) \in sums(i \div 16)
    BY <1>3
  <1>5. ASSUME NEW g \in 0..15, NEW p \in sums(g) PROVE \E i \in 0..255 : p = minimum(i)
    BY <1>2
  <1>6. VecDotQ6.minima = {minimum(i) : i \in 0..255}
    <2> HIDE DEF minimum, sums
    <2> QED BY <1>1, <1>3, <1>4, <1>5
  <1> QED
    BY <1>6

\* What is taken off with a value: its minimum, or the zero point in its scale.
Least(value) == IF value.min = ZeroPoint THEN <<ZeroPoint, value.scale>> ELSE value.min

\* The values of a block are counted from zero.
LEMMA LastOfBlock == QKK - 1 = 255
  BY DEF QKK

\* Products and minima of a block of 256 quants, scales and minima.
ProductsOf(quant, scale) == {<<i, quant[i], scale[i]>> : i \in 0..255}
MinimaOf(least) == {<<i, least[i]>> : i \in 0..255}
LoadedAs(kind, quant, scale, least) ==
  \A i \in 0..255 : /\ Dequantize(kind)[i + 1].quant = quant[i]
                    /\ Dequantize(kind)[i + 1].scale = scale[i]
                    /\ Least(Dequantize(kind)[i + 1]) = least[i]

\* To multiply as loaded, value by value.
LEMMA DotOfValues ==
  ASSUME NEW kind, NEW quant, NEW scale, NEW least,
         VecDot(kind).products = ProductsOf(quant, scale), VecDot(kind).minima = MinimaOf(least),
         LoadedAs(kind, quant, scale, least)
  PROVE  DotAsLoaded(kind)
  <1>1. QKK - 1 = 255
    BY ONLY LastOfBlock
  <1> DEFINE loaded(i) == <<i, Dequantize(kind)[i + 1].quant, Dequantize(kind)[i + 1].scale>>
             off(i) == <<i, Least(Dequantize(kind)[i + 1])>>
             product(i) == <<i, quant[i], scale[i]>>
             minimum(i) == <<i, least[i]>>
  <1>2. \A i \in 0..255 : loaded(i) = product(i) /\ off(i) = minimum(i)
    BY DEF LoadedAs
  <1>3. {loaded(i) : i \in 0..255} = {product(i) : i \in 0..255}
        /\ {off(i) : i \in 0..255} = {minimum(i) : i \in 0..255}
    <2> HIDE DEF loaded, off, product, minimum
    <2> QED BY ONLY <1>2
  <1>4. /\ VecDot(kind).products = {loaded(i) : i \in 0..255}
        /\ VecDot(kind).minima = {off(i) : i \in 0..255}
    BY <1>3 DEF ProductsOf, MinimaOf
  <1> QED
    BY <1>1, <1>4 DEF DotAsLoaded, Least

\* The blocks of each kind are multiplied as the loader would unpack them.
LEMMA DotsAsLoaded ==
  ASSUME NEW kind \in {"Q4K", "Q5K", "Q6K"}
  PROVE  DotAsLoaded(kind)
  <1>0. QKK - 1 = 255
    BY LastOfBlock
  <1>1. ASSUME NEW i \in 0..255 PROVE i \div 32 \in 0..7
    OBVIOUS
  <1>2. CASE kind = "Q4K"
    <2>1. VecDot(kind) = VecDotQ4 /\ Dequantize(kind) = DequantizeQ4
      BY <1>2 DEF VecDot, Dequantize
    <2>2. ASSUME NEW i \in 0..255
          PROVE  Least(DequantizeQ4[i + 1]) = ScaleMin(i \div 32).min
      <3> DEFINE g == i \div 64
                 half == (i % 64) \div 32
                 l == i % 32
      <3>1. /\ g \in 0..3 /\ half \in {0, 1} /\ l \in 0..31 /\ i = 64 * g + 32 * half + l
            /\ i \div 32 = 2 * g + half
        BY PlaceInBlock
      <3> HIDE DEF g, half, l
      <3> DEFINE nibble == IF half = 0 THEN Low(16 + 32 * g + l) ELSE High(16 + 32 * g + l)
                 scaleMin == ScaleMin(i \div 32)
      <3>2. DequantizeQ4[i + 1] = Value(nibble, scaleMin)
        BY <3>1, ValuesQ4
      <3>3. scaleMin.min # ZeroPoint
        BY <1>1, SameScaleMin
      <3> HIDE DEF nibble, scaleMin
      <3>4. Least(DequantizeQ4[i + 1]) = scaleMin.min
        BY <3>2, <3>3 DEF Value, Least
      <3> QED
        BY <3>4 DEF scaleMin
    <2>3. VecDotQ4.minima = {<<i, ScaleMin(i \div 32).min>> : i \in 0..255}
      BY MinimaOf32 DEF VecDotQ4
    <2> DEFINE quant == [i \in 0..255 |-> DequantizeQ4[i + 1].quant]
               scale == [i \in 0..255 |-> DequantizeQ4[i + 1].scale]
               least == [i \in 0..255 |-> ScaleMin(i \div 32).min]
    <2>4. /\ VecDot(kind).products = {<<i, quant[i], scale[i]>> : i \in 0..255}
          /\ VecDot(kind).minima = {<<i, least[i]>> : i \in 0..255}
      <3> DEFINE P == VecDotQ4.products
      <3>1. P = {<<i, DequantizeQ4[i + 1].quant, DequantizeQ4[i + 1].scale>> : i \in 0..255}
        BY <1>0, ProductsQ4
      <3>2. P = {<<i, quant[i], scale[i]>> : i \in 0..255}
        <4> HIDE DEF P
        <4> QED BY ONLY <3>1
      <3>3. VecDotQ4.minima = {<<i, least[i]>> : i \in 0..255}
        BY ONLY <2>3
      <3> QED
        BY <2>1, <3>2, <3>3
    <2>5. \A i \in 0..255 : /\ Dequantize(kind)[i + 1].quant = quant[i]
                            /\ Dequantize(kind)[i + 1].scale = scale[i]
                            /\ Least(Dequantize(kind)[i + 1]) = least[i]
      BY <2>1, <2>2
    <2> HIDE DEF quant, scale, least
    <2>8. LoadedAs(kind, quant, scale, least)
      BY ONLY <2>4, <2>5 DEF LoadedAs
    <2>9. VecDot(kind).products = ProductsOf(quant, scale) /\ VecDot(kind).minima = MinimaOf(least)
      BY ONLY <2>4, <2>5 DEF ProductsOf, MinimaOf
    <2> QED
      BY <2>8, <2>9, DotOfValues
  <1>3. CASE kind = "Q5K"
    <2>1. VecDot(kind) = VecDotQ5 /\ Dequantize(kind) = DequantizeQ5
      BY <1>3 DEF VecDot, Dequantize
    <2> DEFINE quant == [i \in 0..255 |-> QuantsQ5[i]]
               scale == [i \in 0..255 |-> ScaleMin(i \div 32).scale]
               least == [i \in 0..255 |-> ScaleMin(i \div 32).min]
    <2>2. ASSUME NEW i \in 0..255
          PROVE  /\ Dequantize(kind)[i + 1].quant = quant[i]
                 /\ Dequantize(kind)[i + 1].scale = scale[i]
                 /\ Least(Dequantize(kind)[i + 1]) = least[i]
      <3> DEFINE q == QuantsQ5[i]
                 scaleMin == ScaleMin(i \div 32)
      <3>1. DequantizeQ5[i + 1] = Value(q, scaleMin)
        BY ValuesQ5
      <3>2. scaleMin.min # ZeroPoint
        BY <1>1, SameScaleMin
      <3>3. quant[i] = q /\ scale[i] = scaleMin.scale /\ least[i] = scaleMin.min
        OBVIOUS
      <3> HIDE DEF q, scaleMin, quant, scale, least
      <3> QED
        BY <2>1, <3>1, <3>2, <3>3 DEF Value, Least
    <2>3. /\ VecDot(kind).products = {<<i, quant[i], scale[i]>> : i \in 0..255}
          /\ VecDot(kind).minima = {<<i, least[i]>> : i \in 0..255}
      <3>1. VecDotQ5.products = {<<i, QuantsQ5[i], ScaleMin(i \div 32).scale>> : i \in 0..255}
        BY <1>0 DEF VecDotQ5
      <3> QED
        BY <2>1, <3>1, MinimaQ5
    <2> HIDE DEF quant, scale, least
    <2>8. LoadedAs(kind, quant, scale, least)
      BY ONLY <2>2, <2>3 DEF LoadedAs
    <2>9. VecDot(kind).products = ProductsOf(quant, scale) /\ VecDot(kind).minima = MinimaOf(least)
      BY ONLY <2>2, <2>3 DEF ProductsOf, MinimaOf
    <2> QED
      BY <2>8, <2>9, DotOfValues
  <1>4. CASE kind = "Q6K"
    <2>1. VecDot(kind) = VecDotQ6 /\ Dequantize(kind) = DequantizeQ6
      BY <1>4 DEF VecDot, Dequantize
    <2> DEFINE quant == [i \in 0..255 |-> QuantsQ6[i]]
               scale == [i \in 0..255 |-> Bits(192 + i \div 16, 0, 8)]
               least == [i \in 0..255 |-> <<ZeroPoint, Bits(192 + i \div 16, 0, 8)>>]
    <2>2. \A i \in 0..255 : /\ Dequantize(kind)[i + 1].quant = quant[i]
                            /\ Dequantize(kind)[i + 1].scale = scale[i]
                            /\ Least(Dequantize(kind)[i + 1]) = least[i]
      BY <2>1, ValuesQ6 DEF Least
    <2>3. /\ VecDot(kind).products = {<<i, quant[i], scale[i]>> : i \in 0..255}
          /\ VecDot(kind).minima = {<<i, least[i]>> : i \in 0..255}
      BY <2>1, ProductsQ6, MinimaQ6
    <2> HIDE DEF quant, scale, least
    <2>8. LoadedAs(kind, quant, scale, least)
      BY ONLY <2>2, <2>3 DEF LoadedAs
    <2>9. VecDot(kind).products = ProductsOf(quant, scale) /\ VecDot(kind).minima = MinimaOf(least)
      BY ONLY <2>2, <2>3 DEF ProductsOf, MinimaOf
    <2> QED
      BY <2>8, <2>9, DotOfValues
  <1> QED
    BY <1>2, <1>3, <1>4

\* The bits of a run, and of the quants, scales and minima of the values of a block.
Held(s) == {s[i] : i \in DOMAIN s}
AllHeld(kind, d) ==
  (UNION {Held(d[i].quant) : i \in DOMAIN d})
  \cup (UNION {Held(f) : f \in {d[i].scale : i \in DOMAIN d}
                              \cup (IF kind = "Q6K" THEN {} ELSE {d[i].min : i \in DOMAIN d})})

\* The places of a byte from one to another.
Places(byte, first, last) == {<<byte, p>> : p \in first..last}

\* The bits of a run of bits of a byte.
LEMMA HeldBits ==
  ASSUME NEW byte \in Nat, NEW first \in Nat, NEW n \in Nat, NEW last, last = first + n - 1
  PROVE  /\ Held(Bits(byte, first, n)) = Places(byte, first, last)
         /\ Bits(byte, first, n) \in Seq(Nat \X Nat)
  <1>1. DOMAIN Bits(byte, first, n) = 1..n
        /\ \A b \in 1..n : Bits(byte, first, n)[b] = <<byte, first + b - 1>>
    BY DEF Bits
  <1>2. ASSUME NEW p \in first..last
        PROVE  p - first + 1 \in 1..n /\ first + (p - first + 1) - 1 = p
    OBVIOUS
  <1>3. ASSUME NEW b \in 1..n PROVE first + b - 1 \in first..last /\ first + b - 1 \in Nat
    OBVIOUS
  <1>4. Held(Bits(byte, first, n)) = Places(byte, first, last)
    <2> DEFINE s == Bits(byte, first, n)
    <2>1. ASSUME NEW b \in DOMAIN s PROVE s[b] \in Places(byte, first, last)
      BY <1>1, <1>3 DEF Places
    <2>2. ASSUME NEW p \in first..last PROVE \E b \in DOMAIN s : s[b] = <<byte, p>>
      BY <1>1, <1>2
    <2> HIDE DEF s
    <2>3. Held(s) = Places(byte, first, last)
      BY <2>1, <2>2 DEF Held, Places
    <2> QED BY <2>3 DEF s
  <1>5. Bits(byte, first, n) \in Seq(Nat \X Nat)
    BY <1>3 DEF Bits
  <1> QED
    BY <1>4, <1>5

\* The bits of two runs one after the other.
LEMMA HeldBoth ==
  ASSUME NEW S, NEW s \in Seq(S), NEW t \in Seq(S)
  PROVE  Held(s \o t) = Held(s) \cup Held(t)
  <1>1. /\ DOMAIN (s \o t) = 1..(Len(s) + Len(t)) /\ DOMAIN s = 1..Len(s) /\ DOMAIN t = 1..Len(t)
        /\ Len(s) \in Nat /\ Len(t) \in Nat
        /\ \A i \in 1..(Len(s) + Len(t)) :
             (s \o t)[i] = IF i <= Len(s) THEN s[i] ELSE t[i - Len(s)]
    OBVIOUS
  <1>2. ASSUME NEW i \in DOMAIN (s \o t) PROVE (s \o t)[i] \in Held(s) \cup Held(t)
    BY <1>1 DEF Held
  <1>3. ASSUME NEW i \in DOMAIN s PROVE s[i] \in Held(s \o t)
    <2>1. i \in 1..(Len(s) + Len(t)) /\ i <= Len(s)
      BY <1>1
    <2> QED BY <1>1, <2>1 DEF Held
  <1>4. ASSUME NEW i \in DOMAIN t PROVE t[i] \in Held(s \o t)
    <2>1. i + Len(s) \in 1..(Len(s) + Len(t)) /\ ~(i + Len(s) <= Len(s)) /\ i + Len(s) - Len(s) = i
      BY <1>1
    <2> QED BY <1>1, <2>1 DEF Held
  <1> QED
    BY <1>2, <1>3, <1>4 DEF Held

\* Two runs of bits, of two bytes.
LEMMA HeldRuns ==
  ASSUME NEW byte \in Nat, NEW first \in Nat, NEW n \in Nat, NEW last, last = first + n - 1,
         NEW after \in Nat, NEW from \in Nat, NEW m \in Nat, NEW to, to = from + m - 1
  PROVE  Held(Bits(byte, first, n) \o Bits(after, from, m))
           = Places(byte, first, last) \cup Places(after, from, to)
  <1> DEFINE s == Bits(byte, first, n)
             t == Bits(after, from, m)
  <1>1. Held(s) = Places(byte, first, last) /\ s \in Seq(Nat \X Nat)
    BY HeldBits
  <1>2. Held(t) = Places(after, from, to) /\ t \in Seq(Nat \X Nat)
    BY HeldBits
  <1> HIDE DEF s, t
  <1>3. Held(s \o t) = Held(s) \cup Held(t)
    BY <1>1, <1>2, HeldBoth
  <1>4. Held(s \o t) = Places(byte, first, last) \cup Places(after, from, to)
    BY ONLY <1>1, <1>2, <1>3, Zenon
  <1> QED
    BY <1>4 DEF s, t

\* The halves of a byte, by themselves and with a run of another after them.
LEMMA HeldHalves ==
  ASSUME NEW byte \in Nat
  PROVE  /\ Held(Low(byte)) = Places(byte, 0, 3) /\ Held(High(byte)) = Places(byte, 4, 7)
         /\ \A after \in Nat, from \in Nat, m \in Nat :
              /\ Held(Low(byte) \o Bits(after, from, m))
                   = Places(byte, 0, 3) \cup Places(after, from, from + m - 1)
              /\ Held(High(byte) \o Bits(after, from, m))
                   = Places(byte, 4, 7) \cup Places(after, from, from + m - 1)
  <1>1. 0 \in Nat /\ 4 \in Nat /\ 3 = 0 + 4 - 1 /\ 7 = 4 + 4 - 1
    OBVIOUS
  <1>2. Low(byte) = Bits(byte, 0, 4) /\ High(byte) = Bits(byte, 4, 4)
    BY DEF Low, High
  <1>3. Held(Bits(byte, 0, 4)) = Places(byte, 0, 3) /\ Held(Bits(byte, 4, 4)) = Places(byte, 4, 7)
    BY <1>1, HeldBits
  <1>4. ASSUME NEW after \in Nat, NEW from \in Nat, NEW m \in Nat
        PROVE  /\ Held(Bits(byte, 0, 4) \o Bits(after, from, m))
                    = Places(byte, 0, 3) \cup Places(after, from, from + m - 1)
               /\ Held(Bits(byte, 4, 4) \o Bits(after, from, m))
                    = Places(byte, 4, 7) \cup Places(after, from, from + m - 1)
    <2> DEFINE to == from + m - 1
    <2>1. byte \in Nat /\ to = from + m - 1
      OBVIOUS
    <2> HIDE DEF to
    <2>2. Held(Bits(byte, 0, 4) \o Bits(after, from, m)) = Places(byte, 0, 3) \cup Places(after, from, to)
      BY ONLY <1>1, <1>4, <2>1, HeldRuns, SMTT(20)
    <2>3. Held(Bits(byte, 4, 4) \o Bits(after, from, m)) = Places(byte, 4, 7) \cup Places(after, from, to)
      BY ONLY <1>1, <1>4, <2>1, HeldRuns, SMTT(20)
    <2> QED BY <2>2, <2>3 DEF to
  <1> QED
    BY <1>2, <1>3, <1>4

ScaleMinHeld(k) == Held(ScaleMin(k).scale) \cup Held(ScaleMin(k).min)
\* Each bit of the twelve bytes of scales and minima is of one of them.
LEMMA ScaleMinBits ==
  /\ \A k \in 0..7 : \A b \in ScaleMinHeld(k) : b \in (4..15) \X (0..7)
  /\ \A b \in (4..15) \X (0..7) : \E k \in 0..7 : b \in ScaleMinHeld(k)
  <1>1. ASSUME NEW k \in 0..3
        PROVE  ScaleMinHeld(k) = Places(4 + k, 0, 5) \cup Places(8 + k, 0, 5)
    <2>1. k \in Nat /\ k < 4 /\ 4 + k \in Nat /\ 8 + k \in Nat /\ (4 + k) + 4 = 8 + k
      OBVIOUS
    <2>2. ScaleMin(k) = [scale |-> Bits(4 + k, 0, 6), min |-> Bits(8 + k, 0, 6)]
      BY <2>1 DEF ScaleMin
    <2>3. 0 \in Nat /\ 6 \in Nat /\ 5 = 0 + 6 - 1
      OBVIOUS
    <2>4. /\ Held(Bits(4 + k, 0, 6)) = Places(4 + k, 0, 5)
          /\ Held(Bits(8 + k, 0, 6)) = Places(8 + k, 0, 5)
      BY <2>1, <2>3, HeldBits
    <2> QED BY <2>2, <2>4 DEF ScaleMinHeld
  <1>2. ASSUME NEW k \in 4..7
        PROVE  ScaleMinHeld(k) = (Places(8 + k, 0, 3) \cup Places(k, 6, 7))
                                 \cup (Places(8 + k, 4, 7) \cup Places(4 + k, 6, 7))
    <2>1. /\ k \in Nat /\ ~(k < 4) /\ 4 + k \in Nat /\ 8 + k \in Nat
          /\ (4 + k) + 4 = 8 + k /\ (4 + k) - 4 = k
      OBVIOUS
    <2>2. ScaleMin(k) = [scale |-> Low(8 + k) \o Bits(k, 6, 2),
                         min |-> High(8 + k) \o Bits(4 + k, 6, 2)]
      BY <2>1 DEF ScaleMin
    <2>3. 6 \in Nat /\ 2 \in Nat /\ 6 + 2 - 1 = 7
      OBVIOUS
    <2>4. Held(Low(8 + k) \o Bits(k, 6, 2)) = Places(8 + k, 0, 3) \cup Places(k, 6, 6 + 2 - 1)
      BY <2>1, <2>3, HeldHalves
    <2>5. Held(High(8 + k) \o Bits(4 + k, 6, 2)) = Places(8 + k, 4, 7) \cup Places(4 + k, 6, 6 + 2 - 1)
      BY <2>1, <2>3, HeldHalves
    <2> QED BY <2>2, <2>3, <2>4, <2>5 DEF ScaleMinHeld
  <1>3. ASSUME NEW k \in 0..7, NEW b \in ScaleMinHeld(k) PROVE b \in (4..15) \X (0..7)
    <2>1. CASE k \in 0..3
      BY <1>1, <1>3, <2>1 DEF Places
    <2>2. CASE k \in 4..7
      BY <1>2, <1>3, <2>2 DEF Places
    <2> QED BY <2>1, <2>2
  <1>4. ASSUME NEW byte \in 4..15, NEW p \in 0..7
        PROVE  \E k \in 0..7 : <<byte, p>> \in ScaleMinHeld(k)
    <2>1. CASE byte \in 4..7 /\ p \in 0..5
      <3>1. byte - 4 \in 0..3 /\ byte - 4 \in 0..7 /\ 4 + (byte - 4) = byte
        BY <2>1
      <3> QED BY <1>1, <2>1, <3>1 DEF Places
    <2>2. CASE byte \in 4..7 /\ p \in 6..7
      <3>1. byte \in 0..7
        BY <2>2
      <3> QED BY <1>2, <2>2, <3>1 DEF Places
    <2>3. CASE byte \in 8..11 /\ p \in 0..5
      <3>1. byte - 8 \in 0..3 /\ byte - 8 \in 0..7 /\ 8 + (byte - 8) = byte
        BY <2>3
      <3> QED BY <1>1, <2>3, <3>1 DEF Places
    <2>4. CASE byte \in 8..11 /\ p \in 6..7
      <3>1. byte - 4 \in 4..7 /\ byte - 4 \in 0..7 /\ 4 + (byte - 4) = byte
        BY <2>4
      <3> QED BY <1>2, <2>4, <3>1 DEF Places
    <2>5. CASE byte \in 12..15
      <3>1. byte - 8 \in 4..7 /\ byte - 8 \in 0..7 /\ 8 + (byte - 8) = byte
        BY <2>5
      <3>2. p \in 0..3 \/ p \in 4..7
        OBVIOUS
      <3> QED BY <1>2, <3>1, <3>2 DEF Places
    <2> QED BY <2>1, <2>2, <2>3, <2>4, <2>5
  <1>6. ASSUME NEW b \in (4..15) \X (0..7) PROVE \E k \in 0..7 : b \in ScaleMinHeld(k)
    <2>1. PICK byte \in 4..15, p \in 0..7 : b = <<byte, p>>
      <3> HIDE DEF ScaleMinHeld
      <3> QED OBVIOUS
    <2> QED BY <1>4, <2>1
  <1> QED
    BY ONLY <1>3, <1>6

\* Bits that fill the bytes of a block from one to another, eight for a byte.
LEMMA ApartInBlock ==
  ASSUME NEW kind, NEW first \in Nat, NEW last \in Nat, first <= last, last < BlockBytes(kind),
         BlockBytes(kind) \in Nat, AllHeld(kind, Dequantize(kind)) = (first..last) \X (0..7),
         (last - first + 1) * 8 = QKK * (IF kind = "Q4K" THEN 4 ELSE IF kind = "Q5K" THEN 5 ELSE 6)
                                  + (IF kind = "Q6K" THEN 128 ELSE 96)
  PROVE  BitsApart(kind)
  <1> DEFINE box == (first..last) \X (0..7)
             count == QKK * (IF kind = "Q4K" THEN 4 ELSE IF kind = "Q5K" THEN 5 ELSE 6)
                      + (IF kind = "Q6K" THEN 128 ELSE 96)
  <1>1. /\ IsFiniteSet(first..last) /\ Cardinality(first..last) = last - first + 1
        /\ IsFiniteSet(0..7) /\ Cardinality(0..7) = 8
    <2>1. first \in Int /\ last \in Int /\ 0 \in Int /\ 7 \in Int /\ ~(first > last) /\ ~(0 > 7) /\ 7 - 0 + 1 = 8
      OBVIOUS
    <2>2. /\ IsFiniteSet(first..last) /\ Cardinality(first..last) = last - first + 1
          /\ IsFiniteSet(0..7) /\ Cardinality(0..7) = 7 - 0 + 1
      BY ONLY <2>1, FS_Interval
    <2> QED BY ONLY <2>1, <2>2
  <1>2. Cardinality(box) = (last - first + 1) * 8
    <2>1. Cardinality(box) = Cardinality(first..last) * Cardinality(0..7)
      BY ONLY <1>1, FS_Product
    <2> QED BY ONLY <1>1, <2>1
  <1>3. \A b \in box : b[1] < BlockBytes(kind)
    OBVIOUS
  <1> HIDE DEF box, count
  <1>4. AllHeld(kind, Dequantize(kind)) = box /\ Cardinality(box) = count
    BY <1>2 DEF box, count
  <1>5. Cardinality(AllHeld(kind, Dequantize(kind))) = count /\ \A b \in AllHeld(kind, Dequantize(kind)) : b[1] < BlockBytes(kind)
    BY <1>3, <1>4
  <1> QED
    BY <1>5 DEF BitsApart, AllHeld, Held, count

\* Scales and minima in bytes 4 to 15, and quants in those after.
FromFour(d, last) ==
  /\ DOMAIN d = 1..256
  /\ \A i \in 0..255 : /\ d[i + 1].scale = ScaleMin(i \div 32).scale
                       /\ d[i + 1].min = ScaleMin(i \div 32).min
                       /\ Held(d[i + 1].quant) \subseteq (16..last) \X (0..7)
  /\ \A b \in (16..last) \X (0..7) : \E i \in 0..255 : b \in Held(d[i + 1].quant)
\* Values laid out so have the bits of all those bytes.
LEMMA HeldFromFour ==
  ASSUME NEW kind, kind # "Q6K", NEW last \in Nat, last >= 16, NEW d, FromFour(d, last)
  PROVE  AllHeld(kind, d) = (4..last) \X (0..7)
  <1> USE DEF FromFour
  <1>0. kind # "Q6K"
    OBVIOUS
  <1> DEFINE box == (4..last) \X (0..7)
  <1>1. (16..last) \X (0..7) \subseteq box /\ (4..15) \X (0..7) \subseteq box
        /\ \A b \in box : b \in (16..last) \X (0..7) \/ b \in (4..15) \X (0..7)
    <2>1. last \in Nat /\ last >= 16
      OBVIOUS
    <2> QED BY ONLY <2>1
  <1> HIDE DEF box
  <1>2. ASSUME NEW b \in AllHeld(kind, d)
        PROVE  \E i \in DOMAIN d : b \in Held(d[i].quant) \/ b \in Held(d[i].scale) \/ b \in Held(d[i].min)
    <2> DEFINE scales == {d[i].scale : i \in DOMAIN d}
               mins == {d[i].min : i \in DOMAIN d}
               quants == UNION {Held(d[i].quant) : i \in DOMAIN d}
    <2>1. AllHeld(kind, d) = quants \cup (UNION {Held(f) : f \in scales \cup mins})
      BY ONLY <1>0 DEF AllHeld
    <2>2. CASE b \in quants
      BY ONLY <2>2
    <2>3. CASE b \in UNION {Held(f) : f \in scales \cup mins}
      <3>1. PICK f \in scales \cup mins : b \in Held(f)
        <4> HIDE DEF scales, mins
        <4> QED BY ONLY <2>3
      <3> QED BY ONLY <3>1
    <2>4. b \in quants \/ b \in UNION {Held(f) : f \in scales \cup mins}
      <3> HIDE DEF scales, mins, quants
      <3> QED BY ONLY <1>2, <2>1
    <2> QED BY ONLY <2>2, <2>3, <2>4
  <1>3. ASSUME NEW i \in DOMAIN d,
               NEW b, b \in Held(d[i].quant) \/ b \in Held(d[i].scale) \/ b \in Held(d[i].min)
        PROVE  b \in AllHeld(kind, d)
    <2> DEFINE scales == {d[n].scale : n \in DOMAIN d}
               mins == {d[n].min : n \in DOMAIN d}
               quants == {Held(d[n].quant) : n \in DOMAIN d}
               fields == {Held(f) : f \in scales \cup mins}
    <2>1. AllHeld(kind, d) = (UNION quants) \cup (UNION fields)
      BY ONLY <1>0 DEF AllHeld
    <2>2. d[i].scale \in scales /\ d[i].min \in mins /\ Held(d[i].quant) \in quants
      OBVIOUS
    <2> HIDE DEF scales, mins, quants
    <2>3. Held(d[i].scale) \in fields /\ Held(d[i].min) \in fields
      BY ONLY <2>2
    <2> HIDE DEF fields
    <2> DEFINE q == Held(d[i].quant)
               sc == Held(d[i].scale)
               mi == Held(d[i].min)
    <2>4. q \in quants /\ sc \in fields /\ mi \in fields /\ (b \in q \/ b \in sc \/ b \in mi)
      BY ONLY <1>3, <2>2, <2>3
    <2> HIDE DEF q, sc, mi
    <2>5. q \subseteq AllHeld(kind, d) /\ sc \subseteq AllHeld(kind, d) /\ mi \subseteq AllHeld(kind, d)
      BY ONLY <2>1, <2>4
    <2> QED BY ONLY <2>4, <2>5
  <1>4. ASSUME NEW i \in DOMAIN d PROVE i - 1 \in 0..255 /\ (i - 1) + 1 = i
    <2>1. i \in 1..256
      BY <1>4
    <2> QED BY ONLY <2>1
  <1>5. ASSUME NEW i \in 0..255 PROVE i \div 32 \in 0..7 /\ i + 1 \in DOMAIN d
    <2>1. DOMAIN d = 1..256
      OBVIOUS
    <2> QED BY ONLY <1>5, <2>1
  <1>6. ASSUME NEW k \in 0..7 PROVE 32 * k \in 0..255 /\ (32 * k) \div 32 = k
    BY ONLY <1>6
  <1>7. ASSUME NEW b \in AllHeld(kind, d) PROVE b \in box
    <2>1. PICK i \in 0..255 : \/ b \in Held(d[i + 1].quant) \/ b \in Held(d[i + 1].scale)
                              \/ b \in Held(d[i + 1].min)
      <3>1. PICK i \in DOMAIN d : b \in Held(d[i].quant) \/ b \in Held(d[i].scale) \/ b \in Held(d[i].min)
        BY ONLY <1>2, <1>7
      <3>2. i - 1 \in 0..255 /\ (i - 1) + 1 = i
        BY ONLY <1>4, <3>1
      <3> QED BY ONLY <3>1, <3>2
    <2>2. CASE b \in Held(d[i + 1].quant)
      <3>1. Held(d[i + 1].quant) \subseteq (16..last) \X (0..7)
        OBVIOUS
      <3> QED BY ONLY <1>1, <2>2, <3>1
    <2>3. CASE b \in Held(d[i + 1].scale) \/ b \in Held(d[i + 1].min)
      <3>1. b \in ScaleMinHeld(i \div 32)
        BY <2>3 DEF ScaleMinHeld
      <3>2. b \in (4..15) \X (0..7)
        <4>1. i \div 32 \in 0..7
          BY <1>5
        <4> QED BY ONLY <3>1, <4>1, ScaleMinBits
      <3> QED BY <1>1, <3>2
    <2> QED BY <2>1, <2>2, <2>3
  <1>8. ASSUME NEW b \in box PROVE b \in AllHeld(kind, d)
    <2>1. CASE b \in (16..last) \X (0..7)
      <3>1. PICK i \in 0..255 : b \in Held(d[i + 1].quant)
        BY <2>1
      <3> QED BY <1>3, <1>5, <3>1
    <2>2. CASE b \in (4..15) \X (0..7)
      <3>1. PICK k \in 0..7 : b \in ScaleMinHeld(k)
        BY <2>2, ScaleMinBits
      <3>2. d[32 * k + 1].scale = ScaleMin(k).scale /\ d[32 * k + 1].min = ScaleMin(k).min
        BY <1>6
      <3>3. b \in Held(d[32 * k + 1].scale) \/ b \in Held(d[32 * k + 1].min)
        BY <3>1, <3>2 DEF ScaleMinHeld
      <3>4. 32 * k + 1 \in DOMAIN d
        BY <1>5, <1>6
      <3> QED BY <1>3, <3>3, <3>4
    <2> QED BY <1>1, <2>1, <2>2
  <1> QED
    BY <1>7, <1>8 DEF box

\* Bits of a place among those of its byte.
LEMMA InPlaces ==
  ASSUME NEW byte, NEW first \in Nat, NEW last \in Nat, NEW p \in first..last
  PROVE  <<byte, p>> \in Places(byte, first, last)
  BY DEF Places

\* Places of a byte are among the bits of a range of bytes.
LEMMA PlacesInBox ==
  ASSUME NEW low \in Nat, NEW high \in Nat, NEW byte \in low..high,
         NEW first \in 0..7, NEW last \in 0..7
  PROVE  Places(byte, first, last) \subseteq (low..high) \X (0..7)
  BY DEF Places

\* Q4_K: the nibbles fill bytes 16 to 143.
LEMMA BitsApartQ4 == BitsApart("Q4K")
  <1>1. Dequantize("Q4K") = DequantizeQ4 /\ BlockBytes("Q4K") = 144
    BY DEF Dequantize, BlockBytes
  <1>2. DOMAIN DequantizeQ4 = 1..256
    BY DEF DequantizeQ4, QKK
  <1>3. ASSUME NEW i \in 0..255
        PROVE  /\ DequantizeQ4[i + 1].scale = ScaleMin(i \div 32).scale
               /\ DequantizeQ4[i + 1].min = ScaleMin(i \div 32).min
               /\ Held(DequantizeQ4[i + 1].quant)
                    = IF (i % 64) \div 32 = 0 THEN Places(16 + 32 * (i \div 64) + (i % 32), 0, 3)
                      ELSE Places(16 + 32 * (i \div 64) + (i % 32), 4, 7)
    <2> DEFINE g == i \div 64
               half == (i % 64) \div 32
               l == i % 32
    <2>1. /\ g \in 0..3 /\ half \in {0, 1} /\ l \in 0..31 /\ i = 64 * g + 32 * half + l
          /\ i \div 32 = 2 * g + half
      BY PlaceInBlock
    <2> HIDE DEF g, half, l
    <2> DEFINE nibble == IF half = 0 THEN Low(16 + 32 * g + l) ELSE High(16 + 32 * g + l)
               scaleMin == ScaleMin(i \div 32)
    <2>2. DequantizeQ4[i + 1] = Value(nibble, scaleMin)
      BY <2>1, ValuesQ4
    <2>3. 16 + 32 * g + l \in Nat
      BY <2>1
    <2>4. Held(nibble) = IF half = 0 THEN Places(16 + 32 * g + l, 0, 3) ELSE Places(16 + 32 * g + l, 4, 7)
      BY <2>3, HeldHalves
    <2> HIDE DEF nibble, scaleMin
    <2>5. /\ DequantizeQ4[i + 1].quant = nibble
          /\ DequantizeQ4[i + 1].scale = scaleMin.scale /\ DequantizeQ4[i + 1].min = scaleMin.min
      BY <2>2 DEF Value
    <2> QED
      BY <2>4, <2>5 DEF g, half, l, scaleMin
  <1>4. ASSUME NEW i \in 0..255
        PROVE  Held(DequantizeQ4[i + 1].quant) \subseteq (16..143) \X (0..7)
    <2>1. 16 + 32 * (i \div 64) + (i % 32) \in 16..143
      OBVIOUS
    <2> DEFINE byte == 16 + 32 * (i \div 64) + (i % 32)
               box == (16..143) \X (0..7)
    <2>2. 16 \in Nat /\ 143 \in Nat /\ 0 \in 0..7 /\ 3 \in 0..7 /\ 4 \in 0..7 /\ 7 \in 0..7
      OBVIOUS
    <2> HIDE DEF byte
    <2>3. Places(byte, 0, 3) \subseteq box /\ Places(byte, 4, 7) \subseteq box
      BY <2>1, <2>2, PlacesInBox DEF byte
    <2> HIDE DEF box
    <2>4. Held(DequantizeQ4[i + 1].quant) = Places(byte, 0, 3)
          \/ Held(DequantizeQ4[i + 1].quant) = Places(byte, 4, 7)
      BY <1>3 DEF byte
    <2>5. Held(DequantizeQ4[i + 1].quant) \subseteq box
      BY ONLY <2>3, <2>4
    <2> QED BY <2>5 DEF box
  <1>5. ASSUME NEW byte \in 16..143, NEW p \in 0..7
        PROVE  \E i \in 0..255 : <<byte, p>> \in Held(DequantizeQ4[i + 1].quant)
    <2> DEFINE g == (byte - 16) \div 32
               l == (byte - 16) % 32
               half == IF p < 4 THEN 0 ELSE 1
               i == 64 * g + 32 * half + l
    <2>1. g \in 0..3 /\ half \in {0, 1} /\ l \in 0..31 /\ 16 + 32 * g + l = byte
      OBVIOUS
    <2>2. i \in 0..255 /\ i \div 64 = g /\ (i % 64) \div 32 = half /\ i % 32 = l
      <3> HIDE DEF g, l, half
      <3> QED BY ONLY <2>1, BlockPlace
    <2> HIDE DEF g, l, i
    <2>3. Held(DequantizeQ4[i + 1].quant) = IF half = 0 THEN Places(byte, 0, 3) ELSE Places(byte, 4, 7)
      BY <1>3, <2>1, <2>2
    <2>4. (half = 0 /\ p \in 0..3) \/ (half # 0 /\ p \in 4..7)
      OBVIOUS
    <2>5. <<byte, p>> \in Held(DequantizeQ4[i + 1].quant)
      BY <2>3, <2>4, InPlaces
    <2> QED BY <2>2, <2>5
  <1>6. AllHeld("Q4K", Dequantize("Q4K")) = (4..143) \X (0..7)
    <2>1. ASSUME NEW b \in (16..143) \X (0..7)
          PROVE  \E i \in 0..255 : b \in Held(DequantizeQ4[i + 1].quant)
      <3>1. PICK byte \in 16..143, p \in 0..7 : b = <<byte, p>>
        OBVIOUS
      <3> QED BY <1>5, <3>1
    <2>2. FromFour(DequantizeQ4, 143)
      BY ONLY <1>2, <1>3, <1>4, <2>1 DEF FromFour
    <2>3. 143 \in Nat /\ 143 >= 16 /\ "Q4K" # "Q6K"
      OBVIOUS
    <2>4. AllHeld("Q4K", DequantizeQ4) = (4..143) \X (0..7)
      BY ONLY <2>2, <2>3, HeldFromFour
    <2> QED BY ONLY <1>1, <2>4
  <1>7. 4 \in Nat /\ 143 \in Nat /\ 4 <= 143 /\ 143 < BlockBytes("Q4K") /\ BlockBytes("Q4K") \in Nat
        /\ (143 - 4 + 1) * 8 = 256 * 4 + 96
    BY ONLY <1>1
  <1>8. (143 - 4 + 1) * 8 = QKK * (IF "Q4K" = "Q4K" THEN 4 ELSE IF "Q4K" = "Q5K" THEN 5 ELSE 6)
                             + (IF "Q4K" = "Q6K" THEN 128 ELSE 96)
    BY <1>7 DEF QKK
  <1> QED
    BY ONLY <1>6, <1>7, <1>8, ApartInBlock

\* Q5_K: the fifth bits fill bytes 16 to 47, the nibbles 48 to 175.
LEMMA BitsApartQ5 == BitsApart("Q5K")
  <1>1. Dequantize("Q5K") = DequantizeQ5 /\ BlockBytes("Q5K") = 176
    BY DEF Dequantize, BlockBytes
  <1>2. DOMAIN DequantizeQ5 = 1..256
    BY DEF DequantizeQ5, QKK
  <1>3. ASSUME NEW i \in 0..255
        PROVE  /\ DequantizeQ5[i + 1].scale = ScaleMin(i \div 32).scale
               /\ DequantizeQ5[i + 1].min = ScaleMin(i \div 32).min
               /\ Held(DequantizeQ5[i + 1].quant)
                    = (IF (i % 64) \div 32 = 0 THEN Places(48 + 32 * (i \div 64) + (i % 32), 0, 3)
                       ELSE Places(48 + 32 * (i \div 64) + (i % 32), 4, 7))
                      \cup Places(16 + (i % 32), i \div 32, i \div 32)
    <2> DEFINE g == i \div 64
               half == (i % 64) \div 32
               l == i % 32
               k == i \div 32
    <2>1. /\ g \in 0..3 /\ half \in {0, 1} /\ l \in 0..31
          /\ k = 2 * g + half /\ k \in Nat /\ k + 1 - 1 = k /\ 1 \in Nat
      BY PlaceInBlock
    <2>0. i \in 0..(QKK - 1)
      BY DEF QKK
    <2>2. QuantsQ5[i] = (IF half = 0 THEN Low(48 + 32 * g + l) ELSE High(48 + 32 * g + l))
                        \o Bits(16 + l, 2 * g + half, 1)
      BY <2>0 DEF QuantsQ5, HighBit
    <2> DEFINE quant == QuantsQ5[i]
               scaleMin == ScaleMin(k)
    <2>3. DequantizeQ5[i + 1] = Value(quant, scaleMin)
      BY ValuesQ5
    <2> HIDE DEF g, half, l, k, quant, scaleMin
    <2>4. 48 + 32 * g + l \in Nat /\ 16 + l \in Nat
      BY <2>1
    <2>5. /\ Held(Low(48 + 32 * g + l) \o Bits(16 + l, k, 1))
               = Places(48 + 32 * g + l, 0, 3) \cup Places(16 + l, k, k)
          /\ Held(High(48 + 32 * g + l) \o Bits(16 + l, k, 1))
               = Places(48 + 32 * g + l, 4, 7) \cup Places(16 + l, k, k)
      <3>1. \A after \in Nat, from \in Nat, m \in Nat :
              /\ Held(Low(48 + 32 * g + l) \o Bits(after, from, m))
                   = Places(48 + 32 * g + l, 0, 3) \cup Places(after, from, from + m - 1)
              /\ Held(High(48 + 32 * g + l) \o Bits(after, from, m))
                   = Places(48 + 32 * g + l, 4, 7) \cup Places(after, from, from + m - 1)
        BY <2>4, HeldHalves
      <3> QED BY ONLY <2>1, <2>4, <3>1
    <2>6. Held(quant) = (IF half = 0 THEN Places(48 + 32 * g + l, 0, 3) ELSE Places(48 + 32 * g + l, 4, 7))
                        \cup Places(16 + l, k, k)
      <3>1. quant = (IF half = 0 THEN Low(48 + 32 * g + l) ELSE High(48 + 32 * g + l)) \o Bits(16 + l, k, 1)
        BY <2>1, <2>2 DEF quant
      <3>2. CASE half = 0
        BY <2>5, <3>1, <3>2
      <3>3. CASE half # 0
        BY <2>5, <3>1, <3>3
      <3> QED BY <3>2, <3>3
    <2>7. /\ DequantizeQ5[i + 1].quant = quant
          /\ DequantizeQ5[i + 1].scale = scaleMin.scale /\ DequantizeQ5[i + 1].min = scaleMin.min
      BY <2>3 DEF Value
    <2> QED
      BY <2>6, <2>7 DEF g, half, l, k, scaleMin
  <1>4. ASSUME NEW i \in 0..255
        PROVE  Held(DequantizeQ5[i + 1].quant) \subseteq (16..175) \X (0..7)
    <2>1. /\ 48 + 32 * (i \div 64) + (i % 32) \in 16..175 /\ 16 + (i % 32) \in 16..175
          /\ i \div 32 \in 0..7
      OBVIOUS
    <2> DEFINE byte == 48 + 32 * (i \div 64) + (i % 32)
               after == 16 + (i % 32)
               k == i \div 32
               box == (16..175) \X (0..7)
    <2>2. 16 \in Nat /\ 175 \in Nat /\ 0 \in 0..7 /\ 3 \in 0..7 /\ 4 \in 0..7 /\ 7 \in 0..7
      OBVIOUS
    <2> HIDE DEF byte, after, k
    <2>3. /\ Places(byte, 0, 3) \subseteq box /\ Places(byte, 4, 7) \subseteq box
          /\ Places(after, k, k) \subseteq box
      <3>1. byte \in 16..175 /\ after \in 16..175 /\ k \in 0..7
        BY <2>1 DEF byte, after, k
      <3>2. Places(byte, 0, 3) \subseteq box
        BY ONLY <2>2, <3>1, PlacesInBox
      <3>3. Places(byte, 4, 7) \subseteq box
        BY ONLY <2>2, <3>1, PlacesInBox
      <3>4. Places(after, k, k) \subseteq box
        BY ONLY <2>2, <3>1, PlacesInBox
      <3> QED BY ONLY <3>2, <3>3, <3>4
    <2> HIDE DEF box
    <2>4. Held(DequantizeQ5[i + 1].quant) = Places(byte, 0, 3) \cup Places(after, k, k)
          \/ Held(DequantizeQ5[i + 1].quant) = Places(byte, 4, 7) \cup Places(after, k, k)
      BY <1>3 DEF byte, after, k
    <2>5. Held(DequantizeQ5[i + 1].quant) \subseteq box
      BY ONLY <2>3, <2>4
    <2> QED BY <2>5 DEF box
  <1>5. ASSUME NEW byte \in 16..175, NEW p \in 0..7
        PROVE  \E i \in 0..255 : <<byte, p>> \in Held(DequantizeQ5[i + 1].quant)
    <2>1. CASE byte \in 48..175
      <3> DEFINE g == (byte - 48) \div 32
                 l == (byte - 48) % 32
                 half == IF p < 4 THEN 0 ELSE 1
                 i == 64 * g + 32 * half + l
      <3>1. g \in 0..3 /\ half \in {0, 1} /\ l \in 0..31 /\ 48 + 32 * g + l = byte
        BY <2>1
      <3>2. i \in 0..255 /\ i \div 64 = g /\ (i % 64) \div 32 = half /\ i % 32 = l
        <4> HIDE DEF g, l, half
        <4> QED BY ONLY <3>1, BlockPlace
      <3> HIDE DEF g, l, i
      <3>3. (IF half = 0 THEN Places(byte, 0, 3) ELSE Places(byte, 4, 7))
              \subseteq Held(DequantizeQ5[i + 1].quant)
        BY <1>3, <3>1, <3>2
      <3>4. (half = 0 /\ p \in 0..3) \/ (half # 0 /\ p \in 4..7)
        OBVIOUS
      <3>5. <<byte, p>> \in Held(DequantizeQ5[i + 1].quant)
        BY <3>3, <3>4, InPlaces
      <3> QED BY <3>2, <3>5
    <2>2. CASE byte \in 16..47
      <3> DEFINE i == 32 * p + (byte - 16)
      <3>1. i \in 0..255 /\ i \div 32 = p /\ i % 32 = byte - 16 /\ 16 + (i % 32) = byte /\ p \in p..p
            /\ p \in Nat
        BY <2>2
      <3> HIDE DEF i
      <3>2. Places(byte, p, p) \subseteq Held(DequantizeQ5[i + 1].quant)
        BY <1>3, <3>1
      <3>3. <<byte, p>> \in Held(DequantizeQ5[i + 1].quant)
        BY <3>1, <3>2, InPlaces
      <3> QED BY <3>1, <3>3
    <2> QED BY <2>1, <2>2
  <1>6. AllHeld("Q5K", Dequantize("Q5K")) = (4..175) \X (0..7)
    <2>1. ASSUME NEW b \in (16..175) \X (0..7)
          PROVE  \E i \in 0..255 : b \in Held(DequantizeQ5[i + 1].quant)
      <3>1. PICK byte \in 16..175, p \in 0..7 : b = <<byte, p>>
        OBVIOUS
      <3> QED BY <1>5, <3>1
    <2>2. FromFour(DequantizeQ5, 175)
      BY ONLY <1>2, <1>3, <1>4, <2>1 DEF FromFour
    <2>3. 175 \in Nat /\ 175 >= 16 /\ "Q5K" # "Q6K"
      OBVIOUS
    <2>4. AllHeld("Q5K", DequantizeQ5) = (4..175) \X (0..7)
      BY ONLY <2>2, <2>3, HeldFromFour
    <2> QED BY ONLY <1>1, <2>4
  <1>7. 4 \in Nat /\ 175 \in Nat /\ 4 <= 175 /\ 175 < BlockBytes("Q5K") /\ BlockBytes("Q5K") \in Nat
        /\ (175 - 4 + 1) * 8 = 256 * 5 + 96
    BY ONLY <1>1
  <1>8. (175 - 4 + 1) * 8 = QKK * (IF "Q5K" = "Q4K" THEN 4 ELSE IF "Q5K" = "Q5K" THEN 5 ELSE 6)
                             + (IF "Q5K" = "Q6K" THEN 128 ELSE 96)
    BY <1>7 DEF QKK
  <1> QED
    BY ONLY <1>6, <1>7, <1>8, ApartInBlock

\* The bits of a quant of Q6_K: half a byte, and two bits of another.
QuantHeldQ6(i) ==
  Places(64 * (i \div 128) + (i % 32) + 32 * (((i % 128) \div 32) % 2),
         IF (i % 128) \div 32 < 2 THEN 0 ELSE 4, IF (i % 128) \div 32 < 2 THEN 3 ELSE 7)
  \cup Places(128 + 32 * (i \div 128) + (i % 32), 2 * ((i % 128) \div 32), 2 * ((i % 128) \div 32) + 1)

\* A value of Q6_K has those bits, and a byte for its scale.
LEMMA HeldQ6 ==
  ASSUME NEW i \in 0..255
  PROVE  /\ Held(DequantizeQ6[i + 1].quant) = QuantHeldQ6(i)
         /\ Held(DequantizeQ6[i + 1].scale) = Places(192 + i \div 16, 0, 7)
  <1> DEFINE sg == i \div 128
             quarter == (i % 128) \div 32
             l == i % 32
  <1>1. sg \in 0..1 /\ quarter \in 0..3 /\ l \in 0..31
    OBVIOUS
  <1> DEFINE ql == 64 * sg + l + 32 * (quarter % 2)
             qh == 128 + 32 * sg + l
             quant == (IF quarter < 2 THEN Low(ql) ELSE High(ql)) \o Bits(qh, 2 * quarter, 2)
  <1>2. DequantizeQ6[i + 1].quant = quant
    <2>1. DequantizeQ6[i + 1] = ValueQ6(sg, quarter, l)
      BY UnpackedQ6
    <2>2. ValueQ6(sg, quarter, l).quant = quant
      <3> HIDE DEF sg, quarter, l
      <3> QED BY ONLY TRUE DEF ValueQ6
    <2> QED BY ONLY <2>1, <2>2
  <1> HIDE DEF sg, quarter, l
  <1>3. /\ ql \in Nat /\ qh \in Nat /\ 2 * quarter \in Nat /\ 2 \in Nat
        /\ 2 * quarter + 2 - 1 = 2 * quarter + 1
    BY <1>1
  <1> HIDE DEF ql, qh
  <1>4. \A after \in Nat, from \in Nat, m \in Nat :
          /\ Held(Low(ql) \o Bits(after, from, m))
               = Places(ql, 0, 3) \cup Places(after, from, from + m - 1)
          /\ Held(High(ql) \o Bits(after, from, m))
               = Places(ql, 4, 7) \cup Places(after, from, from + m - 1)
    BY <1>3, HeldHalves
  <1>5. /\ Held(Low(ql) \o Bits(qh, 2 * quarter, 2))
             = Places(ql, 0, 3) \cup Places(qh, 2 * quarter, 2 * quarter + 1)
        /\ Held(High(ql) \o Bits(qh, 2 * quarter, 2))
             = Places(ql, 4, 7) \cup Places(qh, 2 * quarter, 2 * quarter + 1)
    BY ONLY <1>3, <1>4
  <1>6. Held(quant) = Places(ql, IF quarter < 2 THEN 0 ELSE 4, IF quarter < 2 THEN 3 ELSE 7)
                      \cup Places(qh, 2 * quarter, 2 * quarter + 1)
    <2>1. CASE quarter < 2
      BY ONLY <1>5, <2>1
    <2>2. CASE ~(quarter < 2)
      BY ONLY <1>5, <2>2
    <2> QED BY ONLY <2>1, <2>2
  <1>7. Held(DequantizeQ6[i + 1].quant) = QuantHeldQ6(i)
    BY <1>2, <1>6 DEF QuantHeldQ6, sg, quarter, l, ql, qh
  <1>8. Held(DequantizeQ6[i + 1].scale) = Places(192 + i \div 16, 0, 7)
    <2>1. 192 + i \div 16 \in Nat /\ 0 \in Nat /\ 8 \in Nat /\ 7 = 0 + 8 - 1
      OBVIOUS
    <2>2. Held(Bits(192 + i \div 16, 0, 8)) = Places(192 + i \div 16, 0, 7)
      BY ONLY <2>1, HeldBits
    <2>3. DequantizeQ6[i + 1].scale = Bits(192 + i \div 16, 0, 8)
      BY ValuesQ6
    <2> QED BY ONLY <2>2, <2>3
  <1> QED
    BY <1>7, <1>8

\* The quants of a block of Q6_K fill bytes 0 to 191,
LEMMA QuantsOfQ6 ==
  ASSUME NEW byte \in 0..191, NEW p \in 0..7
  PROVE  \E i \in 0..255 : <<byte, p>> \in QuantHeldQ6(i)
  <1>0. ASSUME NEW sg \in 0..1, NEW quarter \in 0..3, NEW l \in 0..31
        PROVE  \E i \in 0..255 : i \div 128 = sg /\ (i % 128) \div 32 = quarter /\ i % 32 = l
    <2> DEFINE i == 128 * sg + 32 * quarter + l
    <2>1. i \in 0..255 /\ i \div 128 = sg /\ (i % 128) \div 32 = quarter /\ i % 32 = l
      OBVIOUS
    <2> HIDE DEF i
    <2> QED BY <2>1
  <1>1. CASE byte \in 0..127
    <2> DEFINE sg == byte \div 64
               l == byte % 32
               odd == (byte % 64) \div 32
               quarter == odd + (IF p < 4 THEN 0 ELSE 2)
    <2>1. /\ sg \in 0..1 /\ l \in 0..31 /\ quarter \in 0..3 /\ byte = 64 * sg + l + 32 * (quarter % 2)
          /\ (quarter < 2 /\ p \in 0..3) \/ (~(quarter < 2) /\ p \in 4..7)
      BY <1>1
    <2> HIDE DEF sg, l, quarter
    <2>2. PICK i \in 0..255 : i \div 128 = sg /\ (i % 128) \div 32 = quarter /\ i % 32 = l
      BY <1>0, <2>1
    <2>3. <<byte, p>> \in Places(64 * sg + l + 32 * (quarter % 2),
                                 IF quarter < 2 THEN 0 ELSE 4, IF quarter < 2 THEN 3 ELSE 7)
      BY <2>1, InPlaces
    <2>4. Places(64 * sg + l + 32 * (quarter % 2),
                 IF quarter < 2 THEN 0 ELSE 4, IF quarter < 2 THEN 3 ELSE 7) \subseteq QuantHeldQ6(i)
      BY <2>2 DEF QuantHeldQ6
    <2> QED BY <2>2, <2>3, <2>4
  <1>2. CASE byte \in 128..191
    <2> DEFINE sg == (byte - 128) \div 32
               l == byte % 32
               quarter == p \div 2
    <2>1. /\ sg \in 0..1 /\ l \in 0..31 /\ quarter \in 0..3 /\ byte = 128 + 32 * sg + l
          /\ p \in (2 * quarter)..(2 * quarter + 1) /\ 2 * quarter \in Nat /\ 2 * quarter + 1 \in Nat
      BY <1>2
    <2> HIDE DEF sg, l, quarter
    <2>2. PICK i \in 0..255 : i \div 128 = sg /\ (i % 128) \div 32 = quarter /\ i % 32 = l
      BY <1>0, <2>1
    <2>3. <<byte, p>> \in Places(128 + 32 * sg + l, 2 * quarter, 2 * quarter + 1)
      BY <2>1, InPlaces
    <2>4. Places(128 + 32 * sg + l, 2 * quarter, 2 * quarter + 1) \subseteq QuantHeldQ6(i)
      BY <2>2 DEF QuantHeldQ6
    <2> QED BY <2>2, <2>3, <2>4
  <1> QED
    BY <1>1, <1>2

\* and the scales bytes 192 to 207.
LEMMA BitsApartQ6 == BitsApart("Q6K")
  <1>1. Dequantize("Q6K") = DequantizeQ6 /\ BlockBytes("Q6K") = 210
    BY DEF Dequantize, BlockBytes
  <1> DEFINE d == DequantizeQ6
             box == (0..207) \X (0..7)
  <1>2. DOMAIN d = 1..256
    BY DEF DequantizeQ6, QKK
  <1>3. \A i \in 0..255 : /\ Held(d[i + 1].quant) = QuantHeldQ6(i)
                          /\ Held(d[i + 1].scale) = Places(192 + i \div 16, 0, 7)
    BY HeldQ6
  <1> HIDE DEF d
  <1>4. ASSUME NEW i \in DOMAIN d PROVE i - 1 \in 0..255 /\ (i - 1) + 1 = i
    BY <1>2
  <1>5. ASSUME NEW i \in 0..255 PROVE i + 1 \in DOMAIN d
    BY <1>2
  <1>6. ASSUME NEW i \in 0..255
        PROVE  Held(d[i + 1].quant) \subseteq box /\ Held(d[i + 1].scale) \subseteq box
    <2>1. ASSUME NEW byte \in 0..207, NEW first \in 0..7, NEW last \in 0..7
          PROVE  Places(byte, first, last) \subseteq box
      <3>1. 0 \in Nat /\ 207 \in Nat
        OBVIOUS
      <3> QED BY <3>1, PlacesInBox
    <2> DEFINE quarter == (i % 128) \div 32
               low == IF quarter < 2 THEN 0 ELSE 4
               high == IF quarter < 2 THEN 3 ELSE 7
               ql == 64 * (i \div 128) + (i % 32) + 32 * (quarter % 2)
               qh == 128 + 32 * (i \div 128) + (i % 32)
    <2>2. /\ ql \in 0..207 /\ qh \in 0..207 /\ low \in 0..7 /\ high \in 0..7
          /\ 2 * quarter \in 0..7 /\ 2 * quarter + 1 \in 0..7
          /\ 192 + i \div 16 \in 0..207 /\ 0 \in 0..7 /\ 7 \in 0..7
      OBVIOUS
    <2> HIDE DEF quarter, low, high, ql, qh, box
    <2>3. /\ Places(ql, low, high) \subseteq box
          /\ Places(qh, 2 * quarter, 2 * quarter + 1) \subseteq box
          /\ Places(192 + i \div 16, 0, 7) \subseteq box
      BY ONLY <2>1, <2>2
    <2>4. QuantHeldQ6(i) = Places(ql, low, high) \cup Places(qh, 2 * quarter, 2 * quarter + 1)
      BY DEF QuantHeldQ6, quarter, low, high, ql, qh
    <2>5. /\ Held(d[i + 1].quant) = QuantHeldQ6(i)
          /\ Held(d[i + 1].scale) = Places(192 + i \div 16, 0, 7)
      BY ONLY <1>3, i \in 0..255
    <2> QED BY ONLY <2>3, <2>4, <2>5
  <1>7. ASSUME NEW b \in box
        PROVE  \E i \in 0..255 : b \in Held(d[i + 1].quant) \/ b \in Held(d[i + 1].scale)
    <2>1. PICK byte \in 0..207, p \in 0..7 : b = <<byte, p>>
      OBVIOUS
    <2>2. CASE byte \in 0..191
      <3>1. PICK i \in 0..255 : <<byte, p>> \in QuantHeldQ6(i)
        BY <2>2, QuantsOfQ6
      <3> QED BY ONLY <1>3, <2>1, <3>1
    <2>3. CASE byte \in 192..207
      <3> DEFINE i == 16 * (byte - 192)
      <3>1. i \in 0..255 /\ 192 + i \div 16 = byte /\ p \in 0..7 /\ 0 \in Nat /\ 7 \in Nat
        BY <2>3
      <3> HIDE DEF i
      <3>2. <<byte, p>> \in Places(byte, 0, 7)
        BY <3>1, InPlaces
      <3>3. b \in Held(d[i + 1].scale)
        BY <1>3, <2>1, <3>1, <3>2
      <3> QED BY <3>1, <3>3
    <2>4. byte \in 0..191 \/ byte \in 192..207
      OBVIOUS
    <2> QED BY ONLY <2>2, <2>3, <2>4
  <1> HIDE DEF box
  <1>8. AllHeld("Q6K", d) = box
    <2> DEFINE quants == {Held(d[i].quant) : i \in DOMAIN d}
               scales == {d[i].scale : i \in DOMAIN d}
               fields == {Held(f) : f \in scales}
    <2>1. AllHeld("Q6K", d) = (UNION quants) \cup (UNION fields)
      BY ONLY TRUE DEF AllHeld
    <2>2. ASSUME NEW b, b \in UNION quants \/ b \in UNION fields PROVE b \in box
      <3>1. CASE b \in UNION quants
        <4>1. PICK i \in DOMAIN d : b \in Held(d[i].quant)
          BY ONLY <3>1
        <4> QED BY ONLY <1>4, <1>6, <4>1
      <3>2. CASE b \in UNION fields
        <4>1. PICK f \in scales : b \in Held(f)
          <5> HIDE DEF scales
          <5> QED BY ONLY <3>2
        <4>2. PICK i \in DOMAIN d : b \in Held(d[i].scale)
          BY ONLY <4>1
        <4> QED BY ONLY <1>4, <1>6, <4>2
      <3> QED BY ONLY <2>2, <3>1, <3>2
    <2>3. ASSUME NEW b \in box PROVE b \in UNION quants \/ b \in UNION fields
      <3>1. PICK n \in DOMAIN d : b \in Held(d[n].quant) \/ b \in Held(d[n].scale)
        BY ONLY <1>5, <1>7, <2>3
      <3>2. Held(d[n].quant) \in quants /\ d[n].scale \in scales
        OBVIOUS
      <3> HIDE DEF scales, quants
      <3>3. Held(d[n].scale) \in fields
        BY ONLY <3>2
      <3> HIDE DEF fields
      <3> QED BY ONLY <3>1, <3>2, <3>3
    <2> HIDE DEF quants, fields
    <2> QED BY ONLY <2>1, <2>2, <2>3
  <1>9. /\ 0 \in Nat /\ 207 \in Nat /\ 0 <= 207 /\ 207 < BlockBytes("Q6K") /\ BlockBytes("Q6K") \in Nat
        /\ (207 - 0 + 1) * 8 = QKK * (IF "Q6K" = "Q4K" THEN 4 ELSE IF "Q6K" = "Q5K" THEN 5 ELSE 6)
                               + (IF "Q6K" = "Q6K" THEN 128 ELSE 96)
    BY <1>1 DEF QKK
  <1>10. AllHeld("Q6K", Dequantize("Q6K")) = (0..207) \X (0..7)
    BY <1>1, <1>8 DEF d, box
  <1> QED
    BY ONLY <1>9, <1>10, ApartInBlock

-----------------------------------------------------------------------------
(***************************************************************************)
(* Quantised weights: matrices of blocks.                                  *)
(***************************************************************************)

\* The quotient and the remainder of a number that is made of both.
LEMMA QuotientOf ==
  ASSUME NEW d \in Nat \ {0}, NEW a \in Nat, NEW x \in 0..(d - 1)
  PROVE  (a * d + x) \div d = a /\ (a * d + x) % d = x
  <1> DEFINE n == a * d + x
  <1>1. n \in Nat
    <2>1. a * d \in Nat
      OBVIOUS
    <2> QED
      BY <2>1
  <1>2. n % d \in 0..(d - 1) /\ n = (n \div d) * d + (n % d) /\ n \div d \in Nat
    BY ONLY <1>1, Remainder, Quotient
  <1>3. (n \div d) * d + (n % d) = a * d + x
    BY <1>2
  <1> HIDE DEF n
  <1>4. n \div d = a /\ n % d = x
    BY <1>2, <1>3, Digits
  <1> QED
    BY <1>4 DEF n

\* and of one that is made of a quotient alone.
LEMMA MultipleOf ==
  ASSUME NEW d \in Nat \ {0}, NEW a \in Nat
  PROVE  (a * d) \div d = a /\ (a * d) % d = 0
  <1>1. 0 \in 0..(d - 1) /\ a * d + 0 = a * d
    OBVIOUS
  <1>2. (a * d + 0) \div d = a /\ (a * d + 0) % d = 0
    BY ONLY <1>1, QuotientOf
  <1> QED
    BY ONLY <1>1, <1>2

\* Three factors that fit are small enough two by two and all together.
LEMMA FitsTriple ==
  ASSUME NEW k \in Nat, NEW m \in Nat, NEW n \in Nat, FitsUsize(<<k, m, n>>)
  PROVE  k * m <= MaxUsize /\ k * m * n <= MaxUsize
  <1> DEFINE dims == <<k, m, n>>
             upTo == [i \in 0..Len(dims) |-> IF i = 0 THEN 1 ELSE IF i = 1 THEN k
                                             ELSE IF i = 2 THEN k * m ELSE k * m * n]
             Multiplies(f) == f = [i \in 0..Len(dims) |->
                                     IF i = 0 THEN 1 ELSE f[i - 1] * dims[i]]
             product == CHOOSE f : Multiplies(f)
  <1>1. Len(dims) = 3 /\ dims[1] = k /\ dims[2] = m /\ dims[3] = n
    OBVIOUS
  <1>2. \A i \in 0..Len(dims) : product[i] <= MaxUsize
    BY DEF FitsUsize
  <1> HIDE DEF dims
  <1>3. Multiplies(upTo)
    <2> SUFFICES ASSUME NEW i \in 0..3
                 PROVE  upTo[i] = IF i = 0 THEN 1 ELSE upTo[i - 1] * dims[i]
      BY <1>1
    <2> QED
      BY <1>1
  <1>4. Multiplies(product)
    <2> HIDE DEF Multiplies
    <2> QED
      BY <1>3
  <1> HIDE DEF product
  <1>5. \A i \in 0..3 : product[i] = IF i = 0 THEN 1 ELSE product[i - 1] * dims[i]
    BY <1>1, <1>4
  <1>6. product[2] = k * m /\ product[3] = k * m * n
    <2>1. product[0] = 1
      BY <1>5
    <2>2. product[1] = product[0] * dims[1]
      BY <1>5
    <2>3. product[2] = product[1] * dims[2]
      BY <1>5
    <2>4. product[3] = product[2] * dims[3]
      BY <1>5
    <2> QED
      BY <1>1, <2>1, <2>2, <2>3, <2>4
  <1>7. 2 \in 0..3 /\ 3 \in 0..3
    OBVIOUS
  <1> QED
    BY ONLY <1>1, <1>2, <1>6, <1>7

\* What a caller can pass, of any size.
QuantSizes(z) ==
  /\ z.kind \in {"Q4K", "Q5K", "Q6K"}
  /\ z.rows \in Nat /\ z.ins \in Nat /\ z.outs \in Nat /\ z.len.data \in Nat

\* A matrix's blocks are counted row by row.
LEMMA BlocksOfRows ==
  ASSUME NEW z, QuantSizes(z), ValidKQuant(z)
  PROVE  /\ z.ins \div QKK \in Nat \ {0} /\ (z.ins \div QKK) * QKK = z.ins
         /\ BlockBytes(z.kind) \in Nat \ {0} /\ QKK \in Nat \ {0}
         /\ z.outs \in Nat \ {0} /\ z.rows \in Nat
         /\ (z.ins * z.outs) \div QKK = z.outs * (z.ins \div QKK) /\ (z.ins * z.outs) % QKK = 0
  <1>1. QKK \in Nat \ {0} /\ z.ins \in Nat /\ z.ins % QKK = 0 /\ z.ins # 0 /\ z.outs \in Nat \ {0}
    BY DEF QKK, QuantSizes, ValidKQuant
  <1> DEFINE n == z.ins \div QKK
  <1>2. n \in Nat /\ n * QKK = z.ins
    BY ONLY <1>1, WholeQuotient
  <1>3. BlockBytes(z.kind) \in Nat \ {0}
    BY DEF BlockBytes, QuantSizes
  <1> HIDE DEF n
  <1>4. n # 0 /\ z.outs * n \in Nat /\ (z.outs * n) * QKK = z.ins * z.outs
    BY ONLY <1>1, <1>2
  <1>5. ((z.outs * n) * QKK) \div QKK = z.outs * n /\ ((z.outs * n) * QKK) % QKK = 0
    BY ONLY <1>1, <1>4, MultipleOf
  <1> QED
    BY <1>1, <1>2, <1>3, <1>4, <1>5 DEF n, QuantSizes

\* What linear_q4_k and the others accept, the loader would have accepted.
LEMMA PayloadValid ==
  ASSUME NEW z, QuantSizes(z), ValidKQuant(z)
  PROVE  ValidPayload(z)
  <1> DEFINE n == z.ins \div QKK
             bytes == BlockBytes(z.kind)
             blocks == (z.ins * z.outs) \div QKK
  <1>1. /\ n \in Nat /\ bytes \in Nat /\ z.outs \in Nat
        /\ blocks = z.outs * n /\ (z.ins * z.outs) % QKK = 0
    BY BlocksOfRows
  <1>2. FitsUsize(<<z.outs, n, bytes>>) /\ z.len.data = z.outs * n * bytes /\ z.ins % QKK = 0
    BY DEF ValidKQuant
  <1> HIDE DEF n, bytes, blocks
  <1>3. z.outs * n <= MaxUsize /\ z.outs * n * bytes <= MaxUsize
    BY ONLY <1>1, <1>2, FitsTriple
  <1>4. blocks \in Nat /\ blocks <= MaxUsize /\ blocks * bytes <= MaxUsize /\ z.len.data = blocks * bytes
    BY ONLY <1>1, <1>2, <1>3
  <1>5. FitsUsize(<<blocks, bytes>>)
    BY ONLY <1>1, <1>4, FitsPair, BuffersAssumption
  <1> QED
    BY <1>1, <1>2, <1>4, <1>5 DEF ValidPayload, blocks, bytes

\* As many rounds of two loops as numbers below the product of their bounds.
LEMMA RoundsCounted ==
  ASSUME NEW m \in Nat, NEW n \in Nat
  PROVE  Cardinality(Upto(m) \X Upto(n)) = Cardinality(Upto(m * n))
  <1>1. ASSUME NEW k \in Nat PROVE IsFiniteSet(Upto(k)) /\ Cardinality(Upto(k)) = k
    <2>1. 0 \in Int /\ k - 1 \in Int
      OBVIOUS
    <2>2. IsFiniteSet(0..(k - 1))
          /\ Cardinality(0..(k - 1)) = IF 0 > k - 1 THEN 0 ELSE (k - 1) - 0 + 1
      BY ONLY <2>1, FS_Interval
    <2> QED
      BY <2>2 DEF Upto
  <1>2. Cardinality(Upto(m) \X Upto(n)) = m * n
    BY <1>1, FS_Product
  <1>3. m * n \in Nat
    OBVIOUS
  <1> QED
    BY <1>1, <1>2, <1>3

\* Each output is of the blocks that hold the loaded values of its row.
LEMMA MatrixAsLoaded ==
  ASSUME NEW z, QuantSizes(z), ValidKQuant(z)
  PROVE  RowsAsLoaded(z)
  <1> DEFINE n == z.ins \div QKK
             bytes == BlockBytes(z.kind)
             task(u) == [out |-> u[1] * z.outs + u[2],
                         from |-> [x |-> u[1] * z.ins, blocks |-> RowBlocks(u[2], z)]]
             promised(out) ==
               [x |-> (out \div z.outs) * z.ins,
                blocks |-> [b \in Upto(n) |-> (((out % z.outs) * z.ins + b * QKK) \div QKK) * bytes]]
             rounds == Upto(z.rows) \X Upto(z.outs)
             tasks == [u \in rounds |-> task(u)]
             reference == [out \in Upto(z.rows * z.outs) |-> promised(out)]
  <1>1. /\ n \in Nat /\ n * QKK = z.ins /\ bytes \in Nat \ {0} /\ QKK \in Nat \ {0}
        /\ z.outs \in Nat \ {0} /\ z.rows \in Nat
    BY BlocksOfRows
  <1>2. LinearKQuant(z) = tasks
    BY DEF LinearKQuant, LinearQ4, LinearQ5, LinearQ6, QuantSizes
  <1>3. Cardinality(DOMAIN tasks) = Cardinality(DOMAIN reference)
    BY <1>1, RoundsCounted
  <1>4. ASSUME NEW r \in Upto(z.rows), NEW o \in Upto(z.outs)
        PROVE  /\ r * z.outs + o \in Upto(z.rows * z.outs)
               /\ (r * z.outs + o) \div z.outs = r /\ (r * z.outs + o) % z.outs = o
    <2>1. r \in 0..(z.rows - 1) /\ o \in 0..(z.outs - 1) /\ r \in Nat
      BY <1>1 DEF Upto
    <2>2. r * z.outs + o \in 0..(z.rows * z.outs - 1)
      BY ONLY <1>1, <2>1, Composed
    <2> QED
      BY <1>1, <2>1, <2>2, QuotientOf DEF Upto
  <1>5. ASSUME NEW o \in Upto(z.outs), NEW b \in Upto(n)
        PROVE  ((o * z.ins + b * QKK) \div QKK) * bytes = o * (n * bytes) + b * bytes
    <2>1. o \in Nat /\ b \in Nat
      BY <1>1 DEF Upto
    <2> HIDE DEF n, bytes
    <2>2. o * n + b \in Nat /\ o * z.ins + b * QKK = (o * n + b) * QKK
      <3>1. o * z.ins = (o * n) * QKK
        BY ONLY <1>1, <2>1
      <3> DEFINE on == o * n
      <3>2. on \in Nat
        BY ONLY <1>1, <2>1
      <3> HIDE DEF on
      <3>3. (on + b) * QKK = on * QKK + b * QKK
        BY ONLY <1>1, <2>1, <3>2
      <3> QED BY ONLY <2>1, <3>1, <3>2, <3>3 DEF on
    <2>3. ((o * n + b) * QKK) \div QKK = o * n + b
      BY ONLY <1>1, <2>2, MultipleOf
    <2>4. (o * n + b) * bytes = o * (n * bytes) + b * bytes
      BY ONLY <1>1, <2>1
    <2> QED BY ONLY <2>2, <2>3, <2>4
  <1>6. ASSUME NEW u \in rounds
        PROVE  task(u).out \in Upto(z.rows * z.outs) /\ task(u).from = promised(task(u).out)
    <2>1. PICK r \in Upto(z.rows), o \in Upto(z.outs) : u = <<r, o>>
      OBVIOUS
    <2> DEFINE out == r * z.outs + o
    <2>2. out \in Upto(z.rows * z.outs) /\ out \div z.outs = r /\ out % z.outs = o
      BY <1>4
    <2> HIDE DEF out
    <2>3. RowBlocks(o, z) = [b \in Upto(n) |-> o * (n * bytes) + b * bytes]
      BY DEF RowBlocks
    <2>4. RowBlocks(o, z) = [b \in Upto(n) |-> ((o * z.ins + b * QKK) \div QKK) * bytes]
      <3> HIDE DEF n, bytes
      <3> QED BY ONLY <1>5, <2>3
    <2>5. promised(out) = [x |-> r * z.ins, blocks |-> RowBlocks(o, z)]
      BY <2>2, <2>4
    <2>6. task(u) = [out |-> out, from |-> [x |-> r * z.ins, blocks |-> RowBlocks(o, z)]]
      BY <2>1 DEF out
    <2> HIDE DEF task, promised
    <2> QED BY <2>2, <2>5, <2>6
  <1>7. ASSUME NEW u \in rounds, NEW v \in rounds, task(u).out = task(v).out
        PROVE  u = v
    <2>1. PICK r \in Upto(z.rows), o \in Upto(z.outs) : u = <<r, o>>
      OBVIOUS
    <2>2. PICK s \in Upto(z.rows), p \in Upto(z.outs) : v = <<s, p>>
      OBVIOUS
    <2>3. r * z.outs + o = s * z.outs + p
      BY <1>7, <2>1, <2>2
    <2>4. r = s /\ o = p
      BY ONLY <1>4, <2>1, <2>2, <2>3
    <2> QED BY <2>1, <2>2, <2>4
  <1>8. Performs(tasks, reference)
    <2>1. DOMAIN tasks = rounds /\ DOMAIN reference = Upto(z.rows * z.outs)
      OBVIOUS
    <2>2. \A u \in rounds : tasks[u] = task(u)
      OBVIOUS
    <2>3. \A out \in Upto(z.rows * z.outs) : reference[out] = promised(out)
      OBVIOUS
    <2> HIDE DEF tasks, reference, task, promised, rounds
    <2> QED BY ONLY <1>3, <1>6, <1>7, <2>1, <2>2, <2>3 DEF Performs
  <1> QED
    BY <1>2, <1>8 DEF RowsAsLoaded

\* Every quantised kernel multiplies each activation by the bits that the
\* loader would unpack for the weight at its place, and no two values of a
\* block share a bit (k_quant.rs against gguf_values.rs): for all 256 values of
\* a block of each kind, and for matrices of every size that is accepted.
THEOREM QuantsAsLoadedAlways == KernelSpec => []QuantsAsLoaded
  <1>1. CallInv => QuantsAsLoaded
    <2> SUFFICES ASSUME CallInv, Is("quant")
                 PROVE  /\ DotAsLoaded(call.args.kind) /\ BitsApart(call.args.kind)
                        /\ ValidKQuant(call.args) =>
                             ValidPayload(call.args) /\ RowsAsLoaded(call.args)
      BY DEF QuantsAsLoaded
    <2>1. call.args \in QuantCalls
      BY DEF CallInv, Is, Idle
    <2>2. call.args \in QuantArgs
      BY <2>1, KernelCallsAssumption
    <2>3. QuantSizes(call.args)
      BY <2>2, BuffersAssumption DEF QuantArgs, QuantSizes, Lengths
    <2>4. call.args.kind \in {"Q4K", "Q5K", "Q6K"}
      BY <2>3 DEF QuantSizes
    <2>5. BitsApart(call.args.kind)
      BY <2>4, BitsApartQ4, BitsApartQ5, BitsApartQ6
    <2> QED
      BY <2>3, <2>4, <2>5, DotsAsLoaded, PayloadValid, MatrixAsLoaded
  <1> QED
    BY <1>1, CallInvAlways, PTL

-----------------------------------------------------------------------------
(***************************************************************************)
(* What the operations on cells, pairs and rows write.                     *)
(***************************************************************************)

\* The units launched for so many cells, without those to spare.
LEMMA LaunchedUpto ==
  ASSUME NEW n \in Nat, NEW wg \in Nat \ {0}
  PROVE  {i \in Upto(AtLeastOne(CeilDiv(n, wg)) * wg) : i < n} = Upto(n)
  <1> DEFINE m == AtLeastOne(CeilDiv(n, wg))
  <1>1. CeilDiv(n, wg) \in Nat /\ n <= CeilDiv(n, wg) * wg
    BY SharesReachTheEnd
  <1>2. m \in Nat /\ n <= m * wg /\ m * wg \in Nat
    <2>1. CASE CeilDiv(n, wg) = 0
      <3>1. n <= 0 * wg /\ 0 * wg = 0 /\ m = 1
        BY <1>1, <2>1 DEF AtLeastOne
      <3> QED BY <3>1
    <2>2. CASE CeilDiv(n, wg) # 0
      <3>1. m = CeilDiv(n, wg)
        BY <2>2 DEF AtLeastOne
      <3> QED BY <1>1, <3>1
    <2> QED BY <2>1, <2>2
  <1> HIDE DEF m
  <1>3. \A total \in Nat : n <= total => {i \in 0..(total - 1) : i < n} = 0..(n - 1)
    OBVIOUS
  <1>4. {i \in 0..(m * wg - 1) : i < n} = 0..(n - 1)
    BY ONLY <1>2, <1>3
  <1> QED
    BY ONLY <1>4 DEF Upto, m

\* Tasks that write one cell each.
LEMMA WritesCells ==
  ASSUME NEW D, NEW at, NEW tasks, NEW promised, DOMAIN tasks = D,
         DOMAIN promised = {at[u] : u \in D},
         \A u \in D : tasks[u].out = {at[u]} /\ tasks[u].from = promised[at[u]],
         \A u, v \in D : at[u] = at[v] => u = v
  PROVE  WritesPromised(tasks, promised)
  <1>1. UNION {tasks[u].out : u \in D} = {at[u] : u \in D}
    OBVIOUS
  <1>2. \A u \in D : \A cell \in tasks[u].out : tasks[u].from = promised[cell]
    OBVIOUS
  <1>3. \A u, v \in D : u # v => tasks[u].out \cap tasks[v].out = {}
    OBVIOUS
  <1> QED
    BY <1>1, <1>2, <1>3 DEF WritesPromised

\* The same tasks under other numbers.
LEMMA Renumbered ==
  ASSUME NEW tasks, NEW promised, WritesPromised(tasks, promised), NEW others, NEW f,
         \A u \in DOMAIN others : f[u] \in DOMAIN tasks /\ others[u] = tasks[f[u]],
         \A v \in DOMAIN tasks : \E u \in DOMAIN others : f[u] = v,
         \A u, v \in DOMAIN others : f[u] = f[v] => u = v
  PROVE  WritesPromised(others, promised)
  <1>1. UNION {tasks[v].out : v \in DOMAIN tasks} = DOMAIN promised
    BY DEF WritesPromised
  <1>2. {others[u].out : u \in DOMAIN others} = {tasks[v].out : v \in DOMAIN tasks}
    OBVIOUS
  <1>3. UNION {others[u].out : u \in DOMAIN others} = DOMAIN promised
    BY <1>1, <1>2
  <1>4. \A u \in DOMAIN others : \A cell \in others[u].out : others[u].from = promised[cell]
    BY DEF WritesPromised
  <1>5. ASSUME NEW u \in DOMAIN others, NEW v \in DOMAIN others, u # v
        PROVE  others[u].out \cap others[v].out = {}
    <2>1. f[u] # f[v]
      BY <1>5
    <2> QED
      BY <2>1 DEF WritesPromised
  <1> QED
    BY <1>3, <1>4, <1>5 DEF WritesPromised

\* A cell each, from itself: addition, product and activations.
LEMMA CellsWritten ==
  ASSUME NEW n \in Nat
  PROVE  WritesPromised(PerCell(Upto(n)), [cell \in Upto(n) |-> <<cell>>])
  <1> DEFINE at == [u \in Upto(n) |-> u]
             tasks == PerCell(Upto(n))
             promised == [cell \in Upto(n) |-> <<cell>>]
  <1>1. DOMAIN tasks = Upto(n) /\ DOMAIN promised = {at[u] : u \in Upto(n)}
    BY DEF PerCell
  <1>2. \A u \in Upto(n) : tasks[u].out = {at[u]} /\ tasks[u].from = promised[at[u]]
    BY DEF PerCell
  <1>3. \A u, v \in Upto(n) : at[u] = at[v] => u = v
    OBVIOUS
  <1> HIDE DEF at, tasks, promised
  <1>4. WritesPromised(tasks, promised)
    BY <1>1, <1>2, <1>3, WritesCells
  <1> QED
    BY <1>4 DEF tasks, promised

PointSizes(z) ==
  /\ {z.rows, z.hidden, z.tableRows, z.start, z.dim, z.heads, z.kvHeads} \subseteq Nat
  /\ {z.len.a, z.len.b, z.len.c, z.len.out} \subseteq Nat

\* The units of the GPU that do not return at once.
LEMMA PointUnits ==
  ASSUME NEW n \in Nat
  PROVE  {i \in CellLaunch(n) : i < n} = Upto(n) /\ {i \in RowLaunch(n) : i < n} = Upto(n)
  <1>1. CellWg \in Nat \ {0} /\ RowWg \in Nat \ {0}
    BY PointAssumption
  <1> QED
    BY <1>1, LaunchedUpto DEF CellLaunch, RowLaunch

\* add_inplace_d, mul_inplace_d, gelu_inplace_d and silu_inplace_d.
LEMMA CellOpsWrite ==
  ASSUME NEW z, PointSizes(z), NEW backend \in {"default", "cpu", "cubecl"},
         NEW op \in {"add", "mul", "gelu", "silu"},
         PointOutcome(backend, op, z).ok, op = "mul" => SameLength(z)
  PROVE  WritesPromised(PointOutcome(backend, op, z).tasks, PointPromised(op, z))
  <1>1. z.len.a \in Nat /\ z.len.b \in Nat
    BY DEF PointSizes
  <1>2. PointPromised(op, z) = [cell \in Upto(z.len.a) |-> <<cell>>]
    BY DEF PointPromised
  <1>3. SameLength(z) => Smaller(z.len.a, z.len.b) = z.len.a
    BY <1>1 DEF SameLength, Smaller
  <1>4. AllCells(z) = PerCell(Upto(z.len.a)) /\ (SameLength(z) => Zipped(z) = PerCell(Upto(z.len.a)))
    BY <1>3 DEF AllCells, Zipped
  <1>5. {AddOut(z), MulOut(z), SiluOut(z), GeluOut(z)} = {PerCell(Upto(z.len.a))}
    BY <1>1, PointUnits DEF AddOut, MulOut, SiluOut, GeluOut
  <1>6. PointOutcome(backend, op, z).tasks = PerCell(Upto(z.len.a))
    <2>1. CASE op = "add"
      BY <1>4, <1>5, <2>1 DEF PointOutcome, CpuAdd, CubeAdd, DefaultAdd, RunAdd, Outcome
    <2>2. CASE op = "mul"
      BY <1>4, <1>5, <2>2 DEF PointOutcome, CubeMul, DefaultMul, RunMul, Outcome
    <2>3. CASE op = "gelu"
      BY <1>4, <1>5, <2>3 DEF PointOutcome, CpuGelu, CubeGelu, DefaultGelu, RunGelu, Outcome
    <2>4. CASE op = "silu"
      BY <1>4, <1>5, <2>4 DEF PointOutcome, CubeSilu, DefaultSilu, RunSilu, Outcome
    <2> QED BY <2>1, <2>2, <2>3, <2>4
  <1> QED
    BY <1>1, <1>2, <1>6, CellsWritten

\* Rows of cells, each a task; a row of no cells writes nothing.
LEMMA RowsWritten ==
  ASSUME NEW z, NEW n \in Nat, z.hidden \in Nat, NEW D \in SUBSET Nat,
         z.hidden # 0 => D = Upto(n)
  PROVE  WritesPromised([row \in D |-> NormRow(row, z)],
                        [cell \in Upto(n * z.hidden) |->
                           {c \in Upto(n * z.hidden) : c \div z.hidden = cell \div z.hidden}])
  <1> DEFINE h == z.hidden
             tasks == [row \in D |-> NormRow(row, z)]
             cells(row) == (row * h)..(row * h + h - 1)
             promised == [cell \in Upto(n * h) |-> {c \in Upto(n * h) : c \div h = cell \div h}]
  <1>1. h \in Nat /\ n * h \in Nat
    OBVIOUS
  <1>2. DOMAIN tasks = D /\ DOMAIN promised = 0..(n * h - 1)
        /\ \A row \in D : tasks[row].out = cells(row) /\ tasks[row].from = cells(row)
    BY DEF NormRow, Upto
  <1>3. CASE h = 0
    <2>1. n * h = 0 /\ \A row \in D : cells(row) = {}
      BY <1>1, <1>3
    <2> HIDE DEF tasks, promised, cells
    <2>2. DOMAIN promised = {}
      BY <1>2, <2>1
    <2>3. \A row \in D : tasks[row].out = {}
      BY <1>2, <2>1
    <2>4. UNION {tasks[row].out : row \in D} = {}
      BY <2>3
    <2>5. WritesPromised(tasks, promised)
      BY <1>2, <2>2, <2>3, <2>4 DEF WritesPromised
    <2> QED
      BY <2>5 DEF tasks, promised
  <1>4. CASE h # 0
    <2>1. D = 0..(n - 1) /\ h \in Nat \ {0}
      BY <1>1, <1>4 DEF Upto
    <2>2. ASSUME NEW row \in 0..(n - 1), NEW c \in cells(row)
          PROVE  c \in 0..(n * h - 1) /\ c \div h = row
      <3>1. row \in Nat /\ row * h \in Nat
        BY <2>1
      <3>2. PICK x \in 0..(h - 1) : c = row * h + x
        <4>1. c - row * h \in 0..(h - 1) /\ c = row * h + (c - row * h)
          BY <1>1, <2>2, <3>1
        <4> QED
          BY <4>1
      <3> HIDE DEF h
      <3>3. row * h + x \in 0..(n * h - 1)
        BY ONLY <2>1, Composed
      <3>4. (row * h + x) \div h = row
        BY ONLY <2>1, <3>1, QuotientOf
      <3> QED
        BY ONLY <3>2, <3>3, <3>4
    <2>3. ASSUME NEW c \in 0..(n * h - 1)
          PROVE  c \div h \in 0..(n - 1) /\ c \in cells(c \div h)
      <3> HIDE DEF h
      <3>1. c \div h \in 0..(n - 1) /\ c % h \in 0..(h - 1) /\ (c \div h) * h + (c % h) = c
        BY ONLY <2>1, Decomposed
      <3>2. (c \div h) * h \in Nat
        BY <2>1, <3>1
      <3> QED
        BY <2>1, <3>1, <3>2
    <2> HIDE DEF h, cells
    <2> HIDE DEF tasks, promised
    <2>4. UNION {tasks[row].out : row \in D} = DOMAIN promised
      <3>1. ASSUME NEW row \in D, NEW c \in tasks[row].out
            PROVE  c \in DOMAIN promised
        BY ONLY <1>2, <2>1, <2>2, <3>1
      <3>2. ASSUME NEW c \in DOMAIN promised
            PROVE  c \in UNION {tasks[row].out : row \in D}
        <4>1. c \div h \in D /\ c \in tasks[c \div h].out
          BY ONLY <1>2, <2>1, <2>3, <3>2
        <4> QED
          BY ONLY <4>1
      <3> QED
        BY ONLY <3>1, <3>2
    <2>5. ASSUME NEW row \in D, NEW cell \in tasks[row].out
          PROVE  tasks[row].from = promised[cell]
      <3>1. row \in 0..(n - 1) /\ cell \in cells(row)
        BY <1>2, <2>1, <2>5
      <3>2. cell \in 0..(n * h - 1) /\ cell \div h = row
        BY <2>2, <3>1
      <3>3. promised[cell] = {c \in 0..(n * h - 1) : c \div h = row}
        BY <3>2 DEF Upto, promised
      <3>4. cells(row) = {c \in 0..(n * h - 1) : c \div h = row}
        BY ONLY <2>2, <2>3, <3>1
      <3> QED
        BY <1>2, <3>3, <3>4
    <2>6. \A u, v \in D : u # v => tasks[u].out \cap tasks[v].out = {}
      BY ONLY <1>2, <2>1, <2>2
    <2>7. WritesPromised(tasks, promised)
      BY ONLY <1>2, <2>4, <2>5, <2>6 DEF WritesPromised
    <2> QED
      BY <2>7 DEF tasks, promised, h
  <1> QED
    BY <1>3, <1>4

\* The rows that have room in an output of so many rows.
LEMMA RowsThatFit ==
  ASSUME NEW n \in Nat, NEW h \in Nat \ {0}
  PROVE  {r \in RowLaunch(n) : r * h + h <= n * h} = Upto(n)
  <1>1. {r \in RowLaunch(n) : r < n} = Upto(n)
    BY PointUnits
  <1>2. \A r \in RowLaunch(n) : r \in Nat
    BY DEF RowLaunch, Upto
  <1>3. ASSUME NEW r \in Nat
        PROVE  r * h + h <= n * h <=> r < n
    <2>1. r < n => (r + 1) * h <= n * h
      BY ProductMonotone
    <2>2. n <= r => n * h <= r * h
      BY ProductMonotone
    <2>3. (r + 1) * h = r * h + h /\ r * h \in Nat /\ n * h \in Nat
      OBVIOUS
    <2> QED
      BY <2>1, <2>2, <2>3
  <1> QED
    BY <1>1, <1>2, <1>3

\* layer_norm_d and rmsnorm_d.
LEMMA RowOpsWrite ==
  ASSUME NEW z, PointSizes(z), NEW backend \in {"default", "cpu", "cubecl"},
         NEW op \in {"layer_norm", "rmsnorm"}, PointOutcome(backend, op, z).ok
  PROVE  WritesPromised(PointOutcome(backend, op, z).tasks, PointPromised(op, z))
  <1>1. z.rows \in Nat /\ z.hidden \in Nat
    BY DEF PointSizes
  <1>2. z.len.a = z.rows * z.hidden /\ z.len.out = z.rows * z.hidden
    <2>1. CASE op = "layer_norm"
      BY <2>1 DEF PointOutcome, CpuLayerNorm, CubeLayerNorm, DefaultLayerNorm, ValidLayerNorm,
         RowsFit, Outcome
    <2>2. CASE op = "rmsnorm"
      BY <2>2 DEF PointOutcome, CubeRmsNorm, DefaultRmsNorm, ValidRmsNorm, RowsFit, Outcome
    <2> QED BY <2>1, <2>2
  <1> DEFINE units == {r \in RowLaunch(z.rows) : r * z.hidden + z.hidden <= z.len.out}
             over(D) == [row \in D |-> NormRow(row, z)]
  <1>3. \/ PointOutcome(backend, op, z).tasks = over(Upto(z.rows))
        \/ PointOutcome(backend, op, z).tasks = over(units)
    <2>1. CASE op = "layer_norm"
      BY <2>1 DEF PointOutcome, CpuLayerNorm, CubeLayerNorm, DefaultLayerNorm, RunLayerNorm,
         Outcome, LayerNormScalar, LayerNormUnits, Rows
    <2>2. CASE op = "rmsnorm"
      BY <2>2 DEF PointOutcome, CubeRmsNorm, DefaultRmsNorm, RunRmsNorm,
         Outcome, RmsNormScalar, RmsNormUnits, Rows
    <2> QED BY <2>1, <2>2
  <1>4. Upto(z.rows) \in SUBSET Nat /\ units \in SUBSET Nat
    BY DEF Upto, RowLaunch
  <1>5. z.hidden # 0 => units = Upto(z.rows)
    BY <1>1, <1>2, RowsThatFit
  <1>6. PointPromised(op, z) =
          [cell \in Upto(z.rows * z.hidden) |->
             {c \in Upto(z.rows * z.hidden) : c \div z.hidden = cell \div z.hidden}]
    BY <1>2 DEF PointPromised
  <1> HIDE DEF units
  <1>7. ASSUME NEW D \in SUBSET Nat, z.hidden # 0 => D = Upto(z.rows)
        PROVE  WritesPromised(over(D), PointPromised(op, z))
    <2>1. WritesPromised(over(D), [cell \in Upto(z.rows * z.hidden) |->
             {c \in Upto(z.rows * z.hidden) : c \div z.hidden = cell \div z.hidden}])
      BY ONLY <1>1, <1>7, RowsWritten
    <2> QED
      BY ONLY <1>6, <2>1
  <1> QED
    BY <1>3, <1>4, <1>5, <1>7

\* Tasks that write a cell each, at a shift.
LEMMA ShiftedWrite ==
  ASSUME NEW n \in Nat, NEW shift \in Nat, NEW tasks, NEW promised,
         DOMAIN tasks = Upto(n), DOMAIN promised = shift..(shift + n - 1),
         \A i \in Upto(n) : tasks[i].out = {shift + i} /\ tasks[i].from = promised[shift + i]
  PROVE  WritesPromised(tasks, promised)
  <1> DEFINE at == [u \in Upto(n) |-> shift + u]
  <1>1. DOMAIN promised = {at[u] : u \in Upto(n)}
    <2>1. \A c \in shift..(shift + n - 1) : c - shift \in 0..(n - 1) /\ c = shift + (c - shift)
      OBVIOUS
    <2>2. \A u \in 0..(n - 1) : shift + u \in shift..(shift + n - 1)
      OBVIOUS
    <2>3. {at[u] : u \in Upto(n)} = {shift + u : u \in 0..(n - 1)}
      BY DEF Upto
    <2>4. {shift + u : u \in 0..(n - 1)} = shift..(shift + n - 1)
      BY ONLY <2>1, <2>2
    <2> QED
      BY <2>3, <2>4
  <1>2. \A u \in Upto(n) : tasks[u].out = {at[u]} /\ tasks[u].from = promised[at[u]]
    OBVIOUS
  <1>3. \A u, v \in Upto(n) : at[u] = at[v] => u = v
    BY DEF Upto
  <1> HIDE DEF at
  <1> QED
    BY <1>1, <1>2, <1>3, WritesCells

\* add_positional_embedding_d.
LEMMA PositionsWrite ==
  ASSUME NEW z, PointSizes(z), NEW backend \in {"default", "cpu", "cubecl"},
         PointOutcome(backend, "positions", z).ok
  PROVE  WritesPromised(PointOutcome(backend, "positions", z).tasks,
                        PointPromised("positions", z))
  <1> DEFINE tasks == WithPositions(z, Upto(z.len.a))
             promised == PointPromised("positions", z)
  <1>1. z.rows \in Nat /\ z.hidden \in Nat /\ z.start \in Nat /\ z.len.a \in Nat
    BY DEF PointSizes
  <1>2. z.len.a = z.rows * z.hidden
    BY DEF PointOutcome, CpuPositions, CubePositions, DefaultPositions, RunPositions,
       ValidPositions, Outcome
  <1>3. PointOutcome(backend, "positions", z).tasks = tasks
    <2>1. PositionsOut(z) = tasks
      BY <1>1, PointUnits DEF PositionsOut
    <2> QED
      BY <2>1 DEF PointOutcome, CpuPositions, CubePositions, DefaultPositions, RunPositions,
         Outcome
  <1>4. ASSUME NEW i \in Upto(z.len.a)
        PROVE  (z.start + (i \div z.hidden)) * z.hidden + (i % z.hidden) = z.start * z.hidden + i
    <2>1. z.hidden # 0
      BY <1>1, <1>2 DEF Upto
    <2>2. i \in 0..(z.rows * z.hidden - 1) /\ z.hidden \in Nat \ {0}
      BY <1>1, <1>2, <2>1 DEF Upto
    <2>3. i \div z.hidden \in 0..(z.rows - 1) /\ i % z.hidden \in 0..(z.hidden - 1)
          /\ (i \div z.hidden) * z.hidden + (i % z.hidden) = i
      BY ONLY <1>1, <2>2, Decomposed
    <2> DEFINE q == i \div z.hidden
    <2>4. q \in Nat /\ i % z.hidden \in Nat
      BY <2>3
    <2> HIDE DEF q
    <2>5. (z.start + q) * z.hidden = z.start * z.hidden + q * z.hidden
          /\ z.start * z.hidden \in Nat /\ q * z.hidden \in Nat
      BY <1>1, <2>4
    <2> QED
      BY <2>3, <2>4, <2>5 DEF q
  <1>5. /\ DOMAIN tasks = Upto(z.len.a) /\ DOMAIN promised = 0..(0 + z.len.a - 1)
        /\ \A i \in Upto(z.len.a) : tasks[i].out = {0 + i} /\ tasks[i].from = promised[0 + i]
    <2>1. promised = [cell \in Upto(z.len.a) |->
             <<cell, (z.start + (cell \div z.hidden)) * z.hidden + (cell % z.hidden)>>]
      BY DEF PointPromised
    <2>2. \A i \in Upto(z.len.a) : promised[i] = <<i, z.start * z.hidden + i>>
      BY ONLY <1>4, <2>1
    <2>3. \A i \in Upto(z.len.a) :
             tasks[i].out = {i} /\ tasks[i].from = <<i, z.start * z.hidden + i>>
      BY DEF WithPositions
    <2>4. DOMAIN tasks = Upto(z.len.a)
      BY DEF WithPositions
    <2>5. DOMAIN promised = 0..(0 + z.len.a - 1) /\ \A i \in Upto(z.len.a) : 0 + i = i
      BY <1>1, <2>1 DEF Upto
    <2> HIDE DEF tasks, promised
    <2> QED
      BY <2>2, <2>3, <2>4, <2>5
  <1> HIDE DEF tasks, promised
  <1>6. WritesPromised(tasks, promised)
    BY <1>1, <1>5, ShiftedWrite
  <1> QED
    BY <1>3, <1>6 DEF promised

\* copy_into_d.
LEMMA CopyWrites ==
  ASSUME NEW z, PointSizes(z), NEW backend \in {"default", "cpu", "cubecl"},
         PointOutcome(backend, "copy", z).ok
  PROVE  WritesPromised(PointOutcome(backend, "copy", z).tasks, PointPromised("copy", z))
  <1> DEFINE tasks == CopyCells(z, Upto(z.len.b))
             promised == PointPromised("copy", z)
  <1>1. z.start \in Nat /\ z.len.b \in Nat
    BY DEF PointSizes
  <1>2. PointOutcome(backend, "copy", z).tasks = tasks
    <2>1. CopyUnits(z) = tasks
      BY <1>1, PointUnits DEF CopyUnits
    <2> QED
      BY <2>1 DEF PointOutcome, CubeCopy, DefaultCopy, RunCopy, Outcome
  <1>3. /\ DOMAIN tasks = Upto(z.len.b) /\ DOMAIN promised = z.start..(z.start + z.len.b - 1)
        /\ \A i \in Upto(z.len.b) :
             tasks[i].out = {z.start + i} /\ tasks[i].from = promised[z.start + i]
    BY <1>1 DEF CopyCells, PointPromised, Upto
  <1> HIDE DEF tasks, promised
  <1>4. WritesPromised(tasks, promised)
    BY <1>1, <1>3, ShiftedWrite
  <1> QED
    BY <1>2, <1>4 DEF promised

\* The heads are of even sizes.
Halves(half, d) == d = 2 * half

\* Cell c is one of pair i of head h, of n heads of d cells.
PairAt(c, h, i, n, d, half) ==
  /\ c \in 0..(n * d - 1)
  /\ c \div d = h
  /\ (c % d) % half = i
  /\ c - (c % d) + ((c % d) % half) = h * d + i

\* Two cells of a head that turn together, in the head they belong to.
LEMMA PairPlace ==
  ASSUME NEW half \in Nat \ {0}, NEW d \in Nat \ {0}, Halves(half, d), NEW n \in Nat,
         NEW h \in 0..(n - 1), NEW i \in 0..(half - 1),
         NEW c \in {h * d + i, h * d + i + half}
  PROVE  PairAt(c, h, i, n, d, half)
  <1>1. d \in Nat \ {0} /\ h \in Nat /\ h * d \in Nat /\ i \in Nat
    BY DEF Halves
  <1>2. PICK x \in {i, i + half} : c = h * d + x
    <2>1. h * d + (i + half) = h * d + i + half
      BY <1>1
    <2> QED
      BY <2>1
  <1>3. x \in 0..(d - 1)
    BY DEF Halves
  <1>4. x % half = i
    <2>1. CASE x = i
      <3>1. (0 * half + i) % half = i
        BY QuotientOf
      <3> QED
        BY <2>1, <3>1
    <2>2. CASE x = i + half
      <3>1. (1 * half + i) % half = i
        BY QuotientOf
      <3> QED
        BY <2>2, <3>1
    <2> QED BY <2>1, <2>2
  <1>5. (h * d + x) \div d = h /\ (h * d + x) % d = x
    BY ONLY <1>1, <1>3, QuotientOf
  <1>6. h * d + x \in 0..(n * d - 1)
    BY ONLY <1>1, <1>3, Composed
  <1>7. c - x + i = h * d + i
    BY <1>1, <1>2, <1>3
  <1> QED
    BY ONLY <1>2, <1>4, <1>5, <1>6, <1>7 DEF PairAt

\* and every cell is one of them.
LEMMA PlaceOfPair ==
  ASSUME NEW half \in Nat \ {0}, NEW d \in Nat \ {0}, Halves(half, d), NEW n \in Nat,
         NEW c \in 0..(n * d - 1)
  PROVE  \E h \in 0..(n - 1), i \in 0..(half - 1) :
           c \in {h * d + i, h * d + i + half}
  <1> DEFINE h == c \div d
             x == c % d
  <1>1. d \in Nat \ {0}
    BY DEF Halves
  <1>2. h \in 0..(n - 1) /\ x \in 0..(d - 1) /\ h * d + x = c
    BY ONLY <1>1, c \in 0..(n * d - 1), n \in Nat, Decomposed
  <1>3. d = half + half /\ h * d \in Nat
    BY <1>1, <1>2 DEF Halves
  <1> HIDE DEF h, x
  <1>4. CASE x < half
    <2>1. x \in 0..(half - 1) /\ c = h * d + x
      BY <1>2, <1>4
    <2> QED
      BY <1>2, <2>1
  <1>5. CASE ~(x < half)
    <2>1. x - half \in 0..(half - 1) /\ c = h * d + (x - half) + half
      BY <1>2, <1>3, <1>5
    <2> QED
      BY <1>2, <2>1
  <1> QED
    BY <1>4, <1>5

PairsOf(n, half) == (0..(n - 1)) \X (0..(half - 1))

\* A task for each pair of each head, by the angle of its own.
TurnsOf(tasks, n, d, half, angle) ==
  /\ DOMAIN tasks = PairsOf(n, half)
  /\ \A u \in PairsOf(n, half) : tasks[u] = Turn(u[1] * d, u[2], half, angle[u])

LowOf(c, d, half) == c - (c % d) + ((c % d) % half)
PairWith(c, d, half) == <<c \div d, (c % d) % half>>
PromisesTurns(promised, n, d, half, angle) ==
  /\ DOMAIN promised = 0..(n * d - 1)
  /\ \A c \in 0..(n * d - 1) :
       promised[c] = <<LowOf(c, d, half), LowOf(c, d, half) + half, angle[PairWith(c, d, half)]>>

\* Both cells of a pair are in the row that the pair is of.
LEMMA PairWithin ==
  ASSUME NEW half \in Nat \ {0}, NEW d \in Nat \ {0}, NEW n \in Nat, NEW c \in 0..(n * d - 1)
  PROVE  PairWith(c, d, half) \in PairsOf(n, half)
  <1>1. c \div d \in 0..(n - 1) /\ c % d \in 0..(d - 1)
    BY Decomposed
  <1>2. \A x \in 0..(d - 1) : x % half \in 0..(half - 1)
    BY Remainder
  <1> QED
    BY <1>1, <1>2 DEF PairWith, PairsOf

\* Pairs that are turned once each, and are promised to be, are as promised.
LEMMA TurnsWritten ==
  ASSUME NEW half \in Nat \ {0}, NEW d \in Nat \ {0}, Halves(half, d), NEW n \in Nat, NEW angle,
         NEW tasks, TurnsOf(tasks, n, d, half, angle),
         NEW promised, PromisesTurns(promised, n, d, half, angle)
  PROVE  WritesPromised(tasks, promised)
  <1> DEFINE D == PairsOf(n, half)
             low(u) == u[1] * d + u[2]
             cells(u) == {low(u), low(u) + half}
  <1>1. /\ DOMAIN tasks = D
        /\ \A u \in D : /\ tasks[u].out = cells(u)
                        /\ tasks[u].from = <<low(u), low(u) + half, angle[u]>>
    BY DEF Turn, PairOf, TurnsOf
  <1>2. \A u \in D : u = <<u[1], u[2]>> /\ u[1] \in 0..(n - 1) /\ u[2] \in 0..(half - 1)
    BY DEF PairsOf
  <1>3. DOMAIN promised = 0..(n * d - 1)
    BY DEF PromisesTurns
  <1>4. ASSUME NEW u \in D, NEW c \in cells(u)
        PROVE  /\ c \in DOMAIN promised /\ PairWith(c, d, half) = u
               /\ promised[c] = <<low(u), low(u) + half, angle[u]>>
    <2> DEFINE h == u[1]
               i == u[2]
    <2>1. h \in 0..(n - 1) /\ i \in 0..(half - 1) /\ c \in {h * d + i, h * d + i + half}
          /\ u = <<h, i>>
      BY <1>2
    <2> HIDE DEF h, i
    <2>2. PairAt(c, h, i, n, d, half)
      BY ONLY half \in Nat \ {0}, d \in Nat \ {0}, Halves(half, d), n \in Nat, <2>1, PairPlace
    <2>3. c \in 0..(n * d - 1) /\ PairWith(c, d, half) = <<h, i>> /\ LowOf(c, d, half) = h * d + i
      BY ONLY <2>2 DEF PairAt, PairWith, LowOf
    <2>4. promised[c] = <<h * d + i, h * d + i + half, angle[<<h, i>>]>>
      BY <2>3 DEF PromisesTurns
    <2> QED
      BY <1>3, <2>1, <2>3, <2>4 DEF h, i
  <1>5. ASSUME NEW c \in DOMAIN promised
        PROVE  \E u \in D : c \in cells(u)
    <2>1. PICK h \in 0..(n - 1), i \in 0..(half - 1) : c \in {h * d + i, h * d + i + half}
      BY <1>3, PlaceOfPair
    <2>2. <<h, i>> \in D /\ c \in cells(<<h, i>>)
      BY <2>1 DEF PairsOf
    <2> QED
      BY <2>2
  <1> HIDE DEF D, low, cells
  <1>6. UNION {tasks[u].out : u \in D} = DOMAIN promised
    <2>1. ASSUME NEW u \in D, NEW c \in tasks[u].out
          PROVE  c \in DOMAIN promised
      BY ONLY <1>1, <1>4, <2>1
    <2>2. ASSUME NEW c \in DOMAIN promised
          PROVE  \E u \in D : c \in tasks[u].out
      BY ONLY <1>1, <1>5, <2>2
    <2> QED
      BY ONLY <2>1, <2>2
  <1>7. \A u \in D : \A c \in tasks[u].out : tasks[u].from = promised[c]
    BY ONLY <1>1, <1>4
  <1>8. \A u, v \in D : u # v => tasks[u].out \cap tasks[v].out = {}
    BY ONLY <1>1, <1>4
  <1> QED
    BY ONLY <1>1, <1>6, <1>7, <1>8 DEF WritesPromised

\* Pairs numbered through all heads, as the units of the GPU are,
NumberedPairs(others, tasks, n, half) ==
  /\ DOMAIN tasks = (0..(n - 1)) \X (0..(half - 1)) /\ DOMAIN others = 0..(n * half - 1)
  /\ \A p \in DOMAIN others : others[p] = tasks[<<p \div half, p - (p \div half) * half>>]

\* Numbered so, they do what they did row by row.
LEMMA ByNumberOfPair ==
  ASSUME NEW half \in Nat \ {0}, NEW n \in Nat, NEW tasks, NEW promised,
         WritesPromised(tasks, promised), NEW others, NumberedPairs(others, tasks, n, half)
  PROVE  WritesPromised(others, promised)
  <1> USE DEF NumberedPairs
  <1> DEFINE f == [p \in DOMAIN others |-> <<p \div half, p - (p \div half) * half>>]
  <1>1. ASSUME NEW p \in DOMAIN others
        PROVE  /\ p \div half \in 0..(n - 1) /\ p - (p \div half) * half \in 0..(half - 1)
               /\ (p \div half) * half + (p - (p \div half) * half) = p
    <2>1. p \in 0..(n * half - 1) /\ p \in Nat
      BY n * half \in Nat
    <2>2. /\ p \div half \in 0..(n - 1) /\ p % half \in 0..(half - 1)
          /\ (p \div half) * half + (p % half) = p
      BY ONLY half \in Nat \ {0}, n \in Nat, <2>1, Decomposed
    <2> DEFINE q == p \div half
    <2>3. q \in 0..(n - 1) /\ p % half \in 0..(half - 1) /\ q * half + (p % half) = p
      BY <2>2
    <2> HIDE DEF q
    <2>4. q * half \in Nat
      BY ONLY half \in Nat \ {0}, n \in Nat, <2>3
    <2>5. p - q * half = p % half
      BY ONLY <2>1, <2>3, <2>4, half \in Nat \ {0}
    <2>6. q \in 0..(n - 1) /\ p - q * half \in 0..(half - 1) /\ q * half + (p - q * half) = p
      BY ONLY <2>3, <2>5
    <2> QED
      BY <2>6 DEF q
  <1>2. \A p \in DOMAIN others : f[p] \in DOMAIN tasks /\ others[p] = tasks[f[p]]
    BY <1>1
  <1>3. ASSUME NEW v \in DOMAIN tasks
        PROVE  \E p \in DOMAIN others : f[p] = v
    <2>1. PICK a \in 0..(n - 1), i \in 0..(half - 1) : v = <<a, i>>
      OBVIOUS
    <2>2. a * half + i \in DOMAIN others
      BY Composed
    <2>3. (a * half + i) \div half = a
      BY ONLY half \in Nat \ {0}, a \in 0..(n - 1), n \in Nat, i \in 0..(half - 1), QuotientOf
    <2>4. a * half \in Nat /\ (a * half + i) - a * half = i
      OBVIOUS
    <2>5. f[a * half + i] = <<a, i>>
      BY <2>2, <2>3, <2>4
    <2> QED
      BY <2>1, <2>2, <2>5
  <1>4. ASSUME NEW p \in DOMAIN others, NEW r \in DOMAIN others, f[p] = f[r]
        PROVE  p = r
    <2>1. p \div half = r \div half /\ p - (p \div half) * half = r - (r \div half) * half
      BY <1>4
    <2> QED
      BY <1>1, <2>1
  <1> HIDE DEF f
  <1> QED
    BY ONLY WritesPromised(tasks, promised), <1>2, <1>3, <1>4, Renumbered

\* and heads told by their first cells, as on the host.
FirstCells(others, tasks, n, d, S) ==
  /\ DOMAIN tasks = (0..(n - 1)) \X S /\ DOMAIN others = Steps(n * d, d) \X S
  /\ \A u \in DOMAIN others : others[u] = tasks[<<u[1] \div d, u[2]>>]

\* So they do by first cell.
LEMMA ByFirstCell ==
  ASSUME NEW d \in Nat \ {0}, NEW n \in Nat, NEW S, NEW tasks, NEW promised,
         WritesPromised(tasks, promised), NEW others, FirstCells(others, tasks, n, d, S)
  PROVE  WritesPromised(others, promised)
  <1> USE DEF FirstCells
  <1> DEFINE f == [u \in DOMAIN others |-> <<u[1] \div d, u[2]>>]
  <1>1. ASSUME NEW b \in Steps(n * d, d)
        PROVE  b \div d \in 0..(n - 1) /\ (b \div d) * d = b
    <2>1. b \in 0..(n * d - 1) /\ b % d = 0
      BY DEF Steps
    <2>2. b \div d \in 0..(n - 1) /\ (b \div d) * d + (b % d) = b
      BY ONLY d \in Nat \ {0}, n \in Nat, <2>1, Decomposed
    <2>3. (b \div d) * d \in Nat
      BY <2>2
    <2> QED
      BY ONLY <2>1, <2>2, <2>3
  <1>2. \A u \in DOMAIN others :
           u = <<u[1], u[2]>> /\ u[1] \in Steps(n * d, d) /\ u[2] \in S
    OBVIOUS
  <1>3. \A u \in DOMAIN others : f[u] \in DOMAIN tasks /\ others[u] = tasks[f[u]]
    BY <1>1, <1>2
  <1>4. ASSUME NEW v \in DOMAIN tasks
        PROVE  \E u \in DOMAIN others : f[u] = v
    <2>1. PICK a \in 0..(n - 1), i \in S : v = <<a, i>>
      OBVIOUS
    <2>2. (a * d) \div d = a /\ (a * d) % d = 0
      BY ONLY d \in Nat \ {0}, a \in 0..(n - 1), n \in Nat, MultipleOf
    <2>3. 0 \in 0..(d - 1) /\ a * d + 0 = a * d
      OBVIOUS
    <2>4. a * d + 0 \in 0..(n * d - 1)
      BY ONLY d \in Nat \ {0}, n \in Nat, <2>3, Composed
    <2>5. a * d \in Steps(n * d, d)
      BY ONLY <2>2, <2>3, <2>4 DEF Steps
    <2>6. <<a * d, i>> \in DOMAIN others /\ f[<<a * d, i>>] = <<a, i>>
      BY <2>2, <2>5
    <2> QED
      BY <2>1, <2>6
  <1>5. ASSUME NEW u \in DOMAIN others, NEW v \in DOMAIN others, f[u] = f[v]
        PROVE  u = v
    <2>1. u[1] \div d = v[1] \div d /\ u[2] = v[2]
      BY <1>5
    <2>2. u[1] = v[1]
      BY <1>1, <1>2, <2>1
    <2> QED
      BY <1>2, <2>1, <2>2
  <1> HIDE DEF f
  <1> QED
    BY ONLY WritesPromised(tasks, promised), <1>3, <1>4, <1>5, Renumbered

\* The quotient and remainder by a product, digit by digit.
Nested(c, m, d) ==
  c \div (m * d) = (c \div d) \div m /\ (c % (m * d)) \div d = (c \div d) % m

\* Dividing twice is dividing by the product.
LEMMA NestedQuotient ==
  ASSUME NEW d \in Nat \ {0}, NEW m \in Nat \ {0}, NEW c \in Nat
  PROVE  Nested(c, m, d)
  <1> DEFINE q == c \div d
             x == c % d
             a == q \div m
             y == q % m
  <1>1. q \in Nat /\ x \in 0..(d - 1) /\ q * d + x = c
    BY Quotient, Remainder
  <1>2. a \in Nat /\ y \in 0..(m - 1) /\ a * m + y = q
    BY <1>1, Quotient, Remainder
  <1>3. m * d \in Nat \ {0}
    OBVIOUS
  <1> HIDE DEF q, x, a, y
  <1>4. y * d + x \in 0..(m * d - 1)
    BY ONLY d \in Nat \ {0}, m \in Nat \ {0}, <1>1, <1>2, Composed
  <1>5. c = a * (m * d) + (y * d + x)
    <2>1. q * d = a * m * d + y * d
      BY <1>2
    <2>2. a * m * d = a * (m * d)
      BY <1>2
    <2>3. y * d \in Nat /\ a * m * d \in Nat /\ x \in Nat
      BY <1>1, <1>2
    <2>4. a * m * d + y * d + x = a * m * d + (y * d + x)
      BY ONLY <2>3
    <2> QED
      BY ONLY <1>1, <2>1, <2>2, <2>4
  <1>6. (a * (m * d) + (y * d + x)) \div (m * d) = a /\ (a * (m * d) + (y * d + x)) % (m * d) = y * d + x
    BY ONLY <1>2, <1>3, <1>4, QuotientOf
  <1>7. (y * d + x) \div d = y
    BY ONLY d \in Nat \ {0}, <1>1, <1>2, QuotientOf
  <1>8. c \div (m * d) = a /\ (c % (m * d)) \div d = y
    BY ONLY <1>5, <1>6, <1>7
  <1> QED
    BY ONLY <1>8 DEF a, y, q, Nested

\* What is promised of the cells of pairs, and the heads that hold them.
LEMMA RopeHeads ==
  ASSUME NEW len \in Nat, NEW d \in Nat \ {0}, d % 2 = 0, len % d = 0
  PROVE  /\ d \div 2 \in Nat \ {0} /\ Halves(d \div 2, d)
         /\ len \div d \in Nat /\ len = (len \div d) * d
         /\ len \div 2 = (len \div d) * (d \div 2)
  <1> DEFINE half == d \div 2
             n == len \div d
  <1>1. half \in Nat /\ half * 2 = d
    BY WholeQuotient
  <1>2. half # 0
    BY <1>1
  <1>3. n \in Nat /\ n * d = len
    BY WholeQuotient
  <1> HIDE DEF half, n
  <1>4. (n * half) * 2 = len /\ n * half \in Nat
    BY <1>1, <1>3
  <1>5. ((n * half) * 2) \div 2 = n * half
    BY ONLY <1>4, MultipleOf
  <1>6. half \in Nat \ {0} /\ d = 2 * half /\ n \in Nat /\ len = n * d /\ len \div 2 = n * half
    BY <1>1, <1>2, <1>3, <1>4, <1>5
  <1> QED
    BY <1>6 DEF half, n, Halves

\* The same tasks as the host goes through them,
TableAngles(angle, table, n, half) == \A u \in PairsOf(n, half) : angle[u] = table[u[2]]
HostTurns(others, n, d, half, table) ==
  /\ DOMAIN others = Steps(n * d, d) \X (0..(half - 1))
  /\ \A u \in DOMAIN others : others[u] = Turn(u[1], u[2], half, table[u[2]])

\* The pairs are turned as promised.
LEMMA TurnsByFirstCell ==
  ASSUME NEW half \in Nat \ {0}, NEW d \in Nat \ {0}, Halves(half, d), NEW n \in Nat,
         NEW table, NEW angle, TableAngles(angle, table, n, half),
         NEW promised, PromisesTurns(promised, n, d, half, angle),
         NEW others, HostTurns(others, n, d, half, table)
  PROVE  WritesPromised(others, promised)
  <1> USE DEF TableAngles, HostTurns
  <1> DEFINE tasks == [u \in PairsOf(n, half) |-> Turn(u[1] * d, u[2], half, angle[u])]
             S == 0..(half - 1)
  <1>1. DOMAIN tasks = (0..(n - 1)) \X S /\ DOMAIN others = Steps(n * d, d) \X S
    BY DEF PairsOf
  <1>2. ASSUME NEW u \in DOMAIN others
        PROVE  others[u] = tasks[<<u[1] \div d, u[2]>>]
    <2> DEFINE q == u[1] \div d
    <2>1. u[1] \in Steps(n * d, d) /\ u[2] \in S
      BY <1>1
    <2>2. u[1] \in 0..(n * d - 1) /\ u[1] % d = 0
      BY ONLY <2>1 DEF Steps
    <2>3. q \in 0..(n - 1) /\ q * d + (u[1] % d) = u[1]
      BY ONLY d \in Nat \ {0}, n \in Nat, <2>2, Decomposed
    <2> HIDE DEF q
    <2>4. q * d \in Nat
      BY ONLY d \in Nat \ {0}, n \in Nat, <2>3
    <2>5. q * d + 0 = u[1]
      BY ONLY <2>2, <2>3
    <2>6. q * d = u[1]
      BY ONLY <2>4, <2>5
    <2>7. <<q, u[2]>> \in PairsOf(n, half)
      BY ONLY <2>1, <2>3 DEF PairsOf, S
    <2>8. angle[<<q, u[2]>>] = table[u[2]]
      BY <2>7
    <2>9. tasks[<<q, u[2]>>] = Turn(q * d, u[2], half, table[u[2]])
      BY ONLY <2>7, <2>8
    <2> QED
      BY <2>6, <2>9 DEF q
  <1>3. WritesPromised(tasks, promised)
    <2>1. TurnsOf(tasks, n, d, half, angle)
      BY DEF TurnsOf
    <2> HIDE DEF tasks
    <2> QED
      BY <2>1, TurnsWritten
  <1> HIDE DEF tasks, S
  <1>4. FirstCells(others, tasks, n, d, S)
    BY ONLY <1>1, <1>2 DEF FirstCells
  <1> QED
    BY ONLY d \in Nat \ {0}, n \in Nat, <1>3, <1>4, ByFirstCell

\* and as the units of the GPU do.
UnitTurns(others, n, d, half, angle) ==
  /\ DOMAIN others = 0..(n * half - 1)
  /\ \A u \in PairsOf(n, half) : \A p \in DOMAIN others :
       u = <<p \div half, p - (p \div half) * half>> =>
         others[p] = Turn(u[1] * d, u[2], half, angle[u])

\* The pairs are turned as promised here too.
LEMMA TurnsByNumber ==
  ASSUME NEW half \in Nat \ {0}, NEW d \in Nat \ {0}, Halves(half, d), NEW n \in Nat, NEW angle,
         NEW promised, PromisesTurns(promised, n, d, half, angle),
         NEW others, UnitTurns(others, n, d, half, angle)
  PROVE  WritesPromised(others, promised)
  <1> USE DEF UnitTurns
  <1> DEFINE tasks == [u \in PairsOf(n, half) |-> Turn(u[1] * d, u[2], half, angle[u])]
  <1>1. ASSUME NEW p \in DOMAIN others
        PROVE  others[p] = tasks[<<p \div half, p - (p \div half) * half>>]
    <2> DEFINE q == p \div half
               i == p - q * half
    <2>0. p \in 0..(n * half - 1)
      OBVIOUS
    <2>1. q \in 0..(n - 1) /\ p % half \in 0..(half - 1) /\ q * half + (p % half) = p
      BY ONLY half \in Nat \ {0}, n \in Nat, <2>0, Decomposed
    <2> HIDE DEF q
    <2>2. q * half \in Nat
      BY ONLY half \in Nat \ {0}, n \in Nat, <2>1
    <2>3. i = p % half
      BY ONLY half \in Nat \ {0}, <2>1, <2>2
    <2>4. <<q, i>> \in PairsOf(n, half)
      BY ONLY <2>1, <2>3 DEF PairsOf
    <2> HIDE DEF i
    <2>5. <<q, i>> = <<p \div half, p - (p \div half) * half>>
      BY DEF q, i
    <2>6. others[p] = Turn(<<q, i>>[1] * d, <<q, i>>[2], half, angle[<<q, i>>])
      BY <2>4, <2>5
    <2>7. others[p] = tasks[<<q, i>>]
      BY ONLY <2>4, <2>6
    <2> QED
      BY ONLY <2>5, <2>7
  <1>2. WritesPromised(tasks, promised)
    <2>1. TurnsOf(tasks, n, d, half, angle)
      BY DEF TurnsOf
    <2> HIDE DEF tasks
    <2> QED
      BY <2>1, TurnsWritten
  <1>3. DOMAIN tasks = (0..(n - 1)) \X (0..(half - 1))
    BY DEF PairsOf
  <1> HIDE DEF tasks
  <1>4. NumberedPairs(others, tasks, n, half)
    <2>1. DOMAIN others = 0..(n * half - 1)
      OBVIOUS
    <2> QED
      BY ONLY <1>1, <1>3, <2>1 DEF NumberedPairs
  <1> QED
    BY ONLY half \in Nat \ {0}, n \in Nat, <1>2, <1>4, ByNumberOfPair

\* apply_rope_d and apply_rope_with_factors_d.
LEMMA RopeWrites ==
  ASSUME NEW z, PointSizes(z), NEW backend \in {"default", "cpu", "cubecl"},
         NEW op \in {"rope", "rope with factors"}, PointOutcome(backend, op, z).ok
  PROVE  WritesPromised(PointOutcome(backend, op, z).tasks, PointPromised(op, z))
  <1> DEFINE d == z.dim
             half == d \div 2
             n == z.len.a \div d
             factor == op # "rope"
             table == [i \in Upto(half) |-> [pair |-> i, factor |-> factor]]
             angle == [u \in PairsOf(n, half) |-> [pair |-> u[2], factor |-> factor]]
             promised == PointPromised(op, z)
             others == PointOutcome(backend, op, z).tasks
  <1>1. ValidRope(z)
    BY DEF PointOutcome, RopeCubecl, RopeInplace, RopeWithFactors, Outcome
  <1>2. z.len.a \in Nat /\ d \in Nat \ {0} /\ d % 2 = 0 /\ z.len.a % d = 0
    BY <1>1 DEF ValidRope, PointSizes
  <1>3. /\ half \in Nat \ {0} /\ Halves(half, d) /\ n \in Nat
        /\ z.len.a = n * d /\ z.len.a \div 2 = n * half
    BY ONLY <1>2, RopeHeads
  <1>4. half \in Nat \ {0} /\ d \in Nat \ {0} /\ Halves(half, d) /\ n \in Nat
    BY ONLY <1>2, <1>3
  <1>5. PromisesTurns(promised, n, d, half, angle)
    <2>1. promised = [c \in Upto(z.len.a) |->
             <<LowOf(c, d, half), LowOf(c, d, half) + half,
               [pair |-> (c % d) % half, factor |-> factor]>>]
      BY DEF PointPromised, LowOf
    <2>2. Upto(z.len.a) = 0..(n * d - 1)
      BY <1>3 DEF Upto
    <2> HIDE DEF promised, d, half, n, factor
    <2>3. ASSUME NEW c, c \in 0..(n * d - 1)
          PROVE  angle[PairWith(c, d, half)] = [pair |-> (c % d) % half, factor |-> factor]
      <3>1. PairWith(c, d, half) \in PairsOf(n, half)
        BY ONLY <1>4, <2>3, PairWithin
      <3>2. PairWith(c, d, half)[2] = (c % d) % half
        BY DEF PairWith
      <3> QED
        BY ONLY <3>1, <3>2
    <2> HIDE DEF angle
    <2> QED
      BY ONLY <2>1, <2>2, <2>3 DEF PromisesTurns
  <1>6. \/ others = ApplyTables(z, table)
        \/ others = RopeUnits(z) /\ op = "rope"
    <2>1. CASE op = "rope"
      <3>1. table = TrigTable(z)
        BY <2>1 DEF TrigTable
      <3> HIDE DEF table
      <3> QED
        BY <2>1, <3>1 DEF PointOutcome, RopeCubecl, RopeInplace, Outcome
    <2>2. CASE op = "rope with factors"
      <3>1. table = TrigTableWithFactors(z)
        BY <2>2 DEF TrigTableWithFactors
      <3> HIDE DEF table
      <3> QED
        BY <2>2, <3>1 DEF PointOutcome, RopeWithFactors, Outcome
    <2> QED BY <2>1, <2>2
  <1>7. CASE others = ApplyTables(z, table)
    <2>1. DOMAIN others = Steps(n * d, d) \X (0..(half - 1))
      BY <1>3, <1>7 DEF ApplyTables, Upto
    <2>2. \A u \in DOMAIN others : others[u] = Turn(u[1], u[2], half, table[u[2]])
      <3> HIDE DEF others, promised, table, angle
      <3>1. others = [u \in Steps(z.len.a, d) \X Upto(half) |->
                        Turn(u[1], u[2], half, table[u[2]])]
        BY ONLY <1>7 DEF ApplyTables
      <3> QED
        BY ONLY <3>1
    <2> HIDE DEF d, n, half, factor, others, promised
    <2>3. \A u \in PairsOf(n, half) : angle[u] = table[u[2]]
      BY DEF PairsOf, Upto
    <2> HIDE DEF table, angle
    <2>4. HostTurns(others, n, d, half, table) /\ TableAngles(angle, table, n, half)
      BY ONLY <2>1, <2>2, <2>3 DEF HostTurns, TableAngles
    <2>5. WritesPromised(others, promised)
      BY ONLY <1>4, <1>5, <2>4, TurnsByFirstCell
    <2> QED
      BY <2>5 DEF others, promised
  <1>8. CASE others = RopeUnits(z) /\ op = "rope"
    <2>1. others = [p \in Upto(z.len.a \div 2) |->
                      Turn((p \div half) * d, p - (p \div half) * half, half,
                           TrigTable(z)[p - (p \div half) * half])]
      BY <1>8 DEF RopeUnits
    <2>2. Upto(z.len.a \div 2) = 0..(n * half - 1)
      BY <1>3 DEF Upto
    <2>3. TrigTable(z) = [i \in Upto(half) |-> [pair |-> i, factor |-> factor]]
      BY <1>8 DEF TrigTable
    <2> HIDE DEF d, n, half, factor, others, promised
    <2>4. DOMAIN others = 0..(n * half - 1)
      BY ONLY <2>1, <2>2
    <2>5. ASSUME NEW u \in PairsOf(n, half), NEW p \in DOMAIN others,
                 u = <<p \div half, p - (p \div half) * half>>
          PROVE  others[p] = Turn(u[1] * d, u[2], half, angle[u])
      <3>1. u[1] = p \div half /\ u[2] = p - (p \div half) * half
        BY <2>5
      <3>2. others[p] = Turn(u[1] * d, u[2], half, TrigTable(z)[u[2]])
        BY ONLY <2>1, <2>2, <2>4, <3>1, p \in DOMAIN others
      <3>3. u[2] \in Upto(half)
        BY DEF PairsOf, Upto
      <3>4. TrigTable(z)[u[2]] = angle[u]
        BY ONLY <2>3, <3>3, u \in PairsOf(n, half) DEF angle
      <3> QED
        BY ONLY <3>2, <3>4
    <2> HIDE DEF angle
    <2>6. UnitTurns(others, n, d, half, angle)
      BY ONLY <2>4, <2>5 DEF UnitTurns
    <2>7. WritesPromised(others, promised)
      BY ONLY <1>4, <1>5, <2>6, TurnsByNumber
    <2> QED
      BY <2>7 DEF others, promised
  <1> QED
    BY <1>6, <1>7, <1>8

\* rope_tables_d.
LEMMA TablesWrite ==
  ASSUME NEW z, PointSizes(z), NEW backend, WholeTables(z)
  PROVE  WritesPromised(PointOutcome(backend, "rope tables", z).tasks,
                        PointPromised("rope tables", z))
         \/ ~PointOutcome(backend, "rope tables", z).ok
  <1> DEFINE d == z.dim
             half == d \div 2
             n == z.len.a \div d
             angle == [u \in PairsOf(n, half) |-> (u[1] \div z.heads) * half + u[2]]
             promised == PointPromised("rope tables", z)
             host == RopeTablesHost(z)
             units == RopeTablesUnits(z)
  <1>1. /\ z.len.a \in Nat /\ z.heads \in Nat \ {0}
        /\ d \in Nat \ {0} /\ d % 2 = 0 /\ z.len.a % d = 0
    BY DEF WholeTables, PointSizes
  <1>2. /\ half \in Nat \ {0} /\ Halves(half, d) /\ n \in Nat
        /\ z.len.a = n * d
    BY ONLY <1>1, RopeHeads
  <1>3. half \in Nat \ {0} /\ d \in Nat \ {0} /\ Halves(half, d) /\ n \in Nat
    BY ONLY <1>1, <1>2
  <1>4. PromisesTurns(promised, n, d, half, angle)
    <2>1. promised = [c \in Upto(z.len.a) |->
             <<LowOf(c, d, half), LowOf(c, d, half) + half,
               (c \div (z.heads * d)) * half + ((c % d) % half)>>]
      BY DEF PointPromised, LowOf
    <2>2. Upto(z.len.a) = 0..(n * d - 1)
      BY <1>2 DEF Upto
    <2> HIDE DEF promised, d, half, n
    <2>3. ASSUME NEW c, c \in 0..(n * d - 1)
          PROVE  angle[PairWith(c, d, half)] = (c \div (z.heads * d)) * half + ((c % d) % half)
      <3>1. PairWith(c, d, half) \in PairsOf(n, half)
        BY ONLY <1>3, <2>3, PairWithin
      <3>2. PairWith(c, d, half)[1] = c \div d /\ PairWith(c, d, half)[2] = (c % d) % half
        BY DEF PairWith
      <3>3. c \in Nat
        <4>1. n * d \in Nat
          BY ONLY <1>3
        <4> QED
          BY ONLY <2>3, <4>1
      <3>4. c \div (z.heads * d) = (c \div d) \div z.heads
        <4>1. Nested(c, z.heads, d)
          BY ONLY <1>1, <3>3, NestedQuotient
        <4> QED
          BY ONLY <4>1 DEF Nested
      <3>5. angle[PairWith(c, d, half)] = ((c \div d) \div z.heads) * half + ((c % d) % half)
        BY ONLY <3>1, <3>2 DEF angle
      <3> QED
        BY ONLY <3>4, <3>5
    <2> HIDE DEF angle
    <2> QED
      BY ONLY <2>1, <2>2, <2>3 DEF PromisesTurns
  <1>5. WritesPromised(host, promised)
    <2>1. host = [u \in Upto(n) \X Upto(half) |->
             Turn(u[1] * d, u[2], half, (u[1] \div z.heads) * half + u[2])]
      BY DEF RopeTablesHost, RowTurn, Position
    <2> HIDE DEF d, half, n, host, promised
    <2>2. TurnsOf(host, n, d, half, angle)
      BY ONLY <2>1 DEF TurnsOf, PairsOf, Upto, angle
    <2> HIDE DEF angle
    <2> QED
      BY ONLY <1>3, <1>4, <2>2, TurnsWritten
  <1>6. WritesPromised(units, promised)
    <2>1. units = [p \in {c \in CellLaunch(n * half) : c < n * half} |->
             Turn((p \div half) * d, p - (p \div half) * half, half,
                  ((p \div half) \div z.heads) * half + (p - (p \div half) * half))]
      BY DEF RopeTablesUnits, RowTurn, Position
    <2> HIDE DEF d, half, n, units, promised
    <2>2. {c \in CellLaunch(n * half) : c < n * half} = 0..(n * half - 1)
      <3>1. n * half \in Nat
        BY ONLY <1>3
      <3> QED
        BY ONLY <3>1, PointUnits DEF Upto
    <2>3. ASSUME NEW u \in PairsOf(n, half), NEW p \in DOMAIN units,
                 u = <<p \div half, p - (p \div half) * half>>
          PROVE  units[p] = Turn(u[1] * d, u[2], half, angle[u])
      <3>1. u[1] = p \div half /\ u[2] = p - (p \div half) * half
        BY <2>3
      <3>2. angle[u] = (u[1] \div z.heads) * half + u[2]
        BY DEF angle
      <3> QED
        BY ONLY <2>1, <2>2, <3>1, <3>2, p \in DOMAIN units
    <2> HIDE DEF angle
    <2>4. UnitTurns(units, n, d, half, angle)
      BY ONLY <2>1, <2>2, <2>3 DEF UnitTurns
    <2> QED
      BY ONLY <1>3, <1>4, <2>4, TurnsByNumber
  <1>7. \/ ~PointOutcome(backend, "rope tables", z).ok
        \/ PointOutcome(backend, "rope tables", z).tasks \in {host, units}
    BY DEF PointOutcome, RopeTables, RunRopeTables, Outcome
  <1> HIDE DEF host, units, promised
  <1>8. \/ ~PointOutcome(backend, "rope tables", z).ok
        \/ WritesPromised(PointOutcome(backend, "rope tables", z).tasks, promised)
    BY ONLY <1>5, <1>6, <1>7
  <1> QED
    BY <1>8 DEF promised

\* The head of a group by the size of groups, and by the share of heads.
LEMMA GroupOf ==
  ASSUME NEW kv \in Nat \ {0}, NEW heads \in Nat \ {0}, heads % kv = 0, NEW h \in Nat
  PROVE  (h * kv) \div heads = h \div (heads \div kv)
  <1> DEFINE g == heads \div kv
             a == h \div g
             y == h % g
  <1>1. g \in Nat /\ g * kv = heads
    BY WholeQuotient
  <1> HIDE DEF g
  <1>2. g # 0
    BY <1>1
  <1>3. a \in Nat /\ y \in 0..(g - 1) /\ a * g + y = h
    BY <1>1, <1>2, Quotient, Remainder
  <1> HIDE DEF a, y
  <1>4. y * kv + 0 \in 0..(g * kv - 1)
    BY ONLY <1>1, <1>3, kv \in Nat \ {0}, 0 \in 0..(kv - 1), Composed
  <1>5. y * kv \in 0..(heads - 1)
    <2>1. y * kv \in Nat
      BY ONLY <1>1, <1>3, kv \in Nat \ {0}
    <2> QED
      BY ONLY <1>1, <1>4, <2>1
  <1>6. (a * heads + y * kv) \div heads = a
    BY ONLY <1>3, <1>5, heads \in Nat \ {0}, QuotientOf
  <1>7. h * kv = a * heads + y * kv
    <2>1. h * kv = a * g * kv + y * kv
      BY <1>1, <1>3
    <2>2. a * g * kv = a * heads
      BY <1>1, <1>3
    <2> QED
      BY ONLY <2>1, <2>2
  <1> QED
    BY ONLY <1>6, <1>7 DEF a, g

\* A cell of three digits: a token, a head and a place in it.
DigitsAre(c, t, m, d, a, h, x) ==
  /\ c \in 0..(t * m * d - 1)
  /\ c \div (m * d) = a /\ (c % (m * d)) \div d = h /\ c % d = x

\* Those digits are told from the cell.
LEMMA ThreeDigits ==
  ASSUME NEW t \in Nat, NEW m \in Nat \ {0}, NEW d \in Nat \ {0},
         NEW a \in 0..(t - 1), NEW h \in 0..(m - 1), NEW x \in 0..(d - 1)
  PROVE  DigitsAre((a * m + h) * d + x, t, m, d, a, h, x)
  <1> DEFINE q == a * m + h
             c == (a * m + h) * d + x
  <1>1. q \in 0..(t * m - 1)
    BY ONLY t \in Nat, m \in Nat \ {0}, a \in 0..(t - 1), h \in 0..(m - 1), Composed
  <1>2. t * m \in Nat
    BY ONLY t \in Nat, m \in Nat \ {0}
  <1>3. q \div m = a /\ q % m = h
    BY ONLY t \in Nat, m \in Nat \ {0}, a \in 0..(t - 1), h \in 0..(m - 1), QuotientOf
  <1> HIDE DEF q
  <1>4. q * d + x \in 0..(t * m * d - 1)
    BY ONLY <1>1, <1>2, d \in Nat \ {0}, x \in 0..(d - 1), Composed
  <1>5. q \in Nat
    BY ONLY <1>1, <1>2
  <1>6. (q * d + x) \div d = q /\ (q * d + x) % d = x
    BY ONLY <1>5, d \in Nat \ {0}, x \in 0..(d - 1), QuotientOf
  <1>7. c = q * d + x
    BY DEF q
  <1> HIDE DEF c
  <1>8. c \in Nat
    <2>1. t * m * d \in Nat
      BY ONLY <1>2, d \in Nat \ {0}
    <2> QED
      BY ONLY <1>4, <1>7, <2>1
  <1>9. c \div (m * d) = (c \div d) \div m /\ (c % (m * d)) \div d = (c \div d) % m
    <2>1. Nested(c, m, d)
      BY ONLY <1>8, m \in Nat \ {0}, d \in Nat \ {0}, NestedQuotient
    <2> QED
      BY ONLY <2>1 DEF Nested
  <1>10. DigitsAre(c, t, m, d, a, h, x)
    BY ONLY <1>3, <1>4, <1>6, <1>7, <1>9 DEF DigitsAre
  <1> QED
    BY <1>10 DEF c

\* The digits of a cell.
MadeOfDigits(c, t, m, d) ==
  /\ c \div (m * d) \in 0..(t - 1) /\ (c % (m * d)) \div d \in 0..(m - 1)
  /\ c % d \in 0..(d - 1)
  /\ ((c \div (m * d)) * m + (c % (m * d)) \div d) * d + (c % d) = c

\* Every cell has them, and is made of them.
LEMMA DigitsOf ==
  ASSUME NEW t \in Nat, NEW m \in Nat \ {0}, NEW d \in Nat \ {0}, NEW c \in 0..(t * m * d - 1)
  PROVE  MadeOfDigits(c, t, m, d)
  <1> DEFINE q == c \div d
             x == c % d
             a == q \div m
             h == q % m
  <1>1. t * m \in Nat
    BY ONLY t \in Nat, m \in Nat \ {0}
  <1>2. q \in 0..(t * m - 1) /\ x \in 0..(d - 1) /\ q * d + x = c
    BY ONLY <1>1, d \in Nat \ {0}, c \in 0..(t * m * d - 1), Decomposed
  <1> HIDE DEF q, x
  <1>3. a \in 0..(t - 1) /\ h \in 0..(m - 1) /\ a * m + h = q
    BY ONLY t \in Nat, m \in Nat \ {0}, <1>2, Decomposed
  <1>4. c \in Nat
    <2>1. t * m * d \in Nat
      BY ONLY <1>1, d \in Nat \ {0}
    <2>2. \A total \in Nat : \A k \in 0..(total - 1) : k \in Nat
      BY ONLY TRUE
    <2> QED
      BY ONLY <2>1, <2>2, c \in 0..(t * m * d - 1)
  <1>5. c \div (m * d) = q \div m /\ (c % (m * d)) \div d = q % m
    <2>1. Nested(c, m, d)
      BY ONLY <1>4, m \in Nat \ {0}, d \in Nat \ {0}, NestedQuotient
    <2> QED
      BY ONLY <2>1 DEF Nested, q
  <1> QED
    BY ONLY <1>2, <1>3, <1>5 DEF x, MadeOfDigits

\* expand_kv_heads_d.
LEMMA ExpandWrites ==
  ASSUME NEW z, PointSizes(z), NEW backend, WholeGroups(z)
  PROVE  WritesPromised(PointOutcome(backend, "expand", z).tasks, PointPromised("expand", z))
         \/ ~PointOutcome(backend, "expand", z).ok
  <1> DEFINE d == z.dim
             m == z.heads
             kv == z.kvHeads
             t == z.len.a \div (kv * d)
             len == z.len.out
             source(a, h, x) == <<(a * kv + h \div (m \div kv)) * d + x>>
             promised == PointPromised("expand", z)
             host == ExpandHost(z)
             units == ExpandUnits(z)
  <1>1. /\ z.len.a \in Nat /\ len \in Nat /\ m \in Nat \ {0} /\ kv \in Nat \ {0}
        /\ d \in Nat \ {0} /\ m % kv = 0
    BY DEF WholeGroups, PointSizes
  <1>2. promised = [c \in Upto(len) |->
           <<(c \div (m * d)) * kv * d + ((((c % (m * d)) \div d) * kv) \div m) * d + (c % d)>>]
    BY DEF PointPromised
  <1>3. kv * d \in Nat \ {0} /\ m * d \in Nat \ {0}
    BY ONLY <1>1
  <1>4. ASSUME NEW c \in Nat
        PROVE  /\ c \div (m * d) = (c \div d) \div m /\ (c % (m * d)) \div d = (c \div d) % m
               /\ c \div d \in Nat /\ c % d \in 0..(d - 1)
               /\ (c \div d) \div m \in Nat /\ (c \div d) % m \in 0..(m - 1)
    <2>1. c \div d \in Nat /\ c % d \in 0..(d - 1)
      BY ONLY <1>1, c \in Nat, Quotient, Remainder
    <2>2. (c \div d) \div m \in Nat /\ (c \div d) % m \in 0..(m - 1)
      BY ONLY <1>1, <2>1, Quotient, Remainder
    <2>3. c \div (m * d) = (c \div d) \div m /\ (c % (m * d)) \div d = (c \div d) % m
      <3>1. Nested(c, m, d)
        BY ONLY <1>1, c \in Nat, NestedQuotient
      <3> QED
        BY ONLY <3>1 DEF Nested
    <2> QED
      BY ONLY <2>1, <2>2, <2>3
  <1>5. ASSUME NEW a \in Nat, NEW h \in Nat, NEW x \in Nat
        PROVE  <<a * kv * d + ((h * kv) \div m) * d + x>> = source(a, h, x)
    <2> DEFINE g == h \div (m \div kv)
    <2>1. (h * kv) \div m = g
      BY ONLY <1>1, h \in Nat, GroupOf
    <2>2. g \in Nat
      <3>1. h * kv \in Nat
        BY ONLY <1>1, h \in Nat
      <3>2. (h * kv) \div m \in Nat
        BY ONLY <1>1, <3>1, Quotient
      <3> QED
        BY ONLY <2>1, <3>2
    <2> HIDE DEF g
    <2>3. (a * kv + g) * d = a * kv * d + g * d
      BY ONLY <1>1, <2>2, a \in Nat
    <2> QED
      BY ONLY <2>1, <2>3 DEF g
  <1>6. ASSUME NEW c \in Upto(len)
        PROVE  promised[c] = source((c \div d) \div m, (c \div d) % m, c % d)
    <2>1. c \in Nat
      BY DEF Upto
    <2> HIDE DEF promised, d, m, kv, len, source
    <2> DEFINE a == (c \div d) \div m
               h == (c \div d) % m
               x == c % d
    <2>2. c \div (m * d) = a /\ (c % (m * d)) \div d = h /\ a \in Nat /\ h \in 0..(m - 1)
          /\ x \in 0..(d - 1)
      BY ONLY <1>4, <2>1
    <2>3. promised[c] = <<(c \div (m * d)) * kv * d
                          + ((((c % (m * d)) \div d) * kv) \div m) * d + (c % d)>>
      BY ONLY <1>2, c \in Upto(len)
    <2>4. promised[c] = <<a * kv * d + ((h * kv) \div m) * d + x>>
      BY ONLY <2>2, <2>3
    <2> HIDE DEF a, h, x
    <2>5. h \in Nat /\ x \in Nat
      BY ONLY <1>1, <2>2
    <2>6. promised[c] = source(a, h, x)
      BY ONLY <1>5, <2>2, <2>4, <2>5
    <2> QED
      BY ONLY <2>6 DEF a, h, x
  <1>7. DOMAIN promised = 0..(len - 1)
    BY ONLY <1>2 DEF Upto
  <1>8. WritesPromised(units, promised)
    <2>1. units = [c \in {c \in CellLaunch(len) : c < len} |->
                     [out |-> {c}, from |-> source((c \div d) \div m, (c \div d) % m, c % d)]]
      BY DEF ExpandUnits
    <2>2. {c \in CellLaunch(len) : c < len} = Upto(len)
      BY ONLY <1>1, PointUnits
    <2> HIDE DEF units, promised, d, m, kv, len, source
    <2>3. DOMAIN units = Upto(len)
      BY ONLY <2>1, <2>2
    <2>4. \A c \in Upto(len) : units[c].out = {0 + c} /\ units[c].from = promised[0 + c]
      <3> SUFFICES ASSUME NEW c \in Upto(len)
                   PROVE  units[c].out = {0 + c} /\ units[c].from = promised[0 + c]
        OBVIOUS
      <3>1. 0 + c = c
        BY DEF Upto
      <3>2. units[c].out = {c} /\ units[c].from = promised[c]
        BY ONLY <1>6, <2>1, <2>2, c \in Upto(len)
      <3> QED
        BY ONLY <3>1, <3>2
    <2>5. DOMAIN promised = 0..(0 + len - 1) /\ 0 \in Nat
      BY <1>1, <1>7
    <2> QED
      BY ONLY <1>1, <2>3, <2>4, <2>5, ShiftedWrite
  <1>9. ASSUME len = t * m * d
        PROVE  WritesPromised(host, promised)
    <2> DEFINE D == Upto(t) \X Upto(m) \X Upto(d)
               at == [u \in D |-> (u[1] * m + u[2]) * d + u[3]]
    <2>1. host = [u \in D |-> [out |-> {at[u]}, from |-> source(u[1], u[2], u[3])]]
      BY DEF ExpandHost
    <2>2. t \in Nat
      BY ONLY <1>1, <1>3, Quotient
    <2>3. len = t * m * d
      BY <1>9
    <2> HIDE DEF host, promised, d, m, kv, len, source, t
    <2>4. ASSUME NEW u \in D
          PROVE  /\ at[u] \in 0..(len - 1)
                 /\ u = <<(at[u] \div d) \div m, (at[u] \div d) % m, at[u] % d>>
                 /\ promised[at[u]] = source(u[1], u[2], u[3])
      <3>1. /\ u[1] \in 0..(t - 1) /\ u[2] \in 0..(m - 1) /\ u[3] \in 0..(d - 1)
            /\ u = <<u[1], u[2], u[3]>> /\ at[u] = (u[1] * m + u[2]) * d + u[3]
        BY DEF Upto
      <3>2. /\ at[u] \in 0..(t * m * d - 1)
            /\ at[u] \div (m * d) = u[1] /\ (at[u] % (m * d)) \div d = u[2] /\ at[u] % d = u[3]
        <4>1. DigitsAre((u[1] * m + u[2]) * d + u[3], t, m, d, u[1], u[2], u[3])
          BY ONLY <1>1, <2>2, <3>1, ThreeDigits
        <4> QED
          BY ONLY <3>1, <4>1 DEF DigitsAre
      <3>3. at[u] \in Upto(len)
        BY ONLY <2>3, <3>2 DEF Upto
      <3>4. at[u] \in Nat
        BY ONLY <1>1, <3>3 DEF Upto
      <3>5. at[u] \div (m * d) = (at[u] \div d) \div m /\ (at[u] % (m * d)) \div d = (at[u] \div d) % m
        BY ONLY <1>4, <3>4
      <3>6. promised[at[u]] = source((at[u] \div d) \div m, (at[u] \div d) % m, at[u] % d)
        BY ONLY <1>6, <3>3
      <3> QED
        BY ONLY <2>3, <3>1, <3>2, <3>5, <3>6
    <2>5. ASSUME NEW c \in 0..(len - 1)
          PROVE  \E u \in D : at[u] = c
      <3> DEFINE a == c \div (m * d)
                 h == (c % (m * d)) \div d
                 x == c % d
      <3>1. c \in 0..(t * m * d - 1)
        BY ONLY <2>3, c \in 0..(len - 1)
      <3>2. a \in 0..(t - 1) /\ h \in 0..(m - 1) /\ x \in 0..(d - 1) /\ (a * m + h) * d + x = c
        <4>1. MadeOfDigits(c, t, m, d)
          BY ONLY <1>1, <2>2, <3>1, DigitsOf
        <4> QED
          BY ONLY <4>1 DEF MadeOfDigits, a, h, x
      <3> HIDE DEF a, h, x
      <3>3. <<a, h, x>> \in D
        BY ONLY <3>2 DEF D, Upto
      <3>4. at[<<a, h, x>>] = c
        BY ONLY <3>2, <3>3 DEF at
      <3> QED
        BY ONLY <3>3, <3>4
    <2> HIDE DEF at, D
    <2>6. DOMAIN promised = {at[u] : u \in D}
      <3>1. \A u \in D : at[u] \in 0..(len - 1)
        BY ONLY <2>4
      <3>2. \A c \in 0..(len - 1) : \E u \in D : at[u] = c
        BY ONLY <2>5
      <3> QED
        BY ONLY <1>7, <3>1, <3>2
    <2>7. DOMAIN host = D /\ \A u \in D : host[u].out = {at[u]} /\ host[u].from = promised[at[u]]
      BY ONLY <2>1, <2>4
    <2>8. \A u, v \in D : at[u] = at[v] => u = v
      <3> SUFFICES ASSUME NEW u \in D, NEW v \in D, at[u] = at[v]
                   PROVE  u = v
        OBVIOUS
      <3>1. u = <<(at[u] \div d) \div m, (at[u] \div d) % m, at[u] % d>>
        BY ONLY <2>4, u \in D
      <3>2. v = <<(at[v] \div d) \div m, (at[v] \div d) % m, at[v] % d>>
        BY ONLY <2>4, v \in D
      <3> QED
        BY ONLY <3>1, <3>2, at[u] = at[v]
    <2> QED
      BY ONLY <2>6, <2>7, <2>8, WritesCells
  <1>10. \/ ~PointOutcome(backend, "expand", z).ok
         \/ PointOutcome(backend, "expand", z).tasks = units
         \/ PointOutcome(backend, "expand", z).tasks = host /\ len = t * m * d
    BY DEF PointOutcome, Expand, RunExpand, Outcome
  <1> HIDE DEF host, units, promised, len, t, m, d
  <1>11. \/ ~PointOutcome(backend, "expand", z).ok
         \/ WritesPromised(PointOutcome(backend, "expand", z).tasks, promised)
    BY ONLY <1>8, <1>9, <1>10
  <1> QED
    BY <1>11 DEF promised

\* Every operation on cells, pairs and rows.
LEMMA PointsWrite ==
  ASSUME NEW backend \in {"default", "cpu", "cubecl"}, NEW op \in RowOps \cup TurnOps,
         NEW z, PointSizes(z), PointOutcome(backend, op, z).ok, Meant(op, z)
  PROVE  WritesPromised(PointOutcome(backend, op, z).tasks, PointPromised(op, z))
  <1>1. CASE op \in {"add", "mul", "gelu", "silu"}
    BY <1>1, CellOpsWrite DEF Meant
  <1>2. CASE op \in {"layer_norm", "rmsnorm"}
    BY <1>2, RowOpsWrite
  <1>3. CASE op = "positions"
    BY <1>3, PositionsWrite
  <1>4. CASE op = "copy"
    BY <1>4, CopyWrites
  <1>5. CASE op \in {"rope", "rope with factors"}
    BY <1>5, RopeWrites
  <1>6. CASE op = "rope tables"
    BY <1>6, TablesWrite DEF Meant
  <1>7. CASE op = "expand"
    BY <1>7, ExpandWrites DEF Meant
  <1> QED
    BY <1>1, <1>2, <1>3, <1>4, <1>5, <1>6, <1>7 DEF RowOps, TurnOps

\* Every element-wise and row-wise operation, the rotary ones and the repeated
\* heads included, writes each cell of its output once, from the cells, the row
\* or the pair and angle that it should be computed from, and the spare units
\* of the last workgroup none: for buffers and workgroups of every size, on the
\* host and on the GPU.
THEOREM PointsExactAlways == KernelSpec => []PointsExact
  <1>1. CallInv => PointsExact
    <2> SUFFICES ASSUME CallInv, Is("point"),
                        PointOutcome(call.args.backend, call.args.op, call.args.z).ok,
                        Meant(call.args.op, call.args.z)
                 PROVE  WritesPromised(
                          PointOutcome(call.args.backend, call.args.op, call.args.z).tasks,
                          PointPromised(call.args.op, call.args.z))
      BY DEF PointsExact
    <2>1. call.args \in PointCalls
      BY DEF CallInv, Is, Idle
    <2>2. /\ call.args.backend \in {"default", "cpu", "cubecl"}
          /\ call.args.op \in RowOps \cup TurnOps /\ call.args.z \in PointArgs
      BY <2>1, KernelCallsAssumption
    <2>3. PointSizes(call.args.z)
      BY <2>2, BuffersAssumption DEF PointArgs, PointSizes, Lengths
    <2> QED
      BY <2>2, <2>3, PointsWrite
  <1> QED
    BY <1>1, CallInvAlways, PTL

-----------------------------------------------------------------------------
(***************************************************************************)
(* Attention: heads of queries, wherever they are computed.                *)
(***************************************************************************)

\* The head h of query r, and what it should be computed from
Base(r, h, z) == r * State(z) + h * z.dim
KvHeadOf(h, kvHeads, z) == h \div (z.heads \div kvHeads)
HeadFrom(r, h, seen, kvHeads, z) ==
  [q |-> Base(r, h, z),
   keys |-> [i \in DOMAIN seen |->
               <<seen[i].k, (seen[i].row * kvHeads + KvHeadOf(h, kvHeads, z)) * z.dim>>],
   values |-> [i \in DOMAIN seen |->
                 <<seen[i].v, (seen[i].row * kvHeads + KvHeadOf(h, kvHeads, z)) * z.dim>>],
   scored |-> InOrder(z.dim), summed |-> InOrder(z.dim)]
HeadTask(r, h, seen, kvHeads, z) ==
  [out |-> Base(r, h, z), from |-> HeadFrom(r, h, seen, kvHeads, z)]

Sized(z) == z.heads \in Nat \ {0} /\ z.dim \in Nat \ {0}

\* A head's cells tell the query and the head.
LEMMA BasePlace ==
  ASSUME NEW z, Sized(z), NEW r \in Nat, NEW h \in HeadsOf(z)
  PROVE  /\ Base(r, h, z) \in Nat
         /\ Base(r, h, z) = (r * z.heads + h) * z.dim
         /\ Base(r, h, z) \div (z.heads * z.dim) = r
         /\ Base(r, h, z) % (z.heads * z.dim) = h * z.dim
         /\ (Base(r, h, z) % (z.heads * z.dim)) \div z.dim = h
  <1> DEFINE H == z.heads
             D == z.dim
             W == H * D
  <1>1. H \in Nat \ {0} /\ D \in Nat \ {0} /\ h \in 0..(H - 1) /\ h \in Nat
    BY DEF Sized, HeadsOf
  <1>2. Base(r, h, z) = r * W + h * D
    BY DEF Base, State
  <1>3. W \in Nat \ {0}
    BY <1>1
  <1>4. h * D \in 0..(W - 1)
    <2>1. h * D + 0 \in 0..(H * D - 1)
      <3>1. 0 \in 0..(D - 1)
        BY <1>1
      <3> QED
        BY ONLY <1>1, <3>1, Composed
    <2>2. h * D \in Nat
      BY <1>1
    <2> QED
      BY <2>1, <2>2
  <1>5. (h * D) \div D = h
    <2>1. (h * D + 0) \div D = h
      <3>1. 0 \in 0..(D - 1)
        BY <1>1
      <3> QED
        BY ONLY <1>1, <3>1, QuotientOf
    <2>2. h * D \in Nat
      BY <1>1
    <2> QED
      BY <2>1, <2>2
  <1>6. r * W + h * D = (r * H + h) * D
    BY <1>1
  <1>7. r * W + h * D \in Nat
    BY <1>1
  <1> HIDE DEF W
  <1>8. (r * W + h * D) \div W = r /\ (r * W + h * D) % W = h * D
    BY <1>3, <1>4, QuotientOf
  <1> QED
    BY <1>2, <1>5, <1>6, <1>7, <1>8 DEF W

\* Different heads have different cells.
LEMMA BasesApart ==
  ASSUME NEW z, Sized(z), NEW r \in Nat, NEW h \in HeadsOf(z), NEW s \in Nat, NEW g \in HeadsOf(z),
         Base(r, h, z) = Base(s, g, z)
  PROVE  r = s /\ h = g
  <1>1. r = s
    BY BasePlace
  <1>2. h = g
    BY BasePlace
  <1> QED
    BY <1>1, <1>2

\* What is promised of a head, by query and head.
LEMMA PromisedHead ==
  ASSUME NEW z, Sized(z), NEW r \in Nat, NEW h \in HeadsOf(z), NEW seen, NEW kvHeads
  PROVE  PromisedFrom(Base(r, h, z), seen, kvHeads, z) = HeadFrom(r, h, seen, kvHeads, z)
  <1>1. (Base(r, h, z) % (z.heads * z.dim)) \div z.dim = h
    BY BasePlace
  <1> QED
    BY <1>1 DEF PromisedFrom, HeadFrom, KvHeadOf

\* The queries and heads of a call, and where their cells begin
Bases(rows, z) == {(r * z.heads + h) * z.dim : r \in 0..(rows - 1), h \in HeadsOf(z)}

\* What runs has places, each of one, and all of them
Covers(place, units, rows, z) ==
  /\ \A u \in units : place[u][1] \in 0..(rows - 1) /\ place[u][2] \in HeadsOf(z)
  /\ \A u, v \in units : (place[u][1] = place[v][1] /\ place[u][2] = place[v][2]) => u = v
  /\ \A r \in 0..(rows - 1), h \in HeadsOf(z) : \E u \in units : place[u][1] = r /\ place[u][2] = h

\* Tasks that are the heads of so many queries, each over what its query sees.
OfHeads(tasks, place, seen, kvHeads, z) ==
  \A u \in DOMAIN tasks :
    tasks[u] = HeadTask(place[u][1], place[u][2], seen[place[u][1]], kvHeads, z)
Does(tasks, seen, rows, kvHeads, z) ==
  \E place : Covers(place, DOMAIN tasks, rows, z) /\ OfHeads(tasks, place, seen, kvHeads, z)

\* A promise of just that, and that what is seen is in its buffers
Promises(promised, seen, rows, kvHeads, z) ==
  /\ DOMAIN promised = Bases(rows, z)
  /\ \A out \in Bases(rows, z) :
       promised[out] = PromisedFrom(out, seen[out \div (z.heads * z.dim)], kvHeads, z)
Within(seen, rows, kvHeads, z) ==
  \A r \in 0..(rows - 1) : \A i \in DOMAIN seen[r] :
    /\ seen[r][i].row \in Nat
    /\ \E n \in Nat : /\ seen[r][i].row < n
                      /\ n * (kvHeads * z.dim) <= z.len[seen[r][i].k]
                      /\ n * (kvHeads * z.dim) <= z.len[seen[r][i].v]
    /\ z.len[seen[r][i].k] \in Nat /\ z.len[seen[r][i].v] \in Nat

Exactly(tasks, promised, z) == Performs(tasks, promised) /\ InBuffers(tasks, z)

\* There are as many that run as places, if each has one and every place one.
LEMMA SameCount ==
  ASSUME NEW z, Sized(z), NEW rows \in Nat, NEW units, NEW place, Covers(place, units, rows, z)
  PROVE  Cardinality(units) = Cardinality(Bases(rows, z))
  <1> DEFINE S == Bases(rows, z)
             f == [u \in units |-> Base(place[u][1], place[u][2], z)]
  <1>0. \A r \in 0..(rows - 1), h \in HeadsOf(z) :
          Base(r, h, z) = (r * z.heads + h) * z.dim /\ r \in Nat /\ Base(r, h, z) \in Nat
    BY BasePlace
  <1>1. \A u \in units : f[u] \in S
    <2> SUFFICES ASSUME NEW u \in units PROVE f[u] \in S
      OBVIOUS
    <2>1. place[u][1] \in 0..(rows - 1) /\ place[u][2] \in HeadsOf(z)
      BY DEF Covers
    <2>2. f[u] = (place[u][1] * z.heads + place[u][2]) * z.dim
      BY <1>0, <2>1
    <2> QED
      BY <2>1, <2>2 DEF Bases
  <1>2. \A u, v \in units : f[u] = f[v] => u = v
    <2> SUFFICES ASSUME NEW u \in units, NEW v \in units, f[u] = f[v] PROVE u = v
      OBVIOUS
    <2>1. /\ place[u][1] \in Nat /\ place[u][2] \in HeadsOf(z)
          /\ place[v][1] \in Nat /\ place[v][2] \in HeadsOf(z)
      BY DEF Covers
    <2>2. place[u][1] = place[v][1] /\ place[u][2] = place[v][2]
      BY <2>1, BasesApart
    <2> QED
      BY <2>2 DEF Covers
  <1>3. \A s \in S : \E u \in units : f[u] = s
    <2> SUFFICES ASSUME NEW r \in 0..(rows - 1), NEW h \in HeadsOf(z)
                 PROVE  \E u \in units : f[u] = (r * z.heads + h) * z.dim
      BY DEF Bases
    <2>1. PICK u \in units : place[u][1] = r /\ place[u][2] = h
      BY DEF Covers
    <2> QED
      BY <1>0, <2>1
  <1>4. f \in Injection(units, S) /\ f \in Surjection(units, S)
    <2>1. f \in [units -> S]
      BY <1>1
    <2> HIDE DEF f, S
    <2>2. f \in Injection(units, S)
      <3>1. \A a, b \in units : f[a] = f[b] => a = b
        BY <1>2
      <3> QED
        BY ONLY <2>1, <3>1 DEF Injection, IsInjective
    <2>3. f \in Surjection(units, S)
      BY <1>3, <2>1 DEF Surjection
    <2> QED
      BY <2>2, <2>3
  <1>5. IsFiniteSet(S)
    <2>1. z.heads \in Nat /\ z.dim \in Nat
      BY DEF Sized
    <2>2. (rows * z.heads) * z.dim \in Nat
      BY <2>1
    <2>3. S \subseteq 0..((rows * z.heads) * z.dim)
      <3> SUFFICES ASSUME NEW r \in 0..(rows - 1), NEW h \in HeadsOf(z)
                   PROVE  (r * z.heads + h) * z.dim \in 0..((rows * z.heads) * z.dim)
        BY DEF Bases
      <3>1. z.heads \in Nat \ {0} /\ h \in 0..(z.heads - 1)
        BY DEF Sized, HeadsOf
      <3>2. r * z.heads + h \in 0..(rows * z.heads - 1)
        BY <3>1, Composed
      <3>3. rows * z.heads \in Nat
        BY <2>1
      <3>4. r * z.heads + h \in Nat /\ r * z.heads + h <= rows * z.heads
        BY <3>2, <3>3
      <3>5. (r * z.heads + h) * z.dim <= (rows * z.heads) * z.dim
        BY <2>1, <3>3, <3>4, ProductMonotone
      <3>6. (r * z.heads + h) * z.dim \in Nat
        BY <2>1, <3>4
      <3> QED
        BY <2>2, <3>5, <3>6
    <2>4. IsFiniteSet(0..((rows * z.heads) * z.dim))
      BY <2>2, FS_Interval
    <2> QED
      BY <2>3, <2>4, FS_Subset
  <1> HIDE DEF f, S
  <1>6. Cardinality(units) = Cardinality(S)
    BY <1>4, <1>5, FS_Injection
  <1> QED
    BY <1>6 DEF S

\* Tasks that do what is promised of each head do what is promised of the call.
LEMMA PerformsByHead ==
  ASSUME NEW z, Sized(z), NEW rows \in Nat, NEW kvHeads, NEW seen, NEW tasks, NEW promised, NEW place,
         Covers(place, DOMAIN tasks, rows, z), OfHeads(tasks, place, seen, kvHeads, z),
         Promises(promised, seen, rows, kvHeads, z)
  PROVE  Performs(tasks, promised)
  <1>1. ASSUME NEW u \in DOMAIN tasks
        PROVE  /\ tasks[u].out \in Bases(rows, z)
               /\ tasks[u].from = promised[tasks[u].out]
    <2> DEFINE r == place[u][1]
               h == place[u][2]
    <2>1. r \in 0..(rows - 1) /\ r \in Nat /\ h \in HeadsOf(z)
      BY DEF Covers
    <2>2. tasks[u] = HeadTask(r, h, seen[r], kvHeads, z)
      BY DEF OfHeads
    <2> HIDE DEF r, h
    <2>3. tasks[u].out = Base(r, h, z) /\ tasks[u].from = HeadFrom(r, h, seen[r], kvHeads, z)
      BY <2>2 DEF HeadTask
    <2>4. Base(r, h, z) = (r * z.heads + h) * z.dim /\ Base(r, h, z) \div (z.heads * z.dim) = r
      BY <2>1, BasePlace
    <2>5. Base(r, h, z) \in Bases(rows, z)
      BY <2>1, <2>4 DEF Bases
    <2>6. promised[Base(r, h, z)] = PromisedFrom(Base(r, h, z), seen[r], kvHeads, z)
      BY <2>4, <2>5 DEF Promises
    <2> QED
      BY <2>1, <2>3, <2>5, <2>6, PromisedHead
  <1>2. ASSUME NEW u \in DOMAIN tasks, NEW v \in DOMAIN tasks, tasks[u].out = tasks[v].out
        PROVE  u = v
    <2>1. /\ place[u][1] \in Nat /\ place[u][2] \in HeadsOf(z)
          /\ place[v][1] \in Nat /\ place[v][2] \in HeadsOf(z)
      BY DEF Covers
    <2>2. /\ tasks[u].out = Base(place[u][1], place[u][2], z)
          /\ tasks[v].out = Base(place[v][1], place[v][2], z)
      BY DEF HeadTask, OfHeads
    <2>3. Base(place[u][1], place[u][2], z) = Base(place[v][1], place[v][2], z)
      BY <1>2, <2>2
    <2>4. place[u][1] = place[v][1] /\ place[u][2] = place[v][2]
      BY ONLY Sized(z), <2>1, <2>3, BasesApart
    <2> QED
      BY <2>4 DEF Covers
  <1> QED
    <2>1. Cardinality(DOMAIN tasks) = Cardinality(DOMAIN promised)
      BY SameCount DEF Promises
    <2>2. DOMAIN promised = Bases(rows, z)
      BY DEF Promises
    <2> QED
      BY <1>1, <1>2, <2>1, <2>2 DEF Performs

\* A head of a row before the end of a buffer is inside the buffer.
LEMMA HeadInBuffer ==
  ASSUME NEW heads \in Nat \ {0}, NEW dim \in Nat \ {0}, NEW row \in Nat, NEW h \in 0..(heads - 1),
         NEW rows \in Nat, row < rows
  PROVE  (row * heads + h) * dim + dim <= rows * (heads * dim)
  <1>1. row * heads + h \in 0..(rows * heads - 1)
    BY Composed
  <1>2. rows * heads \in Nat
    OBVIOUS
  <1>3. row * heads + h \in Nat /\ row * heads + h + 1 <= rows * heads
    BY <1>1, <1>2
  <1>4. (row * heads + h + 1) * dim <= (rows * heads) * dim
    BY <1>2, <1>3, ProductMonotone
  <1>5. (row * heads + h + 1) * dim = (row * heads + h) * dim + dim
    BY <1>3
  <1>6. (rows * heads) * dim = rows * (heads * dim)
    OBVIOUS
  <1> QED
    BY <1>4, <1>5, <1>6

\* The head of keys and values that a head of queries shares is one of theirs.
LEMMA KvHeadIn ==
  ASSUME NEW z, Sized(z), NEW kvHeads \in Nat \ {0}, z.heads % kvHeads = 0, NEW h \in HeadsOf(z)
  PROVE  KvHeadOf(h, kvHeads, z) \in 0..(kvHeads - 1)
  <1> DEFINE group == z.heads \div kvHeads
  <1>1. z.heads \in Nat \ {0} /\ h \in 0..(z.heads - 1)
    BY DEF Sized, HeadsOf
  <1>2. group \in Nat /\ group * kvHeads = z.heads
    BY <1>1, WholeQuotient
  <1> HIDE DEF group
  <1>3. group \in Nat \ {0} /\ kvHeads * group = z.heads
    BY <1>1, <1>2
  <1>4. h \in 0..(kvHeads * group - 1)
    BY <1>1, <1>3
  <1>5. h \div group \in 0..(kvHeads - 1)
    BY ONLY <1>3, <1>4, Decomposed
  <1> QED
    BY <1>5 DEF group, KvHeadOf

\* Tasks of heads whose rows are in their buffers are inside their buffers.
LEMMA InsideByHead ==
  ASSUME NEW z, Sized(z), NEW rows \in Nat, NEW kvHeads \in Nat \ {0}, z.heads % kvHeads = 0,
         NEW seen, NEW tasks, NEW place,
         Covers(place, DOMAIN tasks, rows, z), OfHeads(tasks, place, seen, kvHeads, z),
         Within(seen, rows, kvHeads, z),
         rows * State(z) <= z.len.out, rows * State(z) <= z.len.q,
         z.len.out \in Nat, z.len.q \in Nat
  PROVE  InBuffers(tasks, z)
  <1> SUFFICES ASSUME NEW u \in DOMAIN tasks
               PROVE  /\ tasks[u].out + z.dim <= z.len.out
                      /\ tasks[u].from.q + z.dim <= z.len.q
                      /\ \A i \in DOMAIN tasks[u].from.keys :
                           tasks[u].from.keys[i][2] + z.dim <= z.len[tasks[u].from.keys[i][1]]
                      /\ \A i \in DOMAIN tasks[u].from.values :
                           tasks[u].from.values[i][2] + z.dim <= z.len[tasks[u].from.values[i][1]]
    BY DEF InBuffers
  <1> DEFINE r == place[u][1]
             h == place[u][2]
             g == KvHeadOf(h, kvHeads, z)
  <1>1. r \in 0..(rows - 1) /\ r \in Nat /\ r < rows /\ h \in HeadsOf(z)
    BY DEF Covers
  <1>2. tasks[u] = HeadTask(r, h, seen[r], kvHeads, z)
    BY DEF OfHeads
  <1> HIDE DEF r, h
  <1>3. z.heads \in Nat \ {0} /\ z.dim \in Nat \ {0} /\ h \in 0..(z.heads - 1)
    BY <1>1 DEF Sized, HeadsOf
  <1>4. g \in 0..(kvHeads - 1)
    BY <1>1, KvHeadIn
  <1> HIDE DEF g
  <1>5. Base(r, h, z) + z.dim <= rows * State(z)
    <2>1. (r * z.heads + h) * z.dim + z.dim <= rows * (z.heads * z.dim)
      BY <1>1, <1>3, HeadInBuffer
    <2>2. Base(r, h, z) = (r * z.heads + h) * z.dim
      BY <1>1, BasePlace
    <2> QED
      BY <2>1, <2>2 DEF State
  <1>6. Base(r, h, z) \in Nat /\ rows * State(z) \in Nat
    <2>1. Base(r, h, z) \in Nat
      BY <1>1, BasePlace
    <2>2. State(z) \in Nat
      BY <1>3 DEF State
    <2> QED
      BY <2>1, <2>2
  <1>7. /\ tasks[u].out = Base(r, h, z) /\ tasks[u].from.q = Base(r, h, z)
        /\ tasks[u].from.keys = [i \in DOMAIN seen[r] |->
                                   <<seen[r][i].k, (seen[r][i].row * kvHeads + g) * z.dim>>]
        /\ tasks[u].from.values = [i \in DOMAIN seen[r] |->
                                     <<seen[r][i].v, (seen[r][i].row * kvHeads + g) * z.dim>>]
    <2>1. /\ tasks[u].out = Base(r, h, z)
          /\ tasks[u].from = HeadFrom(r, h, seen[r], kvHeads, z)
      BY <1>2 DEF HeadTask
    <2>2. KvHeadOf(h, kvHeads, z) = g
      BY DEF g
    <2> QED
      BY <2>1, <2>2 DEF HeadFrom
  <1>8. ASSUME NEW i \in DOMAIN seen[r]
        PROVE  /\ (seen[r][i].row * kvHeads + g) * z.dim + z.dim <= z.len[seen[r][i].k]
               /\ (seen[r][i].row * kvHeads + g) * z.dim + z.dim <= z.len[seen[r][i].v]
    <2> DEFINE row == seen[r][i].row
    <2>1. PICK n \in Nat : /\ row < n
                           /\ n * (kvHeads * z.dim) <= z.len[seen[r][i].k]
                           /\ n * (kvHeads * z.dim) <= z.len[seen[r][i].v]
      BY <1>1 DEF Within
    <2>2. row \in Nat /\ z.len[seen[r][i].k] \in Nat /\ z.len[seen[r][i].v] \in Nat
      BY <1>1 DEF Within
    <2> HIDE DEF row
    <2>3. (row * kvHeads + g) * z.dim + z.dim <= n * (kvHeads * z.dim)
      BY <1>3, <1>4, <2>1, <2>2, HeadInBuffer
    <2>4. (row * kvHeads + g) * z.dim \in Nat /\ n * (kvHeads * z.dim) \in Nat /\ z.dim \in Nat
      BY <1>3, <1>4, <2>2
    <2>5. /\ (row * kvHeads + g) * z.dim + z.dim <= z.len[seen[r][i].k]
          /\ (row * kvHeads + g) * z.dim + z.dim <= z.len[seen[r][i].v]
      BY <2>1, <2>2, <2>3, <2>4
    <2> QED
      BY <2>5 DEF row
  <1>9. /\ Base(r, h, z) + z.dim <= z.len.out
        /\ Base(r, h, z) + z.dim <= z.len.q
    BY <1>3, <1>5, <1>6
  <1> QED
    BY <1>7, <1>8, <1>9

\* A sequence is the function of its places.
LEMMA SequenceIs ==
  ASSUME NEW s \in Seq(Int), NEW n \in Nat, Len(s) = n
  PROVE  s = [i \in 1..n |-> s[i]]
  OBVIOUS

\* Vectors and the tail after them take the columns in order.
LEMMA VectorsInOrder ==
  ASSUME NEW n \in Nat
  PROVE  Vectorised(n) = InOrder(n)
  <1> DEFINE simd == n - (n % Lanes)
             A == [i \in 1..simd |-> Lanes * ((i - 1) \div Lanes) + ((i - 1) % Lanes)]
             B == [i \in 1..(n - simd) |-> simd + i - 1]
  <1>1. Lanes \in Nat \ {0}
    BY AttentionAssumption
  <1>2. simd \in Nat /\ n - simd \in Nat
    <2>1. n % Lanes \in 0..(Lanes - 1) /\ n = (n \div Lanes) * Lanes + (n % Lanes)
      BY <1>1, Remainder
    <2>2. n \div Lanes \in Nat /\ (n \div Lanes) * Lanes \in Nat
      BY <1>1, Quotient
    <2> QED
      BY <1>1, <2>1, <2>2
  <1>3. \A i \in 1..simd : A[i] = i - 1
    <2> SUFFICES ASSUME NEW i \in 1..simd PROVE A[i] = i - 1
      OBVIOUS
    <2>1. i - 1 \in Nat
      BY <1>2
    <2>2. i - 1 = ((i - 1) \div Lanes) * Lanes + ((i - 1) % Lanes)
      BY ONLY <1>1, <2>1, Remainder
    <2>3. (i - 1) \div Lanes \in Nat
      BY ONLY <1>1, <2>1, Quotient
    <2>4. ((i - 1) \div Lanes) * Lanes = Lanes * ((i - 1) \div Lanes)
      BY ONLY <1>1, <2>3
    <2> QED
      BY <2>2, <2>4
  <1>4. Vectorised(n) = A \o B
    BY DEF Vectorised
  <1> HIDE DEF simd
  <1>5. A \in Seq(Int) /\ Len(A) = simd
    <2>1. A = [i \in 1..simd |-> i - 1]
      BY <1>3
    <2> HIDE DEF A
    <2> QED
      BY <1>2, <2>1
  <1>6. B \in Seq(Int) /\ Len(B) = n - simd /\ \A i \in 1..(n - simd) : B[i] = simd + i - 1
    BY <1>2
  <1> HIDE DEF A, B
  <1>7. A \o B = [i \in 1..n |-> i - 1]
    <2>1. Len(A) + Len(B) = n
      BY <1>2, <1>5, <1>6
    <2>2. \A i \in 1..n : (A \o B)[i] = i - 1
      <3> SUFFICES ASSUME NEW i \in 1..n PROVE (A \o B)[i] = i - 1
        OBVIOUS
      <3>1. CASE i <= simd
        BY <1>2, <1>3, <1>5, <1>6, <2>1, <3>1
      <3>2. CASE simd < i
        <4>1. (A \o B)[i] = B[i - simd]
          BY <1>2, <1>5, <1>6, <2>1, <3>2
        <4>2. i - simd \in 1..(n - simd)
          BY <1>2, <3>2
        <4>3. B[i - simd] = simd + (i - simd) - 1
          BY <1>6, <4>2
        <4> QED
          BY <1>2, <4>1, <4>3
      <3> QED
        <4>1. i <= simd \/ simd < i
          BY <1>2
        <4> QED
          BY <3>1, <3>2, <4>1
    <2>3. A \o B \in Seq(Int) /\ Len(A \o B) = n
      BY <1>5, <1>6, <2>1
    <2>4. A \o B = [i \in 1..n |-> (A \o B)[i]]
      BY <2>3, SequenceIs
    <2> QED
      BY <2>2, <2>4
  <1> QED
    BY <1>4, <1>7 DEF InOrder

\* So do all modes.
LEMMA ColumnsInOrder ==
  ASSUME NEW z, z.dim \in Nat
  PROVE  ScoreColumns(z) = InOrder(z.dim) /\ SumColumns(z) = InOrder(z.dim)
  BY VectorsInOrder DEF ScoreColumns, SumColumns, DotColumns, ValueColumns

\* A head that weighs rows of its buffers is the head promised for those rows.
LEMMA WeighedHead ==
  ASSUME NEW z, Sized(z), NEW y, y.dim = z.dim, NEW r \in Nat, NEW h \in HeadsOf(z),
         NEW kvHeads \in Nat \ {0}, z.heads % kvHeads = 0,
         NEW first \in Nat, NEW last \in Int, NEW keys, NEW values,
         LET g == KvHeadOf(h, kvHeads, z)
         IN  /\ keys = Strided("k", first, last, kvHeads * z.dim, g * z.dim)
             /\ values = Strided("v", first, last, kvHeads * z.dim, g * z.dim)
  PROVE  Weigh(Base(r, h, z), Base(r, h, z), keys, values, y)
           = HeadTask(r, h, Visible(first, last), kvHeads, z)
  <1> DEFINE g == KvHeadOf(h, kvHeads, z)
             seen == Visible(first, last)
  <1>1. z.dim \in Nat /\ kvHeads \in Nat
    BY DEF Sized
  <1>2. g \in Nat
    BY <1>1, KvHeadIn
  <1>3. /\ DOMAIN seen = 1..(last - first + 1)
        /\ \A i \in DOMAIN seen :
             seen[i].k = "k" /\ seen[i].v = "v" /\ seen[i].row = first + i - 1
    BY DEF Visible
  <1>4. /\ keys = [i \in 1..(last - first + 1) |-> <<"k", ((first + i - 1) * kvHeads + g) * z.dim>>]
        /\ values = [i \in 1..(last - first + 1) |-> <<"v", ((first + i - 1) * kvHeads + g) * z.dim>>]
    <2>1. \A i \in 1..(last - first + 1) :
            (first + i - 1) * (kvHeads * z.dim) + g * z.dim = ((first + i - 1) * kvHeads + g) * z.dim
      <3> SUFFICES ASSUME NEW i \in 1..(last - first + 1)
                   PROVE  (first + i - 1) * (kvHeads * z.dim) + g * z.dim
                            = ((first + i - 1) * kvHeads + g) * z.dim
        OBVIOUS
      <3> DEFINE row == first + i - 1
      <3>1. row \in Int /\ z.dim \in Int /\ kvHeads \in Int /\ g \in Int
        BY <1>1, <1>2
      <3> HIDE DEF row, g
      <3>2. row * (kvHeads * z.dim) + g * z.dim = (row * kvHeads + g) * z.dim
        BY <3>1
      <3> QED
        BY <3>2 DEF row
    <2>2. /\ keys = [i \in 1..(last - first + 1) |->
                     <<"k", (first + i - 1) * (kvHeads * z.dim) + g * z.dim>>]
          /\ values = [i \in 1..(last - first + 1) |->
                       <<"v", (first + i - 1) * (kvHeads * z.dim) + g * z.dim>>]
      BY DEF Strided
    <2> HIDE DEF g
    <2> QED
      BY <2>1, <2>2
  <1> HIDE DEF seen
  <1>5. /\ keys = [i \in DOMAIN seen |-> <<seen[i].k, (seen[i].row * kvHeads + g) * z.dim>>]
        /\ values = [i \in DOMAIN seen |-> <<seen[i].v, (seen[i].row * kvHeads + g) * z.dim>>]
    BY <1>3, <1>4
  <1>6. ScoreColumns(y) = InOrder(z.dim) /\ SumColumns(y) = InOrder(z.dim)
    BY <1>1, ColumnsInOrder
  <1>7. Weigh(Base(r, h, z), Base(r, h, z), keys, values, y)
          = [out |-> Base(r, h, z),
             from |-> [q |-> Base(r, h, z), keys |-> keys, values |-> values,
                       scored |-> InOrder(z.dim), summed |-> InOrder(z.dim)]]
    BY <1>6 DEF Weigh
  <1> QED
    BY <1>5, <1>7 DEF HeadTask, HeadFrom, seen

\* Without groups every head has its own keys and values.
LEMMA OwnKvHead ==
  ASSUME NEW z, Sized(z), NEW h \in HeadsOf(z)
  PROVE  KvHeadOf(h, z.heads, z) = h /\ z.heads % z.heads = 0
  <1>1. z.heads \in Nat \ {0} /\ h \in Nat
    BY DEF Sized, HeadsOf
  <1>2. z.heads \div z.heads = 1 /\ z.heads % z.heads = 0
    <2>1. (1 * z.heads + 0) \div z.heads = 1 /\ (1 * z.heads + 0) % z.heads = 0
      <3>1. 0 \in 0..(z.heads - 1) /\ 1 \in Nat
        BY <1>1
      <3> QED
        BY ONLY <1>1, <3>1, QuotientOf
    <2> QED
      BY <1>1, <2>1
  <1>3. h \div 1 = h
    BY <1>1
  <1> QED
    BY <1>2, <1>3 DEF KvHeadOf

\* A head over the first rows.
LEMMA OverRowsHead ==
  ASSUME NEW z, Sized(z), NEW y, y.dim = z.dim, y.heads = z.heads, NEW r \in Nat, NEW h \in HeadsOf(z),
         NEW visible \in Nat
  PROVE  OverRows(Base(r, h, z), Base(r, h, z), visible, h * z.dim, y)
           = HeadTask(r, h, Visible(0, visible - 1), z.heads, z)
  <1>1. KvHeadOf(h, z.heads, z) = h /\ z.heads % z.heads = 0 /\ z.heads \in Nat \ {0}
    BY OwnKvHead DEF Sized
  <1>2. State(y) = z.heads * z.dim
    BY DEF State
  <1>3. visible - 1 \in Int /\ 0 \in Nat
    OBVIOUS
  <1> DEFINE keys == Strided("k", 0, visible - 1, z.heads * z.dim, h * z.dim)
             values == Strided("v", 0, visible - 1, z.heads * z.dim, h * z.dim)
  <1>4. OverRows(Base(r, h, z), Base(r, h, z), visible, h * z.dim, y)
          = Weigh(Base(r, h, z), Base(r, h, z), keys, values, y)
    BY <1>2 DEF OverRows
  <1> HIDE DEF keys, values
  <1>5. Weigh(Base(r, h, z), Base(r, h, z), keys, values, y)
          = HeadTask(r, h, Visible(0, visible - 1), z.heads, z)
    BY <1>1, <1>3, WeighedHead DEF keys, values
  <1> QED
    BY <1>4, <1>5

\* The places of a loop over rows and heads.
LEMMA CoversLoop ==
  ASSUME NEW z, NEW rows
  PROVE  Covers([u \in Loop(rows, z) |-> u], Loop(rows, z), rows, z)
  <1>1. \A u \in Loop(rows, z) : u[1] \in 0..(rows - 1) /\ u[2] \in HeadsOf(z) /\ u = <<u[1], u[2]>>
    BY DEF Loop
  <1>2. \A r \in 0..(rows - 1), h \in HeadsOf(z) : <<r, h>> \in Loop(rows, z)
    BY DEF Loop
  <1> QED
    BY <1>1, <1>2 DEF Covers

\* The places of a loop over the heads of a single query.
LEMMA CoversHeads ==
  ASSUME NEW z
  PROVE  Covers([h \in HeadsOf(z) |-> <<0, h>>], HeadsOf(z), 1, z)
  BY DEF Covers

\* The head and the query of a unit, or of a chunk of one head.
LEMMA NumberedPlace ==
  ASSUME NEW z, Sized(z), NEW rows \in Nat, NEW p \in 0..(rows * z.heads - 1)
  PROVE  /\ p \div z.heads \in 0..(rows - 1)
         /\ p % z.heads \in HeadsOf(z)
         /\ p - (p \div z.heads) * z.heads = p % z.heads
         /\ (p \div z.heads) * z.heads + (p % z.heads) = p
         /\ p * z.dim = Base(p \div z.heads, p % z.heads, z)
  <1>1. z.heads \in Nat \ {0} /\ z.dim \in Nat \ {0}
    BY DEF Sized
  <1>2. /\ p \div z.heads \in 0..(rows - 1) /\ p % z.heads \in 0..(z.heads - 1)
        /\ (p \div z.heads) * z.heads + (p % z.heads) = p
    BY ONLY <1>1, rows \in Nat, p \in 0..(rows * z.heads - 1), Decomposed
  <1>3. (p \div z.heads) * z.heads \in Nat /\ p \in Int /\ p % z.heads \in Int
    BY <1>1, <1>2
  <1>4. p \div z.heads \in Nat /\ p % z.heads \in HeadsOf(z)
    BY <1>2 DEF HeadsOf
  <1>5. p * z.dim = Base(p \div z.heads, p % z.heads, z)
    BY <1>2, <1>4, BasePlace
  <1> QED
    BY <1>2, <1>3, <1>4, <1>5

\* The places of units, or of chunks of one head each.
LEMMA CoversNumbered ==
  ASSUME NEW z, Sized(z), NEW rows \in Nat
  PROVE  Covers([p \in 0..(rows * z.heads - 1) |-> <<p \div z.heads, p % z.heads>>],
                0..(rows * z.heads - 1), rows, z)
  <1> DEFINE place == [p \in 0..(rows * z.heads - 1) |-> <<p \div z.heads, p % z.heads>>]
  <1>1. \A p \in 0..(rows * z.heads - 1) :
          /\ place[p][1] = p \div z.heads /\ place[p][2] = p % z.heads
          /\ place[p][1] \in 0..(rows - 1) /\ place[p][2] \in HeadsOf(z)
          /\ place[p][1] * z.heads + place[p][2] = p
    BY NumberedPlace
  <1>2. \A r \in 0..(rows - 1), h \in HeadsOf(z) :
          \E p \in 0..(rows * z.heads - 1) : place[p][1] = r /\ place[p][2] = h
    <2> SUFFICES ASSUME NEW r \in 0..(rows - 1), NEW h \in HeadsOf(z)
                 PROVE  \E p \in 0..(rows * z.heads - 1) : place[p][1] = r /\ place[p][2] = h
      OBVIOUS
    <2>1. z.heads \in Nat \ {0} /\ h \in 0..(z.heads - 1) /\ r \in Nat
      BY DEF Sized, HeadsOf
    <2>2. r * z.heads + h \in 0..(rows * z.heads - 1)
      BY <2>1, Composed
    <2>3. (r * z.heads + h) \div z.heads = r /\ (r * z.heads + h) % z.heads = h
      BY <2>1, QuotientOf
    <2> QED
      BY <2>2, <2>3
  <1> HIDE DEF place
  <1>3. Covers(place, 0..(rows * z.heads - 1), rows, z)
    BY <1>1, <1>2 DEF Covers
  <1> QED
    BY <1>3 DEF place

\* Such tasks keep such a promise.
LEMMA HeadsExact ==
  ASSUME NEW z, Sized(z), NEW rows \in Nat, NEW kvHeads \in Nat \ {0}, z.heads % kvHeads = 0,
         NEW seen, NEW tasks, NEW promised,
         Does(tasks, seen, rows, kvHeads, z), Promises(promised, seen, rows, kvHeads, z),
         Within(seen, rows, kvHeads, z),
         z.len.out = rows * State(z), z.len.q \in Nat, rows * State(z) <= z.len.q
  PROVE  Exactly(tasks, promised, z)
  <1>1. PICK place : Covers(place, DOMAIN tasks, rows, z) /\ OfHeads(tasks, place, seen, kvHeads, z)
    BY DEF Does
  <1>3. rows * State(z) \in Nat
    <2>1. State(z) \in Nat
      BY DEF State, Sized
    <2> QED
      BY <2>1
  <1>5. Performs(tasks, promised)
    BY <1>1, PerformsByHead
  <1>8. rows * State(z) <= z.len.out /\ rows * State(z) <= z.len.q /\ z.len.out \in Nat /\ z.len.q \in Nat
    BY <1>3
  <1>9. InBuffers(tasks, z)
    BY <1>1, <1>8, InsideByHead
  <1> QED
    BY <1>5, <1>9 DEF Exactly

\* What the queries of a call see: a run of rows each, or the past and the new.
AllRows(rows, n) == [r \in 0..(rows - 1) |-> Visible(0, n - 1)]
RowsSoFar(rows) == [r \in 0..(rows - 1) |-> Visible(0, r)]
RowsInWindow(rows, window) == [r \in 0..(rows - 1) |-> Visible(r + 1 - Smaller(r + 1, window), r)]
RowsOfBlock(rows, block) ==
  [r \in 0..(rows - 1) |-> LET first == r - (r % block) IN Visible(first, first + block - 1)]
PastAndNew(n) == [r \in 0..0 |-> Visible(0, n - 1) \o NewRow]

SeesRuns(seen, rows, keyRows) ==
  \A r \in 0..(rows - 1) :
    \E first \in Nat, last \in Int : last < keyRows /\ seen[r] = Visible(first, last)

\* Runs of rows that the buffers have are in the buffers.
LEMMA RunsWithin ==
  ASSUME NEW z, Sized(z), NEW rows \in Nat, NEW keyRows \in Nat, NEW kvHeads \in Nat \ {0},
         NEW seen, SeesRuns(seen, rows, keyRows),
         z.len.k \in Nat, z.len.v \in Nat,
         keyRows * (kvHeads * z.dim) <= z.len.k, keyRows * (kvHeads * z.dim) <= z.len.v
  PROVE  Within(seen, rows, kvHeads, z)
  <1>1. keyRows * (kvHeads * z.dim) \in Nat
    <2>1. kvHeads * z.dim \in Nat
      BY DEF Sized
    <2> QED
      BY <2>1
  <1>2. ASSUME NEW r \in 0..(rows - 1), NEW i \in DOMAIN seen[r]
        PROVE  /\ seen[r][i].k = "k" /\ seen[r][i].v = "v"
               /\ seen[r][i].row \in Nat /\ seen[r][i].row < keyRows
    <2>1. PICK first \in Nat, last \in Int : last < keyRows /\ seen[r] = Visible(first, last)
      BY DEF SeesRuns
    <2>2. /\ i \in 1..(last - first + 1)
          /\ seen[r][i] = [k |-> "k", v |-> "v", row |-> first + i - 1]
      BY <2>1 DEF Visible
    <2> QED
      BY <2>1, <2>2
  <1>3. ASSUME NEW r \in 0..(rows - 1), NEW i \in DOMAIN seen[r]
        PROVE  /\ seen[r][i].row \in Nat
               /\ \E n \in Nat : /\ seen[r][i].row < n
                                 /\ n * (kvHeads * z.dim) <= z.len[seen[r][i].k]
                                 /\ n * (kvHeads * z.dim) <= z.len[seen[r][i].v]
               /\ z.len[seen[r][i].k] \in Nat /\ z.len[seen[r][i].v] \in Nat
    <2>1. /\ keyRows * (kvHeads * z.dim) <= z.len[seen[r][i].k]
          /\ keyRows * (kvHeads * z.dim) <= z.len[seen[r][i].v]
      BY <1>1, <1>2
    <2> QED
      BY <1>1, <1>2, <2>1
  <1> QED
    BY <1>3 DEF Within

\* All rows are a run of those of a cache that holds as many.
LEMMA SeesAll ==
  ASSUME NEW rows \in Nat, NEW n \in Nat, NEW keyRows \in Nat, n <= keyRows
  PROVE  SeesRuns(AllRows(rows, n), rows, keyRows)
  <1> SUFFICES ASSUME NEW r \in 0..(rows - 1)
               PROVE  \E first \in Nat, last \in Int :
                        last < keyRows /\ AllRows(rows, n)[r] = Visible(first, last)
    BY DEF SeesRuns
  <1>1. 0 \in Nat /\ n - 1 \in Int /\ n - 1 < keyRows
    OBVIOUS
  <1>2. AllRows(rows, n)[r] = Visible(0, n - 1)
    BY DEF AllRows
  <1> QED
    BY <1>1, <1>2

\* The rows up to that of a query are such a run.
LEMMA SeesSoFar ==
  ASSUME NEW rows \in Nat, NEW keyRows \in Nat, rows <= keyRows
  PROVE  SeesRuns(RowsSoFar(rows), rows, keyRows)
  <1> SUFFICES ASSUME NEW r \in 0..(rows - 1)
               PROVE  \E first \in Nat, last \in Int :
                        last < keyRows /\ RowsSoFar(rows)[r] = Visible(first, last)
    BY DEF SeesRuns
  <1>1. 0 \in Nat /\ r \in Int /\ r < keyRows
    OBVIOUS
  <1>2. RowsSoFar(rows)[r] = Visible(0, r)
    BY DEF RowsSoFar
  <1> QED
    BY <1>1, <1>2

\* So are the last of them, as many as a window is wide.
LEMMA SeesWindow ==
  ASSUME NEW rows \in Nat, NEW window \in Nat
  PROVE  SeesRuns(RowsInWindow(rows, window), rows, rows)
  <1> SUFFICES ASSUME NEW r \in 0..(rows - 1)
               PROVE  \E first \in Nat, last \in Int :
                        last < rows /\ RowsInWindow(rows, window)[r] = Visible(first, last)
    BY DEF SeesRuns
  <1>1. r + 1 - Smaller(r + 1, window) \in Nat /\ r \in Int /\ r < rows
    BY DEF Smaller
  <1>2. RowsInWindow(rows, window)[r] = Visible(r + 1 - Smaller(r + 1, window), r)
    BY DEF RowsInWindow
  <1> QED
    BY <1>1, <1>2

\* The block of a row ends where blocks end.
LEMMA SeesBlock ==
  ASSUME NEW blocks \in Nat, NEW block \in Nat \ {0}
  PROVE  SeesRuns(RowsOfBlock(blocks * block, block), blocks * block, blocks * block)
  <1> DEFINE rows == blocks * block
  <1>0. rows \in Nat
    OBVIOUS
  <1> SUFFICES ASSUME NEW r \in 0..(rows - 1)
               PROVE  \E first \in Nat, last \in Int :
                        last < rows /\ RowsOfBlock(rows, block)[r] = Visible(first, last)
    BY DEF SeesRuns
  <1> DEFINE q == r \div block
             x == r % block
  <1>1. q \in 0..(blocks - 1) /\ x \in 0..(block - 1) /\ q * block + x = r
    BY Decomposed
  <1>2. RowsOfBlock(rows, block)[r] = Visible(r - x, (r - x) + block - 1)
    BY DEF RowsOfBlock
  <1> HIDE DEF q, x
  <1>3. q * block \in Nat /\ r - x = q * block
    BY <1>1
  <1>4. (q + 1) * block <= rows /\ (q + 1) * block = q * block + block
    BY <1>1, ProductMonotone
  <1> HIDE DEF rows
  <1>5. r - x \in Nat /\ (r - x) + block - 1 \in Int /\ (r - x) + block - 1 < rows
    BY <1>0, <1>3, <1>4
  <1> QED
    BY <1>2, <1>5

\* The new row is in its own buffers.
LEMMA NewWithin ==
  ASSUME NEW z, Sized(z), NEW n \in Nat, NEW keyRows \in Nat, n <= keyRows,
         z.len.k = keyRows * (z.heads * z.dim), z.len.v = keyRows * (z.heads * z.dim),
         z.len.newK = z.heads * z.dim, z.len.newV = z.heads * z.dim
  PROVE  Within(PastAndNew(n), 1, z.heads, z)
  <1>1. keyRows * (z.heads * z.dim) \in Nat /\ z.heads * z.dim \in Nat
    <2>1. z.heads * z.dim \in Nat
      BY DEF Sized
    <2> QED
      BY <2>1
  <1> DEFINE seen == Visible(0, n - 1) \o NewRow
  <1>2. PastAndNew(n)[0] = seen
    BY DEF PastAndNew
  <1>3. /\ DOMAIN seen = 1..(n + 1)
        /\ \A i \in 1..n : seen[i] = [k |-> "k", v |-> "v", row |-> i - 1]
        /\ seen[n + 1] = [k |-> "newK", v |-> "newV", row |-> 0]
    <2>1. Visible(0, n - 1) = [i \in 1..n |-> [k |-> "k", v |-> "v", row |-> i - 1]]
      BY DEF Visible
    <2> DEFINE past == Visible(0, n - 1)
    <2>2. past \in Seq([k : {"k"}, v : {"v"}, row : Nat]) /\ Len(past) = n
          /\ \A i \in 1..n : past[i] = [k |-> "k", v |-> "v", row |-> i - 1]
      <3> DEFINE R == [k : {"k"}, v : {"v"}, row : Nat]
      <3>1. \A i \in 1..n : [k |-> "k", v |-> "v", row |-> i - 1] \in R
        OBVIOUS
      <3> HIDE DEF R
      <3>2. past \in [1..n -> R]
        BY <2>1, <3>1
      <3>3. past \in Seq(R) /\ Len(past) = n
        <4> HIDE DEF past
        <4> QED
          BY <3>2
      <3> QED
        BY <2>1, <3>3 DEF R
    <2> HIDE DEF past
    <2>3. seen = past \o NewRow
      BY DEF past
    <2> QED
      BY <2>2, <2>3 DEF NewRow
  <1> HIDE DEF seen
  <1>4. ASSUME NEW i \in DOMAIN seen
        PROVE  /\ seen[i].row \in Nat
               /\ \E m \in Nat : /\ seen[i].row < m
                                 /\ m * (z.heads * z.dim) <= z.len[seen[i].k]
                                 /\ m * (z.heads * z.dim) <= z.len[seen[i].v]
               /\ z.len[seen[i].k] \in Nat /\ z.len[seen[i].v] \in Nat
    <2>1. CASE i \in 1..n
      <3>1. seen[i].k = "k" /\ seen[i].v = "v" /\ seen[i].row \in Nat /\ seen[i].row < keyRows
        <4>1. seen[i] = [k |-> "k", v |-> "v", row |-> i - 1]
          BY ONLY <1>3, <2>1
        <4>2. i - 1 \in Nat /\ i - 1 < keyRows
          BY <2>1
        <4> QED
          BY ONLY <4>1, <4>2
      <3>2. /\ keyRows * (z.heads * z.dim) <= z.len[seen[i].k]
            /\ keyRows * (z.heads * z.dim) <= z.len[seen[i].v]
        BY <1>1, <3>1
      <3> QED
        BY <1>1, <3>1, <3>2
    <2>2. CASE i = n + 1
      <3>1. seen[i].k = "newK" /\ seen[i].v = "newV" /\ seen[i].row = 0
        BY <1>3, <2>2
      <3>2. 1 * (z.heads * z.dim) = z.heads * z.dim
        BY <1>1
      <3>3. /\ 1 * (z.heads * z.dim) <= z.len[seen[i].k]
            /\ 1 * (z.heads * z.dim) <= z.len[seen[i].v]
        BY <1>1, <3>1, <3>2
      <3>4. 1 \in Nat /\ 0 < 1
        OBVIOUS
      <3> QED
        BY <1>1, <3>1, <3>3, <3>4
    <2> QED
      BY <1>3, <2>1, <2>2
  <1>5. \A r \in 0..(1 - 1) : r = 0
    OBVIOUS
  <1> QED
    BY <1>2, <1>4, <1>5 DEF Within

\* The query of a head's cells.
LEMMA QueryOf ==
  ASSUME NEW z, Sized(z), NEW rows \in Nat, NEW out \in Bases(rows, z)
  PROVE  out \div (z.heads * z.dim) \in 0..(rows - 1)
  <1>1. PICK r \in 0..(rows - 1), h \in HeadsOf(z) : out = (r * z.heads + h) * z.dim
    BY DEF Bases
  <1>2. r \in Nat
    OBVIOUS
  <1>3. out = Base(r, h, z)
    BY <1>1, <1>2, BasePlace
  <1>4. out \div (z.heads * z.dim) = r
    BY <1>2, <1>3, BasePlace
  <1> QED
    BY <1>4

\* What the operations promise, query by query.
LEMMA PromisedEncoderIs ==
  ASSUME NEW z, Sized(z), z.seq \in Nat
  PROVE  Promises(PromisedEncoder(z), AllRows(z.seq, z.seq), z.seq, z.heads, z)
  <1> DEFINE promised == PromisedEncoder(z)
             query(out) == out \div (z.heads * z.dim)
  <1>1. /\ DOMAIN promised = Bases(z.seq, z)
        /\ \A out \in Bases(z.seq, z) :
             promised[out] = PromisedFrom(out, Visible(0, z.seq - 1), z.heads, z)
    BY DEF PromisedEncoder, Promise, Bases
  <1>2. \A out \in Bases(z.seq, z) : query(out) \in 0..(z.seq - 1)
    BY QueryOf
  <1> HIDE DEF promised, query
  <1>3. \A out \in Bases(z.seq, z) : promised[out] = PromisedFrom(out, AllRows(z.seq, z.seq)[query(out)], z.heads, z)
    BY <1>1, <1>2 DEF AllRows
  <1> QED
    BY <1>1, <1>3 DEF Promises, promised, query

\* A causal operation promises each query the rows up to its own.
LEMMA PromisedCausalIs ==
  ASSUME NEW z, Sized(z), z.seq \in Nat
  PROVE  Promises(PromisedCausal(z), RowsSoFar(z.seq), z.seq, z.heads, z)
  <1> DEFINE promised == PromisedCausal(z)
             query(out) == out \div (z.heads * z.dim)
  <1>1. /\ DOMAIN promised = Bases(z.seq, z)
        /\ \A out \in Bases(z.seq, z) :
             promised[out] = PromisedFrom(out, Visible(0, query(out)), z.heads, z)
    BY DEF PromisedCausal, Promise, Bases
  <1>2. \A out \in Bases(z.seq, z) : query(out) \in 0..(z.seq - 1)
    BY QueryOf
  <1> HIDE DEF promised, query
  <1>3. \A out \in Bases(z.seq, z) : promised[out] = PromisedFrom(out, RowsSoFar(z.seq)[query(out)], z.heads, z)
    BY <1>1, <1>2 DEF RowsSoFar
  <1> QED
    BY <1>1, <1>3 DEF Promises, promised, query

\* Cross-attention promises each query all rows of the encoder.
LEMMA PromisedCrossIs ==
  ASSUME NEW z, Sized(z), z.seq \in Nat
  PROVE  Promises(PromisedCross(z), AllRows(z.seq, z.kvSeq), z.seq, z.heads, z)
  <1> DEFINE promised == PromisedCross(z)
             query(out) == out \div (z.heads * z.dim)
  <1>1. /\ DOMAIN promised = Bases(z.seq, z)
        /\ \A out \in Bases(z.seq, z) :
             promised[out] = PromisedFrom(out, Visible(0, z.kvSeq - 1), z.heads, z)
    BY DEF PromisedCross, Promise, Bases
  <1>2. \A out \in Bases(z.seq, z) : query(out) \in 0..(z.seq - 1)
    BY QueryOf
  <1> HIDE DEF promised, query
  <1>3. \A out \in Bases(z.seq, z) : promised[out] = PromisedFrom(out, AllRows(z.seq, z.kvSeq)[query(out)], z.heads, z)
    BY <1>1, <1>2 DEF AllRows
  <1> QED
    BY <1>1, <1>3 DEF Promises, promised, query

\* The operation on a cache promises the query its visible rows.
LEMMA PromisedCacheIs ==
  ASSUME NEW z, Sized(z)
  PROVE  Promises(PromisedCache(z), AllRows(1, z.seq), 1, z.heads, z)
  <1> DEFINE promised == PromisedCache(z)
             query(out) == out \div (z.heads * z.dim)
  <1>1. /\ DOMAIN promised = Bases(1, z)
        /\ \A out \in Bases(1, z) :
             promised[out] = PromisedFrom(out, Visible(0, z.seq - 1), z.heads, z)
    BY DEF PromisedCache, Promise, Bases
  <1>2. \A out \in Bases(1, z) : query(out) \in 0..(1 - 1)
    BY QueryOf
  <1> HIDE DEF promised, query
  <1>3. \A out \in Bases(1, z) : promised[out] = PromisedFrom(out, AllRows(1, z.seq)[query(out)], z.heads, z)
    BY <1>1, <1>2 DEF AllRows
  <1> QED
    BY <1>1, <1>3 DEF Promises, promised, query

\* With a new row, the past ones come first and the new one last.
LEMMA PromisedAppendIs ==
  ASSUME NEW z, Sized(z)
  PROVE  Promises(PromisedAppend(z), PastAndNew(z.seq), 1, z.heads, z)
  <1> DEFINE promised == PromisedAppend(z)
             query(out) == out \div (z.heads * z.dim)
  <1>1. /\ DOMAIN promised = Bases(1, z)
        /\ \A out \in Bases(1, z) :
             promised[out] = PromisedFrom(out, Visible(0, z.seq - 1) \o NewRow, z.heads, z)
    BY DEF PromisedAppend, Promise, Bases
  <1>2. \A out \in Bases(1, z) : query(out) \in 0..(1 - 1)
    BY QueryOf
  <1> HIDE DEF promised, query
  <1>3. \A out \in Bases(1, z) : promised[out] = PromisedFrom(out, PastAndNew(z.seq)[query(out)], z.heads, z)
    BY <1>1, <1>2 DEF PastAndNew
  <1> QED
    BY <1>1, <1>3 DEF Promises, promised, query

\* Grouped heads are promised the same of the head that they share.
LEMMA PromisedSdpaIs ==
  ASSUME NEW z, Sized(z), z.seq \in Nat
  PROVE  Promises(PromisedSdpa(z), RowsSoFar(z.seq), z.seq, z.kvHeads, z)
  <1> DEFINE promised == PromisedSdpa(z)
             query(out) == out \div (z.heads * z.dim)
  <1>1. /\ DOMAIN promised = Bases(z.seq, z)
        /\ \A out \in Bases(z.seq, z) :
             promised[out] = PromisedFrom(out, Visible(0, query(out)), z.kvHeads, z)
    BY DEF PromisedSdpa, Promise, Bases
  <1>2. \A out \in Bases(z.seq, z) : query(out) \in 0..(z.seq - 1)
    BY QueryOf
  <1> HIDE DEF promised, query
  <1>3. \A out \in Bases(z.seq, z) : promised[out] = PromisedFrom(out, RowsSoFar(z.seq)[query(out)], z.kvHeads, z)
    BY <1>1, <1>2 DEF RowsSoFar
  <1> QED
    BY <1>1, <1>3 DEF Promises, promised, query

\* One query of grouped heads is promised all rows of the cache.
LEMMA PromisedSdpaLastIs ==
  ASSUME NEW z, Sized(z)
  PROVE  Promises(PromisedSdpaLast(z), AllRows(1, z.seq), 1, z.kvHeads, z)
  <1> DEFINE promised == PromisedSdpaLast(z)
             query(out) == out \div (z.heads * z.dim)
  <1>1. /\ DOMAIN promised = Bases(1, z)
        /\ \A out \in Bases(1, z) :
             promised[out] = PromisedFrom(out, Visible(0, z.seq - 1), z.kvHeads, z)
    BY DEF PromisedSdpaLast, Promise, Bases
  <1>2. \A out \in Bases(1, z) : query(out) \in 0..(1 - 1)
    BY QueryOf
  <1> HIDE DEF promised, query
  <1>3. \A out \in Bases(1, z) : promised[out] = PromisedFrom(out, AllRows(1, z.seq)[query(out)], z.kvHeads, z)
    BY <1>1, <1>2 DEF AllRows
  <1> QED
    BY <1>1, <1>3 DEF Promises, promised, query

\* In both directions each query is promised all rows.
LEMMA PromisedBothIs ==
  ASSUME NEW z, Sized(z), z.seq \in Nat
  PROVE  Promises(PromisedBoth(z), AllRows(z.seq, z.seq), z.seq, z.kvHeads, z)
  <1> DEFINE promised == PromisedBoth(z)
             query(out) == out \div (z.heads * z.dim)
  <1>1. /\ DOMAIN promised = Bases(z.seq, z)
        /\ \A out \in Bases(z.seq, z) :
             promised[out] = PromisedFrom(out, Visible(0, z.seq - 1), z.kvHeads, z)
    BY DEF PromisedBoth, Promise, Bases
  <1>2. \A out \in Bases(z.seq, z) : query(out) \in 0..(z.seq - 1)
    BY QueryOf
  <1> HIDE DEF promised, query
  <1>3. \A out \in Bases(z.seq, z) : promised[out] = PromisedFrom(out, AllRows(z.seq, z.seq)[query(out)], z.kvHeads, z)
    BY <1>1, <1>2 DEF AllRows
  <1> QED
    BY <1>1, <1>3 DEF Promises, promised, query

\* With a window each query is promised the last rows up to its own.
LEMMA PromisedWindowedIs ==
  ASSUME NEW z, Sized(z), z.seq \in Nat
  PROVE  Promises(PromisedWindowed(z), RowsInWindow(z.seq, z.window), z.seq, z.kvHeads, z)
  <1> DEFINE promised == PromisedWindowed(z)
             query(out) == out \div (z.heads * z.dim)
  <1>1. /\ DOMAIN promised = Bases(z.seq, z)
        /\ \A out \in Bases(z.seq, z) :
             promised[out] = PromisedFrom(out, Visible(query(out) + 1 - Smaller(query(out) + 1, z.window), query(out)), z.kvHeads, z)
    BY DEF PromisedWindowed, Promise, Bases
  <1>2. \A out \in Bases(z.seq, z) : query(out) \in 0..(z.seq - 1)
    BY QueryOf
  <1> HIDE DEF promised, query
  <1>3. \A out \in Bases(z.seq, z) : promised[out] = PromisedFrom(out, RowsInWindow(z.seq, z.window)[query(out)], z.kvHeads, z)
    BY <1>1, <1>2 DEF RowsInWindow
  <1> QED
    BY <1>1, <1>3 DEF Promises, promised, query

\* Each query of stacked sequences is promised the rows of its sequence.
LEMMA PromisedBatchedIs ==
  ASSUME NEW z, Sized(z), z.batch * z.seq \in Nat
  PROVE  Promises(PromisedBatched(z), RowsOfBlock(z.batch * z.seq, z.seq), z.batch * z.seq, z.heads, z)
  <1> DEFINE promised == PromisedBatched(z)
             query(out) == out \div (z.heads * z.dim)
  <1>1. /\ DOMAIN promised = Bases(z.batch * z.seq, z)
        /\ \A out \in Bases(z.batch * z.seq, z) :
             promised[out] = PromisedFrom(out, LET first == query(out) - (query(out) % z.seq) IN Visible(first, first + z.seq - 1), z.heads, z)
    BY DEF PromisedBatched, Promise, Bases
  <1>2. \A out \in Bases(z.batch * z.seq, z) : query(out) \in 0..(z.batch * z.seq - 1)
    BY QueryOf
  <1> HIDE DEF promised, query
  <1>3. \A out \in Bases(z.batch * z.seq, z) : promised[out] = PromisedFrom(out, RowsOfBlock(z.batch * z.seq, z.seq)[query(out)], z.heads, z)
    BY <1>1, <1>2 DEF RowsOfBlock
  <1> QED
    BY <1>1, <1>3 DEF Promises, promised, query

HasSizes(z) == {"heads", "kvHeads", "dim", "seq", "kvSeq", "mode", "len", "device"} \subseteq DOMAIN z

\* The scalar kernels, of a call with the same sizes.
LEMMA ScalarSizes ==
  ASSUME NEW z, HasSizes(z)
  PROVE  Scalar(z).heads = z.heads /\ Scalar(z).dim = z.dim
  BY DEF Scalar, HasSizes

\* Tasks of a loop over queries and heads, of a loop over the heads of one
\* query, and of units numbered head by head.
LEMMA LoopDoes ==
  ASSUME NEW z, NEW rows, NEW seen, NEW kvHeads, NEW tasks, DOMAIN tasks = Loop(rows, z),
         \A u \in Loop(rows, z) : tasks[u] = HeadTask(u[1], u[2], seen[u[1]], kvHeads, z)
  PROVE  Does(tasks, seen, rows, kvHeads, z)
  <1> DEFINE place == [u \in Loop(rows, z) |-> u]
  <1>1. Covers(place, Loop(rows, z), rows, z)
    BY CoversLoop
  <1>2. OfHeads(tasks, place, seen, kvHeads, z)
    BY DEF OfHeads
  <1> HIDE DEF place
  <1> QED
    BY <1>1, <1>2 DEF Does

\* One task for each head of one query.
LEMMA HeadsDo ==
  ASSUME NEW z, NEW seen, NEW kvHeads, NEW tasks, DOMAIN tasks = HeadsOf(z),
         \A h \in HeadsOf(z) : tasks[h] = HeadTask(0, h, seen[0], kvHeads, z)
  PROVE  Does(tasks, seen, 1, kvHeads, z)
  <1> DEFINE place == [h \in HeadsOf(z) |-> <<0, h>>]
  <1>1. Covers(place, HeadsOf(z), 1, z)
    BY CoversHeads
  <1>2. OfHeads(tasks, place, seen, kvHeads, z)
    BY DEF OfHeads
  <1> HIDE DEF place
  <1> QED
    BY <1>1, <1>2 DEF Does

\* Tasks numbered through the heads of all queries.
LEMMA NumberedDo ==
  ASSUME NEW z, Sized(z), NEW rows \in Nat, NEW seen, NEW kvHeads, NEW tasks,
         DOMAIN tasks = 0..(rows * z.heads - 1),
         \A p \in DOMAIN tasks :
           tasks[p] = HeadTask(p \div z.heads, p % z.heads, seen[p \div z.heads], kvHeads, z)
  PROVE  Does(tasks, seen, rows, kvHeads, z)
  <1> DEFINE place == [p \in DOMAIN tasks |-> <<p \div z.heads, p % z.heads>>]
  <1>1. Covers(place, DOMAIN tasks, rows, z)
    BY CoversNumbered
  <1>2. OfHeads(tasks, place, seen, kvHeads, z)
    BY DEF OfHeads
  <1> HIDE DEF place
  <1> QED
    BY <1>1, <1>2 DEF Does

\* The loops of the host.
LEMMA LoopOverRows ==
  ASSUME NEW z, Sized(z), NEW rows \in Nat, NEW n \in Nat, NEW y, y.dim = z.dim, y.heads = z.heads,
         NEW tasks, DOMAIN tasks = Loop(rows, z),
         \A u \in Loop(rows, z) :
           tasks[u] = OverRows(Base(u[1], u[2], z), Base(u[1], u[2], z), n, u[2] * z.dim, y)
  PROVE  Does(tasks, AllRows(rows, n), rows, z.heads, z)
  <1>1. ASSUME NEW u \in Loop(rows, z)
        PROVE  tasks[u] = HeadTask(u[1], u[2], AllRows(rows, n)[u[1]], z.heads, z)
    <2>1. u[1] \in 0..(rows - 1) /\ u[1] \in Nat /\ u[2] \in HeadsOf(z)
      BY DEF Loop
    <2>2. OverRows(Base(u[1], u[2], z), Base(u[1], u[2], z), n, u[2] * z.dim, y)
            = HeadTask(u[1], u[2], Visible(0, n - 1), z.heads, z)
      BY <2>1, OverRowsHead
    <2>3. AllRows(rows, n)[u[1]] = Visible(0, n - 1)
      BY <2>1 DEF AllRows
    <2> QED
      BY <2>2, <2>3
  <1> QED
    BY <1>1, LoopDoes

\* One task for each head of one query, over the first rows.
LEMMA HeadsOverRows ==
  ASSUME NEW z, Sized(z), NEW n \in Nat, NEW y, y.dim = z.dim, y.heads = z.heads,
         NEW tasks, DOMAIN tasks = HeadsOf(z),
         \A h \in HeadsOf(z) : tasks[h] = OverRows(h * z.dim, h * z.dim, n, h * z.dim, y)
  PROVE  Does(tasks, AllRows(1, n), 1, z.heads, z)
  <1>1. ASSUME NEW h \in HeadsOf(z)
        PROVE  tasks[h] = HeadTask(0, h, AllRows(1, n)[0], z.heads, z)
    <2>1. 0 \in Nat
      OBVIOUS
    <2>2. Base(0, h, z) = h * z.dim
      <3>1. h * z.dim \in Nat /\ State(z) \in Nat
        BY DEF Sized, HeadsOf, State
      <3> QED
        BY <3>1 DEF Base
    <2>3. OverRows(Base(0, h, z), Base(0, h, z), n, h * z.dim, y)
            = HeadTask(0, h, Visible(0, n - 1), z.heads, z)
      BY <2>1, OverRowsHead
    <2>4. AllRows(1, n)[0] = Visible(0, n - 1)
      BY DEF AllRows
    <2> QED
      BY <2>2, <2>3, <2>4
  <1> QED
    BY <1>1, HeadsDo

\* Numbered tasks over the first rows.
LEMMA NumberedOverRows ==
  ASSUME NEW z, Sized(z), NEW rows \in Nat, NEW n \in Nat, NEW y, y.dim = z.dim, y.heads = z.heads,
         NEW tasks, DOMAIN tasks = 0..(rows * z.heads - 1),
         \A p \in DOMAIN tasks :
           tasks[p] = OverRows(Base(p \div z.heads, p % z.heads, z), Base(p \div z.heads, p % z.heads, z),
                               n, (p % z.heads) * z.dim, y)
  PROVE  Does(tasks, AllRows(rows, n), rows, z.heads, z)
  <1>1. ASSUME NEW p \in DOMAIN tasks
        PROVE  tasks[p] = HeadTask(p \div z.heads, p % z.heads, AllRows(rows, n)[p \div z.heads], z.heads, z)
    <2> DEFINE r == p \div z.heads
               h == p % z.heads
    <2>1. r \in 0..(rows - 1) /\ r \in Nat /\ h \in HeadsOf(z)
      BY NumberedPlace
    <2>2. tasks[p] = OverRows(Base(r, h, z), Base(r, h, z), n, h * z.dim, y)
      OBVIOUS
    <2> HIDE DEF r, h
    <2>3. tasks[p] = HeadTask(r, h, Visible(0, n - 1), z.heads, z)
      BY <2>1, <2>2, OverRowsHead
    <2>4. AllRows(rows, n)[r] = Visible(0, n - 1)
      BY <2>1 DEF AllRows
    <2> QED
      BY <2>3, <2>4 DEF r, h
  <1> QED
    BY <1>1, NumberedDo

\* encoder_attention and cross_attention, one head after the other.
LEMMA EncoderScalarDoes ==
  ASSUME NEW z, Sized(z), HasSizes(z), z.seq \in Nat
  PROVE  Does(EncoderScalar(z), AllRows(z.seq, z.seq), z.seq, z.heads, z)
  <1> DEFINE tasks == EncoderScalar(z)
  <1>1. DOMAIN tasks = Loop(z.seq, z)
    BY DEF EncoderScalar
  <1>2. \A u \in Loop(z.seq, z) :
          tasks[u] = OverRows(Base(u[1], u[2], z), Base(u[1], u[2], z), z.seq, u[2] * z.dim, Scalar(z))
    BY DEF EncoderScalar, Base
  <1> HIDE DEF tasks
  <1> QED
    BY <1>1, <1>2, ScalarSizes, LoopOverRows DEF tasks

\* Cross-attention on the host, scalar or vectorised.
LEMMA CrossHostDoes ==
  ASSUME NEW z, Sized(z), HasSizes(z), z.seq \in Nat, z.kvSeq \in Nat
  PROVE  /\ Does(CrossScalar(z), AllRows(z.seq, z.kvSeq), z.seq, z.heads, z)
         /\ Does(CrossHost(z), AllRows(z.seq, z.kvSeq), z.seq, z.heads, z)
  <1>1. Does(CrossScalar(z), AllRows(z.seq, z.kvSeq), z.seq, z.heads, z)
    <2> DEFINE tasks == CrossScalar(z)
    <2>1. DOMAIN tasks = Loop(z.seq, z)
      BY DEF CrossScalar
    <2>2. \A u \in Loop(z.seq, z) :
            tasks[u] = OverRows(Base(u[1], u[2], z), Base(u[1], u[2], z), z.kvSeq, u[2] * z.dim, Scalar(z))
      BY DEF CrossScalar, Base
    <2> HIDE DEF tasks
    <2> QED
      BY <2>1, <2>2, ScalarSizes, LoopOverRows DEF tasks
  <1>2. CASE z.mode = "Avx2"
    <2> DEFINE tasks == CrossHost(z)
    <2>1. DOMAIN tasks = Loop(z.seq, z)
      BY <1>2 DEF CrossHost
    <2>2. \A u \in Loop(z.seq, z) :
            tasks[u] = OverRows(Base(u[1], u[2], z), Base(u[1], u[2], z), z.kvSeq, u[2] * z.dim, z)
      BY <1>2 DEF CrossHost, Base
    <2> HIDE DEF tasks
    <2>3. Does(tasks, AllRows(z.seq, z.kvSeq), z.seq, z.heads, z)
      BY <2>1, <2>2, LoopOverRows
    <2> QED
      BY <1>1, <2>3 DEF tasks
  <1>3. CASE z.mode # "Avx2"
    BY <1>1, <1>3 DEF CrossHost
  <1> QED
    BY <1>2, <1>3

\* The operation on a cache on the host, scalar or vectorised.
LEMMA CacheHostDoes ==
  ASSUME NEW z, Sized(z), HasSizes(z), z.seq \in Nat
  PROVE  /\ Does(CacheScalar(z), AllRows(1, z.seq), 1, z.heads, z)
         /\ Does(CacheHost(z), AllRows(1, z.seq), 1, z.heads, z)
  <1>1. Does(CacheScalar(z), AllRows(1, z.seq), 1, z.heads, z)
    <2> DEFINE tasks == CacheScalar(z)
    <2>1. DOMAIN tasks = HeadsOf(z)
      BY DEF CacheScalar
    <2>2. \A h \in HeadsOf(z) :
            tasks[h] = OverRows(h * z.dim, h * z.dim, z.seq, h * z.dim, Scalar(z))
      BY DEF CacheScalar
    <2> HIDE DEF tasks
    <2> QED
      BY <2>1, <2>2, ScalarSizes, HeadsOverRows DEF tasks
  <1>2. CASE z.mode = "Avx2"
    <2> DEFINE tasks == CacheHost(z)
    <2>1. DOMAIN tasks = HeadsOf(z)
      BY <1>2 DEF CacheHost
    <2>2. \A h \in HeadsOf(z) : tasks[h] = OverRows(h * z.dim, h * z.dim, z.seq, h * z.dim, z)
      BY <1>2 DEF CacheHost
    <2> HIDE DEF tasks
    <2>3. Does(tasks, AllRows(1, z.seq), 1, z.heads, z)
      BY <2>1, <2>2, HeadsOverRows
    <2> QED
      BY <1>1, <2>3 DEF tasks
  <1>3. CASE z.mode # "Avx2"
    BY <1>1, <1>3 DEF CacheHost
  <1> QED
    BY <1>2, <1>3

\* The causal loop.
LEMMA CausalOverRows ==
  ASSUME NEW z, Sized(z), NEW rows \in Nat, NEW y, y.dim = z.dim, y.heads = z.heads,
         NEW tasks, DOMAIN tasks = Loop(rows, z),
         \A u \in Loop(rows, z) :
           tasks[u] = OverRows(Base(u[1], u[2], z), Base(u[1], u[2], z), u[1] + 1, u[2] * z.dim, y)
  PROVE  Does(tasks, RowsSoFar(rows), rows, z.heads, z)
  <1>1. ASSUME NEW u \in Loop(rows, z)
        PROVE  tasks[u] = HeadTask(u[1], u[2], RowsSoFar(rows)[u[1]], z.heads, z)
    <2>1. u[1] \in 0..(rows - 1) /\ u[1] \in Nat /\ u[2] \in HeadsOf(z) /\ u[1] + 1 \in Nat /\ (u[1] + 1) - 1 = u[1]
      BY DEF Loop
    <2>2. OverRows(Base(u[1], u[2], z), Base(u[1], u[2], z), u[1] + 1, u[2] * z.dim, y)
            = HeadTask(u[1], u[2], Visible(0, (u[1] + 1) - 1), z.heads, z)
      BY <2>1, OverRowsHead
    <2>3. RowsSoFar(rows)[u[1]] = Visible(0, u[1])
      BY <2>1 DEF RowsSoFar
    <2> QED
      BY <2>1, <2>2, <2>3
  <1> QED
    BY <1>1, LoopDoes

\* Causal attention on the host.
LEMMA CausalScalarDoes ==
  ASSUME NEW z, Sized(z), HasSizes(z), z.seq \in Nat
  PROVE  Does(CausalScalar(z), RowsSoFar(z.seq), z.seq, z.heads, z)
  <1> DEFINE tasks == CausalScalar(z)
  <1>1. DOMAIN tasks = Loop(z.seq, z)
    BY DEF CausalScalar
  <1>2. \A u \in Loop(z.seq, z) :
          tasks[u] = OverRows(Base(u[1], u[2], z), Base(u[1], u[2], z), u[1] + 1, u[2] * z.dim, Scalar(z))
    BY DEF CausalScalar, Base
  <1> HIDE DEF tasks
  <1> QED
    BY <1>1, <1>2, ScalarSizes, CausalOverRows DEF tasks

\* The chunks of an output that they divide.
LEMMA WholeChunks ==
  ASSUME NEW n \in Nat, NEW d \in Nat \ {0}
  PROVE  /\ DOMAIN Chunks(n * d, d) = 0..(n - 1)
         /\ \A c \in 0..(n - 1) : Chunks(n * d, d)[c].first = c * d
  <1>1. n * d \in Nat
    OBVIOUS
  <1>2. CeilDiv(n * d, d) = n
    <2> DEFINE m == CeilDiv(n * d, d)
    <2>1. m \in Nat /\ n * d <= m * d /\ m * d < n * d + d
      BY <1>1, SharesReachTheEnd
    <2> HIDE DEF m
    <2>2. (n + 1) * d = n * d + d /\ m * d \in Nat /\ (m + 1) * d = m * d + d
      BY <2>1
    <2>3. ~(n + 1 <= m)
      BY <2>1, <2>2, <1>1, ProductMonotone
    <2>4. ~(m + 1 <= n)
      BY <2>1, <2>2, <1>1, ProductMonotone
    <2>5. m = n
      BY <2>1, <2>3, <2>4
    <2> QED
      BY <2>5 DEF m
  <1> QED
    BY <1>2 DEF Chunks

\* One chunk per head.
LEMMA CrossParallelDoes ==
  ASSUME NEW z, Sized(z), HasSizes(z), z.seq \in Nat, z.kvSeq \in Nat, z.len.out = z.seq * State(z)
  PROVE  Does(CrossParallel(z), AllRows(z.seq, z.kvSeq), z.seq, z.heads, z)
  <1> DEFINE tasks == CrossParallel(z)
             n == z.seq * z.heads
  <1>1. z.len.out = n * z.dim /\ n \in Nat /\ z.dim \in Nat \ {0}
    BY DEF Sized, State
  <1>2. DOMAIN tasks = 0..(n - 1)
    <2> HIDE DEF n
    <2> QED
      BY <1>1, WholeChunks DEF CrossParallel
  <1>3. \A p \in 0..(n - 1) :
          tasks[p] = OverRows(p * z.dim, Base(p \div z.heads, p % z.heads, z), z.kvSeq,
                              (p % z.heads) * z.dim, z)
    <2> DEFINE chunks == Chunks(z.len.out, z.dim)
    <2>1. DOMAIN chunks = 0..(n - 1) /\ \A c \in 0..(n - 1) : chunks[c].first = c * z.dim
      <3> HIDE DEF n
      <3>1. /\ DOMAIN Chunks(n * z.dim, z.dim) = 0..(n - 1)
            /\ \A c \in 0..(n - 1) : Chunks(n * z.dim, z.dim)[c].first = c * z.dim
        BY ONLY <1>1, WholeChunks
      <3> QED
        BY ONLY <1>1, <3>1
    <2>2. \A p \in DOMAIN chunks :
            tasks[p] = OverRows(chunks[p].first, Base(p \div z.heads, p % z.heads, z), z.kvSeq,
                                (p % z.heads) * z.dim, z)
      BY DEF CrossParallel, Base
    <2> HIDE DEF chunks, tasks, n
    <2> QED
      BY <2>1, <2>2
  <1>4. \A p \in 0..(n - 1) : p * z.dim = Base(p \div z.heads, p % z.heads, z)
    BY NumberedPlace
  <1> HIDE DEF tasks
  <1>5. \A p \in DOMAIN tasks :
          tasks[p] = OverRows(Base(p \div z.heads, p % z.heads, z), Base(p \div z.heads, p % z.heads, z),
                              z.kvSeq, (p % z.heads) * z.dim, z)
    BY <1>2, <1>3, <1>4
  <1> QED
    BY <1>2, <1>5, NumberedOverRows DEF tasks

\* One chunk of the output for each head of the query.
LEMMA CacheParallelDoes ==
  ASSUME NEW z, Sized(z), HasSizes(z), z.seq \in Nat, z.len.out = State(z)
  PROVE  Does(CacheParallel(z), AllRows(1, z.seq), 1, z.heads, z)
  <1> DEFINE tasks == CacheParallel(z)
  <1>1. z.len.out = z.heads * z.dim /\ z.heads \in Nat /\ z.dim \in Nat \ {0}
    BY DEF Sized, State
  <1>2. DOMAIN tasks = HeadsOf(z)
    BY <1>1, WholeChunks DEF CacheParallel, HeadsOf
  <1>3. \A h \in HeadsOf(z) : tasks[h] = OverRows(h * z.dim, h * z.dim, z.seq, h * z.dim, z)
    <2> DEFINE chunks == Chunks(z.len.out, z.dim)
    <2>1. DOMAIN chunks = HeadsOf(z) /\ \A c \in HeadsOf(z) : chunks[c].first = c * z.dim
      BY <1>1, WholeChunks DEF HeadsOf
    <2>2. \A h \in DOMAIN chunks :
            tasks[h] = OverRows(chunks[h].first, h * z.dim, z.seq, h * z.dim, z)
      BY DEF CacheParallel
    <2> HIDE DEF chunks, tasks
    <2> QED
      BY <2>1, <2>2
  <1> HIDE DEF tasks
  <1> QED
    BY <1>2, <1>3, HeadsOverRows DEF tasks

\* A share of the rows per worker, the last one short.
SharesRows(chunks, rows, per, width) ==
  /\ \A c \in DOMAIN chunks :
       /\ c \in Nat /\ c * per < rows
       /\ chunks[c].first = (c * per) * width
       /\ chunks[c].len \div width = Smaller(per, rows - c * per)
  /\ \A r \in 0..(rows - 1) : r \div per \in DOMAIN chunks

\* Chunks of as many rows each share out the rows.
LEMMA RowsShared ==
  ASSUME NEW rows \in Nat, NEW per \in Nat \ {0}, NEW width \in Nat \ {0}
  PROVE  SharesRows(Chunks(rows * width, per * width), rows, per, width)
  <1> DEFINE len == rows * width
             size == per * width
             chunks == Chunks(len, size)
  <1>1. len \in Nat /\ size \in Nat \ {0}
    OBVIOUS
  <1>2. ASSUME NEW c \in DOMAIN chunks
        PROVE  /\ c \in Nat /\ c * per < rows
               /\ chunks[c].first = (c * per) * width
               /\ chunks[c].len \div width = Smaller(per, rows - c * per)
    <2>1. /\ c \in Nat /\ chunks[c].first = c * size
          /\ chunks[c].len = Smaller(size, len - c * size)
          /\ c * size \in Nat /\ c * size < len
      <3> HIDE DEF len, size
      <3> QED
        BY <1>1, ShareOfChunk
    <2> DEFINE before == c * per
               most == Smaller(per, rows - before)
    <2>2. before \in Nat /\ c * size = before * width
      BY <2>1
    <2> HIDE DEF chunks, before
    <2>3. before < rows
      <3>1. SUFFICES ASSUME rows <= before PROVE FALSE
        BY <2>2
      <3>2. rows * width <= before * width
        BY <2>2, <3>1, ProductMonotone
      <3>3. before * width \in Nat
        BY <2>2
      <3> QED
        BY <1>1, <2>1, <2>2, <3>2, <3>3
    <2>4. most \in Nat /\ Smaller(size, len - c * size) = most * width
      <3>1. CASE per <= rows - before
        <4>1. per * width <= (rows - before) * width
          BY <2>2, <3>1, ProductMonotone
        <4>2. (rows - before) * width = len - c * size
          BY <2>2
        <4> QED
          BY <3>1, <4>1, <4>2 DEF Smaller
      <3>2. CASE rows - before < per
        <4>1. (rows - before + 1) * width <= per * width
          BY <2>2, <3>2, ProductMonotone
        <4>2. (rows - before) * width = len - c * size
          BY <2>2
        <4>3. (rows - before + 1) * width = (rows - before) * width + width
          BY <2>2
        <4>4. rows - before \in Nat /\ (rows - before) * width \in Nat
          BY <2>2, <2>3
        <4>5. ~(size <= len - c * size)
          BY <1>1, <4>1, <4>2, <4>3, <4>4
        <4> QED
          BY <2>2, <3>2, <4>2, <4>4, <4>5 DEF Smaller
      <3> QED
        BY <2>2, <3>1, <3>2
    <2> HIDE DEF most
    <2>5. (most * width) \div width = most
      <3>1. 0 \in 0..(width - 1)
        OBVIOUS
      <3>2. (most * width + 0) \div width = most
        BY ONLY <2>4, <3>1, width \in Nat \ {0}, QuotientOf
      <3>3. most * width \in Nat
        BY <2>4
      <3> QED
        BY <3>2, <3>3
    <2> QED
      BY <2>1, <2>2, <2>3, <2>4, <2>5 DEF most, before
  <1>3. ASSUME NEW r \in 0..(rows - 1)
        PROVE  r \div per \in DOMAIN chunks
    <2> DEFINE c == r \div per
               n == CeilDiv(len, size)
    <2>1. r \in Nat
      OBVIOUS
    <2>2. c \in Nat /\ c * per <= r
      BY ONLY <2>1, per \in Nat \ {0}, Quotient
    <2>3. n \in Nat /\ len <= n * size
      <3> HIDE DEF len, size
      <3> QED
        BY <1>1, SharesReachTheEnd
    <2>4. DOMAIN chunks = 0..(n - 1)
      BY DEF Chunks
    <2> HIDE DEF c, n, chunks
    <2>5. c < n
      <3>1. SUFFICES ASSUME n <= c PROVE FALSE
        BY <2>2, <2>3
      <3>2. n * per <= c * per /\ n * per \in Nat /\ c * per \in Nat
        BY <2>2, <2>3, <3>1, ProductMonotone
      <3>3. n * per + 1 <= rows
        BY <2>2, <3>2
      <3>4. (n * per + 1) * width <= rows * width
        BY <3>2, <3>3, ProductMonotone
      <3>5. (n * per + 1) * width = n * size + width /\ n * size \in Nat
        BY <2>3, <3>2
      <3> QED
        BY <1>1, <2>3, <3>4, <3>5
    <2>6. c \in 0..(n - 1)
      BY <2>2, <2>3, <2>5
    <2> QED
      BY <2>4, <2>6 DEF c
  <1> HIDE DEF chunks
  <1>4. SharesRows(chunks, rows, per, width)
    BY <1>2, <1>3 DEF SharesRows
  <1> QED
    BY <1>4 DEF chunks

\* The heads of a worker's rows, numbered from its chunk.
LEMMA CoversShares ==
  ASSUME NEW z, NEW rows \in Nat, NEW per \in Nat \ {0}, NEW width, NEW chunks,
         SharesRows(chunks, rows, per, width), NEW units, NEW place,
         units = {v \in (DOMAIN chunks) \X (0..(rows - 1)) \X HeadsOf(z) :
                    v[2] < chunks[v[1]].len \div width},
         \A u \in units : place[u][1] = u[1] * per + u[2] /\ place[u][2] = u[3]
  PROVE  Covers(place, units, rows, z)
  <1>1. ASSUME NEW u \in units
        PROVE  /\ u = <<u[1], u[2], u[3]>> /\ u[1] \in Nat /\ u[2] \in 0..(per - 1) /\ u[3] \in HeadsOf(z)
               /\ u[1] * per + u[2] \in 0..(rows - 1)
    <2>1. /\ u = <<u[1], u[2], u[3]>> /\ u[1] \in DOMAIN chunks /\ u[2] \in 0..(rows - 1)
          /\ u[3] \in HeadsOf(z) /\ u[2] < chunks[u[1]].len \div width
      OBVIOUS
    <2>2. /\ u[1] \in Nat /\ u[1] * per < rows
          /\ u[2] < Smaller(per, rows - u[1] * per)
      BY <2>1 DEF SharesRows
    <2>3. u[1] * per \in Nat /\ u[2] \in Nat
      BY <2>1, <2>2
    <2> QED
      BY <2>1, <2>2, <2>3 DEF Smaller
  <1>2. ASSUME NEW u \in units, NEW v \in units, place[u][1] = place[v][1], place[u][2] = place[v][2]
        PROVE  u = v
    <2>1. u[1] * per + u[2] = v[1] * per + v[2] /\ u[3] = v[3]
      BY <1>2
    <2>2. u[1] \in Nat /\ v[1] \in Nat /\ u[2] \in 0..(per - 1) /\ v[2] \in 0..(per - 1)
      BY <1>1
    <2>3. u[1] = v[1] /\ u[2] = v[2]
      <3> DEFINE a == u[1]
                 b == v[1]
                 x == u[2]
                 y == v[2]
      <3>1. a \in Nat /\ b \in Nat /\ x \in 0..(per - 1) /\ y \in 0..(per - 1)
        BY <2>2
      <3>2. a * per + x = b * per + y
        BY <2>1
      <3> HIDE DEF a, b, x, y
      <3>3. a = b /\ x = y
        BY ONLY <3>1, <3>2, per \in Nat \ {0}, Digits
      <3> QED
        BY <3>3 DEF a, b, x, y
    <2> QED
      BY <1>1, <2>1, <2>3
  <1>3. ASSUME NEW r \in 0..(rows - 1), NEW h \in HeadsOf(z)
        PROVE  \E u \in units : place[u][1] = r /\ place[u][2] = h
    <2> DEFINE c == r \div per
               x == r % per
    <2>1. c \in DOMAIN chunks
      BY DEF SharesRows
    <2>2. c * per + x = r /\ x \in 0..(per - 1) /\ c \in Nat
      <3>1. r \in Nat
        OBVIOUS
      <3> QED
        BY ONLY <3>1, per \in Nat \ {0}, Remainder, Quotient
    <2> HIDE DEF c, x
    <2>3. c * per \in Nat /\ chunks[c].len \div width = Smaller(per, rows - c * per)
      BY <2>1, <2>2 DEF SharesRows
    <2>4. x \in 0..(rows - 1) /\ x < Smaller(per, rows - c * per)
      BY <2>2, <2>3 DEF Smaller
    <2>5. <<c, x, h>> \in units
      BY <2>1, <2>3, <2>4
    <2> QED
      BY <2>2, <2>5
  <1>4. ASSUME NEW u \in units
        PROVE  place[u][1] \in 0..(rows - 1) /\ place[u][2] \in HeadsOf(z)
    <2>1. place[u][1] = u[1] * per + u[2] /\ place[u][2] = u[3]
      OBVIOUS
    <2> QED
      BY ONLY <1>1, <2>1
  <1> QED
    BY ONLY <1>2, <1>3, <1>4 DEF Covers

\* encoder_attention by a pool of workers.
LEMMA EncoderParallelDoes ==
  ASSUME NEW z, Sized(z), HasSizes(z), z.seq \in Nat, z.threads \in Nat \ {0},
         z.len.out = z.seq * State(z)
  PROVE  Does(EncoderParallel(z), AllRows(z.seq, z.seq), z.seq, z.heads, z)
  <1> DEFINE tasks == EncoderParallel(z)
             per == RowsPerChunk(z.seq, z.threads)
             width == State(z)
             chunks == Chunks(z.len.out, per * width)
             place == [u \in DOMAIN tasks |-> <<u[1] * per + u[2], u[3]>>]
  <1>1. per \in Nat \ {0} /\ width \in Nat \ {0}
    <2>1. CeilDiv(z.seq, z.threads) \in Nat
      BY SharesReachTheEnd
    <2>2. per \in Nat \ {0}
      BY <2>1 DEF RowsPerChunk, AtLeastOne
    <2>3. width \in Nat \ {0}
      BY DEF State, Sized
    <2> QED
      BY <2>2, <2>3
  <1>2. SharesRows(chunks, z.seq, per, width)
    <2> HIDE DEF per, width
    <2>1. SharesRows(Chunks(z.seq * width, per * width), z.seq, per, width)
      BY ONLY <1>1, z.seq \in Nat, RowsShared
    <2> QED
      BY <2>1 DEF width
  <1>3. DOMAIN tasks = {v \in (DOMAIN chunks) \X (0..(z.seq - 1)) \X HeadsOf(z) :
                          v[2] < chunks[v[1]].len \div width}
    BY DEF EncoderParallel
  <1>4. \A u \in DOMAIN tasks :
          tasks[u] = OverRows(chunks[u[1]].first + u[2] * State(z) + u[3] * z.dim,
                              Base(u[1] * per + u[2], u[3], z), z.seq, u[3] * z.dim, z)
    BY DEF EncoderParallel, Base
  <1>5. \A u \in DOMAIN tasks : place[u][1] = u[1] * per + u[2] /\ place[u][2] = u[3]
    OBVIOUS
  <1> HIDE DEF tasks, chunks, per, place
  <1>6. Covers(place, DOMAIN tasks, z.seq, z)
    BY <1>1, <1>2, <1>3, <1>5, CoversShares, ZenonT(60)
  <1>7. ASSUME NEW u \in DOMAIN tasks
        PROVE  tasks[u] = HeadTask(place[u][1], place[u][2], AllRows(z.seq, z.seq)[place[u][1]], z.heads, z)
    <2> DEFINE r == u[1] * per + u[2]
               h == u[3]
    <2>1. r \in 0..(z.seq - 1) /\ r \in Nat /\ h \in HeadsOf(z)
      BY <1>5, <1>6 DEF Covers
    <2>2. chunks[u[1]].first + u[2] * width + h * z.dim = Base(r, h, z)
      <3>1. u[1] \in DOMAIN chunks /\ u[2] \in Nat
        BY <1>3
      <3>2. u[1] \in Nat /\ chunks[u[1]].first = (u[1] * per) * width
        BY <1>2, <3>1 DEF SharesRows
      <3>3. (u[1] * per) * width + u[2] * width = (u[1] * per + u[2]) * width
        BY <1>1, <3>1, <3>2
      <3> QED
        BY <3>2, <3>3 DEF Base
    <2>3. tasks[u] = OverRows(Base(r, h, z), Base(r, h, z), z.seq, h * z.dim, z)
      BY <1>4, <2>2
    <2>4. place[u][1] = r /\ place[u][2] = h
      BY <1>5
    <2> HIDE DEF r, h
    <2>5. tasks[u] = HeadTask(r, h, Visible(0, z.seq - 1), z.heads, z)
      BY <2>1, <2>3, OverRowsHead
    <2>6. AllRows(z.seq, z.seq)[r] = Visible(0, z.seq - 1)
      BY <2>1 DEF AllRows
    <2> QED
      BY <2>4, <2>5, <2>6
  <1>8. OfHeads(tasks, place, AllRows(z.seq, z.seq), z.heads, z)
    BY <1>7 DEF OfHeads
  <1>9. Does(tasks, AllRows(z.seq, z.seq), z.seq, z.heads, z)
    BY <1>6, <1>8 DEF Does
  <1> QED
    BY <1>9 DEF tasks

\* The bodies beside the backends, by a pool of workers.
LEMMA BodyParallelDoes ==
  ASSUME NEW z, Sized(z), HasSizes(z), z.seq \in Nat \ {0}, z.threads \in Nat, z.kvSeq \in Nat,
         NEW causal \in BOOLEAN
  PROVE  Does(BodyParallel(z, causal), IF causal THEN RowsSoFar(z.seq) ELSE AllRows(z.seq, z.kvSeq),
              z.seq, z.heads, z)
  <1> DEFINE seen == IF causal THEN RowsSoFar(z.seq) ELSE AllRows(z.seq, z.kvSeq)
             tasks == BodyParallel(z, causal)
             per == CeilDiv(z.seq, AtLeastOne(z.threads))
             width == State(z)
             chunks == Chunks(z.seq * width, per * width)
             place == [u \in DOMAIN tasks |-> <<u[1] * per + u[2], u[3]>>]
             visible(r) == IF causal THEN r + 1 ELSE z.kvSeq
  <1>1. per \in Nat \ {0} /\ width \in Nat \ {0}
    <2> DEFINE workers == AtLeastOne(z.threads)
    <2>1. workers \in Nat \ {0}
      BY DEF AtLeastOne
    <2> HIDE DEF workers
    <2>2. CeilDiv(z.seq, workers) \in Nat /\ z.seq <= CeilDiv(z.seq, workers) * workers
      BY <2>1, SharesReachTheEnd
    <2>3. CeilDiv(z.seq, workers) # 0
      BY <2>1, <2>2
    <2>4. width \in Nat \ {0}
      BY DEF State, Sized
    <2> QED
      BY <2>2, <2>3, <2>4 DEF workers
  <1>2. SharesRows(chunks, z.seq, per, width)
    <2> HIDE DEF per, width
    <2> QED
      BY <1>1, RowsShared
  <1>3. DOMAIN tasks = {v \in (DOMAIN chunks) \X (0..(z.seq - 1)) \X HeadsOf(z) :
                          v[2] < chunks[v[1]].len \div width}
    BY DEF BodyParallel, Upto
  <1>4. \A u \in DOMAIN tasks :
          tasks[u] = OverRows(chunks[u[1]].first + u[2] * State(z) + u[3] * z.dim,
                              Base(u[1] * per + u[2], u[3], z), visible(u[1] * per + u[2]),
                              u[3] * z.dim, Scalar(z))
    BY DEF BodyParallel, BodyOf, Base
  <1>5. \A u \in DOMAIN tasks : place[u][1] = u[1] * per + u[2] /\ place[u][2] = u[3]
    OBVIOUS
  <1> HIDE DEF tasks, chunks, per, place
  <1>6. Covers(place, DOMAIN tasks, z.seq, z)
    BY <1>1, <1>2, <1>3, <1>5, CoversShares
  <1>7. ASSUME NEW u \in DOMAIN tasks
        PROVE  tasks[u] = HeadTask(place[u][1], place[u][2], seen[place[u][1]], z.heads, z)
    <2> DEFINE r == u[1] * per + u[2]
               h == u[3]
    <2>1. r \in 0..(z.seq - 1) /\ r \in Nat /\ h \in HeadsOf(z)
      BY <1>5, <1>6 DEF Covers
    <2>2. chunks[u[1]].first + u[2] * width + h * z.dim = Base(r, h, z)
      <3>1. u[1] \in DOMAIN chunks /\ u[2] \in Nat
        BY <1>3
      <3>2. u[1] \in Nat /\ chunks[u[1]].first = (u[1] * per) * width
        BY <1>2, <3>1 DEF SharesRows
      <3>3. (u[1] * per) * width + u[2] * width = (u[1] * per + u[2]) * width
        BY <1>1, <3>1, <3>2
      <3> QED
        BY <3>2, <3>3 DEF Base
    <2>3. tasks[u] = OverRows(Base(r, h, z), Base(r, h, z), visible(r), h * z.dim, Scalar(z))
      BY <1>4, <2>2
    <2>4. place[u][1] = r /\ place[u][2] = h
      BY <1>5
    <2> HIDE DEF r, h
    <2>5. visible(r) \in Nat /\ seen[r] = Visible(0, visible(r) - 1)
      <3>1. r + 1 \in Nat /\ (r + 1) - 1 = r
        BY <2>1
      <3> QED
        BY <2>1, <3>1 DEF RowsSoFar, AllRows
    <2> HIDE DEF visible, seen
    <2>6. tasks[u] = HeadTask(r, h, Visible(0, visible(r) - 1), z.heads, z)
      BY <2>1, <2>3, <2>5, ScalarSizes, OverRowsHead
    <2> QED
      BY <2>4, <2>5, <2>6
  <1> HIDE DEF seen
  <1>8. OfHeads(tasks, place, seen, z.heads, z)
    BY <1>7 DEF OfHeads
  <1>9. Does(tasks, seen, z.seq, z.heads, z)
    BY <1>6, <1>8 DEF Does
  <1> QED
    BY <1>9 DEF tasks, seen

\* The body of the Whisper model, in one thread.
LEMMA BodySerialDoes ==
  ASSUME NEW z, Sized(z), HasSizes(z), z.seq \in Nat, z.kvSeq \in Nat, NEW causal \in BOOLEAN
  PROVE  Does(BodySerial(z, causal), IF causal THEN RowsSoFar(z.seq) ELSE AllRows(z.seq, z.kvSeq),
              z.seq, z.heads, z)
  <1> DEFINE tasks == BodySerial(z, causal)
  <1>1. DOMAIN tasks = Loop(z.seq, z)
    BY DEF BodySerial
  <1>2. \A u \in Loop(z.seq, z) :
          tasks[u] = OverRows(Base(u[1], u[2], z), Base(u[1], u[2], z),
                              IF causal THEN u[1] + 1 ELSE z.kvSeq, u[2] * z.dim, Scalar(z))
    BY DEF BodySerial, BodyOf, Base
  <1> HIDE DEF tasks
  <1>3. CASE causal
    BY <1>1, <1>2, <1>3, ScalarSizes, CausalOverRows DEF tasks
  <1>4. CASE ~causal
    BY <1>1, <1>2, <1>4, ScalarSizes, LoopOverRows DEF tasks
  <1> QED
    BY <1>3, <1>4

Grouping(z) == z.kvHeads \in Nat \ {0} /\ z.heads % z.kvHeads = 0

\* A head of grouped queries, over the rows of the head of keys it shares.
LEMMA GroupedHead ==
  ASSUME NEW z, Sized(z), HasSizes(z), Grouping(z), NEW r \in Nat, NEW h \in HeadsOf(z),
         NEW first \in Nat, NEW last \in Int
  PROVE  Grouped(Base(r, h, z), r, h, first, last, z) = HeadTask(r, h, Visible(first, last), z.kvHeads, z)
  <1> DEFINE g == KvHeadOf(h, z.kvHeads, z)
             keys == Strided("k", first, last, z.kvHeads * z.dim, g * z.dim)
             values == Strided("v", first, last, z.kvHeads * z.dim, g * z.dim)
  <1>1. KvHead(h, z) = g
    BY DEF KvHead, KvHeadOf
  <1>2. Base(r, h, z) = (r * z.heads + h) * z.dim
    BY BasePlace
  <1>3. Grouped(Base(r, h, z), r, h, first, last, z)
          = Weigh(Base(r, h, z), Base(r, h, z), keys, values, Scalar(z))
    BY <1>1, <1>2 DEF Grouped
  <1>4. Scalar(z).dim = z.dim
    BY ScalarSizes
  <1> HIDE DEF keys, values
  <1>5. Weigh(Base(r, h, z), Base(r, h, z), keys, values, Scalar(z))
          = HeadTask(r, h, Visible(first, last), z.kvHeads, z)
    BY <1>4, WeighedHead DEF keys, values, Grouping
  <1> QED
    BY <1>3, <1>5

\* Where the cells of a query begin, as they are counted in attention.rs.
LEMMA GroupedBase ==
  ASSUME NEW z, Sized(z), NEW r \in Nat, NEW h \in HeadsOf(z), NEW first \in 0..r, NEW at,
         at = first * (z.heads * z.dim)
  PROVE  at + (r - first) * z.heads * z.dim + h * z.dim = Base(r, h, z)
  <1>1. z.heads \in Nat /\ z.dim \in Nat /\ h \in Nat /\ first \in Nat /\ r - first \in Nat
    BY DEF Sized, HeadsOf
  <1>2. (r - first) * z.heads * z.dim = (r - first) * (z.heads * z.dim)
    BY <1>1
  <1> DEFINE w == z.heads * z.dim
  <1>3. w \in Nat
    BY <1>1
  <1> HIDE DEF w
  <1>4. first * w + (r - first) * w = r * w
    BY <1>1, <1>3
  <1>5. Base(r, h, z) = r * w + h * z.dim
    BY DEF Base, State, w
  <1>6. first * w \in Nat /\ (r - first) * w \in Nat /\ h * z.dim \in Nat
    BY <1>1, <1>3
  <1> QED
    BY <1>2, <1>4, <1>5, <1>6 DEF w

\* Rows first..(end - 1), written from the cells of row first on.
LEMMA CausalTask ==
  ASSUME NEW z, Sized(z), HasSizes(z), Grouping(z), NEW first \in Nat, NEW end,
         NEW r \in first..(end - 1), end \in Int, NEW h \in HeadsOf(z),
         NEW at, at = first * (z.heads * z.dim)
  PROVE  Causal(z, first, end, at)[<<r, h>>] = HeadTask(r, h, Visible(0, r), z.kvHeads, z)
  <1>1. r \in Nat /\ first \in 0..r /\ 0 \in Nat /\ r \in Int
    OBVIOUS
  <1>2. <<r, h>> \in (first..(end - 1)) \X HeadsOf(z)
    OBVIOUS
  <1>3. Causal(z, first, end, at)[<<r, h>>]
          = Grouped(at + (r - first) * z.heads * z.dim + h * z.dim, r, h, 0, r, z)
    BY <1>2 DEF Causal
  <1>4. at + (r - first) * z.heads * z.dim + h * z.dim = Base(r, h, z)
    BY <1>1, GroupedBase
  <1>5. Grouped(Base(r, h, z), r, h, 0, r, z) = HeadTask(r, h, Visible(0, r), z.kvHeads, z)
    BY <1>1, GroupedHead
  <1> QED
    BY <1>3, <1>4, <1>5

\* Grouped attention, one query after the other.
LEMMA CausalDoes ==
  ASSUME NEW z, Sized(z), HasSizes(z), Grouping(z), z.seq \in Nat
  PROVE  Does(Causal(z, 0, z.seq, 0), RowsSoFar(z.seq), z.seq, z.kvHeads, z)
  <1> DEFINE tasks == Causal(z, 0, z.seq, 0)
  <1>1. DOMAIN tasks = Loop(z.seq, z)
    BY DEF Causal, Loop
  <1>2. 0 \in Nat /\ z.seq \in Int /\ 0 = 0 * (z.heads * z.dim)
    <2>1. z.heads * z.dim \in Nat
      BY DEF Sized
    <2> QED
      BY <2>1
  <1>3. ASSUME NEW u \in Loop(z.seq, z)
        PROVE  tasks[u] = HeadTask(u[1], u[2], RowsSoFar(z.seq)[u[1]], z.kvHeads, z)
    <2>1. u = <<u[1], u[2]>> /\ u[1] \in 0..(z.seq - 1) /\ u[2] \in HeadsOf(z)
      BY DEF Loop
    <2>2. tasks[<<u[1], u[2]>>] = HeadTask(u[1], u[2], Visible(0, u[1]), z.kvHeads, z)
      <3> DEFINE r == u[1]
                 h == u[2]
      <3>1. r \in 0..(z.seq - 1) /\ h \in HeadsOf(z)
        BY <2>1
      <3> HIDE DEF r, h
      <3>2. Causal(z, 0, z.seq, 0)[<<r, h>>] = HeadTask(r, h, Visible(0, r), z.kvHeads, z)
        <4> DEFINE first == 0
                   end == z.seq
                   at == 0
        <4>1. first \in Nat /\ end \in Int /\ r \in first..(end - 1)
              /\ at = first * (z.heads * z.dim)
          BY <1>2, <3>1
        <4> HIDE DEF first, end, at
        <4>2. h \in HeadsOf(z)
          BY <3>1
        <4>3. Causal(z, first, end, at)[<<r, h>>]
                = HeadTask(r, h, Visible(0, r), z.kvHeads, z)
          BY ONLY Sized(z), HasSizes(z), Grouping(z), <4>1, <4>2, CausalTask, ZenonT(60)
        <4> QED
          BY <4>3 DEF first, end, at
      <3> QED
        BY <3>2 DEF r, h
    <2>3. RowsSoFar(z.seq)[u[1]] = Visible(0, u[1])
      BY <2>1 DEF RowsSoFar
    <2> HIDE DEF tasks
    <2> QED
      BY <2>1, <2>2, <2>3
  <1> HIDE DEF tasks
  <1>4. Does(tasks, RowsSoFar(z.seq), z.seq, z.kvHeads, z)
    BY <1>1, <1>3, LoopDoes
  <1> QED
    BY <1>4 DEF tasks

\* Grouped heads with a window.
LEMMA WindowedDoes ==
  ASSUME NEW z, Sized(z), HasSizes(z), Grouping(z), z.seq \in Nat, z.window \in Nat
  PROVE  Does(Windowed(z, 0, z.seq, 0), RowsInWindow(z.seq, z.window), z.seq, z.kvHeads, z)
  <1> DEFINE tasks == Windowed(z, 0, z.seq, 0)
  <1>1. DOMAIN tasks = Loop(z.seq, z)
    BY DEF Windowed, Loop
  <1>2. 0 = 0 * (z.heads * z.dim)
    <2>1. z.heads * z.dim \in Nat
      BY DEF Sized
    <2> QED
      BY <2>1
  <1>3. ASSUME NEW u \in Loop(z.seq, z)
        PROVE  tasks[u] = HeadTask(u[1], u[2], RowsInWindow(z.seq, z.window)[u[1]], z.kvHeads, z)
    <2> DEFINE r == u[1]
               h == u[2]
    <2>1. r \in 0..(z.seq - 1) /\ r \in Nat /\ 0 \in 0..r /\ h \in HeadsOf(z)
      BY DEF Loop
    <2>2. tasks[u] = Grouped(0 + (r - 0) * z.heads * z.dim + h * z.dim, r, h, WindowStart(r, z.window), r, z)
      BY DEF Windowed, Loop
    <2> HIDE DEF tasks, r, h
    <2>3. 0 + (r - 0) * z.heads * z.dim + h * z.dim = Base(r, h, z)
      BY <1>2, <2>1, GroupedBase
    <2>4. WindowStart(r, z.window) \in Nat /\ WindowStart(r, z.window) = r + 1 - Smaller(r + 1, z.window)
      BY <2>1 DEF WindowStart, Smaller
    <2>5. RowsInWindow(z.seq, z.window)[r] = Visible(WindowStart(r, z.window), r)
      BY <2>1, <2>4 DEF RowsInWindow
    <2>6. Grouped(Base(r, h, z), r, h, WindowStart(r, z.window), r, z)
            = HeadTask(r, h, Visible(WindowStart(r, z.window), r), z.kvHeads, z)
      BY <2>1, <2>4, GroupedHead
    <2>7. tasks[u] = HeadTask(r, h, RowsInWindow(z.seq, z.window)[r], z.kvHeads, z)
      BY <2>2, <2>3, <2>5, <2>6
    <2> QED
      BY <2>7 DEF r, h
  <1> HIDE DEF tasks
  <1>4. Does(tasks, RowsInWindow(z.seq, z.window), z.seq, z.kvHeads, z)
    BY <1>1, <1>3, LoopDoes
  <1> QED
    BY <1>4 DEF tasks

\* Grouped heads over all rows.
LEMMA BidirectionalDoes ==
  ASSUME NEW z, Sized(z), HasSizes(z), Grouping(z), z.seq \in Nat
  PROVE  Does(Bidirectional(z), AllRows(z.seq, z.seq), z.seq, z.kvHeads, z)
  <1> DEFINE tasks == Bidirectional(z)
  <1>1. DOMAIN tasks = Loop(z.seq, z)
    BY DEF Bidirectional
  <1>2. ASSUME NEW u \in Loop(z.seq, z)
        PROVE  tasks[u] = HeadTask(u[1], u[2], AllRows(z.seq, z.seq)[u[1]], z.kvHeads, z)
    <2> DEFINE r == u[1]
               h == u[2]
    <2>1. r \in 0..(z.seq - 1) /\ r \in Nat /\ h \in HeadsOf(z) /\ 0 \in Nat /\ z.seq - 1 \in Int
      BY DEF Loop
    <2>2. tasks[u] = Grouped((r * z.heads + h) * z.dim, r, h, 0, z.seq - 1, z)
      BY DEF Bidirectional
    <2> HIDE DEF tasks, r, h
    <2>3. (r * z.heads + h) * z.dim = Base(r, h, z)
      BY <2>1, BasePlace
    <2>4. AllRows(z.seq, z.seq)[r] = Visible(0, z.seq - 1)
      BY <2>1 DEF AllRows
    <2>5. Grouped(Base(r, h, z), r, h, 0, z.seq - 1, z) = HeadTask(r, h, Visible(0, z.seq - 1), z.kvHeads, z)
      BY <2>1, GroupedHead
    <2>6. tasks[u] = HeadTask(r, h, AllRows(z.seq, z.seq)[r], z.kvHeads, z)
      BY <2>2, <2>3, <2>4, <2>5
    <2> QED
      BY <2>6 DEF r, h
  <1> HIDE DEF tasks
  <1>3. Does(tasks, AllRows(z.seq, z.seq), z.seq, z.kvHeads, z)
    BY <1>1, <1>2, LoopDoes
  <1> QED
    BY <1>3 DEF tasks

\* Grouped heads of one query.
LEMMA SdpaIncrementalDoes ==
  ASSUME NEW z, Sized(z), HasSizes(z), Grouping(z), z.seq \in Nat
  PROVE  Does(SdpaIncremental(z), AllRows(1, z.seq), 1, z.kvHeads, z)
  <1> DEFINE tasks == SdpaIncremental(z)
  <1>1. DOMAIN tasks = HeadsOf(z)
    BY DEF SdpaIncremental
  <1>2. ASSUME NEW h \in HeadsOf(z)
        PROVE  tasks[h] = HeadTask(0, h, AllRows(1, z.seq)[0], z.kvHeads, z)
    <2>1. 0 \in Nat /\ z.seq - 1 \in Int
      OBVIOUS
    <2>2. tasks[h] = Grouped(h * z.dim, 0, h, 0, z.seq - 1, z)
      BY DEF SdpaIncremental
    <2>3. Base(0, h, z) = h * z.dim
      <3>1. h * z.dim \in Nat /\ State(z) \in Nat
        BY DEF Sized, HeadsOf, State
      <3> QED
        BY <3>1 DEF Base
    <2>4. AllRows(1, z.seq)[0] = Visible(0, z.seq - 1)
      BY DEF AllRows
    <2>5. Grouped(Base(0, h, z), 0, h, 0, z.seq - 1, z) = HeadTask(0, h, Visible(0, z.seq - 1), z.kvHeads, z)
      BY <2>1, GroupedHead
    <2> HIDE DEF tasks
    <2> QED
      BY <2>2, <2>3, <2>4, <2>5
  <1> HIDE DEF tasks
  <1>3. Does(tasks, AllRows(1, z.seq), 1, z.kvHeads, z)
    BY <1>1, <1>2, HeadsDo
  <1> QED
    BY <1>3 DEF tasks

\* The heads of a worker's rows, under the rows' own numbers.
LEMMA CoversRanges ==
  ASSUME NEW z, NEW rows \in Nat, NEW per \in Nat \ {0}, NEW width, NEW chunks,
         SharesRows(chunks, rows, per, width), NEW units, NEW place,
         units = UNION {{c} \X (c * per..(c * per + chunks[c].len \div width - 1)) \X HeadsOf(z) :
                          c \in DOMAIN chunks},
         \A u \in units : place[u][1] = u[2] /\ place[u][2] = u[3]
  PROVE  Covers(place, units, rows, z)
  <1>1. ASSUME NEW u \in units
        PROVE  /\ u = <<u[1], u[2], u[3]>> /\ u[1] \in Nat /\ u[3] \in HeadsOf(z)
               /\ u[2] - u[1] * per \in 0..(per - 1) /\ u[1] * per \in Nat
               /\ u[2] \in 0..(rows - 1)
    <2>1. PICK c \in DOMAIN chunks :
            u \in {c} \X (c * per..(c * per + chunks[c].len \div width - 1)) \X HeadsOf(z)
      OBVIOUS
    <2>2. u = <<u[1], u[2], u[3]>> /\ u[1] = c /\ u[3] \in HeadsOf(z)
          /\ u[2] \in c * per..(c * per + chunks[c].len \div width - 1)
      BY <2>1
    <2>3. c \in Nat /\ c * per < rows /\ chunks[c].len \div width = Smaller(per, rows - c * per)
      BY DEF SharesRows
    <2>4. c * per \in Nat
      BY <2>3
    <2>5. Smaller(per, rows - c * per) \in Nat /\ Smaller(per, rows - c * per) <= per
          /\ c * per + Smaller(per, rows - c * per) <= rows
      BY <2>3, <2>4 DEF Smaller
    <2> DEFINE n == c * per
               m == Smaller(per, rows - c * per)
               r == u[2]
    <2>6. r \in n..(n + m - 1)
      BY <2>2, <2>3
    <2>7. n \in Nat /\ m \in Nat /\ m <= per /\ n + m <= rows
      BY <2>4, <2>5
    <2> HIDE DEF n, m, r
    <2>8. r - n \in 0..(per - 1) /\ r \in 0..(rows - 1)
      BY ONLY <2>6, <2>7, per \in Nat \ {0}, rows \in Nat
    <2> QED
      BY <2>2, <2>3, <2>4, <2>8 DEF n, r
  <1>2. ASSUME NEW u \in units, NEW v \in units, place[u][1] = place[v][1], place[u][2] = place[v][2]
        PROVE  u = v
    <2>1. u[2] = v[2] /\ u[3] = v[3]
      BY <1>2
    <2> DEFINE a == u[1]
               b == v[1]
               x == u[2] - u[1] * per
               y == v[2] - v[1] * per
    <2>2. a \in Nat /\ b \in Nat /\ x \in 0..(per - 1) /\ y \in 0..(per - 1)
      BY <1>1
    <2>3. a * per + x = u[2] /\ b * per + y = v[2]
      <3>1. u[2] \in Int /\ v[2] \in Int /\ u[1] * per \in Int /\ v[1] * per \in Int
        BY <1>1
      <3> QED
        BY <3>1
    <2> HIDE DEF a, b, x, y
    <2>4. a = b
      BY ONLY <2>1, <2>2, <2>3, per \in Nat \ {0}, Digits
    <2> QED
      BY <1>1, <2>1, <2>4 DEF a, b
  <1>3. ASSUME NEW r \in 0..(rows - 1), NEW h \in HeadsOf(z)
        PROVE  \E u \in units : place[u][1] = r /\ place[u][2] = h
    <2> DEFINE c == r \div per
    <2>1. c \in DOMAIN chunks
      BY DEF SharesRows
    <2>2. c \in Nat /\ c * per <= r /\ r < c * per + per
      <3>1. r \in Nat
        OBVIOUS
      <3> QED
        BY ONLY <3>1, per \in Nat \ {0}, Quotient
    <2> HIDE DEF c
    <2>3. c * per \in Nat /\ chunks[c].len \div width = Smaller(per, rows - c * per)
      BY <2>1, <2>2 DEF SharesRows
    <2>4. r \in c * per..(c * per + chunks[c].len \div width - 1)
      BY <2>2, <2>3 DEF Smaller
    <2>5. <<c, r, h>> \in {c} \X (c * per..(c * per + chunks[c].len \div width - 1)) \X HeadsOf(z)
      BY <2>4
    <2>6. <<c, r, h>> \in units
      BY <2>1, <2>5
    <2> QED
      BY <2>6
  <1>4. ASSUME NEW u \in units
        PROVE  place[u][1] \in 0..(rows - 1) /\ place[u][2] \in HeadsOf(z)
    <2>1. place[u][1] = u[2] /\ place[u][2] = u[3]
      OBVIOUS
    <2> QED
      BY ONLY <1>1, <2>1
  <1> QED
    BY ONLY <1>2, <1>3, <1>4 DEF Covers

\* Grouped attention by a pool of workers.
LEMMA SdpaParallelDoes ==
  ASSUME NEW z, Sized(z), HasSizes(z), Grouping(z), z.seq \in Nat, z.threads \in Nat \ {0},
         z.len.out = z.seq * (z.heads * z.dim)
  PROVE  Does(SdpaParallel(z), RowsSoFar(z.seq), z.seq, z.kvHeads, z)
  <1> DEFINE tasks == SdpaParallel(z)
             per == RowsPerChunk(z.seq, z.threads)
             width == z.heads * z.dim
             chunks == Chunks(z.len.out, per * width)
             place == [u \in DOMAIN tasks |-> <<u[2], u[3]>>]
  <1>1. per \in Nat \ {0} /\ width \in Nat \ {0}
    <2>1. CeilDiv(z.seq, z.threads) \in Nat
      BY SharesReachTheEnd
    <2>2. per \in Nat \ {0}
      BY <2>1 DEF RowsPerChunk, AtLeastOne
    <2>3. width \in Nat \ {0}
      BY DEF Sized
    <2> QED
      BY <2>2, <2>3
  <1>2. SharesRows(chunks, z.seq, per, width)
    <2> HIDE DEF per
    <2>1. z.len.out = z.seq * width
      OBVIOUS
    <2> HIDE DEF width
    <2>2. SharesRows(Chunks(z.seq * width, per * width), z.seq, per, width)
      BY ONLY <1>1, z.seq \in Nat, RowsShared
    <2> QED
      BY <2>1, <2>2
  <1>3. DOMAIN tasks = UNION {{c} \X (c * per..(c * per + chunks[c].len \div width - 1)) \X HeadsOf(z) :
                                c \in DOMAIN chunks}
    BY DEF SdpaParallel, ChunkStart
  <1>4. \A u \in DOMAIN tasks : u[1] \in DOMAIN chunks =>
          tasks[u] = Causal(z, u[1] * per, u[1] * per + chunks[u[1]].len \div width,
                            chunks[u[1]].first)[u[2], u[3]]
    BY DEF SdpaParallel, ChunkStart, CausalOptimized
  <1>5. \A u \in DOMAIN tasks : place[u][1] = u[2] /\ place[u][2] = u[3]
    OBVIOUS
  <1> HIDE DEF tasks, chunks, per, place
  <1>6. Covers(place, DOMAIN tasks, z.seq, z)
    BY <1>1, <1>2, <1>3, <1>5, CoversRanges
  <1>7. ASSUME NEW u \in DOMAIN tasks
        PROVE  tasks[u] = HeadTask(place[u][1], place[u][2], RowsSoFar(z.seq)[place[u][1]], z.kvHeads, z)
    <2> DEFINE c == u[1]
               r == u[2]
               h == u[3]
               first == c * per
               at == chunks[c].first
               stop == first + chunks[c].len \div width
    <2>1. /\ c \in DOMAIN chunks /\ h \in HeadsOf(z)
          /\ r \in first..(first + chunks[c].len \div width - 1)
      <3>1. PICK d \in DOMAIN chunks :
              u \in {d} \X (d * per..(d * per + chunks[d].len \div width - 1)) \X HeadsOf(z)
        BY <1>3
      <3> QED
        BY <3>1
    <2>2. c \in Nat /\ at = first * width /\ first < z.seq /\ chunks[c].len \div width = Smaller(per, z.seq - first)
      BY <1>2, <2>1 DEF SharesRows
    <2>3. first \in Nat /\ stop \in Int
      BY <1>1, <2>2 DEF Smaller
    <2>4. tasks[u] = Causal(z, first, stop, at)[<<r, h>>]
      BY <1>4, <2>1
    <2>5. place[u][1] = r /\ place[u][2] = h
      BY <1>5
    <2>6. r \in 0..(z.seq - 1)
      BY <1>6, <2>5 DEF Covers
    <2>7. r \in first..(stop - 1)
      <3>1. chunks[c].len \div width \in Int
        BY <1>1, <2>2, <2>3 DEF Smaller
      <3> DEFINE x == chunks[c].len \div width
      <3> HIDE DEF c, r, h, first, at, x
      <3>2. first + (x - 1) = stop - 1
        BY <2>3, <3>1 DEF x
      <3> QED
        BY <2>1, <3>2 DEF x
    <2> HIDE DEF c, r, h, first, at, stop
    <2>8. Causal(z, first, stop, at)[<<r, h>>] = HeadTask(r, h, Visible(0, r), z.kvHeads, z)
      <3>1. at = first * (z.heads * z.dim)
        BY <2>2 DEF width
      <3>2. h \in HeadsOf(z)
        BY <2>1
      <3> QED
        BY ONLY Sized(z), HasSizes(z), Grouping(z), <2>3, <2>7, <3>1, <3>2, CausalTask, ZenonT(60)
    <2>9. RowsSoFar(z.seq)[r] = Visible(0, r)
      BY <2>6 DEF RowsSoFar
    <2> QED
      BY <2>4, <2>5, <2>8, <2>9
  <1>8. OfHeads(tasks, place, RowsSoFar(z.seq), z.kvHeads, z)
    BY <1>7 DEF OfHeads
  <1>9. Does(tasks, RowsSoFar(z.seq), z.seq, z.kvHeads, z)
    BY <1>6, <1>8 DEF Does
  <1> QED
    BY <1>9 DEF tasks

\* The units that work are the tasks' numbers.
LEMMA WorkingAll ==
  ASSUME NEW total \in Nat, NEW wg \in Nat \ {0}
  PROVE  Working(total, wg) = 0..(total - 1)
  BY LaunchedUpto DEF Working, Launched, Upto

\* A sequence with one more in front, or at the end.
LEMMA WithFirst ==
  ASSUME NEW S, NEW x \in S, NEW n \in Nat, NEW s \in [1..n -> S]
  PROVE  <<x>> \o s = [i \in 1..(n + 1) |-> IF i = 1 THEN x ELSE s[i - 1]]
  <1>1. s \in Seq(S) /\ Len(s) = n
    OBVIOUS
  <1>2. <<x>> \in Seq(S) /\ Len(<<x>>) = 1 /\ <<x>>[1] = x
    OBVIOUS
  <1> QED
    BY <1>1, <1>2

\* A sequence with one more element at its end.
LEMMA WithLast ==
  ASSUME NEW S, NEW x \in S, NEW n \in Nat, NEW s \in [1..n -> S]
  PROVE  s \o <<x>> = [i \in 1..(n + 1) |-> IF i <= n THEN s[i] ELSE x]
  <1>1. s \in Seq(S) /\ Len(s) = n
    OBVIOUS
  <1>2. <<x>> \in Seq(S) /\ Len(<<x>>) = 1 /\ <<x>>[1] = x
    OBVIOUS
  <1> QED
    BY <1>1, <1>2

SeededRun(buffer, first, n, w, offset) ==
  <<<<buffer, first * w + offset>>>> \o Strided(buffer, first + 1, first + n - 1, w, offset)

\* A row that seeds a running softmax, and the rows after it, are a run.
LEMMA SeedAndRest ==
  ASSUME NEW buffer, NEW first \in Nat, NEW n \in Nat \ {0}, NEW w \in Nat, NEW offset \in Nat
  PROVE  SeededRun(buffer, first, n, w, offset)
           = Strided(buffer, first, first + n - 1, w, offset)
  <1> DEFINE S == {buffer} \X Int
             s == Strided(buffer, first + 1, first + n - 1, w, offset)
             x == <<buffer, first * w + offset>>
  <1>1. (first + n - 1) - (first + 1) + 1 = n - 1 /\ n - 1 \in Nat /\ (n - 1) + 1 = n
        /\ (first + n - 1) - first + 1 = n
    OBVIOUS
  <1>2. s = [i \in 1..(n - 1) |-> <<buffer, ((first + 1) + i - 1) * w + offset>>]
    BY <1>1 DEF Strided
  <1>3. \A i \in 1..(n - 1) : ((first + 1) + i - 1) * w + offset \in Int
    <2> SUFFICES ASSUME NEW i \in 1..(n - 1) PROVE ((first + 1) + i - 1) * w + offset \in Int
      OBVIOUS
    <2>1. (first + 1) + i - 1 \in Int
      OBVIOUS
    <2> QED
      BY <2>1
  <1>4. s \in [1..(n - 1) -> S]
    <2> HIDE DEF s
    <2> QED
      BY <1>2, <1>3
  <1>5. x \in S
    <2>1. first * w + offset \in Int
      OBVIOUS
    <2> QED
      BY <2>1
  <1> HIDE DEF s, x, S
  <1>6. <<x>> \o s = [i \in 1..n |-> IF i = 1 THEN x ELSE s[i - 1]]
    BY <1>1, <1>4, <1>5, WithFirst
  <1>7. Strided(buffer, first, first + n - 1, w, offset)
          = [i \in 1..n |-> <<buffer, (first + i - 1) * w + offset>>]
    BY <1>1 DEF Strided
  <1>8. ASSUME NEW i \in 1..n
        PROVE  (IF i = 1 THEN x ELSE s[i - 1]) = <<buffer, (first + i - 1) * w + offset>>
    <2>1. CASE i = 1
      <3>1. first + i - 1 = first
        BY <2>1
      <3> QED
        BY <2>1, <3>1 DEF x
    <2>2. CASE i # 1
      <3>1. i - 1 \in 1..(n - 1) /\ (first + 1) + (i - 1) - 1 = first + i - 1
        BY <2>2
      <3>2. s[i - 1] = <<buffer, ((first + 1) + (i - 1) - 1) * w + offset>>
        BY <1>2, <3>1
      <3> QED
        BY <2>2, <3>1, <3>2
    <2> QED
      BY <2>1, <2>2
  <1>9. <<x>> \o s = Strided(buffer, first, first + n - 1, w, offset)
    BY <1>6, <1>7, <1>8
  <1> QED
    BY <1>9 DEF s, x, SeededRun

\* A unit's head, over the rows it streams.
LEMMA StreamedHead ==
  ASSUME NEW z, Sized(z), HasSizes(z), NEW r \in Nat, NEW h \in HeadsOf(z),
         NEW first \in Nat, NEW n \in Nat \ {0}
  PROVE  Streamed(Base(r, h, z), Base(r, h, z), first, n, h * z.dim, z)
           = HeadTask(r, h, Visible(first, first + n - 1), z.heads, z)
  <1> DEFINE w == z.heads * z.dim
             offset == h * z.dim
             run(buffer) == Strided(buffer, first, first + n - 1, w, offset)
  <1>1. w \in Nat /\ offset \in Nat
    BY DEF Sized, HeadsOf
  <1>2. SeededRun("k", first, n, w, offset) = run("k") /\ SeededRun("v", first, n, w, offset) = run("v")
    <2> HIDE DEF w, offset
    <2> QED
      BY ONLY <1>1, first \in Nat, n \in Nat \ {0}, SeedAndRest
  <1>3. State(z) = w
    BY DEF State
  <1>4. Streamed(Base(r, h, z), Base(r, h, z), first, n, offset, z)
          = Weigh(Base(r, h, z), Base(r, h, z), run("k"), run("v"), Scalar(z))
    <2> HIDE DEF w, offset
    <2> QED
      BY <1>2, <1>3 DEF Streamed, SeededRun
  <1>5. KvHeadOf(h, z.heads, z) = h /\ z.heads % z.heads = 0 /\ z.heads \in Nat \ {0}
    BY OwnKvHead DEF Sized
  <1>6. Scalar(z).dim = z.dim /\ first + n - 1 \in Int
    BY ScalarSizes
  <1> DEFINE keys == run("k")
             values == run("v")
  <1>7. /\ keys = Strided("k", first, first + n - 1, z.heads * z.dim, KvHeadOf(h, z.heads, z) * z.dim)
        /\ values = Strided("v", first, first + n - 1, z.heads * z.dim, KvHeadOf(h, z.heads, z) * z.dim)
    BY <1>5
  <1> HIDE DEF keys, values
  <1>8. Weigh(Base(r, h, z), Base(r, h, z), keys, values, Scalar(z))
          = HeadTask(r, h, Visible(first, first + n - 1), z.heads, z)
    BY <1>5, <1>6, <1>7, WeighedHead
  <1> QED
    BY <1>4, <1>8 DEF keys, values

\* Units that each stream a run of rows for the head that they are numbered by.
LEMMA UnitsStream ==
  ASSUME NEW z, Sized(z), HasSizes(z), NEW rows \in Nat, NEW n \in Nat \ {0}, NEW first, NEW seen,
         \A r \in 0..(rows - 1) : first[r] \in Nat /\ seen[r] = Visible(first[r], first[r] + n - 1),
         NEW tasks, DOMAIN tasks = 0..(rows * z.heads - 1),
         \A p \in DOMAIN tasks :
           LET row == p \div z.heads
               head == p - row * z.heads
               base == row * State(z) + head * z.dim
           IN  tasks[p] = Streamed(base, base, first[row], n, head * z.dim, z)
  PROVE  Does(tasks, seen, rows, z.heads, z)
  <1>1. ASSUME NEW p \in DOMAIN tasks
        PROVE  tasks[p] = HeadTask(p \div z.heads, p % z.heads, seen[p \div z.heads], z.heads, z)
    <2> DEFINE r == p \div z.heads
               h == p % z.heads
    <2>1. r \in 0..(rows - 1) /\ r \in Nat /\ h \in HeadsOf(z) /\ p - r * z.heads = h
      BY NumberedPlace
    <2>2. tasks[p] = Streamed(r * State(z) + h * z.dim, r * State(z) + h * z.dim, first[r], n, h * z.dim, z)
      <3>1. tasks[p] = Streamed(r * State(z) + (p - r * z.heads) * z.dim,
                                r * State(z) + (p - r * z.heads) * z.dim,
                                first[r], n, (p - r * z.heads) * z.dim, z)
        OBVIOUS
      <3> HIDE DEF r, h
      <3> QED
        BY ONLY <2>1, <3>1
    <2> HIDE DEF r, h
    <2>3. tasks[p] = Streamed(Base(r, h, z), Base(r, h, z), first[r], n, h * z.dim, z)
      BY <2>2 DEF Base
    <2>4. first[r] \in Nat /\ seen[r] = Visible(first[r], first[r] + n - 1)
      BY <2>1
    <2>5. tasks[p] = HeadTask(r, h, seen[r], z.heads, z)
      <3> DEFINE f == first[r]
      <3>1. f \in Nat /\ seen[r] = Visible(f, f + n - 1)
        BY <2>4
      <3>2. tasks[p] = Streamed(Base(r, h, z), Base(r, h, z), f, n, h * z.dim, z)
        BY <2>3
      <3> HIDE DEF f
      <3>3. Streamed(Base(r, h, z), Base(r, h, z), f, n, h * z.dim, z)
              = HeadTask(r, h, Visible(f, f + n - 1), z.heads, z)
        BY <2>1, <3>1, StreamedHead
      <3> QED
        BY ONLY <3>1, <3>2, <3>3
    <2> QED
      BY <2>5 DEF r, h
  <1> QED
    BY <1>1, NumberedDo

\* No units, no queries.
LEMMA NothingDoes ==
  ASSUME NEW z, Sized(z), NEW seen, NEW kvHeads, NEW tasks, DOMAIN tasks = 0..(0 * z.heads - 1)
  PROVE  Does(tasks, seen, 0, kvHeads, z)
  <1>1. 0 * z.heads - 1 = -1
    BY DEF Sized
  <1>2. \A p \in DOMAIN tasks : FALSE
    BY <1>1
  <1> QED
    BY <1>2, NumberedDo

\* Units numbered through the heads of all queries, each over the first rows.
LEMMA GpuRowsDo ==
  ASSUME NEW z, Sized(z), HasSizes(z), NEW rows \in Nat, NEW n \in Nat, rows # 0 => n # 0,
         NEW tasks, DOMAIN tasks = Working(rows * z.heads, AttnWg),
         \A p \in DOMAIN tasks :
           LET row == p \div z.heads
               head == p - row * z.heads
               base == row * State(z) + head * z.dim
           IN  tasks[p] = Streamed(base, base, 0, n, head * z.dim, z)
  PROVE  Does(tasks, AllRows(rows, n), rows, z.heads, z)
  <1>1. DOMAIN tasks = 0..(rows * z.heads - 1)
    <2>1. rows * z.heads \in Nat /\ AttnWg \in Nat \ {0}
      BY GpuAttentionAssumption DEF Sized
    <2> QED
      BY <2>1, WorkingAll
  <1>2. CASE rows = 0
    BY <1>1, <1>2, NothingDoes
  <1>3. CASE rows # 0
    <2> DEFINE first == [r \in 0..(rows - 1) |-> 0]
    <2>1. \A r \in 0..(rows - 1) :
            first[r] \in Nat /\ AllRows(rows, n)[r] = Visible(first[r], first[r] + n - 1)
      <3>1. 0 + n - 1 = n - 1
        OBVIOUS
      <3> QED
        BY <3>1 DEF AllRows
    <2>2. \A p \in DOMAIN tasks :
            LET row == p \div z.heads
                head == p - row * z.heads
                base == row * State(z) + head * z.dim
            IN  tasks[p] = Streamed(base, base, first[row], n, head * z.dim, z)
      <3>1. \A p \in DOMAIN tasks : first[p \div z.heads] = 0
        BY <1>1, NumberedPlace
      <3> HIDE DEF first
      <3> QED
        BY <3>1
    <2>3. n \in Nat \ {0}
      BY <1>3
    <2> HIDE DEF first
    <2> QED
      BY <1>1, <2>1, <2>2, <2>3, UnitsStream
  <1> QED
    BY <1>2, <1>3

\* The encoder's kernel.
LEMMA GpuEncoderDoes ==
  ASSUME NEW z, Sized(z), HasSizes(z), z.seq \in Nat
  PROVE  Does(GpuEncoder(z), AllRows(z.seq, z.seq), z.seq, z.heads, z)
  <1> DEFINE tasks == GpuEncoder(z)
  <1>1. /\ DOMAIN tasks = Working(z.seq * z.heads, AttnWg)
        /\ \A p \in DOMAIN tasks :
             LET row == p \div z.heads
                 head == p - row * z.heads
                 base == row * State(z) + head * z.dim
             IN  tasks[p] = Streamed(base, base, 0, z.seq, head * z.dim, z)
    BY DEF GpuEncoder
  <1> HIDE DEF tasks
  <1>2. Does(tasks, AllRows(z.seq, z.seq), z.seq, z.heads, z)
    BY <1>1, GpuRowsDo
  <1> QED
    BY <1>2 DEF tasks

\* The kernel of cross-attention, when there is a key to start from.
LEMMA GpuCrossDoes ==
  ASSUME NEW z, Sized(z), HasSizes(z), z.seq \in Nat, z.kvSeq \in Nat \ {0}
  PROVE  Does(GpuCross(z), AllRows(z.seq, z.kvSeq), z.seq, z.heads, z)
  <1> DEFINE tasks == GpuCross(z)
  <1>1. /\ DOMAIN tasks = Working(z.seq * z.heads, AttnWg)
        /\ \A p \in DOMAIN tasks :
             LET row == p \div z.heads
                 head == p - row * z.heads
                 base == row * State(z) + head * z.dim
             IN  tasks[p] = Streamed(base, base, 0, z.kvSeq, head * z.dim, z)
    BY DEF GpuCross
  <1> HIDE DEF tasks
  <1>2. Does(tasks, AllRows(z.seq, z.kvSeq), z.seq, z.heads, z)
    BY <1>1, GpuRowsDo
  <1> QED
    BY <1>2 DEF tasks

\* The kernel on a cache.
LEMMA GpuCacheDoes ==
  ASSUME NEW z, Sized(z), HasSizes(z), z.seq \in Nat \ {0}
  PROVE  Does(GpuCache(z), AllRows(1, z.seq), 1, z.heads, z)
  <1> DEFINE tasks == GpuCache(z)
  <1>1. DOMAIN tasks = HeadsOf(z)
    <2>1. z.heads \in Nat /\ AttnWg \in Nat \ {0}
      BY GpuAttentionAssumption DEF Sized
    <2> QED
      BY <2>1, WorkingAll DEF GpuCache, HeadsOf
  <1>2. ASSUME NEW h \in HeadsOf(z)
        PROVE  tasks[h] = HeadTask(0, h, AllRows(1, z.seq)[0], z.heads, z)
    <2>1. tasks[h] = Streamed(h * z.dim, h * z.dim, 0, z.seq, h * z.dim, z)
      BY <1>1 DEF GpuCache
    <2>2. Base(0, h, z) = h * z.dim
      <3>1. h * z.dim \in Nat /\ State(z) \in Nat
        BY DEF Sized, HeadsOf, State
      <3> QED
        BY <3>1 DEF Base
    <2>3. 0 \in Nat /\ 0 + z.seq - 1 = z.seq - 1
      OBVIOUS
    <2>4. Streamed(Base(0, h, z), Base(0, h, z), 0, z.seq, h * z.dim, z)
            = HeadTask(0, h, Visible(0, 0 + z.seq - 1), z.heads, z)
      BY <2>3, StreamedHead
    <2>5. AllRows(1, z.seq)[0] = Visible(0, z.seq - 1)
      BY DEF AllRows
    <2> HIDE DEF tasks
    <2> QED
      BY <2>1, <2>2, <2>3, <2>4, <2>5
  <1> HIDE DEF tasks
  <1>3. Does(tasks, AllRows(1, z.seq), 1, z.heads, z)
    BY <1>1, <1>2, HeadsDo
  <1> QED
    BY <1>3 DEF tasks

\* Stacked sequences: a row sees the block it is in.
LEMMA GpuBatchedDoes ==
  ASSUME NEW z, Sized(z), HasSizes(z), z.batch \in Nat, z.seq \in Nat,
         z.len.out = z.batch * z.seq * State(z)
  PROVE  Does(GpuBatched(z), RowsOfBlock(z.batch * z.seq, z.seq), z.batch * z.seq, z.heads, z)
  <1> DEFINE tasks == GpuBatched(z)
             rows == z.batch * z.seq
             first == [r \in 0..(rows - 1) |-> KeyStart(r, z.seq)]
  <1>1. rows \in Nat /\ z.heads \in Nat \ {0} /\ State(z) \in Nat \ {0} /\ AttnWg \in Nat \ {0}
    BY GpuAttentionAssumption DEF Sized, State
  <1>2. z.len.out \div State(z) = rows
    <2>1. z.len.out = rows * State(z)
      OBVIOUS
    <2> HIDE DEF rows
    <2>2. (rows * State(z)) \div State(z) = rows
      BY ONLY <1>1, MultipleOf
    <2> QED
      BY <2>1, <2>2
  <1>3. DOMAIN tasks = 0..(rows * z.heads - 1)
    <2>1. DOMAIN tasks = {p \in Launched(rows * z.heads, AttnWg) : p < (z.len.out \div State(z)) * z.heads}
      BY DEF GpuBatched
    <2> HIDE DEF tasks, rows
    <2>2. DOMAIN tasks = Working(rows * z.heads, AttnWg)
      BY <1>2, <2>1 DEF Working
    <2>3. rows * z.heads \in Nat
      BY <1>1
    <2> QED
      BY <1>1, <2>2, <2>3, WorkingAll
  <1>4. \A p \in DOMAIN tasks :
          LET row == p \div z.heads
              head == p - row * z.heads
              base == row * State(z) + head * z.dim
          IN  tasks[p] = Streamed(base, base, KeyStart(row, z.seq), z.seq, head * z.dim, z)
    BY DEF GpuBatched
  <1>5. CASE rows = 0
    <2> HIDE DEF tasks, rows
    <2>1. Does(tasks, RowsOfBlock(rows, z.seq), 0, z.heads, z)
      BY <1>3, <1>5, NothingDoes
    <2> QED
      BY <1>5, <2>1 DEF tasks, rows
  <1>6. CASE rows # 0
    <2>1. z.seq \in Nat \ {0}
      <3>1. z.seq = 0 => rows = 0
        OBVIOUS
      <3> QED
        BY <1>6, <3>1
    <2> HIDE DEF tasks, rows
    <2>2. \A r \in 0..(rows - 1) :
            first[r] \in Nat /\ RowsOfBlock(rows, z.seq)[r] = Visible(first[r], first[r] + z.seq - 1)
      <3> SUFFICES ASSUME NEW r \in 0..(rows - 1)
                   PROVE  first[r] \in Nat /\ RowsOfBlock(rows, z.seq)[r] = Visible(first[r], first[r] + z.seq - 1)
        OBVIOUS
      <3>1. r \in Nat
        BY <1>1
      <3>2. r % z.seq \in 0..(z.seq - 1) /\ r = (r \div z.seq) * z.seq + (r % z.seq) /\ r \div z.seq \in Nat
        BY ONLY <2>1, <3>1, Remainder, Quotient
      <3>3. (r \div z.seq) * z.seq \in Nat /\ r - (r % z.seq) = (r \div z.seq) * z.seq
        <4> DEFINE q == r \div z.seq
                   b == r % z.seq
                   x == q * z.seq
        <4>1. x \in Nat
          BY <2>1, <3>2, SMTT(30)
        <4>2. r = x + b /\ b \in Int
          BY <2>1, <3>1, <3>2
        <4> HIDE DEF x, b
        <4>3. r - b = x
          BY ONLY <3>1, <4>1, <4>2
        <4> QED
          BY ONLY <4>1, <4>3 DEF x, b, q
      <3>4. first[r] = (r \div z.seq) * z.seq
        BY DEF KeyStart
      <3> HIDE DEF first
      <3> QED
        BY <3>3, <3>4 DEF RowsOfBlock
    <2>3. \A p \in DOMAIN tasks :
            LET row == p \div z.heads
                head == p - row * z.heads
                base == row * State(z) + head * z.dim
            IN  tasks[p] = Streamed(base, base, first[row], z.seq, head * z.dim, z)
      <3>1. \A p \in DOMAIN tasks : p \div z.heads \in 0..(rows - 1)
        BY <1>1, <1>3, NumberedPlace
      <3>2. \A p \in DOMAIN tasks : first[p \div z.heads] = KeyStart(p \div z.heads, z.seq)
        BY <3>1
      <3> HIDE DEF first
      <3> QED
        BY <1>4, <3>2
    <2> HIDE DEF first
    <2>4. Does(tasks, RowsOfBlock(rows, z.seq), rows, z.heads, z)
      BY <1>1, <1>3, <2>1, <2>2, <2>3, UnitsStream
    <2> QED
      BY <2>4 DEF tasks, rows
  <1> QED
    BY <1>5, <1>6

\* A set of natural numbers has a least element.
LEMMA LeastNat ==
  ASSUME NEW T, T \subseteq Nat, T # {}
  PROVE  \E m \in T : \A k \in T : m <= k
  <1>1. PICK m \in T : \A k \in T : <<k, m>> \notin OpToRel(<, Nat)
    BY NatLessThanWellFounded, WFMin
  <1>2. \A k \in T : ~(k < m)
    BY <1>1 DEF OpToRel
  <1> QED
    BY <1>2

\* What holds at 0, and at k + 1 if it does at k, holds up to n.
LEMMA Climb ==
  ASSUME NEW S, NEW n \in Nat, 0 \in S,
         \A k \in 0..(n - 1) : k \in S => k + 1 \in S
  PROVE  \A k \in 0..n : k \in S
  <1> DEFINE T == {k \in 0..n : k \notin S}
  <1>1. T \subseteq Nat
    OBVIOUS
  <1>2. ASSUME NEW m \in T, \A k \in T : m <= k
        PROVE  FALSE
    <2>1. m \in 1..n /\ m \notin S
      OBVIOUS
    <2>2. m - 1 \in 0..(n - 1) /\ m - 1 \notin T
      BY <1>2, <2>1
    <2>3. m - 1 \in S
      BY <2>2
    <2>4. m - 1 + 1 \in S
      BY <2>2, <2>3
    <2> QED
      BY <2>1, <2>4
  <1> HIDE DEF T
  <1>3. T = {}
    BY <1>1, <1>2, LeastNat
  <1> QED
    BY <1>3 DEF T

\* The cells a unit has taken by row j, if it passes over those after its own.
RunTo(buffer, m, w, offset) == [i \in 1..(m + 1) |-> <<buffer, (i - 1) * w + offset>>]
Taking(f, buffer, n, row, w, offset) ==
  f = [j \in 0..(n - 1) |->
         IF j = 0 THEN <<<<buffer, offset>>>>
         ELSE IF j < row + 1 THEN Append(f[j - 1], <<buffer, j * w + offset>>)
         ELSE f[j - 1]]

\* A run with the next row appended.
LEMMA OneMore ==
  ASSUME NEW buffer, NEW m \in Nat \ {0}, NEW w \in Nat, NEW offset \in Nat
  PROVE  Append(RunTo(buffer, m - 1, w, offset), <<buffer, m * w + offset>>) = RunTo(buffer, m, w, offset)
  <1> DEFINE S == {buffer} \X Nat
             s == RunTo(buffer, m - 1, w, offset)
             x == <<buffer, m * w + offset>>
  <1>1. s = [i \in 1..m |-> <<buffer, (i - 1) * w + offset>>]
    <2>1. m - 1 + 1 = m
      OBVIOUS
    <2> QED
      BY <2>1 DEF RunTo
  <1>2. s \in [1..m -> S] /\ x \in S
    <2>1. \A i \in 1..m : (i - 1) * w + offset \in Nat
      OBVIOUS
    <2>2. m * w + offset \in Nat
      OBVIOUS
    <2> HIDE DEF s
    <2> QED
      BY <1>1, <2>1, <2>2
  <1> DEFINE run == RunTo(buffer, m, w, offset)
  <1>3. run = [i \in 1..(m + 1) |-> <<buffer, (i - 1) * w + offset>>]
    BY DEF RunTo
  <1>4. \A i \in 1..m : s[i] = <<buffer, (i - 1) * w + offset>>
    <2> HIDE DEF s
    <2> QED
      BY <1>1
  <1> HIDE DEF S, s, run
  <1>5. s \in Seq(S) /\ Len(s) = m
    BY <1>2
  <1>6. Append(s, x) = [i \in 1..(m + 1) |-> IF i <= m THEN s[i] ELSE x]
    BY <1>2, <1>5
  <1>7. ASSUME NEW i \in 1..(m + 1)
        PROVE  (IF i <= m THEN s[i] ELSE x) = <<buffer, (i - 1) * w + offset>>
    <2>1. CASE i <= m
      BY <1>4, <2>1
    <2>2. CASE i = m + 1
      <3>1. i - 1 = m
        BY <2>2
      <3> QED
        BY <2>2, <3>1
    <2> QED
      BY <2>1, <2>2
  <1>8. Append(s, x) = run
    BY <1>3, <1>6, <1>7
  <1> QED
    BY <1>8 DEF s, run

\* Whatever takes rows so has the run up to its own row when it is done.
LEMMA TakenRun ==
  ASSUME NEW f, NEW buffer, NEW n \in Nat, NEW row \in 0..(n - 1), NEW w \in Nat, NEW offset \in Nat,
         Taking(f, buffer, n, row, w, offset)
  PROVE  f[n - 1] = RunTo(buffer, row, w, offset)
  <1> DEFINE want(j) == RunTo(buffer, Smaller(j, row), w, offset)
             S == {j \in 0..(n - 1) : f[j] = want(j)}
  <1>1. \A j \in 0..(n - 1) :
          f[j] = IF j = 0 THEN <<<<buffer, offset>>>>
                 ELSE IF j < row + 1 THEN Append(f[j - 1], <<buffer, j * w + offset>>)
                 ELSE f[j - 1]
    BY DEF Taking
  <1>2. 0 \in S
    <2>1. Smaller(0, row) = 0
      BY DEF Smaller
    <2>2. RunTo(buffer, 0, w, offset) = <<<<buffer, offset>>>>
      <3>1. 1..(0 + 1) = {1} /\ (1 - 1) * w + offset = offset
        OBVIOUS
      <3> QED
        BY <3>1 DEF RunTo
    <2>3. f[0] = <<<<buffer, offset>>>>
      BY <1>1
    <2> QED
      BY <2>1, <2>2, <2>3
  <1>3. ASSUME NEW k \in 0..(n - 1 - 1), k \in S
        PROVE  k + 1 \in S
    <2> DEFINE j == k + 1
    <2>1. j \in 0..(n - 1) /\ j # 0 /\ j - 1 = k /\ j \in Nat \ {0}
      OBVIOUS
    <2>2. f[k] = want(k)
      BY <1>3
    <2>3. CASE j <= row
      <3>1. Smaller(k, row) = j - 1 /\ Smaller(j, row) = j /\ j < row + 1
        BY <2>3 DEF Smaller
      <3>2. f[j] = Append(f[k], <<buffer, j * w + offset>>)
        <4> HIDE DEF j
        <4> QED
          BY <1>1, <2>1, <3>1
      <3>3. f[k] = RunTo(buffer, j - 1, w, offset) /\ want(j) = RunTo(buffer, j, w, offset)
        BY <2>2, <3>1
      <3> HIDE DEF j
      <3>4. j \in Nat \ {0}
        BY <2>1
      <3>5. Append(RunTo(buffer, j - 1, w, offset), <<buffer, j * w + offset>>) = RunTo(buffer, j, w, offset)
        BY ONLY <3>4, w \in Nat, offset \in Nat, OneMore
      <3>6. f[j] = want(j)
        <4> HIDE DEF want
        <4> QED
          BY ONLY <3>2, <3>3, <3>5
      <3> QED
        BY <2>1, <3>6 DEF j
    <2>4. CASE ~(j <= row)
      <3>1. Smaller(k, row) = row /\ Smaller(j, row) = row /\ ~(j < row + 1)
        BY <2>4 DEF Smaller
      <3>2. f[j] = f[k]
        <4> HIDE DEF j
        <4> QED
          BY <1>1, <2>1, <3>1
      <3>3. f[j] = want(j)
        BY <2>2, <3>1, <3>2
      <3> QED
        BY <2>1, <3>3
    <2> QED
      BY <2>3, <2>4
  <1> HIDE DEF S
  <1>4. \A k \in 0..(n - 1) : k \in S
    <2>1. n - 1 \in Nat
      OBVIOUS
    <2> QED
      BY <1>2, <1>3, <2>1, Climb
  <1>5. n - 1 \in S
    BY <1>4
  <1>6. Smaller(n - 1, row) = row
    BY DEF Smaller
  <1> QED
    BY <1>5, <1>6 DEF S

\* And something does take them so.
LEMMA SomeTaking ==
  ASSUME NEW buffer, NEW n \in Nat, NEW row \in 0..(n - 1), NEW w \in Nat, NEW offset \in Nat
  PROVE  \E f : Taking(f, buffer, n, row, w, offset)
  <1> DEFINE run(m) == RunTo(buffer, m, w, offset)
             f == [j \in 0..(n - 1) |-> run(Smaller(j, row))]
             g == [j \in 0..(n - 1) |->
                     IF j = 0 THEN <<<<buffer, offset>>>>
                     ELSE IF j < row + 1 THEN Append(f[j - 1], <<buffer, j * w + offset>>)
                     ELSE f[j - 1]]
  <1>1. ASSUME NEW j \in 0..(n - 1)
        PROVE  f[j] = g[j]
    <2>1. CASE j = 0
      <3>1. Smaller(j, row) = 0
        BY <2>1 DEF Smaller
      <3>2. 1..(0 + 1) = {1} /\ (1 - 1) * w + offset = offset
        OBVIOUS
      <3>3. run(0) = <<<<buffer, offset>>>>
        BY <3>2 DEF RunTo
      <3> HIDE DEF run
      <3> QED
        BY <2>1, <3>1, <3>3
    <2>2. CASE j # 0 /\ j < row + 1
      <3>1. Smaller(j, row) = j /\ Smaller(j - 1, row) = j - 1 /\ j - 1 \in 0..(n - 1)
        BY <2>2 DEF Smaller
      <3>2. Append(run(j - 1), <<buffer, j * w + offset>>) = run(j)
        <4>1. j \in Nat \ {0}
          BY <2>2
        <4> QED
          BY ONLY <4>1, w \in Nat, offset \in Nat, OneMore
      <3> HIDE DEF run
      <3>3. f[j] = run(j) /\ f[j - 1] = run(j - 1)
        BY <3>1
      <3>4. g[j] = Append(f[j - 1], <<buffer, j * w + offset>>)
        BY <2>2
      <3> QED
        BY <3>2, <3>3, <3>4
    <2>3. CASE j # 0 /\ ~(j < row + 1)
      <3>1. Smaller(j, row) = row /\ Smaller(j - 1, row) = row /\ j - 1 \in 0..(n - 1)
        BY <2>3 DEF Smaller
      <3> HIDE DEF run
      <3>2. f[j] = run(row) /\ f[j - 1] = run(row)
        BY <3>1
      <3>3. g[j] = f[j - 1]
        BY <2>3
      <3> QED
        BY <3>2, <3>3
    <2> QED
      BY <2>1, <2>2, <2>3
  <1>2. f = g
    <2>1. DOMAIN f = 0..(n - 1) /\ DOMAIN g = 0..(n - 1)
      OBVIOUS
    <2>2. f = [j \in 0..(n - 1) |-> f[j]] /\ g = [j \in 0..(n - 1) |-> g[j]]
      OBVIOUS
    <2> HIDE DEF f, g
    <2> QED
      BY <1>1, <2>2
  <1>3. Taking(f, buffer, n, row, w, offset)
    <2> HIDE DEF f
    <2> QED
      BY <1>2 DEF Taking
  <1> QED
    BY <1>3

\* What a unit has taken after all rows are those up to its own.
LEMMA StreamedUpToRow ==
  ASSUME NEW z, NEW buffer, z.seq \in Nat, NEW row \in 0..(z.seq - 1), State(z) \in Nat, NEW offset \in Nat
  PROVE  StreamedUpTo(buffer, row, offset, z) = RunTo(buffer, row, State(z), offset)
  <1> DEFINE taken == CHOOSE f : Taking(f, buffer, z.seq, row, State(z), offset)
  <1>1. StreamedUpTo(buffer, row, offset, z) = taken[z.seq - 1]
    BY DEF StreamedUpTo, Taking
  <1>2. Taking(taken, buffer, z.seq, row, State(z), offset)
    BY SomeTaking
  <1> HIDE DEF taken
  <1>3. taken[z.seq - 1] = RunTo(buffer, row, State(z), offset)
    BY <1>2, TakenRun
  <1> QED
    BY <1>1, <1>3

\* Every query sees the rows up to its own.
LEMMA GpuCausalDoes ==
  ASSUME NEW z, Sized(z), HasSizes(z), z.seq \in Nat
  PROVE  Does(GpuCausal(z), RowsSoFar(z.seq), z.seq, z.heads, z)
  <1> DEFINE tasks == GpuCausal(z)
  <1>1. DOMAIN tasks = 0..(z.seq * z.heads - 1)
    <2>1. z.seq * z.heads \in Nat /\ AttnWg \in Nat \ {0}
      BY GpuAttentionAssumption DEF Sized
    <2> QED
      BY <2>1, WorkingAll DEF GpuCausal
  <1>2. \A p \in DOMAIN tasks :
          LET row == p \div z.heads
              head == p - row * z.heads
              base == row * State(z) + head * z.dim
          IN  tasks[p] = Weigh(base, base, StreamedUpTo("k", row, head * z.dim, z),
                               StreamedUpTo("v", row, head * z.dim, z), Scalar(z))
    BY DEF GpuCausal
  <1> HIDE DEF tasks
  <1>3. ASSUME NEW p \in DOMAIN tasks
        PROVE  tasks[p] = HeadTask(p \div z.heads, p % z.heads, RowsSoFar(z.seq)[p \div z.heads], z.heads, z)
    <2> DEFINE r == p \div z.heads
               h == p % z.heads
    <2>1. r \in 0..(z.seq - 1) /\ r \in Nat /\ h \in HeadsOf(z) /\ p - r * z.heads = h
      BY <1>1, NumberedPlace
    <2>2. tasks[p] = Weigh(r * State(z) + h * z.dim, r * State(z) + h * z.dim,
                           StreamedUpTo("k", r, h * z.dim, z), StreamedUpTo("v", r, h * z.dim, z), Scalar(z))
      <3>1. tasks[p] = Weigh(r * State(z) + (p - r * z.heads) * z.dim,
                             r * State(z) + (p - r * z.heads) * z.dim,
                             StreamedUpTo("k", r, (p - r * z.heads) * z.dim, z),
                             StreamedUpTo("v", r, (p - r * z.heads) * z.dim, z), Scalar(z))
        BY <1>2
      <3> HIDE DEF r, h
      <3> QED
        BY ONLY <2>1, <3>1
    <2> HIDE DEF r, h
    <2> DEFINE w == z.heads * z.dim
               offset == h * z.dim
               keys == Strided("k", 0, r, w, offset)
               values == Strided("v", 0, r, w, offset)
    <2>3. State(z) \in Nat /\ State(z) = w /\ offset \in Nat /\ r \in 0..(z.seq - 1)
      BY <2>1 DEF Sized, HeadsOf, State
    <2>4. /\ StreamedUpTo("k", r, offset, z) = RunTo("k", r, State(z), offset)
          /\ StreamedUpTo("v", r, offset, z) = RunTo("v", r, State(z), offset)
      <3> HIDE DEF w, offset
      <3> QED
        BY ONLY <2>3, z.seq \in Nat, StreamedUpToRow
    <2>5. /\ RunTo("k", r, w, offset) = Strided("k", 0, r, w, offset)
          /\ RunTo("v", r, w, offset) = Strided("v", 0, r, w, offset)
      <3>1. r - 0 + 1 = r + 1 /\ \A i \in 1..(r + 1) : 0 + i - 1 = i - 1
        BY <2>1
      <3> HIDE DEF w, offset
      <3> QED
        BY <3>1 DEF RunTo, Strided
    <2>6. tasks[p] = Weigh(Base(r, h, z), Base(r, h, z), keys, values, Scalar(z))
      <3>1. tasks[p] = Weigh(r * State(z) + offset, r * State(z) + offset,
                             StreamedUpTo("k", r, offset, z), StreamedUpTo("v", r, offset, z), Scalar(z))
        BY <2>2
      <3>2. Base(r, h, z) = r * State(z) + offset
        BY DEF Base
      <3> HIDE DEF w, offset
      <3> QED
        BY <2>3, <2>4, <2>5, <3>1, <3>2
    <2>7. KvHeadOf(h, z.heads, z) = h /\ z.heads % z.heads = 0 /\ z.heads \in Nat \ {0}
      BY <2>1, OwnKvHead DEF Sized
    <2>8. /\ keys = Strided("k", 0, r, z.heads * z.dim, KvHeadOf(h, z.heads, z) * z.dim)
          /\ values = Strided("v", 0, r, z.heads * z.dim, KvHeadOf(h, z.heads, z) * z.dim)
      BY <2>7
    <2>9. Scalar(z).dim = z.dim /\ r \in Int /\ 0 \in Nat
      BY <2>1, ScalarSizes
    <2> HIDE DEF keys, values
    <2>10. Weigh(Base(r, h, z), Base(r, h, z), keys, values, Scalar(z))
             = HeadTask(r, h, Visible(0, r), z.heads, z)
      BY <2>1, <2>7, <2>8, <2>9, WeighedHead
    <2>11. RowsSoFar(z.seq)[r] = Visible(0, r)
      BY <2>1 DEF RowsSoFar
    <2>12. tasks[p] = HeadTask(r, h, RowsSoFar(z.seq)[r], z.heads, z)
      BY <2>6, <2>10, <2>11
    <2> QED
      BY <2>12 DEF r, h
  <1>4. Does(tasks, RowsSoFar(z.seq), z.seq, z.heads, z)
    BY <1>1, <1>3, NumberedDo
  <1> QED
    BY <1>4 DEF tasks

\* The rows of the past and the new one, as cells of one head.
PastThenNew(buffer, new, n, h, z) ==
  [i \in 1..(n + 1) |-> IF i <= n THEN <<buffer, (i - 1) * State(z) + h * z.dim>> ELSE <<new, h * z.dim>>]

\* What the query sees of the past and the new row, place by place.
LEMMA PastVisible ==
  ASSUME NEW n \in Nat
  PROVE  /\ DOMAIN PastAndNew(n)[0] = 1..(n + 1)
         /\ \A i \in 1..n : PastAndNew(n)[0][i] = [k |-> "k", v |-> "v", row |-> i - 1]
         /\ PastAndNew(n)[0][n + 1] = [k |-> "newK", v |-> "newV", row |-> 0]
  <1> DEFINE seen == Visible(0, n - 1) \o NewRow
             R == [k : {"k"}, v : {"v"}, row : Nat]
             past == Visible(0, n - 1)
  <1>1. PastAndNew(n)[0] = seen
    BY DEF PastAndNew
  <1>2. past = [i \in 1..n |-> [k |-> "k", v |-> "v", row |-> i - 1]]
    BY DEF Visible
  <1>3. \A i \in 1..n : [k |-> "k", v |-> "v", row |-> i - 1] \in R
    OBVIOUS
  <1> HIDE DEF R
  <1>4. past \in [1..n -> R]
    BY <1>2, <1>3
  <1>5. past \in Seq(R) /\ Len(past) = n
    <2> HIDE DEF past
    <2> QED
      BY <1>4
  <1>6. \A i \in 1..n : past[i] = [k |-> "k", v |-> "v", row |-> i - 1]
    BY <1>2
  <1> HIDE DEF past
  <1>7. seen = past \o NewRow
    BY DEF past
  <1> HIDE DEF seen
  <1>8. /\ DOMAIN seen = 1..(n + 1)
        /\ \A i \in 1..n : seen[i] = [k |-> "k", v |-> "v", row |-> i - 1]
        /\ seen[n + 1] = [k |-> "newK", v |-> "newV", row |-> 0]
    BY <1>5, <1>6, <1>7 DEF NewRow
  <1> QED
    BY <1>1, <1>8

\* A head over the past and the new row.
LEMMA NewHead ==
  ASSUME NEW z, Sized(z), NEW y, y.dim = z.dim, NEW n \in Nat, NEW h \in HeadsOf(z)
  PROVE  Weigh(h * z.dim, h * z.dim, PastThenNew("k", "newK", n, h, z), PastThenNew("v", "newV", n, h, z), y)
           = HeadTask(0, h, PastAndNew(n)[0], z.heads, z)
  <1> DEFINE seen == PastAndNew(n)[0]
             keys == PastThenNew("k", "newK", n, h, z)
             values == PastThenNew("v", "newV", n, h, z)
  <1>1. /\ DOMAIN seen = 1..(n + 1)
        /\ \A i \in 1..n : seen[i] = [k |-> "k", v |-> "v", row |-> i - 1]
        /\ seen[n + 1] = [k |-> "newK", v |-> "newV", row |-> 0]
    BY PastVisible
  <1>2. z.dim \in Nat /\ z.heads \in Nat /\ h \in Nat /\ KvHeadOf(h, z.heads, z) = h
    BY OwnKvHead DEF Sized, HeadsOf
  <1> HIDE DEF seen
  <1>3. ASSUME NEW i \in 1..(n + 1)
        PROVE  /\ keys[i] = <<seen[i].k, (seen[i].row * z.heads + h) * z.dim>>
               /\ values[i] = <<seen[i].v, (seen[i].row * z.heads + h) * z.dim>>
    <2>1. CASE i <= n
      <3>1. seen[i].k = "k" /\ seen[i].v = "v" /\ seen[i].row = i - 1
        <4>1. i \in 1..n
          BY <2>1
        <4>2. seen[i] = [k |-> "k", v |-> "v", row |-> i - 1]
          BY ONLY <1>1, <4>1
        <4> QED
          BY ONLY <4>2
      <3> DEFINE row == i - 1
      <3>2. row \in Nat
        BY <2>1
      <3>3. row * State(z) + h * z.dim = (row * z.heads + h) * z.dim
        <4> HIDE DEF row
        <4> QED
          BY ONLY <1>2, <3>2 DEF State
      <3>4. /\ keys[i] = <<"k", row * State(z) + h * z.dim>>
            /\ values[i] = <<"v", row * State(z) + h * z.dim>>
        BY <2>1 DEF PastThenNew
      <3>5. seen[i].row = row
        BY <3>1
      <3> HIDE DEF row, keys, values
      <3> QED
        BY <3>1, <3>3, <3>4, <3>5
    <2>2. CASE i = n + 1
      <3>1. seen[i].k = "newK" /\ seen[i].v = "newV" /\ seen[i].row = 0
        BY <1>1, <2>2
      <3>2. (0 * z.heads + h) * z.dim = h * z.dim
        BY <1>2
      <3>3. keys[i] = <<"newK", h * z.dim>> /\ values[i] = <<"newV", h * z.dim>>
        BY <2>2 DEF PastThenNew
      <3> HIDE DEF keys, values
      <3> QED
        BY <3>1, <3>2, <3>3
    <2> QED
      BY <2>1, <2>2
  <1>4. /\ keys = [i \in 1..(n + 1) |-> keys[i]]
        /\ values = [i \in 1..(n + 1) |-> values[i]]
    BY DEF PastThenNew
  <1> HIDE DEF keys, values
  <1>5. /\ keys = [i \in DOMAIN seen |-> <<seen[i].k, (seen[i].row * z.heads + KvHeadOf(h, z.heads, z)) * z.dim>>]
        /\ values = [i \in DOMAIN seen |-> <<seen[i].v, (seen[i].row * z.heads + KvHeadOf(h, z.heads, z)) * z.dim>>]
    BY <1>1, <1>2, <1>3, <1>4
  <1>6. ScoreColumns(y) = InOrder(z.dim) /\ SumColumns(y) = InOrder(z.dim)
    BY <1>2, ColumnsInOrder
  <1>7. Base(0, h, z) = h * z.dim
    <2>1. h * z.dim \in Nat /\ State(z) \in Nat
      BY <1>2 DEF State
    <2> QED
      BY <2>1 DEF Base
  <1>8. Weigh(h * z.dim, h * z.dim, keys, values, y)
          = [out |-> h * z.dim,
             from |-> [q |-> h * z.dim, keys |-> keys, values |-> values,
                       scored |-> InOrder(z.dim), summed |-> InOrder(z.dim)]]
    BY <1>6 DEF Weigh
  <1>9. Weigh(h * z.dim, h * z.dim, keys, values, y) = HeadTask(0, h, seen, z.heads, z)
    BY <1>5, <1>7, <1>8 DEF HeadTask, HeadFrom
  <1> QED
    BY <1>9 DEF seen, keys, values

\* One task for each head, over the past rows and the new one.
LEMMA HeadsWithNew ==
  ASSUME NEW z, Sized(z), NEW y, y.dim = z.dim, NEW n \in Nat, NEW tasks, DOMAIN tasks = HeadsOf(z),
         \A h \in HeadsOf(z) :
           tasks[h] = Weigh(h * z.dim, h * z.dim, PastThenNew("k", "newK", n, h, z),
                            PastThenNew("v", "newV", n, h, z), y)
  PROVE  Does(tasks, PastAndNew(n), 1, z.heads, z)
  <1>1. \A h \in HeadsOf(z) : tasks[h] = HeadTask(0, h, PastAndNew(n)[0], z.heads, z)
    BY NewHead
  <1> QED
    BY <1>1, HeadsDo

JoinedPast(buffer, new, n, w, offset) == Strided(buffer, 0, n - 1, w, offset) \o <<<<new, offset>>>>
ListedPast(buffer, new, n, w, offset) ==
  [i \in 1..(n + 1) |-> IF i <= n THEN <<buffer, (i - 1) * w + offset>> ELSE <<new, offset>>]

\* The past rows with the new one joined are a list of them.
LEMMA PastJoined ==
  ASSUME NEW buffer, NEW new, NEW n \in Nat, NEW w \in Nat, NEW offset \in Nat
  PROVE  JoinedPast(buffer, new, n, w, offset) = ListedPast(buffer, new, n, w, offset)
  <1> DEFINE S == {buffer, new} \X Nat
             x == <<new, offset>>
             s == Strided(buffer, 0, n - 1, w, offset)
  <1>1. s = [i \in 1..n |-> <<buffer, (i - 1) * w + offset>>]
    <2>1. n - 1 - 0 + 1 = n /\ \A i \in 1..n : 0 + i - 1 = i - 1
      OBVIOUS
    <2> QED
      BY <2>1 DEF Strided
  <1>2. x \in S /\ s \in [1..n -> S]
    <2>1. \A i \in 1..n : (i - 1) * w + offset \in Nat
      OBVIOUS
    <2> HIDE DEF s
    <2> QED
      BY <1>1, <2>1
  <1>3. \A i \in 1..n : s[i] = <<buffer, (i - 1) * w + offset>>
    <2> HIDE DEF s
    <2> QED
      BY <1>1
  <1> HIDE DEF s, S, x
  <1>4. s \o <<x>> = [i \in 1..(n + 1) |-> IF i <= n THEN s[i] ELSE x]
    BY <1>2, WithLast
  <1>5. s \o <<x>> = [i \in 1..(n + 1) |-> IF i <= n THEN <<buffer, (i - 1) * w + offset>> ELSE x]
    <2>1. \A i \in 1..(n + 1) : i <= n => i \in 1..n
      OBVIOUS
    <2> QED
      BY <1>3, <1>4, <2>1
  <1> QED
    BY <1>5 DEF s, x, JoinedPast, ListedPast

\* The incremental operation on the host.
LEMMA IncrementalScalarDoes ==
  ASSUME NEW z, Sized(z), HasSizes(z), z.seq \in Nat
  PROVE  Does(IncrementalScalar(z), PastAndNew(z.seq), 1, z.heads, z)
  <1> DEFINE tasks == IncrementalScalar(z)
  <1>1. DOMAIN tasks = HeadsOf(z)
    BY DEF IncrementalScalar
  <1>2. ASSUME NEW h \in HeadsOf(z)
        PROVE  tasks[h] = Weigh(h * z.dim, h * z.dim, PastThenNew("k", "newK", z.seq, h, z),
                                PastThenNew("v", "newV", z.seq, h, z), Scalar(z))
    <2> DEFINE offset == h * z.dim
    <2>1. State(z) \in Nat /\ offset \in Nat
      BY DEF Sized, HeadsOf, State
    <2>2. tasks[h] = Weigh(offset, offset, JoinedPast("k", "newK", z.seq, State(z), offset),
                           JoinedPast("v", "newV", z.seq, State(z), offset), Scalar(z))
      BY DEF IncrementalScalar, JoinedPast
    <2>3. /\ PastThenNew("k", "newK", z.seq, h, z) = ListedPast("k", "newK", z.seq, State(z), offset)
          /\ PastThenNew("v", "newV", z.seq, h, z) = ListedPast("v", "newV", z.seq, State(z), offset)
      BY DEF PastThenNew, ListedPast
    <2> HIDE DEF offset, tasks
    <2>4. /\ JoinedPast("k", "newK", z.seq, State(z), offset) = ListedPast("k", "newK", z.seq, State(z), offset)
          /\ JoinedPast("v", "newV", z.seq, State(z), offset) = ListedPast("v", "newV", z.seq, State(z), offset)
      BY ONLY <2>1, z.seq \in Nat, PastJoined
    <2>5. tasks[h] = Weigh(offset, offset, PastThenNew("k", "newK", z.seq, h, z),
                           PastThenNew("v", "newV", z.seq, h, z), Scalar(z))
      BY ONLY <2>2, <2>3, <2>4
    <2> QED
      BY <2>5 DEF offset
  <1>3. Scalar(z).dim = z.dim
    BY ScalarSizes
  <1> HIDE DEF tasks
  <1>4. Does(tasks, PastAndNew(z.seq), 1, z.heads, z)
    BY <1>1, <1>2, <1>3, HeadsWithNew
  <1> QED
    BY <1>4 DEF tasks

\* The incremental kernel, one unit to a workgroup.
LEMMA GpuIncrementalDoes ==
  ASSUME NEW z, Sized(z), HasSizes(z), z.seq \in Nat
  PROVE  Does(GpuIncremental(z), PastAndNew(z.seq), 1, z.heads, z)
  <1> DEFINE tasks == GpuIncremental(z)
  <1>1. DOMAIN tasks = HeadsOf(z)
    <2>1. z.heads \in Nat
      BY DEF Sized
    <2>2. 1 \in Nat \ {0}
      OBVIOUS
    <2>3. Working(z.heads, 1) = 0..(z.heads - 1)
      BY <2>1, <2>2, WorkingAll
    <2> QED
      BY <2>3 DEF GpuIncremental, HeadsOf
  <1>2. ASSUME NEW h \in HeadsOf(z)
        PROVE  tasks[h] = Weigh(h * z.dim, h * z.dim, PastThenNew("k", "newK", z.seq, h, z),
                                PastThenNew("v", "newV", z.seq, h, z), Scalar(z))
    <2> DEFINE taken(past, new) ==
                 [i \in 1..(z.seq + 1) |-> IF i - 1 < (z.seq + 1) - 1
                                           THEN <<past, (i - 1) * State(z) + h * z.dim>> ELSE <<new, h * z.dim>>]
    <2>1. tasks[h] = Weigh(h * z.dim, h * z.dim, taken("k", "newK"), taken("v", "newV"), Scalar(z))
      <3>1. h \in Working(z.heads, 1)
        BY <1>1 DEF GpuIncremental
      <3> QED
        BY ONLY <3>1 DEF GpuIncremental
    <2>2. \A i \in 1..(z.seq + 1) : (i - 1 < (z.seq + 1) - 1) <=> (i <= z.seq)
      OBVIOUS
    <2>3. taken("k", "newK") = PastThenNew("k", "newK", z.seq, h, z)
      BY <2>2 DEF PastThenNew
    <2>4. taken("v", "newV") = PastThenNew("v", "newV", z.seq, h, z)
      BY <2>2 DEF PastThenNew
    <2> HIDE DEF taken, tasks
    <2> QED
      BY <2>1, <2>3, <2>4
  <1>3. Scalar(z).dim = z.dim
    BY ScalarSizes
  <1> HIDE DEF tasks
  <1>4. Does(tasks, PastAndNew(z.seq), 1, z.heads, z)
    BY <1>1, <1>2, <1>3, HeadsWithNew
  <1> QED
    BY <1>4 DEF tasks

\* The cells of a head over the rows of the past and the one appended to them.
RunCells(buffer, n, h, z) == [i \in 1..(n + 1) |-> <<buffer, Base(i - 1, h, z)>>]

\* What a head over the first rows of a cache computes from.
LEMMA HeadOfRun ==
  ASSUME NEW z, Sized(z), NEW n \in Nat, NEW h \in HeadsOf(z)
  PROVE  HeadTask(0, h, Visible(0, n), z.heads, z)
           = [out |-> h * z.dim,
              from |-> [q |-> h * z.dim, keys |-> RunCells("k", n, h, z), values |-> RunCells("v", n, h, z),
                        scored |-> InOrder(z.dim), summed |-> InOrder(z.dim)]]
  <1> DEFINE seen == Visible(0, n)
  <1>1. /\ DOMAIN seen = 1..(n + 1)
        /\ \A i \in 1..(n + 1) : seen[i].k = "k" /\ seen[i].v = "v" /\ seen[i].row = i - 1
    <2>1. n - 0 + 1 = n + 1 /\ \A i \in 1..(n + 1) : 0 + i - 1 = i - 1
      OBVIOUS
    <2> QED
      BY <2>1 DEF Visible
  <1>2. KvHeadOf(h, z.heads, z) = h
    BY OwnKvHead
  <1>3. \A i \in 1..(n + 1) : Base(i - 1, h, z) = ((i - 1) * z.heads + h) * z.dim
    <2>1. \A i \in 1..(n + 1) : i - 1 \in Nat
      OBVIOUS
    <2> QED
      BY <2>1, BasePlace
  <1>4. Base(0, h, z) = h * z.dim
    <2>1. h * z.dim \in Nat /\ State(z) \in Nat
      BY DEF Sized, HeadsOf, State
    <2> QED
      BY <2>1 DEF Base
  <1> HIDE DEF seen
  <1>5. /\ [i \in DOMAIN seen |-> <<seen[i].k, (seen[i].row * z.heads + KvHeadOf(h, z.heads, z)) * z.dim>>]
             = RunCells("k", n, h, z)
        /\ [i \in DOMAIN seen |-> <<seen[i].v, (seen[i].row * z.heads + KvHeadOf(h, z.heads, z)) * z.dim>>]
             = RunCells("v", n, h, z)
    BY <1>1, <1>2, <1>3 DEF RunCells
  <1>6. HeadTask(0, h, seen, z.heads, z)
          = [out |-> h * z.dim,
             from |-> [q |-> h * z.dim, keys |-> RunCells("k", n, h, z), values |-> RunCells("v", n, h, z),
                       scored |-> InOrder(z.dim), summed |-> InOrder(z.dim)]]
    BY <1>4, <1>5 DEF HeadTask, HeadFrom
  <1> QED
    BY <1>6 DEF seen

\* What a head over the past rows and the new one computes from.
LEMMA HeadOfNew ==
  ASSUME NEW z, Sized(z), NEW n \in Nat, NEW h \in HeadsOf(z)
  PROVE  HeadTask(0, h, PastAndNew(n)[0], z.heads, z)
           = [out |-> h * z.dim,
              from |-> [q |-> h * z.dim, keys |-> PastThenNew("k", "newK", n, h, z),
                        values |-> PastThenNew("v", "newV", n, h, z),
                        scored |-> InOrder(z.dim), summed |-> InOrder(z.dim)]]
  <1>1. Weigh(h * z.dim, h * z.dim, PastThenNew("k", "newK", n, h, z), PastThenNew("v", "newV", n, h, z), z)
          = HeadTask(0, h, PastAndNew(n)[0], z.heads, z)
    BY NewHead
  <1>2. ScoreColumns(z) = InOrder(z.dim) /\ SumColumns(z) = InOrder(z.dim)
    BY ColumnsInOrder DEF Sized
  <1> QED
    BY <1>1, <1>2 DEF Weigh

\* Only the last row of a run is where the appended row went.
LEMMA AppendedCells ==
  ASSUME NEW z, Sized(z), NEW n \in Nat, NEW h \in HeadsOf(z), NEW i \in 1..(n + 1)
  PROVE  /\ Base(i - 1, h, z) = (i - 1) * State(z) + h * z.dim
         /\ Base(i - 1, h, z) \div State(z) = i - 1
         /\ Base(i - 1, h, z) % State(z) = h * z.dim
         /\ i <= n => Base(i - 1, h, z) # n * State(z) + h * z.dim
         /\ ~(i <= n) => i - 1 = n
  <1>1. i - 1 \in Nat /\ (~(i <= n) => i - 1 = n) /\ (i <= n => i - 1 # n)
    OBVIOUS
  <1>2. Base(i - 1, h, z) = (i - 1) * State(z) + h * z.dim /\ Base(n, h, z) = n * State(z) + h * z.dim
    BY DEF Base
  <1>3. /\ Base(i - 1, h, z) \div State(z) = i - 1
        /\ Base(i - 1, h, z) % State(z) = h * z.dim
    <2> DEFINE row == i - 1
    <2>1. row \in Nat
      BY <1>1
    <2> HIDE DEF row
    <2>2. /\ Base(row, h, z) \div (z.heads * z.dim) = row
          /\ Base(row, h, z) % (z.heads * z.dim) = h * z.dim
      BY <2>1, BasePlace
    <2> QED
      BY <2>2 DEF row, State
  <1>4. i <= n => Base(i - 1, h, z) # Base(n, h, z)
    BY <1>1, BasesApart
  <1> QED
    BY <1>1, <1>2, <1>3, <1>4

CopiedRow(cells, new, z) == [i \in DOMAIN cells |-> CopiedIn(cells[i], new, z)]

\* After the copies, the last row of the run is the new one.
LEMMA CopiedCells ==
  ASSUME NEW z, Sized(z), NEW n \in Nat, n = z.seq, NEW h \in HeadsOf(z), NEW buffer, NEW new
  PROVE  CopiedRow(RunCells(buffer, n, h, z), new, z) = PastThenNew(buffer, new, n, h, z)
  <1> DEFINE cells == RunCells(buffer, n, h, z)
  <1>1. DOMAIN cells = 1..(n + 1) /\ \A i \in 1..(n + 1) : cells[i] = <<buffer, Base(i - 1, h, z)>>
    BY DEF RunCells
  <1> HIDE DEF cells
  <1>2. \A i \in 1..(n + 1) :
          CopiedIn(cells[i], new, z)
            = IF i <= n THEN <<buffer, (i - 1) * State(z) + h * z.dim>> ELSE <<new, h * z.dim>>
    <2> SUFFICES ASSUME NEW i \in 1..(n + 1)
                 PROVE  CopiedIn(cells[i], new, z)
                          = IF i <= n THEN <<buffer, (i - 1) * State(z) + h * z.dim>> ELSE <<new, h * z.dim>>
      OBVIOUS
    <2>1. /\ Base(i - 1, h, z) = (i - 1) * State(z) + h * z.dim
          /\ Base(i - 1, h, z) \div State(z) = i - 1
          /\ Base(i - 1, h, z) % State(z) = h * z.dim
          /\ ~(i <= n) => i - 1 = n
      BY AppendedCells
    <2>2. i <= n => i - 1 # n
      OBVIOUS
    <2> DEFINE cell == cells[i]
    <2>3. cell[1] = buffer /\ cell[2] = Base(i - 1, h, z) /\ cell = <<buffer, Base(i - 1, h, z)>>
      BY <1>1
    <2> HIDE DEF cell
    <2>4. CopiedIn(cell, new, z) = IF i <= n THEN <<buffer, (i - 1) * State(z) + h * z.dim>> ELSE <<new, h * z.dim>>
      BY <2>1, <2>2, <2>3 DEF CopiedIn
    <2> QED
      BY <2>4 DEF cell
  <1>3. [i \in DOMAIN cells |-> CopiedIn(cells[i], new, z)] = PastThenNew(buffer, new, n, h, z)
    BY <1>1, <1>2 DEF PastThenNew
  <1> QED
    BY <1>3 DEF cells, CopiedRow

\* The operation on a cache with one more row, after the copies into it.
LEMMA AfterCopiesDo ==
  ASSUME NEW z, Sized(z), NEW n \in Nat, n = z.seq, NEW tasks,
         Does(tasks, AllRows(1, n + 1), 1, z.heads, z)
  PROVE  Does(AfterCopies(tasks, z), PastAndNew(n), 1, z.heads, z)
  <1> DEFINE copied == AfterCopies(tasks, z)
  <1>1. PICK place : /\ Covers(place, DOMAIN tasks, 1, z)
                     /\ OfHeads(tasks, place, AllRows(1, n + 1), z.heads, z)
    BY DEF Does
  <1>2. DOMAIN copied = DOMAIN tasks
    BY DEF AfterCopies
  <1>3. ASSUME NEW u \in DOMAIN tasks
        PROVE  copied[u] = HeadTask(place[u][1], place[u][2], PastAndNew(n)[place[u][1]], z.heads, z)
    <2> DEFINE h == place[u][2]
               t == tasks[u]
    <2>1. place[u][1] = 0 /\ h \in HeadsOf(z)
      <3>1. place[u][1] \in 0..(1 - 1)
        BY <1>1 DEF Covers
      <3> QED
        BY <1>1, <3>1 DEF Covers
    <2>2. AllRows(1, n + 1)[0] = Visible(0, n)
      <3>1. (n + 1) - 1 = n /\ 0 \in 0..(1 - 1)
        OBVIOUS
      <3> QED
        BY <3>1 DEF AllRows
    <2>3. t = HeadTask(place[u][1], h, AllRows(1, n + 1)[place[u][1]], z.heads, z)
      BY <1>1 DEF OfHeads
    <2>4. copied[u] = [t EXCEPT !.from.keys = CopiedRow(@, "newK", z),
                                !.from.values = CopiedRow(@, "newV", z)]
      BY DEF AfterCopies, CopiedRow
    <2> HIDE DEF h, t, copied
    <2>5. t = HeadTask(0, h, Visible(0, n), z.heads, z)
      BY <2>1, <2>2, <2>3
    <2>6. t = [out |-> h * z.dim,
               from |-> [q |-> h * z.dim, keys |-> RunCells("k", n, h, z), values |-> RunCells("v", n, h, z),
                         scored |-> InOrder(z.dim), summed |-> InOrder(z.dim)]]
      BY <2>1, <2>5, HeadOfRun
    <2>7. /\ CopiedRow(RunCells("k", n, h, z), "newK", z) = PastThenNew("k", "newK", n, h, z)
          /\ CopiedRow(RunCells("v", n, h, z), "newV", z) = PastThenNew("v", "newV", n, h, z)
      BY <2>1, CopiedCells
    <2>8. copied[u] = [out |-> h * z.dim,
                       from |-> [q |-> h * z.dim, keys |-> PastThenNew("k", "newK", n, h, z),
                                 values |-> PastThenNew("v", "newV", n, h, z),
                                 scored |-> InOrder(z.dim), summed |-> InOrder(z.dim)]]
      BY ONLY <2>4, <2>6, <2>7, ZenonT(60)
    <2>9. copied[u] = HeadTask(0, h, PastAndNew(n)[0], z.heads, z)
      BY <2>1, <2>8, HeadOfNew
    <2> QED
      BY <2>1, <2>9 DEF h
  <1> HIDE DEF copied
  <1>4. Covers(place, DOMAIN copied, 1, z) /\ OfHeads(copied, place, PastAndNew(n), z.heads, z)
    BY <1>1, <1>2, <1>3 DEF OfHeads
  <1>5. Does(copied, PastAndNew(n), 1, z.heads, z)
    BY <1>4 DEF Does
  <1> QED
    BY <1>5 DEF copied

\* What tasks do is told by the sizes of the heads alone.
LEMMA SameHeads ==
  ASSUME NEW z, NEW y, y.heads = z.heads, y.dim = z.dim, NEW tasks, NEW seen, NEW rows, NEW kvHeads,
         Does(tasks, seen, rows, kvHeads, y)
  PROVE  Does(tasks, seen, rows, kvHeads, z)
  <1>1. HeadsOf(y) = HeadsOf(z) /\ State(y) = State(z)
    BY DEF HeadsOf, State
  <1>2. \A r, h : Base(r, h, y) = Base(r, h, z) /\ KvHeadOf(h, kvHeads, y) = KvHeadOf(h, kvHeads, z)
    BY <1>1 DEF Base, KvHeadOf
  <1>3. \A r, h, s : HeadTask(r, h, s, kvHeads, y) = HeadTask(r, h, s, kvHeads, z)
    BY <1>2, ZenonT(60) DEF HeadTask, HeadFrom
  <1>4. PICK place : Covers(place, DOMAIN tasks, rows, y) /\ OfHeads(tasks, place, seen, kvHeads, y)
    BY DEF Does
  <1>5. Covers(place, DOMAIN tasks, rows, z)
    BY <1>1, <1>4 DEF Covers
  <1>6. OfHeads(tasks, place, seen, kvHeads, z)
    BY <1>3, <1>4 DEF OfHeads
  <1> QED
    BY <1>5, <1>6 DEF Does

Longer(z) == [z EXCEPT !.seq = z.seq + 1]

\* With the new row only the number of rows has changed.
LEMMA LongerSizes ==
  ASSUME NEW z, Sized(z), HasSizes(z), z.seq \in Nat
  PROVE  /\ Longer(z).heads = z.heads /\ Longer(z).dim = z.dim /\ Longer(z).seq = z.seq + 1
         /\ Longer(z).len = z.len /\ Sized(Longer(z)) /\ HasSizes(Longer(z))
         /\ Longer(z).device = z.device /\ State(Longer(z)) = State(z)
  <1>1. /\ Longer(z).heads = z.heads /\ Longer(z).dim = z.dim /\ Longer(z).seq = z.seq + 1
        /\ Longer(z).len = z.len /\ Longer(z).device = z.device /\ DOMAIN Longer(z) = DOMAIN z
    BY DEF HasSizes, Longer
  <1> QED
    BY <1>1 DEF Sized, HasSizes, State

\* The same, of whatever computed it.
LEMMA CopiesThen ==
  ASSUME NEW z, Sized(z), HasSizes(z), z.seq \in Nat, NEW tasks,
         Does(tasks, AllRows(1, Longer(z).seq), 1, Longer(z).heads, Longer(z))
  PROVE  Does(AfterCopies(tasks, z), PastAndNew(z.seq), 1, z.heads, z)
  <1>1. Longer(z).heads = z.heads /\ Longer(z).dim = z.dim /\ Longer(z).seq = z.seq + 1
    BY LongerSizes
  <1>2. Does(tasks, AllRows(1, z.seq + 1), 1, z.heads, Longer(z))
    BY <1>1
  <1>3. Does(tasks, AllRows(1, z.seq + 1), 1, z.heads, z)
    BY <1>1, <1>2, SameHeads
  <1> QED
    BY <1>3, AfterCopiesDo

NewAt(cells, place, new, offset) ==
  [i \in DOMAIN cells |-> IF cells[i][2] = place THEN <<new, offset>> ELSE cells[i]]

\* The kernel that copies its slices of the new row itself.
LEMMA GpuAppendDoes ==
  ASSUME NEW z, Sized(z), HasSizes(z), z.seq \in Nat
  PROVE  Does(GpuAppend(z), PastAndNew(z.seq), 1, z.heads, z)
  <1> DEFINE tasks == GpuAppend(z)
             n == z.seq
  <1>1. DOMAIN tasks = HeadsOf(z) /\ HeadsOf(z) = Working(z.heads, AttnWg)
    <2>1. z.heads \in Nat /\ AttnWg \in Nat \ {0}
      BY GpuAttentionAssumption DEF Sized
    <2> QED
      BY <2>1, WorkingAll DEF GpuAppend, HeadsOf
  <1>2. ASSUME NEW h \in HeadsOf(z)
        PROVE  tasks[h] = HeadTask(0, h, PastAndNew(n)[0], z.heads, z)
    <2> DEFINE streams == Streamed(h * z.dim, h * z.dim, 0, n + 1, h * z.dim, z)
               place == n * State(z) + h * z.dim
    <2>1. tasks[h] = [streams EXCEPT !.from.keys = NewAt(@, place, "newK", h * z.dim),
                                !.from.values = NewAt(@, place, "newV", h * z.dim)]
      BY <1>1 DEF GpuAppend, NewAt
    <2>2. streams = HeadTask(0, h, Visible(0, n), z.heads, z)
      <3>1. Base(0, h, z) = h * z.dim
        <4>1. h * z.dim \in Nat /\ State(z) \in Nat
          BY DEF Sized, HeadsOf, State
        <4> QED
          BY <4>1 DEF Base
      <3> DEFINE m == n + 1
      <3>2. m \in Nat \ {0} /\ 0 \in Nat /\ 0 + m - 1 = n
        OBVIOUS
      <3> HIDE DEF m, n
      <3>3. Streamed(Base(0, h, z), Base(0, h, z), 0, m, h * z.dim, z)
              = HeadTask(0, h, Visible(0, 0 + m - 1), z.heads, z)
        BY <3>2, StreamedHead
      <3> QED
        BY <3>1, <3>2, <3>3 DEF m
    <2>3. streams = [out |-> h * z.dim,
                        from |-> [q |-> h * z.dim, keys |-> RunCells("k", n, h, z), values |-> RunCells("v", n, h, z),
                                  scored |-> InOrder(z.dim), summed |-> InOrder(z.dim)]]
      <3> HIDE DEF n, streams
      <3>1. n \in Nat
        BY DEF n
      <3> QED
        BY <2>2, <3>1, HeadOfRun
    <2>4. ASSUME NEW buffer, NEW new
          PROVE  NewAt(RunCells(buffer, n, h, z), place, new, h * z.dim) = PastThenNew(buffer, new, n, h, z)
      <3> DEFINE cells == RunCells(buffer, n, h, z)
      <3>1. DOMAIN cells = 1..(n + 1) /\ \A i \in 1..(n + 1) : cells[i] = <<buffer, Base(i - 1, h, z)>>
        BY DEF RunCells
      <3> HIDE DEF cells
      <3>2. \A i \in 1..(n + 1) :
              (IF cells[i][2] = place THEN <<new, h * z.dim>> ELSE cells[i])
                = IF i <= n THEN <<buffer, (i - 1) * State(z) + h * z.dim>> ELSE <<new, h * z.dim>>
        <4> SUFFICES ASSUME NEW i \in 1..(n + 1)
                     PROVE  (IF cells[i][2] = place THEN <<new, h * z.dim>> ELSE cells[i])
                              = IF i <= n THEN <<buffer, (i - 1) * State(z) + h * z.dim>> ELSE <<new, h * z.dim>>
          OBVIOUS
        <4>1. /\ Base(i - 1, h, z) = (i - 1) * State(z) + h * z.dim
              /\ i <= n => Base(i - 1, h, z) # n * State(z) + h * z.dim
              /\ ~(i <= n) => i - 1 = n
          BY AppendedCells
        <4>2. cells[i] = <<buffer, Base(i - 1, h, z)>> /\ cells[i][2] = Base(i - 1, h, z)
          BY <3>1
        <4> HIDE DEF n
        <4> QED
          BY <4>1, <4>2
      <3> HIDE DEF place
      <3>3. NewAt(cells, place, new, h * z.dim) = PastThenNew(buffer, new, n, h, z)
        BY <3>1, <3>2 DEF PastThenNew, NewAt
      <3> QED
        BY <3>3 DEF cells
    <2>5. /\ NewAt(RunCells("k", n, h, z), place, "newK", h * z.dim) = PastThenNew("k", "newK", n, h, z)
          /\ NewAt(RunCells("v", n, h, z), place, "newV", h * z.dim) = PastThenNew("v", "newV", n, h, z)
      <3> HIDE DEF place, n
      <3> QED
        BY <2>4
    <2> HIDE DEF streams, place, tasks, n
    <2>6. tasks[h] = [out |-> h * z.dim,
                      from |-> [q |-> h * z.dim, keys |-> PastThenNew("k", "newK", n, h, z),
                                values |-> PastThenNew("v", "newV", n, h, z),
                                scored |-> InOrder(z.dim), summed |-> InOrder(z.dim)]]
      BY ONLY <2>1, <2>3, <2>5, ZenonT(60)
    <2>7. n \in Nat
      BY DEF n
    <2> QED
      BY <2>6, <2>7, HeadOfNew
  <1> HIDE DEF tasks
  <1>3. Does(tasks, PastAndNew(z.seq), 1, z.heads, z)
    BY <1>1, <1>2, HeadsDo
  <1> QED
    BY <1>3 DEF tasks

\* The rows of so many blocks, counted one after the other.
BlockUnits(blocks, block, z) == (0..(blocks - 1)) \X Loop(block, z)

\* The queries of all blocks, numbered block by block.
LEMMA CoversBlocks ==
  ASSUME NEW z, NEW blocks \in Nat, NEW block \in Nat
  PROVE  Covers([u \in BlockUnits(blocks, block, z) |-> <<u[1] * block + u[2][1], u[2][2]>>],
                BlockUnits(blocks, block, z), blocks * block, z)
  <1> DEFINE units == BlockUnits(blocks, block, z)
             place == [u \in units |-> <<u[1] * block + u[2][1], u[2][2]>>]
             rows == blocks * block
  <1>1. ASSUME NEW u \in units
        PROVE  /\ u = <<u[1], <<u[2][1], u[2][2]>>>> /\ u[1] \in 0..(blocks - 1)
               /\ u[2][1] \in 0..(block - 1) /\ u[2][2] \in HeadsOf(z)
               /\ place[u][1] = u[1] * block + u[2][1] /\ place[u][2] = u[2][2]
    BY DEF BlockUnits, Loop
  <1>2. ASSUME NEW b \in 0..(blocks - 1), NEW x \in 0..(block - 1)
        PROVE  b * block + x \in 0..(rows - 1)
    <2>1. (b + 1) * block <= blocks * block
      <3>1. b + 1 \in Int /\ blocks \in Int /\ b + 1 <= blocks
        OBVIOUS
      <3> QED
        BY ONLY <3>1, block \in Nat, ProductMonotone
    <2>2. (b + 1) * block = b * block + block /\ b * block \in Nat /\ blocks * block \in Nat
      OBVIOUS
    <2> QED
      BY <2>1, <2>2
  <1> HIDE DEF place
  <1>3. ASSUME NEW u \in units
        PROVE  place[u][1] \in 0..(rows - 1) /\ place[u][2] \in HeadsOf(z)
    <2> DEFINE b == u[1]
               x == u[2][1]
    <2>1. b \in 0..(blocks - 1) /\ x \in 0..(block - 1) /\ place[u][1] = b * block + x
          /\ place[u][2] \in HeadsOf(z)
      BY <1>1
    <2> HIDE DEF b, x
    <2> QED
      BY <1>2, <2>1
  <1>4. ASSUME NEW u \in units, NEW v \in units, place[u][1] = place[v][1], place[u][2] = place[v][2]
        PROVE  u = v
    <2> DEFINE a == u[1]
               b == v[1]
               x == u[2][1]
               y == v[2][1]
    <2>1. /\ a \in Nat /\ b \in Nat /\ x \in 0..(block - 1) /\ y \in 0..(block - 1)
          /\ a * block + x = b * block + y
      BY <1>1, <1>4
    <2>2. block \in Nat \ {0}
      BY <2>1
    <2>3. u = <<a, <<x, u[2][2]>>>> /\ v = <<b, <<y, v[2][2]>>>> /\ u[2][2] = v[2][2]
      BY <1>1, <1>4
    <2> HIDE DEF a, b, x, y
    <2>4. a = b /\ x = y
      BY ONLY <2>1, <2>2, Digits
    <2> QED
      BY ONLY <2>3, <2>4
  <1>5. ASSUME NEW r \in 0..(rows - 1), NEW h \in HeadsOf(z)
        PROVE  \E u \in units : place[u][1] = r /\ place[u][2] = h
    <2>1. block \in Nat \ {0} /\ r \in Nat
      <3>1. block = 0 => rows = 0
        OBVIOUS
      <3> QED
        BY <3>1
    <2> DEFINE b == r \div block
               x == r % block
    <2>2. b * block + x = r /\ x \in 0..(block - 1) /\ b \in Nat
      BY ONLY <2>1, Remainder, Quotient
    <2> HIDE DEF b, x
    <2>3. b \in 0..(blocks - 1)
      <3>1. b * block \in Nat /\ blocks * block \in Nat /\ b * block < blocks * block
        BY <2>1, <2>2
      <3>2. b >= blocks => blocks * block <= b * block
        <4>1. b \in Int /\ blocks \in Int
          BY <2>2
        <4> QED
          BY ONLY <4>1, block \in Nat, ProductMonotone
      <3> QED
        BY <2>2, <3>1, <3>2
    <2>4. <<b, <<x, h>>>> \in units
      BY <2>2, <2>3 DEF BlockUnits, Loop
    <2> DEFINE u == <<b, <<x, h>>>>
    <2>5. u[1] = b /\ u[2][1] = x /\ u[2][2] = h /\ u \in units
      BY <2>4
    <2> HIDE DEF u, units
    <2>6. place[u][1] = r /\ place[u][2] = h
      BY <1>1, <2>2, <2>5
    <2> QED
      BY <2>5, <2>6
  <1> HIDE DEF units, rows
  <1>6. Covers(place, units, rows, z)
    BY ONLY <1>3, <1>4, <1>5 DEF Covers
  <1> QED
    BY <1>6 DEF place, units, rows

\* A row of a block, moved to where its block is.
LEMMA MovedBase ==
  ASSUME NEW z, Sized(z), NEW block \in Nat, NEW b \in Nat, NEW x \in Nat, NEW h \in HeadsOf(z)
  PROVE  b * (block * State(z)) + Base(x, h, z) = Base(b * block + x, h, z)
  <1> DEFINE w == State(z)
             o == h * z.dim
  <1>1. w \in Nat /\ o \in Nat
    BY DEF Sized, HeadsOf, State
  <1> HIDE DEF w, o
  <1>2. b * (block * w) + (x * w + o) = (b * block + x) * w + o
    BY <1>1
  <1> QED
    BY <1>2 DEF w, o, Base

Block(z, block) == [z EXCEPT !.len.out = block]
MovedRow(cells, by) == [i \in DOMAIN cells |-> <<cells[i][1], by + cells[i][2]>>]
MovedTask(t, by) ==
  [out |-> by + t.out,
   from |-> [t.from EXCEPT !.q = by + @, !.keys = MovedRow(@, by), !.values = MovedRow(@, by)]]

\* The head of a query in the first block, moved to a later one.
LEMMA MovedHead ==
  ASSUME NEW z, Sized(z), NEW block \in Nat, NEW b \in Nat, NEW x \in Nat, NEW h \in HeadsOf(z)
  PROVE  MovedTask(HeadTask(x, h, Visible(0, block - 1), z.heads, z), b * (block * State(z)))
           = HeadTask(b * block + x, h, Visible(b * block, b * block + block - 1), z.heads, z)
  <1> DEFINE by == b * (block * State(z))
             first == b * block
             seen == Visible(0, block - 1)
             moved == Visible(first, first + block - 1)
             at(i) == <<"k", Base(i - 1, h, z)>>
  <1>1. KvHeadOf(h, z.heads, z) = h /\ first \in Nat
    BY OwnKvHead
  <1>2. /\ DOMAIN seen = 1..block
        /\ \A i \in 1..block : seen[i].k = "k" /\ seen[i].v = "v" /\ seen[i].row = i - 1
    <2>1. (block - 1) - 0 + 1 = block /\ \A i \in 1..block : 0 + i - 1 = i - 1
      OBVIOUS
    <2> QED
      BY <2>1 DEF Visible
  <1>3. /\ DOMAIN moved = 1..block
        /\ \A i \in 1..block : moved[i].k = "k" /\ moved[i].v = "v" /\ moved[i].row = first + (i - 1)
    <2> HIDE DEF first
    <2>1. (first + block - 1) - first + 1 = block /\ \A i \in 1..block : first + i - 1 = first + (i - 1)
      BY <1>1
    <2> QED
      BY <2>1 DEF Visible
  <1>4. by + Base(x, h, z) = Base(first + x, h, z)
    BY MovedBase
  <1>5. ASSUME NEW i \in 1..block
        PROVE  by + ((i - 1) * z.heads + h) * z.dim = ((first + (i - 1)) * z.heads + h) * z.dim
    <2> DEFINE row == i - 1
    <2>1. row \in Nat
      OBVIOUS
    <2>2. by + Base(row, h, z) = Base(first + row, h, z)
      <3> HIDE DEF row
      <3> QED
        BY <2>1, MovedBase
    <2>3. first + row \in Nat
      BY <1>1, <2>1
    <2> HIDE DEF row, first, by
    <2>4. /\ Base(row, h, z) = (row * z.heads + h) * z.dim
          /\ Base(first + row, h, z) = ((first + row) * z.heads + h) * z.dim
      BY <2>1, <2>3, BasePlace
    <2>5. by + (row * z.heads + h) * z.dim = ((first + row) * z.heads + h) * z.dim
      BY ONLY <2>2, <2>4
    <2> QED
      BY <2>5 DEF row
  <1> HIDE DEF seen, moved, by, first
  <1> DEFINE keys == [i \in DOMAIN seen |-> <<seen[i].k, (seen[i].row * z.heads + KvHeadOf(h, z.heads, z)) * z.dim>>]
             values == [i \in DOMAIN seen |-> <<seen[i].v, (seen[i].row * z.heads + KvHeadOf(h, z.heads, z)) * z.dim>>]
             keysThen == [i \in DOMAIN moved |-> <<moved[i].k, (moved[i].row * z.heads + KvHeadOf(h, z.heads, z)) * z.dim>>]
             valuesThen == [i \in DOMAIN moved |-> <<moved[i].v, (moved[i].row * z.heads + KvHeadOf(h, z.heads, z)) * z.dim>>]
  <1>6. MovedRow(keys, by) = keysThen
    <2>1. DOMAIN keys = 1..block /\ DOMAIN keysThen = 1..block
      BY <1>2, <1>3
    <2>2. \A i \in 1..block : keys[i][1] = "k" /\ keys[i][2] = ((i - 1) * z.heads + h) * z.dim
      BY <1>1, <1>2
    <2>3. \A i \in 1..block : keysThen[i] = <<"k", ((first + (i - 1)) * z.heads + h) * z.dim>>
      BY <1>1, <1>3
    <2>4. keysThen = [i \in 1..block |-> keysThen[i]]
      BY <1>3
    <2> HIDE DEF keys, keysThen
    <2> QED
      BY <1>5, <2>1, <2>2, <2>3, <2>4 DEF MovedRow
  <1>7. MovedRow(values, by) = valuesThen
    <2>1. DOMAIN values = 1..block /\ DOMAIN valuesThen = 1..block
      BY <1>2, <1>3
    <2>2. \A i \in 1..block : values[i][1] = "v" /\ values[i][2] = ((i - 1) * z.heads + h) * z.dim
      BY <1>1, <1>2
    <2>3. \A i \in 1..block : valuesThen[i] = <<"v", ((first + (i - 1)) * z.heads + h) * z.dim>>
      BY <1>1, <1>3
    <2>4. valuesThen = [i \in 1..block |-> valuesThen[i]]
      BY <1>3
    <2> HIDE DEF values, valuesThen
    <2> QED
      BY <1>5, <2>1, <2>2, <2>3, <2>4 DEF MovedRow
  <1>8. HeadTask(x, h, seen, z.heads, z)
          = [out |-> Base(x, h, z),
             from |-> [q |-> Base(x, h, z), keys |-> keys, values |-> values,
                       scored |-> InOrder(z.dim), summed |-> InOrder(z.dim)]]
    BY DEF HeadTask, HeadFrom
  <1>9. HeadTask(first + x, h, moved, z.heads, z)
          = [out |-> Base(first + x, h, z),
             from |-> [q |-> Base(first + x, h, z), keys |-> keysThen, values |-> valuesThen,
                       scored |-> InOrder(z.dim), summed |-> InOrder(z.dim)]]
    BY DEF HeadTask, HeadFrom
  <1> HIDE DEF keys, values, keysThen, valuesThen
  <1>10. MovedTask(HeadTask(x, h, seen, z.heads, z), by) = HeadTask(first + x, h, moved, z.heads, z)
    <2> DEFINE q == Base(x, h, z)
               t == HeadTask(x, h, seen, z.heads, z)
               order == InOrder(z.dim)
    <2>1. t = [out |-> q, from |-> [q |-> q, keys |-> keys, values |-> values, scored |-> order, summed |-> order]]
      BY <1>8
    <2>2. MovedTask(t, by) = [out |-> by + t.out,
                              from |-> [t.from EXCEPT !.q = by + @, !.keys = MovedRow(@, by),
                                                      !.values = MovedRow(@, by)]]
      BY DEF MovedTask
    <2> HIDE DEF q, t, order
    <2> DEFINE to == by + q
    <2>3. MovedTask(t, by) = [out |-> to,
                              from |-> [t.from EXCEPT !.q = to, !.keys = keysThen, !.values = valuesThen]]
      BY ONLY <1>6, <1>7, <2>1, <2>2
    <2> HIDE DEF to
    <2>4. MovedTask(t, by) = [out |-> to,
                              from |-> [q |-> to, keys |-> keysThen, values |-> valuesThen,
                                        scored |-> order, summed |-> order]]
      <3> DEFINE f == t.from
                 g == [f EXCEPT !.q = to, !.keys = keysThen, !.values = valuesThen]
      <3>1. f = [q |-> q, keys |-> keys, values |-> values, scored |-> order, summed |-> order]
        BY ONLY <2>1
      <3> HIDE DEF f
      <3>2. g = [q |-> to, keys |-> keysThen, values |-> valuesThen, scored |-> order, summed |-> order]
        <4>1. g = [a \in {"q", "keys", "values", "scored", "summed"} |-> g[a]]
          BY ONLY <3>1
        <4>2. g.q = to /\ g.keys = keysThen /\ g.values = valuesThen /\ g.scored = order /\ g.summed = order
          BY ONLY <3>1
        <4> HIDE DEF g
        <4> QED
          BY ONLY <4>1, <4>2
      <3>3. MovedTask(t, by) = [out |-> to, from |-> g]
        BY ONLY <2>3 DEF f
      <3> HIDE DEF g
      <3> QED
        BY ONLY <3>2, <3>3
    <2>5. to = Base(first + x, h, z)
      BY <1>4 DEF to, q
    <2> QED
      BY <1>9, <2>4, <2>5 DEF t, order
  <1> QED
    BY <1>10 DEF seen, moved, by, first

\* A row's block, of a row counted from the first block on.
LEMMA BlockOfRow ==
  ASSUME NEW block \in Nat \ {0}, NEW b \in Nat, NEW x \in 0..(block - 1), NEW rows,
         b * block + x \in 0..(rows - 1)
  PROVE  RowsOfBlock(rows, block)[b * block + x] = Visible(b * block, b * block + block - 1)
  <1> DEFINE r == b * block + x
             first == b * block
  <1>1. r % block = x /\ first \in Nat /\ x \in Int
    BY ONLY block \in Nat \ {0}, b \in Nat, x \in 0..(block - 1), QuotientOf
  <1>2. r - (r % block) = first
    <2>1. r = first + x
      OBVIOUS
    <2> HIDE DEF first
    <2>2. (first + x) - x = first
      BY ONLY <1>1
    <2> HIDE DEF r
    <2> QED
      BY ONLY <1>1, <2>1, <2>2
  <1>3. RowsOfBlock(rows, block)[r] = Visible(r - (r % block), r - (r % block) + block - 1)
    BY DEF RowsOfBlock
  <1> HIDE DEF r, first
  <1>4. RowsOfBlock(rows, block)[r] = Visible(first, first + block - 1)
    BY <1>2, <1>3
  <1> QED
    BY <1>4 DEF r, first

\* Stacked sequences on the host, encoded one after the other.
LEMMA HostBatchedDoes ==
  ASSUME NEW z, Sized(z), HasSizes(z), z.batch \in Nat, z.seq \in Nat
  PROVE  Does(HostBatched(z), RowsOfBlock(z.batch * z.seq, z.seq), z.batch * z.seq, z.heads, z)
  <1> DEFINE block == z.seq
             cells == block * State(z)
             y == Block(z, cells)
             one == EncoderScalar(y)
             tasks == HostBatched(z)
             units == BlockUnits(z.batch, block, z)
             rows == z.batch * block
             place == [u \in units |-> <<u[1] * block + u[2][1], u[2][2]>>]
  <1>1. /\ y.heads = z.heads /\ y.dim = z.dim /\ y.seq = block /\ HasSizes(y)
        /\ State(y) = State(z) /\ HeadsOf(y) = HeadsOf(z)
    <2>1. y.heads = z.heads /\ y.dim = z.dim /\ y.seq = block /\ DOMAIN y = DOMAIN z
      BY DEF HasSizes, Block
    <2> HIDE DEF y
    <2> QED
      BY <2>1 DEF HasSizes, State, HeadsOf
  <1>2. DOMAIN one = Loop(block, z)
    BY <1>1 DEF EncoderScalar, Loop
  <1>3. ASSUME NEW v \in Loop(block, z)
        PROVE  one[v] = HeadTask(v[1], v[2], Visible(0, block - 1), z.heads, z)
    <2>1. v[1] \in 0..(block - 1) /\ v[1] \in Nat /\ v[2] \in HeadsOf(z) /\ block \in Nat
      BY DEF Loop
    <2>2. v \in Loop(y.seq, y)
      BY <1>1 DEF Loop
    <2>3. one[v] = OverRows(v[1] * State(y) + v[2] * y.dim, v[1] * State(y) + v[2] * y.dim,
                            y.seq, v[2] * y.dim, Scalar(y))
      BY <2>2 DEF EncoderScalar
    <2> HIDE DEF one, y, block
    <2>4. one[v] = OverRows(Base(v[1], v[2], z), Base(v[1], v[2], z), block, v[2] * z.dim, Scalar(y))
      BY <1>1, <2>3 DEF Base
    <2>5. Scalar(y).dim = z.dim /\ Scalar(y).heads = z.heads
      BY <1>1, ScalarSizes
    <2> QED
      BY <2>1, <2>4, <2>5, OverRowsHead
  <1>4. DOMAIN tasks = units
    BY <1>2 DEF HostBatched, BlockUnits, Block
  <1>5. ASSUME NEW u \in units
        PROVE  /\ u[1] \in 0..(z.batch - 1) /\ u[2] \in Loop(block, z)
               /\ u[2][1] \in 0..(block - 1) /\ u[2][2] \in HeadsOf(z)
    BY DEF BlockUnits, Loop
  <1>6. ASSUME NEW u \in units
        PROVE  tasks[u] = MovedTask(one[u[2]], u[1] * cells)
    <2>1. u \in (0..(z.batch - 1)) \X DOMAIN one
      BY <1>2 DEF BlockUnits
    <2>2. tasks[u] =
            LET t == one[u[2]]
            IN  [out |-> u[1] * cells + t.out,
                 from |-> [t.from EXCEPT
                             !.q = u[1] * cells + @,
                             !.keys = [i \in DOMAIN @ |-> <<@[i][1], u[1] * cells + @[i][2]>>],
                             !.values = [i \in DOMAIN @ |-> <<@[i][1], u[1] * cells + @[i][2]>>]]]
      BY <2>1 DEF HostBatched, Block
    <2> HIDE DEF tasks, one, cells
    <2> QED
      BY <2>2 DEF MovedTask, MovedRow
  <1>7. Covers(place, units, rows, z)
    <2> HIDE DEF block
    <2>1. block \in Nat
      BY DEF block
    <2> QED
      BY <2>1, CoversBlocks
  <1>8. ASSUME NEW u \in units
        PROVE  tasks[u] = HeadTask(place[u][1], place[u][2], RowsOfBlock(rows, block)[place[u][1]], z.heads, z)
    <2> DEFINE b == u[1]
               x == u[2][1]
               h == u[2][2]
    <2>1. b \in Nat /\ x \in 0..(block - 1) /\ x \in Nat /\ h \in HeadsOf(z) /\ u[2] \in Loop(block, z)
      BY <1>5
    <2>2. place[u][1] = b * block + x /\ place[u][2] = h
      OBVIOUS
    <2>3. b * block + x \in 0..(rows - 1)
      BY <1>7, <2>2 DEF Covers
    <2>4. tasks[u] = MovedTask(HeadTask(x, h, Visible(0, block - 1), z.heads, z), b * (block * State(z)))
      <3>1. tasks[u] = MovedTask(one[u[2]], b * cells)
        BY <1>6
      <3>2. one[u[2]] = HeadTask(x, h, Visible(0, block - 1), z.heads, z)
        BY <1>3, <2>1
      <3> HIDE DEF tasks, one, b, x, h
      <3> QED
        BY <3>1, <3>2
    <2>5. block \in Nat \ {0} /\ block \in Nat
      BY <2>1
    <2> HIDE DEF b, x, h, block, tasks, rows, place
    <2>6. tasks[u] = HeadTask(b * block + x, h, Visible(b * block, b * block + block - 1), z.heads, z)
      BY <2>1, <2>4, <2>5, MovedHead
    <2>7. RowsOfBlock(rows, block)[b * block + x] = Visible(b * block, b * block + block - 1)
      BY <2>1, <2>3, <2>5, BlockOfRow
    <2> QED
      BY <2>2, <2>6, <2>7
  <1> HIDE DEF tasks, place, rows, block
  <1>9. Does(tasks, RowsOfBlock(rows, block), rows, z.heads, z)
    BY <1>4, <1>7, <1>8 DEF Does, OfHeads
  <1> QED
    BY <1>9 DEF tasks, rows, block

-----------------------------------------------------------------------------
(***************************************************************************)
(* Attention: every operation that accepts a call does what it promises.   *)
(***************************************************************************)

\* What the arguments of a call are, for these proofs
Counted(z) ==
  /\ HasSizes(z)
  /\ z.heads \in Nat /\ z.kvHeads \in Nat /\ z.dim \in Nat /\ z.seq \in Nat /\ z.kvSeq \in Nat
  /\ z.capacity \in Nat /\ z.window \in Nat /\ z.batch \in Nat /\ z.threads \in Nat
  /\ \A b \in WithNew : z.len[b] \in Nat

\* The arguments that a caller can pass are counted.
LEMMA ArgsCounted ==
  ASSUME NEW z \in AttentionArgs
  PROVE  Counted(z)
  <1>1. MaxUsize \in Nat
    BY BuffersAssumption
  <1>2. \A n \in 0..MaxUsize : n \in Nat
    BY <1>1
  <1>3. \A b \in WithNew : z.len[b] \in 0..MaxUsize
    BY DEF AttentionArgs, Lengths
  <1>4. HasSizes(z)
    BY DEF AttentionArgs, HasSizes
  <1> QED
    BY <1>2, <1>3, <1>4 DEF AttentionArgs, Counted

\* So is each length.
LEMMA LengthsCounted ==
  ASSUME NEW z, Counted(z)
  PROVE  /\ z.len.q \in Nat /\ z.len.k \in Nat /\ z.len.v \in Nat /\ z.len.out \in Nat
         /\ z.len.newK \in Nat /\ z.len.newV \in Nat
  BY DEF Counted, WithNew, QKVOut

\* Heads over runs of rows that are in the caches, of as many heads as there
\* are of queries.
LEMMA OwnHeadsExact ==
  ASSUME NEW z, Sized(z), Counted(z), NEW rows \in Nat, NEW keyRows \in Nat, NEW seen,
         NEW tasks, NEW promised,
         Does(tasks, seen, rows, z.heads, z), Promises(promised, seen, rows, z.heads, z),
         SeesRuns(seen, rows, keyRows),
         z.len.out = rows * State(z), rows * State(z) <= z.len.q,
         keyRows * State(z) <= z.len.k, keyRows * State(z) <= z.len.v
  PROVE  Exactly(tasks, promised, z)
  <1>1. z.heads \in Nat \ {0} /\ z.heads % z.heads = 0
    <2>1. z.heads \in Nat \ {0}
      BY DEF Sized
    <2>2. 0 \in HeadsOf(z)
      BY <2>1 DEF HeadsOf
    <2> QED
      BY <2>1, <2>2, OwnKvHead
  <1>2. z.len.q \in Nat /\ z.len.k \in Nat /\ z.len.v \in Nat
    BY LengthsCounted
  <1>3. Within(seen, rows, z.heads, z)
    BY <1>1, <1>2, RunsWithin DEF State
  <1> QED
    BY <1>1, <1>2, <1>3, HeadsExact

\* The same of grouped heads.
LEMMA GroupedHeadsExact ==
  ASSUME NEW z, Sized(z), Counted(z), Grouping(z), NEW rows \in Nat, NEW keyRows \in Nat, NEW seen,
         NEW tasks, NEW promised,
         Does(tasks, seen, rows, z.kvHeads, z), Promises(promised, seen, rows, z.kvHeads, z),
         SeesRuns(seen, rows, keyRows),
         z.len.out = rows * State(z), z.len.q = rows * State(z),
         z.len.k = keyRows * (z.kvHeads * z.dim), z.len.v = keyRows * (z.kvHeads * z.dim)
  PROVE  Exactly(tasks, promised, z)
  <1>1. z.len.q \in Nat /\ z.len.k \in Nat /\ z.len.v \in Nat
    BY LengthsCounted
  <1>2. z.kvHeads \in Nat \ {0} /\ z.heads % z.kvHeads = 0
    BY DEF Grouping
  <1>3. Within(seen, rows, z.kvHeads, z)
    <2>1. keyRows * (z.kvHeads * z.dim) <= z.len.k /\ keyRows * (z.kvHeads * z.dim) <= z.len.v
      BY <1>1
    <2> QED
      BY <1>1, <1>2, <2>1, RunsWithin
  <1>4. rows * State(z) <= z.len.q
    BY <1>1
  <1> QED
    BY <1>1, <1>2, <1>3, <1>4, HeadsExact

\* Sizes that pass the first checks are not 0.
LEMMA DimsSized ==
  ASSUME NEW z, Counted(z), Dims(z)
  PROVE  Sized(z) /\ State(z) \in Nat
  <1>1. z.heads \in Nat /\ z.dim \in Nat /\ z.heads > 0 /\ z.dim > 0
    BY DEF Counted, Dims
  <1>2. z.heads * z.dim \in Nat
    BY <1>1
  <1> QED
    BY <1>1, <1>2 DEF Sized, State

\* A length that is a checked product is the product.
LEMMA LengthIs ==
  ASSUME NEW n \in Nat, NEW m \in Nat, NEW w \in Nat, n = Product(m, w)
  PROVE  n = m * w
  BY CheckedProduct

\* Each way to encode a sequence does what is promised.
LEMMA EncoderExact ==
  ASSUME NEW z, Counted(z), ValidEncoder(z), NEW tasks,
         tasks \in {EncoderScalar(z), CpuEncoder(z), GpuEncoder(z)}
  PROVE  Exactly(tasks, PromisedEncoder(z), z)
  <1>1. Sized(z) /\ State(z) \in Nat /\ HasSizes(z) /\ z.seq \in Nat /\ z.threads \in Nat
    BY DimsSized DEF ValidEncoder, Counted
  <1>2. z.len.q = Product(z.seq, State(z)) /\ z.len.k = Product(z.seq, State(z))
        /\ z.len.v = Product(z.seq, State(z)) /\ z.len.out = Product(z.seq, State(z))
    BY DEF ValidEncoder
  <1>3. z.len.q = z.seq * State(z) /\ z.len.k = z.seq * State(z)
        /\ z.len.v = z.seq * State(z) /\ z.len.out = z.seq * State(z)
    BY ONLY <1>1, <1>2, Counted(z), LengthsCounted, LengthIs
  <1>4. Does(tasks, AllRows(z.seq, z.seq), z.seq, z.heads, z)
    <2>1. CASE tasks = EncoderScalar(z)
      BY <1>1, <2>1, EncoderScalarDoes
    <2>2. CASE tasks = GpuEncoder(z)
      BY <1>1, <2>2, GpuEncoderDoes
    <2>3. CASE tasks = CpuEncoder(z) /\ tasks # EncoderScalar(z)
      <3>1. tasks = EncoderParallel(z) /\ z.threads > 1
        BY <2>3 DEF CpuEncoder, PoolTakes
      <3>2. z.threads \in Nat \ {0}
        BY <1>1, <3>1
      <3> QED
        BY <1>1, <1>3, <3>1, <3>2, EncoderParallelDoes
    <2> QED
      BY <2>1, <2>2, <2>3
  <1>5. SeesRuns(AllRows(z.seq, z.seq), z.seq, z.seq)
    <2>1. z.seq <= z.seq
      BY <1>1
    <2> QED
      BY <1>1, <2>1, SeesAll
  <1>6. Promises(PromisedEncoder(z), AllRows(z.seq, z.seq), z.seq, z.heads, z)
    BY <1>1, PromisedEncoderIs
  <1>7. z.seq * State(z) <= z.len.q /\ z.seq * State(z) <= z.len.k /\ z.seq * State(z) <= z.len.v
    <2>1. z.seq * State(z) \in Nat
      BY <1>1
    <2> QED
      BY <1>3, <2>1
  <1> QED
    BY <1>1, <1>3, <1>4, <1>5, <1>6, <1>7, OwnHeadsExact

\* So does each way to attend to the rows so far.
LEMMA CausalExact ==
  ASSUME NEW z, Counted(z), ValidCausal(z), NEW tasks, tasks \in {CausalScalar(z), GpuCausal(z)}
  PROVE  Exactly(tasks, PromisedCausal(z), z)
  <1>1. Sized(z) /\ State(z) \in Nat /\ HasSizes(z) /\ z.seq \in Nat
    BY DimsSized DEF ValidCausal, Counted
  <1>2. z.len.q = Product(z.seq, State(z)) /\ z.len.k = Product(z.seq, State(z))
        /\ z.len.v = Product(z.seq, State(z)) /\ z.len.out = Product(z.seq, State(z))
    BY DEF ValidCausal
  <1>3. z.len.q = z.seq * State(z) /\ z.len.k = z.seq * State(z)
        /\ z.len.v = z.seq * State(z) /\ z.len.out = z.seq * State(z)
    BY ONLY <1>1, <1>2, Counted(z), LengthsCounted, LengthIs
  <1>4. Does(tasks, RowsSoFar(z.seq), z.seq, z.heads, z)
    BY <1>1, CausalScalarDoes, GpuCausalDoes
  <1>5. SeesRuns(RowsSoFar(z.seq), z.seq, z.seq)
    <2>1. z.seq <= z.seq
      BY <1>1
    <2> QED
      BY <1>1, <2>1, SeesSoFar
  <1>6. Promises(PromisedCausal(z), RowsSoFar(z.seq), z.seq, z.heads, z)
    BY <1>1, PromisedCausalIs
  <1>7. z.seq * State(z) <= z.len.q /\ z.seq * State(z) <= z.len.k /\ z.seq * State(z) <= z.len.v
    <2>1. z.seq * State(z) \in Nat
      BY <1>1
    <2> QED
      BY <1>3, <2>1
  <1> QED
    BY <1>1, <1>3, <1>4, <1>5, <1>6, <1>7, OwnHeadsExact

\* A GPU has nothing to seed a unit's sum with when there is no key.
LEMMA CrossExact ==
  ASSUME NEW z, Counted(z), ValidCross(z), NEW tasks,
         \/ tasks \in {CrossScalar(z), CpuCross(z)}
         \/ tasks = GpuCross(z) /\ z.kvSeq # 0
  PROVE  Exactly(tasks, PromisedCross(z), z)
  <1>1. Sized(z) /\ State(z) \in Nat /\ HasSizes(z) /\ z.seq \in Nat /\ z.kvSeq \in Nat
    BY DimsSized DEF ValidCross, Counted
  <1>2. z.len.q = Product(z.seq, State(z)) /\ z.len.out = Product(z.seq, State(z))
        /\ z.len.k = Product(z.kvSeq, State(z)) /\ z.len.v = Product(z.kvSeq, State(z))
    BY DEF ValidCross
  <1>3. z.len.q = z.seq * State(z) /\ z.len.out = z.seq * State(z)
        /\ z.len.k = z.kvSeq * State(z) /\ z.len.v = z.kvSeq * State(z)
    BY ONLY <1>1, <1>2, Counted(z), LengthsCounted, LengthIs
  <1>4. Does(tasks, AllRows(z.seq, z.kvSeq), z.seq, z.heads, z)
    <2>1. CASE tasks = CrossScalar(z) \/ tasks = CrossHost(z)
      BY <1>1, <2>1, CrossHostDoes
    <2>2. CASE tasks = CrossParallel(z)
      BY <1>1, <1>3, <2>2, CrossParallelDoes
    <2>3. CASE tasks = GpuCross(z) /\ z.kvSeq # 0
      <3>1. z.kvSeq \in Nat \ {0}
        BY <1>1, <2>3
      <3> QED
        BY <1>1, <2>3, <3>1, GpuCrossDoes
    <2>4. CpuCross(z) = CrossParallel(z) \/ CpuCross(z) = CrossHost(z)
      BY DEF CpuCross
    <2> QED
      BY <2>1, <2>2, <2>3, <2>4
  <1>5. SeesRuns(AllRows(z.seq, z.kvSeq), z.seq, z.kvSeq)
    <2>1. z.kvSeq <= z.kvSeq
      BY <1>1
    <2> QED
      BY <1>1, <2>1, SeesAll
  <1>6. Promises(PromisedCross(z), AllRows(z.seq, z.kvSeq), z.seq, z.heads, z)
    BY <1>1, PromisedCrossIs
  <1>7. z.seq * State(z) <= z.len.q /\ z.kvSeq * State(z) <= z.len.k /\ z.kvSeq * State(z) <= z.len.v
    <2>1. z.seq * State(z) \in Nat /\ z.kvSeq * State(z) \in Nat
      BY <1>1
    <2> QED
      BY <1>3, <2>1
  <1> QED
    BY <1>1, <1>3, <1>4, <1>5, <1>6, <1>7, OwnHeadsExact

\* The query has one row, and the cache as many as it can hold.
LEMMA CacheLengths ==
  ASSUME NEW z, Counted(z), ValidCache(z)
  PROVE  /\ Sized(z) /\ State(z) \in Nat /\ HasSizes(z) /\ z.seq \in Nat \ {0} /\ z.seq <= z.capacity
         /\ z.len.out = State(z) /\ z.len.q = State(z)
         /\ z.len.k = z.capacity * State(z) /\ z.len.v = z.capacity * State(z)
  <1>1. Sized(z) /\ State(z) \in Nat /\ HasSizes(z) /\ z.seq \in Nat /\ z.capacity \in Nat
    BY DimsSized DEF ValidCache, Counted
  <1>2. /\ z.seq > 0 /\ z.seq <= z.capacity /\ z.len.q = State(z) /\ z.len.out = State(z)
        /\ z.len.k = Product(z.capacity, State(z)) /\ z.len.v = Product(z.capacity, State(z))
    BY DEF ValidCache
  <1>3. z.len.k = z.capacity * State(z) /\ z.len.v = z.capacity * State(z)
    BY ONLY <1>1, <1>2, Counted(z), LengthsCounted, LengthIs
  <1> QED
    BY <1>1, <1>2, <1>3

\* What each backend computes of a cache, whether its call is part of another.
CacheTasks(z) == {CacheScalar(z), CpuCache(z), GpuCache(z)}
\* Each way to attend to a cache takes its visible rows.
LEMMA CacheDoes ==
  ASSUME NEW z, Sized(z), HasSizes(z), z.seq \in Nat \ {0}, z.len.out = State(z),
         NEW tasks \in CacheTasks(z)
  PROVE  Does(tasks, AllRows(1, z.seq), 1, z.heads, z)
  <1>1. CASE tasks = CacheScalar(z) \/ tasks = CacheHost(z)
    BY <1>1, CacheHostDoes
  <1>2. CASE tasks = CacheParallel(z)
    BY <1>2, CacheParallelDoes
  <1>3. CASE tasks = GpuCache(z)
    BY <1>3, GpuCacheDoes
  <1>4. CpuCache(z) = CacheParallel(z) \/ CpuCache(z) = CacheHost(z)
    BY DEF CpuCache
  <1> QED
    BY <1>1, <1>2, <1>3, <1>4 DEF CacheTasks

\* Each operation on a cache does what is promised.
LEMMA CacheExact ==
  ASSUME NEW z, Counted(z), ValidCache(z), NEW tasks \in CacheTasks(z)
  PROVE  Exactly(tasks, PromisedCache(z), z)
  <1>1. /\ Sized(z) /\ State(z) \in Nat /\ HasSizes(z) /\ z.seq \in Nat \ {0} /\ z.seq <= z.capacity
        /\ z.len.out = State(z) /\ z.len.q = State(z)
        /\ z.len.k = z.capacity * State(z) /\ z.len.v = z.capacity * State(z)
        /\ z.capacity \in Nat
    BY CacheLengths DEF Counted
  <1>2. Does(tasks, AllRows(1, z.seq), 1, z.heads, z)
    BY <1>1, CacheDoes
  <1>3. SeesRuns(AllRows(1, z.seq), 1, z.capacity)
    BY <1>1, SeesAll
  <1>4. Promises(PromisedCache(z), AllRows(1, z.seq), 1, z.heads, z)
    BY <1>1, PromisedCacheIs
  <1>5. /\ z.len.out = 1 * State(z) /\ 1 * State(z) <= z.len.q
        /\ z.capacity * State(z) <= z.len.k /\ z.capacity * State(z) <= z.len.v
    <2>1. 1 * State(z) = State(z) /\ z.capacity * State(z) \in Nat
      BY <1>1
    <2> QED
      BY <1>1, <2>1
  <1> QED
    BY <1>1, <1>2, <1>3, <1>4, <1>5, OwnHeadsExact

\* A query over the rows of a cache and then the new one.
LEMMA NewHeadsExact ==
  ASSUME NEW z, Sized(z), Counted(z), NEW keyRows \in Nat, z.seq <= keyRows, NEW tasks, NEW promised,
         Does(tasks, PastAndNew(z.seq), 1, z.heads, z),
         promised = PromisedAppend(z),
         z.len.out = State(z), z.len.q = State(z), z.len.newK = State(z), z.len.newV = State(z),
         z.len.k = keyRows * State(z), z.len.v = keyRows * State(z)
  PROVE  Exactly(tasks, promised, z)
  <1>1. z.heads \in Nat \ {0} /\ z.heads % z.heads = 0
    <2>1. z.heads \in Nat \ {0}
      BY DEF Sized
    <2>2. 0 \in HeadsOf(z)
      BY <2>1 DEF HeadsOf
    <2> QED
      BY <2>1, <2>2, OwnKvHead
  <1>2. z.seq \in Nat /\ State(z) \in Nat /\ z.len.q \in Nat
    BY LengthsCounted DEF Counted
  <1>3. Within(PastAndNew(z.seq), 1, z.heads, z)
    BY <1>2, NewWithin DEF State
  <1>4. Promises(promised, PastAndNew(z.seq), 1, z.heads, z)
    BY PromisedAppendIs
  <1>5. z.len.out = 1 * State(z) /\ 1 * State(z) <= z.len.q
    BY <1>2
  <1> QED
    BY <1>1, <1>2, <1>3, <1>4, <1>5, HeadsExact

\* Each incremental operation does what is promised.
LEMMA IncrementalExact ==
  ASSUME NEW z, Counted(z), ValidIncremental(z), NEW tasks, tasks \in {IncrementalScalar(z), GpuIncremental(z)}
  PROVE  Exactly(tasks, PromisedAppend(z), z)
  <1>1. Sized(z) /\ State(z) \in Nat /\ HasSizes(z) /\ z.seq \in Nat /\ z.seq <= z.seq
    BY DimsSized DEF ValidIncremental, Counted
  <1>2. /\ z.len.q = State(z) /\ z.len.newK = State(z) /\ z.len.newV = State(z) /\ z.len.out = State(z)
        /\ z.len.k = Product(z.seq, State(z)) /\ z.len.v = Product(z.seq, State(z))
    BY DEF ValidIncremental
  <1>3. z.len.k = z.seq * State(z) /\ z.len.v = z.seq * State(z)
    BY ONLY <1>1, <1>2, Counted(z), LengthsCounted, LengthIs
  <1>4. Does(tasks, PastAndNew(z.seq), 1, z.heads, z)
    BY <1>1, IncrementalScalarDoes, GpuIncrementalDoes
  <1> QED
    BY <1>1, <1>2, <1>3, <1>4, NewHeadsExact

\* With the new row the cache has one more, and still room for it.
LEMMA LongerCounted ==
  ASSUME NEW z, Counted(z)
  PROVE  Counted(Longer(z))
  <1>1. HasSizes(z) /\ z.seq \in Nat
    BY DEF Counted
  <1>2. \A field \in DOMAIN z \ {"seq"} : Longer(z)[field] = z[field]
    BY DEF Longer
  <1>3. Longer(z).seq = z.seq + 1 /\ DOMAIN Longer(z) = DOMAIN z
    BY <1>1 DEF Longer, HasSizes
  <1>4. /\ Longer(z).heads = z.heads /\ Longer(z).kvHeads = z.kvHeads /\ Longer(z).dim = z.dim
        /\ Longer(z).kvSeq = z.kvSeq /\ Longer(z).capacity = z.capacity
        /\ Longer(z).window = z.window /\ Longer(z).batch = z.batch /\ Longer(z).threads = z.threads
        /\ Longer(z).len = z.len
    BY DEF Longer
  <1> QED
    BY <1>1, <1>3, <1>4 DEF Counted, HasSizes

\* After the copies, the operation on the cache takes the past and the new row.
LEMMA AppendDoes ==
  ASSUME NEW z, Counted(z), ValidAppend(z), NEW tasks \in CacheTasks(Longer(z))
  PROVE  Does(AfterCopies(tasks, z), PastAndNew(z.seq), 1, z.heads, z)
  <1> DEFINE y == Longer(z)
  <1>1. ValidCache(y)
    BY DEF ValidAppend, Longer
  <1>2. Counted(y)
    BY LongerCounted
  <1> HIDE DEF y
  <1>3. Sized(y) /\ HasSizes(y) /\ y.seq \in Nat \ {0} /\ y.len.out = State(y)
    BY <1>1, <1>2, CacheLengths
  <1>4. tasks \in CacheTasks(y)
    BY DEF y
  <1>5. Does(tasks, AllRows(1, y.seq), 1, y.heads, y)
    BY <1>3, <1>4, CacheDoes
  <1>6. HasSizes(z) /\ z.seq \in Nat
    BY DEF Counted
  <1>7. Sized(z)
    <2>1. y.heads = z.heads /\ y.dim = z.dim
      BY DEF y, Longer
    <2> QED
      BY <1>3, <2>1 DEF Sized
  <1> QED
    BY <1>5, <1>6, <1>7, CopiesThen DEF y

\* What the checks of an appending operation leave.
LEMMA AppendLengths ==
  ASSUME NEW z, Counted(z), ValidAppend(z)
  PROVE  /\ Sized(z) /\ State(z) \in Nat /\ HasSizes(z) /\ z.seq \in Nat /\ z.seq <= z.capacity
         /\ z.len.out = State(z) /\ z.len.q = State(z)
         /\ z.len.newK = State(z) /\ z.len.newV = State(z)
         /\ z.len.k = z.capacity * State(z) /\ z.len.v = z.capacity * State(z)
  <1> DEFINE y == Longer(z)
  <1>1. ValidCache(y) /\ z.len.newK = State(z) /\ z.len.newV = State(z) /\ z.seq < z.capacity
    BY DEF ValidAppend, Longer
  <1>2. y.heads = z.heads /\ y.dim = z.dim /\ y.capacity = z.capacity /\ y.len = z.len
    BY DEF Longer
  <1>3. Counted(y) /\ HasSizes(z) /\ z.seq \in Nat /\ z.capacity \in Nat
    BY LongerCounted DEF Counted
  <1> HIDE DEF y
  <1>4. /\ Sized(y) /\ State(y) \in Nat /\ y.len.out = State(y) /\ y.len.q = State(y)
        /\ y.len.k = y.capacity * State(y) /\ y.len.v = y.capacity * State(y)
    BY <1>1, <1>3, CacheLengths
  <1>5. Sized(z) /\ State(y) = State(z)
    BY <1>2, <1>4 DEF Sized, State
  <1>6. z.seq <= z.capacity
    BY <1>1, <1>3
  <1> QED
    BY <1>1, <1>2, <1>3, <1>4, <1>5, <1>6

\* Each operation that appends does what is promised.
LEMMA AppendExact ==
  ASSUME NEW z, Counted(z), ValidAppend(z), NEW tasks,
         \/ tasks = GpuAppend(z)
         \/ \E cached \in CacheTasks(Longer(z)) : tasks = AfterCopies(cached, z)
  PROVE  Exactly(tasks, PromisedAppend(z), z)
  <1>1. /\ Sized(z) /\ State(z) \in Nat /\ HasSizes(z) /\ z.seq \in Nat /\ z.seq <= z.capacity
        /\ z.len.out = State(z) /\ z.len.q = State(z)
        /\ z.len.newK = State(z) /\ z.len.newV = State(z)
        /\ z.len.k = z.capacity * State(z) /\ z.len.v = z.capacity * State(z)
        /\ z.capacity \in Nat
    BY AppendLengths DEF Counted
  <1>2. Does(tasks, PastAndNew(z.seq), 1, z.heads, z)
    BY <1>1, GpuAppendDoes, AppendDoes
  <1> QED
    BY <1>1, <1>2, NewHeadsExact

\* The rows of the stacked sequences are told apart by their number alone.
LEMMA BatchedExact ==
  ASSUME NEW z, Counted(z), Sized(z), NEW tasks, tasks \in {HostBatched(z), GpuBatched(z)},
         z.len.out = z.batch * z.seq * State(z),
         \A b \in {"q", "k", "v"} : z.len[b] >= z.batch * z.seq * State(z)
  PROVE  Exactly(tasks, PromisedBatched(z), z)
  <1> DEFINE rows == z.batch * z.seq
             seen == RowsOfBlock(rows, z.seq)
  <1>1. /\ HasSizes(z) /\ z.batch \in Nat /\ z.seq \in Nat /\ State(z) \in Nat /\ rows \in Nat
        /\ z.len.q \in Nat /\ z.len.k \in Nat /\ z.len.v \in Nat
    <2>1. z.heads * z.dim \in Nat /\ z.batch \in Nat /\ z.seq \in Nat
      BY DEF Counted, Sized
    <2>2. z.batch * z.seq \in Nat
      BY <2>1
    <2> QED
      BY <2>1, <2>2, LengthsCounted DEF Counted, State
  <1>2. Does(tasks, seen, rows, z.heads, z)
    BY <1>1, HostBatchedDoes, GpuBatchedDoes
  <1>3. Promises(PromisedBatched(z), seen, rows, z.heads, z)
    BY <1>1, PromisedBatchedIs
  <1>4. SeesRuns(seen, rows, rows)
    <2>1. CASE z.seq # 0
      BY <1>1, <2>1, SeesBlock
    <2>2. CASE z.seq = 0
      <3>1. rows = 0
        BY <1>1, <2>2
      <3>2. 0..(rows - 1) = {}
        BY <3>1
      <3> HIDE DEF rows, seen
      <3> QED
        BY <3>2 DEF SeesRuns
    <2> QED
      BY <2>1, <2>2
  <1>5. /\ z.len.out = rows * State(z) /\ rows * State(z) <= z.len.q
        /\ rows * State(z) <= z.len.k /\ rows * State(z) <= z.len.v
    <2>1. rows * State(z) \in Nat
      BY <1>1
    <2> QED
      BY <1>1, <2>1
  <1> HIDE DEF rows, seen
  <1> QED
    BY <1>1, <1>2, <1>3, <1>4, <1>5, OwnHeadsExact

\* What the checks of grouped heads leave.
LEMMA SdpaLengths ==
  ASSUME NEW z, Counted(z), 0 \notin {z.dim, z.seq, z.heads, z.kvHeads}, z.heads % z.kvHeads = 0
  PROVE  /\ Sized(z) /\ Grouping(z) /\ HasSizes(z) /\ z.seq \in Nat /\ State(z) \in Nat
         /\ z.seq * z.heads * z.dim = z.seq * State(z)
         /\ z.seq * z.kvHeads * z.dim = z.seq * (z.kvHeads * z.dim)
         /\ z.heads * z.dim = 1 * State(z)
  <1>1. /\ z.heads \in Nat \ {0} /\ z.dim \in Nat \ {0} /\ z.kvHeads \in Nat \ {0} /\ z.seq \in Nat
        /\ HasSizes(z)
    BY DEF Counted
  <1>2. /\ z.seq * z.heads * z.dim = z.seq * (z.heads * z.dim)
        /\ z.seq * z.kvHeads * z.dim = z.seq * (z.kvHeads * z.dim)
    BY <1>1
  <1>3. z.heads * z.dim \in Nat
    BY <1>1
  <1> QED
    BY <1>1, <1>2, <1>3 DEF Sized, Grouping, State

\* The operations whose rows are those of the queries.
LEMMA SdpaExact ==
  ASSUME NEW z, Counted(z), ValidSdpa(z), NEW tasks
  PROVE  /\ tasks \in {Sdpa(z), SdpaWithScale(z)} => Exactly(tasks, PromisedSdpa(z), z)
         /\ tasks \in {SdpaWindowed(z), SdpaWindowedWithScale(z)} => Exactly(tasks, PromisedWindowed(z), z)
         /\ tasks = Bidirectional(z) => Exactly(tasks, PromisedBoth(z), z)
  <1>1. /\ Sized(z) /\ Grouping(z) /\ HasSizes(z) /\ z.seq \in Nat /\ State(z) \in Nat
        /\ z.seq * z.heads * z.dim = z.seq * State(z)
        /\ z.seq * z.kvHeads * z.dim = z.seq * (z.kvHeads * z.dim)
    BY SdpaLengths DEF ValidSdpa
  <1>2. /\ z.len.out = z.seq * State(z) /\ z.len.q = z.seq * State(z)
        /\ z.len.k = z.seq * (z.kvHeads * z.dim) /\ z.len.v = z.seq * (z.kvHeads * z.dim)
    BY <1>1 DEF ValidSdpa
  <1>3. z.window \in Nat /\ z.threads \in Nat /\ z.seq <= z.seq
    BY <1>1 DEF Counted
  <1>4. ASSUME tasks \in {Sdpa(z), SdpaWithScale(z)} PROVE Exactly(tasks, PromisedSdpa(z), z)
    <2>1. CASE tasks = Causal(z, 0, z.seq, 0)
      <3>1. Does(tasks, RowsSoFar(z.seq), z.seq, z.kvHeads, z)
        BY <1>1, <2>1, CausalDoes
      <3> QED
        BY <1>1, <1>2, <1>3, <3>1, SeesSoFar, PromisedSdpaIs, GroupedHeadsExact
    <2>2. CASE tasks = SdpaParallel(z) /\ z.threads > 1
      <3>1. z.threads \in Nat \ {0} /\ z.len.out = z.seq * (z.heads * z.dim)
        BY <1>2, <1>3, <2>2 DEF State
      <3>2. Does(tasks, RowsSoFar(z.seq), z.seq, z.kvHeads, z)
        BY <1>1, <2>2, <3>1, SdpaParallelDoes
      <3> QED
        BY <1>1, <1>2, <1>3, <3>2, SeesSoFar, PromisedSdpaIs, GroupedHeadsExact
    <2> QED
      BY <1>4, <2>1, <2>2 DEF Sdpa, SdpaWithScale, CausalOptimized, PoolTakes
  <1>5. ASSUME tasks \in {SdpaWindowed(z), SdpaWindowedWithScale(z)}
        PROVE  Exactly(tasks, PromisedWindowed(z), z)
    <2>1. tasks = Windowed(z, 0, z.seq, 0)
      BY <1>5 DEF SdpaWindowed, SdpaWindowedWithScale, WindowedOptimized
    <2>2. Does(tasks, RowsInWindow(z.seq, z.window), z.seq, z.kvHeads, z)
      BY <1>1, <1>3, <2>1, WindowedDoes
    <2> QED
      BY <1>1, <1>2, <1>3, <2>2, SeesWindow, PromisedWindowedIs, GroupedHeadsExact
  <1>6. ASSUME tasks = Bidirectional(z) PROVE Exactly(tasks, PromisedBoth(z), z)
    <2>1. Does(tasks, AllRows(z.seq, z.seq), z.seq, z.kvHeads, z)
      BY <1>1, <1>6, BidirectionalDoes
    <2> QED
      BY <1>1, <1>2, <1>3, <2>1, SeesAll, PromisedBothIs, GroupedHeadsExact
  <1> QED
    BY <1>4, <1>5, <1>6

\* One query of grouped heads does what is promised.
LEMMA SdpaLastExact ==
  ASSUME NEW z, Counted(z), ValidSdpaIncremental(z)
  PROVE  Exactly(SdpaIncremental(z), PromisedSdpaLast(z), z)
  <1>1. /\ Sized(z) /\ Grouping(z) /\ HasSizes(z) /\ z.seq \in Nat /\ State(z) \in Nat
        /\ z.seq * z.kvHeads * z.dim = z.seq * (z.kvHeads * z.dim)
        /\ z.heads * z.dim = 1 * State(z)
    BY SdpaLengths DEF ValidSdpaIncremental
  <1>2. /\ z.len.out = 1 * State(z) /\ z.len.q = 1 * State(z)
        /\ z.len.k = z.seq * (z.kvHeads * z.dim) /\ z.len.v = z.seq * (z.kvHeads * z.dim)
    BY <1>1 DEF ValidSdpaIncremental
  <1>3. 1 \in Nat /\ z.seq <= z.seq
    BY <1>1
  <1>4. Does(SdpaIncremental(z), AllRows(1, z.seq), 1, z.kvHeads, z)
    BY <1>1, SdpaIncrementalDoes
  <1> QED
    BY <1>1, <1>2, <1>3, <1>4, SeesAll, PromisedSdpaLastIs, GroupedHeadsExact

-----------------------------------------------------------------------------
\* The arguments of a body are counted too.
LEMMA BodyCounted ==
  ASSUME NEW c, BodyCall(c)
  PROVE  Counted(c.z) /\ c.z.state \in Nat /\ c.z.state <= MaxUsize
  <1> DEFINE z == c.z
             y == Restrict(z, DOMAIN z \ {"state"})
  <1>1. y \in AttentionArgs /\ z.state \in 0..MaxUsize
    BY DEF BodyCall
  <1>2. DOMAIN y \subseteq DOMAIN z /\ \A field \in DOMAIN y : y[field] = z[field]
    BY DEF Restrict
  <1> HIDE DEF y, z
  <1>3. {"heads", "kvHeads", "dim", "seq", "kvSeq", "capacity", "window", "batch", "threads", "mode",
         "len", "device"} \subseteq DOMAIN y
    BY <1>1 DEF AttentionArgs
  <1>4. Counted(y)
    BY <1>1, ArgsCounted
  <1>5. /\ z.heads = y.heads /\ z.kvHeads = y.kvHeads /\ z.dim = y.dim /\ z.seq = y.seq
        /\ z.kvSeq = y.kvSeq /\ z.capacity = y.capacity /\ z.window = y.window /\ z.batch = y.batch
        /\ z.threads = y.threads /\ z.len = y.len
    BY <1>2, <1>3
  <1>6. HasSizes(z)
    BY <1>2, <1>3 DEF HasSizes
  <1>7. Counted(z)
    BY <1>4, <1>5, <1>6 DEF Counted
  <1>8. z.state \in Nat /\ z.state <= MaxUsize
    BY <1>1, BuffersAssumption
  <1> QED
    BY <1>7, <1>8 DEF z

\* A row that is divided among heads is as wide as the heads together.
LEMMA BodySized ==
  ASSUME NEW z, Counted(z), z.state \in Nat, z.state # 0, z.heads # 0, z.state % z.heads = 0,
         z.dim = z.state \div z.heads
  PROVE  Sized(z) /\ State(z) = z.state
  <1>1. z.heads \in Nat \ {0} /\ z.state \in Nat
    BY DEF Counted
  <1>2. z.dim \in Nat /\ z.dim * z.heads = z.state
    BY <1>1, WholeQuotient
  <1>3. z.dim # 0
    BY <1>1, <1>2
  <1>4. z.heads * z.dim = z.state
    BY <1>1, <1>2
  <1> QED
    BY <1>1, <1>2, <1>3, <1>4 DEF Sized, State

\* A checked product that is a length fits.
LEMMA FittingProduct ==
  ASSUME NEW m \in Nat, NEW n \in Nat, Product(m, n) \in Nat
  PROVE  Product(m, n) = m * n /\ m * n <= MaxUsize
  <1>1. FitsUsize(<<m, n>>)
    BY DEF Product
  <1> QED
    BY <1>1, FitsPair, CheckedProduct

\* A body does what is promised, alone or split among workers.
LEMMA BodyExact ==
  ASSUME NEW z, Counted(z), z.state \in Nat, z.state # 0,
         z.heads # 0 => z.dim = z.state \div z.heads,
         z.seq * z.state <= MaxUsize => z.len.out = z.seq * z.state,
         NEW causal \in BOOLEAN, ValidBody(z, causal)
  PROVE  Exactly(BodyHost(z, causal).tasks,
                 IF causal THEN PromisedCausal(z) ELSE PromisedCross(z), z)
  <1> DEFINE tasks == BodyHost(z, causal).tasks
             seen == IF causal THEN RowsSoFar(z.seq) ELSE AllRows(z.seq, z.kvSeq)
             promised == IF causal THEN PromisedCausal(z) ELSE PromisedCross(z)
  <1>1. Counted(z) /\ z.state \in Nat
    OBVIOUS
  <1>2. /\ z.heads # 0 /\ z.state % z.heads = 0 /\ z.dim = z.state \div z.heads
        /\ z.seq * z.state <= MaxUsize => z.len.out = z.seq * z.state
    BY DEF ValidBody
  <1>3. Sized(z) /\ State(z) = z.state
    BY <1>1, <1>2, BodySized
  <1>4. z.seq \in Nat /\ z.kvSeq \in Nat /\ z.threads \in Nat /\ HasSizes(z)
    BY <1>1 DEF Counted
  <1>5. /\ z.len.q = z.seq * State(z) /\ z.seq * State(z) <= MaxUsize
        /\ z.len.k = z.kvSeq * State(z) /\ z.len.v = z.kvSeq * State(z)
    <2>1. /\ z.len.q = Product(z.seq, z.state) /\ z.len.k = Product(z.kvSeq, z.state)
          /\ z.len.v = Product(z.kvSeq, z.state)
      BY DEF ValidBody
    <2>2. z.len.q \in Nat /\ z.len.k \in Nat /\ z.len.v \in Nat
      BY <1>1, LengthsCounted
    <2>3. Product(z.seq, z.state) = z.seq * z.state /\ z.seq * z.state <= MaxUsize
      BY ONLY <1>1, <1>4, <2>1, <2>2, FittingProduct
    <2>4. Product(z.kvSeq, z.state) = z.kvSeq * z.state
      BY ONLY <1>1, <1>4, <2>1, <2>2, FittingProduct
    <2> QED
      BY <1>3, <2>1, <2>3, <2>4
  <1>6. causal => z.seq <= z.kvSeq
    BY DEF ValidBody
  <1>7. tasks = IF z.threads > 0 /\ z.seq >= BodyMinRows THEN BodyParallel(z, causal) ELSE BodySerial(z, causal)
    BY DEF BodyHost, Outcome
  <1> HIDE DEF tasks
  <1>8. Does(tasks, seen, z.seq, z.heads, z)
    <2>1. CASE z.threads > 0 /\ z.seq >= BodyMinRows
      <3>1. z.seq \in Nat \ {0}
        BY <1>4, <2>1, PrimitivesAssumption
      <3> QED
        BY <1>3, <1>4, <1>7, <2>1, <3>1, BodyParallelDoes
    <2>2. CASE ~(z.threads > 0 /\ z.seq >= BodyMinRows)
      BY <1>3, <1>4, <1>7, <2>2, BodySerialDoes
    <2> QED
      BY <2>1, <2>2
  <1>9. Promises(promised, seen, z.seq, z.heads, z)
    BY <1>3, <1>4, PromisedCausalIs, PromisedCrossIs
  <1>10. SeesRuns(seen, z.seq, z.kvSeq)
    <2>1. z.kvSeq <= z.kvSeq
      BY <1>4
    <2> QED
      BY <1>4, <1>6, <2>1, SeesAll, SeesSoFar
  <1>11. /\ z.len.out = z.seq * State(z) /\ z.seq * State(z) <= z.len.q
         /\ z.kvSeq * State(z) <= z.len.k /\ z.kvSeq * State(z) <= z.len.v
    <2>1. z.seq * State(z) \in Nat /\ z.kvSeq * State(z) \in Nat
      BY <1>1, <1>3, <1>4
    <2> QED
      BY <1>2, <1>3, <1>5, <2>1
  <1>12. Exactly(tasks, promised, z)
    <2> HIDE DEF seen, promised
    <2> QED
      BY <1>1, <1>3, <1>4, <1>8, <1>9, <1>10, <1>11, OwnHeadsExact
  <1> QED
    BY <1>12 DEF tasks

\* The body of one query does what is promised.
LEMMA IncrementalBodyExact ==
  ASSUME NEW z, Counted(z), z.state \in Nat, z.state # 0,
         z.heads # 0 => z.dim = z.state \div z.heads,
         z.len.out = z.state, ValidIncrementalBody(z)
  PROVE  Exactly(IncrementalScalar(z), PromisedAppend(z), z)
  <1>1. Counted(z) /\ z.state \in Nat
    OBVIOUS
  <1>2. z.heads # 0 /\ z.state % z.heads = 0 /\ z.dim = z.state \div z.heads
    BY DEF ValidIncrementalBody
  <1>3. /\ z.len.q = z.state /\ z.len.newK = z.state /\ z.len.newV = z.state
        /\ z.len.k = Product(z.seq, z.state) /\ z.len.v = Product(z.seq, z.state)
    BY DEF ValidIncrementalBody
  <1>4. Sized(z) /\ State(z) = z.state
    BY <1>1, <1>2, BodySized
  <1>5. z.seq \in Nat /\ HasSizes(z) /\ z.seq <= z.seq
    BY <1>1 DEF Counted
  <1>6. z.len.k \in Nat /\ z.len.v \in Nat
    BY <1>1, LengthsCounted
  <1>7. z.len.k = z.seq * State(z) /\ z.len.v = z.seq * State(z)
    BY ONLY <1>1, <1>3, <1>4, <1>5, <1>6, LengthIs
  <1>8. z.len.out = State(z)
    BY <1>4
  <1>9. Does(IncrementalScalar(z), PastAndNew(z.seq), 1, z.heads, z)
    BY <1>4, <1>5, IncrementalScalarDoes
  <1> QED
    BY <1>1, <1>3, <1>4, <1>5, <1>7, <1>8, <1>9, NewHeadsExact

\* A call that is refused computes nothing.
LEMMA AcceptedAsPromised ==
  ASSUME NEW valid, NEW tasks, NEW promised, NEW z, valid => Exactly(tasks, promised, z)
  PROVE  AsPromised(Outcome(valid, tasks), promised, z)
  BY DEF Outcome, AsPromised, Exactly

\* A call runs on the GPU or on the host, and either will do.
LEMMA DispatchedAsPromised ==
  ASSUME NEW z, NEW operands, NEW valid, NEW run, NEW gpu, NEW host, NEW promised,
         (operands \subseteq z.device /\ valid /\ run) => Exactly(gpu, promised, z),
         valid => Exactly(host, promised, z)
  PROVE  AsPromised(Dispatched(z, operands, valid, run, gpu, host), promised, z)
  BY AcceptedAsPromised DEF Dispatched

\* The operations of the trait, of each backend.
LEMMA AttentionAsPromised ==
  ASSUME NEW backend \in {"cpu", "cubecl"}, NEW op \in AttentionOps, NEW z \in AttentionArgs,
         op = "batched" => backend = "cubecl", Trusted(backend, op, z)
  PROVE  AsPromised(OutcomeOf(backend, op, z), Promised(op, z), z)
  <1> DEFINE outcome == OutcomeOf(backend, op, z)
             promised == Promised(op, z)
  <1>1. Counted(z)
    BY ArgsCounted
  <1>2. /\ backend = "cpu" => outcome = CpuOutcome(op, z)
        /\ backend = "cubecl" => outcome = CubeOutcome(op, z)
    BY DEF OutcomeOf
  <1> HIDE DEF outcome, promised
  <1> SUFFICES AsPromised(outcome, promised, z)
    BY DEF outcome, promised
  <1>3. CASE op = "encoder"
    <2>1. promised = PromisedEncoder(z)
      BY <1>3 DEF promised, Promised
    <2>2. ValidEncoder(z) => \A tasks \in {EncoderScalar(z), CpuEncoder(z), GpuEncoder(z)} :
                               Exactly(tasks, promised, z)
      BY <1>1, <2>1, EncoderExact
    <2>3. CASE backend = "cpu"
      <3>1. outcome = Outcome(ValidEncoder(z), CpuEncoder(z))
        BY <1>2, <1>3, <2>3 DEF CpuOutcome
      <3> QED
        BY <2>2, <3>1, AcceptedAsPromised
    <2>4. CASE backend = "cubecl"
      <3>1. outcome = Dispatched(z, QKVOut, ValidEncoder(z), RunEncoder(z), GpuEncoder(z), EncoderScalar(z))
        BY <1>2, <1>3, <2>4 DEF CubeOutcome, CubeEncoder
      <3> QED
        BY <2>2, <3>1, DispatchedAsPromised
    <2> QED
      BY <2>3, <2>4
  <1>4. CASE op = "batched"
    <2>1. promised = PromisedBatched(z) /\ backend = "cubecl"
      BY <1>4 DEF promised, Promised
    <2>2. Sized(z)
      BY <1>1, <1>4 DEF Trusted, Counted, Sized
    <2>3. outcome = CubeBatched(z)
      BY <1>2, <1>4, <2>1 DEF CubeOutcome
    <2>4. CASE QKVOut \subseteq z.device
      <3>1. outcome = Outcome(RunBatched(z), GpuBatched(z))
        BY <2>3, <2>4 DEF CubeBatched
      <3>2. ASSUME RunBatched(z) PROVE Exactly(GpuBatched(z), promised, z)
        <4>1. /\ z.len.q = z.batch * z.seq * State(z) /\ z.len.k = z.batch * z.seq * State(z)
              /\ z.len.v = z.batch * z.seq * State(z) /\ z.len.out = z.batch * z.seq * State(z)
          BY <3>2 DEF RunBatched
        <4>2. z.len.q \in Nat
          BY <1>1, LengthsCounted
        <4>3. \A b \in {"q", "k", "v"} : z.len[b] >= z.batch * z.seq * State(z)
          BY <4>1, <4>2
        <4> QED
          BY <1>1, <2>1, <2>2, <4>1, <4>3, BatchedExact
      <3> QED
        BY <3>1, <3>2, AcceptedAsPromised
    <2>5. CASE ~(QKVOut \subseteq z.device)
      <3> DEFINE valid == /\ z.len.out = z.batch * z.seq * State(z)
                          /\ \A b \in {"q", "k", "v"} : z.len[b] >= z.batch * z.seq * State(z)
      <3>1. outcome = Outcome(valid, HostBatched(z))
        BY <2>3, <2>5 DEF CubeBatched
      <3>2. valid => Exactly(HostBatched(z), promised, z)
        BY <1>1, <2>1, <2>2, BatchedExact
      <3> HIDE DEF valid
      <3> QED
        BY <3>1, <3>2, AcceptedAsPromised
    <2> QED
      BY <2>4, <2>5
  <1>5. CASE op = "causal"
    <2>1. promised = PromisedCausal(z)
      BY <1>5 DEF promised, Promised
    <2>2. ValidCausal(z) => /\ Exactly(CausalScalar(z), promised, z)
                            /\ Exactly(GpuCausal(z), promised, z)
      BY <1>1, <2>1, CausalExact
    <2>3. CASE backend = "cpu"
      <3>1. outcome = Outcome(ValidCausal(z), CausalScalar(z))
        BY <1>2, <1>5, <2>3 DEF CpuOutcome, DefaultOutcome, DefaultCausal
      <3> QED
        BY <2>2, <3>1, AcceptedAsPromised
    <2>4. CASE backend = "cubecl"
      <3>1. outcome = Dispatched(z, QKVOut, ValidCausal(z), RunCausal(z), GpuCausal(z), CausalScalar(z))
        BY <1>2, <1>5, <2>4 DEF CubeOutcome, CubeCausal
      <3> QED
        BY <2>2, <3>1, DispatchedAsPromised
    <2> QED
      BY <2>3, <2>4
  <1>6. CASE op = "incremental"
    <2>1. promised = PromisedAppend(z)
      BY <1>6 DEF promised, Promised
    <2>2. ValidIncremental(z) => /\ Exactly(IncrementalScalar(z), promised, z)
                                 /\ Exactly(GpuIncremental(z), promised, z)
      BY <1>1, <2>1, IncrementalExact
    <2>3. CASE backend = "cpu"
      <3>1. outcome = Outcome(ValidIncremental(z), IncrementalScalar(z))
        BY <1>2, <1>6, <2>3 DEF CpuOutcome, DefaultOutcome, DefaultIncremental
      <3> QED
        BY <2>2, <3>1, AcceptedAsPromised
    <2>4. CASE backend = "cubecl"
      <3>1. outcome = Dispatched(z, WithNew, ValidIncremental(z), RunIncremental(z), GpuIncremental(z),
                                 IncrementalScalar(z))
        BY <1>2, <1>6, <2>4 DEF CubeOutcome, CubeIncremental
      <3> QED
        BY <2>2, <3>1, DispatchedAsPromised
    <2> QED
      BY <2>3, <2>4
  <1>7. CASE op = "cache"
    <2>1. promised = PromisedCache(z)
      BY <1>7 DEF promised, Promised
    <2>2. ValidCache(z) => \A tasks \in CacheTasks(z) : Exactly(tasks, promised, z)
      BY <1>1, <2>1, CacheExact
    <2>3. CacheScalar(z) \in CacheTasks(z) /\ CpuCache(z) \in CacheTasks(z) /\ GpuCache(z) \in CacheTasks(z)
      BY DEF CacheTasks
    <2>4. CASE backend = "cpu"
      <3>1. outcome = Outcome(ValidCache(z), CpuCache(z))
        BY <1>2, <1>7, <2>4 DEF CpuOutcome
      <3> QED
        BY <2>2, <2>3, <3>1, AcceptedAsPromised
    <2>5. CASE backend = "cubecl"
      <3>1. outcome = Dispatched(z, QKVOut, ValidCache(z), RunCache(z), GpuCache(z), CacheScalar(z))
        BY <1>2, <1>7, <2>5 DEF CubeOutcome, CubeCache
      <3> QED
        BY <2>2, <2>3, <3>1, DispatchedAsPromised
    <2> QED
      BY <2>4, <2>5
  <1>8. CASE op = "append"
    <2>1. promised = PromisedAppend(z)
      BY <1>8 DEF promised, Promised
    <2>2. ValidAppend(z) => /\ Exactly(GpuAppend(z), promised, z)
                            /\ \A cached \in CacheTasks(Longer(z)) :
                                 Exactly(AfterCopies(cached, z), promised, z)
      BY <1>1, <2>1, AppendExact
    <2>3. CASE backend = "cpu"
      <3>1. outcome = Outcome(ValidAppend(z), AfterCopies(CpuCache(Longer(z)), z))
        BY <1>2, <1>8, <2>3 DEF CpuOutcome, CpuAppend, Longer
      <3>2. CpuCache(Longer(z)) \in CacheTasks(Longer(z))
        BY DEF CacheTasks
      <3> QED
        BY <2>2, <3>1, <3>2, AcceptedAsPromised
    <2>4. CASE backend = "cubecl"
      <3> DEFINE cached == CubeCache(Longer(z))
      <3>1. outcome = IF WithNew \subseteq z.device THEN Outcome(ValidAppend(z) /\ RunAppend(z), GpuAppend(z))
                      ELSE Outcome(ValidAppend(z) /\ cached.ok, AfterCopies(cached.tasks, z))
        BY <1>2, <1>8, <2>4 DEF CubeOutcome, CubeAppend, Longer
      <3>2. cached.ok => cached.tasks \in CacheTasks(Longer(z))
        <4>1. \/ cached = Outcome(ValidCache(Longer(z)) /\ RunCache(Longer(z)), GpuCache(Longer(z)))
              \/ cached = Outcome(ValidCache(Longer(z)), CacheScalar(Longer(z)))
          BY DEF CubeCache, Dispatched
        <4> HIDE DEF cached
        <4>2. cached.ok => cached.tasks = GpuCache(Longer(z)) \/ cached.tasks = CacheScalar(Longer(z))
          BY <4>1, Accepted
        <4> QED
          BY <4>2 DEF CacheTasks
      <3> HIDE DEF cached
      <3> QED
        BY <2>2, <3>1, <3>2, AcceptedAsPromised
    <2> QED
      BY <2>3, <2>4
  <1>9. CASE op = "cross"
    <2>1. promised = PromisedCross(z)
      BY <1>9 DEF promised, Promised
    <2>2. ValidCross(z) => /\ Exactly(CrossScalar(z), promised, z)
                           /\ Exactly(CpuCross(z), promised, z)
                           /\ z.kvSeq # 0 => Exactly(GpuCross(z), promised, z)
      BY <1>1, <2>1, CrossExact
    <2>3. CASE backend = "cpu"
      <3>1. outcome = Outcome(ValidCross(z), CpuCross(z))
        BY <1>2, <1>9, <2>3 DEF CpuOutcome
      <3> QED
        BY <2>2, <3>1, AcceptedAsPromised
    <2>4. CASE backend = "cubecl"
      <3>1. outcome = Dispatched(z, QKVOut, ValidCross(z), RunCross(z), GpuCross(z), CrossScalar(z))
        BY <1>2, <1>9, <2>4 DEF CubeOutcome, CubeCross
      <3>2. QKVOut \subseteq z.device => z.kvSeq # 0
        BY <1>9, <2>4 DEF Trusted
      <3> QED
        BY <2>2, <3>1, <3>2, DispatchedAsPromised
    <2> QED
      BY <2>3, <2>4
  <1> QED
    BY <1>3, <1>4, <1>5, <1>6, <1>7, <1>8, <1>9 DEF AttentionOps

\* The entries of attention.rs.
LEMMA SdpaAsPromised ==
  ASSUME NEW op \in SdpaOps, NEW z \in AttentionArgs
  PROVE  AsPromised(SdpaOutcome(op, z), Promised(op, z), z)
  <1> DEFINE outcome == SdpaOutcome(op, z)
             promised == Promised(op, z)
  <1>1. Counted(z)
    BY ArgsCounted
  <1> HIDE DEF outcome, promised
  <1>2. ASSUME op \in {"sdpa", "scaled"} PROVE AsPromised(outcome, promised, z)
    <2>1. /\ promised = PromisedSdpa(z)
          /\ \/ outcome = Outcome(ValidSdpa(z), Sdpa(z))
             \/ outcome = Outcome(ValidSdpa(z) /\ ValidScale(z), SdpaWithScale(z))
      BY <1>2 DEF outcome, promised, SdpaOutcome, Promised
    <2>2. ValidSdpa(z) => Exactly(Sdpa(z), promised, z) /\ Exactly(SdpaWithScale(z), promised, z)
      BY <1>1, <2>1, SdpaExact
    <2> QED
      BY <2>1, <2>2, AcceptedAsPromised
  <1>3. ASSUME op \in {"windowed", "windowed, scaled"} PROVE AsPromised(outcome, promised, z)
    <2>1. /\ promised = PromisedWindowed(z)
          /\ \/ outcome = Outcome(ValidWindowed(z), SdpaWindowed(z))
             \/ outcome = Outcome(ValidWindowed(z) /\ ValidScale(z), SdpaWindowedWithScale(z))
      BY <1>3 DEF outcome, promised, SdpaOutcome, WindowedOutcome, Promised
    <2>2. ValidWindowed(z) => /\ Exactly(SdpaWindowed(z), promised, z)
                              /\ Exactly(SdpaWindowedWithScale(z), promised, z)
      BY <1>1, <2>1, SdpaExact DEF ValidWindowed
    <2> QED
      BY <2>1, <2>2, AcceptedAsPromised
  <1>4. ASSUME op = "bidirectional" PROVE AsPromised(outcome, promised, z)
    <2>1. promised = PromisedBoth(z) /\ outcome = Outcome(ValidSdpa(z), Bidirectional(z))
      BY <1>4 DEF outcome, promised, SdpaOutcome, Promised
    <2>2. ValidSdpa(z) => Exactly(Bidirectional(z), promised, z)
      BY <1>1, <2>1, SdpaExact
    <2> QED
      BY <2>1, <2>2, AcceptedAsPromised
  <1>5. ASSUME op = "last" PROVE AsPromised(outcome, promised, z)
    <2>1. promised = PromisedSdpaLast(z) /\ outcome = Outcome(ValidSdpaIncremental(z), SdpaIncremental(z))
      BY <1>5 DEF outcome, promised, SdpaOutcome, Promised
    <2>2. ValidSdpaIncremental(z) => Exactly(SdpaIncremental(z), promised, z)
      BY <1>1, <2>1, SdpaLastExact
    <2> QED
      BY <2>1, <2>2, AcceptedAsPromised
  <1>6. AsPromised(outcome, promised, z)
    BY <1>2, <1>3, <1>4, <1>5 DEF SdpaOps
  <1> QED
    BY <1>6 DEF outcome, promised

\* The bodies of the Whisper model.
LEMMA BodyAsPromised ==
  ASSUME NEW c, BodyCall(c), c.z.state # 0
  PROVE  AsPromised(PrimitiveOutcome(c.op, c.z), PrimitivePromised(c.op, c.z), c.z)
  <1>1. Counted(c.z) /\ c.z.state \in Nat /\ c.z.state <= MaxUsize
    BY BodyCounted
  <1>2. /\ c.op \in BodyOps
        /\ c.z.heads # 0 => c.z.dim = c.z.state \div c.z.heads
        /\ BodyRows(c) * c.z.state <= MaxUsize => c.z.len.out = BodyRows(c) * c.z.state
    BY DEF BodyCall
  <1>3. ASSUME NEW causal \in BOOLEAN, c.op = IF causal THEN "causal body" ELSE "body"
        PROVE  AsPromised(BodyHost(c.z, causal),
                          IF causal THEN PromisedCausal(c.z) ELSE PromisedCross(c.z), c.z)
    <2>1. BodyRows(c) = c.z.seq
      BY <1>3 DEF BodyRows
    <2>2. ValidBody(c.z, causal) =>
            Exactly(BodyHost(c.z, causal).tasks,
                    IF causal THEN PromisedCausal(c.z) ELSE PromisedCross(c.z), c.z)
      BY <1>1, <1>2, <2>1, BodyExact
    <2>3. BodyHost(c.z, causal).ok = ValidBody(c.z, causal)
      BY DEF BodyHost, Outcome
    <2> QED
      BY <2>2, <2>3 DEF AsPromised, Exactly
  <1>4. CASE c.op = "body"
    <2>1. FALSE \in BOOLEAN /\ c.op = IF FALSE THEN "causal body" ELSE "body"
      BY <1>4
    <2>2. AsPromised(BodyHost(c.z, FALSE), PromisedCross(c.z), c.z)
      BY <1>3, <2>1
    <2> QED
      BY <1>4, <2>2 DEF PrimitiveOutcome, PrimitivePromised
  <1>5. CASE c.op = "causal body"
    <2>1. TRUE \in BOOLEAN /\ c.op = IF TRUE THEN "causal body" ELSE "body"
      BY <1>5
    <2>2. AsPromised(BodyHost(c.z, TRUE), PromisedCausal(c.z), c.z)
      BY <1>3, <2>1
    <2> QED
      BY <1>5, <2>2 DEF PrimitiveOutcome, PrimitivePromised
  <1>6. CASE c.op = "incremental body"
    <2>1. c.z.len.out = c.z.state
      <3>1. BodyRows(c) = 1
        BY <1>6 DEF BodyRows
      <3>2. 1 * c.z.state = c.z.state
        BY <1>1
      <3> QED
        BY <1>1, <1>2, <3>1, <3>2
    <2>2. ValidIncrementalBody(c.z) => Exactly(IncrementalScalar(c.z), PromisedAppend(c.z), c.z)
      BY <1>1, <1>2, <2>1, IncrementalBodyExact
    <2>3. AsPromised(IncrementalBodyHost(c.z), PromisedAppend(c.z), c.z)
      BY <2>2, AcceptedAsPromised DEF IncrementalBodyHost
    <2> QED
      BY <1>6, <2>3 DEF PrimitiveOutcome, PrimitivePromised
  <1> QED
    BY <1>2, <1>4, <1>5, <1>6 DEF BodyOps

\* Every attention operation that accepts a call computes each head of each
\* query from that query and from exactly the rows it may see, in order, on the
\* host, split among workers or by the units of a GPU; and every element-wise or
\* row-wise operation writes each cell once: for sizes, heads, workers, lanes
\* and workgroups of every number.
THEOREM RowsExactAlways == KernelSpec => []RowsExact
  <1>1. CallInv => AttentionExact
    <2> SUFFICES ASSUME CallInv PROVE AttentionExact
      OBVIOUS
    <2>1. ASSUME Is("attention"), Trusted(call.args.backend, call.args.op, call.args.z)
          PROVE  AsPromised(OutcomeOf(call.args.backend, call.args.op, call.args.z),
                            Promised(call.args.op, call.args.z), call.args.z)
      <3>1. call.args \in AttentionCalls
        BY <2>1 DEF CallInv, Is, Idle
      <3>2. /\ call.args.backend \in {"cpu", "cubecl"} /\ call.args.op \in AttentionOps
            /\ call.args.z \in AttentionArgs
            /\ call.args.op = "batched" => call.args.backend = "cubecl"
        BY <3>1, KernelCallsAssumption
      <3> QED
        BY <2>1, <3>2, AttentionAsPromised
    <2>2. ASSUME Is("sdpa")
          PROVE  AsPromised(SdpaOutcome(call.args.op, call.args.z),
                            Promised(call.args.op, call.args.z), call.args.z)
      <3>1. call.args \in SdpaCalls
        BY <2>2 DEF CallInv, Is, Idle
      <3>2. call.args.op \in SdpaOps /\ call.args.z \in AttentionArgs
        BY <3>1, KernelCallsAssumption
      <3> QED
        BY <3>2, SdpaAsPromised
    <2> QED
      BY <2>1, <2>2 DEF AttentionExact
  <1>2. CallInv => PrimitivesExact
    <2> SUFFICES ASSUME CallInv, Is("primitive"), call.args.op # "conv1d", call.args.z.state # 0
                 PROVE  AsPromised(PrimitiveOutcome(call.args.op, call.args.z),
                                   PrimitivePromised(call.args.op, call.args.z), call.args.z)
      BY DEF PrimitivesExact
    <2>1. call.args \in PrimitiveCalls
      BY DEF CallInv, Is, Idle
    <2>2. BodyCall(call.args)
      BY <2>1, KernelCallsAssumption
    <2> QED
      BY <2>2, BodyAsPromised
  <1> QED
    BY <1>1, <1>2, CallInvAlways, PointsExactAlways, PTL DEF RowsExact
==============================================================================
