------------------------------- MODULE KQuants -------------------------------
(***************************************************************************)
(* Quantised weights: what crates/loader/src/gguf_values.rs makes of a     *)
(* block of 256 values, and what crates/kernels/src/k_quant.rs multiplies  *)
(* without unpacking it. Both read the same bytes by their own loops.      *)
(*                                                                         *)
(* A bit is <<byte of the block, place>>, the lowest first. A value is its *)
(* quant, and the bits of its scale and its minimum.                       *)
(*                                                                         *)
(* HighBitsOfLane is a slip that the checks must notice; no behaviour uses *)
(* it.                                                                     *)
(***************************************************************************)
EXTENDS Buffers

QKK == 256
BlockBytes(kind) == CASE kind = "Q4K" -> 144 [] kind = "Q5K" -> 176 [] kind = "Q6K" -> 210

Bits(byte, first, n) == [b \in 1..n |-> <<byte, first + b - 1>>]
Low(byte) == Bits(byte, 0, 4)
High(byte) == Bits(byte, 4, 4)

\* get_scale_min_k4, the same in both files: twelve bytes from 4 on hold eight
\* scales and eight minima of six bits
ScaleMinLoader(index) ==
  LET at == 4 + index
  IN  IF index < 4 THEN [scale |-> Bits(at, 0, 6), min |-> Bits(at + 4, 0, 6)]
      ELSE [scale |-> Low(at + 4) \o Bits(at - 4, 6, 2),
            min |-> High(at + 4) \o Bits(at, 6, 2)]
ScaleMin(index) ==
  LET at == 4 + index
  IN  IF index < 4 THEN [scale |-> Bits(at, 0, 6), min |-> Bits(at + 4, 0, 6)]
      ELSE [scale |-> Low(at + 4) \o Bits(at - 4, 6, 2),
            min |-> High(at + 4) \o Bits(at, 6, 2)]

-----------------------------------------------------------------------------
(***************************************************************************)
(* The loader appends values in order.                                     *)
(***************************************************************************)
Value(quant, scaleMin) == [quant |-> quant, scale |-> scaleMin.scale, min |-> scaleMin.min]

\* Value i is of group g, in the low nibble of byte l or, from the 33rd on, the high
DequantizeQ4 ==
  LET at(g, half, l) ==
        Value(IF half = 0 THEN Low(16 + 32 * g + l) ELSE High(16 + 32 * g + l),
              ScaleMinLoader(2 * g + half))
  IN  [i \in 1..QKK |-> at((i - 1) \div 64, ((i - 1) % 64) \div 32, (i - 1) % 32)]

\* and its fifth bit is in the byte l of those before, further up with every group
DequantizeQ5 ==
  LET at(g, half, l) ==
        Value((IF half = 0 THEN Low(48 + 32 * g + l) ELSE High(48 + 32 * g + l))
              \o Bits(16 + l, 2 * g + half, 1),
              ScaleMinLoader(2 * g + half))
  IN  [i \in 1..QKK |-> at((i - 1) \div 64, ((i - 1) % 64) \div 32, (i - 1) % 32)]

\* ZeroPoint stands for the offset of 32 that the quants of Q6_K are stored with
ZeroPoint == <<"32">>
DequantizeQ6 ==
  LET at(sg, quarter, l) ==
        LET ql == 64 * sg + l + 32 * (quarter % 2)
        IN  [quant |-> (IF quarter < 2 THEN Low(ql) ELSE High(ql))
                       \o Bits(128 + 32 * sg + l, 2 * quarter, 2),
             scale |-> Bits(192 + 8 * sg + (l \div 16) + 2 * quarter, 0, 8),
             min |-> ZeroPoint]
  IN  [i \in 1..QKK |-> at((i - 1) \div 128, ((i - 1) % 128) \div 32, (i - 1) % 32)]

Dequantize(kind) ==
  CASE kind = "Q4K" -> DequantizeQ4 [] kind = "Q5K" -> DequantizeQ5 [] kind = "Q6K" -> DequantizeQ6

-----------------------------------------------------------------------------
(***************************************************************************)
(* The kernel adds products of an activation of the block, a quant and a   *)
(* scale, and takes off products of a sum of 16 activations and a minimum. *)
(***************************************************************************)
Sum16(group, min) == {<<i, min>> : i \in (16 * group)..(16 * group + 15)}

VecDotQ4 ==
  [products |->
     UNION {{<<64 * g + 4 * lane + o, Low(16 + 32 * g + 4 * lane + o), ScaleMin(2 * g).scale>>,
             <<64 * g + 32 + 4 * lane + o, High(16 + 32 * g + 4 * lane + o),
               ScaleMin(2 * g + 1).scale>>} : g \in 0..3, lane \in 0..7, o \in 0..3},
   minima |->
     UNION {Sum16(2 * g, ScaleMin(g).min) \cup Sum16(2 * g + 1, ScaleMin(g).min) : g \in 0..7}]

\* One bit of the high byte of a lane for the low nibbles, the next for the high
HighBitsOfLane(pair, half) == pair
HighBit(pair, half) == 2 * pair + half
QuantsQ5 ==
  [i \in 0..(QKK - 1) |->
     LET pair == i \div 64
         lane == i % 32
         half == (i % 64) \div 32
     IN  (IF half = 0 THEN Low(48 + 32 * pair + lane) ELSE High(48 + 32 * pair + lane))
         \o Bits(16 + lane, HighBit(pair, half), 1)]
VecDotQ5 ==
  [products |-> {<<i, QuantsQ5[i], ScaleMin(i \div 32).scale>> : i \in 0..(QKK - 1)},
   minima |-> UNION {Sum16(g, ScaleMin(g \div 2).min) : g \in 0..15}]

QuantsQ6 ==
  [i \in 0..(QKK - 1) |->
     LET sg == i \div 128
         l == i % 32
     IN  CASE (i % 128) \div 32 = 0 -> Low(64 * sg + l) \o Bits(128 + 32 * sg + l, 0, 2)
           [] (i % 128) \div 32 = 1 -> Low(64 * sg + l + 32) \o Bits(128 + 32 * sg + l, 2, 2)
           [] (i % 128) \div 32 = 2 -> High(64 * sg + l) \o Bits(128 + 32 * sg + l, 4, 2)
           [] OTHER -> High(64 * sg + l + 32) \o Bits(128 + 32 * sg + l, 6, 2)]
\* Of the eight lanes of a group of 32, four have one scale and four the next;
\* a zero point is taken off with the scale of its sum of 16
ScaleQ6(group, lane) == group * 2 + (IF lane < 4 THEN 0 ELSE 1)
VecDotQ6 ==
  [products |-> {<<32 * g + 4 * lane + o, QuantsQ6[32 * g + 4 * lane + o],
                   Bits(192 + ScaleQ6(g, lane), 0, 8)>> : g \in 0..7, lane \in 0..7, o \in 0..3},
   minima |-> UNION {{<<i, <<ZeroPoint, Bits(192 + g, 0, 8)>>>> : i \in (16 * g)..(16 * g + 15)} :
                       g \in 0..15}]
VecDot(kind) ==
  CASE kind = "Q4K" -> VecDotQ4 [] kind = "Q5K" -> VecDotQ5 [] kind = "Q6K" -> VecDotQ6

-----------------------------------------------------------------------------
(***************************************************************************)
(* A matrix: z.outs rows of z.ins / 256 blocks.                            *)
(***************************************************************************)
ValidKQuant(z) ==
  /\ z.ins # 0 /\ z.outs # 0 /\ z.ins % QKK = 0
  /\ FitsUsize(<<z.rows, z.ins>>) /\ z.len.x = z.rows * z.ins
  /\ FitsUsize(<<z.rows, z.outs>>) /\ z.len.out = z.rows * z.outs
  /\ FitsUsize(<<z.outs, z.ins \div QKK, BlockBytes(z.kind)>>)
  /\ z.len.data = z.outs * (z.ins \div QKK) * BlockBytes(z.kind)
\* The loader is given the sizes of the tensor, the first the length of a row
ValidPayload(z) ==
  /\ z.ins % QKK = 0 /\ (z.ins * z.outs) % QKK = 0
  /\ FitsUsize(<<(z.ins * z.outs) \div QKK, BlockBytes(z.kind)>>)
  /\ z.len.data = ((z.ins * z.outs) \div QKK) * BlockBytes(z.kind)

\* An output's products are with the blocks of its row, block by block: for
\* all of them, the cells of the activation and the byte their block starts at
RowBlocks(o, z) ==
  LET rowBytes == (z.ins \div QKK) * BlockBytes(z.kind)
  IN  [b \in Upto(z.ins \div QKK) |-> o * rowBytes + b * BlockBytes(z.kind)]
LinearQ4(z) ==
  [u \in Upto(z.rows) \X Upto(z.outs) |->
     [out |-> u[1] * z.outs + u[2],
      from |-> [x |-> u[1] * z.ins, blocks |-> RowBlocks(u[2], z)]]]
LinearQ5(z) == LinearQ4(z)
LinearQ6(z) == LinearQ4(z)
LinearKQuant(z) ==
  CASE z.kind = "Q4K" -> LinearQ4(z) [] z.kind = "Q5K" -> LinearQ5(z) [] z.kind = "Q6K" -> LinearQ6(z)

\* Every activation meets the quant and scale, and the minimum or zero point,
\* that the loader gives the value at its place
DotAsLoaded(kind) ==
  LET values == Dequantize(kind)
      dot == VecDot(kind)
      least(i) == IF values[i + 1].min = ZeroPoint THEN <<ZeroPoint, values[i + 1].scale>>
                  ELSE values[i + 1].min
  IN  /\ dot.products = {<<i, values[i + 1].quant, values[i + 1].scale>> : i \in 0..(QKK - 1)}
      /\ dot.minima = {<<i, least(i)>> : i \in 0..(QKK - 1)}

\* The blocks of an output hold the loaded values of its row
RowsAsLoaded(z) ==
  Performs(LinearKQuant(z),
    [out \in Upto(z.rows * z.outs) |->
       [x |-> (out \div z.outs) * z.ins,
        blocks |-> [b \in Upto(z.ins \div QKK) |->
          (((out % z.outs) * z.ins + b * QKK) \div QKK) * BlockBytes(z.kind)]]])

\* No two values share a bit, nor two scales
BitsApart(kind) ==
  LET values == Dequantize(kind)
      bits(s) == {s[i] : i \in DOMAIN s}
      fields == {values[i].scale : i \in DOMAIN values}
                \cup (IF kind = "Q6K" THEN {} ELSE {values[i].min : i \in DOMAIN values})
      all == (UNION {bits(values[i].quant) : i \in DOMAIN values}) \cup (UNION {bits(f) : f \in fields})
      width == IF kind = "Q4K" THEN 4 ELSE IF kind = "Q5K" THEN 5 ELSE 6
  IN  /\ Cardinality(all) = QKK * width + (IF kind = "Q6K" THEN 128 ELSE 96)
      /\ \A b \in all : b[1] < BlockBytes(kind)
==============================================================================
