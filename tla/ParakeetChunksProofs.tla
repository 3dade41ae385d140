------------------------- MODULE ParakeetChunksProofs -------------------------
(***************************************************************************)
(* For every length of utterance, chunk and context: the planned bodies    *)
(* tile the utterance, the stitched frames are those of a single encode,   *)
(* and the two loud errors of encode_audio_chunked cannot occur.           *)
(***************************************************************************)
EXTENDS ParakeetChunks, TLAPS

\* The three strided convolutions together round up to multiples of 8.
LEMMA ClosedForm ==
  ASSUME NEW n \in Nat \ {0}
  PROVE  SubsampledFrames(n) = (n + 7) \div 8
<1> DEFINE a == (n - 1) \div 2 + 1
           b == (a - 1) \div 2 + 1
<1>1. ConvOutLen(n) = a /\ a \in Nat \ {0} /\ (2 * a = n \/ 2 * a = n + 1)
  BY DEF ConvOutLen
<1>2. ConvOutLen(a) = b /\ b \in Nat \ {0} /\ (2 * b = a \/ 2 * b = a + 1)
  BY <1>1 DEF ConvOutLen
<1>3. ConvOutLen(b) = (b - 1) \div 2 + 1
  BY <1>2 DEF ConvOutLen
<1> QED
  BY <1>1, <1>2, <1>3 DEF SubsampledFrames

\* Where a window must be for its frames to be those of the utterance
Sound(w) ==
  /\ w.ctxStart \in Nat /\ w.ctxEnd \in Nat
  /\ w.bodyStart \in Nat /\ w.bodyEnd \in Nat
  /\ w.ctxStart <= w.bodyStart
  /\ w.bodyStart < w.bodyEnd
  /\ w.bodyEnd <= w.ctxEnd
  /\ w.ctxEnd <= Total

\* Frames of the utterance that are stitched
Encoded == IF next = 1 THEN 0 ELSE plan[next - 1].bodyEnd

\* BodiesTile and TimeAxisExact, the state of planner and encoder they rest on
ChunksInv ==
  /\ TypeOK
  /\ BodiesTile
  /\ TimeAxisExact
  /\ FrameArithmeticAgrees
  /\ \A i \in DOMAIN plan : Sound(plan[i])
  /\ Len(plan) = 0 => bodyStart = 0
  /\ result = "Planning" => next = 1
  /\ result \in {"Encoding", "Ok"} => bodyStart = Total
  /\ Len(out) = Encoded

-----------------------------------------------------------------------------
\* A sound window gives every frame of its body, each of the right mel frame.
LEMMA WindowGivesBody ==
  ASSUME NEW w, Sound(w), mel \in Nat \ {0}
  PROVE  /\ KeepEnd(w) <= Produced(w)
         /\ KeepEnd(w) \in Nat /\ Produced(w) \in Nat
         /\ MelStart(w) = MelFramesPerFrame * w.ctxStart
<1>1. Total = (mel + 7) \div 8 /\ Total \in Nat
  BY ClosedForm DEF Total
<1>2. MelStart(w) = 8 * w.ctxStart /\ 8 * w.ctxStart < mel
  BY <1>1 DEF MelStart, Least, Sound, MelFramesPerFrame
<1>3. w.ctxStart < w.ctxEnd
  BY DEF Sound
<1>4. MelEnd(w) = Least(8 * w.ctxEnd, mel) /\ MelEnd(w) > MelStart(w)
  BY <1>1, <1>2, <1>3 DEF MelEnd, Least, Sound, MelFramesPerFrame
<1>5. MelEnd(w) - MelStart(w) \in Nat \ {0}
  BY <1>2, <1>4 DEF Least, Sound
<1>6. Produced(w) = (MelEnd(w) - MelStart(w) + 7) \div 8
  BY <1>5, ClosedForm DEF Produced
<1>7. Produced(w) = w.ctxEnd - w.ctxStart
  <2>1. CASE 8 * w.ctxEnd <= mel
    BY <2>1, <1>2, <1>4, <1>6 DEF Least, Sound
  <2>2. CASE 8 * w.ctxEnd > mel
    <3>1. w.ctxEnd = Total
      BY <2>2, <1>1 DEF Sound
    <3> QED
      BY <2>2, <3>1, <1>1, <1>2, <1>4, <1>6 DEF Least, Sound
  <2> QED
    BY <2>1, <2>2 DEF Sound
<1> QED
  BY <1>2, <1>7 DEF KeepEnd, Sound, MelFramesPerFrame

\* The window planned at a place within the utterance.
LEMMA WindowIsSound ==
  ASSUME TypeOK, mel \in Nat \ {0}, chunk # 0, bodyStart < Total
  PROVE  LET w == Window(bodyStart) IN
         /\ w \in [ctxStart : Nat, ctxEnd : Nat, bodyStart : Nat, bodyEnd : Nat]
         /\ Sound(w)
         /\ w.bodyStart = bodyStart /\ w.bodyEnd \in 0..Total
         /\ w.ctxStart = 0 \/ w.bodyStart - w.ctxStart = context
         /\ w.ctxEnd = Total \/ w.ctxEnd - w.bodyEnd = context
<1>1. Total \in Nat
  BY ClosedForm DEF Total
<1>2. chunk \in Nat \ {0} /\ context \in Nat /\ bodyStart \in Nat
  BY ChunkAssumption DEF ChunkAssumption, TypeOK
<1> QED
  BY <1>1, <1>2 DEF Window, Least, SaturatingSub, Sound

\* Total stands on a positive length of utterance.
LEMMA Parameters ==
  ASSUME TypeOK
  PROVE  mel \in Nat \ {0} /\ chunk \in Nat /\ context \in Nat /\ Total \in Nat
<1>1. mel \in Nat \ {0} /\ chunk \in Nat /\ context \in Nat
  BY ChunkAssumption DEF ChunkAssumption, TypeOK
<1> QED
  BY <1>1, ClosedForm DEF Total

\* Append, for elements of any set.
LEMMA Appended ==
  ASSUME NEW S, NEW s \in Seq(S), NEW e \in S
  PROVE  /\ Append(s, e) \in Seq(S)
         /\ Len(Append(s, e)) = Len(s) + 1
         /\ Append(s, e)[Len(s) + 1] = e
         /\ \A i \in DOMAIN s : Append(s, e)[i] = s[i]
         /\ DOMAIN Append(s, e) = DOMAIN s \cup {Len(s) + 1}
OBVIOUS

\* ChunksInv is inductive.
LEMMA ChunksInitial == Init => ChunksInv
<1> SUFFICES ASSUME Init PROVE ChunksInv
  OBVIOUS
<1>1. mel \in Nat \ {0}
  BY ChunkAssumption DEF Init, ChunkAssumption
<1>2. Total \in Nat
  BY <1>1, ClosedForm DEF Total
<1> QED
  BY <1>1, <1>2 DEF Init, ChunksInv, TypeOK, BodiesTile, TimeAxisExact,
     FrameArithmeticAgrees, Sound, Encoded

\* Each window planned is sound, each one encoded gives its body.
LEMMA ChunksStep == ChunksInv /\ [Next]_vars => ChunksInv'
<1> SUFFICES ASSUME ChunksInv, [Next]_vars PROVE ChunksInv'
  OBVIOUS
<1>0. /\ TypeOK
      /\ mel \in Nat \ {0} /\ chunk \in Nat /\ context \in Nat /\ Total \in Nat
  BY Parameters DEF ChunksInv
<1> USE DEF ChunksInv, args
<1>1. CASE RefuseChunk
  BY <1>0, <1>1 DEF RefuseChunk, TypeOK, BodiesTile, TimeAxisExact,
     FrameArithmeticAgrees, Sound, Encoded, Total
<1>2. CASE PlanWindow
  <2> DEFINE w == Window(bodyStart)
             Windows == [ctxStart : Nat, ctxEnd : Nat, bodyStart : Nat,
                         bodyEnd : Nat]
  <2>1. /\ plan' = Append(plan, w) /\ bodyStart' = w.bodyEnd
        /\ mel' = mel /\ chunk' = chunk /\ context' = context
        /\ next' = next /\ out' = out /\ result' = result
        /\ result = "Planning" /\ next = 1
    BY <1>2 DEF PlanWindow
  <2>2. /\ w \in Windows /\ Sound(w)
        /\ w.bodyStart = bodyStart /\ w.bodyEnd \in 0..Total
        /\ w.ctxStart = 0 \/ w.bodyStart - w.ctxStart = context
        /\ w.ctxEnd = Total \/ w.ctxEnd - w.bodyEnd = context
    BY <1>0, <1>2, WindowIsSound DEF PlanWindow
  <2>3. plan \in Seq(Windows)
    BY <1>0 DEF TypeOK
  <2> HIDE DEF w, Windows
  <2>4. /\ plan' \in Seq(Windows) /\ Len(plan') = Len(plan) + 1
        /\ plan'[Len(plan) + 1] = w
        /\ \A i \in DOMAIN plan : plan'[i] = plan[i]
        /\ DOMAIN plan' = DOMAIN plan \cup {Len(plan) + 1}
    BY <2>1, <2>2, <2>3, Appended
  <2>5. Total' = Total
    BY <2>1 DEF Total
  <2>6. TypeOK'
    BY <1>0, <2>1, <2>2, <2>4, <2>5 DEF TypeOK, Windows
  <2>7. (\A i \in DOMAIN plan : Sound(plan[i]))'
    BY <2>2, <2>3, <2>4, <2>5 DEF Sound
  <2>8. BodiesTile'
    <3> SUFFICES ASSUME NEW i \in DOMAIN plan'
                 PROVE  /\ plan'[i].bodyStart =
                             IF i = 1 THEN 0 ELSE plan'[i - 1].bodyEnd
                        /\ plan'[i].bodyStart < plan'[i].bodyEnd
                        /\ plan'[i].ctxStart <= plan'[i].bodyStart
                        /\ \/ plan'[i].ctxStart = 0
                           \/ plan'[i].bodyStart - plan'[i].ctxStart = context
                        /\ plan'[i].bodyEnd <= plan'[i].ctxEnd
                        /\ \/ plan'[i].ctxEnd = Total
                           \/ plan'[i].ctxEnd - plan'[i].bodyEnd = context
                        /\ i = Len(plan') => plan'[i].bodyEnd = bodyStart'
      BY <2>1, <2>5 DEF BodiesTile
    <3>1. Len(plan) \in Nat /\ DOMAIN plan = 1..Len(plan)
      BY <2>3
    <3>2. CASE i \in DOMAIN plan
      <4>1. plan'[i] = plan[i] /\ i # Len(plan')
            /\ (i # 1 => i - 1 \in DOMAIN plan /\ plan'[i - 1] = plan[i - 1])
        BY <2>4, <3>1, <3>2
      <4> QED
        BY <3>2, <4>1 DEF BodiesTile
    <3>3. CASE i = Len(plan) + 1
      <4>1. i = 1 => bodyStart = 0
        BY <3>1, <3>3
      <4>2. i # 1 => /\ i - 1 \in DOMAIN plan /\ i - 1 = Len(plan)
                     /\ plan'[i - 1] = plan[i - 1]
        BY <2>4, <3>1, <3>3
      <4>3. i # 1 => plan'[i - 1].bodyEnd = bodyStart
        BY <4>2 DEF BodiesTile
      <4> QED
        BY <2>1, <2>2, <2>4, <3>3, <4>1, <4>3 DEF Sound
    <3> QED
      BY <2>4, <3>2, <3>3
  <2>9. (Len(out) = Encoded)' /\ (Len(plan) = 0 => bodyStart = 0)'
    BY <2>1, <2>3, <2>4 DEF Encoded
  <2> QED
    BY <2>1, <2>6, <2>7, <2>8, <2>9 DEF TimeAxisExact, FrameArithmeticAgrees
<1>3. CASE Planned
  BY <1>0, <1>3 DEF Planned, TypeOK, BodiesTile, TimeAxisExact,
     FrameArithmeticAgrees, Sound, Encoded, Total
<1>4. CASE EncodeWindow
  <2> DEFINE w == plan[next]
             k == KeepEnd(w) - KeepStart(w)
  <2>1. /\ result = "Encoding" /\ next \in DOMAIN plan /\ next \in Nat \ {0}
        /\ UNCHANGED <<mel, chunk, context, bodyStart, plan>>
    BY <1>0, <1>4, SMTT(20) DEF EncodeWindow, TypeOK
  <2>2. Sound(w)
    BY <2>1
  <2>3. /\ KeepEnd(w) \in Nat /\ Produced(w) \in Nat
        /\ KeepEnd(w) <= Produced(w) /\ MelStart(w) = 8 * w.ctxStart
    BY <1>0, <2>2, WindowGivesBody DEF MelFramesPerFrame
  <2>4. Len(plan) \in Nat /\ next <= Len(plan)
    BY <1>0, <2>1, SMTT(20) DEF TypeOK
  <2>5. out' = out \o Kept(w) /\ next' = next + 1 /\ result' = result
    BY <1>4, <2>1, <2>3 DEF EncodeWindow
  <2>6. Len(out) = w.bodyStart
    BY <1>0, <2>1, <2>2 DEF Encoded, BodiesTile, TypeOK, Sound
  <2>7. k = w.bodyEnd - w.bodyStart /\ k \in Nat
    BY <2>2 DEF KeepStart, KeepEnd, Sound
  <2>8. /\ Kept(w) \in Seq(Nat) /\ Len(Kept(w)) = k
        /\ \A i \in 1..k : Kept(w)[i] = 8 * (w.bodyStart + i - 1)
    <3>1. \A i \in 1..k : MelStart(w) + MelFramesPerFrame * (KeepStart(w) + i - 1)
                            = 8 * (w.bodyStart + i - 1)
      <4> SUFFICES ASSUME NEW i \in Nat
                   PROVE  MelStart(w) + 8 * (KeepStart(w) + i - 1)
                            = 8 * (w.bodyStart + i - 1)
        BY <2>7 DEF MelFramesPerFrame
      <4>1. w.ctxStart \in Nat /\ w.bodyStart \in Nat
            /\ KeepStart(w) = w.bodyStart - w.ctxStart
        BY <2>2 DEF Sound, KeepStart
      <4> QED
        BY <2>3, <4>1
    <3>2. Kept(w) = [i \in 1..k |-> 8 * (w.bodyStart + i - 1)]
      BY <3>1 DEF Kept
    <3> HIDE DEF k
    <3>3. \A i \in 1..k : 8 * (w.bodyStart + i - 1) \in Nat
      <4>1. w.bodyStart \in Nat
        BY <2>2 DEF Sound
      <4> HIDE DEF w
      <4> QED
        BY <2>7, <4>1
    <3> QED
      BY <2>7, <3>2, <3>3
  <2> HIDE DEF w, k
  <2>9. /\ out' \in Seq(Nat) /\ Len(out') = w.bodyEnd
        /\ \A i \in DOMAIN out : out'[i] = out[i]
        /\ \A i \in 1..k : out'[w.bodyStart + i] = Kept(w)[i]
    <3>1. out \in Seq(Nat)
      BY <1>0 DEF TypeOK
    <3>2. Len(Kept(w)) = k /\ Kept(w) \in Seq(Nat)
      BY <2>8
    <3> DEFINE kept == Kept(w)
    <3> HIDE DEF kept
    <3>3. /\ out \o kept \in Seq(Nat) /\ Len(out \o kept) = Len(out) + Len(kept)
          /\ \A i \in DOMAIN out : (out \o kept)[i] = out[i]
          /\ \A i \in 1..Len(kept) : (out \o kept)[Len(out) + i] = kept[i]
      <4>1. kept \in Seq(Nat)
        BY <3>2 DEF kept
      <4> QED
        BY <3>1, <4>1, SMTT(20)
    <3>4. out' = out \o kept /\ Len(kept) = k /\ Len(out) = w.bodyStart
          /\ w.bodyStart + k = w.bodyEnd
      BY <2>2, <2>5, <2>6, <2>7, <3>2 DEF kept, Sound
    <3> QED
      BY <3>3, <3>4 DEF kept
  <2>10. TimeAxisExact'
    <3> SUFFICES ASSUME NEW i \in DOMAIN out'
                 PROVE  out'[i] = 8 * (i - 1)
      BY DEF TimeAxisExact, MelFramesPerFrame
    <3>1. CASE i <= w.bodyStart
      <4>1. i \in DOMAIN out
        BY <1>0, <2>2, <2>6, <2>9, <3>1 DEF TypeOK, Sound
      <4> QED
        BY <2>9, <4>1 DEF TimeAxisExact, MelFramesPerFrame
    <3>2. CASE i > w.bodyStart
      <4>1. i - w.bodyStart \in 1..k /\ i = w.bodyStart + (i - w.bodyStart)
        BY <2>2, <2>7, <2>9, <3>2, SMTT(20) DEF Sound
      <4> QED
        BY <2>2, <2>7, <2>8, <2>9, <4>1 DEF Sound
    <3> QED
      BY <2>2, <2>9, <3>1, <3>2 DEF Sound
  <2>11. TypeOK' /\ Total' = Total
    <3>1. next' \in 1..(Len(plan') + 1)
      BY <2>1, <2>4, <2>5
    <3> QED
      BY <1>0, <2>1, <2>5, <2>9, <3>1 DEF TypeOK, Total
  <2>12. (Len(out) = Encoded)'
    BY <2>1, <2>5, <2>9 DEF Encoded, w
  <2> QED
    BY <2>1, <2>5, <2>10, <2>11, <2>12 DEF BodiesTile, Sound, FrameArithmeticAgrees
<1>5. CASE EncodeFails
  BY <1>0, <1>5 DEF EncodeFails, TypeOK, BodiesTile, TimeAxisExact,
     FrameArithmeticAgrees, Sound, Encoded, Total
<1>6. CASE Stitched
  <2>1. Len(plan) \in Nat /\ next = Len(plan) + 1
    BY <1>0, <1>6 DEF Stitched, TypeOK
  <2>2. Encoded = Total
    BY <1>0, <1>6, <2>1 DEF Stitched, Encoded, BodiesTile, TypeOK
  <2>3. result' = "Ok" /\ UNCHANGED <<args, bodyStart, plan, next, out>>
    BY <1>6, <2>2 DEF Stitched
  <2> QED
    BY <1>0, <1>6, <2>3 DEF Stitched, TypeOK, BodiesTile, TimeAxisExact,
       FrameArithmeticAgrees, Sound, Encoded, Total
<1>7. CASE UNCHANGED vars
  BY <1>0, <1>7 DEF vars, TypeOK, BodiesTile, TimeAxisExact,
     FrameArithmeticAgrees, Sound, Encoded, Total
<1> QED
  BY <1>1, <1>2, <1>3, <1>4, <1>5, <1>6, <1>7 DEF Next

\* plan_chunks: the bodies tile the utterance, for every chunk and context.
THEOREM BodiesTileAlways == Spec => []BodiesTile
<1>1. ChunksInv => BodiesTile
  BY DEF ChunksInv
<1> QED
  BY <1>1, ChunksInitial, ChunksStep, PTL DEF Spec

\* encode_audio_chunked: no seam drops, repeats or shifts a frame.
THEOREM TimeAxisExactAlways == Spec => []TimeAxisExact
<1>1. ChunksInv => TimeAxisExact
  BY DEF ChunksInv
<1> QED
  BY <1>1, ChunksInitial, ChunksStep, PTL DEF Spec

\* encode_audio_chunked: planner and subsampler never disagree, so that the
\* errors that say so are unreachable.
THEOREM FrameArithmeticAgreesAlways == Spec => []FrameArithmeticAgrees
<1>1. ChunksInv => FrameArithmeticAgrees
  BY DEF ChunksInv
<1> QED
  BY <1>1, ChunksInitial, ChunksStep, PTL DEF Spec
=============================================================================
