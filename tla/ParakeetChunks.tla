---------------------------- MODULE ParakeetChunks ----------------------------
(***************************************************************************)
(* Chunked encoding of long audio: plan_chunks                             *)
(* (crates/models/src/parakeet/chunk.rs) lays out windows one by one, and  *)
(* encode_audio_chunked (model.rs) encodes the mel frames of each, trims   *)
(* its context, and stitches what is kept.                                 *)
(*                                                                         *)
(* An encoder frame stands for the mel frame it is centred on. Sizes are   *)
(* far from usize::MAX: a context so large that body_end + context_frames  *)
(* wraps is not modelled.                                                  *)
(*                                                                         *)
(* WindowWithoutContextEnd, KeptFromZero and PlanOverlapping are slips     *)
(* that the checks must notice; no behaviour uses them.                    *)
(***************************************************************************)
EXTENDS Integers, Sequences

CONSTANTS
  MelFrames,       \* lengths of utterances
  ChunkFrames,     \* chunk_frames that callers choose
  ContextFrames    \* context_frames that callers choose

ASSUME ChunkAssumption ==
  /\ MelFrames \subseteq Nat \ {0}
  /\ ChunkFrames \subseteq Nat
  /\ ContextFrames \subseteq Nat

MelFramesPerFrame == 8

\* Three convolutions of kernel 3, stride 2 and padding 1
ConvOutLen(n) == (IF n + 2 >= 3 THEN n + 2 - 3 ELSE 0) \div 2 + 1
SubsampledFrames(n) == ConvOutLen(ConvOutLen(ConvOutLen(n)))

Least(m, n) == IF m <= n THEN m ELSE n
SaturatingSub(m, n) == IF m >= n THEN m - n ELSE 0

VARIABLES
  mel,       \* mel frames of the utterance
  chunk, context,
  bodyStart, \* the planner's place
  plan,      \* the windows
  next,      \* the window to be encoded
  out,       \* per frame of the stitched output, the mel frame it is of
  result     \* "Planning", "Encoding", "Ok" or the error

vars == <<mel, chunk, context, bodyStart, plan, next, out, result>>
args == <<mel, chunk, context>>

Total == SubsampledFrames(mel)

-----------------------------------------------------------------------------
(***************************************************************************)
(* A window: the frames that are encoded, and the body that is kept.       *)
(***************************************************************************)
WindowWithoutContextEnd(start) ==
  LET end == Least(start + chunk, Total) IN
  [ctxStart |-> SaturatingSub(start, context),
   ctxEnd |-> Least(end + context, Total) - 1,
   bodyStart |-> start, bodyEnd |-> end]
Window(start) ==
  LET end == Least(start + chunk, Total) IN
  [ctxStart |-> SaturatingSub(start, context),
   ctxEnd |-> Least(end + context, Total),
   bodyStart |-> start, bodyEnd |-> end]

\* mel_range: half-open
MelStart(w) == Least(w.ctxStart * MelFramesPerFrame, mel)
MelEnd(w) ==
  LET end == Least(w.ctxEnd * MelFramesPerFrame, mel)
  IN  IF end >= MelStart(w) THEN end ELSE MelStart(w)

\* Frames the encoder gives for the window's mel frames
Produced(w) == SubsampledFrames(MelEnd(w) - MelStart(w))

\* keep_range: local frames, half-open
KeepStart(w) == w.bodyStart - w.ctxStart
KeepEnd(w) == w.bodyEnd - w.ctxStart

\* The mel frames that the kept frames are of
KeptFromZero(w) ==
  [i \in 1..(KeepEnd(w) - KeepStart(w)) |->
     MelStart(w) + MelFramesPerFrame * (i - 1)]
Kept(w) ==
  [i \in 1..(KeepEnd(w) - KeepStart(w)) |->
     MelStart(w) + MelFramesPerFrame * (KeepStart(w) + i - 1)]

-----------------------------------------------------------------------------
RefuseChunk ==
  /\ result = "Planning"
  /\ chunk = 0
  /\ result' = "Runtime"
  /\ UNCHANGED <<args, bodyStart, plan, next, out>>

PlanOverlapping ==
  /\ result = "Planning"
  /\ chunk # 0
  /\ bodyStart < Total
  /\ plan' = Append(plan, Window(bodyStart))
  /\ bodyStart' = IF bodyStart = 0 THEN chunk ELSE Window(bodyStart).bodyEnd - 1
  /\ UNCHANGED <<args, next, out, result>>
PlanWindow ==
  /\ result = "Planning"
  /\ chunk # 0
  /\ bodyStart < Total
  /\ plan' = Append(plan, Window(bodyStart))
  /\ bodyStart' = Window(bodyStart).bodyEnd
  /\ UNCHANGED <<args, next, out, result>>

Planned ==
  /\ result = "Planning"
  /\ chunk # 0
  /\ bodyStart >= Total
  /\ result' = "Encoding"
  /\ UNCHANGED <<args, bodyStart, plan, next, out>>

\* One round of encode_audio_chunked's loop, and its check that the encoder
\* gave enough frames
EncodeWindow ==
  /\ result = "Encoding"
  /\ next <= Len(plan)
  /\ LET w == plan[next] IN
     \/ /\ KeepEnd(w) <= Produced(w)
        /\ out' = out \o Kept(w)
        /\ next' = next + 1
        /\ UNCHANGED result
     \/ /\ KeepEnd(w) > Produced(w)
        /\ result' = "Disagree"
        /\ UNCHANGED <<next, out>>
  /\ UNCHANGED <<args, bodyStart, plan>>

\* A kernel of encode_features returns an error
EncodeFails ==
  /\ result = "Encoding"
  /\ next <= Len(plan)
  /\ result' = "Runtime"
  /\ UNCHANGED <<args, bodyStart, plan, next, out>>

Stitched ==
  /\ result = "Encoding"
  /\ next > Len(plan)
  /\ result' = IF Len(out) = Total THEN "Ok" ELSE "Miscounted"
  /\ UNCHANGED <<args, bodyStart, plan, next, out>>

-----------------------------------------------------------------------------
Init ==
  /\ mel \in MelFrames
  /\ chunk \in ChunkFrames
  /\ context \in ContextFrames
  /\ bodyStart = 0 /\ plan = <<>> /\ next = 1 /\ out = <<>>
  /\ result = "Planning"

Next ==
  \/ RefuseChunk \/ PlanWindow \/ Planned
  \/ EncodeWindow \/ EncodeFails \/ Stitched

Spec == Init /\ [][Next]_vars

-----------------------------------------------------------------------------
\* Types, and the planner's place is within the utterance.
TypeOK ==
  /\ mel \in MelFrames /\ chunk \in ChunkFrames /\ context \in ContextFrames
  /\ bodyStart \in 0..Total
  /\ plan \in Seq([ctxStart : Nat, ctxEnd : Nat, bodyStart : Nat, bodyEnd : Nat])
  /\ next \in 1..(Len(plan) + 1)
  /\ out \in Seq(Nat)
  /\ result \in {"Planning", "Encoding", "Ok", "Runtime", "Disagree", "Miscounted"}

\* "The bodies tile [0, total_frames) exactly - no gaps, no overlap"
\* (plan_chunks), each inside the frames that are encoded for it, with all the
\* context asked for except beyond the ends of the audio.
BodiesTile ==
  \A i \in DOMAIN plan :
    LET w == plan[i] IN
    /\ w.bodyStart = IF i = 1 THEN 0 ELSE plan[i - 1].bodyEnd
    /\ w.bodyStart < w.bodyEnd
    /\ w.ctxStart <= w.bodyStart
    /\ w.ctxStart = 0 \/ w.bodyStart - w.ctxStart = context
    /\ w.bodyEnd <= w.ctxEnd
    /\ w.ctxEnd = Total \/ w.ctxEnd - w.bodyEnd = context
    /\ i = Len(plan) => w.bodyEnd = bodyStart

\* The time axis of the stitched output: its frames are those of a single
\* encode of the whole utterance, in order and each once, over all seams.
TimeAxisExact ==
  \A i \in DOMAIN out : out[i] = MelFramesPerFrame * (i - 1)

\* The planner's closed form, the mel ranges and the subsampler's frame count
\* agree: the loud errors of encode_audio_chunked cannot be reached.
FrameArithmeticAgrees == result \notin {"Disagree", "Miscounted"}
=============================================================================
