----------------------------- MODULE ChunkPlanner -----------------------------
(***************************************************************************)
(* plan_transcription_chunks (crates/runtime/src/whisper/streaming.rs):    *)
(* the chunks of long audio. A request is [samples, window, overlap], in   *)
(* samples; a chunk is [start, end, last], half-open.                      *)
(***************************************************************************)
EXTENDS Buffers

\* validate_chunk_request
ChunkRequestAccepted(r) == r.samples > 0 /\ r.window > 0 /\ r.overlap < r.window

Step(r) == r.window - r.overlap
ChunkAt(r, start) ==
  LET end == Smaller(start + r.window, r.samples)
  IN  [start |-> start, end |-> end, last |-> end = r.samples]

\* The loop, from a start on. It is refused where a start or the end of a window
\* cannot be counted; what it planned so far is then without a last chunk.
WindowFits(r, start) == start + r.window <= MaxUsize
Plan(r) ==
  LET from[start \in Nat] ==
        IF ~WindowFits(r, start) THEN <<>>
        ELSE <<ChunkAt(r, start)>>
             \o (IF ChunkAt(r, start).last \/ start + Step(r) > MaxUsize THEN <<>>
                 ELSE from[start + Step(r)])
  IN  from[0]
Planned(plan) == plan # <<>> /\ Last(plan).last
===============================================================================
