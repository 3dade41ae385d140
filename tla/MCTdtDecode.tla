------------------------------ MODULE MCTdtDecode ------------------------------
(***************************************************************************)
(* TdtDecode for a few frames, with durations that stall, go on by one and *)
(* jump beyond the end.                                                    *)
(***************************************************************************)
EXTENDS TdtDecode

StallOrMove == 0..2
=============================================================================
