---------------------------- MODULE GreedyDecoding ----------------------------
(***************************************************************************)
(* What a decode loop promises: each token is what the model and the mask  *)
(* give for the prompt and all tokens before it, up to the stop token or   *)
(* the number asked for. No caches, no decoder state, no order of calls.   *)
(***************************************************************************)
EXTENDS Naturals, Sequences

CONSTANTS
  Requests,          \* records with prompt, wanted and stop, among others
  NextToken(_, _),   \* of a request and the tokens so far: the next one
  NoToken            \* or this, when there is none

VARIABLES request, tokens, status

greedyVars == <<request, tokens, status>>

Accept ==
  /\ status = "New"
  /\ status' = "Decoding"
  /\ UNCHANGED <<request, tokens>>

Emit ==
  /\ status = "Decoding"
  /\ LET next == NextToken(request, tokens) IN
     /\ next # NoToken
     /\ tokens' = Append(tokens, next)
     /\ status' = IF next = request.stop \/ Len(tokens) + 1 = request.wanted
                  THEN "Done" ELSE "Decoding"
  /\ UNCHANGED request

\* Refused, or a failure on the way
Fail ==
  /\ status \in {"New", "Decoding"}
  /\ status' = "Failed"
  /\ UNCHANGED <<request, tokens>>

GreedyInit == request \in Requests /\ tokens = <<>> /\ status = "New"
GreedyNext == Accept \/ Emit \/ Fail
GreedySpec == GreedyInit /\ [][GreedyNext]_greedyVars
=============================================================================
