----------------------------- MODULE MCSampling -----------------------------
(***************************************************************************)
(* Sampling for all vocabularies of at most three tokens.                  *)
(***************************************************************************)
EXTENDS Sampling

Numbers == -1..1    \* -1 stands for minus infinity
Lowest == -1
AllSamplers == {"Greedy", "Masked", "Tdt"}
OnlyGreedy == {"Greedy"}
=============================================================================
