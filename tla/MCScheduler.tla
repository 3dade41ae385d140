----------------------------- MODULE MCScheduler -----------------------------
(***************************************************************************)
(* Scheduler on small instances. The model is sensitive to the whole       *)
(* context it is given: its length, its first and its last token.          *)
(***************************************************************************)
EXTENDS Scheduler

MCToken == 0..6
MCDecodeOne(context) ==
  (2 * Head(context) + 3 * Last(context) + Len(context)) % 7

TwoPrompts == {<<>>, <<1>>, <<4, 2>>}
OnePrompt == {<<1>>}
\* Three tokens of output with a prompt of two is over the context limit
MCLimits == [prompt |-> 2, output |-> 3, context |-> 4]
=============================================================================
