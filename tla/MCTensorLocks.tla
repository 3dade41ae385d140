---------------------------- MODULE MCTensorLocks ----------------------------
(***************************************************************************)
(* TensorLocks for two decoder states of Whisper, clones of each other,    *)
(* that two threads append a token to: scratch tensors of their own, and   *)
(* the weights, K/V cache and encoded audio of both.                       *)
(***************************************************************************)
EXTENDS TensorLocks

CONSTANTS A, B    \* the two threads

Scratch(t) == {<<t, i>> : i \in {"q", "k", "v", "out"}}
Shared == {"w", "b", "key", "value"}
HostTensors == Scratch(A) \cup Scratch(B) \cup {<<"s", i>> : i \in Shared}
HostStorage == [tensor \in HostTensors |-> tensor]
S(i) == <<"s", i>>

\* One decoder layer: normalisation, projection, residual, self-attention
\* with append, cross-attention
LayerCalls(t) ==
  LET q == <<t, "q">>  k == <<t, "k">>  v == <<t, "v">>  out == <<t, "out">>
  IN  {LayerNormD(q, S("w"), S("b"), out),
       LinearD(q, S("w"), <<S("b")>>, out),
       LinearD(q, S("w"), <<>>, out),
       AddInplaceD(q, out),
       CacheAppendD(q, S("key"), S("value"), k, v, out),
       AttentionD(q, S("key"), S("value"), out)}

\* Tensors of a device backend, given to the CPU backend: every operand of a
\* call is one, or all but the bias, or only the bias, or the output is a view
Device(i) == <<"device", i>>
MCTensors == HostTensors \cup {Device(i) : i \in {"x", "w", "out", "view"}}
MCStorage ==
  [tensor \in MCTensors |->
     IF tensor = Device("view") THEN Device("out") ELSE tensor]
MCOnDevice == {Device("x"), Device("w"), Device("out"), Device("view")}
MCViews == {Device("view")}
FallbackCalls(t) ==
  {LinearD(Device("x"), Device("w"), <<>>, Device("out")),
   LinearD(Device("x"), Device("w"), <<S("b")>>, Device("out")),
   LinearD(Device("x"), Device("w"), <<S("b")>>, Device("view")),
   LinearD(<<t, "q">>, S("w"), <<Device("x")>>, <<t, "out">>)}
MCProgram == [t \in Threads |-> LayerCalls(t) \cup FallbackCalls(t)]

\* A projection whose weight is a device's
NoStorages == {}
WeightOnDevice == {S("w")}
MixedProgram ==
  [t \in Threads |->
     {LinearD(<<t, "q">>, S("w"), <<S("b")>>, <<t, "out">>),
      AddInplaceD(<<t, "q">>, <<t, "out">>)}]
=============================================================================
