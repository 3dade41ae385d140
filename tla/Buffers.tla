------------------------------- MODULE Buffers -------------------------------
(***************************************************************************)
(* What the kernels of crates/kernels share: flat buffers of f32, lengths  *)
(* computed with checked arithmetic, and the split of an output among      *)
(* workers.                                                                *)
(*                                                                         *)
(* A kernel is described by its tasks: a function from whatever runs (a    *)
(* round of a loop, a worker's share of one, a unit of a GPU) to what it   *)
(* writes and what it computes that from. Numbers themselves are left out. *)
(***************************************************************************)
EXTENDS Integers, Sequences, FiniteSets, SequencesExt

CONSTANTS
  MaxUsize,     \* the largest usize
  MaxU32        \* the largest u32, which limits a launch on the GPU

ASSUME BuffersAssumption == {MaxUsize, MaxU32} \subseteq Nat \ {0}

\* checked_len_product: a product that is too large at any factor is refused
FitsUsize(dims) ==
  LET product[n \in 0..Len(dims)] == IF n = 0 THEN 1 ELSE product[n - 1] * dims[n]
  IN  \A n \in 0..Len(dims) : product[n] <= MaxUsize

CeilDiv(n, d) == (n + d - 1) \div d
Upto(n) == 0..(n - 1)
AtLeastOne(n) == IF n = 0 THEN 1 ELSE n
Smaller(m, n) == IF m <= n THEN m ELSE n

\* Multiples of a step below a bound
Steps(bound, step) == {n \in 0..(bound - 1) : n % step = 0}

\* par_chunks_mut: every chunk has the size, except that the last is shorter
Chunks(len, size) ==
  [c \in 0..(CeilDiv(len, size) - 1) |->
     [first |-> c * size, len |-> Smaller(size, len - c * size)]]

\* What a call comes to: whether it is accepted, and what is computed
Outcome(ok, tasks) == [ok |-> ok, tasks |-> IF ok THEN tasks ELSE <<>>]

\* Tasks do what a reference says: everything it lists is written, by one
\* task, from what it says, and nothing else is written.
Performs(tasks, reference) ==
  /\ Cardinality(DOMAIN tasks) = Cardinality(DOMAIN reference)
  /\ \A u \in DOMAIN tasks :
       /\ tasks[u].out \in DOMAIN reference
       /\ tasks[u].from = reference[tasks[u].out]
  /\ \A u, v \in DOMAIN tasks : tasks[u].out = tasks[v].out => u = v
==============================================================================
