----------------------------- MODULE TensorLocks -----------------------------
(***************************************************************************)
(* The mutexes of host tensors (crates/kernels/src/tensor.rs) as the       *)
(* device-tensor kernels of the CPU backend take them                      *)
(* (crates/kernels/src/cpu_backend.rs): a kernel borrows its operands one  *)
(* by one, in the order it names them, and keeps every guard until it      *)
(* returns. Several requests run kernels on tensors they share: a model's  *)
(* weights, the cross-attention K/V of encoded audio, the K/V rows of      *)
(* cloned decoder states.                                                  *)
(*                                                                         *)
(* len() and the shape checks take a mutex while they hold no other and    *)
(* give it back at once, and are left out.                                 *)
(*                                                                         *)
(* AttentionValueFirst and CacheAppendNoBlock are slips that the checks    *)
(* must notice; no behaviour uses them.                                    *)
(***************************************************************************)
EXTENDS Naturals, Sequences, FiniteSets

CONSTANTS
  Threads,     \* requests that run kernels
  Tensors,     \* DeviceTensor handles; clones of a handle are one handle
  Storages,    \* what handles are backed by, one mutex each
  Storage,     \* the storage of a handle; for a view, that of its source
  OnDevice,    \* the storages of a backend's own, which have no mutex
  Views,       \* the handles that are read-only views
  Program,     \* per thread, the kernel calls it may make
  MaxCalls,    \* bound: so many calls of each thread
  Nobody       \* owner of a mutex that is free

\* An operand that a kernel borrows or copies, to read it or to write it
Access == [tensor : Tensors, mut : BOOLEAN]

\* also: borrowed after the others, an error if it cannot be.
\* fallback: operands copied to the host one by one, then written
KernelPhase ==
  [borrows : Seq(Access), also : Seq(Access), fallback : Seq(Access)]

ASSUME LockAssumption ==
  /\ Storage \in [Tensors -> Storages]
  /\ \A t \in Threads : Program[t] \subseteq Seq(KernelPhase)
  /\ OnDevice \subseteq Storages
  /\ Views \subseteq Tensors
  /\ MaxCalls \in Nat
  /\ Nobody \notin Threads

VARIABLES
  owner,    \* per storage, the thread that holds its mutex
  thread    \* per thread, the kernel call it is in

vars == <<owner, thread>>

-----------------------------------------------------------------------------
(***************************************************************************)
(* Kernel calls. A call is a sequence of phases; at the end of each phase  *)
(* its guards are dropped. A phase borrows operands and, if one of them    *)
(* could not be borrowed, falls back to a host copy of its inputs.         *)
(***************************************************************************)
Reading(tensor) == [tensor |-> tensor, mut |-> FALSE]
Writing(tensor) == [tensor |-> tensor, mut |-> TRUE]

Phase(borrows, also, fallback) ==
  [borrows |-> borrows, also |-> also, fallback |-> fallback]

LinearD(x, weight, bias, out) ==
  LET readBias == [i \in DOMAIN bias |-> Reading(bias[i])]
  IN  <<Phase(<<Reading(x), Reading(weight), Writing(out)>>,
              readBias,
              <<Reading(x), Reading(weight)>> \o readBias \o <<Writing(out)>>)>>

AddInplaceD(lhs, rhs) ==
  <<Phase(<<Writing(lhs), Reading(rhs)>>, <<>>,
          <<Reading(lhs), Reading(rhs), Writing(lhs)>>)>>

LayerNormD(x, weight, bias, out) ==
  <<Phase(<<Reading(x), Reading(weight), Reading(bias), Writing(out)>>, <<>>,
          <<Reading(x), Reading(weight), Reading(bias), Writing(out)>>)>>

\* attention_encoder_d, attention_decoder_cross_d and
\* attention_decoder_incremental_cache_d
AttentionValueFirst(q, k, v, out) ==
  <<Phase(<<Reading(q), Reading(v), Reading(k), Writing(out)>>, <<>>,
          <<Reading(q), Reading(v), Reading(k), Writing(out)>>)>>
AttentionD(q, k, v, out) ==
  <<Phase(<<Reading(q), Reading(k), Reading(v), Writing(out)>>, <<>>,
          <<Reading(q), Reading(k), Reading(v), Writing(out)>>)>>

\* The rows are appended in a block of their own; its fallback copies them
\* one after the other with copy_into_d while the block's guards are held
CacheAppendNoBlock(q, k, v, newK, newV, out) ==
  <<Phase(<<Reading(newK), Reading(newV), Writing(k), Writing(v),
            Reading(q), Reading(k), Reading(v), Writing(out)>>, <<>>,
          <<Reading(newK), Writing(k), Reading(newV), Writing(v)>>)>>
CacheAppendD(q, k, v, newK, newV, out) ==
  <<Phase(<<Reading(newK), Reading(newV), Writing(k), Writing(v)>>, <<>>,
          <<Reading(newK), Writing(k), Reading(newV), Writing(v)>>)>>
  \o AttentionD(q, k, v, out)

-----------------------------------------------------------------------------
StorageOf(operand) == Storage[operand.tensor]
HasMutex(operand) == StorageOf(operand) \notin OnDevice
Borrowable(operand) ==
  HasMutex(operand) /\ ~(operand.mut /\ operand.tensor \in Views)

At(t) == thread[t].at
Todo(t) == thread[t].todo
Operand(t) == Head(Todo(t))
Wanted(t) == StorageOf(Operand(t))

\* owner once all guards of t are dropped
DropGuards(t) ==
  [s \in Storages |-> IF owner[s] = t THEN Nobody ELSE owner[s]]

\* A thread that starts on the phases that are left, or is done
Entering(me, phases) ==
  IF phases = <<>>
  THEN [me EXCEPT !.at = "Idle", !.todo = <<>>, !.fellBack = FALSE,
                  !.phases = <<>>, !.result = "Ok"]
  ELSE [me EXCEPT !.at = "Borrow", !.todo = Head(phases).borrows,
                  !.fellBack = FALSE, !.phases = phases, !.result = "None"]

\* A thread calls a kernel
Call(t, phases) ==
  /\ At(t) = "Idle"
  /\ thread[t].calls < MaxCalls
  /\ LET calling == [thread[t] EXCEPT !.calls = @ + 1]
     IN  thread' = [thread EXCEPT ![t] = Entering(calling, phases)]
  /\ UNCHANGED owner

\* borrow_host_slice and borrow_host_slice_mut: wait for the mutex and keep it
Borrow(t) ==
  /\ At(t) \in {"Borrow", "Also"}
  /\ Todo(t) # <<>>
  /\ Borrowable(Operand(t))
  /\ owner[Wanted(t)] = Nobody
  /\ owner' = [owner EXCEPT ![Wanted(t)] = t]
  /\ thread' = [thread EXCEPT ![t].todo = Tail(@)]

\* They answer an error and take no mutex. What could be borrowed stays so.
CannotBorrow(t) ==
  /\ At(t) = "Borrow"
  /\ Todo(t) # <<>>
  /\ ~Borrowable(Operand(t))
  /\ thread' = [thread EXCEPT ![t].todo = Tail(@), ![t].fellBack = TRUE]
  /\ UNCHANGED owner

Borrowed(t) ==
  /\ At(t) = "Borrow"
  /\ Todo(t) = <<>>
  /\ LET phase == Head(thread[t].phases)
     IN  thread' = [thread EXCEPT
           ![t].at = IF thread[t].fellBack THEN "CopyOut" ELSE "Also",
           ![t].todo = IF thread[t].fellBack THEN phase.fallback ELSE phase.also]
  /\ UNCHANGED owner

\* to_host_owned and write_from_host_slice: hold the mutex while they copy
CopyOut(t) ==
  /\ At(t) = "CopyOut"
  /\ Todo(t) # <<>>
  /\ ~(Operand(t).mut /\ Operand(t).tensor \in Views)
  /\ HasMutex(Operand(t)) => owner[Wanted(t)] = Nobody
  /\ thread' = [thread EXCEPT ![t].todo = Tail(@)]
  /\ UNCHANGED owner

\* A view is not written to, and what is borrowed after the others must be
Fail(t) ==
  /\ Todo(t) # <<>>
  /\ \/ At(t) = "CopyOut" /\ Operand(t).mut /\ Operand(t).tensor \in Views
     \/ At(t) = "Also" /\ ~Borrowable(Operand(t))
  /\ owner' = DropGuards(t)
  /\ thread' = [thread EXCEPT ![t].at = "Idle", ![t].todo = <<>>,
                              ![t].fellBack = FALSE, ![t].phases = <<>>,
                              ![t].result = "Kernel"]

\* The arithmetic, and the end of the phase
Finish(t) ==
  /\ At(t) \in {"Also", "CopyOut"}
  /\ Todo(t) = <<>>
  /\ owner' = DropGuards(t)
  /\ thread' = [thread EXCEPT ![t] = Entering(@, Tail(@.phases))]

-----------------------------------------------------------------------------
Init ==
  /\ owner = [s \in Storages |-> Nobody]
  /\ thread = [t \in Threads |->
       [at |-> "Idle", todo |-> <<>>, fellBack |-> FALSE, phases |-> <<>>,
        calls |-> 0, result |-> "None"]]

Progress(t) ==
  Borrow(t) \/ CannotBorrow(t) \/ Borrowed(t) \/ CopyOut(t) \/ Fail(t) \/ Finish(t)

Next ==
  \E t \in Threads : Progress(t) \/ \E phases \in Program[t] : Call(t, phases)

Spec == Init /\ [][Next]_vars

\* A thread that can go on goes on; which of the waiting ones a free mutex is
\* given to is left open
FairSpec == Spec /\ \A t \in Threads : WF_vars(Progress(t))

-----------------------------------------------------------------------------
\* Types of the threads.
TypeOK ==
  /\ owner \in [Storages -> Threads \cup {Nobody}]
  /\ thread \in [Threads ->
       [at : {"Idle", "Borrow", "Also", "CopyOut"}, todo : Seq(Access),
        fellBack : BOOLEAN, phases : Seq(KernelPhase), calls : 0..MaxCalls,
        result : {"None", "Ok", "Kernel"}]]

\* A thread outside of calls holds no mutex
IdleHoldsNothing ==
  \A t \in Threads : At(t) = "Idle" => \A s \in Storages : owner[s] # t

\* t waits for a mutex that u holds
WaitsFor(t, u) ==
  /\ At(t) # "Idle"
  /\ Todo(t) # <<>>
  /\ At(t) = "CopyOut" \/ Borrowable(Operand(t))
  /\ HasMutex(Operand(t))
  /\ owner[Wanted(t)] = u

\* "The default path stays correct" (CpuKernelBackend::add_inplace_d): no
\* thread waits for a mutex that it holds itself, which it would for ever.
NeverWaitsOnItself == \A t \in Threads : ~WaitsFor(t, t)

\* No threads wait for each other in a circle: some thread of every group can
\* go on, or waits for one outside of it; and that one is in a call, for no
\* mutex is kept beyond one.
NoCircularWait ==
  /\ TypeOK
  /\ IdleHoldsNothing
  /\ \A group \in (SUBSET Threads) \ {{}} :
       \E t \in group : \A u \in group : ~WaitsFor(t, u)

\* Every kernel call returns: no order in which requests take the mutexes of
\* the weights and caches they share stops one of them.
CallsReturn == \A t \in Threads : At(t) # "Idle" ~> At(t) = "Idle"
=============================================================================
