--------------------------- MODULE TensorLocksProofs ---------------------------
(***************************************************************************)
(* Threads that take the mutexes they share in one order never wait in a   *)
(* circle, however many they are and whatever kernels they run; and the    *)
(* kernels of a Whisper decoder layer do take them in one order.           *)
(***************************************************************************)
EXTENDS TensorLocks, WellFoundedInduction, TLAPS

(***************************************************************************)
(* A lock order, which the code does not state: under a rank of the        *)
(* storages that several threads use, a call takes their mutexes by        *)
(* decreasing rank, none twice, and falls back only to mutexes below those *)
(* that it holds.                                                          *)
(***************************************************************************)
Elems(accesses) == {accesses[i] : i \in DOMAIN accesses}

Uses(t, s) ==
  \E phases \in Program[t] : \E i \in DOMAIN phases :
    \E a \in Elems(phases[i].borrows) \cup Elems(phases[i].also)
             \cup Elems(phases[i].fallback) : StorageOf(a) = s
SharedStorage(s) == \E t, u \in Threads : t # u /\ Uses(t, s) /\ Uses(u, s)

Precedes(rank, s, next) ==
  s # next /\ (SharedStorage(s) /\ SharedStorage(next) => rank[next] < rank[s])

InOrder(rank, accesses) ==
  \A i, j \in DOMAIN accesses :
    i < j /\ Borrowable(accesses[i]) /\ Borrowable(accesses[j])
    => Precedes(rank, StorageOf(accesses[i]), StorageOf(accesses[j]))

OrderedPhase(rank, phase) ==
  /\ InOrder(rank, phase.borrows)
  /\ InOrder(rank, phase.also)
  /\ \A a \in Elems(phase.borrows), b \in Elems(phase.also) :
       Borrowable(a) /\ Borrowable(b)
       => Precedes(rank, StorageOf(a), StorageOf(b))
  /\ (\E a \in Elems(phase.borrows) : ~Borrowable(a))
     => \A a \in Elems(phase.borrows), b \in Elems(phase.fallback) :
          Borrowable(a) /\ HasMutex(b)
          => Precedes(rank, StorageOf(a), StorageOf(b))

OrderedCalls(rank) ==
  \A t \in Threads : \A phases \in Program[t] : \A i \in DOMAIN phases :
    OrderedPhase(rank, phases[i])

-----------------------------------------------------------------------------
(***************************************************************************)
(* The inductive invariant: what a thread holds comes before all that it   *)
(* has yet to borrow.                                                      *)
(***************************************************************************)
Holds(t, s) == owner[s] = t
CallPhase(t, phase) ==
  \E phases \in Program[t] : \E i \in DOMAIN phases : phase = phases[i]
Current(t) == Head(thread[t].phases)

Borrowing(rank, t) ==
  /\ Elems(Todo(t)) \subseteq Elems(Current(t).borrows)
  /\ InOrder(rank, Todo(t))
  /\ \A s \in Storages, a \in Elems(Todo(t)) :
       Holds(t, s) /\ Borrowable(a) => Precedes(rank, s, StorageOf(a))
  /\ thread[t].fellBack => \E a \in Elems(Current(t).borrows) : ~Borrowable(a)
  /\ \A s \in Storages : Holds(t, s) =>
       \E a \in Elems(Current(t).borrows) : Borrowable(a) /\ StorageOf(a) = s

BorrowingAlso(rank, t) ==
  /\ Elems(Todo(t)) \subseteq Elems(Current(t).also)
  /\ InOrder(rank, Todo(t))
  /\ \A s \in Storages, a \in Elems(Todo(t)) :
       Holds(t, s) /\ Borrowable(a) => Precedes(rank, s, StorageOf(a))

CopyingOut(rank, t) ==
  /\ Elems(Todo(t)) \subseteq Elems(Current(t).fallback)
  /\ \A s \in Storages, a \in Elems(Todo(t)) :
       Holds(t, s) /\ HasMutex(a) => Precedes(rank, s, StorageOf(a))

ThreadInv(rank, t) ==
  /\ \A i \in DOMAIN thread[t].phases : CallPhase(t, thread[t].phases[i])
  /\ At(t) = "Idle" => \A s \in Storages : ~Holds(t, s)
  /\ At(t) # "Idle" => thread[t].phases # <<>>
  /\ At(t) = "Borrow" => Borrowing(rank, t)
  /\ At(t) = "Also" => BorrowingAlso(rank, t)
  /\ At(t) = "CopyOut" => CopyingOut(rank, t)
  /\ \A s \in Storages : Holds(t, s) => Uses(t, s)

LockInv(rank) == TypeOK /\ \A t \in Threads : ThreadInv(rank, t)

-----------------------------------------------------------------------------
ThreadRecord ==
  [at : {"Idle", "Borrow", "Also", "CopyOut"}, todo : Seq(Access),
   fellBack : BOOLEAN, phases : Seq(KernelPhase), calls : 0..MaxCalls,
   result : {"None", "Ok", "Kernel"}]

\* What is left once the head of a sequence is taken (todo, phases).
LEMMA Taken ==
  ASSUME NEW S, NEW q \in Seq(S), q # <<>>
  PROVE  /\ Head(q) \in Elems(q) /\ Head(q) \in S
         /\ Tail(q) \in Seq(S)
         /\ Elems(Tail(q)) \subseteq Elems(q)
         /\ Elems(q) \subseteq S
<1>1. /\ Len(q) \in Nat /\ Len(q) >= 1 /\ DOMAIN q = 1..Len(q)
      /\ Head(q) = q[1] /\ Tail(q) \in Seq(S)
      /\ DOMAIN Tail(q) = 1..(Len(q) - 1)
      /\ \A i \in 1..(Len(q) - 1) : Tail(q)[i] = q[i + 1]
  OBVIOUS
<1>2. \A i \in DOMAIN Tail(q) : i + 1 \in DOMAIN q /\ Tail(q)[i] = q[i + 1]
  BY <1>1
<1>3. 1 \in DOMAIN q /\ \A i \in DOMAIN q : q[i] \in S
  BY <1>1
<1> QED BY <1>1, <1>2, <1>3 DEF Elems

\* The accesses left are in order, and the one taken comes before them
\* (borrow_host_slice, one operand after another).
LEMMA OrderTaken ==
  ASSUME NEW rank, NEW q \in Seq(Access), q # <<>>, InOrder(rank, q)
  PROVE  /\ InOrder(rank, Tail(q))
         /\ \A a \in Elems(Tail(q)) :
              Borrowable(Head(q)) /\ Borrowable(a)
              => Precedes(rank, StorageOf(Head(q)), StorageOf(a))
<1>1. /\ Len(q) \in Nat /\ Len(q) >= 1 /\ DOMAIN q = 1..Len(q)
      /\ Head(q) = q[1]
      /\ DOMAIN Tail(q) = 1..(Len(q) - 1)
      /\ \A i \in 1..(Len(q) - 1) : Tail(q)[i] = q[i + 1]
  OBVIOUS
<1>2. \A i \in DOMAIN Tail(q) :
        i \in Nat /\ 1 < i + 1 /\ i + 1 \in DOMAIN q /\ Tail(q)[i] = q[i + 1]
  BY <1>1
<1>3. InOrder(rank, Tail(q))
  <2> SUFFICES ASSUME NEW i \in DOMAIN Tail(q), NEW j \in DOMAIN Tail(q), i < j,
                      Borrowable(Tail(q)[i]), Borrowable(Tail(q)[j])
               PROVE  Precedes(rank, StorageOf(Tail(q)[i]), StorageOf(Tail(q)[j]))
    BY DEF InOrder
  <2>1. i + 1 < j + 1
    BY <1>2
  <2> QED BY <1>2, <2>1 DEF InOrder
<1>4. ASSUME NEW i \in DOMAIN Tail(q), Borrowable(Head(q)), Borrowable(Tail(q)[i])
      PROVE  Precedes(rank, StorageOf(Head(q)), StorageOf(Tail(q)[i]))
  <2>1. 1 \in DOMAIN q
    BY <1>1
  <2> QED BY <1>1, <1>2, <1>4, <2>1 DEF InOrder
<1> QED BY <1>3, <1>4 DEF Elems

\* The phase a thread is in is one of a call of its own, and in order.
LEMMA CurrentOrdered ==
  ASSUME NEW rank, OrderedCalls(rank), TypeOK, NEW t \in Threads,
         ThreadInv(rank, t), At(t) # "Idle"
  PROVE  /\ CallPhase(t, Current(t)) /\ OrderedPhase(rank, Current(t))
         /\ Current(t) \in KernelPhase
         /\ Tail(thread[t].phases) \in Seq(KernelPhase)
         /\ \A i \in DOMAIN Tail(thread[t].phases) :
              CallPhase(t, Tail(thread[t].phases)[i])
<1> DEFINE q == thread[t].phases
<1>1. q \in Seq(KernelPhase) /\ q # <<>> /\ \A i \in DOMAIN q : CallPhase(t, q[i])
  BY DEF TypeOK, ThreadInv
<1>2. \A a \in Elems(q) : CallPhase(t, a)
  BY <1>1 DEF Elems
<1>3. /\ Head(q) \in Elems(q) /\ Head(q) \in KernelPhase
      /\ Tail(q) \in Seq(KernelPhase) /\ Elems(Tail(q)) \subseteq Elems(q)
  BY <1>1, Taken
<1>4. \A i \in DOMAIN Tail(q) : Tail(q)[i] \in Elems(q)
  BY <1>3 DEF Elems
<1>5. CallPhase(t, Head(q))
  BY <1>2, <1>3
<1>6. OrderedPhase(rank, Head(q))
  BY <1>5 DEF CallPhase, OrderedCalls
<1> QED BY <1>2, <1>3, <1>4, <1>5, <1>6 DEF Current

\* A thread uses the storage of any operand of the phase it is in.
LEMMA CurrentUses ==
  ASSUME NEW t \in Threads, NEW p, CallPhase(t, p),
         NEW a \in Elems(p.borrows) \cup Elems(p.also) \cup Elems(p.fallback)
  PROVE  Uses(t, StorageOf(a))
<1>1. PICK phases \in Program[t] : \E i \in DOMAIN phases : p = phases[i]
  BY DEF CallPhase
<1>2. PICK i \in DOMAIN phases : p = phases[i]
  BY <1>1
<1> QED BY <1>1, <1>2 DEF Uses

\* A thread that enters the phases that are left keeps its types.
LEMMA EnteringType ==
  ASSUME NEW me \in ThreadRecord, NEW phases \in Seq(KernelPhase)
  PROVE  Entering(me, phases) \in ThreadRecord
<1>1. CASE phases = <<>>
  <2>1. <<>> \in Seq(Access) /\ <<>> \in Seq(KernelPhase)
    OBVIOUS
  <2>2. Entering(me, phases) =
          [me EXCEPT !.at = "Idle", !.todo = <<>>, !.fellBack = FALSE,
                     !.phases = <<>>, !.result = "Ok"]
    BY <1>1 DEF Entering
  <2> QED BY <2>1, <2>2 DEF ThreadRecord
<1>2. CASE phases # <<>>
  <2>1. Head(phases) \in KernelPhase
    BY <1>2, Taken
  <2>2. Head(phases).borrows \in Seq(Access)
    BY <2>1 DEF KernelPhase
  <2> QED BY <1>2, <2>2 DEF Entering, ThreadRecord
<1> QED BY <1>1, <1>2

\* Only the thread that takes a step changes what it does, and no other comes
\* to hold a mutex by it.
LEMMA OthersKeep ==
  ASSUME NEW rank, LockInv(rank), TypeOK', NEW t \in Threads,
         ThreadInv(rank, t)',
         \A u \in Threads \ {t} :
           /\ thread'[u] = thread[u]
           /\ \A s \in Storages : owner'[s] = u => owner[s] = u
  PROVE  LockInv(rank)'
<1>1. ASSUME NEW u \in Threads, u # t
      PROVE  ThreadInv(rank, u)'
  <2>1. thread'[u] = thread[u] /\ ThreadInv(rank, u)
    BY <1>1 DEF LockInv
  <2>2. \A s \in Storages : owner'[s] = u => owner[s] = u
    BY <1>1
  <2> QED BY <2>1, <2>2
          DEF ThreadInv, Borrowing, BorrowingAlso, CopyingOut, Holds, Current,
              At, Todo
<1> QED BY <1>1 DEF LockInv

\* Once its guards are dropped a thread holds nothing, and others hold what
\* they held.
LEMMA Dropped ==
  ASSUME TypeOK, NEW t \in Threads, owner' = DropGuards(t)
  PROVE  /\ owner' \in [Storages -> Threads \cup {Nobody}]
         /\ \A s \in Storages : owner'[s] # t
         /\ \A u \in Threads, s \in Storages : owner'[s] = u => owner[s] = u
BY LockAssumption DEF TypeOK, DropGuards, LockAssumption

\* A thread that starts on a phase, holding nothing (Call, and Finish once
\* the guards of the phase before are dropped).
LEMMA EntersPhase ==
  ASSUME NEW rank, OrderedCalls(rank), NEW t \in Threads, TypeOK,
         NEW me \in ThreadRecord, NEW phases \in Seq(KernelPhase),
         \A i \in DOMAIN phases : CallPhase(t, phases[i]),
         thread'[t] = Entering(me, phases),
         \A s \in Storages : owner'[s] # t
  PROVE  ThreadInv(rank, t)'
<1>1. CASE phases = <<>>
  <2>1. thread'[t].at = "Idle" /\ thread'[t].phases = <<>>
    BY <1>1 DEF Entering, ThreadRecord
  <2> QED BY <2>1 DEF ThreadInv, At, Holds
<1>2. CASE phases # <<>>
  <2>1. /\ thread'[t].at = "Borrow" /\ thread'[t].phases = phases
        /\ thread'[t].todo = Head(phases).borrows /\ ~thread'[t].fellBack
    BY <1>2 DEF Entering, ThreadRecord
  <2>2. Head(phases) \in Elems(phases)
    BY <1>2, Taken
  <2>3. CallPhase(t, Head(phases))
    BY <2>2 DEF Elems
  <2>4. InOrder(rank, Head(phases).borrows)
    BY <2>3 DEF CallPhase, OrderedCalls, OrderedPhase
  <2>5. Borrowing(rank, t)'
    BY <2>1, <2>4 DEF Borrowing, Todo, Current, Holds
  <2> QED BY <2>1, <2>5, <1>2 DEF ThreadInv, At, Holds
<1> QED BY <1>1, <1>2

-----------------------------------------------------------------------------
\* At first nobody holds anything.
LEMMA LocksFree ==
  ASSUME NEW rank, Init
  PROVE  LockInv(rank)
<1>1. <<>> \in Seq(Access) /\ <<>> \in Seq(KernelPhase) /\ 0 \in 0..MaxCalls
  BY LockAssumption DEF LockAssumption
<1>2. TypeOK
  BY <1>1 DEF Init, TypeOK
<1>3. ASSUME NEW t \in Threads
      PROVE  ThreadInv(rank, t)
  <2>1. At(t) = "Idle" /\ thread[t].phases = <<>> /\ \A s \in Storages : ~Holds(t, s)
    BY LockAssumption DEF Init, At, Holds, LockAssumption
  <2> QED BY <2>1 DEF ThreadInv
<1> QED BY <1>2, <1>3 DEF LockInv

\* A call starts with no operand to lock and no mutex held.
LEMMA CallStep ==
  ASSUME NEW rank, OrderedCalls(rank), LockInv(rank), NEW t \in Threads,
         NEW phases \in Program[t], Call(t, phases)
  PROVE  LockInv(rank)'
<1> DEFINE calling == [thread[t] EXCEPT !.calls = @ + 1]
<1>1. thread[t] \in ThreadRecord /\ thread \in [Threads -> ThreadRecord]
  BY DEF LockInv, TypeOK, ThreadRecord
<1>2. phases \in Seq(KernelPhase)
  BY LockAssumption DEF LockAssumption
<1>3. thread[t].calls + 1 \in 0..MaxCalls
  BY <1>1, LockAssumption DEF Call, ThreadRecord, LockAssumption
<1>4. calling \in ThreadRecord
  BY <1>1, <1>3 DEF ThreadRecord
<1>5. thread' = [thread EXCEPT ![t] = Entering(calling, phases)]
  BY DEF Call
<1> HIDE DEF calling
<1>6. Entering(calling, phases) \in ThreadRecord
  BY <1>2, <1>4, EnteringType
<1>7. TypeOK'
  BY <1>1, <1>5, <1>6 DEF Call, LockInv, TypeOK, ThreadRecord
<1>8. thread'[t] = Entering(calling, phases)
  BY <1>1, <1>5
<1>9. \A s \in Storages : owner'[s] # t
  BY DEF Call, LockInv, ThreadInv, Holds
<1>10. \A i \in DOMAIN phases : CallPhase(t, phases[i])
  BY DEF CallPhase
<1>11. ThreadInv(rank, t)'
  BY <1>2, <1>4, <1>8, <1>9, <1>10, EntersPhase DEF LockInv
<1> QED BY <1>1, <1>5, <1>7, <1>11, OthersKeep DEF Call

\* A phase that ends has given back its mutexes, and the next one starts afresh.
LEMMA FinishStep ==
  ASSUME NEW rank, OrderedCalls(rank), LockInv(rank), NEW t \in Threads, Finish(t)
  PROVE  LockInv(rank)'
<1> DEFINE left == Tail(thread[t].phases)
           entered == Entering(thread[t], left)
<1>1. thread[t] \in ThreadRecord /\ thread \in [Threads -> ThreadRecord]
  BY DEF LockInv, TypeOK, ThreadRecord
<1>2. left \in Seq(KernelPhase) /\ \A i \in DOMAIN left : CallPhase(t, left[i])
  BY CurrentOrdered DEF Finish, LockInv
<1>3. entered \in ThreadRecord
  BY <1>1, <1>2, EnteringType
<1> HIDE DEF left
<1>4. thread' = [thread EXCEPT ![t] = entered]
  BY DEF Finish, left
<1>5. /\ owner' \in [Storages -> Threads \cup {Nobody}]
      /\ \A s \in Storages : owner'[s] # t
      /\ \A u \in Threads, s \in Storages : owner'[s] = u => owner[s] = u
  BY Dropped DEF Finish, LockInv
<1>6. TypeOK'
  BY <1>1, <1>3, <1>4, <1>5 DEF TypeOK, ThreadRecord
<1>7. thread'[t] = entered
  BY <1>1, <1>4
<1>8. ThreadInv(rank, t)'
  BY <1>1, <1>2, <1>5, <1>7, EntersPhase DEF LockInv
<1> QED BY <1>1, <1>4, <1>5, <1>6, <1>8, OthersKeep

\* A call that fails drops its guards and its remaining phases.
LEMMA FailStep ==
  ASSUME NEW rank, LockInv(rank), NEW t \in Threads, Fail(t)
  PROVE  LockInv(rank)'
<1>1. thread[t] \in ThreadRecord /\ thread \in [Threads -> ThreadRecord]
  BY DEF LockInv, TypeOK, ThreadRecord
<1>2. <<>> \in Seq(Access) /\ <<>> \in Seq(KernelPhase)
  OBVIOUS
<1>3. /\ owner' \in [Storages -> Threads \cup {Nobody}]
      /\ \A s \in Storages : owner'[s] # t
      /\ \A u \in Threads, s \in Storages : owner'[s] = u => owner[s] = u
  BY Dropped DEF Fail, LockInv
<1>4. /\ thread'[t] \in ThreadRecord /\ thread' \in [Threads -> ThreadRecord]
      /\ thread'[t].at = "Idle" /\ thread'[t].phases = <<>>
      /\ \A u \in Threads \ {t} : thread'[u] = thread[u]
  BY <1>1, <1>2 DEF Fail, ThreadRecord
<1>5. TypeOK'
  BY <1>3, <1>4 DEF TypeOK, ThreadRecord
<1>6. ThreadInv(rank, t)'
  BY <1>3, <1>4 DEF ThreadInv, At, Holds
<1> QED BY <1>3, <1>4, <1>5, <1>6, OthersKeep

\* The facts of a thread's next operand that all steps on it need.
LEMMA NextOperand ==
  ASSUME TypeOK, NEW t \in Threads, Todo(t) # <<>>
  PROVE  /\ thread[t] \in ThreadRecord /\ thread \in [Threads -> ThreadRecord]
         /\ Operand(t) \in Elems(Todo(t)) /\ Operand(t) \in Access
         /\ Wanted(t) \in Storages
         /\ Tail(Todo(t)) \in Seq(Access)
         /\ Elems(Tail(Todo(t))) \subseteq Elems(Todo(t))
<1>1. thread[t] \in ThreadRecord /\ thread \in [Threads -> ThreadRecord]
  BY DEF TypeOK, ThreadRecord
<1>2. Todo(t) \in Seq(Access)
  BY <1>1 DEF ThreadRecord, Todo
<1>3. /\ Operand(t) \in Elems(Todo(t)) /\ Operand(t) \in Access
      /\ Tail(Todo(t)) \in Seq(Access)
      /\ Elems(Tail(Todo(t))) \subseteq Elems(Todo(t))
  BY <1>2, Taken DEF Operand
<1> QED BY <1>1, <1>3, LockAssumption DEF Access, Wanted, StorageOf, LockAssumption

\* Locking an operand keeps a thread's mutexes below those it has still to take.
LEMMA BorrowStep ==
  ASSUME NEW rank, OrderedCalls(rank), LockInv(rank), NEW t \in Threads, Borrow(t)
  PROVE  LockInv(rank)'
<1> DEFINE a == Operand(t)
<1>1. /\ At(t) \in {"Borrow", "Also"} /\ Todo(t) # <<>> /\ Borrowable(a)
      /\ owner[StorageOf(a)] = Nobody
      /\ owner' = [owner EXCEPT ![StorageOf(a)] = t]
      /\ thread' = [thread EXCEPT ![t].todo = Tail(@)]
      /\ TypeOK /\ ThreadInv(rank, t)
  BY DEF Borrow, LockInv, Wanted
<1>2. /\ thread[t] \in ThreadRecord /\ thread \in [Threads -> ThreadRecord]
      /\ a \in Elems(Todo(t)) /\ a \in Access
      /\ StorageOf(a) \in Storages
      /\ Tail(Todo(t)) \in Seq(Access)
      /\ Elems(Tail(Todo(t))) \subseteq Elems(Todo(t))
  BY <1>1, NextOperand DEF Wanted
<1>3. InOrder(rank, Todo(t))
  BY <1>1 DEF ThreadInv, Borrowing, BorrowingAlso
<1>4. /\ InOrder(rank, Tail(Todo(t)))
      /\ \A b \in Elems(Tail(Todo(t))) :
           Borrowable(b) => Precedes(rank, StorageOf(a), StorageOf(b))
  <2>1. Todo(t) \in Seq(Access)
    BY <1>2 DEF ThreadRecord, Todo
  <2> QED BY <1>1, <1>3, <2>1, OrderTaken DEF Operand
<1>5. /\ thread' \in [Threads -> ThreadRecord]
      /\ \A u \in Threads \ {t} : thread'[u] = thread[u]
      /\ thread'[t].at = thread[t].at /\ thread'[t].phases = thread[t].phases
      /\ thread'[t].fellBack = thread[t].fellBack
      /\ thread'[t].todo = Tail(Todo(t))
  BY <1>1, <1>2 DEF ThreadRecord, Todo
<1>6. /\ owner' \in [Storages -> Threads \cup {Nobody}]
      /\ \A s \in Storages : owner'[s] = t => s = StorageOf(a) \/ owner[s] = t
      /\ \A u \in Threads \ {t}, s \in Storages : owner'[s] = u => owner[s] = u
  BY <1>1, <1>2 DEF TypeOK
<1>7. TypeOK'
  BY <1>5, <1>6 DEF TypeOK, ThreadRecord
<1>8. CallPhase(t, Current(t))
  BY <1>1, CurrentOrdered
<1> HIDE DEF a
<1>9. ThreadInv(rank, t)'
  <2>1. \A s \in Storages, b \in Elems(Tail(Todo(t))) :
          owner'[s] = t /\ Borrowable(b) => Precedes(rank, s, StorageOf(b))
    <3> SUFFICES ASSUME NEW s \in Storages, NEW b \in Elems(Tail(Todo(t))),
                        owner'[s] = t, Borrowable(b)
                 PROVE  Precedes(rank, s, StorageOf(b))
      OBVIOUS
    <3>1. CASE s = StorageOf(a)
      BY <1>4, <3>1
    <3>2. CASE owner[s] = t
      BY <1>1, <1>2, <3>2 DEF ThreadInv, Borrowing, BorrowingAlso, Holds
    <3> QED BY <1>6, <3>1, <3>2
  <2>2. CASE At(t) = "Borrow"
    <3>1. /\ Elems(Todo(t)) \subseteq Elems(Current(t).borrows)
          /\ thread[t].fellBack
             => \E b \in Elems(Current(t).borrows) : ~Borrowable(b)
          /\ \A s \in Storages : owner[s] = t =>
               \E b \in Elems(Current(t).borrows) : Borrowable(b) /\ StorageOf(b) = s
      BY <1>1, <2>2 DEF ThreadInv, Borrowing, Holds
    <3>2. \A s \in Storages : owner'[s] = t =>
            \E b \in Elems(Current(t).borrows) : Borrowable(b) /\ StorageOf(b) = s
      BY <1>1, <1>2, <1>6, <3>1
    <3>3. Current(t)' = Current(t) /\ Todo(t)' = Tail(Todo(t))
      BY <1>5 DEF Current, Todo
    <3>4. Borrowing(rank, t)'
      BY <1>2, <1>4, <1>5, <2>1, <3>1, <3>2, <3>3 DEF Borrowing, Holds
    <3>5. \A s \in Storages : owner'[s] = t => Uses(t, s)
      BY <1>8, <3>2, CurrentUses
    <3> QED BY <1>1, <1>5, <2>2, <3>4, <3>5 DEF ThreadInv, At, Holds
  <2>3. CASE At(t) = "Also"
    <3>1. Elems(Todo(t)) \subseteq Elems(Current(t).also)
      BY <1>1, <2>3 DEF ThreadInv, BorrowingAlso
    <3>2. Current(t)' = Current(t) /\ Todo(t)' = Tail(Todo(t))
      BY <1>5 DEF Current, Todo
    <3>3. BorrowingAlso(rank, t)'
      BY <1>2, <1>4, <2>1, <3>1, <3>2 DEF BorrowingAlso, Holds
    <3>4. Uses(t, StorageOf(a))
      BY <1>2, <1>8, <3>1, CurrentUses
    <3>5. \A s \in Storages : owner'[s] = t => Uses(t, s)
      BY <1>1, <1>6, <3>4 DEF ThreadInv, Holds
    <3> QED BY <1>1, <1>5, <2>3, <3>3, <3>5 DEF ThreadInv, At, Holds
  <2> QED BY <1>1, <2>2, <2>3
<1> QED BY <1>5, <1>6, <1>7, <1>9, OthersKeep

\* What CannotBorrow and CopyOut leave: the same mutexes, one operand less.
LEMMA NextTaken ==
  ASSUME NEW rank, LockInv(rank), NEW t \in Threads, Todo(t) # <<>>,
         NEW fellBack \in BOOLEAN,
         thread' = [thread EXCEPT ![t].todo = Tail(@), ![t].fellBack = fellBack],
         UNCHANGED owner
  PROVE  /\ TypeOK' /\ owner' = owner
         /\ \A u \in Threads \ {t} : thread'[u] = thread[u]
         /\ thread'[t].at = thread[t].at /\ thread'[t].phases = thread[t].phases
         /\ thread'[t].fellBack = fellBack /\ Current(t)' = Current(t)
         /\ Todo(t)' = Tail(Todo(t)) /\ Elems(Todo(t)') \subseteq Elems(Todo(t))
         /\ Operand(t) \in Elems(Todo(t))
<1>1. /\ thread[t] \in ThreadRecord /\ thread \in [Threads -> ThreadRecord]
      /\ Operand(t) \in Elems(Todo(t)) /\ Tail(Todo(t)) \in Seq(Access)
      /\ Elems(Tail(Todo(t))) \subseteq Elems(Todo(t))
  BY NextOperand DEF LockInv
<1>2. /\ thread' \in [Threads -> ThreadRecord]
      /\ \A u \in Threads \ {t} : thread'[u] = thread[u]
      /\ thread'[t].at = thread[t].at /\ thread'[t].phases = thread[t].phases
      /\ thread'[t].fellBack = fellBack
      /\ thread'[t].todo = Tail(Todo(t))
  BY <1>1 DEF ThreadRecord, Todo
<1>3. TypeOK'
  BY <1>2 DEF LockInv, TypeOK, ThreadRecord
<1> QED BY <1>1, <1>2, <1>3 DEF Current, Todo

\* An operand that cannot be borrowed is passed over: nothing is locked.
LEMMA CannotBorrowStep ==
  ASSUME NEW rank, OrderedCalls(rank), LockInv(rank), NEW t \in Threads,
         CannotBorrow(t)
  PROVE  LockInv(rank)'
<1>1. /\ At(t) = "Borrow" /\ Todo(t) # <<>> /\ ~Borrowable(Operand(t))
      /\ thread' = [thread EXCEPT ![t].todo = Tail(@), ![t].fellBack = TRUE]
      /\ UNCHANGED owner /\ TypeOK /\ ThreadInv(rank, t) /\ Borrowing(rank, t)
  BY DEF CannotBorrow, LockInv, ThreadInv
<1>2. /\ TypeOK' /\ owner' = owner
      /\ \A u \in Threads \ {t} : thread'[u] = thread[u]
      /\ thread'[t].at = thread[t].at /\ thread'[t].phases = thread[t].phases
      /\ thread'[t].fellBack = TRUE /\ Current(t)' = Current(t)
      /\ Todo(t)' = Tail(Todo(t)) /\ Elems(Todo(t)') \subseteq Elems(Todo(t))
      /\ Operand(t) \in Elems(Todo(t))
  <2>1. TRUE \in BOOLEAN
    OBVIOUS
  <2> QED BY <1>1, <2>1, NextTaken
<1>3. InOrder(rank, Tail(Todo(t)))
  <2>1. Todo(t) \in Seq(Access)
    BY <1>1 DEF TypeOK, Todo
  <2> QED BY <1>1, <2>1, OrderTaken DEF Borrowing
<1>4. Operand(t) \in Elems(Current(t).borrows)
  BY <1>1, <1>2 DEF Borrowing
<1>5. Borrowing(rank, t)'
  BY <1>1, <1>2, <1>3, <1>4 DEF Borrowing, Holds
<1>6. ThreadInv(rank, t)'
  BY <1>1, <1>2, <1>5 DEF ThreadInv, At, Holds
<1> QED BY <1>2, <1>6, OthersKeep

\* Copying an operand out waits for its mutex and keeps nothing locked.
LEMMA CopyOutStep ==
  ASSUME NEW rank, LockInv(rank), NEW t \in Threads, CopyOut(t)
  PROVE  LockInv(rank)'
<1>1. /\ At(t) = "CopyOut" /\ Todo(t) # <<>>
      /\ thread' = [thread EXCEPT ![t].todo = Tail(@)]
      /\ UNCHANGED owner /\ TypeOK /\ ThreadInv(rank, t) /\ CopyingOut(rank, t)
  BY DEF CopyOut, LockInv, ThreadInv
<1>2. /\ thread[t].fellBack \in BOOLEAN
      /\ thread' = [thread EXCEPT ![t].todo = Tail(@),
                                   ![t].fellBack = thread[t].fellBack]
  <2>1. thread[t] \in ThreadRecord /\ thread \in [Threads -> ThreadRecord]
    BY <1>1 DEF TypeOK, ThreadRecord
  <2>2. thread[t].fellBack \in BOOLEAN
    BY <2>1 DEF ThreadRecord
  <2>3. [thread[t] EXCEPT !.todo = Tail(thread[t].todo)]
        = [thread[t] EXCEPT !.todo = Tail(thread[t].todo),
                            !.fellBack = thread[t].fellBack]
    BY <2>1 DEF ThreadRecord
  <2> QED BY <1>1, <2>1, <2>2, <2>3
<1>3. /\ TypeOK' /\ owner' = owner
      /\ \A u \in Threads \ {t} : thread'[u] = thread[u]
      /\ thread'[t].at = thread[t].at /\ thread'[t].phases = thread[t].phases
      /\ Current(t)' = Current(t)
      /\ Todo(t)' = Tail(Todo(t)) /\ Elems(Todo(t)') \subseteq Elems(Todo(t))
  BY <1>1, <1>2, NextTaken
<1>4. CopyingOut(rank, t)'
  BY <1>1, <1>3 DEF CopyingOut, Holds
<1>5. ThreadInv(rank, t)'
  BY <1>1, <1>3, <1>4 DEF ThreadInv, At, Holds
<1> QED BY <1>3, <1>5, OthersKeep

\* With all operands looked at, the phase goes on to those it locks besides, or
\* falls back on copies.
LEMMA BorrowedStep ==
  ASSUME NEW rank, OrderedCalls(rank), LockInv(rank), NEW t \in Threads,
         Borrowed(t)
  PROVE  LockInv(rank)'
<1> DEFINE p == Current(t)
           fell == thread[t].fellBack
<1>1. /\ At(t) = "Borrow"
      /\ thread' = [thread EXCEPT
           ![t].at = IF fell THEN "CopyOut" ELSE "Also",
           ![t].todo = IF fell THEN p.fallback ELSE p.also]
      /\ owner' = owner /\ TypeOK /\ ThreadInv(rank, t) /\ Borrowing(rank, t)
  BY DEF Borrowed, LockInv, ThreadInv, Current
<1>2. /\ p \in KernelPhase /\ OrderedPhase(rank, p)
  BY <1>1, CurrentOrdered
<1>3. thread[t] \in ThreadRecord /\ thread \in [Threads -> ThreadRecord]
  BY <1>1 DEF TypeOK, ThreadRecord
<1>4. p.fallback \in Seq(Access) /\ p.also \in Seq(Access)
  BY <1>2 DEF KernelPhase
<1> HIDE DEF p
<1>5. /\ thread' \in [Threads -> ThreadRecord]
      /\ \A u \in Threads \ {t} : thread'[u] = thread[u]
      /\ thread'[t].phases = thread[t].phases
      /\ fell => thread'[t].at = "CopyOut" /\ thread'[t].todo = p.fallback
      /\ ~fell => thread'[t].at = "Also" /\ thread'[t].todo = p.also
  BY <1>1, <1>3, <1>4 DEF ThreadRecord
<1>6. TypeOK'
  BY <1>1, <1>5 DEF TypeOK, ThreadRecord
<1>7. Current(t)' = p
  BY <1>5 DEF Current, p
<1>8. \A s \in Storages : owner'[s] = t =>
        \E a \in Elems(p.borrows) : Borrowable(a) /\ StorageOf(a) = s
  BY <1>1 DEF Borrowing, Holds, p
<1>9. ThreadInv(rank, t)'
  <2>1. CASE fell
    <3>1. \E a \in Elems(p.borrows) : ~Borrowable(a)
      BY <1>1, <2>1 DEF Borrowing, p
    <3>2. CopyingOut(rank, t)'
      BY <1>2, <1>5, <1>7, <1>8, <2>1, <3>1
         DEF CopyingOut, OrderedPhase, Holds, Todo
    <3> QED BY <1>1, <1>5, <2>1, <3>2 DEF ThreadInv, At, Holds
  <2>2. CASE ~fell
    <3>1. BorrowingAlso(rank, t)'
      BY <1>2, <1>5, <1>7, <1>8, <2>2
         DEF BorrowingAlso, OrderedPhase, Holds, Todo
    <3> QED BY <1>1, <1>5, <2>2, <3>1 DEF ThreadInv, At, Holds
  <2> QED BY <2>1, <2>2
<1> QED BY <1>1, <1>5, <1>6, <1>9, OthersKeep

\* The order of what is held and what is still wanted survives every step,
\* whatever kernels are called and however the threads take turns.
LEMMA LockInvAlways ==
  ASSUME NEW rank \in [Storages -> Nat], OrderedCalls(rank)
  PROVE  Spec => []LockInv(rank)
<1>1. Init => LockInv(rank)
  BY LocksFree
<1>2. LockInv(rank) /\ [Next]_vars => LockInv(rank)'
  <2> SUFFICES ASSUME LockInv(rank), [Next]_vars
               PROVE  LockInv(rank)'
    OBVIOUS
  <2>1. CASE UNCHANGED vars
    BY <2>1 DEF vars, LockInv, TypeOK, ThreadInv, Borrowing, BorrowingAlso,
                CopyingOut, Holds, Current, At, Todo
  <2>2. CASE Next
    <3>1. PICK t \in Threads : Progress(t) \/ \E phases \in Program[t] : Call(t, phases)
      BY <2>2 DEF Next
    <3>2. ASSUME NEW phases \in Program[t], Call(t, phases)
          PROVE  LockInv(rank)'
      BY <3>2, CallStep
    <3>3. CASE Borrow(t)
      BY <3>3, BorrowStep
    <3>4. CASE CannotBorrow(t)
      BY <3>4, CannotBorrowStep
    <3>5. CASE Borrowed(t)
      BY <3>5, BorrowedStep
    <3>6. CASE CopyOut(t)
      BY <3>6, CopyOutStep
    <3>7. CASE Fail(t)
      BY <3>7, FailStep
    <3>8. CASE Finish(t)
      BY <3>8, FinishStep
    <3> QED BY <3>1, <3>2, <3>3, <3>4, <3>5, <3>6, <3>7, <3>8 DEF Progress
  <2> QED BY <2>1, <2>2
<1> QED BY <1>1, <1>2, PTL DEF Spec

-----------------------------------------------------------------------------
\* A set of natural numbers has a least element.
LEMMA LeastNat ==
  ASSUME NEW T, T \subseteq Nat, T # {}
  PROVE  \E m \in T : \A k \in T : m <= k
<1>1. PICK m \in T : \A k \in T : <<k, m>> \notin OpToRel(<, Nat)
  BY NatLessThanWellFounded, WFMin
<1>2. \A k \in T : ~(k < m)
  BY <1>1 DEF OpToRel
<1> QED BY <1>2

\* Who waits wants a mutex that comes after all those that it holds.
LEMMA WaitsInOrder ==
  ASSUME NEW rank, OrderedCalls(rank), LockInv(rank),
         NEW t \in Threads, NEW u, WaitsFor(t, u)
  PROVE  /\ Wanted(t) \in Storages /\ Uses(t, Wanted(t))
         /\ \A s \in Storages : Holds(t, s) => Precedes(rank, s, Wanted(t))
<1>1. /\ TypeOK /\ ThreadInv(rank, t) /\ At(t) # "Idle" /\ Todo(t) # <<>>
      /\ At(t) = "CopyOut" \/ Borrowable(Operand(t))
      /\ HasMutex(Operand(t))
  BY DEF LockInv, WaitsFor
<1>2. Wanted(t) \in Storages /\ Operand(t) \in Elems(Todo(t))
  BY <1>1, NextOperand
<1>3. CallPhase(t, Current(t))
  BY <1>1, CurrentOrdered
<1>4. At(t) \in {"Borrow", "Also", "CopyOut"}
  BY <1>1 DEF TypeOK, At
<1>5. Operand(t) \in Elems(Current(t).borrows) \cup Elems(Current(t).also)
                      \cup Elems(Current(t).fallback)
  BY <1>1, <1>2, <1>4 DEF ThreadInv, Borrowing, BorrowingAlso, CopyingOut
<1>6. Uses(t, Wanted(t))
  BY <1>3, <1>5, CurrentUses DEF Wanted
<1>7. ASSUME NEW s \in Storages, Holds(t, s)
      PROVE  Precedes(rank, s, Wanted(t))
  BY <1>1, <1>2, <1>4, <1>7
     DEF ThreadInv, Borrowing, BorrowingAlso, CopyingOut, Wanted
<1> QED BY <1>2, <1>6, <1>7

\* Whatever kernels threads run on tensors they share: if every call takes the
\* mutexes in one order, no threads wait for each other in a circle, and none
\* for itself (borrow_host_slice, borrow_host_slice_mut, and the fallbacks).
THEOREM NoCircularWaitAlways ==
  ASSUME NEW rank \in [Storages -> Nat], OrderedCalls(rank)
  PROVE  Spec => []NoCircularWait
<1>1. LockInv(rank) => NoCircularWait
  <2> SUFFICES ASSUME LockInv(rank)
               PROVE  NoCircularWait
    OBVIOUS
  <2>1. TypeOK /\ IdleHoldsNothing
    BY DEF LockInv, ThreadInv, IdleHoldsNothing, Holds
  <2>2. ASSUME NEW group \in (SUBSET Threads) \ {{}},
               \A t \in group : \E u \in group : WaitsFor(t, u)
        PROVE  FALSE
    <3> DEFINE ranks == {rank[Wanted(t)] : t \in group}
    <3>1. /\ \A t \in group :
               Wanted(t) \in Storages /\ Uses(t, Wanted(t))
               /\ \A s \in Storages : Holds(t, s) => Precedes(rank, s, Wanted(t))
      BY <2>2, WaitsInOrder
    <3>2. ranks \subseteq Nat /\ ranks # {}
      <4>1. \A t \in group : rank[Wanted(t)] \in Nat
        BY <3>1
      <4>2. \E t \in group : TRUE
        BY <2>2
      <4> QED BY <4>1, <4>2
    <3>3. PICK m \in ranks : \A k \in ranks : m <= k
      BY <3>2, LeastNat
    <3>4. PICK t \in group : m = rank[Wanted(t)]
      OBVIOUS
    <3>5. PICK u \in group : WaitsFor(t, u)
      BY <2>2
    <3>6. PICK v \in group : WaitsFor(u, v)
      BY <2>2
    <3>7. Holds(u, Wanted(t)) /\ Holds(v, Wanted(u))
      BY <3>5, <3>6 DEF WaitsFor, Holds
    <3>8. Precedes(rank, Wanted(t), Wanted(u))
      BY <3>1, <3>7
    <3>9. Precedes(rank, Wanted(u), Wanted(v))
      BY <3>1, <3>7
    <3>10. /\ t \in Threads /\ u \in Threads /\ v \in Threads
           /\ Uses(t, Wanted(t)) /\ Uses(u, Wanted(u))
      BY <3>1
    <3>11. Uses(u, Wanted(t)) /\ Uses(v, Wanted(u))
      BY <3>1, <3>7, <3>10 DEF LockInv, ThreadInv
    <3>12. t # u /\ u # v
      BY <3>8, <3>9 DEF Precedes
    <3>13. SharedStorage(Wanted(t)) /\ SharedStorage(Wanted(u))
      BY <3>10, <3>11, <3>12 DEF SharedStorage
    <3>14. rank[Wanted(u)] < rank[Wanted(t)]
      BY <3>8, <3>13 DEF Precedes
    <3>15. rank[Wanted(u)] \in ranks
      OBVIOUS
    <3> HIDE DEF ranks
    <3>16. /\ rank[Wanted(u)] \in Nat /\ rank[Wanted(t)] \in Nat
           /\ rank[Wanted(t)] <= rank[Wanted(u)]
      BY <3>2, <3>3, <3>4, <3>15
    <3> QED BY <3>14, <3>16
  <2> QED BY <2>1, <2>2 DEF NoCircularWait
<1>2. Spec => []LockInv(rank)
  BY LockInvAlways
<1> QED BY <1>1, <1>2, PTL

-----------------------------------------------------------------------------
(***************************************************************************)
(* The kernels of a Whisper decoder layer take mutexes in one order: the   *)
(* weight before the bias, the keys before the values, and scratch tensors *)
(* of the thread's own anywhere.                                           *)
(***************************************************************************)
OnHost(tensor) == Storage[tensor] \notin OnDevice /\ tensor \notin Views
Apart(tensors) ==
  \A i, j \in DOMAIN tensors : i # j => Storage[tensors[i]] # Storage[tensors[j]]

\* A phase of up to four operands, each of which can be borrowed, is in order
\* when each two of them are.
LEMMA PhaseInOrder ==
  ASSUME NEW rank, NEW a, NEW b, NEW c, NEW d, NEW fallback,
         Borrowable(a), Borrowable(b), Borrowable(c), Borrowable(d),
         Precedes(rank, StorageOf(a), StorageOf(b)),
         Precedes(rank, StorageOf(a), StorageOf(c)),
         Precedes(rank, StorageOf(a), StorageOf(d)),
         Precedes(rank, StorageOf(b), StorageOf(c)),
         Precedes(rank, StorageOf(b), StorageOf(d)),
         Precedes(rank, StorageOf(c), StorageOf(d))
  PROVE  /\ OrderedPhase(rank, Phase(<<a, b, c, d>>, <<>>, fallback))
         /\ OrderedPhase(rank, Phase(<<a, b, c>>, <<>>, fallback))
         /\ OrderedPhase(rank, Phase(<<a, b>>, <<>>, fallback))
         /\ \A also : DOMAIN also = {1} /\ also[1] = d
              => OrderedPhase(rank, Phase(<<a, b, c>>, also, fallback))
<1>1. /\ InOrder(rank, <<a, b, c, d>>) /\ InOrder(rank, <<a, b, c>>)
      /\ InOrder(rank, <<a, b>>) /\ InOrder(rank, <<>>)
  BY DEF InOrder
<1>2. /\ Elems(<<a, b, c, d>>) = {a, b, c, d} /\ Elems(<<a, b, c>>) = {a, b, c}
      /\ Elems(<<a, b>>) = {a, b} /\ Elems(<<>>) = {}
  BY DEF Elems
<1>3. ASSUME NEW also, DOMAIN also = {1}, also[1] = d
      PROVE  OrderedPhase(rank, Phase(<<a, b, c>>, also, fallback))
  <2>1. Elems(also) = {d}
    BY <1>3 DEF Elems
  <2>2. InOrder(rank, also)
    BY <1>3 DEF InOrder
  <2> QED BY <1>1, <1>2, <2>1, <2>2 DEF OrderedPhase, Phase
<1> QED BY <1>1, <1>2, <1>3 DEF OrderedPhase, Phase

\* A call of one phase, or of two, is in order when they are.
LEMMA PhasesInOrder ==
  ASSUME NEW rank, NEW p, NEW r, OrderedPhase(rank, p), OrderedPhase(rank, r)
  PROVE  /\ \A i \in DOMAIN <<p>> : OrderedPhase(rank, <<p>>[i])
         /\ \A i \in DOMAIN (<<p>> \o <<r>>) : OrderedPhase(rank, (<<p>> \o <<r>>)[i])
<1>1. \A i \in DOMAIN <<p>> : <<p>>[i] = p
  OBVIOUS
<1>2. /\ DOMAIN (<<p>> \o <<r>>) = {1, 2}
      /\ (<<p>> \o <<r>>)[1] = p /\ (<<p>> \o <<r>>)[2] = r
  OBVIOUS
<1> QED BY <1>1, <1>2

\* Whisper's decoder layer (crates/models/src/whisper/decode.rs): on tensors
\* that are apart and in host memory, its kernels keep the order that
\* NoCircularWaitAlways asks for, however many threads share the last four.
THEOREM LayerCallsInOrder ==
  ASSUME NEW rank \in [Storages -> Nat],
         NEW q \in Tensors, NEW k \in Tensors, NEW v \in Tensors,
         NEW out \in Tensors, NEW w \in Tensors, NEW b \in Tensors,
         NEW key \in Tensors, NEW value \in Tensors,
         OnHost(q), OnHost(k), OnHost(v), OnHost(out),
         OnHost(w), OnHost(b), OnHost(key), OnHost(value),
         Apart(<<q, k, v, out, w, b, key, value>>),
         \A x \in {q, k, v, out} : ~SharedStorage(Storage[x]),
         rank[Storage[b]] < rank[Storage[w]],
         rank[Storage[value]] < rank[Storage[key]],
         NEW phases \in {LayerNormD(q, w, b, out), LinearD(q, w, <<b>>, out),
                         LinearD(q, w, <<>>, out), AddInplaceD(q, out),
                         CacheAppendD(q, key, value, k, v, out),
                         AttentionD(q, key, value, out)},
         NEW place \in DOMAIN phases
  PROVE  OrderedPhase(rank, phases[place])
<1> DEFINE P(x, y) == Precedes(rank, Storage[x], Storage[y])
<1>1. ASSUME NEW x \in {q, k, v, out, w, b, key, value}
      PROVE  /\ Borrowable(Reading(x)) /\ Borrowable(Writing(x))
             /\ StorageOf(Reading(x)) = Storage[x]
             /\ StorageOf(Writing(x)) = Storage[x]
  BY <1>1 DEF OnHost, Borrowable, HasMutex, StorageOf, Reading, Writing
<1>2. /\ Storage[q] \notin {Storage[out], Storage[w], Storage[b],
                           Storage[key], Storage[value]}
      /\ Storage[out] \notin {Storage[w], Storage[b], Storage[key], Storage[value]}
      /\ Storage[k] \notin {Storage[v], Storage[key], Storage[value]}
      /\ Storage[v] \notin {Storage[key], Storage[value]}
      /\ Storage[w] # Storage[b] /\ Storage[key] # Storage[value]
  <2> DEFINE ts == <<q, k, v, out, w, b, key, value>>
  <2>1. \A i, j \in 1..8 : i # j => Storage[ts[i]] # Storage[ts[j]]
    BY DEF Apart
  <2> QED BY <2>1
<1>3. /\ P(q, out) /\ P(q, w) /\ P(q, b) /\ P(q, key) /\ P(q, value)
      /\ P(out, w) /\ P(out, b) /\ P(w, out) /\ P(b, out)
      /\ P(key, out) /\ P(value, out)
      /\ P(k, v) /\ P(k, key) /\ P(k, value) /\ P(v, key) /\ P(v, value)
      /\ P(w, b) /\ P(key, value)
  BY <1>2 DEF Precedes
<1> HIDE DEF P
<1>4. \A i \in DOMAIN LayerNormD(q, w, b, out) :
        OrderedPhase(rank, LayerNormD(q, w, b, out)[i])
  <2>1. \A fallback : OrderedPhase(rank,
          Phase(<<Reading(q), Reading(w), Reading(b), Writing(out)>>, <<>>, fallback))
    BY <1>1, <1>3, PhaseInOrder DEF P
  <2> QED BY <2>1, PhasesInOrder DEF LayerNormD
<1>5. \A bias \in {<<>>, <<b>>} : \A i \in DOMAIN LinearD(q, w, bias, out) :
        OrderedPhase(rank, LinearD(q, w, bias, out)[i])
  <2>1. \A fallback :
          /\ OrderedPhase(rank,
               Phase(<<Reading(q), Reading(w), Writing(out)>>, <<>>, fallback))
          /\ \A also : DOMAIN also = {1} /\ also[1] = Reading(b)
               => OrderedPhase(rank,
                    Phase(<<Reading(q), Reading(w), Writing(out)>>, also, fallback))
    BY <1>1, <1>3, PhaseInOrder DEF P
  <2>2. [i \in DOMAIN <<>> |-> Reading(<<>>[i])] = <<>>
    OBVIOUS
  <2>3. /\ DOMAIN [i \in DOMAIN <<b>> |-> Reading(<<b>>[i])] = {1}
        /\ [i \in DOMAIN <<b>> |-> Reading(<<b>>[i])][1] = Reading(b)
    OBVIOUS
  <2>4. ASSUME NEW bias \in {<<>>, <<b>>}
        PROVE  \A i \in DOMAIN LinearD(q, w, bias, out) :
                 OrderedPhase(rank, LinearD(q, w, bias, out)[i])
    <3> DEFINE readBias == [i \in DOMAIN bias |-> Reading(bias[i])]
               fallback == <<Reading(q), Reading(w)>> \o readBias \o <<Writing(out)>>
               phase == Phase(<<Reading(q), Reading(w), Writing(out)>>, readBias, fallback)
    <3>1. LinearD(q, w, bias, out) = <<phase>>
      BY DEF LinearD
    <3>2. readBias = <<>> \/ (DOMAIN readBias = {1} /\ readBias[1] = Reading(b))
      BY <2>2, <2>3
    <3> HIDE DEF readBias, fallback
    <3>3. OrderedPhase(rank, phase)
      BY <2>1, <3>2
    <3> HIDE DEF phase
    <3> QED BY <3>1, <3>3, PhasesInOrder
  <2> QED BY <2>4
<1>6. \A i \in DOMAIN AddInplaceD(q, out) :
        OrderedPhase(rank, AddInplaceD(q, out)[i])
  <2>1. \A fallback : OrderedPhase(rank,
          Phase(<<Writing(q), Reading(out)>>, <<>>, fallback))
    BY <1>1, <1>3, PhaseInOrder DEF P
  <2> DEFINE fallback == <<Reading(q), Reading(out), Writing(q)>>
             phase == Phase(<<Writing(q), Reading(out)>>, <<>>, fallback)
  <2>2. AddInplaceD(q, out) = <<phase>>
    BY DEF AddInplaceD
  <2>3. OrderedPhase(rank, phase)
    BY <2>1
  <2> HIDE DEF phase
  <2> QED BY <2>2, <2>3, PhasesInOrder
<1>7. \A fallback : OrderedPhase(rank,
        Phase(<<Reading(q), Reading(key), Reading(value), Writing(out)>>, <<>>, fallback))
  BY <1>1, <1>3, PhaseInOrder DEF P
<1>8. \A i \in DOMAIN AttentionD(q, key, value, out) :
        OrderedPhase(rank, AttentionD(q, key, value, out)[i])
  <2> DEFINE fallback == <<Reading(q), Reading(key), Reading(value), Writing(out)>>
             phase == Phase(<<Reading(q), Reading(key), Reading(value), Writing(out)>>,
                            <<>>, fallback)
  <2>1. AttentionD(q, key, value, out) = <<phase>>
    BY DEF AttentionD
  <2>2. OrderedPhase(rank, phase)
    BY <1>7
  <2> HIDE DEF phase
  <2> QED BY <2>1, <2>2, PhasesInOrder
<1>9. \A i \in DOMAIN CacheAppendD(q, key, value, k, v, out) :
        OrderedPhase(rank, CacheAppendD(q, key, value, k, v, out)[i])
  <2>1. \A fallback : OrderedPhase(rank,
          Phase(<<Reading(k), Reading(v), Writing(key), Writing(value)>>, <<>>, fallback))
    BY <1>1, <1>3, PhaseInOrder DEF P
  <2> DEFINE append ==
               Phase(<<Reading(k), Reading(v), Writing(key), Writing(value)>>, <<>>,
                     <<Reading(k), Writing(key), Reading(v), Writing(value)>>)
             attend ==
               Phase(<<Reading(q), Reading(key), Reading(value), Writing(out)>>, <<>>,
                     <<Reading(q), Reading(key), Reading(value), Writing(out)>>)
  <2>2. CacheAppendD(q, key, value, k, v, out) = <<append>> \o <<attend>>
    BY DEF CacheAppendD, AttentionD
  <2>3. OrderedPhase(rank, append) /\ OrderedPhase(rank, attend)
    BY <1>7, <2>1
  <2> HIDE DEF append, attend
  <2> QED BY <2>2, <2>3, PhasesInOrder
<1> QED BY <1>4, <1>5, <1>6, <1>8, <1>9

=============================================================================
