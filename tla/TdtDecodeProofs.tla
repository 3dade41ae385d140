---------------------------- MODULE TdtDecodeProofs ----------------------------
(***************************************************************************)
(* For utterances of every length, every table of durations and every      *)
(* limit: the loop of greedy_decode spends at most MaxTokensPerStep rounds *)
(* on a frame, emits at most as many tokens there, and feeds the           *)
(* prediction network each of them once.                                   *)
(***************************************************************************)
EXTENDS TdtDecode, TLAPS, FiniteSetTheorems

Emissions(f) == {i \in DOMAIN frames : frames[i] = f}

\* A frame that has been left has its tokens, the frame the loop is at has
\* those counted by emitted, later ones have none
Budget ==
  /\ emitted = 0 \/ emitted < MaxTokensPerStep
  /\ result = "None" => MaxTokensPerStep > 0
  /\ \A f \in Nat :
       /\ IsFiniteSet(Emissions(f))
       /\ f < t => Cardinality(Emissions(f)) <= MaxTokensPerStep
       /\ f = t => Cardinality(Emissions(f)) <= emitted
       /\ f > t => Emissions(f) = {}

StepsInv == steps <= t * MaxTokensPerStep + emitted

TdtInv == TypeOK /\ NetFedOnce /\ Budget /\ StepsInv

\* A round moves on to a later frame, or stays with room for one more token
LEMMA AdvanceMoves ==
  ASSUME TdtInv, result = "None", NEW token \in Token \cup {Blank},
         NEW duration \in Durations, Advance(token, duration)
  PROVE  /\ t' \in Nat /\ emitted' \in Nat
         /\ \/ t' > t /\ emitted' = 0
            \/ t' = t /\ emitted' = emitted + 1 /\ token # Blank
               /\ emitted' < MaxTokensPerStep
         /\ token # Blank => emitted < MaxTokensPerStep
BY TdtAssumption DEF TdtInv, TypeOK, Budget, Advance

\* One frame further is room for m rounds more.
LEMMA Products ==
  ASSUME NEW a \in Nat, NEW b \in Nat, NEW m \in Nat
  PROVE  a * m \in Nat /\ b * m \in Nat /\ (b > a => b * m >= a * m + m)
<1>1. ASSUME NEW k \in Nat PROVE k * m \in Nat
  OBVIOUS
<1>2. ASSUME b > a PROVE b * m >= a * m + m
  <2>1. PICK k \in Nat : b = a + 1 + k
    <3>1. b - a - 1 \in Nat /\ b = a + 1 + (b - a - 1)
      BY <1>2
    <3> QED
      BY <3>1
  <2>2. (a + 1 + k) * m = a * m + m + k * m
    OBVIOUS
  <2>3. a * m \in Nat /\ k * m \in Nat
    BY <1>1
  <2> QED
    BY <2>1, <2>2, <2>3
<1> QED
  BY <1>1, <1>2

\* A round that moves on, or stays within the budget, fits the bound of steps.
LEMMA RoundFits ==
  ASSUME NEW a \in Nat, NEW b \in Nat, NEW m \in Nat, NEW e \in Nat, NEW f \in Nat,
         NEW s \in Nat, s <= a * m + e, e + 1 <= m,
         (b > a /\ f = 0) \/ (b = a /\ f = e + 1)
  PROVE  s + 1 <= b * m + f
<1> DEFINE p == a * m  q == b * m
<1>1. p \in Nat /\ q \in Nat /\ (b > a => q >= p + m) /\ (b = a => q = p)
  BY Products
<1>2. s <= p + e
  OBVIOUS
<1> HIDE DEF p, q
<1>3. s + 1 <= q + f
  BY <1>1, <1>2
<1> QED
  BY <1>3 DEF q

\* A round keeps the bound of steps.
LEMMA StepsKept ==
  ASSUME TdtInv, result = "None", steps' = steps + 1,
         t' \in Nat, emitted' \in Nat,
         (t' > t /\ emitted' = 0) \/ (t' = t /\ emitted' = emitted + 1)
  PROVE  StepsInv'
<1>1. t \in Nat /\ emitted \in Nat /\ steps \in Nat /\ MaxTokensPerStep \in Nat
      /\ emitted + 1 <= MaxTokensPerStep /\ steps <= t * MaxTokensPerStep + emitted
  BY TdtAssumption DEF TdtInv, TypeOK, Budget, StepsInv
<1>2. steps + 1 <= t' * MaxTokensPerStep + emitted'
  BY <1>1, RoundFits
<1> QED
  BY <1>2 DEF StepsInv

\* The invariant holds when the loop is entered.
LEMMA InitTdtInv == Init => TdtInv
<1> SUFFICES ASSUME Init PROVE TdtInv
  OBVIOUS
<1> USE TdtAssumption
<1>1. TypeOK
  BY DEF Init, TypeOK, FramesInOrder
<1>2. NetFedOnce
  BY DEF Init, NetFedOnce
<1>3. Emissions(0) = {} /\ \A f \in Nat : Emissions(f) = {}
  BY DEF Init, Emissions
<1>4. Budget
  <2>1. \A f \in Nat : IsFiniteSet(Emissions(f)) /\ Cardinality(Emissions(f)) = 0
    BY <1>3, FS_EmptySet
  <2>2. t = 0 /\ emitted = 0 /\ (result = "None" => MaxTokensPerStep > 0)
    BY DEF Init
  <2> QED
    BY <1>3, <2>1, <2>2 DEF Budget
<1>5. StepsInv
  BY DEF Init, StepsInv
<1> QED
  BY <1>1, <1>2, <1>4, <1>5 DEF TdtInv

\* A round, blank or not, keeps the invariant.
LEMMA RoundKeepsInv ==
  ASSUME TdtInv, NEW token \in Token \cup {Blank}, NEW duration \in Durations,
         Round(token, duration)
  PROVE  TdtInv'
<1> USE TdtAssumption
<1>0. result = "None" /\ t < Frames /\ steps' = steps + 1 /\ result' = result
      /\ Commit(token) /\ Advance(token, duration)
  BY DEF Round
<1>1. /\ t' \in Nat /\ emitted' \in Nat
      /\ \/ t' > t /\ emitted' = 0
         \/ t' = t /\ emitted' = emitted + 1 /\ token # Blank
            /\ emitted' < MaxTokensPerStep
      /\ token # Blank => emitted < MaxTokensPerStep
  BY <1>0, AdvanceMoves
<1>2. t \in Nat /\ t \in 0..(Frames - 1) /\ emitted \in Nat /\ steps \in Nat
      /\ Len(tokens) \in Nat /\ Len(frames) = Len(tokens)
  BY <1>0 DEF TdtInv, TypeOK
<1>3. StepsInv'
  <2>1. (t' > t /\ emitted' = 0) \/ (t' = t /\ emitted' = emitted + 1)
    BY <1>1
  <2>2. TdtInv /\ result = "None" /\ steps' = steps + 1 /\ t' \in Nat /\ emitted' \in Nat
    BY <1>0, <1>1
  <2> QED
    BY <2>1, <2>2, StepsKept
<1>4. CASE token = Blank
  <2>1. UNCHANGED <<net, tokens, frames>> /\ t' > t
    BY <1>0, <1>1, <1>4 DEF Commit
  <2>2. TypeOK'
    BY <1>0, <1>1, <1>2, <2>1 DEF TdtInv, TypeOK, FramesInOrder
  <2>3. NetFedOnce'
    BY <2>1 DEF TdtInv, NetFedOnce
  <2>4. \A f : Emissions(f)' = Emissions(f)
    BY <2>1 DEF Emissions
  <2>5. Budget'
    <3>1. ASSUME NEW f \in Nat
          PROVE  /\ IsFiniteSet(Emissions(f)')
                 /\ f < t' => Cardinality(Emissions(f)') <= MaxTokensPerStep
                 /\ f = t' => Cardinality(Emissions(f)') <= emitted'
                 /\ f > t' => Emissions(f)' = {}
      <4>1. Emissions(f)' = Emissions(f)
        BY <2>4
      <4>2. /\ IsFiniteSet(Emissions(f))
            /\ f < t => Cardinality(Emissions(f)) <= MaxTokensPerStep
            /\ f = t => Cardinality(Emissions(f)) <= emitted
            /\ f > t => Emissions(f) = {}
        BY DEF TdtInv, Budget
      <4>3. f > t => Cardinality(Emissions(f)) = 0
        BY <4>2, FS_EmptySet
      <4>4. emitted <= MaxTokensPerStep /\ Cardinality(Emissions(f)) \in Nat
        BY <4>2, <1>0, <1>2, FS_CardinalityType DEF TdtInv, Budget
      <4> HIDE DEF Emissions
      <4> QED
        BY <4>1, <4>2, <4>3, <4>4, <1>1, <1>2, <2>1
    <3> QED
      BY <3>1, <1>0, <1>1 DEF TdtInv, Budget, Emissions
  <2> QED
    BY <2>2, <2>3, <2>5, <1>3 DEF TdtInv
<1>5. CASE token # Blank
  <2>1. /\ net' = PrednetStep /\ tokens' = Append(tokens, token)
        /\ frames' = Append(frames, t) /\ token \in Token
    BY <1>0, <1>5 DEF Commit
  <2>2. TypeOK'
    <3>1. PrevToken \in Token \cup {Blank}
      BY DEF PrevToken, TdtInv, TypeOK
    <3>2. net' \in Seq(Token \cup {Blank}) /\ tokens' \in Seq(Token)
          /\ frames' \in Seq(0..(Frames - 1)) /\ Len(frames') = Len(tokens')
      BY <2>1, <3>1, <1>2 DEF TdtInv, TypeOK, PrednetStep
    <3>3. \A i \in DOMAIN frames' :
             frames'[i] <= t' /\ \A j \in 1..i : frames'[j] <= frames'[i]
      <4> SUFFICES ASSUME NEW i \in DOMAIN frames'
                   PROVE  frames'[i] <= t' /\ \A j \in 1..i : frames'[j] <= frames'[i]
        OBVIOUS
      <4>1. frames \in Seq(0..(Frames - 1)) /\ i \in 1..(Len(frames) + 1)
        BY <2>1, <1>2 DEF TdtInv, TypeOK, FramesInOrder
      <4>2. \A j \in 1..Len(frames) : frames'[j] = frames[j] /\ frames[j] <= t
                                      /\ frames[j] \in Nat
        BY <2>1, <4>1, <1>2 DEF TdtInv, TypeOK, FramesInOrder
      <4>3. frames'[Len(frames) + 1] = t
        BY <2>1, <4>1
      <4>4. \A k \in 1..Len(frames) : \A j \in 1..k : frames[j] <= frames[k]
        BY <4>1 DEF TdtInv, TypeOK, FramesInOrder
      <4>5. CASE i = Len(frames) + 1
        BY <4>5, <4>2, <4>3, <1>1, <1>2
      <4>6. CASE i \in 1..Len(frames)
        <5>1. \A j \in 1..i : j \in 1..Len(frames)
          BY <4>6, <1>2
        <5>2. frames'[i] = frames[i] /\ frames[i] <= t /\ frames[i] \in Nat
          BY <4>2, <4>6
        <5>3. frames'[i] <= t'
          BY <5>2, <1>1, <1>2
        <5> QED
          BY <4>2, <4>4, <4>6, <5>1, <5>3
      <4> QED
        BY <4>1, <4>5, <4>6, <1>2
    <3> QED
      BY <1>0, <1>1, <1>2, <3>2, <3>3 DEF TypeOK, FramesInOrder, TdtInv
  <2>3. NetFedOnce'
    <3> tokens \in Seq(Token) /\ tokens' = Append(tokens, token)
      BY <2>1 DEF TdtInv, TypeOK
    <3>1. CASE tokens = <<>>
      BY <3>1, <2>1 DEF TdtInv, NetFedOnce, PrednetStep, PrevToken
    <3>2. CASE tokens # <<>>
      <4> DEFINE n == Len(tokens)
      <4>1. n \in Nat \ {0} /\ Len(tokens') = n + 1
        BY <3>2
      <4>2. SubSeq(tokens', 1, Len(tokens') - 1) = tokens
        BY <4>1
      <4>3. net' = Append(<<Blank>> \o SubSeq(tokens, 1, n - 1), tokens[n])
        BY <3>2, <2>1 DEF TdtInv, NetFedOnce, PrednetStep, PrevToken
      <4>4. Append(SubSeq(tokens, 1, n - 1), tokens[n]) = tokens
        BY <4>1
      <4>5. Append(<<Blank>> \o SubSeq(tokens, 1, n - 1), tokens[n])
              = <<Blank>> \o Append(SubSeq(tokens, 1, n - 1), tokens[n])
        BY <4>1
      <4>6. net' = <<Blank>> \o tokens
        BY <4>3, <4>4, <4>5
      <4>7. tokens' # <<>>
        BY <4>1
      <4> QED
        BY <4>2, <4>6, <4>7 DEF NetFedOnce
    <3> QED
      BY <3>1, <3>2
  <2>4. \A f : Emissions(f)' = IF f = t THEN Emissions(f) \cup {Len(frames) + 1}
                               ELSE Emissions(f)
    BY <2>1, <1>2 DEF Emissions, TdtInv, TypeOK
  <2>5. IsFiniteSet(Emissions(t)) /\ Cardinality(Emissions(t)) <= emitted
        /\ Len(frames) + 1 \notin Emissions(t)
    BY <1>2 DEF TdtInv, Budget, Emissions, TypeOK
  <2> DEFINE here == Emissions(t)  new == here \cup {Len(frames) + 1}
  <2>6. IsFiniteSet(new) /\ Cardinality(new) = Cardinality(here) + 1
        /\ Cardinality(here) \in Nat
    <3> HIDE DEF here
    <3>1. IsFiniteSet(here) /\ Len(frames) + 1 \notin here
      BY <2>5 DEF here
    <3> QED
      BY <3>1, FS_AddElement, FS_CardinalityType
  <2>7. Budget'
    <3>1. emitted' = 0 \/ emitted' < MaxTokensPerStep
      BY <1>1
    <3>2. result' = "None" => MaxTokensPerStep > 0
      BY <1>0 DEF TdtInv, Budget
    <3>3. ASSUME NEW f \in Nat
          PROVE  /\ IsFiniteSet(Emissions(f)')
                 /\ f < t' => Cardinality(Emissions(f)') <= MaxTokensPerStep
                 /\ f = t' => Cardinality(Emissions(f)') <= emitted'
                 /\ f > t' => Emissions(f)' = {}
      <4>1. CASE f = t
        <5>1. Cardinality(Emissions(f)') <= emitted + 1 /\ IsFiniteSet(Emissions(f)')
          <6>1. Emissions(f)' = new
            BY <4>1, <2>4
          <6>2. Cardinality(here) <= emitted
            BY <2>5
          <6> HIDE DEF here, new
          <6> QED
            BY <6>1, <6>2, <2>6, <1>2
        <5>2. Cardinality(Emissions(f)') \in Nat
          BY <5>1, FS_CardinalityType
        <5> QED
          BY <4>1, <5>1, <5>2, <1>1, <1>2, <1>5
      <4>2. CASE f # t
        <5>1. Emissions(f)' = Emissions(f)
          BY <4>2, <2>4
        <5>2. f > t => Emissions(f) = {} /\ Cardinality(Emissions(f)) = 0
          BY FS_EmptySet DEF TdtInv, Budget
        <5>3. f < t => Cardinality(Emissions(f)) <= MaxTokensPerStep
          BY DEF TdtInv, Budget
        <5>4. IsFiniteSet(Emissions(f))
          BY DEF TdtInv, Budget
        <5> HIDE DEF Emissions
        <5> QED
          BY <4>2, <5>1, <5>2, <5>3, <5>4, <1>1, <1>2
      <4> QED
        BY <4>1, <4>2
    <3> QED
      BY <3>1, <3>2, <3>3 DEF Budget, Emissions
  <2> QED
    BY <2>2, <2>3, <2>7, <1>3 DEF TdtInv
<1> QED
  BY <1>4, <1>5

\* What leaves the loop changes nothing but the result
LEMMA ReturnKeepsInv ==
  ASSUME TdtInv, UNCHANGED <<t, emitted, net, tokens, frames, steps>>,
         result' = result \/ result' \in {"Ok", "Exceeded", "Kernel"}
  PROVE  TdtInv'
<1>1. TypeOK' /\ NetFedOnce' /\ StepsInv'
  BY DEF TdtInv, TypeOK, FramesInOrder, NetFedOnce, StepsInv
<1>2. \A f : Emissions(f)' = Emissions(f)
  BY DEF Emissions
<1>3. Budget'
  BY <1>2 DEF TdtInv, Budget
<1> QED
  BY <1>1, <1>3 DEF TdtInv

\* greedy_decode keeps its counts: types, tokens fed once, tokens per frame,
\* rounds per frame.
THEOREM TdtInvAlways == Spec => []TdtInv
<1>1. TdtInv /\ [Next]_vars => TdtInv'
  <2> SUFFICES ASSUME TdtInv, [Next]_vars PROVE TdtInv'
    OBVIOUS
  <2>1. ASSUME NEW token \in Token \cup {Blank}, NEW duration \in Durations,
               Round(token, duration)
        PROVE  TdtInv'
    BY <2>1, RoundKeepsInv
  <2>2. CASE TooManySteps \/ KernelFails \/ Finish \/ Returned \/ UNCHANGED vars
    BY <2>2, ReturnKeepsInv
    DEF TooManySteps, KernelFails, Finish, Returned, Fail, vars
  <2> QED
    BY <2>1, <2>2 DEF Next, Loop
<1> QED
  BY InitTdtInv, <1>1, PTL DEF Spec

\* greedy_decode takes at most max_tokens_per_step rounds for each frame, so
\* that it ends by itself, whatever the duration head predicts.
THEOREM StepsBoundedAlways == Spec => []StepsBounded
<1>1. TdtInv => StepsBounded
  BY DEF TdtInv, StepsInv, StepsBounded
<1> QED
  BY <1>1, TdtInvAlways, PTL

\* The state that greedy_decode commits has been fed the start token and every
\* emitted token but the last, once and in order.
THEOREM NetFedOnceAlways == Spec => []NetFedOnce
BY TdtInvAlways, PTL DEF TdtInv

\* No frame gets more than max_tokens_per_step tokens of greedy_decode, and
\* the frames of its tokens never go back.
THEOREM EmissionsPerFrameAlways == Spec => []EmissionsPerFrame
<1>1. TdtInv => EmissionsPerFrame
  <2> SUFFICES ASSUME TdtInv, NEW f \in 0..(Frames - 1)
               PROVE  Cardinality(Emissions(f)) <= MaxTokensPerStep
    BY DEF EmissionsPerFrame, Emissions, TdtInv, TypeOK
  <2> USE TdtAssumption
  <2>1. f \in Nat /\ t \in Nat /\ emitted \in Nat
    BY DEF TdtInv, TypeOK
  <2>2. f > t => Cardinality(Emissions(f)) = 0
    BY <2>1, FS_EmptySet DEF TdtInv, Budget
  <2>3. f < t => Cardinality(Emissions(f)) <= MaxTokensPerStep
    BY <2>1 DEF TdtInv, Budget
  <2>4. f = t => Cardinality(Emissions(f)) <= emitted
    BY <2>1 DEF TdtInv, Budget
  <2>5. emitted <= MaxTokensPerStep
    BY <2>1 DEF TdtInv, Budget
  <2>6. IsFiniteSet(Emissions(f)) /\ Cardinality(Emissions(f)) \in Nat
    BY <2>1, FS_CardinalityType DEF TdtInv, Budget
  <2> HIDE DEF Emissions
  <2> QED
    BY <2>1, <2>2, <2>3, <2>4, <2>5, <2>6
<1> QED
  BY <1>1, TdtInvAlways, PTL
=============================================================================
