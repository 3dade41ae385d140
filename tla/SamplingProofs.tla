---------------------------- MODULE SamplingProofs ----------------------------
(***************************************************************************)
(* For vocabularies of every size: what the three scans of Sampling answer.*)
(* The inductive invariant says what the scan knows of the ids it has seen.*)
(***************************************************************************)
EXTENDS Sampling, TLAPS

\* The ids that the scan has looked at
Seen == (0..(i - 1)) \ mask

\* A scan without a best id has seen none that counts, and it answers only at
\* the end.
NoneSeen ==
  /\ best = None => Seen = {}
  /\ best # None => best \notin mask
  /\ answer \in Nat => answer = best /\ i = Len(logits)
  /\ answer = Error => Candidates = {}

\* The best id is the lowest maximum of those seen. The scan that starts at
\* minus infinity stays at id 0 as long as it sees nothing larger.
BestSeen ==
  \/ best = None
  \/ best \in Nat /\ bestLogit = LogitOf(best) /\ IsLowestMax(best, Seen)
  \/ /\ sampler = "Tdt" /\ best = 0 /\ bestLogit = NegInfinity
     /\ \A id \in Seen : LogitOf(id) = NegInfinity

ScanInv == TypeOK /\ NoneSeen /\ (NanFree => BestSeen)

\* Before the scan nothing is seen, so nothing is best.
LEMMA ScanInvInit == Init => ScanInv
<1> SUFFICES ASSUME Init PROVE ScanInv
  OBVIOUS
<1>1. logits \in Seq(Logit) /\ Len(logits) \in Nat
  BY DEF Init, Vectors
<1>2. sampler # "Masked" => mask = {}
  BY DEF Init
<1>3. mask \subseteq Ids
  BY DEF Init
<1>4. \A id \in Ids : LogitOf(id) \in Logit
  BY <1>1 DEF Ids, LogitOf
<1>5. logits # <<>> => 0 \in Ids
  BY <1>1 DEF Ids
<1>6. TypeOK
  BY <1>1, <1>2, <1>3, <1>4, <1>5, SamplingAssumption DEF Init, TypeOK, Logit, Ids
<1>7. NoneSeen
  BY <1>1, <1>2, SamplingAssumption DEF Init, NoneSeen, Seen, Candidates, Ids
<1>8. NanFree => BestSeen
  BY <1>1, <1>2, <1>4, <1>5, SamplingAssumption
  DEF Init, BestSeen, Seen, IsLowestMax, NanFree, Logit
<1> QED
  BY <1>6, <1>7, <1>8 DEF ScanInv

\* Looking at one more logit keeps what is said of those seen.
LEMMA ScanKeepsInv == ScanInv /\ Scan => ScanInv'
<1> SUFFICES ASSUME ScanInv, Scan PROVE ScanInv'
  OBVIOUS
<1> USE SamplingAssumption
<1>1. /\ i \in Nat /\ i \in Ids /\ i' = i + 1 /\ Len(logits) \in Nat
      /\ UNCHANGED <<sampler, logits, mask, answer>> /\ answer = None
  BY DEF ScanInv, TypeOK, Scan
<1>2. Seen' = Seen \cup ({i} \ mask) /\ i \notin Seen /\ Ids' = Ids
      /\ \A id \in Seen : id \in Ids /\ id < i
  BY <1>1 DEF Seen, Ids
<1>3. \A id \in Ids : LogitOf(id) \in Logit /\ LogitOf(id)' = LogitOf(id)
  BY <1>1 DEF ScanInv, TypeOK, Ids, LogitOf
<1>4. TypeOK'
  BY <1>1, <1>2, <1>3 DEF ScanInv, TypeOK, Scan, Ids
<1>5. NoneSeen'
  BY <1>1, <1>2 DEF ScanInv, NoneSeen, Scan, Better, TypeOK
<1>6. ASSUME NanFree' PROVE BestSeen'
  <2>1. NanFree /\ \A id \in Ids : LogitOf(id) \in Number /\ LogitOf(id) \in Int
    BY <1>6, <1>2, <1>3 DEF NanFree, Logit
  <2>2. BestSeen
    BY <2>1 DEF ScanInv
  <2>3. CASE i \notin mask /\ Better(LogitOf(i))
    <3>1. best' = i /\ bestLogit' = LogitOf(i)
      BY <2>3 DEF Scan
    <3>2. Seen' = Seen \cup {i}
      BY <1>2, <2>3
    <3>3. \A id \in Seen : LogitOf(id) < LogitOf(i)
      <4>1. CASE best = None
        BY <4>1 DEF ScanInv, NoneSeen
      <4>2. CASE best # None
        <5>1. Above(LogitOf(i), bestLogit)
          BY <2>3, <4>2 DEF Better
        <5>2. \A id \in Seen : LogitOf(id) <= bestLogit
          BY <2>1, <2>2, <4>2, <1>2 DEF BestSeen, IsLowestMax
        <5>3. bestLogit \in Int
          BY <2>1, <2>2, <1>2, <4>2 DEF BestSeen, IsLowestMax
        <5>4. LogitOf(i) > bestLogit /\ LogitOf(i) \in Int
          BY <5>1, <2>1, <1>1 DEF Above
        <5>5. \A id \in Seen : LogitOf(id) \in Int
          BY <1>2, <2>1
        <5> HIDE DEF LogitOf
        <5> QED
          BY <5>2, <5>3, <5>4, <5>5
      <4> QED
        BY <4>1, <4>2
    <3>4. IsLowestMax(i, Seen \cup {i})
      BY <3>3, <1>1 DEF IsLowestMax
    <3>5. IsLowestMax(best, Seen)'
      BY <3>1, <3>2, <3>4, <1>1, <1>2, <1>3 DEF IsLowestMax
    <3> QED
      BY <3>1, <3>5, <1>1, <1>3 DEF BestSeen
  <2>4. CASE i \in mask
    BY <2>2, <2>4, <1>1, <1>2, <1>3 DEF Scan, BestSeen, IsLowestMax
  <2>5. CASE i \notin mask /\ ~Better(LogitOf(i))
    <3>1. UNCHANGED <<best, bestLogit>> /\ best # None
      BY <2>5 DEF Scan, Better
    <3>2. bestLogit \in Int /\ bestLogit # NaN
      BY <2>1, <2>2, <1>2, <3>1 DEF BestSeen, IsLowestMax
    <3>3. LogitOf(i) <= bestLogit
      BY <2>1, <2>5, <3>1, <3>2, <1>1, <1>6 DEF Better, Above, NanFree
    <3>4. CASE best \in Nat /\ bestLogit = LogitOf(best) /\ IsLowestMax(best, Seen)
      <4>1. best \in Ids /\ best < i
        BY <3>4, <1>2 DEF IsLowestMax
      <4>2. IsLowestMax(best, Seen \cup {i})
        BY <3>4, <3>3, <4>1, <1>1, <2>1 DEF IsLowestMax
      <4>3. Seen' = Seen \cup {i}
        BY <1>2, <2>5
      <4> QED
        BY <3>1, <3>4, <4>1, <4>2, <4>3, <1>2, <1>3, <1>1 DEF BestSeen, IsLowestMax
    <3>5. CASE /\ sampler = "Tdt" /\ best = 0 /\ bestLogit = NegInfinity
               /\ \A id \in Seen : LogitOf(id) = NegInfinity
      <4>1. LogitOf(i) = NegInfinity
        BY <3>3, <3>5, <2>1, <1>1
      <4> QED
        BY <3>1, <3>5, <4>1, <1>1, <1>2, <1>3 DEF BestSeen
    <3> QED
      BY <3>1, <3>4, <3>5, <2>2 DEF BestSeen
  <2> QED
    BY <2>3, <2>4, <2>5 DEF Scan
<1> QED
  BY <1>4, <1>5, <1>6 DEF ScanInv

\* Returning changes neither what is seen nor the best of it.
LEMMA ReturnKeepsInv == ScanInv /\ Return => ScanInv'
<1> SUFFICES ASSUME ScanInv, Return PROVE ScanInv'
  OBVIOUS
<1> USE SamplingAssumption
<1>1. UNCHANGED <<sampler, logits, mask, i, best, bestLogit>>
  BY DEF Return
<1>2. i = Len(logits) /\ Seen = Candidates /\ Len(logits) \in Nat
  BY DEF ScanInv, TypeOK, Return, Ids, Seen, Candidates
<1>3. TypeOK'
  BY <1>1 DEF ScanInv, TypeOK, Return, Ids
<1>4. NoneSeen'
  BY <1>1, <1>2 DEF ScanInv, NoneSeen, Return, Seen, Candidates, Ids, TypeOK
<1>5. NanFree' => BestSeen'
  BY <1>1 DEF ScanInv, NanFree, BestSeen, IsLowestMax, Seen, LogitOf, Ids
<1> QED
  BY <1>3, <1>4, <1>5 DEF ScanInv

\* At every point of greedy_sample's scan the candidate is the first of the
\* largest of the logits seen, if none of them is NaN.
THEOREM ScanInvAlways == Spec => []ScanInv
<1>1. ScanInv /\ UNCHANGED vars => ScanInv'
  BY DEF vars, ScanInv, TypeOK, NoneSeen, NanFree, BestSeen, IsLowestMax,
         Seen, Candidates, LogitOf, Ids
<1>2. ScanInv /\ [Next]_vars => ScanInv'
  BY <1>1, ScanKeepsInv, ReturnKeepsInv DEF Next
<1> QED
  BY ScanInvInit, <1>2, PTL DEF Spec

\* The scans of greedy_sample, masked_greedy_sample and argmax give the lowest
\* unmasked id of the largest logit, for every number of logits.
THEOREM SampleIsLowestMaxAlways == Spec => []SampleIsLowestMax
<1>1. ScanInv => SampleIsLowestMax
  <2> SUFFICES ASSUME ScanInv, answer \in Nat, NanFree, Ids # {}
               PROVE  IsLowestMax(answer, Candidates)
    BY DEF SampleIsLowestMax
  <2> USE SamplingAssumption
  <2>1. answer = best /\ i = Len(logits) /\ Len(logits) \in Nat /\ best # None
    BY DEF ScanInv, NoneSeen, TypeOK
  <2>2. Seen = Candidates
    BY <2>1 DEF Seen, Candidates, Ids
  <2>3. CASE IsLowestMax(best, Seen)
    BY <2>1, <2>2, <2>3
  <2>4. CASE /\ sampler = "Tdt" /\ best = 0
             /\ \A id \in Seen : LogitOf(id) = NegInfinity
    <3>1. mask = {} /\ 0 \in Ids
      BY <2>4, <2>1 DEF ScanInv, TypeOK, Ids
    <3>2. \A id \in Ids : 0 <= id
      BY DEF Ids
    <3> QED
      BY <2>1, <2>2, <2>4, <3>1, <3>2 DEF Candidates, IsLowestMax
  <2> QED
    BY <2>1, <2>3, <2>4 DEF ScanInv, BestSeen
<1> QED
  BY <1>1, ScanInvAlways, PTL

\* masked_greedy_sample never answers a suppressed token, whatever the logits
\* are, and errs only when all are suppressed.
THEOREM SuppressedNeverSampledAlways == Spec => []SuppressedNeverSampled
<1>1. ScanInv => SuppressedNeverSampled
  BY SamplingAssumption DEF ScanInv, NoneSeen, SuppressedNeverSampled
<1> QED
  BY <1>1, ScanInvAlways, PTL
=============================================================================
