------------------------------- MODULE Sampling -------------------------------
(***************************************************************************)
(* The three argmax scans that turn logits into a token: greedy_sample     *)
(* (crates/runtime/src/sampling.rs), Whisper's masked_greedy_sample        *)
(* (crates/runtime/src/whisper/transcribe.rs) and argmax of the Parakeet   *)
(* decoder (crates/models/src/parakeet/decoder.rs). They differ in what    *)
(* they start from and in the logits they pass over.                       *)
(*                                                                         *)
(* A logit is a number or NaN, which no comparison of f32 holds for.       *)
(*                                                                         *)
(* BetterOrTied and ScanUnmasked are slips that the checks must notice; no *)
(* behaviour uses them.                                                    *)
(***************************************************************************)
EXTENDS Integers, Sequences

CONSTANTS
  Samplers,       \* a subset of {"Greedy", "Masked", "Tdt"}
  Number,         \* the numbers among the logits, and minus infinity
  NegInfinity,
  NaN,
  MaxVocabulary,  \* bound: no more logits than that
  None,           \* no token yet
  Error           \* the answer of a scan that finds no token

ASSUME SamplingAssumption ==
  /\ Samplers \subseteq {"Greedy", "Masked", "Tdt"}
  /\ Number \subseteq Int
  /\ NegInfinity \in Number
  /\ \A x \in Number : NegInfinity <= x
  /\ NaN \notin Number
  /\ MaxVocabulary \in Nat
  /\ None \notin Int
  /\ Error \notin Int
  /\ Error # None

VARIABLES
  sampler,    \* which scan
  logits,     \* what is scanned
  mask,       \* ids that are suppressed, for the masked scan
  i,          \* the id the scan has come to
  best,       \* the best id so far
  bestLogit,
  answer      \* None, the id, or Error

vars == <<sampler, logits, mask, i, best, bestLogit, answer>>

Logit == Number \cup {NaN}
Ids == 0..(Len(logits) - 1)
LogitOf(id) == logits[id + 1]

\* > of f32
Above(x, y) == x # NaN /\ y # NaN /\ x > y

-----------------------------------------------------------------------------
Vectors == UNION {[1..n -> Logit] : n \in 0..MaxVocabulary}

\* The call, up to its loop
Init ==
  /\ sampler \in Samplers
  /\ logits \in Vectors
  /\ mask \in IF sampler = "Masked" THEN SUBSET Ids ELSE {{}}
  /\ \/ /\ sampler = "Greedy" /\ logits = <<>>
        /\ i = 0 /\ best = None /\ bestLogit = NegInfinity /\ answer = Error
     \/ /\ sampler = "Greedy" /\ logits # <<>>
        /\ i = 1 /\ best = 0 /\ bestLogit = LogitOf(0) /\ answer = None
     \/ /\ sampler = "Masked"
        /\ i = 0 /\ best = None /\ bestLogit = NegInfinity /\ answer = None
     \/ /\ sampler = "Tdt"
        /\ i = 0 /\ best = 0 /\ bestLogit = NegInfinity /\ answer = None

BetterOrTied(x) == best = None \/ Above(x, bestLogit) \/ x = bestLogit
Better(x) == best = None \/ Above(x, bestLogit)

ScanUnmasked ==
  /\ answer = None
  /\ i \in Ids
  /\ i' = i + 1
  /\ \/ /\ Better(LogitOf(i))
        /\ best' = i
        /\ bestLogit' = LogitOf(i)
     \/ /\ ~Better(LogitOf(i))
        /\ UNCHANGED <<best, bestLogit>>
  /\ UNCHANGED <<sampler, logits, mask, answer>>
\* One round of the loop
Scan ==
  /\ answer = None
  /\ i \in Ids
  /\ i' = i + 1
  /\ \/ /\ i \notin mask
        /\ Better(LogitOf(i))
        /\ best' = i
        /\ bestLogit' = LogitOf(i)
     \/ /\ i \in mask \/ ~Better(LogitOf(i))
        /\ UNCHANGED <<best, bestLogit>>
  /\ UNCHANGED <<sampler, logits, mask, answer>>

Return ==
  /\ answer = None
  /\ i \notin Ids
  /\ answer' = IF best = None THEN Error ELSE best
  /\ UNCHANGED <<sampler, logits, mask, i, best, bestLogit>>

Next == Scan \/ Return

Spec == Init /\ [][Next]_vars

-----------------------------------------------------------------------------
Candidates == Ids \ mask
NanFree == \A id \in Ids : LogitOf(id) # NaN

\* id is the lowest of the ids that have the largest logit
IsLowestMax(id, ids) ==
  /\ id \in ids
  /\ \A other \in ids :
       \/ LogitOf(other) < LogitOf(id)
       \/ LogitOf(other) = LogitOf(id) /\ id <= other

\* Ids stay inside the vocabulary and logits inside their type.
TypeOK ==
  /\ sampler \in Samplers
  /\ logits \in Seq(Logit)
  /\ mask \subseteq Ids
  /\ sampler # "Masked" => mask = {}
  /\ i \in Nat
  /\ i <= Len(logits)
  /\ best \in Nat \cup {None}
  /\ bestLogit \in Logit
  /\ answer \in Nat \cup {None, Error}

\* "The lowest token id wins" (greedy_sample): finite logits give the lowest
\* of the ids with the largest logit that the mask leaves, in all three scans.
SampleIsLowestMax ==
  answer \in Nat /\ NanFree /\ Ids # {} => IsLowestMax(answer, Candidates)

\* A suppressed token is never sampled, NaN or not, and a scan fails only
\* where no token is left (masked_greedy_sample).
SuppressedNeverSampled ==
  /\ answer \in Nat => answer \notin mask
  /\ answer = Error => Candidates = {}

\* "A NaN never wins unless every logit is NaN" (greedy_sample).
NanNeverWins ==
  answer \in Ids /\ LogitOf(answer) = NaN
    => \A id \in Candidates : LogitOf(id) = NaN
=============================================================================
