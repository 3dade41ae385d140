------------------------------- MODULE TdtDecode -------------------------------
(***************************************************************************)
(* greedy_decode of the Parakeet transducer                                *)
(* (crates/models/src/parakeet/decoder.rs): at each encoder frame the joint*)
(* gives a token, or blank, and how many frames to go on by, possibly      *)
(* none. One action is one round of its loop.                              *)
(*                                                                         *)
(* The joint's answer is left open. The state of the prediction network is *)
(* identified with the tokens it was fed.                                  *)
(*                                                                         *)
(* CommitAlways, AdvanceOnDuration and AdvanceOnBudget are slips that the  *)
(* checks must notice; no behaviour uses them.                             *)
(***************************************************************************)
EXTENDS Integers, Sequences, FiniteSets

CONSTANTS
  Frames,             \* encoder frames of the utterance
  Token,              \* the vocabulary without blank
  Blank,
  Durations,          \* the values of TdtConfig::durations
  MaxTokensPerStep,   \* TdtConfig::max_tokens_per_step
  MaxSteps,           \* TdtConfig::max_steps
  MayFail             \* may a kernel return an error?

ASSUME TdtAssumption ==
  /\ Frames \in Nat
  /\ Blank \notin Token
  /\ Durations \subseteq Nat
  /\ MaxTokensPerStep \in Nat
  /\ MaxSteps \in Nat
  /\ MayFail \in BOOLEAN

VARIABLES
  t,         \* the frame the loop is at
  emitted,   \* tokens emitted since t last moved
  net,       \* the tokens that the committed prediction state has been fed
  tokens,    \* what is emitted
  frames,    \* the frame each of these was emitted at
  steps,     \* rounds so far
  result     \* "None", "Ok" or the error

vars == <<t, emitted, net, tokens, frames, steps, result>>

-----------------------------------------------------------------------------
PrevToken == IF tokens = <<>> THEN Blank ELSE tokens[Len(tokens)]

\* prednet_step: the state after one more token, which the caller may discard
PrednetStep == Append(net, PrevToken)

CommitAlways(token) ==
  /\ net' = PrednetStep
  /\ tokens' = IF token = Blank THEN tokens ELSE Append(tokens, token)
  /\ frames' = IF token = Blank THEN frames ELSE Append(frames, t)
\* A blank leaves the prediction network exactly as it was
Commit(token) ==
  IF token = Blank THEN UNCHANGED <<net, tokens, frames>>
  ELSE /\ net' = PrednetStep
       /\ tokens' = Append(tokens, token)
       /\ frames' = Append(frames, t)

AdvanceOnDuration(token, duration) ==
  LET count == IF token = Blank THEN emitted ELSE emitted + 1 IN
  IF duration > 0 THEN t' = t + duration /\ emitted' = 0
  ELSE IF token = Blank THEN t' = t + 1 /\ emitted' = 0
  ELSE t' = t /\ emitted' = count
AdvanceOnBudget(token, duration) ==
  LET count == IF token = Blank THEN emitted ELSE emitted + 1 IN
  IF duration > 0 THEN t' = t + duration /\ emitted' = 0
  ELSE IF count = MaxTokensPerStep THEN t' = t + 1 /\ emitted' = 0
  ELSE t' = t /\ emitted' = count
\* Duration 0 stalls time; a blank or a full symbol budget breaks the stall
Advance(token, duration) ==
  LET count == IF token = Blank THEN emitted ELSE emitted + 1 IN
  IF duration > 0 THEN t' = t + duration /\ emitted' = 0
  ELSE IF token = Blank \/ count = MaxTokensPerStep THEN t' = t + 1 /\ emitted' = 0
  ELSE t' = t /\ emitted' = count

Fail(kind) ==
  /\ result' = kind
  /\ UNCHANGED <<t, emitted, net, tokens, frames, steps>>

Round(token, duration) ==
  /\ result = "None"
  /\ t < Frames
  /\ steps < MaxSteps
  /\ Commit(token)
  /\ Advance(token, duration)
  /\ steps' = steps + 1
  /\ UNCHANGED result

TooManySteps ==
  /\ result = "None"
  /\ t < Frames
  /\ steps >= MaxSteps
  /\ Fail("Exceeded")

KernelFails ==
  /\ result = "None"
  /\ t < Frames
  /\ steps < MaxSteps
  /\ MayFail
  /\ Fail("Kernel")

Finish ==
  /\ result = "None"
  /\ t >= Frames
  /\ result' = "Ok"
  /\ UNCHANGED <<t, emitted, net, tokens, frames, steps>>

-----------------------------------------------------------------------------
\* The call, up to its loop
Init ==
  /\ t = 0 /\ emitted = 0 /\ net = <<>> /\ tokens = <<>> /\ frames = <<>>
  /\ steps = 0
  /\ result = IF MaxTokensPerStep = 0 THEN "Config" ELSE "None"

Loop ==
  \/ \E token \in Token \cup {Blank}, duration \in Durations : Round(token, duration)
  \/ TooManySteps
  \/ KernelFails
  \/ Finish
Returned == result # "None" /\ UNCHANGED vars
Next == Loop \/ Returned

Spec == Init /\ [][Next]_vars

-----------------------------------------------------------------------------
\* The frames of the tokens never go back, and none is ahead of the loop.
FramesInOrder ==
  \A i \in DOMAIN frames :
    /\ frames[i] <= t
    /\ \A j \in 1..i : frames[j] <= frames[i]

\* Types; a token's frame is one of the utterance.
TypeOK ==
  /\ t \in Nat /\ emitted \in Nat /\ steps \in Nat
  /\ net \in Seq(Token \cup {Blank})
  /\ tokens \in Seq(Token)
  /\ frames \in Seq(0..(Frames - 1))
  /\ Len(frames) = Len(tokens)
  /\ FramesInOrder
  /\ result \in {"None", "Ok", "Config", "Exceeded", "Kernel"}

\* "Commit the prediction state only on a non-blank": the network has been fed
\* the start token and every emitted token but the last, each once and in
\* order, however many blanks were between them.
NetFedOnce ==
  net = IF tokens = <<>> THEN <<>>
        ELSE <<Blank>> \o SubSeq(tokens, 1, Len(tokens) - 1)

\* MAX_TOKENS_PER_STEP: "emissions allowed at one time index"; and the frames
\* the tokens were emitted at, parallel to them, never go back.
EmissionsPerFrame ==
  /\ FramesInOrder
  /\ \A f \in 0..(Frames - 1) :
       Cardinality({i \in DOMAIN frames : frames[i] = f}) <= MaxTokensPerStep

\* No weights can make the loop run on: it takes at most max_tokens_per_step
\* rounds per frame, whatever the duration head predicts and without max_steps.
StepsBounded ==
  result = "None" => steps <= t * MaxTokensPerStep + emitted

=============================================================================
