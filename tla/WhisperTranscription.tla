------------------------- MODULE WhisperTranscription -------------------------
(***************************************************************************)
(* transcribe_whisper (crates/runtime/src/whisper/transcribe.rs): the      *)
(* checks of a request, the encoding of its audio, and the decode loop,    *)
(* which extends one decoder state token by token.                         *)
(*                                                                         *)
(* AppendLast and AppendRetried are slips that the checks must notice; no  *)
(* behaviour uses them.                                                    *)
(***************************************************************************)
EXTENDS WhisperForward

CONSTANTS
  Requests,           \* [audio, prompt, wanted, stop]
  BadAudio,           \* audio that its checks refuse: empty, too long, ...
  MaskedSample(_),    \* masked_greedy_sample under the request's mask
  AllSuppressed,      \* its answer when the mask leaves no token
  MaxPromptTokens, MaxNewTokens, MaxContextTokens,   \* RequestLimits
  None

ASSUME TranscriptionAssumption ==
  /\ {MaxPromptTokens, MaxNewTokens, MaxContextTokens} \subseteq Nat
  /\ AllSuppressed \notin Token
  /\ None \notin {"Ok", "InvalidRequest", "Kernel", "Runtime"}
  /\ \A r \in Requests : r.prompt \in Seq(Nat) /\ r.wanted \in Nat

VARIABLES
  request,
  at,        \* where the function has come to
  decoder,   \* WhisperDecoderState: its tokens, K/V rows and logits
  tokens,    \* the response
  logits,
  result     \* None, "Ok" or the kind of error

vars == <<request, at, decoder, tokens, logits, result>>

-----------------------------------------------------------------------------
\* RequestLimits::validate_generation
WithinLimits(prompt, wanted) ==
  /\ MaxPromptTokens \in 1..MaxContextTokens
  /\ MaxNewTokens \in 1..MaxContextTokens
  /\ prompt <= MaxPromptTokens
  /\ wanted <= MaxNewTokens
  /\ prompt + wanted <= MaxContextTokens

\* validate_whisper_decode_request
Decodable(r) ==
  /\ r.prompt # <<>>
  /\ r.wanted # 0
  /\ WithinLimits(Len(r.prompt), r.wanted)
  /\ Len(r.prompt) + r.wanted <= TextContextLength

Fail(kind) ==
  /\ at' = "Returned"
  /\ result' = kind
  /\ UNCHANGED <<request, decoder, tokens, logits>>

Goto(place) == at' = place /\ UNCHANGED <<request, result>>

\* The request is checked before its audio is looked at
Validate ==
  /\ at = "Validate"
  /\ \/ Decodable(request) /\ Goto("Encode") /\ UNCHANGED <<decoder, tokens, logits>>
     \/ ~Decodable(request) /\ Fail("InvalidRequest")

\* prepare_whisper_transcription_impl
Encode ==
  /\ at = "Encode"
  /\ \/ /\ request.audio # BadAudio
        /\ Goto("Prepare")
        /\ UNCHANGED <<decoder, tokens, logits>>
     \/ request.audio = BadAudio /\ Fail("InvalidRequest")
     \/ request.audio # BadAudio /\ MayFail /\ Fail("Kernel")

\* decode_whisper_transcription_impl: the same checks, and the prompt
Prepare ==
  /\ at = "Prepare"
  /\ \/ /\ Decodable(request)
        /\ ValidPrompt(request.prompt)
        /\ decoder' = [tokens |-> request.prompt,
                       rows |-> PromptRows(request.audio, request.prompt),
                       logits |-> FreshLogits(request.audio, request.prompt)]
        /\ Goto("Sample")
        /\ UNCHANGED <<tokens, logits>>
     \/ ~(Decodable(request) /\ ValidPrompt(request.prompt)) /\ Fail("InvalidRequest")
     \/ MayFail /\ Fail("Kernel")

\* The loop has gone round as often as tokens are wanted
LoopEnds ==
  /\ at = "Sample"
  /\ Len(tokens) = request.wanted
  /\ at' = "Returned"
  /\ result' = "Ok"
  /\ UNCHANGED <<request, decoder, tokens, logits>>

AppendLast ==
  /\ at = "Sample"
  /\ Len(tokens) < request.wanted
  /\ logits' = decoder.logits
  /\ LET next == MaskedSample(decoder.logits) IN
     \/ /\ next # AllSuppressed
        /\ tokens' = Append(tokens, next)
        /\ \/ next = request.stop /\ at' = "Returned" /\ result' = "Ok"
           \/ /\ next # request.stop
              /\ at' = "Append"
              /\ UNCHANGED result
     \/ /\ next = AllSuppressed
        /\ at' = "Returned"
        /\ result' = "Runtime"
        /\ UNCHANGED tokens
  /\ UNCHANGED <<request, decoder>>
\* The upper half of a round. A token that will be the last is not appended.
SampleNext ==
  /\ at = "Sample"
  /\ Len(tokens) < request.wanted
  /\ logits' = decoder.logits
  /\ LET next == MaskedSample(decoder.logits) IN
     \/ /\ next # AllSuppressed
        /\ tokens' = Append(tokens, next)
        /\ \/ next = request.stop /\ at' = "Returned" /\ result' = "Ok"
           \/ /\ next # request.stop
              /\ at' = IF Len(tokens) + 1 < request.wanted THEN "Append" ELSE "Sample"
              /\ UNCHANGED result
     \/ /\ next = AllSuppressed
        /\ at' = "Returned"
        /\ result' = "Runtime"
        /\ UNCHANGED tokens
  /\ UNCHANGED <<request, decoder>>

\* The cache with the rows of one more position
Grown(rows, new) ==
  [x \in (DOMAIN rows) \cup (DOMAIN new) |->
     IF x \in DOMAIN new THEN new[x] ELSE rows[x]]

\* The lower half: append_decoder_token_from_audio
AppendRetried ==
  LET last == tokens[Len(tokens)]
      len == Len(decoder.tokens)
  IN
  /\ at = "Append"
  /\ \/ /\ len < TextContextLength
        /\ last \in Token
        /\ decoder' =
             [tokens |-> Append(decoder.tokens, last),
              rows |-> Grown(decoder.rows,
                           AppendedRows(request.audio, decoder.rows, len, last)),
              logits |-> Logits(Incremental(request.audio, decoder.rows, len,
                                            last)[NumLayers])]
        /\ Goto("Sample")
        /\ UNCHANGED <<tokens, logits>>
     \/ ~(len < TextContextLength /\ last \in Token) /\ Fail("InvalidRequest")
     \/ /\ MayFail
        /\ tokens' = SubSeq(tokens, 1, Len(tokens) - 1)
        /\ Goto("Sample")
        /\ UNCHANGED <<decoder, logits>>
AppendNext ==
  LET last == tokens[Len(tokens)]
      len == Len(decoder.tokens)
  IN
  /\ at = "Append"
  /\ \/ /\ len < TextContextLength
        /\ last \in Token
        /\ decoder' =
             [tokens |-> Append(decoder.tokens, last),
              rows |-> Grown(decoder.rows,
                           AppendedRows(request.audio, decoder.rows, len, last)),
              logits |-> Logits(Incremental(request.audio, decoder.rows, len,
                                            last)[NumLayers])]
        /\ Goto("Sample")
        /\ UNCHANGED <<tokens, logits>>
     \/ ~(len < TextContextLength /\ last \in Token) /\ Fail("InvalidRequest")
     \/ MayFail /\ Fail("Kernel")

-----------------------------------------------------------------------------
Init ==
  /\ request \in Requests
  /\ at = "Validate"
  /\ decoder = None
  /\ tokens = <<>>
  /\ logits = None
  /\ result = None

Step == Validate \/ Encode \/ Prepare \/ LoopEnds \/ SampleNext \/ AppendNext
Returned == at = "Returned" /\ UNCHANGED vars
Next == Step \/ Returned

Spec == Init /\ [][Next]_vars

\* The function runs until it returns
FairSpec == Spec /\ WF_vars(Step)

-----------------------------------------------------------------------------
\* Types, and a decoder state that has been prepared once tokens are sampled.
TypeOK ==
  /\ request \in Requests
  /\ at \in {"Validate", "Encode", "Prepare", "Sample", "Append", "Returned"}
  /\ tokens \in Seq(Token)
  /\ Len(tokens) <= request.wanted
  /\ result \in {None, "Ok", "InvalidRequest", "Kernel", "Runtime"}
  /\ result # None <=> at = "Returned"
  /\ at \in {"Sample", "Append"} \/ tokens # <<>> => decoder # None

\* Once sampling has begun no request is refused as invalid, at the end of the
\* context or for a token: validate_whisper_decode_request is all it takes.
NeverRefusedLate == tokens # <<>> => result # "InvalidRequest"

\* The decoder state lags behind the response by the token that is last in
\* it, if any is: the response's logits are those its last token was chosen
\* from, and no decoder step is spent on a token nobody looks beyond. So the
\* context, checked once, is never met by an append.
DecoderOneBehind ==
  /\ TypeOK
  /\ NeverRefusedLate
  /\ at = "Sample" \/ result = "Ok" =>
       LET seen == IF result = "Ok" \/ Len(tokens) = request.wanted
                   THEN SubSeq(tokens, 1, Len(tokens) - 1)
                   ELSE tokens
       IN  /\ decoder.tokens = request.prompt \o seen
           /\ result = "Ok" =>
                logits = FreshLogits(request.audio, request.prompt \o seen)

\* Every request is answered, whatever the model samples and wherever it fails.
Returns == <>(at = "Returned")

-----------------------------------------------------------------------------
(***************************************************************************)
(* The loop implements greedy decoding with full-context logits.           *)
(***************************************************************************)
FullContextToken(r, soFar) ==
  MaskedSample(FreshLogits(r.audio, r.prompt \o soFar))

Status ==
  IF result = "Ok" THEN "Done"
  ELSE IF result # None THEN "Failed"
  ELSE IF at \in {"Validate", "Encode", "Prepare"} THEN "New"
  ELSE IF Len(tokens) = request.wanted THEN "Done"
  ELSE "Decoding"

Greedy == INSTANCE GreedyDecoding WITH
  NextToken <- FullContextToken, NoToken <- AllSuppressed, status <- Status

\* The cached loop's tokens are those of decoding the whole sequence anew for
\* every token (decode_whisper_transcription).
ImplementsGreedy == Greedy!GreedySpec
=============================================================================
