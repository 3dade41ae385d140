----------------------------- MODULE WhisperDecode -----------------------------
(***************************************************************************)
(* WhisperDecoderState (crates/models/src/whisper/state.rs) and the calls  *)
(* that make and extend one (decode.rs). A state owns its tokens, logits   *)
(* and lengths; its K/V rows are in device tensors, which are handles to   *)
(* shared storage (crates/kernels/src/tensor.rs), so that a clone of the   *)
(* state has the rows of the original.                                     *)
(*                                                                         *)
(* An append runs under &mut of the state, and is one step here.           *)
(*                                                                         *)
(* AppendFailsAfterPush is a slip that the checks must notice; no          *)
(* behaviour uses it.                                                      *)
(***************************************************************************)
EXTENDS WhisperForward

CONSTANTS
  Holders,     \* where callers keep decoder states
  Storages,    \* the K/V cache tensors of one state's layers
  Audios,      \* encoded audio windows
  Prompts,     \* prompts, with ids outside the vocabulary included
  AnyToken,    \* tokens callers append, with ids outside the vocabulary
  Zero,        \* the row a cache tensor is allocated with
  NoState      \* a holder without a state

ASSUME DecodeAssumption == Prompts \subseteq Seq(Nat)

VARIABLES
  state,   \* per holder, its decoder state. The audio it was made for is the
           \* caller's to keep: every call on the state passes it again
  heap,    \* per storage, the K/V rows
  common,  \* per storage, the positions that all states that ever had it
           \* agree on: history that only the properties look at
  reply    \* the last call: what it was, on which holder, and its outcome

stateVars == <<state, heap, common, reply>>

Positions == 0..(TextContextLength - 1)
Live(h) == state[h] # NoState
Referenced == {state[h].storage : h \in {x \in Holders : Live(x)}}
Answer(call, h, outcome) ==
  reply' = [call |-> call, on |-> h, outcome |-> outcome]

-----------------------------------------------------------------------------
\* prepare_decoder_state_from_audio: the cache tensors are allocated for the
\* whole context, and the prompt's rows copied to their start
PrepareState(h, audio, tokens) ==
  /\ ~Live(h)
  /\ \/ /\ ValidPrompt(tokens)
        /\ \E s \in Storages \ Referenced :
             /\ heap' = [heap EXCEPT ![s] =
                  Overwritten([x \in Layers \X Positions |-> Zero],
                              PromptRows(audio, tokens), NumLayers)]
             /\ state' = [state EXCEPT ![h] =
                  [audio |-> audio, tokens |-> tokens, storage |-> s,
                   filled |-> Len(tokens), logits |-> FreshLogits(audio, tokens)]]
             /\ common' = [common EXCEPT ![s] = TextContextLength]
        /\ Answer("prepare", h, "Ok")
     \/ /\ ~ValidPrompt(tokens)
        /\ Answer("prepare", h, "InvalidRequest")
        /\ UNCHANGED <<state, heap, common>>
     \/ /\ ValidPrompt(tokens)
        /\ MayFail
        /\ Answer("prepare", h, "Kernel")
        /\ UNCHANGED <<state, heap, common>>

\* validate_decoder_state_for_append and validate_decoder_token
Appendable(h, token) ==
  /\ Len(state[h].tokens) < TextContextLength
  /\ state[h].filled = Len(state[h].tokens)
  /\ token \in Token

\* append_decoder_token_from_audio. Only when logits are there do the lengths
\* and the tokens move.
AppendToken(h, token) ==
  LET me == state[h]
      rows == heap[me.storage]
  IN
  /\ Live(h)
  /\ Appendable(h, token)
  /\ heap' = [heap EXCEPT ![me.storage] =
       Overwritten(@, AppendedRows(me.audio, @, Len(me.tokens), token), NumLayers)]
  /\ state' = [state EXCEPT
       ![h].filled = @ + 1,
       ![h].tokens = Append(@, token),
       ![h].logits =
         Logits(Incremental(me.audio, rows, Len(me.tokens), token)[NumLayers])]
  /\ Answer("append", h, "Ok")
  /\ UNCHANGED common

\* A kernel fails when so many layers have written their row
AppendFailsAfterPush(h, token) ==
  LET me == state[h] IN
  /\ Live(h)
  /\ Appendable(h, token)
  /\ MayFail
  /\ state' = [state EXCEPT ![h].tokens = Append(@, token)]
  /\ UNCHANGED <<heap, common>>
  /\ Answer("append", h, "Kernel")
AppendFails(h, token) ==
  LET me == state[h] IN
  /\ Live(h)
  /\ Appendable(h, token)
  /\ MayFail
  /\ \E layers \in 0..NumLayers :
       heap' = [heap EXCEPT ![me.storage] =
         Overwritten(@, AppendedRows(me.audio, @, Len(me.tokens), token), layers)]
  /\ Answer("append", h, "Kernel")
  /\ UNCHANGED <<state, common>>

RefuseAppend(h, token) ==
  /\ Live(h)
  /\ ~Appendable(h, token)
  /\ Answer("append", h, "InvalidRequest")
  /\ UNCHANGED <<state, heap, common>>

Drop(h) ==
  /\ Live(h)
  /\ state' = [state EXCEPT ![h] = NoState]
  /\ Answer("drop", h, "Ok")
  /\ UNCHANGED <<heap, common>>

\* The derived Clone copies the tensors' handles
Clone(h, copy) ==
  /\ Live(h)
  /\ ~Live(copy)
  /\ state' = [state EXCEPT ![copy] = state[h]]
  /\ common' = [common EXCEPT ![state[h].storage] =
                   IF state[h].filled < @ THEN state[h].filled ELSE @]
  /\ Answer("clone", h, "Ok")
  /\ UNCHANGED heap

-----------------------------------------------------------------------------
StateInit ==
  /\ state = [h \in Holders |-> NoState]
  /\ heap = [s \in Storages |-> [x \in Layers \X Positions |-> Zero]]
  /\ common = [s \in Storages |-> TextContextLength]
  /\ reply = [call |-> "none", on |-> NoState, outcome |-> "Ok"]

StateNext ==
  \E h \in Holders :
    \/ \E audio \in Audios, tokens \in Prompts : PrepareState(h, audio, tokens)
    \/ \E token \in AnyToken :
         AppendToken(h, token) \/ AppendFails(h, token) \/ RefuseAppend(h, token)
    \/ Drop(h)
    \/ \E copy \in Holders : Clone(h, copy)

StateSpec == StateInit /\ [][StateNext]_stateVars

-----------------------------------------------------------------------------
Errors == {"InvalidRequest", "Kernel"}

\* Types; the lengths of a state agree, within the model's text context.
StateTypeOK ==
  /\ DOMAIN heap = Storages
  /\ \A s \in Storages : DOMAIN heap[s] = Layers \X Positions
  /\ common \in [Storages -> 1..TextContextLength]
  /\ reply.outcome \in Errors \cup {"Ok"}
  /\ \A h \in Holders : Live(h) =>
       /\ state[h].audio \in Audios
       /\ state[h].storage \in Storages
       /\ state[h].tokens \in Seq(Token)
       /\ state[h].filled = Len(state[h].tokens)
       /\ state[h].filled \in 1..TextContextLength

\* Positions of a state that no clone has its own idea of
Kept(h) == {p \in 0..(state[h].filled - 1) : p < common[state[h].storage]}
Cloned(h) == common[state[h].storage] < TextContextLength

\* "Incremental self-attention matches the full causal last-row result":
\* the visible rows of every state are those of the pass over all its tokens,
\* and clones, which share their rows, keep those of the tokens they share.
RowsMatchFullContext ==
  /\ StateTypeOK
  /\ \A h \in Holders : Live(h) =>
       \A x \in Layers \X Kept(h) :
         heap[state[h].storage][x] = PromptRows(state[h].audio, state[h].tokens)[x]

\* "Appending a decoder token produces logits matching the full-context path"
\* (docs/tasks/post-m3-whisper-asr.md), unless the state was cloned: clones
\* overwrite each other's rows.
AppendMatchesFullContext ==
  \A h \in Holders : Live(h) /\ ~Cloned(h) =>
    state[h].logits = FreshLogits(state[h].audio, state[h].tokens)

\* A call that fails, at whatever layer, changes nothing a later call can see
\* of any state, so that it can be made again; rows that clones quarrel over
\* aside.
FailureLeavesNoTrace ==
  [][reply'.outcome \in Errors
     => /\ UNCHANGED state
        /\ \A h \in Holders : Live(h) =>
             \A x \in Layers \X Kept(h) :
               heap'[state[h].storage][x] = heap[state[h].storage][x]]_stateVars
=============================================================================
