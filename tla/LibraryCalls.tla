----------------------------- MODULE LibraryCalls -----------------------------
(***************************************************************************)
(* Calls of the operations that keep no state: the kernels, the readers of *)
(* model files, and the passes of the models that are loaded from them.    *)
(***************************************************************************)
EXTENDS KernelCalls, GgufFile

CONSTANTS
  GgufCalls,        \* [file, limits] as in GgufFile
  SafetensorsCalls, \* a file as in GgufFile
  GemmaCalls,       \* [meta, tensors, native, ids, layers] as in GemmaText
  QwenCalls,        \* [file, tensors, ids, token, position, limits, new] as in QwenModel
  WhisperCalls,     \* [file, tensors, audio, plan, ids, filled] as in WhisperModel
  ParakeetCalls     \* [part, c] and what the part is of, as in ParakeetEncoder

CONSTANTS
  MaxContext, MinVocab, MaxAudioContext, MaxTextContext, FftSize, HopLength,
  MelBins

ASSUME LibraryAssumption ==
  /\ {MaxContext, MinVocab, MaxAudioContext, MaxTextContext, HopLength, MelBins} \subseteq Nat \ {0}
  /\ FftSize \in Nat /\ FftSize % 2 = 0 /\ FftSize >= HopLength

Gemma == INSTANCE GemmaText
Qwen == INSTANCE QwenModel
Whisper == INSTANCE WhisperModel
Parakeet == INSTANCE ParakeetEncoder

InspectGguf == Request("gguf", GgufCalls)
InspectTensors == Request("safetensors", SafetensorsCalls)
RunGemma == Request("gemma", GemmaCalls)
RunQwen == Request("qwen", QwenCalls)
RunWhisper == Request("whisper", WhisperCalls)
RunParakeet == Request("parakeet", ParakeetCalls)

Next ==
  \/ KernelNext
  \/ InspectGguf \/ InspectTensors \/ RunGemma \/ RunQwen \/ RunWhisper \/ RunParakeet

Spec == Init /\ [][Next]_call

IsPart(part) == Is("parakeet") /\ call.args.part = part

-----------------------------------------------------------------------------
\* A GGUF file is accepted exactly when a writer could have laid it out: a
\* file that ends early anywhere, or whose offsets overflow, is not, and the
\* bound on the counts refuses none that is whole. A tensor then loads as many
\* values as its shape has from the bytes the writer gave it, and the reader of
\* the tokenizer, if it does not refuse an entry, stops where the other does.
\* A safetensors file that is inspected has all its tensors loaded.
FilesReadAsWritten ==
  /\ Is("gguf") =>
       LET file == call.args.file
           l == call.args.limits
           end == AfterTensors(file, l)
           unit == Alignment(file)
       IN  /\ Inspect(file, l).ok = Written(file, l)
           /\ Written(file, l) =>
                /\ AfterTokenizer(file, l) \in {Refused, AfterEntries(file, l)}
                /\ \A t \in ToSet(file.tensors), mode \in {"dense", "dequantized", "k-quant bytes"} :
                     \A loaded \in LoadTensor(file, l, t.name, mode) :
                       /\ loaded.from >= end /\ loaded.from % unit = 0
                       /\ \E i \in FirstNamed(file.tensors, t.name) :
                            /\ loaded.from - file.tensors[i].offset \in end..(end + unit - 1)
                            /\ mode # "k-quant bytes" =>
                                 loaded.values = Elements(file.tensors[i].dims)
  /\ (Is("safetensors") /\ InspectSafetensors(call.args)) =>
       \A t \in ToSet(call.args.tensors) :
         {loaded.values : loaded \in LoadSafetensors(call.args, t.name)}
           = {Elements(call.args.tensors[i].shape) : i \in FirstNamed(call.args.tensors, t.name)}

-----------------------------------------------------------------------------
\* Parakeet's frames are of the samples around their hop, with the ends mirrored;
\* and its attention, which has no mask, scores every pair of rows by their
\* contents and by their distance.
ParakeetRowsExact ==
  /\ IsPart("audio") =>
       LET outcome == Parakeet!parakeet_log_mel(call.args.samples, call.args.c)
       IN  outcome.ok =>
             Performs(outcome.tasks, Parakeet!PromisedFeatures(call.args.samples, call.args.c))
  /\ IsPart("attention") =>
       Performs(Parakeet!SelfAttention(call.args.rows, call.args.c),
                Parakeet!PromisedAttention(call.args.rows, call.args.c))

\* Parakeet's subsampler takes its image as bands by frames, and turns it to
\* frames by bands: row t is of the frames around 8t and each cell of it of the
\* bands around its own. Of a slice of the frames that starts at a multiple of
\* 8, the rows with all their frames inside it are of the same cells as in the
\* whole, which is what encoding in chunks goes by. The module of convolutions
\* reads each channel and its own gate, at the times around.
SubsamplesExact ==
  /\ IsPart("subsample") =>
       LET c == call.args.c
           time == call.args.time
           from == 8 * call.args.skip
           part == Parakeet!SliceFrames(time, from, call.args.to)
           cell(t, channel, f) == Parakeet!FlatCell(t, channel, f, c)
           sliced == <<Parakeet!Slice(time, from, call.args.to, c)>> \o Parakeet!SubsampleStages(part, c)
       IN  \A channel \in Upto(c.channels), f \in Upto(Parakeet!subsampled_frames(c.mels)) :
             /\ \A t \in Upto(Parakeet!subsampled_frames(time)) :
                  Parakeet!Origin(Parakeet!SubsampleStages(time, c), {cell(t, channel, f)})
                    = Parakeet!Field(t, f, time, c)
             /\ \A t \in Upto(Parakeet!subsampled_frames(part)) :
                  (t # 0 /\ 8 * t + 7 < part) =>
                    Parakeet!Origin(sliced, {cell(t, channel, f)})
                      = Parakeet!Field(call.args.skip + t, f, time, c)
  /\ IsPart("convolution") =>
       LET c == call.args.c
       IN  \A t \in Upto(call.args.rows), channel \in Upto(c.d) :
             Parakeet!Origin(Parakeet!ConvolutionStages(call.args.rows, c), {t * c.d + channel})
               = Parakeet!GatedAround(t, channel, call.args.rows, c)

\* A Gemma4 model whose tensors the inventory of its file accepts is loaded,
\* with the quantised matrices beside it if a caller wants them, once the caller
\* has cleared the mark of a multimodal model that the configuration of every
\* file has; and a prompt that it accepts passes through all its layers, or some of them, with every
\* kernel accepting its buffers and reading its weight the way it is laid out,
\* whichever layers have windows or share the keys and values of another.
GemmaRuns(r) ==
  LET c == [Gemma!ConfigOf(r.meta, r.tensors) EXCEPT !.multimodal = FALSE]
      keys == DOMAIN Gemma!Required(c)
      accepted ==
        /\ Gemma!ConfigAccepted(r.meta)
        /\ Gemma!SupportedForTextForward(c) /\ Gemma!ValidTextConfig(c)
        /\ Gemma!InventoryAccepted(c, r.tensors)
        /\ \A key \in keys : ValidByteLen([dims |-> r.tensors[key].shape, type |-> r.tensors[key].type])
      m == [c |-> c, w |-> Gemma!Weights(c),
            natives |-> IF r.native THEN Gemma!NativesOf(c, r.tensors) ELSE <<>>]
      runs(steps) == Gemma!Runs(steps) /\ Gemma!ReadsAsLaidOut(steps)
  IN  accepted =>
        /\ Gemma!LoadDense(c, r.tensors)
        /\ Gemma!LoadDequantised(c, r.tensors) /\ Gemma!Takes(c, Gemma!Loaded(r.tensors, keys))
        /\ Gemma!ValidLengths(c, m.w)
        /\ r.native => Gemma!LoadNatives(c, r.tensors)
        /\ Gemma!PromptAccepted(c, r.ids) =>
             /\ runs(Gemma!PrefillSteps(m, r.ids))
             /\ Gemma!PrefixAccepted(c, r.layers) => runs(Gemma!PrefixSteps(m, r.ids, r.layers))

\* The same of a Qwen2.5 model, for a prompt and for a token decoded after the
\* rows of its cache. What the chat facade checks before the first token is
\* enough for the last: every token it decodes has a position in the context.
QwenRuns(r) ==
  LET c == Qwen!InfoOf(r.file)
      w == Qwen!Weights(c)
      runs(steps) == Qwen!Runs(steps) /\ Qwen!ReadsAsLaidOut(steps)
  IN  (Qwen!ParsesHfConfig(r.file) /\ Qwen!ConfigAccepted(c) /\ Qwen!TensorsAccepted(c, r.tensors)) =>
        /\ Qwen!Loads(r.file, r.tensors)
        /\ Qwen!Accepted(c, r.ids) => runs(Qwen!PrefillSteps(c, w, r.ids))
        /\ (Qwen!TokenAccepted(c, r.token) /\ r.position < c.ctx) =>
             runs(Qwen!DecodeSteps(c, w, r.token, r.position))
        /\ (Qwen!Accepted(c, r.ids) /\ Qwen!ChatAccepted(c, r.limits, Len(r.ids), r.new)) =>
             \A position \in Qwen!ChatPositions(Len(r.ids), r.new) :
               position < c.ctx /\ runs(Qwen!DecodeSteps(c, w, 0, position))

\* The chunks planned for audio go on from one another with the overlap that was
\* asked for, leave no sample out, and all but the last are whole windows.
ChunksCover(r) ==
  LET plan == Whisper!Plan(r)
  IN  /\ Whisper!Planned(plan)
      /\ plan[1].start = 0 /\ Last(plan).end = r.samples
      /\ \A i \in DOMAIN plan : plan[i].start < plan[i].end
      /\ \A i \in 1..(Len(plan) - 1) :
           /\ ~plan[i].last /\ plan[i].end - plan[i].start = r.window
           /\ plan[i + 1].start = plan[i].end - r.overlap /\ plan[i].end < plan[i + 1].end

\* The same of a Whisper model. Audio of a length that its context allows has
\* as many frames as the encoder takes; what encoding leaves the decoder
\* accepts, for a prompt and for every token after it. Longer audio can be cut
\* into chunks, of which each is accepted that is not shorter than the window
\* of the Fourier transform. Of models whose two
\* parts have different widths, or whose mel bins are not those of the audio
\* front end, it says only that they load.
WhisperRuns(r) ==
  LET c == Whisper!ConfigOf(r.file)
      runs(steps) == Whisper!Runs(steps) /\ Whisper!ReadsAsLaidOut(steps)
      frames == Whisper!Frames(r.audio.samples)
      seq == Whisper!EncodedFrames(frames)
      features(samples) ==
        Whisper!MelAccepted([r.audio EXCEPT !.samples = samples], samples)
        /\ Whisper!FeaturesAccepted(c, Whisper!Frames(samples), Whisper!Frames(samples) * MelBins)
  IN  (Whisper!Parses(r.file) /\ Whisper!TensorsAccepted(c, r.tensors)) =>
        /\ Whisper!Loads(r.file, r.tensors)
        /\ (Whisper!MetadataAccepted(r.audio) /\ Whisper!ChunkRequestAccepted(r.plan)) =>
             /\ ChunksCover(r.plan)
             /\ (c.mels = MelBins /\ r.plan.window <= Whisper!MaxSamples(c.audioCtx)) =>
                  LET plan == Whisper!Plan(r.plan)
                  IN  \A i \in DOMAIN plan :
                        plan[i].end - plan[i].start >= FftSize => features(plan[i].end - plan[i].start)
        /\ (/\ c.audioState = c.textState /\ c.mels = MelBins
            /\ Whisper!SamplesFit(r.audio.samples, c.audioCtx)
            /\ Whisper!MelAccepted(r.audio, r.audio.samples)) =>
             /\ Whisper!FeaturesAccepted(c, frames, frames * MelBins) /\ seq \in 1..c.audioCtx
             /\ runs(Whisper!EncoderSteps(c, frames, frames * MelBins)) /\ runs(Whisper!CrossSteps(c, seq))
             /\ Whisper!AudioAccepted(c, seq, c.audioState, seq * c.audioState, c.textLayers,
                                      seq * c.textState)
             /\ Whisper!TokensAccepted(c, r.ids) =>
                  /\ runs(Whisper!PromptSteps(c, r.ids, seq))
                  /\ r.filled \in Len(r.ids)..(c.textCtx - 1) =>
                       runs(Whisper!AppendSteps(c, r.ids[1], r.filled, seq))

\* The same of the Parakeet model, whose sizes are constants: a file that has
\* every tensor by its name and in its layout loads with each in the field that
\* the passes read it from, and audio that is accepted passes the encoder, the
\* projection of its rows, and the prediction and joint networks.
ParakeetRuns(r) ==
  LET c == r.c
      w == Parakeet!Loaded(r.tensors, c)
      frames == Parakeet!frame_count(r.samples, c)
      runs(steps) == Parakeet!Runs(steps) /\ Parakeet!ReadsAsLaidOut(steps)
  IN  (/\ Parakeet!Loads(r.tensors, c)
       /\ \A name \in DOMAIN r.tensors : r.tensors[name] = Parakeet!Layout(name, c)
       /\ Parakeet!AudioAccepted(r.samples, c)) =>
        runs(Parakeet!FeatureSteps(w, frames, c)
             \o <<Parakeet!ProjectEncoder(w, Parakeet!subsampled_frames(frames), c)>>
             \o Parakeet!PrednetSteps(w, r.token, c) \o Parakeet!JointSteps(w, c))

\* What the checks of a model's configuration and tensors accept is loaded and
\* passes through every kernel of a pass; and the Parakeet encoder computes
\* each row from the samples, frames and bands around it.
ModelsLoadAndRun ==
  /\ Is("gemma") => GemmaRuns(call.args)
  /\ Is("qwen") => QwenRuns(call.args)
  /\ Is("whisper") => WhisperRuns(call.args)
  /\ IsPart("model") => ParakeetRuns(call.args)
  /\ ParakeetRowsExact /\ SubsamplesExact
==============================================================================
