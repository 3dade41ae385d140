------------------------------- MODULE GgufFile -------------------------------
(***************************************************************************)
(* Model files: crates/loader/src/gguf_inspect.rs and gguf_values.rs, and  *)
(* the safetensors loaders beside them.                                    *)
(*                                                                         *)
(* A file is given by what its bytes say when they are decoded in turn,    *)
(* and by its length, which may end it anywhere. A GGUF file is            *)
(*   [len, magic, version, entries, tensors]                               *)
(* an entry [key, keyLen, utf8, type, value], a tensor                     *)
(*   [name, nameLen, utf8, dims, type, offset]                             *)
(* and a value [number, len, utf8, bit, element, items], of which its type *)
(* says what counts. Limits l are the fields of ArtifactLimits.            *)
(*                                                                         *)
(* FileOffsetWrapped is a slip that the checks must notice; no behaviour   *)
(* uses it.                                                                *)
(***************************************************************************)
EXTENDS Buffers

Width == [U8 |-> 1, I8 |-> 1, Bool |-> 1, U16 |-> 2, I16 |-> 2, U32 |-> 4, I32 |-> 4,
          F32 |-> 4, U64 |-> 8, I64 |-> 8, F64 |-> 8]
MetadataTypes == DOMAIN Width \cup {"String", "Array"}

\* ArtifactLimits::validate, validate_file_bytes and validate_gguf_counts
ValidLimits(l) ==
  /\ \A field \in DOMAIN l : l[field] > 0
  /\ l.header <= l.file
  /\ l.key <= l.string /\ l.name <= l.string
ValidFileBytes(l, len) == len <= l.file
ValidCounts(l, tensors, entries) == tensors <= l.tensors /\ entries <= l.entries

-----------------------------------------------------------------------------
(***************************************************************************)
(* A reader takes steps: it advances by some bytes and checks what it read *)
(* there. A refusal is final.                                              *)
(***************************************************************************)
Refused == -1
Step(bytes, ok) == [bytes |-> bytes, ok |-> ok]
EachOf(items, steps(_)) == FlattenSeq([i \in DOMAIN items |-> steps(items[i])])

\* read_exact_header_part and skip_bytes stop at the same places
Advance(file, l, at, bytes) ==
  IF at + bytes > l.header \/ at + bytes > file.len THEN Refused ELSE at + bytes
ReadFrom(file, l, from, steps) ==
  FoldLeft(LAMBDA at, s : IF at = Refused \/ ~s.ok THEN Refused ELSE Advance(file, l, at, s.bytes),
           from, steps)

SkipString(l, len, most) == <<Step(8, len <= most /\ len <= l.string), Step(len, TRUE)>>
ReadString(l, len, most, utf8) == <<Step(8, len <= most /\ len <= l.string), Step(len, utf8)>>

ReadArrayHeader(l, value, depth) ==
  <<Step(0, depth < l.depth), Step(4, value.element \in MetadataTypes),
    Step(8, Len(value.items) <= l.elements)>>

RECURSIVE SkipValue(_, _, _, _)
SkipValue(l, type, value, depth) ==
  CASE type = "String" -> SkipString(l, value.len, l.string)
    [] type = "Array" ->
         ReadArrayHeader(l, value, depth)
         \o EachOf(value.items, LAMBDA item : SkipValue(l, value.element, item, depth + 1))
    [] OTHER -> <<Step(Width[type], TRUE)>>

ReadBool(value) == <<Step(1, value.bit \in {0, 1})>>

\* Elements of an array are skipped, except that Booleans are read
ReadValue(l, type, value) ==
  CASE type = "Bool" -> ReadBool(value)
    [] type = "String" -> ReadString(l, value.len, l.string, value.utf8)
    [] type = "Array" /\ value.element = "Bool" ->
         ReadArrayHeader(l, value, 0) \o EachOf(value.items, ReadBool)
    [] OTHER -> SkipValue(l, type, value, 0)

ReadKey(l, entry) ==
  ReadString(l, entry.keyLen, l.key, entry.utf8) \o <<Step(4, entry.type \in MetadataTypes)>>
\* A type that does not exist has been refused before its value is read
ReadEntry(l, entry) ==
  ReadKey(l, entry) \o (IF entry.type \in MetadataTypes THEN ReadValue(l, entry.type, entry.value)
                        ELSE <<>>)

-----------------------------------------------------------------------------
(***************************************************************************)
(* inspect_gguf: a header, entries, tensor descriptors, and the ranges of  *)
(* the tensors in the data section.                                        *)
(***************************************************************************)
ReadHeader(file) ==
  <<Step(4, file.magic), Step(4, file.version = 3), Step(8, TRUE), Step(8, TRUE)>>
AfterHeader(file, l) ==
  IF ValidLimits(l) /\ ValidFileBytes(l, file.len) THEN ReadFrom(file, l, 0, ReadHeader(file))
  ELSE Refused

MinEntryBytes == 8 + 4 + 1
MinTensorBytes == 8 + 4 + 8 + 4 + 8
RemainingHeader(file, l, at) == Smaller(file.len, l.header) - at
CountsFit(file, l, at) ==
  /\ ValidCounts(l, Len(file.tensors), Len(file.entries))
  /\ Len(file.entries) * MinEntryBytes + Len(file.tensors) * MinTensorBytes
       <= RemainingHeader(file, l, at)

AfterEntries(file, l) ==
  LET at == AfterHeader(file, l)
  IN  IF at = Refused \/ ~CountsFit(file, l, at) THEN Refused
      ELSE ReadFrom(file, l, at, EachOf(file.entries, LAMBDA e : ReadEntry(l, e)))

\* metadata_value: the first entry of the key
Keyed(file, key) == SelectSeq(file.entries, LAMBDA e : e.key = key)
Alignment(file) ==
  LET entries == Keyed(file, "general.alignment")
  IN  IF entries = <<>> THEN 32
      ELSE IF entries[1].type \in {"U32", "U64"} THEN entries[1].value.number
      ELSE 0
ValidAlignment(n) == n > 0 /\ n % 8 = 0

FixedSize == [F32 |-> 4, I32 |-> 4, F16 |-> 2, BF16 |-> 2, I16 |-> 2, I8 |-> 1, I64 |-> 8, F64 |-> 8]
QuantBlock == [Q4K |-> 144, Q5K |-> 176, Q6K |-> 210]
Elements(dims) == FoldLeft(LAMBDA x, y : x * y, 1, dims)

\* No length: of a type that is not laid out here
NoLen == -2
ByteLen(t) ==
  CASE t.type \in DOMAIN FixedSize -> Elements(t.dims) * FixedSize[t.type]
    [] t.type \in DOMAIN QuantBlock -> (Elements(t.dims) \div 256) * QuantBlock[t.type]
    [] OTHER -> NoLen
ValidByteLen(t) ==
  /\ t.type \in DOMAIN QuantBlock => t.dims[1] % 256 = 0 /\ Elements(t.dims) % 256 = 0
  /\ ByteLen(t) <= MaxUsize

ReadTensor(l, alignment, t) ==
  ReadString(l, t.nameLen, l.name, t.utf8)
  \o <<Step(4, Len(t.dims) \in 1..l.dims)>>
  \o EachOf(t.dims, LAMBDA d : <<Step(8, d # 0)>>)
  \o <<Step(4, FitsUsize(t.dims)), Step(8, t.offset % alignment = 0 /\ ValidByteLen(t))>>

AfterTensors(file, l) ==
  LET at == AfterEntries(file, l)
  IN  IF at = Refused \/ ~ValidAlignment(Alignment(file)) THEN Refused
      ELSE ReadFrom(file, l, at, EachOf(file.tensors, LAMBDA t : ReadTensor(l, Alignment(file), t)))

AlignOffset(offset, alignment) ==
  IF offset % alignment = 0 THEN offset ELSE offset + (alignment - (offset % alignment))

FileOffsetWrapped(dataStart, t) == (dataStart + t.offset) % (MaxUsize + 1)

\* A sum that is too large for a u64 is refused
FileOffset(dataStart, t) ==
  IF dataStart + t.offset <= MaxUsize THEN dataStart + t.offset ELSE Refused
RangeInFile(file, offset, t) ==
  /\ offset # Refused /\ offset <= file.len
  /\ ByteLen(t) # NoLen => offset + ByteLen(t) <= Smaller(file.len, MaxUsize)

Inspect(file, l) ==
  LET end == AfterTensors(file, l)
      dataStart == AlignOffset(end, Alignment(file))
      offsets == [i \in DOMAIN file.tensors |-> FileOffset(dataStart, file.tensors[i])]
      ok == /\ end # Refused
            /\ dataStart <= l.header /\ dataStart <= file.len
            /\ \A i \in DOMAIN offsets : RangeInFile(file, offsets[i], file.tensors[i])
  IN  [ok |-> ok, offsets |-> IF ok THEN offsets ELSE <<>>]

-----------------------------------------------------------------------------
(***************************************************************************)
(* inspect_gguf_tokenizer: the entries alone, those of the tokenizer read  *)
(* in full and the rest skipped.                                           *)
(***************************************************************************)
TokenArrays == [tokens |-> "String", merges |-> "String", scores |-> "F32", token_type |-> "I32"]
TokenizerStrings == {"model", "chat_template"}
TokenizerIds == {"bos_token_id", "eos_token_id", "unknown_token_id", "padding_token_id", "mask_token_id"}
TokenizerFlags == {"add_bos_token", "add_space_prefix"}
TokenizerKeys == DOMAIN TokenArrays \cup TokenizerStrings \cup TokenizerIds \cup TokenizerFlags

\* read_metadata_string_array, read_metadata_f32_array, read_metadata_i32_array
ReadTokenArray(l, value, element) ==
  ReadArrayHeader(l, value, 0) \o <<Step(0, value.element = element)>>
  \o EachOf(value.items, LAMBDA item :
       IF element = "String" THEN ReadString(l, item.len, l.string, item.utf8)
       ELSE <<Step(Width[element], TRUE)>>)

ExpectedType(entry) ==
  CASE entry.key \in DOMAIN TokenArrays -> entry.type = "Array"
    [] entry.key \in TokenizerStrings -> entry.type = "String"
    [] entry.key \in TokenizerIds -> /\ entry.type \in {"U32", "U64"}
                                     /\ entry.value.number <= MaxU32
    [] entry.key \in TokenizerFlags -> entry.type = "Bool"
    [] OTHER -> entry.type \in MetadataTypes

ReadTokenizerEntry(l, entry) ==
  ReadKey(l, entry)
  \o (IF ~ExpectedType(entry) THEN <<Step(0, FALSE)>>
      ELSE CASE entry.key \in DOMAIN TokenArrays ->
                  ReadTokenArray(l, entry.value, TokenArrays[entry.key])
             [] entry.key \in TokenizerKeys \ DOMAIN TokenArrays ->
                  ReadValue(l, entry.type, entry.value)
             [] OTHER -> SkipValue(l, entry.type, entry.value, 0))

MetadataCountFits(file, l, at) ==
  /\ ValidCounts(l, Len(file.tensors), Len(file.entries))
  /\ Len(file.entries) * MinEntryBytes <= RemainingHeader(file, l, at)

AfterTokenizer(file, l) ==
  LET at == AfterHeader(file, l)
  IN  IF at = Refused \/ ~MetadataCountFits(file, l, at) THEN Refused
      ELSE ReadFrom(file, l, at, EachOf(file.entries, LAMBDA e : ReadTokenizerEntry(l, e)))

-----------------------------------------------------------------------------
(***************************************************************************)
(* The values of a tensor: the first of its name, and what its bytes make. *)
(* modes: "dense", "dequantized", "k-quant bytes"                          *)
(***************************************************************************)
DenseTypes == {"F32", "F16", "BF16"}
Loadable(mode) == CASE mode = "dense" -> DenseTypes
                    [] mode = "dequantized" -> DenseTypes \cup DOMAIN QuantBlock
                    [] mode = "k-quant bytes" -> DOMAIN QuantBlock

\* exact_chunks: what is left over is refused
ChunksOf(bytes, size) == IF bytes % size = 0 THEN bytes \div size ELSE Refused
DequantizedCount(t, bytes) ==
  IF /\ t.dims[1] % 256 = 0 /\ Elements(t.dims) % 256 = 0
     /\ bytes = (Elements(t.dims) \div 256) * QuantBlock[t.type]
  THEN 256 * (bytes \div QuantBlock[t.type]) ELSE Refused
Decode(t, bytes, mode) ==
  IF mode = "k-quant bytes" THEN bytes
  ELSE IF t.type \in DOMAIN QuantBlock THEN DequantizedCount(t, bytes)
  ELSE ChunksOf(bytes, FixedSize[t.type])

FirstNamed(tensors, name) ==
  {i \in DOMAIN tensors : tensors[i].name = name /\ \A j \in 1..(i - 1) : tensors[j].name # name}
\* Reading past the end of the file is an error of its own
ReadTensorData(file, offset, bytes) == offset + bytes <= file.len

LoadTensor(file, l, name, mode) ==
  LET manifest == Inspect(file, l)
      ok(i) == /\ manifest.ok
               /\ file.tensors[i].type \in Loadable(mode)
               /\ ReadTensorData(file, manifest.offsets[i], ByteLen(file.tensors[i]))
  IN  {[from |-> manifest.offsets[i], bytes |-> ByteLen(file.tensors[i]),
        values |-> Decode(file.tensors[i], ByteLen(file.tensors[i]), mode)] :
         i \in {k \in FirstNamed(file.tensors, name) : ok(k)}}

-----------------------------------------------------------------------------
(***************************************************************************)
(* Safetensors: [len, headerLen, json, tensors], a tensor                  *)
(* [name, dtype, shape, first, last] with its range in the data section.   *)
(***************************************************************************)
DtypeSize == [F32 |-> 4, F16 |-> 2, BF16 |-> 2, I64 |-> 8, U8 |-> 1]
MapDtype(dtype) == dtype \in DenseTypes

\* What the safetensors crate accepts: ranges that follow one another and are
\* as long as the shapes say
Metadata(tensors) ==
  \A i \in DOMAIN tensors :
    /\ tensors[i].first = IF i = 1 THEN 0 ELSE tensors[i - 1].last
    /\ tensors[i].last - tensors[i].first = Elements(tensors[i].shape) * DtypeSize[tensors[i].dtype]
DataLen(tensors) == IF tensors = <<>> THEN 0 ELSE Last(tensors).last

MaxHeaderSize == 100000000
ParsedHeader(file) ==
  /\ file.len >= 8 /\ file.headerLen <= MaxHeaderSize
  /\ file.len >= 8 + file.headerLen
  /\ file.json /\ Metadata(file.tensors)
InspectSafetensors(file) ==
  /\ ParsedHeader(file)
  /\ 8 + file.headerLen + DataLen(file.tensors) = file.len
  /\ \A i \in DOMAIN file.tensors : MapDtype(file.tensors[i].dtype)

\* SafeTensors::deserialize of the whole file
Deserialize(file) ==
  ParsedHeader(file) /\ 8 + file.headerLen + DataLen(file.tensors) = file.len
LoadSafetensors(file, name) ==
  {[first |-> file.tensors[i].first,
    values |-> ChunksOf(file.tensors[i].last - file.tensors[i].first, DtypeSize[file.tensors[i].dtype])] :
     i \in {k \in FirstNamed(file.tensors, name) : Deserialize(file) /\ MapDtype(file.tensors[k].dtype)}}

-----------------------------------------------------------------------------
(***************************************************************************)
(* The files that a writer lays out within the limits: every part whole,   *)
(* the header before the data, and every tensor inside the file.           *)
(***************************************************************************)
RECURSIVE ValueBytes(_, _)
ValueBytes(type, value) ==
  CASE type = "String" -> 8 + value.len
    [] type = "Array" -> 12 + FoldLeft(LAMBDA n, item : n + ValueBytes(value.element, item), 0, value.items)
    [] OTHER -> Width[type]
EntryBytes(e) == 8 + e.keyLen + 4 + ValueBytes(e.type, e.value)
TensorBytes(t) == 8 + t.nameLen + 4 + 8 * Len(t.dims) + 4 + 8

RECURSIVE Nests(_, _, _)
Nests(l, type, value) ==
  CASE type = "String" -> value.len <= l.string
    [] type = "Array" -> /\ l.depth > 0 /\ Len(value.items) <= l.elements
                         /\ value.element \in MetadataTypes
                         /\ \A i \in DOMAIN value.items :
                              Nests([l EXCEPT !.depth = @ - 1], value.element, value.items[i])
    [] OTHER -> TRUE
ValueWritten(l, type, value) ==
  /\ Nests(l, type, value)
  /\ type = "String" => value.utf8
  /\ type = "Bool" => value.bit \in {0, 1}
  /\ (type = "Array" /\ value.element = "Bool") =>
       \A i \in DOMAIN value.items : value.items[i].bit \in {0, 1}

Written(file, l) ==
  LET size(items, bytes(_)) == FoldLeft(LAMBDA n, item : n + bytes(item), 0, items)
      header == 24 + size(file.entries, EntryBytes) + size(file.tensors, TensorBytes)
      unit == Alignment(file)
      dataStart == CHOOSE n \in header..(header + unit) : n % unit = 0
  IN  /\ ValidLimits(l) /\ ValidFileBytes(l, file.len)
      /\ ValidCounts(l, Len(file.tensors), Len(file.entries))
      /\ file.magic /\ file.version = 3
      /\ \A i \in DOMAIN file.entries :
           LET e == file.entries[i]
           IN  /\ e.utf8 /\ e.keyLen <= l.key /\ e.type \in MetadataTypes
               /\ ValueWritten(l, e.type, e.value)
      /\ ValidAlignment(unit)
      /\ dataStart <= Smaller(l.header, file.len)
      /\ \A i \in DOMAIN file.tensors :
           LET t == file.tensors[i]
           IN  /\ t.utf8 /\ t.nameLen <= l.name
               /\ Len(t.dims) \in 1..l.dims /\ 0 \notin ToSet(t.dims)
               /\ FitsUsize(t.dims) /\ ValidByteLen(t)
               /\ t.offset % unit = 0
               /\ dataStart + t.offset + (IF ByteLen(t) = NoLen THEN 0 ELSE ByteLen(t)) <= file.len
==============================================================================
