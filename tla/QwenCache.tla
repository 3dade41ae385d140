------------------------------ MODULE QwenCache ------------------------------
(***************************************************************************)
(* Cached Qwen2.5 decoding: the contiguous and paged K/V caches and the    *)
(* page allocator of crates/runtime/src/kv_cache.rs, the request states of *)
(* crates/runtime/src/qwen/mod.rs that hold them, and the prefill and      *)
(* one-token decode of crates/models/src/qwen/qwen2_5 that write and read  *)
(* them layer by layer.                                                    *)
(*                                                                         *)
(* A call runs under &mut of the state it works on, so a call is one step; *)
(* what the steps interleave is calls on several requests, and failures    *)
(* that leave a call's work half done.                                     *)
(*                                                                         *)
(* ReturnedNowhere, ReturnedFirst, ExtendedTooLow, IncrementalBlind and    *)
(* AnswerTokenAfterwards are slips that the checks must notice; no         *)
(* behaviour uses them.                                                    *)
(***************************************************************************)
EXTENDS Integers, Sequences, FiniteSets

CONSTANTS
  NumLayers,        \* KvCacheLayout::num_layers
  PageSize,         \* PagedKvCacheLayout::page_size_tokens
  PhysicalPages,    \* PagedKvCacheLayout::physical_pages
  Handles,          \* where callers keep request states
  Token,            \* the vocabulary
  Prompts,          \* prompts, with ids outside the vocabulary included
  ContextLength,    \* Qwen2_5Config::context_length
  PoolCapacity,     \* capacity_tokens of the allocator's layout
  Capacities,       \* capacities callers request
  Embed(_),         \* row of the embedding table
  Project(_, _, _), \* the K/V row of a layer, hidden state and position
  Attend(_, _, _),  \* a layer's output, from its input and the rows it reads
  Logits(_),        \* final norm and lm_head
  Sample(_),        \* greedy_sample
  MayFail,          \* may a kernel return an error?
  MayRefill,        \* do callers prefill a cache they have used before?
  Zero,             \* the row a cache is allocated with
  NoLogits,         \* last_logits after release: the empty vector
  None              \* a call that answers no token, or is on no handle

ASSUME LayoutAssumption ==
  /\ NumLayers \in Nat \ {0}
  /\ PageSize \in Nat \ {0}
  /\ PhysicalPages \in Nat \ {0}

-----------------------------------------------------------------------------
(***************************************************************************)
(* KvCacheLayout and PagedKvCacheLayout of crates/core/src/lib.rs. Lengths *)
(* and offsets count rows: what one position of one layer holds            *)
(* (values_per_position floats). The checks for sizes beyond usize are     *)
(* left out: a cache that large is never built.                            *)
(***************************************************************************)
Layers == 0..(NumLayers - 1)
Pages == 0..(PhysicalPages - 1)

RequiredPages(tokens) == (tokens + PageSize - 1) \div PageSize

ValidPageTable(table, capacity) ==
  /\ Len(table) >= RequiredPages(capacity)
  /\ \A i \in DOMAIN table : table[i] \in Pages
  /\ \A i, j \in DOMAIN table : table[i] = table[j] => i = j

\* Where a row is kept. A paged cache owns its storage, one page after another
\* in logical order: the page table sizes it and is not consulted.
ContiguousOffset(capacity, layer, position) == layer * capacity + position
PagedOffset(pages, layer, position) ==
  layer * (pages * PageSize)
  + (position \div PageSize) * PageSize
  + (position % PageSize)

ASSUME CacheAssumption ==
  /\ ContextLength \in Nat \ {0}
  /\ PoolCapacity \in Nat \ {0}
  /\ RequiredPages(PoolCapacity) <= PhysicalPages
  /\ \A n \in Capacities : n \in Nat
  /\ Prompts \subseteq Seq(Nat)
  /\ {MayFail, MayRefill} \subseteq BOOLEAN
  /\ Handles \cap {"Free", "Lost"} = {}

VARIABLES
  free,    \* the allocator's free_pages: how often each page is in it. The
           \* queue is kept ascending (popped in front, sorted after a push),
           \* so that is all there is to it
  cache,   \* per handle, the request's state: its cache and last_logits
  lost,    \* history: pages of states dropped without being released
  reply    \* the last call: what it was, on which handle, and its outcome

vars == <<free, cache, lost, reply>>

-----------------------------------------------------------------------------
(***************************************************************************)
(* The forward pass, positions and layers counted from 0.                  *)
(***************************************************************************)

\* Hidden states of the full-sequence pass, after so many layers
Hidden(tokens) ==
  LET hidden[l \in 0..NumLayers] ==
        IF l = 0 THEN [p \in 0..(Len(tokens) - 1) |-> Embed(tokens[p + 1])]
        ELSE [p \in 0..(Len(tokens) - 1) |->
                Attend(l - 1, hidden[l - 1][p],
                       [q \in 0..p |-> Project(l - 1, hidden[l - 1][q], q)])]
  IN  hidden

FreshLogits(tokens) == Logits(Hidden(tokens)[NumLayers][Len(tokens) - 1])

\* prefill_impl's checks
Acceptable(tokens) ==
  /\ tokens # <<>>
  /\ Len(tokens) <= ContextLength
  /\ \A i \in DOMAIN tokens : tokens[i] \in Token

\* What decode_one_token, which keeps no cache, answers to acceptable tokens
Uncached(tokens) == Sample(FreshLogits(tokens))

-----------------------------------------------------------------------------
(***************************************************************************)
(* Caches.                                                                 *)
(***************************************************************************)

\* What a handle without a state holds
NoState ==
  [kind |-> "Absent", table |-> <<>>, capacity |-> 0, live |-> FALSE,
   len |-> 0, logits |-> NoLogits, consumed |-> <<>>, mem |-> <<>>]

InUse(h) == cache[h].kind # "Absent"
Live(h) == cache[h].live

Offset(c, layer, position) ==
  IF c.kind = "Contiguous" THEN ContiguousOffset(c.capacity, layer, position)
  ELSE PagedOffset(Len(c.table), layer, position)

Rows(kind, table, capacity) ==
  NumLayers * (IF kind = "Contiguous" THEN capacity ELSE Len(table) * PageSize)

NewCache(kind, table, capacity) ==
  [kind |-> kind, table |-> table, capacity |-> capacity, live |-> TRUE,
   len |-> 0, logits |-> NoLogits, consumed |-> <<>>,
   mem |-> [o \in 0..(Rows(kind, table, capacity) - 1) |-> Zero]]

Released(c) == [c EXCEPT !.live = FALSE, !.table = <<>>, !.len = 0,
                         !.mem = <<>>, !.logits = NoLogits, !.consumed = <<>>]

\* write_layer_kv of some rows, given as a function on <<layer, position>>
Write(c, rows) ==
  [c EXCEPT !.mem = [o \in DOMAIN c.mem |->
     IF \E x \in DOMAIN rows : Offset(c, x[1], x[2]) = o
     THEN rows[CHOOSE x \in DOMAIN rows : Offset(c, x[1], x[2]) = o]
     ELSE c.mem[o]]]

Row(c, layer, position) == c.mem[Offset(c, layer, position)]

\* prefill_with_cache, from set_len_tokens(0) to the write of the last of so
\* many layers. Until it returns there are no logits for what the cache holds.
Refilled(c, tokens, layers) ==
  LET hidden == Hidden(tokens)
  IN  Write([c EXCEPT !.len = 0, !.logits = NoLogits, !.consumed = <<>>],
            [x \in (0..(layers - 1)) \X (0..(Len(tokens) - 1)) |->
               Project(x[1], hidden[x[1]][x[2]], x[2])])

Prefilled(c, tokens) ==
  [Refilled(c, tokens, NumLayers) EXCEPT
     !.len = Len(tokens),
     !.logits = FreshLogits(tokens),
     !.consumed = tokens]

\* The hidden states of the one position that decode_token_with_cache
\* computes: each layer reads the cache, its own row included
IncrementalBlind(c, token) ==
  LET hidden[l \in 0..NumLayers] ==
        IF l = 0 THEN Embed(token)
        ELSE Attend(l - 1, hidden[l - 1],
                    [q \in 0..(c.len - 1) |-> Row(c, l - 1, q)])
  IN  hidden
Incremental(c, token) ==
  LET hidden[l \in 0..NumLayers] ==
        IF l = 0 THEN Embed(token)
        ELSE Attend(l - 1, hidden[l - 1],
                    [q \in 0..c.len |->
                       IF q = c.len THEN Project(l - 1, hidden[l - 1], q)
                       ELSE Row(c, l - 1, q)])
  IN  hidden

\* The cache once decode has written its row in so many layers
ExtendedTooLow(c, token, layers) ==
  Write(c, [x \in (0..(layers - 1)) \X {c.len - 1} |->
              Project(x[1], Incremental(c, token)[x[1]], c.len)])
Extended(c, token, layers) ==
  Write(c, [x \in (0..(layers - 1)) \X {c.len} |->
              Project(x[1], Incremental(c, token)[x[1]], c.len)])

Decoded(c, token) ==
  [Extended(c, token, NumLayers) EXCEPT
     !.len = @ + 1,
     !.logits = Logits(Incremental(c, token)[NumLayers]),
     !.consumed = Append(@, token)]

-----------------------------------------------------------------------------
(***************************************************************************)
(* The page allocator.                                                     *)
(***************************************************************************)

Count(table, page) == Cardinality({i \in DOMAIN table : table[i] = page})

\* pop_front, n times: the n lowest free pages; none, when fewer are free
Front(n) ==
  {table \in [1..n -> Pages] :
     /\ \A i, j \in 1..n : i < j => table[i] <= table[j]
     /\ \A page \in Pages :
          /\ Count(table, page) <= free[page]
          /\ Count(table, page) < free[page]
             => \A i \in 1..n : table[i] <= page}

Taken(pool, table) == [page \in Pages |-> pool[page] - Count(table, page)]
ReturnedNowhere(pool, table) == pool
ReturnedFirst(pool, table) ==
  [page \in Pages |-> pool[page] + IF Head(table) = page THEN 1 ELSE 0]
Returned(pool, table) == [page \in Pages |-> pool[page] + Count(table, page)]

-----------------------------------------------------------------------------
(***************************************************************************)
(* Calls.                                                                  *)
(***************************************************************************)
Answer(call, h, outcome) ==
  reply' = [call |-> call, on |-> h, outcome |-> outcome, token |-> None]
AnswerTokenAfterwards(h, token) ==
  reply' = [call |-> "decode", on |-> h, outcome |-> "Ok",
            token |-> Sample(cache'[h].logits)]
AnswerToken(h, token) ==
  reply' = [call |-> "decode", on |-> h, outcome |-> "Ok", token |-> token]

PrepareContiguous(h, tokens) ==
  /\ ~InUse(h)
  /\ \/ /\ Acceptable(tokens)
        /\ cache' = [cache EXCEPT ![h] =
             Prefilled(NewCache("Contiguous", <<>>, ContextLength), tokens)]
        /\ Answer("prepare", h, "Ok")
     \/ /\ ~Acceptable(tokens)
        /\ Answer("prepare", h, "InvalidRequest")
        /\ UNCHANGED cache
     \/ /\ Acceptable(tokens)
        /\ MayFail
        /\ Answer("prepare", h, "Kernel")
        /\ UNCHANGED cache
  /\ UNCHANGED <<free, lost>>

\* The tokens do not fit, or allocate refuses: its capacity is exceeded, there
\* are too few free pages, or the table it took is rejected and put back
RefusePaged(h, tokens, capacity) ==
  /\ ~InUse(h)
  /\ \/ Len(tokens) > capacity /\ Answer("prepare", h, "InvalidRequest")
     \/ /\ Len(tokens) <= capacity
        /\ \/ capacity = 0
           \/ capacity > PoolCapacity
           \/ Front(RequiredPages(capacity)) = {}
           \/ \E table \in Front(RequiredPages(capacity)) :
                ~ValidPageTable(table, capacity)
        /\ Answer("prepare", h, "Runtime")
  /\ UNCHANGED <<free, cache, lost>>

PreparePaged(h, tokens, capacity) ==
  /\ ~InUse(h)
  /\ Len(tokens) <= capacity
  /\ capacity \in 1..PoolCapacity
  /\ \E table \in Front(RequiredPages(capacity)) :
       /\ ValidPageTable(table, capacity)
       /\ \/ /\ Acceptable(tokens)
             /\ free' = Taken(free, table)
             /\ cache' = [cache EXCEPT ![h] =
                  Prefilled(NewCache("Paged", table, capacity), tokens)]
             /\ Answer("prepare", h, "Ok")
          \/ /\ ~Acceptable(tokens) \/ MayFail
             /\ free' = Returned(Taken(free, table), table)
             /\ UNCHANGED cache
             /\ Answer("prepare", h,
                       IF Acceptable(tokens) THEN "Kernel" ELSE "InvalidRequest")
  /\ UNCHANGED lost

\* decode_one_token_with_*_cache. After release last_logits is empty, which
\* greedy_sample refuses before the cache is looked at.
Decode(h) ==
  LET c == cache[h]
      token == Sample(c.logits)
  IN
  /\ InUse(h)
  /\ \/ /\ c.logits # NoLogits
        /\ c.len + 1 <= c.capacity
        /\ cache' = [cache EXCEPT ![h] = Decoded(c, token)]
        /\ AnswerToken(h, token)
     \/ /\ c.logits # NoLogits
        /\ c.len + 1 <= c.capacity
        /\ MayFail
        /\ \E layers \in 0..NumLayers :
             cache' = [cache EXCEPT ![h] = Extended(c, token, layers)]
        /\ Answer("decode", h, "Kernel")
     \/ /\ c.logits # NoLogits
        /\ c.len + 1 > c.capacity
        /\ Answer("decode", h, "InvalidRequest")
        /\ UNCHANGED cache
     \/ /\ c.logits = NoLogits
        /\ Answer("decode", h, "Runtime")
        /\ UNCHANGED cache
  /\ UNCHANGED <<free, lost>>

\* Qwen2_5Model::prefill_with_cache on a cache the caller has used before. The
\* request states of the runtime never do this.
Refill(h, tokens) ==
  LET c == cache[h] IN
  /\ MayRefill
  /\ Live(h)
  /\ \/ /\ Len(tokens) > c.capacity
        /\ Answer("refill", h, "InvalidRequest")
        /\ UNCHANGED cache
     \/ /\ Len(tokens) <= c.capacity
        /\ ~Acceptable(tokens)
        /\ cache' = [cache EXCEPT ![h] = Refilled(c, tokens, 0)]
        /\ Answer("refill", h, "InvalidRequest")
     \/ /\ Len(tokens) <= c.capacity
        /\ Acceptable(tokens)
        /\ MayFail
        /\ \E layers \in 0..NumLayers :
             cache' = [cache EXCEPT ![h] = Refilled(c, tokens, layers)]
        /\ Answer("refill", h, "Kernel")
     \/ /\ Len(tokens) <= c.capacity
        /\ Acceptable(tokens)
        /\ cache' = [cache EXCEPT ![h] = Prefilled(c, tokens)]
        /\ Answer("refill", h, "Ok")
  /\ UNCHANGED <<free, lost>>

\* release, and release_into for a paged state; again, it does nothing
Release(h) ==
  /\ InUse(h)
  /\ cache' = [cache EXCEPT ![h] = Released(@)]
  /\ free' = Returned(free, cache[h].table)
  /\ Answer("release", h, "Ok")
  /\ UNCHANGED lost

\* The caller lets go of a state, without releasing it if it is still live
Drop(h) ==
  /\ InUse(h)
  /\ cache' = [cache EXCEPT ![h] = NoState]
  /\ lost' = lost \cup {page \in Pages : Count(cache[h].table, page) > 0}
  /\ Answer("drop", h, "Ok")
  /\ UNCHANGED free

-----------------------------------------------------------------------------
Init ==
  /\ free = [page \in Pages |-> 1]
  /\ cache = [h \in Handles |-> NoState]
  /\ lost = {}
  /\ reply = [call |-> "none", on |-> None, outcome |-> "Ok",
               token |-> None]

Next ==
  \E h \in Handles :
    \/ \E tokens \in Prompts :
         \/ PrepareContiguous(h, tokens)
         \/ Refill(h, tokens)
         \/ \E capacity \in Capacities :
              RefusePaged(h, tokens, capacity) \/ PreparePaged(h, tokens, capacity)
    \/ Decode(h)
    \/ Release(h)
    \/ Drop(h)

Spec == Init /\ [][Next]_vars
-----------------------------------------------------------------------------
(***************************************************************************)
(* Safety.                                                                 *)
(***************************************************************************)
Errors == {"InvalidRequest", "Runtime", "Kernel"}

\* Every variable ranges over its type; a live cache's storage has a row for
\* every layer and position, and a paged one a valid page table.
TypeOK ==
  /\ free \in [Pages -> Nat]
  /\ lost \subseteq Pages
  /\ reply.call \in {"none", "prepare", "decode", "refill", "release", "drop"}
  /\ reply.on \in Handles \cup {None}
  /\ reply.outcome \in Errors \cup {"Ok"}
  /\ reply.token \in Token \cup {None}
  /\ \A h \in Handles :
       LET c == cache[h] IN
       /\ c.kind \in {"Absent", "Contiguous", "Paged"}
       /\ c.live \in BOOLEAN
       /\ c.len \in 0..c.capacity
       /\ c.consumed \in Seq(Token)
       /\ c.live /\ c.kind = "Paged" => ValidPageTable(c.table, c.capacity)
       /\ ~c.live \/ c.kind = "Contiguous" => c.table = <<>>
       /\ ~c.live => c.logits = NoLogits /\ c.len = 0
       /\ c.live => \A l \in Layers, p \in 0..(c.capacity - 1) :
                      Offset(c, l, p) \in DOMAIN c.mem

Holders(page) ==
  {h \in Handles : Count(cache[h].table, page) > 0}

\* "allocator state remains consistent across allocation, release, and failure
\* paths" (docs/tasks/m6-paged-kv-cache.md): every page is in the pool once, in
\* the table of one request, or was dropped with one.
PagesAccounted ==
  \A page \in Pages :
    free[page] + Cardinality(Holders(page))
      + (IF page \in lost THEN 1 ELSE 0) = 1

\* Cached decoding reads what a pass over all the tokens would compute: in
\* every layer the rows of the tokens consumed so far, whatever a failed call
\* or a longer earlier prompt left behind them, and their logits.
CacheExact ==
  /\ TypeOK
  /\ \A h \in Handles : Live(h) =>
       LET c == cache[h]
           hidden == Hidden(c.consumed)
       IN  /\ c.len = Len(c.consumed)
           /\ \A l \in Layers, p \in 0..(c.len - 1) :
                Row(c, l, p) = Project(l, hidden[l][p], p)
           /\ c.logits # NoLogits => c.logits = FreshLogits(c.consumed)

-----------------------------------------------------------------------------
(***************************************************************************)
(* Action properties.                                                      *)
(***************************************************************************)

\* What a later call can see of a state: not the rows from len_tokens on
Visible(c) ==
  [kind |-> c.kind, live |-> c.live, table |-> c.table, logits |-> c.logits,
   rows |-> [x \in Layers \X (0..(c.len - 1)) |-> Row(c, x[1], x[2])]]

\* A call that fails, at whatever layer, leaves the pool and every request as
\* they were, so that it can be made again: "capacity errors cannot leave a
\* partially advanced request" (prefill.rs).
FailureLeavesNoTrace ==
  [][reply'.outcome \in Errors /\ reply'.call # "refill"
     => /\ UNCHANGED <<free, lost>>
        /\ \A h \in Handles : Visible(cache'[h]) = Visible(cache[h])]_vars

\* A token decoded with a cache, of either kind and after any failures, is the
\* one decode_one_token gives for the same tokens without a cache, as long as
\* it takes that many.
DecodesAsUncached ==
  [][reply'.token # None
     => LET tokens == cache[reply'.on].consumed
        IN  Acceptable(tokens) => reply'.token = Uncached(tokens)]_vars

-----------------------------------------------------------------------------
(***************************************************************************)
(* The allocator and its callers implement PageLedger.                     *)
(***************************************************************************)
Owners ==
  [page \in Pages |-> IF free[page] > 0 THEN "Free"
                     ELSE IF Holders(page) = {} THEN "Lost"
                     ELSE CHOOSE h \in Handles : h \in Holders(page)]

Ledger == INSTANCE PageLedger WITH
  Free <- "Free", Lost <- "Lost", owner <- Owners

\* Every step passes pages on as the ledger allows, or moves none.
ImplementsLedger == Ledger!LedgerSpec
=============================================================================
