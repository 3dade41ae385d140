--------------------------- MODULE QwenCacheProofs ---------------------------
(***************************************************************************)
(* The K/V layouts keep rows apart, for every number of layers, page size  *)
(* and capacity; and the page allocator accounts for every page, for every *)
(* set of requests and whatever fails. Caches stay exact for every model,  *)
(* so that decoding with one answers what decoding without answers, and a  *)
(* failed call leaves no trace.                                            *)
(***************************************************************************)
EXTENDS QwenCache, FiniteSetTheorems, TLAPS

-----------------------------------------------------------------------------
(***************************************************************************)
(* Layouts.                                                                *)
(***************************************************************************)

\* What div and mod are, for a divisor the prover does not know.
LEMMA DivMod ==
  ASSUME NEW n \in Nat, NEW d \in Nat \ {0}
  PROVE  /\ n \div d \in Nat
         /\ n % d \in 0..(d - 1)
         /\ n = (n \div d) * d + (n % d)
OBVIOUS

\* A block of size S per layer: layer and place in the block determine the
\* offset, and the blocks fill NumLayers * S rows.
LEMMA Blocks ==
  ASSUME NEW S \in Nat, NEW l1 \in Layers, NEW l2 \in Layers,
         NEW p1 \in 0..(S - 1), NEW p2 \in 0..(S - 1)
  PROVE  /\ l1 * S + p1 \in 0..(NumLayers * S - 1)
         /\ l1 * S + p1 = l2 * S + p2 => l1 = l2 /\ p1 = p2
<1>1. /\ NumLayers \in Nat /\ l1 \in Nat /\ l2 \in Nat
      /\ l1 + 1 <= NumLayers
      /\ l1 * S \in Nat /\ l2 * S \in Nat /\ NumLayers * S \in Nat
  BY LayoutAssumption DEF LayoutAssumption, Layers
<1>2. ASSUME NEW a \in Nat, NEW b \in Nat, a + 1 <= b
      PROVE  a * S + S <= b * S
  <2>1. b = a + 1 + (b - a - 1) /\ b - a - 1 \in Nat
    BY <1>2
  <2>2. \A k \in Nat : (a + 1 + k) * S = a * S + S + k * S /\ k * S >= 0
    OBVIOUS
  <2>3. b * S = a * S + S + (b - a - 1) * S /\ (b - a - 1) * S >= 0
    BY <2>1, <2>2
  <2> DEFINE x == a * S
             y == b * S
             z == (b - a - 1) * S
  <2>4. x \in Int /\ y \in Int /\ z \in Int /\ y = x + S + z /\ z >= 0
    BY <2>1, <2>3
  <2> HIDE DEF x, y, z
  <2>5. x + S <= y
    BY <2>4
  <2> QED BY <2>5 DEF x, y
<1>3. l1 * S + S <= NumLayers * S
  BY <1>1, <1>2
<1>4. l1 * S + p1 \in 0..(NumLayers * S - 1)
  <2> DEFINE x == l1 * S
             y == NumLayers * S
  <2>1. x \in Nat /\ y \in Nat /\ x + S <= y
    BY <1>1, <1>3
  <2> HIDE DEF x, y
  <2>2. x + p1 \in 0..(y - 1)
    BY <2>1
  <2> QED BY <2>2 DEF x, y
<1>5. ASSUME l1 * S + p1 = l2 * S + p2
      PROVE  l1 = l2 /\ p1 = p2
  <2> DEFINE x == l1 * S
             y == l2 * S
  <2>1. x \in Nat /\ y \in Nat /\ x + p1 = y + p2
    BY <1>1, <1>5
  <2>2. l1 + 1 <= l2 => x + S <= y
    BY <1>1, <1>2
  <2>3. l2 + 1 <= l1 => y + S <= x
    BY <1>1, <1>2
  <2>4. l1 = l2 => x = y
    OBVIOUS
  <2> HIDE DEF x, y
  <2> QED BY <1>1, <2>1, <2>2, <2>3, <2>4
<1> QED BY <1>4, <1>5

\* Rows of a contiguous cache do not overlap and stay inside its storage.
THEOREM ContiguousRowsApart ==
  ASSUME NEW capacity \in Nat, NEW l1 \in Layers, NEW l2 \in Layers,
         NEW p1 \in 0..(capacity - 1), NEW p2 \in 0..(capacity - 1)
  PROVE  /\ ContiguousOffset(capacity, l1, p1) \in 0..(NumLayers * capacity - 1)
         /\ ContiguousOffset(capacity, l1, p1) = ContiguousOffset(capacity, l2, p2)
            => l1 = l2 /\ p1 = p2
BY Blocks DEF ContiguousOffset

\* Enough pages hold all positions of a layer.
LEMMA PagesSuffice ==
  ASSUME NEW capacity \in Nat, NEW pages \in Nat,
         RequiredPages(capacity) <= pages
  PROVE  pages * PageSize \in Nat /\ capacity <= pages * PageSize
<1> DEFINE d == PageSize
           q == (capacity + d - 1) \div d
<1>1. d \in Nat \ {0} /\ capacity + d - 1 \in Nat
  BY LayoutAssumption DEF LayoutAssumption
<1>2. q \in Nat /\ q <= pages
  BY <1>1, DivMod DEF RequiredPages
<1>3. capacity <= q * d
  <2> DEFINE r == (capacity + d - 1) % d
  <2>1. r \in 0..(d - 1) /\ capacity + d - 1 = q * d + r
    BY <1>1, DivMod
  <2> DEFINE x == q * d
  <2>2. x \in Nat /\ capacity + d - 1 = x + r
    BY <1>1, <1>2, <2>1
  <2> HIDE DEF x, r
  <2>3. capacity <= x
    BY <1>1, <2>1, <2>2
  <2> QED BY <2>3 DEF x
<1> HIDE DEF q, d
<1>4. q * d <= pages * d
  <2>1. pages = q + (pages - q) /\ pages - q \in Nat
    BY <1>2
  <2>2. \A k \in Nat : (q + k) * d = q * d + k * d /\ k * d >= 0 /\ q * d \in Nat
    BY <1>1, <1>2
  <2>3. pages * d = q * d + (pages - q) * d /\ (pages - q) * d >= 0
    BY <2>1, <2>2
  <2> DEFINE x == q * d
             z == (pages - q) * d
             y == pages * d
  <2>4. x \in Int /\ z \in Int /\ y \in Int /\ y = x + z /\ z >= 0
    BY <1>1, <1>2, <2>1, <2>3
  <2> HIDE DEF x, y, z
  <2>5. x <= y
    BY <2>4
  <2> QED BY <2>5 DEF x, y
<1>5. q * d \in Nat /\ pages * d \in Nat
  BY <1>1, <1>2
<1> QED BY <1>3, <1>4, <1>5 DEF d

\* Rows of a paged cache do not overlap and stay inside its storage, as soon
\* as its table has the pages its capacity requires.
THEOREM PagedRowsApart ==
  ASSUME NEW capacity \in Nat, NEW pages \in Nat,
         RequiredPages(capacity) <= pages,
         NEW l1 \in Layers, NEW l2 \in Layers,
         NEW p1 \in 0..(capacity - 1), NEW p2 \in 0..(capacity - 1)
  PROVE  /\ PagedOffset(pages, l1, p1) \in 0..(NumLayers * (pages * PageSize) - 1)
         /\ PagedOffset(pages, l1, p1) = PagedOffset(pages, l2, p2)
            => l1 = l2 /\ p1 = p2
<1> DEFINE S == pages * PageSize
<1>1. S \in Nat /\ capacity <= S
  BY PagesSuffice
<1>2. ASSUME NEW l \in Layers, NEW p \in 0..(capacity - 1)
      PROVE  PagedOffset(pages, l, p) = l * S + p
  <2> DEFINE x == (p \div PageSize) * PageSize
             y == p % PageSize
             z == l * S
  <2>1. x \in Nat /\ y \in Nat /\ p = x + y
    <3>1. p \in Nat /\ PageSize \in Nat \ {0}
      BY LayoutAssumption DEF LayoutAssumption
    <3>2. /\ p \div PageSize \in Nat /\ p % PageSize \in 0..(PageSize - 1)
          /\ p = x + y
      BY <3>1, DivMod
    <3> QED BY <3>1, <3>2
  <2>2. z \in Nat
    BY <1>1 DEF Layers
  <2>3. PagedOffset(pages, l, p) = z + x + y
    BY DEF PagedOffset
  <2> HIDE DEF x, y, z
  <2>4. PagedOffset(pages, l, p) = z + p
    BY <2>1, <2>2, <2>3
  <2> QED BY <2>4 DEF z
<1>3. p1 \in 0..(S - 1) /\ p2 \in 0..(S - 1)
  BY <1>1
<1> HIDE DEF S
<1>4. /\ l1 * S + p1 \in 0..(NumLayers * S - 1)
      /\ l1 * S + p1 = l2 * S + p2 => l1 = l2 /\ p1 = p2
  BY <1>1, <1>3, Blocks
<1> QED BY <1>2, <1>4 DEF S

-----------------------------------------------------------------------------
(***************************************************************************)
(* Page tables, and what the calls do to them.                             *)
(***************************************************************************)

Has(table, page) == \E i \in DOMAIN table : table[i] = page
NoRepeat(table) == \A i, j \in DOMAIN table : table[i] = table[j] => i = j
Table == {table \in Seq(Pages) : NoRepeat(table)}

\* A valid table has a page once or not at all.
LEMMA CountInTable ==
  ASSUME NEW table \in Table, NEW page
  PROVE  Count(table, page) = IF Has(table, page) THEN 1 ELSE 0
<1> DEFINE at == {i \in DOMAIN table : table[i] = page}
<1>1. Count(table, page) = Cardinality(at)
  BY DEF Count
<1>2. CASE Has(table, page)
  <2>1. PICK i \in DOMAIN table : table[i] = page
    BY <1>2 DEF Has
  <2>2. at = {i}
    BY <2>1 DEF Table, NoRepeat
  <2> QED BY <1>1, <1>2, <2>2, FS_Singleton
<1>3. CASE ~Has(table, page)
  <2>1. at = {}
    BY <1>3 DEF Has
  <2> QED BY <1>1, <1>3, <2>1, FS_EmptySet
<1> QED BY <1>2, <1>3

\* The table of a request without pages holds none.
LEMMA EmptyTable == <<>> \in Table /\ \A page : ~Has(<<>>, page)
BY DEF Table, NoRepeat, Has

\* Writing rows, prefilling and decoding keep a cache's kind and page table.
LEMMA TableKept ==
  ASSUME NEW c, {"kind", "table"} \subseteq DOMAIN c
  PROVE  /\ \A rows : LET d == Write(c, rows) IN
              /\ {"kind", "table"} \subseteq DOMAIN d
              /\ d.kind = c.kind /\ d.table = c.table
         /\ \A tokens, n : LET d == Refilled(c, tokens, n) IN
              /\ {"kind", "table"} \subseteq DOMAIN d
              /\ d.kind = c.kind /\ d.table = c.table
         /\ \A tokens : LET d == Prefilled(c, tokens) IN
              /\ {"kind", "table"} \subseteq DOMAIN d
              /\ d.kind = c.kind /\ d.table = c.table
         /\ \A token, n : LET d == Extended(c, token, n) IN
              /\ {"kind", "table"} \subseteq DOMAIN d
              /\ d.kind = c.kind /\ d.table = c.table
         /\ \A token : LET d == Decoded(c, token) IN
              /\ {"kind", "table"} \subseteq DOMAIN d
              /\ d.kind = c.kind /\ d.table = c.table
<1>1. ASSUME NEW e, {"kind", "table"} \subseteq DOMAIN e, NEW rows
      PROVE  LET d == Write(e, rows) IN
             /\ {"kind", "table"} \subseteq DOMAIN d
             /\ d.kind = e.kind /\ d.table = e.table
  BY <1>1 DEF Write
<1>2. ASSUME NEW tokens, NEW n
      PROVE  LET d == Refilled(c, tokens, n) IN
             /\ {"kind", "table"} \subseteq DOMAIN d
             /\ d.kind = c.kind /\ d.table = c.table
  <2> DEFINE e == [c EXCEPT !.len = 0, !.logits = NoLogits, !.consumed = <<>>]
  <2>1. /\ {"kind", "table"} \subseteq DOMAIN e
        /\ e.kind = c.kind /\ e.table = c.table
    OBVIOUS
  <2> HIDE DEF e
  <2>2. \A rows : LET d == Write(e, rows) IN
          /\ {"kind", "table"} \subseteq DOMAIN d
          /\ d.kind = c.kind /\ d.table = c.table
    BY <1>1, <2>1
  <2> QED BY <2>2 DEF Refilled, e
<1>3. ASSUME NEW token, NEW n
      PROVE  LET d == Extended(c, token, n) IN
             /\ {"kind", "table"} \subseteq DOMAIN d
             /\ d.kind = c.kind /\ d.table = c.table
  BY <1>1 DEF Extended
<1>4. ASSUME NEW tokens
      PROVE  LET d == Prefilled(c, tokens) IN
             /\ {"kind", "table"} \subseteq DOMAIN d
             /\ d.kind = c.kind /\ d.table = c.table
  BY <1>2 DEF Prefilled
<1>5. ASSUME NEW token
      PROVE  LET d == Decoded(c, token) IN
             /\ {"kind", "table"} \subseteq DOMAIN d
             /\ d.kind = c.kind /\ d.table = c.table
  BY <1>3 DEF Decoded
<1> QED BY <1>1, <1>2, <1>3, <1>4, <1>5

\* Handles hold states with page tables, and no state no table.
Shape ==
  /\ free \in [Pages -> Nat]
  /\ DOMAIN cache = Handles
  /\ \A h \in Handles :
       /\ {"kind", "table"} \subseteq DOMAIN cache[h]
       /\ cache[h].table \in Table
       /\ ~InUse(h) => cache[h].table = <<>>

SameTables(handles) == \A g \in handles : cache'[g].table = cache[g].table

\* What a step does to the pages: nothing, or a handle gets a table from the
\* pool, gives its table back, or is dropped with its table.
Keeps == UNCHANGED <<free, lost>> /\ SameTables(Handles)
Takes(h, table) ==
  /\ table \in Table
  /\ \A page \in Pages : Count(table, page) <= free[page]
  /\ free' = Taken(free, table)
  /\ cache[h].table = <<>> /\ cache'[h].table = table
  /\ SameTables(Handles \ {h})
  /\ lost' = lost
Gives(h) ==
  /\ free' = Returned(free, cache[h].table)
  /\ cache'[h].table = <<>>
  /\ SameTables(Handles \ {h})
  /\ lost' = lost
Loses(h) ==
  /\ free' = free
  /\ cache'[h].table = <<>>
  /\ SameTables(Handles \ {h})
  /\ lost' = lost \cup {page \in Pages : Count(cache[h].table, page) > 0}

MovesPages ==
  \/ Keeps
  \/ \E h \in Handles :
       Gives(h) \/ Loses(h) \/ \E table \in Table : Takes(h, table)

\* Putting a state with its own kind and table under a handle.
LEMMA KeepsOne ==
  ASSUME Shape, UNCHANGED <<free, lost>>, NEW h \in Handles, NEW d,
         cache' = [cache EXCEPT ![h] = d],
         {"kind", "table"} \subseteq DOMAIN d,
         d.kind = cache[h].kind, d.table = cache[h].table
  PROVE  Shape' /\ Keeps
<1>1. DOMAIN cache' = Handles /\ cache'[h] = d
      /\ \A g \in Handles \ {h} : cache'[g] = cache[g]
  BY DEF Shape
<1> QED BY <1>1 DEF Shape, Keeps, SameTables, InUse

\* A table that allocate has checked is a page table.
LEMMA FrontTable ==
  ASSUME Shape, NEW capacity \in Nat, NEW table \in Front(RequiredPages(capacity)),
         ValidPageTable(table, capacity)
  PROVE  /\ table \in Table
         /\ \A page \in Pages : /\ Count(table, page) \in Nat
                                /\ Count(table, page) <= free[page]
<1>1. RequiredPages(capacity) \in Nat
  <2>1. PageSize \in Nat \ {0} /\ capacity + PageSize - 1 \in Nat
    BY LayoutAssumption DEF LayoutAssumption
  <2> QED BY <2>1, DivMod DEF RequiredPages
<1>2. table \in Seq(Pages)
  BY <1>1 DEF Front
<1>3. table \in Table
  BY <1>2 DEF Table, NoRepeat, ValidPageTable
<1>4. \A page \in Pages : Count(table, page) <= free[page]
  BY DEF Front
<1> QED BY <1>3, <1>4, CountInTable

\* Putting a table back restores the pool it was taken from.
LEMMA PutBack ==
  ASSUME Shape, NEW table, \A page \in Pages : Count(table, page) \in Nat
  PROVE  Returned(Taken(free, table), table) = free
<1>1. \A page \in Pages :
        (free[page] - Count(table, page)) + Count(table, page) = free[page]
  BY DEF Shape
<1>2. free = [page \in Pages |-> free[page]]
  BY DEF Shape
<1> QED BY <1>1, <1>2 DEF Returned, Taken

\* Every call moves pages in one of these ways.
LEMMA PageMoves ==
  ASSUME Shape, [Next]_vars
  PROVE  Shape' /\ MovesPages
<1>1. CASE UNCHANGED <<free, cache, lost>>
  BY <1>1 DEF Shape, MovesPages, Keeps, SameTables, InUse
<1>2. ASSUME NEW h \in Handles, NEW tokens \in Prompts,
             PrepareContiguous(h, tokens)
      PROVE  Shape' /\ MovesPages
  <2>1. CASE UNCHANGED cache
    BY <1>1, <1>2, <2>1 DEF PrepareContiguous
  <2> DEFINE d == Prefilled(NewCache("Contiguous", <<>>, ContextLength), tokens)
  <2>2. CASE cache' = [cache EXCEPT ![h] = d]
    <3>1. /\ {"kind", "table"} \subseteq DOMAIN d
          /\ d.kind = "Contiguous" /\ d.table = <<>>
      <4> DEFINE c == NewCache("Contiguous", <<>>, ContextLength)
      <4>1. /\ {"kind", "table"} \subseteq DOMAIN c
            /\ c.kind = "Contiguous" /\ c.table = <<>>
        BY DEF NewCache
      <4> HIDE DEF c
      <4>2. LET e == Prefilled(c, tokens) IN
              /\ {"kind", "table"} \subseteq DOMAIN e
              /\ e.kind = c.kind /\ e.table = c.table
        BY <4>1, TableKept
      <4> QED BY <4>1, <4>2 DEF c
    <3> HIDE DEF d
    <3>2. UNCHANGED <<free, lost>> /\ cache[h].table = <<>>
      BY <1>2 DEF PrepareContiguous, Shape
    <3>3. /\ DOMAIN cache' = Handles /\ cache'[h] = d
          /\ \A g \in Handles \ {h} : cache'[g] = cache[g]
      BY <2>2 DEF Shape
    <3> QED BY <3>1, <3>2, <3>3
            DEF Shape, MovesPages, Keeps, SameTables, InUse
  <2> QED BY <1>2, <2>1, <2>2 DEF PrepareContiguous
<1>3. ASSUME NEW h \in Handles, NEW tokens \in Prompts, NEW capacity \in Capacities,
             PreparePaged(h, tokens, capacity)
      PROVE  Shape' /\ MovesPages
  <2>1. PICK table \in Front(RequiredPages(capacity)) :
          /\ ValidPageTable(table, capacity)
          /\ \/ /\ free' = Taken(free, table)
                /\ cache' = [cache EXCEPT ![h] =
                     Prefilled(NewCache("Paged", table, capacity), tokens)]
             \/ /\ free' = Returned(Taken(free, table), table)
                /\ UNCHANGED cache
    BY <1>3 DEF PreparePaged
  <2>2. capacity \in Nat
    BY CacheAssumption DEF CacheAssumption
  <2>4. table \in Table
    BY <2>1, <2>2, FrontTable
  <2>5. \A page \in Pages :
          /\ Count(table, page) \in Nat /\ free[page] \in Nat
          /\ Count(table, page) <= free[page]
    BY <2>1, <2>2, FrontTable DEF Shape
  <2>6. lost' = lost /\ cache[h].table = <<>>
    BY <1>3 DEF PreparePaged, Shape
  <2>7. CASE free' = Returned(Taken(free, table), table) /\ UNCHANGED cache
    <3>1. free' = free
      BY <2>5, <2>7, PutBack
    <3> QED BY <1>1, <2>6, <2>7, <3>1
  <2> DEFINE d == Prefilled(NewCache("Paged", table, capacity), tokens)
  <2>8. CASE free' = Taken(free, table) /\ cache' = [cache EXCEPT ![h] = d]
    <3>1. /\ {"kind", "table"} \subseteq DOMAIN d
          /\ d.kind = "Paged" /\ d.table = table
      <4> DEFINE c == NewCache("Paged", table, capacity)
      <4>1. /\ {"kind", "table"} \subseteq DOMAIN c
            /\ c.kind = "Paged" /\ c.table = table
        BY DEF NewCache
      <4> HIDE DEF c
      <4>2. LET e == Prefilled(c, tokens) IN
              /\ {"kind", "table"} \subseteq DOMAIN e
              /\ e.kind = c.kind /\ e.table = c.table
        BY <4>1, TableKept
      <4> QED BY <4>1, <4>2 DEF c
    <3> HIDE DEF d
    <3>2. /\ DOMAIN cache' = Handles /\ cache'[h] = d
          /\ \A g \in Handles \ {h} : cache'[g] = cache[g]
      BY <2>8 DEF Shape
    <3>3. free' \in [Pages -> Nat]
      BY <2>5, <2>8 DEF Taken
    <3>4. Shape'
      BY <2>4, <3>1, <3>2, <3>3 DEF Shape, InUse
    <3>5. Takes(h, table)
      BY <2>4, <2>5, <2>6, <2>8, <3>1, <3>2 DEF Takes, SameTables
    <3> QED BY <2>4, <3>4, <3>5 DEF MovesPages
  <2> QED BY <2>1, <2>7, <2>8
<1>4. ASSUME NEW h \in Handles, Decode(h)
      PROVE  Shape' /\ MovesPages
  <2>1. UNCHANGED <<free, lost>>
    BY <1>4 DEF Decode
  <2>2. CASE UNCHANGED cache
    BY <1>1, <2>1, <2>2
  <2>3. CASE \E d : /\ cache' = [cache EXCEPT ![h] = d]
                    /\ {"kind", "table"} \subseteq DOMAIN d
                    /\ d.kind = cache[h].kind /\ d.table = cache[h].table
    BY <2>1, <2>3, KeepsOne DEF MovesPages
  <2>4. {"kind", "table"} \subseteq DOMAIN cache[h]
    BY DEF Shape
  <2> QED BY <1>4, <2>2, <2>3, <2>4, TableKept DEF Decode
<1>5. ASSUME NEW h \in Handles, NEW tokens \in Prompts, Refill(h, tokens)
      PROVE  Shape' /\ MovesPages
  <2>1. UNCHANGED <<free, lost>>
    BY <1>5 DEF Refill
  <2>2. CASE UNCHANGED cache
    BY <1>1, <2>1, <2>2
  <2>3. CASE \E d : /\ cache' = [cache EXCEPT ![h] = d]
                    /\ {"kind", "table"} \subseteq DOMAIN d
                    /\ d.kind = cache[h].kind /\ d.table = cache[h].table
    BY <2>1, <2>3, KeepsOne DEF MovesPages
  <2>4. {"kind", "table"} \subseteq DOMAIN cache[h]
    BY DEF Shape
  <2> QED BY <1>5, <2>2, <2>3, <2>4, TableKept DEF Refill
<1>6. ASSUME NEW h \in Handles, Release(h)
      PROVE  Shape' /\ MovesPages
  <2>1. /\ free' = Returned(free, cache[h].table) /\ lost' = lost
        /\ cache' = [cache EXCEPT ![h] = Released(cache[h])]
    BY <1>6 DEF Release
  <2>2. {"kind", "table"} \subseteq DOMAIN cache[h] /\ cache[h].table \in Table
    BY DEF Shape
  <2>3. /\ {"kind", "table"} \subseteq DOMAIN Released(cache[h])
        /\ Released(cache[h]).table = <<>>
    BY <2>2 DEF Released
  <2>4. /\ DOMAIN cache' = Handles /\ cache'[h] = Released(cache[h])
        /\ \A g \in Handles \ {h} : cache'[g] = cache[g]
    BY <2>1 DEF Shape
  <2>5. free' \in [Pages -> Nat]
    BY <2>1, <2>2, CountInTable DEF Returned, Shape
  <2>6. Shape'
    BY <2>3, <2>4, <2>5, EmptyTable DEF Shape, InUse
  <2>7. Gives(h)
    BY <2>1, <2>3, <2>4 DEF Gives, SameTables
  <2> QED BY <2>6, <2>7 DEF MovesPages
<1>7. ASSUME NEW h \in Handles, Drop(h)
      PROVE  Shape' /\ MovesPages
  <2>1. /\ free' = free
        /\ lost' = lost \cup {page \in Pages : Count(cache[h].table, page) > 0}
        /\ cache' = [cache EXCEPT ![h] = NoState]
    BY <1>7 DEF Drop
  <2>2. {"kind", "table"} \subseteq DOMAIN NoState /\ NoState.table = <<>>
    BY DEF NoState
  <2>3. /\ DOMAIN cache' = Handles /\ cache'[h] = NoState
        /\ \A g \in Handles \ {h} : cache'[g] = cache[g]
    BY <2>1 DEF Shape
  <2>4. Shape'
    BY <2>1, <2>2, <2>3, EmptyTable DEF Shape, InUse
  <2>5. Loses(h)
    BY <2>1, <2>2, <2>3 DEF Loses, SameTables
  <2> QED BY <2>4, <2>5 DEF MovesPages
<1> QED BY <1>1, <1>2, <1>3, <1>4, <1>5, <1>6, <1>7
        DEF Next, vars, RefusePaged

-----------------------------------------------------------------------------
(***************************************************************************)
(* Accounting: a page is in the pool, lost, or in the table of one handle. *)
(***************************************************************************)

InPool(page) ==
  /\ free[page] = 1 /\ page \notin lost
  /\ \A h \in Handles : ~Has(cache[h].table, page)
Astray(page) ==
  /\ free[page] = 0 /\ page \in lost
  /\ \A h \in Handles : ~Has(cache[h].table, page)
HeldBy(h, page) ==
  /\ free[page] = 0 /\ page \notin lost
  /\ \A g \in Handles : Has(cache[g].table, page) <=> g = h

Placed(page) ==
  InPool(page) \/ Astray(page) \/ \E h \in Handles : HeldBy(h, page)

PageInv == Shape /\ \A page \in Pages : Placed(page)

\* Whichever way a call moves pages, each of them is in one place afterwards.
LEMMA PlacedStep ==
  ASSUME PageInv, MovesPages, NEW page \in Pages
  PROVE  Placed(page)'
<1>0. /\ free \in [Pages -> Nat] /\ Placed(page)
      /\ \A h \in Handles : cache[h].table \in Table
  BY DEF PageInv, Shape
<1>1. CASE Keeps
  BY <1>0, <1>1
     DEF Keeps, SameTables, Placed, InPool, Astray, HeldBy
<1>2. ASSUME NEW h \in Handles, NEW table \in Table, Takes(h, table)
      PROVE  Placed(page)'
  <2>1. /\ free'[page] = free[page] - Count(table, page)
        /\ Count(table, page) <= free[page]
        /\ lost' = lost /\ cache'[h].table = table
        /\ ~Has(cache[h].table, page)
        /\ \A g \in Handles : g # h => cache'[g].table = cache[g].table
    BY <1>2, EmptyTable DEF Takes, Taken, SameTables
  <2>2. Count(table, page) = IF Has(table, page) THEN 1 ELSE 0
    BY CountInTable
  <2>3. CASE Has(table, page)
    <3>1. InPool(page)
      BY <1>0, <2>1, <2>2, <2>3 DEF Placed, Astray, HeldBy
    <3>2. HeldBy(h, page)'
      BY <2>1, <2>2, <2>3, <3>1 DEF InPool, HeldBy
    <3> QED BY <3>2 DEF Placed
  <2>4. CASE ~Has(table, page)
    <3>1. free'[page] = free[page]
      BY <1>0, <2>1, <2>2, <2>4
    <3>2. \A g \in Handles :
            Has(cache'[g].table, page) <=> Has(cache[g].table, page)
      BY <2>1, <2>4
    <3> QED BY <1>0, <2>1, <3>1, <3>2 DEF Placed, InPool, Astray, HeldBy
  <2> QED BY <2>3, <2>4
<1>3. ASSUME NEW h \in Handles, Gives(h)
      PROVE  Placed(page)'
  <2>1. /\ free'[page] = free[page] + Count(cache[h].table, page)
        /\ lost' = lost /\ ~Has(cache'[h].table, page)
        /\ \A g \in Handles : g # h => cache'[g].table = cache[g].table
    BY <1>3, EmptyTable DEF Gives, Returned, SameTables
  <2>2. Count(cache[h].table, page)
          = IF Has(cache[h].table, page) THEN 1 ELSE 0
    BY <1>0, CountInTable
  <2>3. CASE Has(cache[h].table, page)
    <3>1. HeldBy(h, page)
      BY <1>0, <2>3 DEF Placed, InPool, Astray, HeldBy
    <3>2. InPool(page)'
      BY <2>1, <2>2, <2>3, <3>1 DEF InPool, HeldBy
    <3> QED BY <3>2 DEF Placed
  <2>4. CASE ~Has(cache[h].table, page)
    <3>1. free'[page] = free[page]
      BY <1>0, <2>1, <2>2, <2>4
    <3>2. \A g \in Handles :
            Has(cache'[g].table, page) <=> Has(cache[g].table, page)
      BY <2>1, <2>4
    <3> QED BY <1>0, <2>1, <3>1, <3>2 DEF Placed, InPool, Astray, HeldBy
  <2> QED BY <2>3, <2>4
<1>4. ASSUME NEW h \in Handles, Loses(h)
      PROVE  Placed(page)'
  <2>1. /\ free' = free /\ ~Has(cache'[h].table, page)
        /\ page \in lost' <=> page \in lost \/ Count(cache[h].table, page) > 0
        /\ \A g \in Handles : g # h => cache'[g].table = cache[g].table
    BY <1>4, EmptyTable DEF Loses, SameTables
  <2>2. Count(cache[h].table, page)
          = IF Has(cache[h].table, page) THEN 1 ELSE 0
    BY <1>0, CountInTable
  <2>3. CASE Has(cache[h].table, page)
    <3>1. HeldBy(h, page)
      BY <1>0, <2>3 DEF Placed, InPool, Astray, HeldBy
    <3>2. Astray(page)'
      BY <2>1, <2>2, <2>3, <3>1 DEF Astray, HeldBy
    <3> QED BY <3>2 DEF Placed
  <2>4. CASE ~Has(cache[h].table, page)
    <3>1. page \in lost' <=> page \in lost
      BY <2>1, <2>2, <2>4
    <3>2. \A g \in Handles :
            Has(cache'[g].table, page) <=> Has(cache[g].table, page)
      BY <2>1, <2>4
    <3> QED BY <1>0, <2>1, <3>1, <3>2 DEF Placed, InPool, Astray, HeldBy
  <2> QED BY <2>3, <2>4
<1> QED BY <1>1, <1>2, <1>3, <1>4 DEF MovesPages

\* The inductive invariant: shapes of the caches, and each page in one place.
LEMMA PageInvAlways ==
  Spec => []PageInv
<1>1. Init => PageInv
  <2> SUFFICES ASSUME Init PROVE PageInv
    OBVIOUS
  <2>1. \A h \in Handles : cache[h] = NoState
    BY DEF Init
  <2>2. {"kind", "table"} \subseteq DOMAIN NoState /\ NoState.table = <<>>
    BY DEF NoState
  <2>3. Shape
    BY <2>1, <2>2, EmptyTable DEF Init, Shape
  <2>4. \A page \in Pages : InPool(page)
    BY <2>1, <2>2, EmptyTable DEF Init, InPool
  <2> QED BY <2>3, <2>4 DEF PageInv, Placed
<1>2. PageInv /\ [Next]_vars => PageInv'
  BY PageMoves, PlacedStep DEF PageInv
<1> QED BY <1>1, <1>2, PTL DEF Spec

\* Every physical page is in the free queue once, or in one
\* request's table, or was dropped with a request: through allocations,
\* releases, repeated releases, and prefills and decodes that fail.
THEOREM PagesAccountedAlways ==
  Spec => []PagesAccounted
<1>1. PageInv => PagesAccounted
  <2> SUFFICES ASSUME PageInv, NEW page \in Pages
               PROVE  free[page] + Cardinality(Holders(page))
                        + (IF page \in lost THEN 1 ELSE 0) = 1
    BY DEF PagesAccounted
  <2>1. \A h \in Handles : h \in Holders(page) <=> Has(cache[h].table, page)
    BY CountInTable DEF Holders, PageInv, Shape
  <2>2. CASE InPool(page) \/ Astray(page)
    <3>1. Holders(page) = {}
      BY <2>1, <2>2 DEF InPool, Astray, Holders
    <3>2. Cardinality(Holders(page)) = 0
      BY <3>1, FS_EmptySet
    <3> QED BY <2>2, <3>2 DEF InPool, Astray
  <2>3. ASSUME NEW h \in Handles, HeldBy(h, page)
        PROVE  free[page] + Cardinality(Holders(page))
                 + (IF page \in lost THEN 1 ELSE 0) = 1
    <3>1. Holders(page) = {h}
      BY <2>1, <2>3 DEF HeldBy, Holders
    <3>2. Cardinality(Holders(page)) = 1
      BY <3>1, FS_Singleton
    <3> QED BY <2>3, <3>2 DEF HeldBy
  <2> QED BY <2>2, <2>3 DEF PageInv, Placed
<1>2. Spec => []PageInv
  BY PageInvAlways
<1> QED BY <1>1, <1>2, PTL

-----------------------------------------------------------------------------
(***************************************************************************)
(* The refinement of PageLedger.                                           *)
(***************************************************************************)

\* The mapping names the place that PageInv gives a page.
OwnersPlace ==
  \A page \in Pages :
    /\ Owners[page] = "Free" <=> InPool(page)
    /\ Owners[page] = "Lost" <=> Astray(page)
    /\ \A h \in Handles : Owners[page] = h <=> Has(cache[h].table, page)

\* The owner that the ledger sees of a page is the place the page is in.
LEMMA OwnersPlaced == PageInv => OwnersPlace
<1> SUFFICES ASSUME PageInv, NEW page \in Pages
             PROVE  /\ Owners[page] = "Free" <=> InPool(page)
                    /\ Owners[page] = "Lost" <=> Astray(page)
                    /\ \A h \in Handles :
                         Owners[page] = h <=> Has(cache[h].table, page)
  BY DEF OwnersPlace
<1>0. Handles \cap {"Free", "Lost"} = {}
  BY CacheAssumption DEF CacheAssumption
<1>1. \A h \in Handles : h \in Holders(page) <=> Has(cache[h].table, page)
  BY CountInTable DEF Holders, PageInv, Shape
<1>2. CASE InPool(page)
  <2>1. Owners[page] = "Free"
    BY <1>2 DEF Owners, InPool
  <2> QED BY <1>0, <1>2, <2>1 DEF InPool, Astray
<1>3. CASE Astray(page)
  <2>1. Holders(page) = {}
    BY <1>1, <1>3 DEF Astray, Holders
  <2>2. Owners[page] = "Lost"
    BY <1>3, <2>1 DEF Owners, Astray
  <2> QED BY <1>0, <1>3, <2>2 DEF InPool, Astray
<1>4. ASSUME NEW h \in Handles, HeldBy(h, page)
      PROVE  /\ Owners[page] = "Free" <=> InPool(page)
             /\ Owners[page] = "Lost" <=> Astray(page)
             /\ \A g \in Handles :
                  Owners[page] = g <=> Has(cache[g].table, page)
  <2>1. \A g \in Handles : g \in Holders(page) <=> g = h
    BY <1>1, <1>4 DEF HeldBy
  <2>2. Owners[page] = CHOOSE g \in Handles : g \in Holders(page)
    BY <1>4, <2>1 DEF Owners, HeldBy
  <2>3. Owners[page] = h
    BY <2>1, <2>2
  <2> QED BY <1>0, <1>4, <2>3 DEF InPool, Astray, HeldBy
<1> QED BY <1>2, <1>3, <1>4 DEF PageInv, Placed

\* Each way a call moves pages is a step of the ledger, or no page moves.
LEMMA LedgerStep ==
  ASSUME PageInv, PageInv', OwnersPlace, OwnersPlace', MovesPages
  PROVE  Ledger!LedgerNext \/ UNCHANGED Owners
<1>0. /\ Owners = [page \in Pages |-> Owners[page]]
      /\ Owners' = [page \in Pages |-> Owners'[page]]
  BY DEF Owners
<1>1. \A page \in Pages : Placed(page)
  BY DEF PageInv
<1>2. ASSUME Keeps
      PROVE  UNCHANGED Owners
  <2>1. \A page \in Pages : Owners'[page] = Owners[page]
    BY <1>1, <1>2 DEF Keeps, SameTables, OwnersPlace, Placed, InPool, Astray, HeldBy
  <2> QED BY <1>0, <2>1
<1>3. ASSUME NEW h \in Handles, NEW table \in Table, Takes(h, table)
      PROVE  Ledger!LedgerNext
  <2> DEFINE pages == {page \in Pages : Has(table, page)}
  <2>1. Ledger!OwnedBy(h) = {}
    BY <1>3, EmptyTable DEF Takes, OwnersPlace, Ledger!OwnedBy
  <2>2. \A page \in Pages : Count(table, page) = IF Has(table, page) THEN 1 ELSE 0
    BY CountInTable
  <2>3. pages \subseteq Ledger!OwnedBy("Free")
    <3> SUFFICES ASSUME NEW page \in Pages, Has(table, page)
                 PROVE  InPool(page)
      BY DEF OwnersPlace, Ledger!OwnedBy
    <3>1. free[page] >= 1
      BY <1>3, <2>2 DEF Takes, PageInv, Shape
    <3> QED BY <1>1, <3>1 DEF Placed, Astray, HeldBy
  <2>4. ASSUME NEW page \in Pages
        PROVE  Owners'[page] = IF page \in pages THEN h ELSE Owners[page]
    <3>1. CASE Has(table, page)
      BY <1>3, <3>1 DEF Takes, OwnersPlace
    <3>2. CASE ~Has(table, page)
      <4>1. /\ free'[page] = free[page] /\ lost' = lost
            /\ \A g \in Handles :
                 Has(cache'[g].table, page) <=> Has(cache[g].table, page)
        BY <1>3, <2>2, <3>2, EmptyTable
           DEF Takes, Taken, SameTables, PageInv, Shape
      <4> QED BY <1>1, <3>2, <4>1
              DEF OwnersPlace, Placed, InPool, Astray, HeldBy
    <3> QED BY <3>1, <3>2
  <2>5. Ledger!Pass("Free", h, pages)
    BY <1>0, <2>3, <2>4 DEF Ledger!Pass
  <2> QED BY <2>1, <2>5 DEF Ledger!LedgerNext, Ledger!Take
<1>4. ASSUME NEW h \in Handles, Gives(h)
      PROVE  Ledger!LedgerNext
  <2>1. ASSUME NEW page \in Pages
        PROVE  Owners'[page] =
                 IF page \in Ledger!OwnedBy(h) THEN "Free" ELSE Owners[page]
    <3>0. Count(cache[h].table, page)
            = IF Has(cache[h].table, page) THEN 1 ELSE 0
      BY CountInTable DEF PageInv, Shape
    <3>1. /\ lost' = lost /\ ~Has(cache'[h].table, page)
          /\ free'[page] = free[page] + Count(cache[h].table, page)
          /\ \A g \in Handles : g # h => cache'[g].table = cache[g].table
      BY <1>4, EmptyTable DEF Gives, Returned, SameTables
    <3>2. CASE Has(cache[h].table, page)
      <4>1. HeldBy(h, page)
        BY <1>1, <3>2 DEF Placed, InPool, Astray, HeldBy
      <4>2. InPool(page)'
        BY <3>0, <3>1, <3>2, <4>1 DEF InPool, HeldBy
      <4> QED BY <3>2, <4>2 DEF OwnersPlace, Ledger!OwnedBy
    <3>3. CASE ~Has(cache[h].table, page)
      <4>1. /\ free'[page] = free[page]
            /\ \A g \in Handles :
                 Has(cache'[g].table, page) <=> Has(cache[g].table, page)
        BY <3>0, <3>1, <3>3 DEF PageInv, Shape
      <4> QED BY <1>1, <3>1, <3>3, <4>1
              DEF OwnersPlace, Placed, InPool, Astray, HeldBy, Ledger!OwnedBy
    <3> QED BY <3>2, <3>3
  <2>2. Ledger!Pass(h, "Free", Ledger!OwnedBy(h))
    BY <1>0, <2>1 DEF Ledger!Pass
  <2> QED BY <2>2 DEF Ledger!LedgerNext, Ledger!GiveBack
<1>5. ASSUME NEW h \in Handles, Loses(h)
      PROVE  Ledger!LedgerNext
  <2>1. ASSUME NEW page \in Pages
        PROVE  Owners'[page] =
                 IF page \in Ledger!OwnedBy(h) THEN "Lost" ELSE Owners[page]
    <3>0. Count(cache[h].table, page)
            = IF Has(cache[h].table, page) THEN 1 ELSE 0
      BY CountInTable DEF PageInv, Shape
    <3>1. /\ free' = free /\ ~Has(cache'[h].table, page)
          /\ page \in lost' <=> page \in lost \/ Count(cache[h].table, page) > 0
          /\ \A g \in Handles : g # h => cache'[g].table = cache[g].table
      BY <1>5, EmptyTable DEF Loses, SameTables
    <3>2. CASE Has(cache[h].table, page)
      <4>1. HeldBy(h, page)
        BY <1>1, <3>2 DEF Placed, InPool, Astray, HeldBy
      <4>2. Astray(page)'
        BY <3>0, <3>1, <3>2, <4>1 DEF Astray, HeldBy
      <4> QED BY <3>2, <4>2 DEF OwnersPlace, Ledger!OwnedBy
    <3>3. CASE ~Has(cache[h].table, page)
      <4>1. /\ page \in lost' <=> page \in lost
            /\ \A g \in Handles :
                 Has(cache'[g].table, page) <=> Has(cache[g].table, page)
        BY <3>0, <3>1, <3>3
      <4> QED BY <1>1, <3>1, <3>3, <4>1
              DEF OwnersPlace, Placed, InPool, Astray, HeldBy, Ledger!OwnedBy
    <3> QED BY <3>2, <3>3
  <2>2. Ledger!Pass(h, "Lost", Ledger!OwnedBy(h))
    BY <1>0, <2>1 DEF Ledger!Pass
  <2> QED BY <2>2 DEF Ledger!LedgerNext, Ledger!Lose
<1> QED BY <1>2, <1>3, <1>4, <1>5 DEF MovesPages

\* Every step of the caches and their callers takes pages from
\* the pool, gives a request's pages back, loses them, or moves none.
THEOREM ImplementsLedgerAlways ==
  Spec => ImplementsLedger
<1>1. Init /\ OwnersPlace => Ledger!LedgerInit
  <2> SUFFICES ASSUME Init, OwnersPlace
               PROVE  Ledger!LedgerInit
    OBVIOUS
  <2>1. \A page \in Pages : free[page] = 1
    BY DEF Init
  <2>2. \A page \in Pages : Owners[page] = "Free"
    BY <2>1 DEF Owners
  <2> QED BY <2>2 DEF Ledger!LedgerInit, Owners
<1>2. PageInv /\ PageInv' /\ OwnersPlace /\ OwnersPlace' /\ [Next]_vars
      => [Ledger!LedgerNext]_Owners
  BY PageMoves, LedgerStep DEF PageInv
<1>3. Spec => []PageInv
  BY PageInvAlways
<1>4. PageInv => OwnersPlace
  BY OwnersPlaced
<1> QED BY <1>1, <1>2, <1>3, <1>4, PTL DEF Spec, ImplementsLedger, Ledger!LedgerSpec

-----------------------------------------------------------------------------
(***************************************************************************)
(* The forward pass, layer by layer.                                       *)
(***************************************************************************)

\* A set of natural numbers has a least element: what an argument by the
\* first layer at which something fails rests on.
LEMMA LeastNat ==
  ASSUME NEW T, T \subseteq Nat, T # {}
  PROVE  \E m \in T : \A k \in T : m <= k
<1>1. PICK m \in T : \A k \in T : <<k, m>> \notin OpToRel(<, Nat)
  BY NatLessThanWellFounded, WFMin
<1>2. \A k \in T : ~(k < m)
  BY <1>1 DEF OpToRel
<1> QED BY <1>2

\* What holds at 0, and at k + 1 if it does at k, holds up to n: induction on
\* layers, for the set of those at which something is true.
LEMMA Climb ==
  ASSUME NEW S, NEW n \in Nat, 0 \in S,
         \A k \in 0..(n - 1) : k \in S => k + 1 \in S
  PROVE  \A k \in 0..n : k \in S
<1> DEFINE T == {k \in 0..n : k \notin S}
<1>1. T \subseteq Nat
  OBVIOUS
<1>2. ASSUME NEW m \in T, \A k \in T : m <= k
      PROVE  FALSE
  <2>1. m \in 1..n /\ m \notin S
    OBVIOUS
  <2>2. m - 1 \in 0..(n - 1) /\ m - 1 \notin T
    BY <1>2, <2>1
  <2>3. m - 1 \in S
    BY <2>2
  <2>4. m - 1 + 1 \in S
    BY <2>2, <2>3
  <2> QED BY <2>1, <2>4
<1> HIDE DEF T
<1>3. T = {}
  BY <1>1, <1>2, LeastNat
<1> QED BY <1>3 DEF T

\* The embeddings, what a layer makes of the states below it, and the
\* equation of the whole pass
Embeddings(tokens) == [p \in 0..(Len(tokens) - 1) |-> Embed(tokens[p + 1])]
Layer(tokens, l, below) ==
  [p \in 0..(Len(tokens) - 1) |->
     Attend(l, below[p], [q \in 0..p |-> Project(l, below[q], q)])]
Pass(tokens, hidden, n) ==
  [l \in 0..n |-> IF l = 0 THEN Embeddings(tokens)
                  ELSE Layer(tokens, l - 1, hidden[l - 1])]

\* There are hidden states that satisfy the equation, so Hidden does.
LEMMA HiddenLayers ==
  ASSUME NEW tokens
  PROVE  Hidden(tokens) = Pass(tokens, Hidden(tokens), NumLayers)
<1>0. NumLayers \in Nat
  BY LayoutAssumption DEF LayoutAssumption
<1> DEFINE Some(n) == \E h : h = Pass(tokens, h, n)
           S == {n \in Nat : Some(n)}
<1>1. Some(0)
  <2> DEFINE h == [l \in 0..0 |-> Embeddings(tokens)]
  <2>1. h = Pass(tokens, h, 0)
    BY DEF Pass
  <2> QED BY <2>1
<1>2. ASSUME NEW n \in Nat, Some(n)
      PROVE  Some(n + 1)
  <2>1. PICK g : g = Pass(tokens, g, n)
    BY <1>2
  <2> DEFINE h == [l \in 0..(n + 1) |->
                     IF l = 0 THEN Embeddings(tokens)
                     ELSE Layer(tokens, l - 1, g[l - 1])]
  <2>2. \A l \in 0..n : h[l] = g[l]
    BY <2>1 DEF Pass
  <2>3. \A l \in 0..(n + 1) : l # 0 => h[l - 1] = g[l - 1]
    <3> HIDE DEF h
    <3>1. \A l \in 0..(n + 1) : l # 0 => l - 1 \in 0..n
      OBVIOUS
    <3> QED BY <2>2, <3>1
  <2>4. h = Pass(tokens, h, n + 1)
    BY <2>3 DEF Pass
  <2> QED BY <2>4
<1> HIDE DEF Some
<1>3. Some(NumLayers)
  <2>1. 0 \in S /\ \A n \in 0..(NumLayers - 1) : n \in S => n + 1 \in S
    BY <1>0, <1>1, <1>2
  <2> HIDE DEF S
  <2>2. NumLayers \in S
    BY <1>0, <2>1, Climb
  <2> QED BY <2>2 DEF S
<1> DEFINE hidden == CHOOSE h : h = Pass(tokens, h, NumLayers)
<1>4. hidden = Pass(tokens, hidden, NumLayers)
  BY <1>3 DEF Some
<1>5. Hidden(tokens) = hidden
  BY DEF Hidden, Pass, Embeddings, Layer
<1> QED BY <1>4, <1>5

\* The hidden states at a position are those of any text that begins with the
\* tokens up to it: attention is causal.
LEMMA HiddenOfPrefix ==
  ASSUME NEW s, NEW t, Len(s) \in Nat, Len(t) \in Nat, Len(s) <= Len(t),
         \A i \in 1..Len(s) : s[i] = t[i]
  PROVE  \A l \in 0..NumLayers, p \in 0..(Len(s) - 1) :
           Hidden(t)[l][p] = Hidden(s)[l][p]
<1>0. NumLayers \in Nat
  BY LayoutAssumption DEF LayoutAssumption
<1> DEFINE Agree(l) == \A p \in 0..(Len(s) - 1) : Hidden(t)[l][p] = Hidden(s)[l][p]
           S == {l \in 0..NumLayers : Agree(l)}
<1>1. Agree(0)
  <2>1. Hidden(s)[0] = Embeddings(s) /\ Hidden(t)[0] = Embeddings(t)
    BY <1>0, HiddenLayers DEF Pass
  <2> QED BY <2>1 DEF Embeddings
<1>2. ASSUME NEW l \in 0..NumLayers, l # 0, Agree(l - 1)
      PROVE  Agree(l)
  <2>1. /\ Hidden(s)[l] = Layer(s, l - 1, Hidden(s)[l - 1])
        /\ Hidden(t)[l] = Layer(t, l - 1, Hidden(t)[l - 1])
    BY <1>0, <1>2, HiddenLayers DEF Pass
  <2> SUFFICES ASSUME NEW p \in 0..(Len(s) - 1)
               PROVE  Hidden(t)[l][p] = Hidden(s)[l][p]
    OBVIOUS
  <2> DEFINE a == Hidden(s)[l - 1]
             b == Hidden(t)[l - 1]
  <2>2. b[p] = a[p] /\ \A q \in 0..p : b[q] = a[q]
    BY <1>2
  <2> HIDE DEF a, b
  <2>3. [q \in 0..p |-> Project(l - 1, b[q], q)]
          = [q \in 0..p |-> Project(l - 1, a[q], q)]
    BY <2>2
  <2>4. Hidden(s)[l][p]
          = Attend(l - 1, a[p], [q \in 0..p |-> Project(l - 1, a[q], q)])
    BY <2>1 DEF Layer, a
  <2>5. Hidden(t)[l][p]
          = Attend(l - 1, b[p], [q \in 0..p |-> Project(l - 1, b[q], q)])
    BY <2>1 DEF Layer, b
  <2> QED BY <2>2, <2>3, <2>4, <2>5
<1> HIDE DEF Agree
<1>3. \A l \in 0..NumLayers : l \in S
  <2>1. 0 \in S /\ \A l \in 0..(NumLayers - 1) : l \in S => l + 1 \in S
    <3>1. 0 \in S
      BY <1>0, <1>1
    <3>2. ASSUME NEW l \in 0..(NumLayers - 1), Agree(l)
          PROVE  Agree(l + 1)
      <4>1. l + 1 \in 0..NumLayers /\ l + 1 # 0 /\ l + 1 - 1 = l
        BY <1>0
      <4> QED BY <1>2, <3>2, <4>1
    <3>3. \A l \in 0..(NumLayers - 1) : l + 1 \in 0..NumLayers
      BY <1>0
    <3> QED BY <3>1, <3>2, <3>3
  <2> HIDE DEF S
  <2> QED BY <1>0, <2>1, Climb
<1> QED BY <1>3 DEF Agree

\* What decode makes of the rows in a cache, its own included, and the
\* equation of its pass
RowsRead(c, l, below) ==
  [q \in 0..c.len |-> IF q = c.len THEN Project(l, below, q) ELSE Row(c, l, q)]
Step(c, token, hidden, n) ==
  [l \in 0..n |-> IF l = 0 THEN Embed(token)
                  ELSE Attend(l - 1, hidden[l - 1],
                              RowsRead(c, l - 1, hidden[l - 1]))]

\* There are hidden states that satisfy the equation, so Incremental does.
LEMMA IncrementalLayers ==
  ASSUME NEW c, NEW token
  PROVE  Incremental(c, token) = Step(c, token, Incremental(c, token), NumLayers)
<1>0. NumLayers \in Nat
  BY LayoutAssumption DEF LayoutAssumption
<1> DEFINE Some(n) == \E h : h = Step(c, token, h, n)
           S == {n \in Nat : Some(n)}
<1>1. Some(0)
  <2> DEFINE h == [l \in 0..0 |-> Embed(token)]
  <2>1. h = Step(c, token, h, 0)
    BY DEF Step
  <2> QED BY <2>1
<1>2. ASSUME NEW n \in Nat, Some(n)
      PROVE  Some(n + 1)
  <2>1. PICK g : g = Step(c, token, g, n)
    BY <1>2
  <2> DEFINE h == [l \in 0..(n + 1) |->
                     IF l = 0 THEN Embed(token)
                     ELSE Attend(l - 1, g[l - 1], RowsRead(c, l - 1, g[l - 1]))]
  <2>2. \A l \in 0..n : h[l] = g[l]
    BY <2>1 DEF Step
  <2>3. \A l \in 0..(n + 1) : l # 0 => h[l - 1] = g[l - 1]
    <3> HIDE DEF h
    <3>1. \A l \in 0..(n + 1) : l # 0 => l - 1 \in 0..n
      OBVIOUS
    <3> QED BY <2>2, <3>1
  <2>4. h = Step(c, token, h, n + 1)
    BY <2>3 DEF Step
  <2> QED BY <2>4
<1> HIDE DEF Some
<1>3. Some(NumLayers)
  <2>1. 0 \in S /\ \A n \in 0..(NumLayers - 1) : n \in S => n + 1 \in S
    BY <1>0, <1>1, <1>2
  <2> HIDE DEF S
  <2>2. NumLayers \in S
    BY <1>0, <2>1, Climb
  <2> QED BY <2>2 DEF S
<1> DEFINE hidden == CHOOSE h : h = Step(c, token, h, NumLayers)
<1>4. hidden = Step(c, token, hidden, NumLayers)
  BY <1>3 DEF Some
<1>5. Incremental(c, token) = hidden
  BY DEF Incremental, Step, RowsRead
<1> QED BY <1>4, <1>5

\* With the right rows in the cache, the one position that decode computes
\* gets the hidden states of a pass over all the tokens.
LEMMA IncrementalExact ==
  ASSUME NEW c, NEW s \in Seq(Token), NEW token,
         c.len = Len(s),
         \A l \in Layers, p \in 0..(Len(s) - 1) :
           Row(c, l, p) = Project(l, Hidden(s)[l][p], p)
  PROVE  \A l \in 0..NumLayers :
           Incremental(c, token)[l] = Hidden(Append(s, token))[l][Len(s)]
<1>0. NumLayers \in Nat /\ Len(s) \in Nat
  BY LayoutAssumption DEF LayoutAssumption
<1> DEFINE t == Append(s, token)
           inc == Incremental(c, token)
           full == Hidden(t)
           n == Len(s)
           Agree(l) == inc[l] = full[l][n]
           S == {l \in 0..NumLayers : Agree(l)}
<1>1. Len(t) = n + 1 /\ t[n + 1] = token /\ \A i \in 1..n : s[i] = t[i]
  OBVIOUS
<1>2. \A l \in 0..NumLayers, p \in 0..(n - 1) : full[l][p] = Hidden(s)[l][p]
  <2>1. Len(t) \in Nat /\ Len(s) <= Len(t)
    BY <1>0, <1>1
  <2> HIDE DEF t
  <2> QED BY ONLY <1>0, <1>1, <2>1, HiddenOfPrefix
<1> HIDE DEF t
<1>3. /\ inc = Step(c, token, inc, NumLayers)
      /\ full = Pass(t, full, NumLayers)
  BY HiddenLayers, IncrementalLayers
<1> HIDE DEF inc, full
<1>4. Agree(0)
  <2>1. inc[0] = Embed(token)
    BY <1>0, <1>3 DEF Step
  <2>2. full[0] = Embeddings(t)
    BY <1>0, <1>3 DEF Pass
  <2> QED BY <1>0, <1>1, <2>1, <2>2 DEF Embeddings
<1>5. ASSUME NEW l \in 0..NumLayers, l # 0, Agree(l - 1)
      PROVE  Agree(l)
  <2>1. inc[l] = Attend(l - 1, inc[l - 1], RowsRead(c, l - 1, inc[l - 1]))
    BY <1>3, <1>5 DEF Step
  <2>2. full[l] = Layer(t, l - 1, full[l - 1])
    BY <1>3, <1>5 DEF Pass
  <2>3. l - 1 \in Layers /\ l - 1 \in 0..NumLayers
    BY <1>0, <1>5 DEF Layers
  <2> DEFINE below == full[l - 1]
  <2>4. full[l][n]
          = Attend(l - 1, below[n], [q \in 0..n |-> Project(l - 1, below[q], q)])
    BY <1>0, <1>1, <2>2 DEF Layer
  <2>5. \A q \in 0..(n - 1) : Row(c, l - 1, q) = Project(l - 1, below[q], q)
    BY <1>2, <2>3
  <2>6. inc[l - 1] = below[n]
    BY <1>5
  <2> HIDE DEF below
  <2>7. RowsRead(c, l - 1, below[n]) = [q \in 0..n |-> Project(l - 1, below[q], q)]
    BY <1>0, <2>5 DEF RowsRead
  <2> QED BY <2>1, <2>4, <2>6, <2>7
<1> HIDE DEF Agree
<1>6. \A l \in 0..NumLayers : l \in S
  <2>1. 0 \in S /\ \A l \in 0..(NumLayers - 1) : l \in S => l + 1 \in S
    <3>1. 0 \in S
      BY <1>0, <1>4
    <3>2. ASSUME NEW l \in 0..(NumLayers - 1), Agree(l)
          PROVE  Agree(l + 1)
      <4>1. l + 1 \in 0..NumLayers /\ l + 1 # 0 /\ l + 1 - 1 = l
        BY <1>0
      <4> QED BY <1>5, <3>2, <4>1
    <3>3. \A l \in 0..(NumLayers - 1) : l + 1 \in 0..NumLayers
      BY <1>0
    <3> QED BY <3>1, <3>2, <3>3
  <2> HIDE DEF S
  <2> QED BY <1>0, <2>1, Climb
<1> QED BY <1>6 DEF Agree, inc, full, t

-----------------------------------------------------------------------------
(***************************************************************************)
(* Caches hold the rows of the tokens they have consumed.                  *)
(***************************************************************************)
Fields == {"kind", "table", "capacity", "live", "len", "logits", "consumed", "mem"}

\* A cache whose storage has a row for each layer and position
Stored(c) ==
  /\ c.kind \in {"Contiguous", "Paged"}
  /\ c.capacity \in Nat
  /\ c.kind = "Paged" => ValidPageTable(c.table, c.capacity) /\ Len(c.table) \in Nat
  /\ DOMAIN c.mem = 0..(Rows(c.kind, c.table, c.capacity) - 1)

\* Rows of such a cache do not overlap and stay inside its storage.
LEMMA RowsApart ==
  ASSUME NEW c, Stored(c), NEW l1 \in Layers, NEW l2 \in Layers,
         NEW p1 \in 0..(c.capacity - 1), NEW p2 \in 0..(c.capacity - 1)
  PROVE  /\ Offset(c, l1, p1) \in DOMAIN c.mem
         /\ Offset(c, l1, p1) = Offset(c, l2, p2) => l1 = l2 /\ p1 = p2
<1>1. CASE c.kind = "Contiguous"
  BY <1>1, ContiguousRowsApart, SMTT(20) DEF Stored, Offset, Rows
<1>2. CASE c.kind = "Paged"
  <2>1. Len(c.table) \in Nat /\ RequiredPages(c.capacity) <= Len(c.table)
    BY <1>2 DEF Stored, ValidPageTable
  <2>2. /\ PagedOffset(Len(c.table), l1, p1)
             \in 0..(NumLayers * (Len(c.table) * PageSize) - 1)
        /\ PagedOffset(Len(c.table), l1, p1) = PagedOffset(Len(c.table), l2, p2)
           => l1 = l2 /\ p1 = p2
    BY <2>1, PagedRowsApart DEF Stored
  <2> QED BY <1>2, <2>2 DEF Stored, Offset, Rows
<1> QED BY <1>1, <1>2 DEF Stored

\* Writing rows changes those rows, and of the record nothing else.
LEMMA WriteRows ==
  ASSUME NEW c, Fields \subseteq DOMAIN c, Stored(c), NEW rows,
         DOMAIN rows \subseteq Layers \X (0..(c.capacity - 1))
  PROVE  LET d == Write(c, rows) IN
         /\ DOMAIN d = DOMAIN c
         /\ \A f \in Fields \ {"mem"} : d[f] = c[f]
         /\ Stored(d)
         /\ \A l \in Layers, p \in 0..(c.capacity - 1) :
              Row(d, l, p) = IF <<l, p>> \in DOMAIN rows THEN rows[<<l, p>>]
                             ELSE Row(c, l, p)
<1> DEFINE d == Write(c, rows)
           At(o) == CHOOSE x \in DOMAIN rows : Offset(c, x[1], x[2]) = o
           mem == [o \in DOMAIN c.mem |->
                     IF \E x \in DOMAIN rows : Offset(c, x[1], x[2]) = o
                     THEN rows[At(o)] ELSE c.mem[o]]
<1>1. /\ DOMAIN d = DOMAIN c
      /\ \A f \in Fields \ {"mem"} : d[f] = c[f]
      /\ d.mem = mem
  BY DEF Write, Fields
<1>2. Stored(d)
  BY <1>1 DEF Stored, Fields
<1>3. ASSUME NEW l \in Layers, NEW p \in 0..(c.capacity - 1)
      PROVE  Row(d, l, p) = IF <<l, p>> \in DOMAIN rows THEN rows[<<l, p>>]
                            ELSE Row(c, l, p)
  <2> DEFINE o == Offset(c, l, p)
  <2>1. Offset(d, l, p) = o
    BY <1>1 DEF Offset, Fields
  <2>2. o \in DOMAIN c.mem
    BY RowsApart
  <2>3. Row(d, l, p) = mem[o]
    BY <1>1, <2>1 DEF Row
  <2>4. \A x \in DOMAIN rows : Offset(c, x[1], x[2]) = o => x = <<l, p>>
    <3> SUFFICES ASSUME NEW x \in DOMAIN rows, Offset(c, x[1], x[2]) = o
                 PROVE  x = <<l, p>>
      OBVIOUS
    <3>1. x \in Layers \X (0..(c.capacity - 1))
      OBVIOUS
    <3>2. x = <<x[1], x[2]>> /\ x[1] \in Layers /\ x[2] \in 0..(c.capacity - 1)
      BY <3>1
    <3>3. x[1] = l /\ x[2] = p
      BY <3>2, RowsApart
    <3> QED BY <3>2, <3>3
  <2>5. CASE <<l, p>> \in DOMAIN rows
    <3>1. \E x \in DOMAIN rows : Offset(c, x[1], x[2]) = o
      BY <2>5
    <3>2. At(o) = <<l, p>>
      BY <2>4, <3>1
    <3> QED BY <2>2, <2>3, <2>5, <3>1, <3>2
  <2>6. CASE <<l, p>> \notin DOMAIN rows
    <3>1. ~\E x \in DOMAIN rows : Offset(c, x[1], x[2]) = o
      BY <2>4, <2>6
    <3>2. mem[o] = c.mem[o]
      BY <2>2, <3>1
    <3> QED BY <2>3, <2>6, <3>2 DEF Row
  <2> QED BY <2>5, <2>6
<1> QED BY <1>1, <1>2, <1>3

\* What CacheExact says of a live cache
Exact(c) ==
  /\ c.len = Len(c.consumed)
  /\ \A l \in Layers, p \in 0..(c.len - 1) :
       Row(c, l, p) = Project(l, Hidden(c.consumed)[l][p], p)
  /\ c.logits # NoLogits => c.logits = FreshLogits(c.consumed)

\* The inductive invariant of one request state
StateInv(c) ==
  /\ Fields \subseteq DOMAIN c
  /\ c.kind \in {"Absent", "Contiguous", "Paged"}
  /\ c.live \in BOOLEAN
  /\ c.capacity \in Nat
  /\ c.len \in 0..c.capacity
  /\ c.consumed \in Seq(Token)
  /\ c.live => Stored(c) /\ Exact(c)
  /\ ~c.live \/ c.kind = "Contiguous" => c.table = <<>>
  /\ ~c.live => c.logits = NoLogits /\ c.len = 0

\* greedy_sample answers with a token of the vocabulary.
SamplesTokens == \A x : Sample(Logits(x)) \in Token

\* A handle without a state.
LEMMA NoStateInv == StateInv(NoState)
BY DEF StateInv, NoState, Fields

\* A fresh cache.
LEMMA NewCacheInv ==
  ASSUME NEW kind \in {"Contiguous", "Paged"}, NEW table, NEW capacity \in Nat,
         kind = "Contiguous" => table = <<>>,
         kind = "Paged" => ValidPageTable(table, capacity) /\ Len(table) \in Nat
  PROVE  LET c == NewCache(kind, table, capacity) IN
         /\ StateInv(c) /\ Stored(c) /\ c.live /\ c.capacity = capacity
         /\ c.kind = kind /\ c.table = table
<1> DEFINE c == NewCache(kind, table, capacity)
<1>1. /\ DOMAIN c = Fields /\ c.kind = kind /\ c.table = table
      /\ c.capacity = capacity /\ c.live = TRUE /\ c.len = 0
      /\ c.logits = NoLogits /\ c.consumed = <<>>
      /\ DOMAIN c.mem = 0..(Rows(kind, table, capacity) - 1)
  BY DEF NewCache, Fields
<1> HIDE DEF c
<1>2. Stored(c)
  BY <1>1 DEF Stored
<1>3. Exact(c)
  BY <1>1 DEF Exact
<1>4. StateInv(c)
  <2>1. /\ Fields \subseteq DOMAIN c /\ c.live = TRUE
        /\ c.kind \in {"Absent", "Contiguous", "Paged"}
        /\ c.len \in 0..c.capacity /\ c.capacity \in Nat
        /\ c.consumed \in Seq(Token)
    BY <1>1
  <2>2. c.kind = "Contiguous" => c.table = <<>>
    BY <1>1
  <2> QED BY <1>2, <1>3, <2>1, <2>2 DEF StateInv
<1> QED BY <1>1, <1>2, <1>4 DEF c

\* A prefill that stops before its end leaves a cache that holds nothing.
LEMMA RefilledInv ==
  ASSUME NEW c, StateInv(c), c.live, NEW tokens, Len(tokens) \in Nat,
         Len(tokens) <= c.capacity, NEW layers \in 0..NumLayers
  PROVE  LET d == Refilled(c, tokens, layers) IN
         /\ StateInv(d) /\ Stored(d) /\ d.live
         /\ \A f \in Fields \ {"mem", "len", "logits", "consumed"} : d[f] = c[f]
         /\ \A l \in 0..(layers - 1), p \in 0..(Len(tokens) - 1) :
              Row(d, l, p) = Project(l, Hidden(tokens)[l][p], p)
<1>0. NumLayers \in Nat /\ Stored(c)
  BY LayoutAssumption DEF LayoutAssumption, StateInv
<1> DEFINE e == [c EXCEPT !.len = 0, !.logits = NoLogits, !.consumed = <<>>]
           rows == [x \in (0..(layers - 1)) \X (0..(Len(tokens) - 1)) |->
                      Project(x[1], Hidden(tokens)[x[1]][x[2]], x[2])]
           d == Write(e, rows)
<1>1. Refilled(c, tokens, layers) = d
  BY DEF Refilled
<1>2. /\ DOMAIN e = DOMAIN c /\ Fields \subseteq DOMAIN c
      /\ \A f \in Fields \ {"len", "logits", "consumed"} : e[f] = c[f]
      /\ e.len = 0 /\ e.logits = NoLogits /\ e.consumed = <<>>
  BY DEF StateInv, Fields
<1>3. Stored(e)
  BY <1>0, <1>2 DEF Stored, Fields
<1>4. /\ DOMAIN rows = (0..(layers - 1)) \X (0..(Len(tokens) - 1))
      /\ e.capacity = c.capacity /\ c.capacity \in Nat
      /\ 0..(layers - 1) \subseteq Layers
      /\ 0..(Len(tokens) - 1) \subseteq 0..(c.capacity - 1)
  BY <1>0, <1>2 DEF Layers, StateInv, Fields
<1>5. DOMAIN rows \subseteq Layers \X (0..(e.capacity - 1))
  BY <1>4
<1>6. \A l \in 0..(layers - 1), p \in 0..(Len(tokens) - 1) :
        rows[<<l, p>>] = Project(l, Hidden(tokens)[l][p], p)
  OBVIOUS
<1> HIDE DEF e, rows
<1>7. /\ DOMAIN d = DOMAIN e
      /\ \A f \in Fields \ {"mem"} : d[f] = e[f]
      /\ Stored(d)
      /\ \A l \in Layers, p \in 0..(e.capacity - 1) :
           Row(d, l, p) = IF <<l, p>> \in DOMAIN rows THEN rows[<<l, p>>]
                          ELSE Row(e, l, p)
  BY <1>2, <1>3, <1>5, WriteRows
<1> HIDE DEF d
<1>8. \A f \in Fields \ {"mem", "len", "logits", "consumed"} : d[f] = c[f]
  BY <1>2, <1>7
<1>9. d.len = 0 /\ d.logits = NoLogits /\ d.consumed = <<>> /\ d.live
  BY <1>2, <1>7, <1>8 DEF Fields
<1>10. Exact(d)
  BY <1>9 DEF Exact
<1>11. StateInv(d)
  BY <1>2, <1>7, <1>8, <1>9, <1>10 DEF StateInv, Fields
<1>12. \A l \in 0..(layers - 1), p \in 0..(Len(tokens) - 1) :
         Row(d, l, p) = Project(l, Hidden(tokens)[l][p], p)
  BY <1>4, <1>6, <1>7
<1> QED BY <1>1, <1>7, <1>8, <1>9, <1>11, <1>12

\* A prefill that succeeds leaves the rows of its tokens, whatever the cache
\* held before.
LEMMA PrefilledInv ==
  ASSUME NEW c, StateInv(c), c.live, NEW tokens, Acceptable(tokens),
         tokens \in Seq(Token), Len(tokens) <= c.capacity
  PROVE  StateInv(Prefilled(c, tokens))
<1>0. NumLayers \in Nat /\ Len(tokens) \in Nat /\ NumLayers \in 0..NumLayers
  BY LayoutAssumption DEF LayoutAssumption
<1> DEFINE e == Refilled(c, tokens, NumLayers)
           d == Prefilled(c, tokens)
<1>1. /\ StateInv(e) /\ Stored(e) /\ e.live
      /\ \A f \in Fields \ {"mem", "len", "logits", "consumed"} : e[f] = c[f]
      /\ \A l \in 0..(NumLayers - 1), p \in 0..(Len(tokens) - 1) :
           Row(e, l, p) = Project(l, Hidden(tokens)[l][p], p)
  BY <1>0, RefilledInv
<1>2. d = [e EXCEPT !.len = Len(tokens), !.logits = FreshLogits(tokens),
                    !.consumed = tokens]
  BY DEF Prefilled
<1> HIDE DEF e, d
<1>3. /\ DOMAIN d = DOMAIN e
      /\ \A f \in Fields \ {"len", "logits", "consumed"} : d[f] = e[f]
      /\ d.len = Len(tokens) /\ d.logits = FreshLogits(tokens)
      /\ d.consumed = tokens
  BY <1>1, <1>2 DEF StateInv, Fields
<1>4. Stored(d)
  BY <1>1, <1>3 DEF Stored, Fields
<1>5. \A l, p : Row(d, l, p) = Row(e, l, p)
  BY <1>3 DEF Row, Offset, Fields
<1>6. Exact(d)
  BY <1>1, <1>3, <1>5 DEF Exact, Layers
<1>7. d.capacity = c.capacity /\ d.live
  BY <1>1, <1>3 DEF Fields
<1>8. StateInv(d)
  BY <1>0, <1>1, <1>3, <1>4, <1>6, <1>7 DEF StateInv, Fields
<1> QED BY <1>8 DEF d

\* A decode that stops before its end has written where nothing is read yet:
\* to a later call the cache is what it was.
LEMMA ExtendedInv ==
  ASSUME NEW c, StateInv(c), c.live, NEW token, c.len + 1 <= c.capacity,
         NEW layers \in 0..NumLayers
  PROVE  LET d == Extended(c, token, layers) IN
         /\ StateInv(d) /\ Visible(d) = Visible(c)
         /\ \A f \in Fields \ {"mem"} : d[f] = c[f]
         /\ \A l \in Layers, p \in 0..(c.len - 1) : Row(d, l, p) = Row(c, l, p)
         /\ \A l \in 0..(layers - 1) :
              Row(d, l, c.len) = Project(l, Incremental(c, token)[l], c.len)
<1>0. NumLayers \in Nat /\ Stored(c) /\ Exact(c) /\ Fields \subseteq DOMAIN c
      /\ c.len \in Nat /\ c.capacity \in Nat
  BY LayoutAssumption DEF LayoutAssumption, StateInv
<1> DEFINE inc == Incremental(c, token)
           rows == [x \in (0..(layers - 1)) \X {c.len} |->
                      Project(x[1], inc[x[1]], c.len)]
           d == Write(c, rows)
<1>1. Extended(c, token, layers) = d
  BY DEF Extended
<1>2. /\ 0..(layers - 1) \subseteq Layers
      /\ c.len \in 0..(c.capacity - 1)
      /\ 0..(c.len - 1) \subseteq 0..(c.capacity - 1)
  BY <1>0 DEF Layers
<1>3. /\ DOMAIN rows \subseteq Layers \X (0..(c.capacity - 1))
      /\ \A l, p : <<l, p>> \in DOMAIN rows <=> l \in 0..(layers - 1) /\ p = c.len
      /\ \A l \in 0..(layers - 1) :
           rows[<<l, c.len>>] = Project(l, inc[l], c.len)
  BY <1>2
<1> HIDE DEF rows, inc
<1>4. /\ DOMAIN d = DOMAIN c
      /\ \A f \in Fields \ {"mem"} : d[f] = c[f]
      /\ Stored(d)
      /\ \A l \in Layers, p \in 0..(c.capacity - 1) :
           Row(d, l, p) = IF <<l, p>> \in DOMAIN rows THEN rows[<<l, p>>]
                          ELSE Row(c, l, p)
  BY <1>0, <1>3, WriteRows
<1> HIDE DEF d
<1>5. \A l \in Layers, p \in 0..(c.len - 1) : Row(d, l, p) = Row(c, l, p)
  <2> SUFFICES ASSUME NEW l \in Layers, NEW p \in 0..(c.len - 1)
               PROVE  Row(d, l, p) = Row(c, l, p)
    OBVIOUS
  <2>1. p # c.len /\ p \in 0..(c.capacity - 1)
    BY <1>0, <1>2
  <2> QED BY <1>3, <1>4, <2>1
<1>6. \A l \in 0..(layers - 1) :
        Row(d, l, c.len) = Project(l, inc[l], c.len)
  BY <1>2, <1>3, <1>4
<1>7. Exact(d)
  BY <1>0, <1>4, <1>5 DEF Exact, Fields
<1>8. StateInv(d)
  BY <1>4, <1>7 DEF StateInv, Fields
<1>9. Visible(d) = Visible(c)
  <2>1. [x \in Layers \X (0..(c.len - 1)) |-> Row(d, x[1], x[2])]
          = [x \in Layers \X (0..(c.len - 1)) |-> Row(c, x[1], x[2])]
    BY <1>5
  <2>2. /\ d.kind = c.kind /\ d.live = c.live /\ d.table = c.table
        /\ d.logits = c.logits /\ d.len = c.len
    BY <1>4 DEF Fields
  <2> QED BY <2>1, <2>2 DEF Visible
<1> QED BY <1>1, <1>4, <1>5, <1>6, <1>8, <1>9 DEF inc

\* A decode that succeeds leaves the rows and logits of the longer text.
LEMMA DecodedInv ==
  ASSUME NEW c, StateInv(c), c.live, NEW token \in Token, c.len + 1 <= c.capacity
  PROVE  StateInv(Decoded(c, token))
<1>0. NumLayers \in Nat \ {0} /\ Exact(c) /\ Fields \subseteq DOMAIN c
      /\ c.len \in Nat /\ c.capacity \in Nat
      /\ c.consumed \in Seq(Token) /\ c.len = Len(c.consumed)
  BY LayoutAssumption DEF LayoutAssumption, StateInv, Exact
<1> DEFINE e == Extended(c, token, NumLayers)
           d == Decoded(c, token)
           text == Append(c.consumed, token)
<1>1. NumLayers \in 0..NumLayers /\ 0..(NumLayers - 1) = Layers
  BY <1>0 DEF Layers
<1>2. /\ StateInv(e)
      /\ \A f \in Fields \ {"mem"} : e[f] = c[f]
      /\ \A l \in Layers, p \in 0..(c.len - 1) : Row(e, l, p) = Row(c, l, p)
      /\ \A l \in Layers :
           Row(e, l, c.len) = Project(l, Incremental(c, token)[l], c.len)
  BY <1>1, ExtendedInv, ZenonT(40)
<1>3. d = [e EXCEPT !.len = e.len + 1,
                    !.logits = Logits(Incremental(c, token)[NumLayers]),
                    !.consumed = Append(e.consumed, token)]
  BY DEF Decoded
<1>4. e.len = c.len /\ e.consumed = c.consumed /\ e.live /\ e.capacity = c.capacity
  BY <1>2 DEF Fields
<1> HIDE DEF e, d
<1>5. /\ DOMAIN d = DOMAIN e
      /\ \A f \in Fields \ {"len", "logits", "consumed"} : d[f] = e[f]
      /\ d.len = c.len + 1 /\ d.consumed = text
      /\ d.logits = Logits(Incremental(c, token)[NumLayers])
  BY <1>2, <1>3, <1>4 DEF StateInv, Fields
<1>6. /\ text \in Seq(Token) /\ Len(text) = c.len + 1
      /\ \A i \in 1..Len(c.consumed) : c.consumed[i] = text[i]
  BY <1>0
<1> HIDE DEF text
<1>7. \A l \in 0..NumLayers : Incremental(c, token)[l] = Hidden(text)[l][c.len]
  <2>1. \A l \in Layers, p \in 0..(Len(c.consumed) - 1) :
          Row(c, l, p) = Project(l, Hidden(c.consumed)[l][p], p)
    BY <1>0 DEF Exact
  <2>2. \A l \in 0..NumLayers :
          Incremental(c, token)[l]
            = Hidden(Append(c.consumed, token))[l][Len(c.consumed)]
    BY <1>0, <2>1, IncrementalExact
  <2> QED BY <1>0, <2>2 DEF text
<1>8. \A l \in 0..NumLayers, p \in 0..(c.len - 1) :
        Hidden(text)[l][p] = Hidden(c.consumed)[l][p]
  <2>1. Len(text) \in Nat /\ Len(c.consumed) <= Len(text)
    BY <1>0, <1>6
  <2>2. Len(c.consumed) \in Nat
    BY <1>0
  <2>3. \A l \in 0..NumLayers, p \in 0..(Len(c.consumed) - 1) :
          Hidden(text)[l][p] = Hidden(c.consumed)[l][p]
    <3> DEFINE s == c.consumed
    <3>1. /\ Len(s) \in Nat /\ Len(text) \in Nat /\ Len(s) <= Len(text)
          /\ \A i \in 1..Len(s) : s[i] = text[i]
      BY <1>6, <2>1, <2>2
    <3> HIDE DEF s
    <3>2. \A l \in 0..NumLayers, p \in 0..(Len(s) - 1) :
            Hidden(text)[l][p] = Hidden(s)[l][p]
      BY ONLY <3>1, HiddenOfPrefix, SMTT(20)
    <3> QED BY <3>2 DEF s
  <2> QED BY <1>0, <2>3
<1>9. \A l, p : Row(d, l, p) = Row(e, l, p)
  BY <1>5 DEF Row, Offset, Fields
<1>10. \A l \in Layers, p \in 0..c.len :
         Row(d, l, p) = Project(l, Hidden(text)[l][p], p)
  <2> SUFFICES ASSUME NEW l \in Layers, NEW p \in 0..c.len
               PROVE  Row(d, l, p) = Project(l, Hidden(text)[l][p], p)
    OBVIOUS
  <2>1. l \in 0..NumLayers
    BY <1>0 DEF Layers
  <2>2. CASE p = c.len
    BY <1>2, <1>7, <1>9, <2>1, <2>2
  <2>3. CASE p \in 0..(c.len - 1)
    BY <1>0, <1>2, <1>8, <1>9, <2>1, <2>3 DEF Exact
  <2> QED BY <1>0, <2>2, <2>3
<1>11. d.logits = FreshLogits(text)
  BY <1>0, <1>1, <1>5, <1>6, <1>7 DEF FreshLogits
<1>12. Exact(d)
  <2>1. 0..(d.len - 1) = 0..c.len
    BY <1>0, <1>5
  <2> QED BY <1>5, <1>6, <1>10, <1>11, <2>1 DEF Exact
<1>13. Stored(d)
  BY <1>2, <1>4, <1>5 DEF Stored, StateInv, Fields
<1>14. d.live /\ d.capacity = c.capacity /\ d.len \in 0..c.capacity
  BY <1>0, <1>4, <1>5 DEF Fields
<1>15. StateInv(d)
  BY <1>2, <1>5, <1>6, <1>12, <1>13, <1>14 DEF StateInv, Fields
<1> QED BY <1>15 DEF d

\* Releasing a state, once or again, leaves one that holds nothing.
LEMMA ReleasedInv ==
  ASSUME NEW c, StateInv(c)
  PROVE  StateInv(Released(c))
<1> DEFINE d == Released(c)
<1>1. Fields \subseteq DOMAIN c /\ c.capacity \in Nat
      /\ c.kind \in {"Absent", "Contiguous", "Paged"}
  BY DEF StateInv
<1>2. /\ DOMAIN d = DOMAIN c /\ d.live = FALSE /\ d.table = <<>> /\ d.len = 0
      /\ d.logits = NoLogits /\ d.consumed = <<>>
      /\ d.kind = c.kind /\ d.capacity = c.capacity
  BY <1>1 DEF Released, Fields
<1> HIDE DEF d
<1>3. <<>> \in Seq(Token) /\ 0 \in 0..c.capacity
  BY <1>1
<1> QED BY <1>1, <1>2, <1>3 DEF StateInv, d

-----------------------------------------------------------------------------
(***************************************************************************)
(* Every call keeps every request's cache exact.                           *)
(***************************************************************************)
CacheInv ==
  /\ DOMAIN cache = Handles
  /\ \A h \in Handles : StateInv(cache[h])

\* greedy_sample answers with a token of the vocabulary, so that decode takes one.
LEMMA NextToken ==
  ASSUME SamplesTokens, NEW c, StateInv(c), c.logits # NoLogits
  PROVE  /\ c.live
         /\ Sample(c.logits) = Uncached(c.consumed)
         /\ Sample(c.logits) \in Token
<1>1. c.live /\ Exact(c)
  BY DEF StateInv
<1>2. c.logits = FreshLogits(c.consumed)
  BY <1>1 DEF Exact
<1> QED BY <1>1, <1>2 DEF SamplesTokens, Uncached, FreshLogits

\* Acceptable tokens are a text.
LEMMA TextOf ==
  ASSUME NEW tokens \in Prompts, Acceptable(tokens)
  PROVE  tokens \in Seq(Token) /\ Len(tokens) \in Nat
BY CacheAssumption DEF CacheAssumption, Acceptable

\* Putting a state that satisfies the invariant under a handle.
LEMMA CacheInvOne ==
  ASSUME CacheInv, NEW h \in Handles, NEW d, StateInv(d),
         cache' = [cache EXCEPT ![h] = d]
  PROVE  CacheInv' /\ cache'[h] = d
           /\ \A g \in Handles \ {h} : cache'[g] = cache[g]
BY DEF CacheInv

\* Every call keeps every request's cache exact.
LEMMA CacheStep ==
  ASSUME SamplesTokens, Shape, CacheInv, [Next]_vars
  PROVE  CacheInv'
<1>1. CASE UNCHANGED cache
  BY <1>1 DEF CacheInv
<1>2. ASSUME NEW h \in Handles, NEW tokens \in Prompts,
             PrepareContiguous(h, tokens)
      PROVE  CacheInv'
  <2> DEFINE c == NewCache("Contiguous", <<>>, ContextLength)
  <2>1. CASE Acceptable(tokens)
    <3>1. tokens \in Seq(Token) /\ Len(tokens) <= ContextLength
      BY <2>1, TextOf DEF Acceptable
    <3>2. StateInv(c) /\ c.live /\ c.capacity = ContextLength
      BY CacheAssumption, NewCacheInv DEF CacheAssumption
    <3> HIDE DEF c
    <3>3. StateInv(Prefilled(c, tokens))
      BY <2>1, <3>1, <3>2, PrefilledInv
    <3> QED BY <1>1, <1>2, <3>3, CacheInvOne DEF PrepareContiguous, c
  <2> QED BY <1>1, <1>2, <2>1 DEF PrepareContiguous
<1>3. ASSUME NEW h \in Handles, NEW tokens \in Prompts, NEW capacity \in Capacities,
             PreparePaged(h, tokens, capacity)
      PROVE  CacheInv'
  <2>1. CASE UNCHANGED cache
    BY <1>1, <2>1
  <2>2. CASE ~UNCHANGED cache
    <3>1. PICK table \in Front(RequiredPages(capacity)) :
            /\ ValidPageTable(table, capacity) /\ Acceptable(tokens)
            /\ cache' = [cache EXCEPT ![h] =
                 Prefilled(NewCache("Paged", table, capacity), tokens)]
      BY <1>3, <2>2 DEF PreparePaged
    <3> DEFINE c == NewCache("Paged", table, capacity)
    <3>2. tokens \in Seq(Token) /\ Len(tokens) <= capacity /\ capacity \in Nat
      BY <1>3, <3>1, TextOf, CacheAssumption DEF PreparePaged, CacheAssumption
    <3>3. Len(table) \in Nat
      BY <3>1, <3>2, FrontTable DEF Table
    <3>4. StateInv(c) /\ c.live /\ c.capacity = capacity
      BY <3>1, <3>2, <3>3, NewCacheInv
    <3> HIDE DEF c
    <3>5. StateInv(Prefilled(c, tokens))
      BY <3>1, <3>2, <3>4, PrefilledInv
    <3> QED BY <3>1, <3>5, CacheInvOne DEF c
  <2> QED BY <2>1, <2>2
<1>4. ASSUME NEW h \in Handles, Decode(h)
      PROVE  CacheInv'
  <2> DEFINE c == cache[h]
             token == Sample(c.logits)
  <2>1. CASE UNCHANGED cache
    BY <1>1, <2>1
  <2>2. CASE ~UNCHANGED cache
    <3>1. /\ c.logits # NoLogits /\ c.len + 1 <= c.capacity
          /\ \/ cache' = [cache EXCEPT ![h] = Decoded(c, token)]
             \/ \E layers \in 0..NumLayers :
                  cache' = [cache EXCEPT ![h] = Extended(c, token, layers)]
      BY <1>4, <2>2 DEF Decode
    <3>2. StateInv(c)
      BY DEF CacheInv
    <3> HIDE DEF c
    <3>3. c.live /\ token \in Token
      BY <3>1, <3>2, NextToken
    <3> HIDE DEF token
    <3>4. CASE cache' = [cache EXCEPT ![h] = Decoded(c, token)]
      BY <3>1, <3>2, <3>3, <3>4, DecodedInv, CacheInvOne
    <3>5. ASSUME NEW layers \in 0..NumLayers,
                 cache' = [cache EXCEPT ![h] = Extended(c, token, layers)]
          PROVE  CacheInv'
      <4>1. StateInv(Extended(c, token, layers))
        BY <3>1, <3>2, <3>3, ExtendedInv
      <4> QED BY <3>5, <4>1, CacheInvOne
    <3> QED BY <3>1, <3>4, <3>5
  <2> QED BY <2>1, <2>2
<1>5. ASSUME NEW h \in Handles, NEW tokens \in Prompts, Refill(h, tokens)
      PROVE  CacheInv'
  <2> DEFINE c == cache[h]
  <2>0. StateInv(c) /\ c.live /\ Len(tokens) \in Nat
    BY <1>5, CacheAssumption DEF CacheInv, Refill, Live, CacheAssumption
  <2>1. CASE UNCHANGED cache
    BY <1>1, <2>1
  <2>2. ASSUME NEW layers \in 0..NumLayers, Len(tokens) <= c.capacity,
               cache' = [cache EXCEPT ![h] = Refilled(c, tokens, layers)]
        PROVE  CacheInv'
    <3> HIDE DEF c
    <3>1. StateInv(Refilled(c, tokens, layers))
      BY <2>0, <2>2, RefilledInv
    <3> QED BY <2>2, <3>1, CacheInvOne
  <2>3. CASE /\ Acceptable(tokens) /\ Len(tokens) <= c.capacity
             /\ cache' = [cache EXCEPT ![h] = Prefilled(c, tokens)]
    <3> HIDE DEF c
    <3>1. StateInv(Prefilled(c, tokens))
      BY <2>0, <2>3, TextOf, PrefilledInv
    <3> QED BY <2>3, <3>1, CacheInvOne
  <2>4. 0 \in 0..NumLayers
    BY LayoutAssumption DEF LayoutAssumption
  <2> QED BY <1>5, <2>1, <2>2, <2>3, <2>4 DEF Refill
<1>6. ASSUME NEW h \in Handles, Release(h)
      PROVE  CacheInv'
  <2>1. StateInv(Released(cache[h]))
    BY ReleasedInv DEF CacheInv
  <2> QED BY <1>6, <2>1, CacheInvOne DEF Release
<1>7. ASSUME NEW h \in Handles, Drop(h)
      PROVE  CacheInv'
  BY <1>7, NoStateInv, CacheInvOne DEF Drop
<1> QED BY <1>1, <1>2, <1>3, <1>4, <1>5, <1>6, <1>7
        DEF Next, vars, RefusePaged

\* What a call answers, and where pages may be lost
ReplyInv ==
  /\ lost \subseteq Pages
  /\ reply.call \in {"none", "prepare", "decode", "refill", "release", "drop"}
  /\ reply.on \in Handles \cup {None}
  /\ reply.outcome \in Errors \cup {"Ok"}
  /\ reply.token \in Token \cup {None}

\* A token is what greedy_sample makes of the logits of the handle it was
\* decoded on.
LEMMA TokenSampled ==
  ASSUME SamplesTokens, CacheInv, Next, reply'.token # None
  PROVE  /\ reply'.on \in Handles
         /\ reply'.token = Uncached(cache[reply'.on].consumed)
         /\ reply'.token \in Token
<1>1. PICK h \in Handles : Decode(h)
  BY DEF Next, PrepareContiguous, RefusePaged, PreparePaged, Refill, Release,
         Drop, Answer
<1> DEFINE c == cache[h]
<1>2. /\ reply'.on = h /\ c.logits # NoLogits
      /\ reply'.token = Sample(c.logits)
  BY <1>1 DEF Decode, Answer, AnswerToken
<1>3. StateInv(c)
  BY DEF CacheInv
<1> HIDE DEF c
<1>4. Sample(c.logits) = Uncached(c.consumed) /\ Sample(c.logits) \in Token
  BY <1>2, <1>3, NextToken
<1> QED BY <1>2, <1>4 DEF c

\* Every call answers in one of these ways.
LEMMA ReplyStep ==
  ASSUME SamplesTokens, CacheInv, ReplyInv, [Next]_vars
  PROVE  ReplyInv'
<1>1. CASE UNCHANGED vars
  BY <1>1 DEF ReplyInv, vars
<1>2. CASE Next
  <2>1. lost' \subseteq Pages
    BY <1>2 DEF ReplyInv, Next, PrepareContiguous, RefusePaged, PreparePaged,
               Decode, Refill, Release, Drop
  <2>2. /\ reply'.call \in {"none", "prepare", "decode", "refill", "release", "drop"}
        /\ reply'.on \in Handles
        /\ reply'.outcome \in Errors \cup {"Ok"}
    BY <1>2 DEF Next, PrepareContiguous, RefusePaged, PreparePaged, Decode,
               Refill, Release, Drop, Answer, AnswerToken, Errors
  <2>3. reply'.token # None => reply'.token \in Token
    BY <1>2, TokenSampled
  <2> QED BY <2>1, <2>2, <2>3 DEF ReplyInv
<1> QED BY <1>1, <1>2

\* The inductive invariant: pages in one place, caches exact, replies typed.
LEMMA InvAlways ==
  ASSUME SamplesTokens
  PROVE  Spec => [](PageInv /\ CacheInv /\ ReplyInv)
<1>1. Init => CacheInv /\ ReplyInv
  BY NoStateInv DEF Init, CacheInv, ReplyInv
<1>2. PageInv /\ CacheInv /\ ReplyInv /\ [Next]_vars => CacheInv' /\ ReplyInv'
  BY CacheStep, ReplyStep DEF PageInv
<1>3. Spec => []PageInv
  BY PageInvAlways
<1> QED BY <1>1, <1>2, <1>3, PTL DEF Spec

\* In every layer a cache has the rows of the tokens it has consumed, and its
\* logits are theirs: what CacheExact says of write_layer_kv and read_layer_kv
\* in prefill_with_cache and decode_token_with_cache, for every model, prompt,
\* capacity and page size, and wherever earlier calls failed.
THEOREM CacheExactAlways ==
  ASSUME SamplesTokens
  PROVE  Spec => []CacheExact
<1>1. PageInv /\ CacheInv /\ ReplyInv => CacheExact
  <2> SUFFICES ASSUME PageInv, CacheInv, ReplyInv PROVE CacheExact
    OBVIOUS
  <2>1. ASSUME NEW h \in Handles
        PROVE  LET c == cache[h] IN
               /\ c.kind \in {"Absent", "Contiguous", "Paged"}
               /\ c.live \in BOOLEAN
               /\ c.len \in 0..c.capacity
               /\ c.consumed \in Seq(Token)
               /\ c.live /\ c.kind = "Paged" => ValidPageTable(c.table, c.capacity)
               /\ ~c.live \/ c.kind = "Contiguous" => c.table = <<>>
               /\ ~c.live => c.logits = NoLogits /\ c.len = 0
               /\ c.live => \A l \in Layers, p \in 0..(c.capacity - 1) :
                              Offset(c, l, p) \in DOMAIN c.mem
    <3>1. StateInv(cache[h])
      BY DEF CacheInv
    <3>2. ASSUME cache[h].live, NEW l \in Layers, NEW p \in 0..(cache[h].capacity - 1)
          PROVE  Offset(cache[h], l, p) \in DOMAIN cache[h].mem
      <4>1. Stored(cache[h])
        BY <3>1, <3>2 DEF StateInv
      <4> QED BY <4>1, RowsApart
    <3> QED BY <3>1, <3>2 DEF StateInv, Stored
  <2>2. TypeOK
    BY <2>1 DEF TypeOK, PageInv, Shape, ReplyInv
  <2>3. \A h \in Handles : Live(h) => Exact(cache[h])
    BY DEF CacheInv, StateInv, Live
  <2> QED BY <2>2, <2>3 DEF CacheExact, Exact
<1>2. Spec => [](PageInv /\ CacheInv /\ ReplyInv)
  BY InvAlways
<1> QED BY <1>1, <1>2, PTL

\* A token decoded with a cache is the one decode_one_token, which keeps none,
\* gives for the same tokens: for every model, whatever failed before.
THEOREM DecodesAsUncachedAlways ==
  ASSUME SamplesTokens
  PROVE  Spec => DecodesAsUncached
<1> DEFINE A == reply'.token # None
                => LET tokens == cache[reply'.on].consumed
                   IN  Acceptable(tokens) => reply'.token = Uncached(tokens)
<1>1. CacheInv /\ Next => A
  BY TokenSampled
<1>2. Spec => []CacheInv
  BY InvAlways, PTL
<1> HIDE DEF A
<1>3. Spec => [][A]_vars
  BY <1>1, <1>2, PTL DEF Spec
<1> QED BY <1>3 DEF DecodesAsUncached, A

\* A failed call, whichever layer it reached, leaves the pool and what later
\* calls can see of every request as they were: allocate puts a rejected table
\* back, and a decode has written only beyond len_tokens.
THEOREM FailureLeavesNoTraceAlways ==
  ASSUME SamplesTokens
  PROVE  Spec => FailureLeavesNoTrace
<1> DEFINE A == reply'.outcome \in Errors /\ reply'.call # "refill"
                => /\ UNCHANGED <<free, lost>>
                   /\ \A h \in Handles : Visible(cache'[h]) = Visible(cache[h])
<1>1. ASSUME PageInv, CacheInv, Next, reply'.outcome \in Errors,
             reply'.call # "refill"
      PROVE  /\ UNCHANGED <<free, lost>>
             /\ \A h \in Handles : Visible(cache'[h]) = Visible(cache[h])
  <2>1. CASE UNCHANGED <<free, cache, lost>>
    BY <2>1
  <2>2. ASSUME NEW h \in Handles, Decode(h), ~UNCHANGED cache
        PROVE  /\ UNCHANGED <<free, lost>>
               /\ \A g \in Handles : Visible(cache'[g]) = Visible(cache[g])
    <3> DEFINE c == cache[h]
    <3>1. PICK layers \in 0..NumLayers :
            /\ c.logits # NoLogits /\ c.len + 1 <= c.capacity
            /\ cache' = [cache EXCEPT ![h] = Extended(c, Sample(c.logits), layers)]
      BY <1>1, <2>2 DEF Decode, AnswerToken, Errors
    <3>2. StateInv(c)
      BY <1>1 DEF CacheInv
    <3> HIDE DEF c
    <3>3. c.live
      BY <3>1, <3>2, NextToken
    <3>4. LET d == Extended(c, Sample(c.logits), layers)
          IN  StateInv(d) /\ Visible(d) = Visible(c)
      BY <3>1, <3>2, <3>3, ExtendedInv
    <3>5. /\ cache'[h] = Extended(c, Sample(c.logits), layers)
          /\ \A g \in Handles \ {h} : cache'[g] = cache[g]
      BY <1>1, <3>1, <3>4, CacheInvOne
    <3>6. UNCHANGED <<free, lost>>
      BY <2>2 DEF Decode
    <3> QED BY <3>4, <3>5, <3>6 DEF c
  <2>3. ASSUME NEW h \in Handles, NEW tokens \in Prompts, NEW capacity \in Capacities,
               PreparePaged(h, tokens, capacity)
        PROVE  UNCHANGED <<free, cache, lost>>
    <3>1. PICK table \in Front(RequiredPages(capacity)) :
            /\ ValidPageTable(table, capacity)
            /\ free' = Returned(Taken(free, table), table)
            /\ UNCHANGED <<cache, lost>>
      BY <1>1, <2>3 DEF PreparePaged, Answer, Errors
    <3>2. free' = free
      BY <1>1, <3>1, FrontTable, PutBack, CacheAssumption
         DEF PageInv, CacheAssumption
    <3> QED BY <3>1, <3>2
  <2>4. ASSUME NEW h \in Handles, NEW tokens \in Prompts,
               PrepareContiguous(h, tokens)
        PROVE  UNCHANGED <<free, cache, lost>>
    BY <1>1, <2>4 DEF PrepareContiguous, Answer, Errors
  <2>5. \A h \in Handles : ~Release(h) /\ ~Drop(h) /\ \A tokens : ~Refill(h, tokens)
    BY <1>1 DEF Release, Drop, Refill, Answer, Errors
  <2>6. ASSUME NEW h \in Handles, Decode(h), UNCHANGED cache
        PROVE  UNCHANGED <<free, cache, lost>>
    BY <2>6 DEF Decode
  <2> QED BY <1>1, <2>1, <2>2, <2>3, <2>4, <2>5, <2>6 DEF Next, RefusePaged
<1>2. PageInv /\ CacheInv /\ Next => A
  BY <1>1
<1>3. Spec => [](PageInv /\ CacheInv)
  BY InvAlways, PTL
<1> HIDE DEF A
<1>4. Spec => [][A]_vars
  BY <1>2, <1>3, PTL DEF Spec
<1> QED BY <1>4 DEF FailureLeavesNoTrace, A
=============================================================================
