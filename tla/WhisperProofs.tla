---------------------------- MODULE WhisperProofs ----------------------------
(***************************************************************************)
(* Whisper's decoder, for every model, prompt, audio and context length:   *)
(* appending a token to a decoder state gives what a pass over all its     *)
(* tokens would, clones and failures included; and the transcription loop  *)
(* built on it implements greedy decoding.                                 *)
(***************************************************************************)
EXTENDS WhisperDecode, WhisperTranscription, WellFoundedInduction,
        SequenceTheorems, TLAPS

-----------------------------------------------------------------------------
(***************************************************************************)
(* The forward pass, layer by layer.                                       *)
(***************************************************************************)

\* A set of natural numbers has a least element: what an argument by the
\* first layer at which something fails rests on.
LEMMA LeastNat ==
  ASSUME NEW T, T \subseteq Nat, T # {}
  PROVE  \E m \in T : \A k \in T : m <= k
<1>1. PICK m \in T : \A k \in T : <<k, m>> \notin OpToRel(<, Nat)
  BY NatLessThanWellFounded, WFMin
<1>2. \A k \in T : ~(k < m)
  BY <1>1 DEF OpToRel
<1> QED BY <1>2

\* What holds at 0, and at k + 1 if it does at k, holds up to n: induction on
\* layers, for the set of those at which something is true.
LEMMA Climb ==
  ASSUME NEW S, NEW n \in Nat, 0 \in S,
         \A k \in 0..(n - 1) : k \in S => k + 1 \in S
  PROVE  \A k \in 0..n : k \in S
<1> DEFINE T == {k \in 0..n : k \notin S}
<1>1. T \subseteq Nat
  OBVIOUS
<1>2. ASSUME NEW m \in T, \A k \in T : m <= k
      PROVE  FALSE
  <2>1. m \in 1..n /\ m \notin S
    OBVIOUS
  <2>2. m - 1 \in 0..(n - 1) /\ m - 1 \notin T
    BY <1>2, <2>1
  <2>3. m - 1 \in S
    BY <2>2
  <2>4. m - 1 + 1 \in S
    BY <2>2, <2>3
  <2> QED BY <2>1, <2>4
<1> HIDE DEF T
<1>3. T = {}
  BY <1>1, <1>2, LeastNat
<1> QED BY <1>3 DEF T

\* The embeddings, what a layer makes of the states below it, and the
\* equation of the whole pass
Embeddings(text) == [p \in 0..(Len(text) - 1) |-> Embed(text[p + 1], p)]
Above(audio, text, l, below) ==
  [p \in 0..(Len(text) - 1) |->
     Layer(l, audio, below[p], [q \in 0..p |-> Project(l, below[q])])]
Pass(audio, text, hidden, n) ==
  [l \in 0..n |-> IF l = 0 THEN Embeddings(text)
                  ELSE Above(audio, text, l - 1, hidden[l - 1])]

\* There are hidden states that satisfy the equation, so Hidden does.
LEMMA HiddenLayers ==
  ASSUME NEW audio, NEW text
  PROVE  Hidden(audio, text) = Pass(audio, text, Hidden(audio, text), NumLayers)
<1>0. NumLayers \in Nat
  BY ForwardAssumption DEF ForwardAssumption
<1> DEFINE Some(n) == \E h : h = Pass(audio, text, h, n)
           S == {n \in Nat : Some(n)}
<1>1. Some(0)
  <2> DEFINE h == [l \in 0..0 |-> Embeddings(text)]
  <2>1. h = Pass(audio, text, h, 0)
    BY DEF Pass
  <2> QED BY <2>1
<1>2. ASSUME NEW n \in Nat, Some(n)
      PROVE  Some(n + 1)
  <2>1. PICK g : g = Pass(audio, text, g, n)
    BY <1>2
  <2> DEFINE h == [l \in 0..(n + 1) |->
                     IF l = 0 THEN Embeddings(text)
                     ELSE Above(audio, text, l - 1, g[l - 1])]
  <2>2. \A l \in 0..n : h[l] = g[l]
    BY <2>1 DEF Pass
  <2>3. \A l \in 0..(n + 1) : l # 0 => h[l - 1] = g[l - 1]
    <3> HIDE DEF h
    <3>1. \A l \in 0..(n + 1) : l # 0 => l - 1 \in 0..n
      OBVIOUS
    <3> QED BY <2>2, <3>1
  <2>4. h = Pass(audio, text, h, n + 1)
    BY <2>3 DEF Pass
  <2> QED BY <2>4
<1> HIDE DEF Some
<1>3. Some(NumLayers)
  <2>1. 0 \in S /\ \A n \in 0..(NumLayers - 1) : n \in S => n + 1 \in S
    BY <1>0, <1>1, <1>2
  <2> HIDE DEF S
  <2>2. NumLayers \in S
    BY <1>0, <2>1, Climb
  <2> QED BY <2>2 DEF S
<1> DEFINE hidden == CHOOSE h : h = Pass(audio, text, h, NumLayers)
<1>4. hidden = Pass(audio, text, hidden, NumLayers)
  BY <1>3 DEF Some
<1>5. Hidden(audio, text) = hidden
  BY DEF Hidden, Pass, Embeddings, Above
<1> QED BY <1>4, <1>5

\* Some text and the same text with a token appended
Extends(s, t, token) ==
  /\ Len(s) \in Nat
  /\ Len(t) = Len(s) + 1
  /\ \A i \in 1..Len(s) : t[i] = s[i]
  /\ t[Len(s) + 1] = token

\* The hidden states at a position are those of the longer text too: attention
\* is causal.
LEMMA HiddenOfPrefix ==
  ASSUME NEW audio, NEW s, NEW t, NEW token, Extends(s, t, token)
  PROVE  \A l \in 0..NumLayers, p \in 0..(Len(s) - 1) :
           Hidden(audio, t)[l][p] = Hidden(audio, s)[l][p]
<1>0. NumLayers \in Nat
  BY ForwardAssumption DEF ForwardAssumption
<1> DEFINE Agree(l) == \A p \in 0..(Len(s) - 1) :
                         Hidden(audio, t)[l][p] = Hidden(audio, s)[l][p]
           S == {l \in 0..NumLayers : Agree(l)}
<1>1. Agree(0)
  <2>1. /\ Hidden(audio, s)[0] = Embeddings(s)
        /\ Hidden(audio, t)[0] = Embeddings(t)
    BY <1>0, HiddenLayers DEF Pass
  <2> QED BY <2>1 DEF Embeddings, Extends
<1>2. ASSUME NEW l \in 0..NumLayers, l # 0, Agree(l - 1)
      PROVE  Agree(l)
  <2>1. /\ Hidden(audio, s)[l] = Above(audio, s, l - 1, Hidden(audio, s)[l - 1])
        /\ Hidden(audio, t)[l] = Above(audio, t, l - 1, Hidden(audio, t)[l - 1])
    BY <1>0, <1>2, HiddenLayers DEF Pass
  <2> SUFFICES ASSUME NEW p \in 0..(Len(s) - 1)
               PROVE  Hidden(audio, t)[l][p] = Hidden(audio, s)[l][p]
    OBVIOUS
  <2> DEFINE a == Hidden(audio, s)[l - 1]
             b == Hidden(audio, t)[l - 1]
  <2>2. b[p] = a[p] /\ \A q \in 0..p : b[q] = a[q]
    BY <1>2 DEF Extends
  <2>3. p \in 0..(Len(t) - 1)
    BY DEF Extends
  <2> HIDE DEF a, b
  <2>4. [q \in 0..p |-> Project(l - 1, b[q])]
          = [q \in 0..p |-> Project(l - 1, a[q])]
    BY <2>2
  <2>5. Hidden(audio, s)[l][p]
          = Layer(l - 1, audio, a[p], [q \in 0..p |-> Project(l - 1, a[q])])
    BY <2>1 DEF Above, a
  <2>6. Hidden(audio, t)[l][p]
          = Layer(l - 1, audio, b[p], [q \in 0..p |-> Project(l - 1, b[q])])
    BY <2>1, <2>3 DEF Above, b
  <2> QED BY <2>2, <2>4, <2>5, <2>6
<1> HIDE DEF Agree
<1>3. \A l \in 0..NumLayers : l \in S
  <2>1. 0 \in S /\ \A l \in 0..(NumLayers - 1) : l \in S => l + 1 \in S
    <3>1. 0 \in S
      BY <1>0, <1>1
    <3>2. ASSUME NEW l \in 0..(NumLayers - 1), Agree(l)
          PROVE  Agree(l + 1)
      <4>1. l + 1 \in 0..NumLayers /\ l + 1 # 0 /\ l + 1 - 1 = l
        BY <1>0
      <4> QED BY <1>2, <3>2, <4>1
    <3>3. \A l \in 0..(NumLayers - 1) : l + 1 \in 0..NumLayers
      BY <1>0
    <3> QED BY <3>1, <3>2, <3>3
  <2> HIDE DEF S
  <2> QED BY <1>0, <2>1, Climb
<1> QED BY <1>3 DEF Agree

\* What an append makes of the rows in the cache, its own included, and the
\* equation of its pass
RowsRead(rows, len, l, below) ==
  [q \in 0..len |-> IF q = len THEN Project(l, below) ELSE rows[<<l, q>>]]
OneStep(audio, rows, len, token, hidden, n) ==
  [l \in 0..n |-> IF l = 0 THEN Embed(token, len)
                  ELSE Layer(l - 1, audio, hidden[l - 1],
                             RowsRead(rows, len, l - 1, hidden[l - 1]))]

\* There are hidden states that satisfy the equation, so Incremental does.
LEMMA IncrementalLayers ==
  ASSUME NEW audio, NEW rows, NEW len, NEW token
  PROVE  Incremental(audio, rows, len, token)
           = OneStep(audio, rows, len, token,
                     Incremental(audio, rows, len, token), NumLayers)
<1>0. NumLayers \in Nat
  BY ForwardAssumption DEF ForwardAssumption
<1> DEFINE Some(n) == \E h : h = OneStep(audio, rows, len, token, h, n)
           S == {n \in Nat : Some(n)}
<1>1. Some(0)
  <2> DEFINE h == [l \in 0..0 |-> Embed(token, len)]
  <2>1. h = OneStep(audio, rows, len, token, h, 0)
    BY DEF OneStep
  <2> QED BY <2>1
<1>2. ASSUME NEW n \in Nat, Some(n)
      PROVE  Some(n + 1)
  <2>1. PICK g : g = OneStep(audio, rows, len, token, g, n)
    BY <1>2
  <2> DEFINE h == [l \in 0..(n + 1) |->
                     IF l = 0 THEN Embed(token, len)
                     ELSE Layer(l - 1, audio, g[l - 1],
                                RowsRead(rows, len, l - 1, g[l - 1]))]
  <2>2. \A l \in 0..n : h[l] = g[l]
    BY <2>1 DEF OneStep
  <2>3. \A l \in 0..(n + 1) : l # 0 => h[l - 1] = g[l - 1]
    <3> HIDE DEF h
    <3>1. \A l \in 0..(n + 1) : l # 0 => l - 1 \in 0..n
      OBVIOUS
    <3> QED BY <2>2, <3>1
  <2>4. h = OneStep(audio, rows, len, token, h, n + 1)
    BY <2>3 DEF OneStep
  <2> QED BY <2>4
<1> HIDE DEF Some
<1>3. Some(NumLayers)
  <2>1. 0 \in S /\ \A n \in 0..(NumLayers - 1) : n \in S => n + 1 \in S
    BY <1>0, <1>1, <1>2
  <2> HIDE DEF S
  <2>2. NumLayers \in S
    BY <1>0, <2>1, Climb
  <2> QED BY <2>2 DEF S
<1> DEFINE hidden == CHOOSE h : h = OneStep(audio, rows, len, token, h, NumLayers)
<1>4. hidden = OneStep(audio, rows, len, token, hidden, NumLayers)
  BY <1>3 DEF Some
<1>5. Incremental(audio, rows, len, token) = hidden
  BY DEF Incremental, OneStep, RowsRead
<1> QED BY <1>4, <1>5

\* The rows of a text, in each layer and position
RowsOf(rows, audio, s) ==
  \A l \in Layers, p \in 0..(Len(s) - 1) :
    rows[<<l, p>>] = Project(l, Hidden(audio, s)[l][p])

\* With the right rows in the cache, the one position that an append computes
\* gets the hidden states of a pass over all the tokens.
LEMMA IncrementalExact ==
  ASSUME NEW audio, NEW rows, NEW s, NEW t, NEW token,
         Extends(s, t, token), RowsOf(rows, audio, s)
  PROVE  \A l \in 0..NumLayers :
           Incremental(audio, rows, Len(s), token)[l] = Hidden(audio, t)[l][Len(s)]
<1> DEFINE inc == Incremental(audio, rows, Len(s), token)
           full == Hidden(audio, t)
           n == Len(s)
           Agree(l) == inc[l] = full[l][n]
           S == {l \in 0..NumLayers : Agree(l)}
<1>0. NumLayers \in Nat /\ n \in Nat
  BY ForwardAssumption DEF ForwardAssumption, Extends
<1>1. Len(t) = n + 1 /\ t[n + 1] = token
  BY DEF Extends
<1>2. \A l \in 0..NumLayers, p \in 0..(n - 1) :
        full[l][p] = Hidden(audio, s)[l][p]
  BY HiddenOfPrefix
<1>3. /\ inc = OneStep(audio, rows, n, token, inc, NumLayers)
      /\ full = Pass(audio, t, full, NumLayers)
  BY HiddenLayers, IncrementalLayers
<1> HIDE DEF inc, full
<1>4. Agree(0)
  <2>1. inc[0] = Embed(token, n)
    BY <1>0, <1>3 DEF OneStep
  <2>2. full[0] = Embeddings(t)
    BY <1>0, <1>3 DEF Pass
  <2> QED BY <1>0, <1>1, <2>1, <2>2 DEF Embeddings
<1>5. ASSUME NEW l \in 0..NumLayers, l # 0, Agree(l - 1)
      PROVE  Agree(l)
  <2>1. inc[l] = Layer(l - 1, audio, inc[l - 1], RowsRead(rows, n, l - 1, inc[l - 1]))
    BY <1>3, <1>5 DEF OneStep
  <2>2. full[l] = Above(audio, t, l - 1, full[l - 1])
    BY <1>3, <1>5 DEF Pass
  <2>3. l - 1 \in Layers /\ l - 1 \in 0..NumLayers
    BY <1>0, <1>5 DEF Layers
  <2> DEFINE below == full[l - 1]
  <2>4. full[l][n]
          = Layer(l - 1, audio, below[n], [q \in 0..n |-> Project(l - 1, below[q])])
    BY <1>0, <1>1, <2>2 DEF Above
  <2>5. \A q \in 0..(n - 1) : rows[<<l - 1, q>>] = Project(l - 1, below[q])
    BY <1>2, <2>3 DEF RowsOf
  <2>6. inc[l - 1] = below[n]
    BY <1>5
  <2> HIDE DEF below
  <2>7. RowsRead(rows, n, l - 1, below[n]) = [q \in 0..n |-> Project(l - 1, below[q])]
    BY <1>0, <2>5 DEF RowsRead
  <2> QED BY <2>1, <2>4, <2>6, <2>7
<1> HIDE DEF Agree
<1>6. \A l \in 0..NumLayers : l \in S
  <2>1. 0 \in S /\ \A l \in 0..(NumLayers - 1) : l \in S => l + 1 \in S
    <3>1. 0 \in S
      BY <1>0, <1>4
    <3>2. ASSUME NEW l \in 0..(NumLayers - 1), Agree(l)
          PROVE  Agree(l + 1)
      <4>1. l + 1 \in 0..NumLayers /\ l + 1 # 0 /\ l + 1 - 1 = l
        BY <1>0
      <4> QED BY <1>5, <3>2, <4>1
    <3>3. \A l \in 0..(NumLayers - 1) : l + 1 \in 0..NumLayers
      BY <1>0
    <3> QED BY <3>1, <3>2, <3>3
  <2> HIDE DEF S
  <2> QED BY <1>0, <2>1, Climb
<1> QED BY <1>6 DEF Agree, inc, full

\* What an append writes in each layer, and the logits it leaves, are those of
\* a pass over all the tokens.
LEMMA AppendExact ==
  ASSUME NEW audio, NEW rows, NEW s, NEW t, NEW token,
         Extends(s, t, token), RowsOf(rows, audio, s)
  PROVE  /\ \A l \in Layers :
              AppendedRows(audio, rows, Len(s), token)[<<l, Len(s)>>]
                = Project(l, Hidden(audio, t)[l][Len(s)])
         /\ Logits(Incremental(audio, rows, Len(s), token)[NumLayers])
              = FreshLogits(audio, t)
<1>0. NumLayers \in Nat /\ Len(s) \in Nat /\ Len(t) - 1 = Len(s)
  BY ForwardAssumption DEF ForwardAssumption, Extends
<1>1. \A l \in 0..NumLayers :
        Incremental(audio, rows, Len(s), token)[l] = Hidden(audio, t)[l][Len(s)]
  BY IncrementalExact
<1>2. Layers \subseteq 0..NumLayers /\ NumLayers \in 0..NumLayers
  BY <1>0 DEF Layers
<1> DEFINE n == Len(s)
           inc == Incremental(audio, rows, n, token)
<1>3. \A l \in Layers :
        AppendedRows(audio, rows, n, token)[<<l, n>>] = Project(l, inc[l])
  BY DEF AppendedRows
<1> QED BY <1>0, <1>1, <1>2, <1>3 DEF FreshLogits

-----------------------------------------------------------------------------
(***************************************************************************)
(* Decoder states, their clones, and the rows they share.                  *)
(***************************************************************************)

\* The shape of the decoder state of a holder
HolderShape(h) ==
  /\ {"audio", "tokens", "storage", "filled", "logits"} \subseteq DOMAIN state[h]
  /\ state[h].audio \in Audios
  /\ state[h].storage \in Storages
  /\ state[h].tokens \in Seq(Token)
  /\ state[h].filled = Len(state[h].tokens)
  /\ state[h].filled \in 1..TextContextLength

\* A state that was never cloned has the rows and the logits of its tokens. A
\* cloned one has the rows that all who had its storage agree on, and no fewer
\* positions than those.
ExactWith(me, rows, agreed) ==
  /\ agreed < TextContextLength => agreed <= me.filled
  /\ \A l \in Layers, p \in 0..(me.filled - 1) :
       p < agreed
       => rows[<<l, p>>] = Project(l, Hidden(me.audio, me.tokens)[l][p])
  /\ agreed = TextContextLength => me.logits = FreshLogits(me.audio, me.tokens)
HolderExact(h) ==
  ExactWith(state[h], heap[state[h].storage], common[state[h].storage])

\* Two states with one storage have the positions that were there at the clone
Sharing(g, h) ==
  Live(g) /\ Live(h) /\ g # h /\ state[g].storage = state[h].storage
    => common[state[h].storage] <= state[h].filled

HeapShape ==
  /\ DOMAIN heap = Storages
  /\ \A s \in Storages : DOMAIN heap[s] = Layers \X Positions
  /\ common \in [Storages -> 1..TextContextLength]

HoldersInv ==
  /\ DOMAIN state = Holders
  /\ HeapShape
  /\ reply.outcome \in Errors \cup {"Ok"}
  /\ \A h \in Holders : Live(h) => HolderShape(h) /\ HolderExact(h)
  /\ \A g, h \in Holders : Sharing(g, h)

\* Overwriting leaves the rows that are not written.
LEMMA OverwrittenRows ==
  ASSUME NEW rows, NEW new, NEW layers, NEW x \in DOMAIN rows
  PROVE  /\ DOMAIN Overwritten(rows, new, layers) = DOMAIN rows
         /\ x \notin DOMAIN new => Overwritten(rows, new, layers)[x] = rows[x]
         /\ x \in DOMAIN new /\ x[1] < layers
              => Overwritten(rows, new, layers)[x] = new[x]
BY DEF Overwritten

\* An append, complete or not, writes the rows of one position only.
LEMMA AppendWrites ==
  ASSUME NEW audio, NEW rows, NEW len, NEW token, NEW layers \in 0..NumLayers,
         DOMAIN rows = Layers \X Positions
  PROVE  LET after == Overwritten(rows, AppendedRows(audio, rows, len, token), layers)
         IN  /\ DOMAIN after = Layers \X Positions
             /\ \A l \in Layers, p \in Positions :
                  p # len => after[<<l, p>>] = rows[<<l, p>>]
             /\ layers = NumLayers /\ len \in Positions
                  => \A l \in Layers :
                       after[<<l, len>>]
                         = AppendedRows(audio, rows, len, token)[<<l, len>>]
<1> DEFINE new == AppendedRows(audio, rows, len, token)
           after == Overwritten(rows, new, layers)
<1>1. DOMAIN new = Layers \X {len}
  BY DEF AppendedRows
<1>2. DOMAIN after = DOMAIN rows
  BY DEF Overwritten
<1> HIDE DEF new
<1>3. ASSUME NEW l \in Layers, NEW p \in Positions, p # len
      PROVE  after[<<l, p>>] = rows[<<l, p>>]
  BY <1>1, <1>3, OverwrittenRows
<1>4. ASSUME NEW l \in Layers, layers = NumLayers, len \in Positions
      PROVE  after[<<l, len>>] = new[<<l, len>>]
  <2>1. l < NumLayers
    BY ForwardAssumption DEF ForwardAssumption, Layers
  <2>2. <<l, len>>[1] = l /\ <<l, len>> \in DOMAIN rows /\ <<l, len>> \in DOMAIN new
    BY <1>1, <1>4
  <2> QED BY <1>4, <2>1, <2>2, OverwrittenRows
<1> QED BY <1>2, <1>3, <1>4 DEF new

\* A longer text begins with the shorter.
LEMMA AppendExtends ==
  ASSUME NEW s \in Seq(Token), NEW token
  PROVE  Extends(s, Append(s, token), token)
BY DEF Extends

\* A step that gives the storage of a state other rows at the position beyond
\* its tokens, and no storage any other
WritesBeyond(h, rows) ==
  /\ heap' = [heap EXCEPT ![state[h].storage] = rows]
  /\ \A l \in Layers, p \in Positions :
       p # state[h].filled => rows[<<l, p>>] = heap[state[h].storage][<<l, p>>]
  /\ common' = common

\* A token of another state leaves what this one can see of the storage both
\* have, or has another storage.
LEMMA OthersKeep ==
  ASSUME HoldersInv, NEW g \in Holders, NEW h \in Holders, g # h,
         Live(g), Live(h), state[h].filled < TextContextLength,
         NEW rows, WritesBeyond(h, rows), state'[g] = state[g]
  PROVE  /\ HolderExact(g)'
         /\ \A l \in Layers, p \in 0..(state[g].filled - 1) :
              p < common[state[g].storage]
              => heap'[state[g].storage][<<l, p>>] = heap[state[g].storage][<<l, p>>]
<1> DEFINE s == state[g].storage
           r == state[h].storage
<1>0. /\ heap' = [heap EXCEPT ![state[h].storage] = rows]
      /\ \A l \in Layers, p \in Positions :
           p # state[h].filled => rows[<<l, p>>] = heap[state[h].storage][<<l, p>>]
      /\ common' = common
  BY DEF WritesBeyond
<1>1. /\ HolderShape(g) /\ HolderExact(g) /\ HolderShape(h)
      /\ DOMAIN heap = Storages /\ Sharing(g, h)
      /\ common[r] \in 1..TextContextLength /\ TextContextLength \in Nat
  BY ForwardAssumption
     DEF HoldersInv, HeapShape, HolderShape, ForwardAssumption
<1>2. CASE s # r
  <2>1. heap'[s] = heap[s]
    BY <1>0, <1>1, <1>2 DEF HolderShape
  <2> QED BY <1>0, <1>1, <2>1 DEF HolderExact, ExactWith
<1>3. CASE s = r
  <2>1. common[r] <= state[h].filled
    BY <1>1, <1>3 DEF Sharing
  <2>2. heap'[s] = rows
    BY <1>0, <1>1, <1>3 DEF HolderShape
  <2>3. ASSUME NEW l \in Layers, NEW p \in 0..(state[g].filled - 1), p < common[s]
        PROVE  heap'[s][<<l, p>>] = heap[s][<<l, p>>]
    <3>1. p \in Positions /\ p # state[h].filled
      BY <1>1, <1>3, <2>1, <2>3 DEF HolderShape, Positions
    <3> QED BY <1>0, <1>3, <2>2, <3>1
  <2>4. common[s] # TextContextLength
    <3>1. state[h].filled \in Nat /\ common[s] \in Nat /\ common[s] <= state[h].filled
      BY <1>1, <1>3, <2>1 DEF HolderShape
    <3> HIDE DEF s
    <3> QED BY <1>1, <3>1
  <2> QED BY <1>0, <1>1, <2>3, <2>4 DEF HolderExact, ExactWith
<1> QED BY <1>2, <1>3

\* Appending a token, when it succeeds.
LEMMA AppendKeepsInv ==
  ASSUME HoldersInv, NEW h \in Holders, NEW token, AppendToken(h, token)
  PROVE  HoldersInv'
<1> DEFINE me == state[h]
           s == me.storage
           len == Len(me.tokens)
           t == Append(me.tokens, token)
           new == AppendedRows(me.audio, heap[s], len, token)
           rows == Overwritten(heap[s], new, NumLayers)
           logits2 == Logits(Incremental(me.audio, heap[s], len, token)[NumLayers])
           d == [me EXCEPT !.filled = me.filled + 1, !.tokens = t, !.logits = logits2]
<1>0. /\ NumLayers \in Nat /\ NumLayers \in 0..NumLayers
      /\ TextContextLength \in Nat /\ Layers \subseteq 0..NumLayers
  BY ForwardAssumption DEF ForwardAssumption, Layers
<1>1. /\ Live(h) /\ len < TextContextLength /\ token \in Token
      /\ HolderShape(h) /\ HolderExact(h) /\ HeapShape /\ DOMAIN state = Holders
      /\ len \in Nat /\ me.filled = len /\ len \in Positions /\ s \in Storages
      /\ DOMAIN heap[s] = Layers \X Positions
      /\ common[s] \in 1..TextContextLength
  BY <1>0 DEF AppendToken, Appendable, HoldersInv, HolderShape, HeapShape, Positions
<1>2. /\ heap' = [heap EXCEPT ![s] = rows]
      /\ state' = [state EXCEPT ![h] = d]
      /\ common' = common /\ reply'.outcome = "Ok"
  BY DEF AppendToken, Answer
<1>3. /\ DOMAIN rows = Layers \X Positions
      /\ \A l \in Layers, p \in Positions : p # len => rows[<<l, p>>] = heap[s][<<l, p>>]
      /\ \A l \in Layers : rows[<<l, len>>] = new[<<l, len>>]
  <2> DEFINE before == heap[s]
             audio == me.audio
  <2>1. DOMAIN before = Layers \X Positions /\ NumLayers \in 0..NumLayers
    BY <1>0, <1>1
  <2>2. LET after == Overwritten(before, AppendedRows(audio, before, len, token),
                                 NumLayers)
        IN  /\ DOMAIN after = Layers \X Positions
            /\ \A l \in Layers, p \in Positions :
                 p # len => after[<<l, p>>] = before[<<l, p>>]
            /\ len \in Positions
                 => \A l \in Layers :
                      after[<<l, len>>]
                        = AppendedRows(audio, before, len, token)[<<l, len>>]
    <3> HIDE DEF before, audio, len
    <3> QED BY <2>1, AppendWrites
  <2> QED BY <1>1, <2>2
<1>4. /\ state'[h] = d /\ DOMAIN state' = Holders
      /\ \A g \in Holders : g # h => state'[g] = state[g]
  BY <1>1, <1>2
<1>5. /\ {"audio", "tokens", "storage", "filled", "logits"} \subseteq DOMAIN d
      /\ d.audio = me.audio /\ d.storage = s /\ d.tokens = t
      /\ d.filled = len + 1 /\ d.logits = logits2
  BY <1>1 DEF HolderShape
<1>6. Extends(me.tokens, t, token) /\ t \in Seq(Token) /\ Len(t) = len + 1
  BY <1>1, AppendExtends DEF HolderShape
<1> HIDE DEF rows, new, d, t, logits2
<1>7. heap'[s] = rows /\ HeapShape'
  BY <1>1, <1>2, <1>3 DEF HeapShape
<1>8. HolderShape(h)'
  BY <1>0, <1>1, <1>4, <1>5, <1>6 DEF HolderShape
<1>9. \A l \in 0..NumLayers, p \in 0..(len - 1) :
        Hidden(me.audio, t)[l][p] = Hidden(me.audio, me.tokens)[l][p]
  BY <1>6, HiddenOfPrefix
<1>10. ASSUME NEW l \in Layers, NEW p \in 0..(len - 1), p < common[s]
       PROVE  rows[<<l, p>>] = Project(l, Hidden(me.audio, t)[l][p])
  <2>1. p \in Positions /\ p # len
    BY <1>0, <1>1 DEF Positions
  <2>2. heap[s][<<l, p>>] = Project(l, Hidden(me.audio, me.tokens)[l][p])
    BY <1>1, <1>10 DEF HolderExact, ExactWith
  <2> QED BY <1>0, <1>3, <1>9, <2>1, <2>2
<1>11. ASSUME common[s] < TextContextLength
       PROVE  HolderExact(h)'
  <2>1. common[s] <= len
    BY <1>1, <1>11 DEF HolderExact, ExactWith
  <2>2. HolderExact(h)'
    <3>1. ASSUME NEW l \in Layers, NEW p \in 0..(len + 1 - 1), p < common[s]
          PROVE  rows[<<l, p>>] = Project(l, Hidden(me.audio, t)[l][p])
      <4>1. p \in 0..(len - 1)
        BY <1>1, <2>1, <3>1
      <4> QED BY <1>10, <3>1, <4>1
    <3> QED BY <1>1, <1>2, <1>4, <1>5, <1>7, <1>11, <2>1, <3>1 DEF HolderExact, ExactWith
  <2> QED BY <2>2
<1>12. ASSUME common[s] = TextContextLength
       PROVE  HolderExact(h)'
  <2>1. RowsOf(heap[s], me.audio, me.tokens)
    <3>1. \A p \in 0..(len - 1) : p \in 0..(me.filled - 1) /\ p < common[s]
      BY <1>1, <1>12
    <3> QED BY <1>1, <3>1 DEF RowsOf, HolderExact, ExactWith
  <2>2. /\ \A l \in Layers : new[<<l, len>>] = Project(l, Hidden(me.audio, t)[l][len])
        /\ logits2 = FreshLogits(me.audio, t)
    BY <1>6, <2>1, AppendExact, SMTT(20) DEF new, logits2
  <2>3. ASSUME NEW l \in Layers, NEW p \in 0..(len + 1 - 1)
        PROVE  rows[<<l, p>>] = Project(l, Hidden(me.audio, t)[l][p])
    <3>1. CASE p = len
      BY <1>3, <2>2, <3>1
    <3>2. CASE p \in 0..(len - 1)
      <4>1. p < common[s]
        BY <1>1, <1>12, <3>2
      <4> QED BY <1>10, <3>2, <4>1
    <3> QED BY <1>1, <3>1, <3>2
  <2> QED BY <1>1, <1>2, <1>4, <1>5, <1>7, <1>12, <2>2, <2>3 DEF HolderExact, ExactWith
<1>13. ASSUME NEW g \in Holders, g # h, Live(g)
       PROVE  HolderShape(g)' /\ HolderExact(g)'
  <2>1. WritesBeyond(h, rows)
    BY <1>1, <1>2, <1>3 DEF WritesBeyond
  <2>2. HolderExact(g)'
    BY <1>1, <1>4, <1>13, <2>1, OthersKeep
  <2> QED BY <1>4, <1>13, <2>2 DEF HoldersInv, HolderShape
<1>14. ASSUME NEW g \in Holders, NEW k \in Holders
       PROVE  Sharing(g, k)'
  <2>1. Sharing(g, k)
    BY DEF HoldersInv
  <2>2. CASE g # h /\ k # h
    BY <1>2, <1>4, <2>1, <2>2 DEF Sharing, Live
  <2>3. CASE k = h
    BY <1>1, <1>2, <1>4, <1>5, <2>1, <2>3 DEF Sharing, Live
  <2>4. CASE g = h /\ k # h
    BY <1>1, <1>2, <1>4, <1>5, <2>1, <2>4 DEF Sharing, Live
  <2> QED BY <2>2, <2>3, <2>4
<1>15. \A g \in Holders : g # h => (Live(g)' <=> Live(g))
  BY <1>4 DEF Live
<1>16. common[s] < TextContextLength \/ common[s] = TextContextLength
  BY <1>0, <1>1
<1>17. HolderExact(h)'
  BY <1>11, <1>12, <1>16
<1> QED BY <1>2, <1>4, <1>7, <1>8, <1>13, <1>14, <1>15, <1>17
        DEF HoldersInv

\* An append that fails has written only beyond the tokens, in whichever
\* layers: no state sees it.
LEMMA FailedAppendUnseen ==
  ASSUME HoldersInv, NEW h \in Holders, NEW token, AppendFails(h, token)
  PROVE  /\ HoldersInv'
         /\ \A g \in Holders : Live(g) =>
              \A l \in Layers, p \in 0..(state[g].filled - 1) :
                p < common[state[g].storage]
                => heap'[state[g].storage][<<l, p>>] = heap[state[g].storage][<<l, p>>]
<1> DEFINE len == Len(state[h].tokens)
           s == state[h].storage
<1>1. PICK layers \in 0..NumLayers :
        heap' = [heap EXCEPT ![s] =
          Overwritten(heap[s], AppendedRows(state[h].audio, heap[s], len, token), layers)]
  BY DEF AppendFails
<1>2. /\ Live(h) /\ len < TextContextLength /\ state[h].filled = len
      /\ state' = state /\ common' = common
      /\ reply'.outcome \in Errors \cup {"Ok"}
  BY DEF AppendFails, Appendable, Answer, Errors
<1>3. /\ HolderShape(h) /\ HolderExact(h) /\ HeapShape /\ s \in Storages
      /\ DOMAIN heap[s] = Layers \X Positions
      /\ len \in Nat /\ TextContextLength \in Nat
  BY <1>2, ForwardAssumption
     DEF HoldersInv, HolderShape, HeapShape, ForwardAssumption
<1> DEFINE before == heap[s]
           audio == state[h].audio
           rows == Overwritten(before, AppendedRows(audio, before, len, token), layers)
<1>4. /\ DOMAIN rows = Layers \X Positions
      /\ \A l \in Layers, p \in Positions : p # len => rows[<<l, p>>] = before[<<l, p>>]
  <2>1. DOMAIN before = Layers \X Positions
    BY <1>3
  <2> HIDE DEF before, audio, len
  <2> QED BY <2>1, AppendWrites
<1>5. heap' = [heap EXCEPT ![s] = rows]
  BY <1>1
<1> HIDE DEF rows
<1>6. heap'[s] = rows /\ HeapShape'
  BY <1>2, <1>3, <1>4, <1>5 DEF HeapShape
<1>7. WritesBeyond(h, rows)
  BY <1>2, <1>4, <1>5 DEF WritesBeyond
<1>8. ASSUME NEW l \in Layers, NEW p \in 0..(state[h].filled - 1)
      PROVE  heap'[s][<<l, p>>] = heap[s][<<l, p>>]
  <2>1. p \in Positions /\ p # len
    BY <1>2, <1>3 DEF Positions
  <2> QED BY <1>4, <1>6, <2>1
<1>9. HolderExact(h)'
  BY <1>2, <1>3, <1>8 DEF HolderExact, ExactWith
<1>10. ASSUME NEW g \in Holders, Live(g)
       PROVE  /\ HolderShape(g)' /\ HolderExact(g)'
              /\ \A l \in Layers, p \in 0..(state[g].filled - 1) :
                   p < common[state[g].storage]
                   => heap'[state[g].storage][<<l, p>>]
                        = heap[state[g].storage][<<l, p>>]
  <2>1. HolderShape(g)'
    BY <1>2, <1>10 DEF HoldersInv, HolderShape
  <2>2. CASE g = h
    BY <1>8, <1>9, <2>1, <2>2
  <2>3. CASE g # h
    BY <1>2, <1>7, <1>10, <2>1, <2>3, OthersKeep
  <2> QED BY <2>2, <2>3
<1>11. \A g, k \in Holders : Sharing(g, k)'
  BY <1>2 DEF HoldersInv, Sharing, Live
<1>12. HoldersInv'
  BY <1>2, <1>6, <1>10, <1>11 DEF HoldersInv, Live
<1> QED BY <1>10, <1>12

\* The first rows of a fresh storage are those of the prompt.
LEMMA PromptWritten ==
  ASSUME NEW audio, NEW text, Len(text) \in Nat, Len(text) <= TextContextLength
  PROVE  LET rows == Overwritten([x \in Layers \X Positions |-> Zero],
                                 PromptRows(audio, text), NumLayers)
         IN  /\ DOMAIN rows = Layers \X Positions
             /\ \A l \in Layers, p \in 0..(Len(text) - 1) :
                  rows[<<l, p>>] = Project(l, Hidden(audio, text)[l][p])
<1> DEFINE zero == [x \in Layers \X Positions |-> Zero]
           new == PromptRows(audio, text)
           rows == Overwritten(zero, new, NumLayers)
<1>1. /\ DOMAIN new = Layers \X (0..(Len(text) - 1))
      /\ \A l \in Layers, p \in 0..(Len(text) - 1) :
           new[<<l, p>>] = Project(l, Hidden(audio, text)[l][p])
  BY DEF PromptRows
<1>2. DOMAIN zero = Layers \X Positions
  OBVIOUS
<1> HIDE DEF zero, new
<1>3. DOMAIN rows = Layers \X Positions
  BY <1>2 DEF Overwritten
<1>4. ASSUME NEW l \in Layers, NEW p \in 0..(Len(text) - 1)
      PROVE  rows[<<l, p>>] = new[<<l, p>>]
  <2>1. /\ <<l, p>> \in DOMAIN zero /\ <<l, p>> \in DOMAIN new
        /\ <<l, p>>[1] = l /\ l < NumLayers
    BY <1>1, <1>2, ForwardAssumption DEF ForwardAssumption, Layers, Positions
  <2> QED BY <2>1, OverwrittenRows
<1> QED BY <1>1, <1>3, <1>4 DEF zero, new

\* Preparing a state, when it succeeds, in a storage no live state has.
LEMMA PrepareKeepsInv ==
  ASSUME HoldersInv, NEW h \in Holders, NEW audio \in Audios, NEW text \in Prompts,
         PrepareState(h, audio, text)
  PROVE  HoldersInv'
<1>1. CASE UNCHANGED <<state, heap, common>>
  <2>1. reply'.outcome \in Errors \cup {"Ok"}
    BY DEF PrepareState, Answer, Errors
  <2>2. HeapShape' /\ \A g, k \in Holders : Sharing(g, k)'
    BY <1>1 DEF HoldersInv, HeapShape, Sharing, Live
  <2>3. \A g \in Holders : Live(g)' => HolderShape(g)' /\ HolderExact(g)'
    BY <1>1 DEF HoldersInv, HolderShape, HolderExact, ExactWith, Live
  <2> QED BY <1>1, <2>1, <2>2, <2>3 DEF HoldersInv
<1>2. CASE ~UNCHANGED <<state, heap, common>>
  <2> DEFINE d(s) == [audio |-> audio, tokens |-> text, storage |-> s,
                      filled |-> Len(text), logits |-> FreshLogits(audio, text)]
             rows == Overwritten([x \in Layers \X Positions |-> Zero],
                                 PromptRows(audio, text), NumLayers)
  <2>1. PICK s \in Storages \ Referenced :
          /\ heap' = [heap EXCEPT ![s] = rows]
          /\ state' = [state EXCEPT ![h] = d(s)]
          /\ common' = [common EXCEPT ![s] = TextContextLength]
          /\ reply'.outcome = "Ok" /\ ValidPrompt(text) /\ ~Live(h)
    BY <1>2 DEF PrepareState, Answer
  <2>2. /\ text \in Seq(Token) /\ Len(text) \in 1..TextContextLength
        /\ TextContextLength \in Nat
    BY <2>1, DecodeAssumption, ForwardAssumption
       DEF DecodeAssumption, ForwardAssumption, ValidPrompt
  <2>3. /\ DOMAIN rows = Layers \X Positions
        /\ \A l \in Layers, p \in 0..(Len(text) - 1) :
             rows[<<l, p>>] = Project(l, Hidden(audio, text)[l][p])
    BY <2>2, PromptWritten
  <2> HIDE DEF rows
  <2>4. /\ DOMAIN state = Holders /\ HeapShape
        /\ \A g \in Holders : Live(g) => state[g].storage \in Storages /\ state[g].storage # s
    BY <2>1 DEF HoldersInv, HolderShape, Referenced
  <2>5. /\ state'[h] = d(s) /\ DOMAIN state' = Holders
        /\ \A g \in Holders : g # h => state'[g] = state[g]
        /\ heap'[s] = rows /\ common'[s] = TextContextLength
        /\ \A r \in Storages : r # s => heap'[r] = heap[r] /\ common'[r] = common[r]
    BY <2>1, <2>4 DEF HeapShape
  <2>6. HeapShape'
    BY <2>1, <2>2, <2>3, <2>4 DEF HeapShape
  <2>7. HolderShape(h)'
    BY <2>2, <2>5 DEF HolderShape
  <2>8. HolderExact(h)'
    BY <2>2, <2>3, <2>5 DEF HolderExact, ExactWith
  <2>9. ASSUME NEW g \in Holders, g # h, Live(g)
        PROVE  HolderShape(g)' /\ HolderExact(g)'
    <3>1. HolderShape(g) /\ HolderExact(g)
      BY <2>9 DEF HoldersInv
    <3> QED BY <2>4, <2>5, <2>9, <3>1 DEF HolderShape, HolderExact, ExactWith
  <2>10. ASSUME NEW g \in Holders, NEW k \in Holders
         PROVE  Sharing(g, k)'
    <3>1. Sharing(g, k)
      BY DEF HoldersInv
    <3>2. CASE g # h /\ k # h
      BY <2>4, <2>5, <3>1, <3>2 DEF Sharing, Live
    <3>3. CASE g = h \/ k = h
      BY <2>4, <2>5, <3>3 DEF Sharing, Live
    <3> QED BY <3>2, <3>3
  <2>11. \A g \in Holders : g # h => (Live(g)' <=> Live(g))
    BY <2>5 DEF Live
  <2> QED BY <2>1, <2>5, <2>6, <2>7, <2>8, <2>9, <2>10, <2>11 DEF HoldersInv
<1> QED BY <1>1, <1>2

\* A clone has the positions of its original, and the two agree on no more.
LEMMA CloneKeepsInv ==
  ASSUME HoldersInv, NEW h \in Holders, NEW copy \in Holders, Clone(h, copy)
  PROVE  HoldersInv'
<1> DEFINE s == state[h].storage
           agreed == IF state[h].filled < common[s] THEN state[h].filled ELSE common[s]
<1>1. /\ Live(h) /\ ~Live(copy) /\ copy # h
      /\ state' = [state EXCEPT ![copy] = state[h]]
      /\ common' = [common EXCEPT ![s] = agreed]
      /\ heap' = heap /\ reply'.outcome = "Ok"
  BY DEF Clone, Answer
<1>2. /\ HolderShape(h) /\ HeapShape /\ DOMAIN state = Holders
      /\ s \in Storages /\ common[s] \in 1..TextContextLength
      /\ state[h].filled \in 1..TextContextLength /\ TextContextLength \in Nat
  BY <1>1, ForwardAssumption
     DEF HoldersInv, HolderShape, HeapShape, ForwardAssumption
<1>3. /\ agreed \in 1..TextContextLength /\ agreed <= state[h].filled
      /\ agreed <= common[s]
  BY <1>2
<1> HIDE DEF agreed
<1>4. /\ state'[copy] = state[h] /\ DOMAIN state' = Holders
      /\ \A g \in Holders : g # copy => state'[g] = state[g]
      /\ common'[s] = agreed
      /\ \A r \in Storages : r # s => common'[r] = common[r]
  BY <1>1, <1>2 DEF HeapShape
<1>5. HeapShape'
  BY <1>1, <1>2, <1>3 DEF HeapShape
<1>6. ASSUME NEW g \in Holders, Live(g)
      PROVE  /\ HolderShape(g) /\ HolderExact(g)
             /\ state[g].storage = s => agreed <= state[g].filled
  <2>1. HolderShape(g) /\ HolderExact(g) /\ Sharing(h, g)
    BY <1>6 DEF HoldersInv
  <2>2. ASSUME state[g].storage = s, g # h
        PROVE  agreed <= state[g].filled
    <3>1. common[s] <= state[g].filled
      BY <1>1, <1>6, <2>1, <2>2 DEF Sharing
    <3> QED BY <1>2, <1>3, <2>1, <3>1 DEF HolderShape
  <2> QED BY <1>3, <2>1, <2>2
<1>7. ASSUME NEW k \in Holders, NEW g \in Holders, Live(g), state'[k] = state[g]
      PROVE  HolderShape(k)' /\ HolderExact(k)'
  <2>1. HolderShape(k)'
    BY <1>6, <1>7 DEF HolderShape
  <2>2. CASE state[g].storage = s
    <3>1. /\ agreed <= state[g].filled /\ HolderExact(g) /\ HolderShape(g)
          /\ common'[state'[k].storage] = agreed
          /\ common[state[g].storage] = common[s]
      BY <1>4, <1>6, <1>7, <2>2
    <3>2. \A p \in Nat : p < agreed => p < common[s]
      BY <1>2, <1>3
    <3>3. agreed = TextContextLength => common[s] = TextContextLength
      BY <1>2, <1>3
    <3>4. \A p \in 0..(state[g].filled - 1) : p \in Nat
      BY <3>1 DEF HolderShape
    <3>5. ExactWith(state[g], heap[s], common[s])
      BY <2>2, <3>1 DEF HolderExact
    <3>6. ExactWith(state[g], heap[s], agreed)
      BY <3>1, <3>2, <3>3, <3>4, <3>5 DEF ExactWith
    <3>7. ExactWith(state'[k], heap'[state'[k].storage],
                    common'[state'[k].storage])
      BY <1>1, <1>7, <2>2, <3>1, <3>6
    <3> QED BY <2>1, <3>7 DEF HolderExact, ExactWith
  <2>3. CASE state[g].storage # s
    <3>1. common'[state'[k].storage] = common[state[g].storage]
      BY <1>4, <1>6, <1>7, <2>3 DEF HolderShape
    <3>2. ExactWith(state[g], heap[state[g].storage], common[state[g].storage])
      BY <1>6, <1>7 DEF HolderExact
    <3>3. ExactWith(state'[k], heap'[state'[k].storage],
                    common'[state'[k].storage])
      BY <1>1, <1>7, <3>1, <3>2
    <3> QED BY <2>1, <3>3 DEF HolderExact, ExactWith
  <2> QED BY <2>1, <2>2, <2>3
<1>8. \A k \in Holders : Live(k)' => \E g \in Holders : Live(g) /\ state'[k] = state[g]
  BY <1>1, <1>4 DEF Live
<1>9. ASSUME NEW g \in Holders, NEW k \in Holders
      PROVE  Sharing(g, k)'
  <2> SUFFICES ASSUME Live(g)', Live(k)', g # k, state'[g].storage = state'[k].storage
               PROVE  common'[state'[k].storage] <= state'[k].filled
    BY DEF Sharing
  <2>1. PICK i \in Holders : Live(i) /\ state'[k] = state[i]
    BY <1>8
  <2>2. CASE state[i].storage = s
    BY <1>4, <1>6, <2>1, <2>2
  <2>3. CASE state[i].storage # s
    <3>1. k # copy /\ g # copy
      BY <1>4, <2>1, <2>3
    <3>2. state'[k] = state[k] /\ state'[g] = state[g] /\ Live(k) /\ Live(g)
      BY <1>4, <3>1 DEF Live
    <3>3. Sharing(g, k)
      BY DEF HoldersInv
    <3>4. common'[state[k].storage] = common[state[k].storage]
      BY <1>4, <1>6, <2>1, <2>3, <3>2 DEF HolderShape
    <3> QED BY <3>2, <3>3, <3>4 DEF Sharing
  <2> QED BY <2>2, <2>3
<1>10. \A k \in Holders : Live(k)' => HolderShape(k)' /\ HolderExact(k)'
  BY <1>7, <1>8
<1> QED BY <1>1, <1>4, <1>5, <1>9, <1>10 DEF HoldersInv

\* The inductive invariant of decoder states.
LEMMA HoldersInvAlways ==
  StateSpec => []HoldersInv
<1>1. StateInit => HoldersInv
  <2> SUFFICES ASSUME StateInit PROVE HoldersInv
    OBVIOUS
  <2>1. \A h \in Holders : ~Live(h)
    BY DEF StateInit, Live
  <2>2. HeapShape
    BY ForwardAssumption DEF StateInit, HeapShape, ForwardAssumption
  <2> QED BY <2>1, <2>2 DEF StateInit, HoldersInv, Sharing
<1>2. ASSUME HoldersInv, [StateNext]_stateVars
      PROVE  HoldersInv'
  <2>1. ASSUME UNCHANGED <<state, heap, common>>, reply'.outcome \in Errors \cup {"Ok"}
        PROVE  HoldersInv'
    <3>1. HeapShape' /\ \A g, k \in Holders : Sharing(g, k)'
      BY <1>2, <2>1 DEF HoldersInv, HeapShape, Sharing, Live
    <3>2. \A g \in Holders : Live(g)' => HolderShape(g)' /\ HolderExact(g)'
      BY <1>2, <2>1 DEF HoldersInv, HolderShape, HolderExact, ExactWith, Live
    <3> QED BY <1>2, <2>1, <3>1, <3>2 DEF HoldersInv
  <2>2. CASE UNCHANGED stateVars
    BY <1>2, <2>1, <2>2 DEF stateVars, HoldersInv
  <2>3. ASSUME NEW h \in Holders, NEW token, RefuseAppend(h, token)
        PROVE  HoldersInv'
    BY <2>1, <2>3 DEF RefuseAppend, Answer, Errors
  <2>4. ASSUME NEW h \in Holders, Drop(h)
        PROVE  HoldersInv'
    <3>1. /\ heap' = heap /\ common' = common /\ reply'.outcome = "Ok"
          /\ state' = [state EXCEPT ![h] = NoState] /\ DOMAIN state = Holders
      BY <1>2, <2>4 DEF Drop, Answer, HoldersInv
    <3>2. /\ DOMAIN state' = Holders /\ ~Live(h)'
          /\ \A g \in Holders : g # h => state'[g] = state[g]
          /\ \A g \in Holders : Live(g)' => Live(g) /\ state'[g] = state[g]
      BY <3>1 DEF Live
    <3>3. HeapShape'
      BY <1>2, <3>1 DEF HoldersInv, HeapShape
    <3>4. \A g, k \in Holders : Sharing(g, k)'
      BY <1>2, <3>1, <3>2 DEF HoldersInv, Sharing
    <3>5. \A g \in Holders : Live(g)' => HolderShape(g)' /\ HolderExact(g)'
      BY <1>2, <3>1, <3>2 DEF HoldersInv, HolderShape, HolderExact, ExactWith
    <3> QED BY <3>1, <3>2, <3>3, <3>4, <3>5 DEF HoldersInv
  <2> QED BY <1>2, <2>2, <2>3, <2>4, AppendKeepsInv, FailedAppendUnseen,
             PrepareKeepsInv, CloneKeepsInv
          DEF StateNext
<1> QED BY <1>1, <1>2, PTL DEF StateSpec

\* The visible rows of every state, clones included, are those of a pass over
\* all its tokens: append_decoder_token_from_audio reads and writes the cache
\* tensors that prepare_decoder_state_from_audio allocated and Clone shares.
THEOREM RowsMatchFullContextAlways ==
  StateSpec => []RowsMatchFullContext
<1>1. HoldersInv => RowsMatchFullContext
  <2> SUFFICES ASSUME HoldersInv PROVE RowsMatchFullContext
    OBVIOUS
  <2>1. StateTypeOK
    BY DEF StateTypeOK, HoldersInv, HeapShape, HolderShape
  <2>2. ASSUME NEW h \in Holders, Live(h), NEW x \in Layers \X Kept(h)
        PROVE  heap[state[h].storage][x]
                 = PromptRows(state[h].audio, state[h].tokens)[x]
    <3>1. /\ x = <<x[1], x[2]>> /\ x[1] \in Layers
          /\ x[2] \in 0..(state[h].filled - 1) /\ x[2] < common[state[h].storage]
      BY DEF Kept
    <3>2. HolderShape(h) /\ HolderExact(h)
      BY <2>2 DEF HoldersInv
    <3>3. heap[state[h].storage][<<x[1], x[2]>>]
            = Project(x[1], Hidden(state[h].audio, state[h].tokens)[x[1]][x[2]])
      BY <3>1, <3>2 DEF HolderExact, ExactWith
    <3>4. x \in Layers \X (0..(Len(state[h].tokens) - 1))
      BY <3>1, <3>2 DEF HolderShape
    <3>5. PromptRows(state[h].audio, state[h].tokens)[x]
            = Project(x[1], Hidden(state[h].audio, state[h].tokens)[x[1]][x[2]])
      BY <3>4 DEF PromptRows
    <3> QED BY <3>1, <3>3, <3>5
  <2> QED BY <2>1, <2>2 DEF RowsMatchFullContext
<1> QED BY <1>1, HoldersInvAlways, PTL

\* The logits of a state that was never cloned are those of the full context,
\* after any number of appends, and of appends that failed.
THEOREM AppendMatchesFullContextAlways ==
  StateSpec => []AppendMatchesFullContext
<1>1. HoldersInv => AppendMatchesFullContext
  <2> SUFFICES ASSUME HoldersInv, NEW h \in Holders, Live(h), ~Cloned(h)
               PROVE  state[h].logits = FreshLogits(state[h].audio, state[h].tokens)
    BY DEF AppendMatchesFullContext
  <2>1. HolderShape(h) /\ HolderExact(h) /\ HeapShape
    BY DEF HoldersInv
  <2>2. common[state[h].storage] = TextContextLength
    BY <2>1, ForwardAssumption DEF Cloned, HolderShape, HeapShape, ForwardAssumption
  <2> QED BY <2>1, <2>2 DEF HolderExact, ExactWith
<1> QED BY <1>1, HoldersInvAlways, PTL

\* A call that fails, at whatever layer, leaves every state and the rows it
\* sees, so that the call can be made again.
THEOREM FailureLeavesNoTraceAlways ==
  StateSpec => FailureLeavesNoTrace
<1> DEFINE A == reply'.outcome \in Errors
                => /\ UNCHANGED state
                   /\ \A h \in Holders : Live(h) =>
                        \A x \in Layers \X Kept(h) :
                          heap'[state[h].storage][x] = heap[state[h].storage][x]
<1>1. ASSUME HoldersInv, StateNext, reply'.outcome \in Errors
      PROVE  /\ UNCHANGED state
             /\ \A h \in Holders : Live(h) =>
                  \A x \in Layers \X Kept(h) :
                    heap'[state[h].storage][x] = heap[state[h].storage][x]
  <2>1. CASE UNCHANGED <<state, heap>>
    BY <2>1
  <2>2. ASSUME NEW g \in Holders, NEW token, AppendFails(g, token)
        PROVE  /\ UNCHANGED state
               /\ \A h \in Holders : Live(h) =>
                    \A x \in Layers \X Kept(h) :
                      heap'[state[h].storage][x] = heap[state[h].storage][x]
    <3>1. UNCHANGED state
      BY <2>2 DEF AppendFails
    <3>2. ASSUME NEW h \in Holders, Live(h), NEW x \in Layers \X Kept(h)
          PROVE  heap'[state[h].storage][x] = heap[state[h].storage][x]
      <4>1. /\ x = <<x[1], x[2]>> /\ x[1] \in Layers
            /\ x[2] \in 0..(state[h].filled - 1) /\ x[2] < common[state[h].storage]
        BY DEF Kept
      <4>2. heap'[state[h].storage][<<x[1], x[2]>>]
              = heap[state[h].storage][<<x[1], x[2]>>]
        BY <1>1, <2>2, <3>2, <4>1, FailedAppendUnseen
      <4> QED BY <4>1, <4>2
    <3> QED BY <3>1, <3>2
  <2>3. ASSUME NEW h \in Holders, NEW audio \in Audios, NEW text \in Prompts,
               PrepareState(h, audio, text)
        PROVE  UNCHANGED <<state, heap>>
    BY <1>1, <2>3 DEF PrepareState, Answer, Errors
  <2>4. \A h \in Holders : /\ ~Drop(h)
                           /\ \A k \in Holders : ~Clone(h, k)
                           /\ \A token : ~AppendToken(h, token)
    <3>1. reply'.outcome # "Ok"
      BY <1>1 DEF Errors
    <3>2. ASSUME NEW h \in Holders, NEW token, AppendToken(h, token)
          PROVE  FALSE
      BY <3>1, <3>2 DEF AppendToken, Answer
    <3>3. \A h \in Holders : ~Drop(h) /\ \A k \in Holders : ~Clone(h, k)
      BY <3>1 DEF Drop, Clone, Answer
    <3> QED BY <3>2, <3>3
  <2>5. ASSUME NEW h \in Holders, NEW token, RefuseAppend(h, token)
        PROVE  UNCHANGED <<state, heap>>
    BY <2>5 DEF RefuseAppend
  <2> QED BY <1>1, <2>1, <2>2, <2>3, <2>4, <2>5 DEF StateNext
<1>2. HoldersInv /\ StateNext => A
  BY <1>1
<1> HIDE DEF A
<1>3. StateSpec => [][A]_stateVars
  BY <1>2, HoldersInvAlways, PTL DEF StateSpec
<1> QED BY <1>3 DEF FailureLeavesNoTrace, A

-----------------------------------------------------------------------------
(***************************************************************************)
(* The transcription loop.                                                 *)
(***************************************************************************)

\* masked_greedy_sample answers with a token of the vocabulary, or not at all.
MaskLeavesTokens ==
  \A x : MaskedSample(Logits(x)) \in Token \cup {AllSuppressed}

\* The value for no decoder state is not one.
NoneIsNoDecoder ==
  \A t, r, l : [tokens |-> t, rows |-> r, logits |-> l] # None

ButLast(s) == SubSeq(s, 1, Len(s) - 1)

\* Taking off a token, and putting one on behind a prompt.
LEMMA ButLastOfAppend ==
  ASSUME NEW s \in Seq(Token), NEW x \in Token
  PROVE  /\ ButLast(Append(s, x)) = s
         /\ Append(s, x) \in Seq(Token) /\ Append(s, x) # <<>>
         /\ Len(Append(s, x)) = Len(s) + 1
BY DEF ButLast

\* A text that is not empty is what comes before its last token, and that token.
LEMMA LastAppended ==
  ASSUME NEW s \in Seq(Token), s # <<>>
  PROVE  /\ ButLast(s) \in Seq(Token) /\ s[Len(s)] \in Token
         /\ Append(ButLast(s), s[Len(s)]) = s
         /\ Len(ButLast(s)) = Len(s) - 1 /\ Len(s) \in Nat \ {0}
<1> DEFINE n == Len(s)
           b == ButLast(s)
<1>1. n \in Nat \ {0} /\ \A i \in 1..n : s[i] \in Token
  OBVIOUS
<1>2. /\ b \in Seq(Token) /\ Len(b) = n - 1
      /\ \A i \in 1..(n - 1) : b[i] = s[i]
  <2>1. 1 \in Int /\ n - 1 \in Int /\ \A i \in 1..(n - 1) : s[i] \in Token
    BY <1>1
  <2>2. /\ b \in Seq(Token) /\ Len(b) = IF 1 <= n - 1 THEN n - 1 - 1 + 1 ELSE 0
        /\ \A i \in 1..(n - 1 - 1 + 1) : b[i] = s[1 + i - 1]
    BY <2>1, SubSeqProperties DEF ButLast
  <2> HIDE DEF b
  <2> HIDE DEF n
  <2>3. n - 1 - 1 + 1 = n - 1 /\ \A i \in 1..(n - 1) : 1 + i - 1 = i
    BY <1>1
  <2>4. Len(b) = n - 1
    <3>1. CASE n = 1
      BY <2>2, <3>1
    <3>2. CASE n # 1
      BY <1>1, <2>2, <3>2
    <3> QED BY <3>1, <3>2
  <2>5. ASSUME NEW i \in 1..(n - 1)
        PROVE  b[i] = s[i]
    <3>1. b[i] = s[1 + i - 1]
      BY <2>2, <2>3
    <3> QED BY <2>3, <3>1
  <2> QED BY <2>2, <2>4, <2>5
<1> HIDE DEF b
<1>3. /\ Append(b, s[n]) \in Seq(Token) /\ Len(Append(b, s[n])) = n
      /\ \A i \in 1..n : Append(b, s[n])[i] = s[i]
  BY <1>1, <1>2
<1>4. Append(b, s[n]) = s
  BY <1>1, <1>3
<1> QED BY <1>1, <1>2, <1>4 DEF b

\* A token appended to the output is appended to the whole text.
LEMMA ConcatAppend ==
  ASSUME NEW p \in Seq(Token), NEW s \in Seq(Token), NEW x \in Token
  PROVE  /\ p \o s \in Seq(Token) /\ Len(p \o s) = Len(p) + Len(s)
         /\ Append(p \o s, x) = p \o Append(s, x)
OBVIOUS

\* A decoder state with the rows and logits of some text
Decodes(d, audio, text) ==
  /\ d # None
  /\ d.tokens = text
  /\ DOMAIN d.rows = Layers \X (0..(Len(text) - 1))
  /\ RowsOf(d.rows, audio, text)
  /\ d.logits = FreshLogits(audio, text)

\* The tokens behind the prompt that the decoder state has seen
Seen == IF at = "Sample" /\ Len(tokens) < request.wanted THEN tokens ELSE ButLast(tokens)

\* The inductive invariant of the loop
LoopInv ==
  /\ request \in Requests
  /\ at \in {"Validate", "Encode", "Prepare", "Sample", "Append", "Returned"}
  /\ tokens \in Seq(Token)
  /\ Len(tokens) <= request.wanted
  /\ result \in {None, "Ok", "InvalidRequest", "Kernel", "Runtime"}
  /\ result # None <=> at = "Returned"
  /\ at \in {"Validate", "Encode", "Prepare"} => tokens = <<>>
  /\ at \in {"Encode", "Prepare", "Sample", "Append"} => Decodable(request)
  /\ at \in {"Sample", "Append"} \/ result = "Ok"
       => /\ request.prompt \in Seq(Token)
          /\ Decodes(decoder, request.audio, request.prompt \o Seen)
  /\ at = "Append" => tokens # <<>> /\ Len(tokens) < request.wanted
  /\ result = "Ok" \/ (at = "Sample" /\ Len(tokens) = request.wanted)
       => logits = decoder.logits /\ tokens # <<>>
  /\ tokens # <<>> => decoder # None /\ result # "InvalidRequest"

\* The prompt's pass leaves its rows and logits.
LEMMA PromptDecoded ==
  ASSUME NoneIsNoDecoder, NEW audio, NEW text
  PROVE  Decodes([tokens |-> text, rows |-> PromptRows(audio, text),
                  logits |-> FreshLogits(audio, text)], audio, text)
<1>1. DOMAIN PromptRows(audio, text) = Layers \X (0..(Len(text) - 1))
  BY DEF PromptRows
<1>2. RowsOf(PromptRows(audio, text), audio, text)
  BY DEF RowsOf, PromptRows
<1> QED BY <1>1, <1>2 DEF Decodes, NoneIsNoDecoder

\* An append leaves those of the longer text.
LEMMA AppendDecoded ==
  ASSUME NoneIsNoDecoder, NEW audio, NEW text \in Seq(Token), NEW token \in Token,
         NEW d, Decodes(d, audio, text)
  PROVE  Decodes([tokens |-> Append(text, token),
                  rows |-> Grown(d.rows,
                                 AppendedRows(audio, d.rows, Len(text), token)),
                  logits |-> Logits(Incremental(audio, d.rows, Len(text),
                                                token)[NumLayers])],
                 audio, Append(text, token))
<1> DEFINE n == Len(text)
           longer == Append(text, token)
           new == AppendedRows(audio, d.rows, n, token)
           rows == Grown(d.rows, new)
           logits2 == Logits(Incremental(audio, d.rows, n, token)[NumLayers])
<1>0. n \in Nat /\ Extends(text, longer, token) /\ Len(longer) - 1 = n
  BY DEF Extends
<1>1. RowsOf(d.rows, audio, text) /\ DOMAIN d.rows = Layers \X (0..(n - 1))
  BY DEF Decodes
<1> HIDE DEF longer
<1>2. /\ \A l \in Layers : new[<<l, n>>] = Project(l, Hidden(audio, longer)[l][n])
      /\ logits2 = FreshLogits(audio, longer)
  <2> DEFINE r == d.rows
  <2>1. Extends(text, longer, token) /\ RowsOf(r, audio, text)
    BY <1>0, <1>1
  <2> HIDE DEF r
  <2>2. /\ \A l \in Layers :
             AppendedRows(audio, r, Len(text), token)[<<l, Len(text)>>]
               = Project(l, Hidden(audio, longer)[l][Len(text)])
        /\ Logits(Incremental(audio, r, Len(text), token)[NumLayers])
             = FreshLogits(audio, longer)
    BY <2>1, AppendExact
  <2> QED BY <2>2 DEF r
<1>3. DOMAIN new = Layers \X {n}
  BY DEF AppendedRows
<1> HIDE DEF new
<1>4. /\ DOMAIN rows = (DOMAIN new) \cup (DOMAIN d.rows)
      /\ \A x \in DOMAIN rows : rows[x] = IF x \in DOMAIN new THEN new[x] ELSE d.rows[x]
  BY DEF Grown
<1> HIDE DEF rows
<1>5. DOMAIN rows = Layers \X (0..n)
  BY <1>0, <1>1, <1>3, <1>4
<1>6. ASSUME NEW l \in Layers, NEW p \in 0..n
      PROVE  rows[<<l, p>>] = Project(l, Hidden(audio, longer)[l][p])
  <2>1. CASE p = n
    BY <1>2, <1>3, <1>4, <2>1
  <2>2. CASE p \in 0..(n - 1)
    <3>1. <<l, p>> \notin DOMAIN new /\ <<l, p>> \in DOMAIN rows
      BY <1>0, <1>3, <1>5, <2>2
    <3>2. rows[<<l, p>>] = Project(l, Hidden(audio, text)[l][p])
      BY <1>1, <1>4, <2>2, <3>1 DEF RowsOf
    <3>3. l \in 0..NumLayers
      BY ForwardAssumption DEF ForwardAssumption, Layers
    <3> QED BY <1>0, <2>2, <3>2, <3>3, HiddenOfPrefix
  <2> QED BY <1>0, <2>1, <2>2
<1>7. RowsOf(rows, audio, longer)
  BY <1>0, <1>6 DEF RowsOf
<1> HIDE DEF logits2
<1> DEFINE e == [tokens |-> longer, rows |-> rows, logits |-> logits2]
<1>8. Decodes(e, audio, longer)
  BY <1>0, <1>2, <1>5, <1>7 DEF Decodes, NoneIsNoDecoder
<1> QED BY <1>8 DEF e, longer, rows, new, logits2

\* What a request that may be decoded has.
LEMMA DecodableRequest ==
  ASSUME NEW r \in Requests, Decodable(r)
  PROVE  /\ r.wanted \in Nat \ {0}
         /\ r.prompt \in Seq(Nat) /\ Len(r.prompt) \in Nat
         /\ Len(r.prompt) + r.wanted <= TextContextLength
         /\ ValidPrompt(r.prompt) => r.prompt \in Seq(Token)
<1>1. r.wanted \in Nat /\ r.prompt \in Seq(Nat)
  BY TranscriptionAssumption DEF TranscriptionAssumption
<1>2. r.wanted # 0 /\ Len(r.prompt) + r.wanted <= TextContextLength
  BY DEF Decodable
<1>3. ValidPrompt(r.prompt) => r.prompt \in Seq(Token)
  <2> DEFINE p == r.prompt
  <2>1. p \in Seq(Nat)
    BY <1>1
  <2> HIDE DEF p
  <2>2. ValidPrompt(p) => p \in Seq(Token)
    BY <2>1 DEF ValidPrompt
  <2> QED BY <2>2 DEF p
<1> QED BY <1>1, <1>2, <1>3

\* A return with an error leaves the invariant, once no append is refused.
LEMMA FailKeepsInv ==
  ASSUME LoopInv, NEW kind \in {"InvalidRequest", "Kernel", "Runtime"}, Fail(kind),
         kind = "InvalidRequest" => tokens = <<>>
  PROVE  LoopInv'
BY TranscriptionAssumption DEF TranscriptionAssumption, LoopInv, Fail

\* The upper half of a round.
LEMMA SampleKeepsInv ==
  ASSUME MaskLeavesTokens, LoopInv, SampleNext
  PROVE  LoopInv'
<1> DEFINE next == MaskedSample(decoder.logits)
<1>1. /\ at = "Sample" /\ Len(tokens) < request.wanted /\ result = None
      /\ logits' = decoder.logits /\ request' = request /\ decoder' = decoder
      /\ request \in Requests /\ Decodable(request) /\ tokens \in Seq(Token)
      /\ request.prompt \in Seq(Token)
      /\ Decodes(decoder, request.audio, request.prompt \o tokens)
  BY DEF SampleNext, LoopInv, Seen
<1>2. next \in Token \cup {AllSuppressed} /\ decoder # None
  BY <1>1 DEF Decodes, FreshLogits, MaskLeavesTokens
<1>3. request.wanted \in Nat \ {0} /\ Len(tokens) \in Nat
  BY <1>1, DecodableRequest
<1>4. CASE next # AllSuppressed
  <2>1. tokens' = Append(tokens, next) /\ next \in Token
    BY <1>2, <1>4 DEF SampleNext
  <2>2. /\ tokens' \in Seq(Token) /\ tokens' # <<>> /\ ButLast(tokens') = tokens
        /\ Len(tokens') = Len(tokens) + 1
    BY <1>1, <2>1, ButLastOfAppend
  <2>3. \/ at' = "Returned" /\ result' = "Ok"
        \/ /\ at' = IF Len(tokens) + 1 < request.wanted THEN "Append" ELSE "Sample"
           /\ result' = result
    BY <1>4 DEF SampleNext
  <2>4. Seen' = tokens
    BY <1>1, <1>3, <2>2, <2>3 DEF Seen
  <2>5. Decodes(decoder, request.audio, request.prompt \o Seen)'
    BY <1>1, <2>4
  <2>6. /\ logits' = decoder'.logits /\ Len(tokens') <= request'.wanted
        /\ at' = "Append" => Len(tokens') < request'.wanted
    BY <1>1, <1>3, <2>2, <2>3
  <2>7. /\ at' \in {"Sample", "Append", "Returned"}
        /\ result' \in {None, "Ok"} /\ (result' # None <=> at' = "Returned")
    BY <1>1, <2>3, TranscriptionAssumption DEF TranscriptionAssumption
  <2>8. result' # "InvalidRequest"
    BY <2>7, TranscriptionAssumption DEF TranscriptionAssumption
  <2> QED BY <1>1, <1>2, <2>2, <2>5, <2>6, <2>7, <2>8 DEF LoopInv
<1>5. CASE next = AllSuppressed
  <2>1. /\ at' = "Returned" /\ result' = "Runtime" /\ tokens' = tokens
    BY <1>5 DEF SampleNext
  <2> QED BY <1>1, <1>2, <2>1, TranscriptionAssumption
          DEF TranscriptionAssumption, LoopInv
<1> QED BY <1>4, <1>5

\* The lower half of a round: the context, checked once, has room.
LEMMA AppendNextKeepsInv ==
  ASSUME MaskLeavesTokens, NoneIsNoDecoder, LoopInv, AppendNext
  PROVE  LoopInv'
<1> DEFINE last == tokens[Len(tokens)]
           text == request.prompt \o ButLast(tokens)
           audio == request.audio
<1>1. /\ at = "Append" /\ result = None /\ tokens \in Seq(Token) /\ tokens # <<>>
      /\ Len(tokens) < request.wanted /\ request \in Requests
      /\ Decodable(request) /\ request.prompt \in Seq(Token)
      /\ Decodes(decoder, audio, text)
  BY DEF AppendNext, LoopInv, Seen
<1>2. /\ ButLast(tokens) \in Seq(Token) /\ last \in Token
      /\ Append(ButLast(tokens), last) = tokens
      /\ Len(ButLast(tokens)) = Len(tokens) - 1 /\ Len(tokens) \in Nat \ {0}
  BY <1>1, LastAppended
<1>3. /\ text \in Seq(Token) /\ Append(text, last) = request.prompt \o tokens
      /\ Len(text) = Len(request.prompt) + Len(ButLast(tokens))
  <2> DEFINE front == ButLast(tokens)
  <2> HIDE DEF front, last
  <2>1. /\ request.prompt \o front \in Seq(Token)
        /\ Len(request.prompt \o front) = Len(request.prompt) + Len(front)
        /\ Append(request.prompt \o front, last) = request.prompt \o Append(front, last)
    BY <1>1, <1>2, ConcatAppend DEF front
  <2>2. Append(front, last) = tokens
    BY <1>2 DEF front
  <2> QED BY <2>1, <2>2 DEF front
<1>4. Len(text) < TextContextLength /\ decoder.tokens = text
  <2>1. /\ request.wanted \in Nat \ {0} /\ Len(request.prompt) \in Nat
        /\ Len(request.prompt) + request.wanted <= TextContextLength
        /\ TextContextLength \in Nat
    BY <1>1, DecodableRequest, ForwardAssumption DEF ForwardAssumption
  <2>2. decoder.tokens = text
    BY <1>1 DEF Decodes
  <2> QED BY <1>1, <1>2, <1>3, <2>1, <2>2
<1>5. CASE at' = "Returned"
  <2>1. Fail("Kernel")
    BY <1>2, <1>4, <1>5 DEF AppendNext, Goto, Fail
  <2> QED BY <2>1, FailKeepsInv
<1>6. CASE at' # "Returned"
  <2> DEFINE d == [tokens |-> Append(text, last),
                   rows |-> Grown(decoder.rows,
                                  AppendedRows(audio, decoder.rows, Len(text), last)),
                   logits |-> Logits(Incremental(audio, decoder.rows, Len(text),
                                                 last)[NumLayers])]
  <2>1. /\ decoder' = d /\ at' = "Sample" /\ request' = request /\ result' = result
        /\ tokens' = tokens /\ logits' = logits
    BY <1>4, <1>6 DEF AppendNext, Goto, Fail
  <2>2. Decodes(d, audio, Append(text, last))
    <3> HIDE DEF text, last
    <3> QED BY <1>1, <1>2, <1>3, AppendDecoded
  <2> HIDE DEF d
  <2>3. Seen' = tokens
    BY <1>1, <2>1 DEF Seen
  <2>4. Decodes(decoder, request.audio, request.prompt \o Seen)'
    BY <1>3, <2>1, <2>2, <2>3
  <2>5. decoder' # None
    BY <2>4 DEF Decodes
  <2>6. request.wanted \in Nat /\ Len(tokens) \in Nat
    BY <1>1, DecodableRequest
  <2> HIDE DEF text, last
  <2> QED BY <1>1, <2>1, <2>4, <2>5, <2>6, TranscriptionAssumption
          DEF TranscriptionAssumption, LoopInv
<1> QED BY <1>5, <1>6

\* The inductive invariant of the loop: a decoder state one token behind.
LEMMA LoopInvStep ==
  ASSUME MaskLeavesTokens, NoneIsNoDecoder, LoopInv, [Next]_vars
  PROVE  LoopInv'
<1>1. CASE UNCHANGED vars
  <2>1. Seen' = Seen
    BY <1>1 DEF Seen, vars
  <2> QED BY <1>1, <2>1 DEF LoopInv, vars
<1>2. CASE Validate
  <2>1. CASE Fail("InvalidRequest")
    BY <1>2, <2>1, FailKeepsInv DEF Validate, LoopInv
  <2>2. CASE ~Fail("InvalidRequest")
    <3>1. /\ at = "Validate" /\ Decodable(request) /\ at' = "Encode"
          /\ UNCHANGED <<request, result, decoder, tokens, logits>>
      BY <1>2, <2>2 DEF Validate, Goto
    <3> QED BY <3>1, TranscriptionAssumption DEF TranscriptionAssumption, LoopInv
  <2> QED BY <2>1, <2>2
<1>3. CASE Encode
  <2>1. CASE Fail("InvalidRequest") \/ Fail("Kernel")
    BY <1>3, <2>1, FailKeepsInv DEF Encode, LoopInv
  <2>2. CASE ~(Fail("InvalidRequest") \/ Fail("Kernel"))
    <3>1. /\ at = "Encode" /\ at' = "Prepare"
          /\ UNCHANGED <<request, result, decoder, tokens, logits>>
      BY <1>3, <2>2 DEF Encode, Goto
    <3> QED BY <3>1, TranscriptionAssumption DEF TranscriptionAssumption, LoopInv
  <2> QED BY <2>1, <2>2
<1>4. CASE Prepare
  <2>1. CASE Fail("InvalidRequest") \/ Fail("Kernel")
    BY <1>4, <2>1, FailKeepsInv DEF Prepare, LoopInv
  <2>2. CASE ~(Fail("InvalidRequest") \/ Fail("Kernel"))
    <3> DEFINE d == [tokens |-> request.prompt,
                     rows |-> PromptRows(request.audio, request.prompt),
                     logits |-> FreshLogits(request.audio, request.prompt)]
    <3>1. /\ at = "Prepare" /\ at' = "Sample" /\ decoder' = d
          /\ Decodable(request) /\ ValidPrompt(request.prompt)
          /\ UNCHANGED <<request, result, tokens, logits>>
      BY <1>4, <2>2 DEF Prepare, Goto
    <3>2. Decodes(d, request.audio, request.prompt)
      BY PromptDecoded
    <3> HIDE DEF d
    <3>3. /\ request \in Requests /\ tokens = <<>> /\ result = None
          /\ request.wanted \in Nat \ {0} /\ request.prompt \in Seq(Token)
      BY <3>1, DecodableRequest DEF LoopInv
    <3>4. Seen' = <<>> /\ request.prompt \o <<>> = request.prompt
      BY <3>1, <3>3 DEF Seen
    <3>5. Decodes(decoder, request.audio, request.prompt \o Seen)'
      BY <3>1, <3>2, <3>4
    <3>6. decoder' # None /\ Len(tokens) = 0
      BY <3>3, <3>5 DEF Decodes
    <3> QED BY <3>1, <3>3, <3>5, <3>6, TranscriptionAssumption
            DEF TranscriptionAssumption, LoopInv
  <2> QED BY <2>1, <2>2
<1>5. CASE LoopEnds
  <2>1. /\ at = "Sample" /\ Len(tokens) = request.wanted /\ at' = "Returned"
        /\ result' = "Ok" /\ UNCHANGED <<request, decoder, tokens, logits>>
    BY <1>5 DEF LoopEnds
  <2>2. Seen' = Seen
    BY <2>1 DEF Seen
  <2>3. request \in Requests /\ request.wanted \in Nat
    BY <2>1, DecodableRequest DEF LoopInv
  <2> QED BY <2>1, <2>2, <2>3, TranscriptionAssumption
          DEF TranscriptionAssumption, LoopInv
<1>6. CASE SampleNext
  BY <1>6, SampleKeepsInv
<1>7. CASE AppendNext
  BY <1>7, AppendNextKeepsInv
<1> QED BY <1>1, <1>2, <1>3, <1>4, <1>5, <1>6, <1>7 DEF Next, Step, Returned

\* The loop's invariant holds throughout.
LEMMA LoopInvAlways ==
  ASSUME MaskLeavesTokens, NoneIsNoDecoder
  PROVE  Spec => []LoopInv
<1>1. Init => LoopInv
  <2> SUFFICES ASSUME Init PROVE LoopInv
    OBVIOUS
  <2>1. request.wanted \in Nat
    BY TranscriptionAssumption DEF TranscriptionAssumption, Init
  <2> QED BY <2>1, TranscriptionAssumption DEF TranscriptionAssumption, Init, LoopInv
<1>2. LoopInv /\ [Next]_vars => LoopInv'
  BY LoopInvStep
<1> QED BY <1>1, <1>2, PTL DEF Spec

\* The decoder state lags one token behind the response, the logits returned
\* are those the last token was chosen from, and no append ever meets the end
\* of the context that validate_whisper_decode_request checked.
THEOREM DecoderOneBehindAlways ==
  ASSUME MaskLeavesTokens, NoneIsNoDecoder
  PROVE  Spec => []DecoderOneBehind
<1>1. LoopInv => DecoderOneBehind
  <2> SUFFICES ASSUME LoopInv PROVE DecoderOneBehind
    OBVIOUS
  <2>1. TypeOK
    <3>1. at \in {"Sample", "Append"} => decoder # None
      BY DEF LoopInv, Decodes
    <3> QED BY <3>1 DEF LoopInv, TypeOK
  <2>2. NeverRefusedLate
    BY DEF LoopInv, NeverRefusedLate
  <2>3. ASSUME at = "Sample" \/ result = "Ok"
        PROVE  LET seen == IF result = "Ok" \/ Len(tokens) = request.wanted
                           THEN SubSeq(tokens, 1, Len(tokens) - 1)
                           ELSE tokens
               IN  /\ decoder.tokens = request.prompt \o seen
                   /\ result = "Ok" =>
                        logits = FreshLogits(request.audio, request.prompt \o seen)
    <3> DEFINE seen == IF result = "Ok" \/ Len(tokens) = request.wanted
                       THEN SubSeq(tokens, 1, Len(tokens) - 1)
                       ELSE tokens
    <3>1. Decodes(decoder, request.audio, request.prompt \o Seen)
      BY <2>3 DEF LoopInv
    <3>2. /\ result = "Ok" => at = "Returned"
          /\ at = "Sample" => result # "Ok"
          /\ Len(tokens) <= request.wanted /\ Len(tokens) \in Nat
          /\ request.wanted \in Nat
      BY TranscriptionAssumption DEF TranscriptionAssumption, LoopInv
    <3>3. Seen = seen
      BY <2>3, <3>2 DEF Seen, ButLast
    <3>4. result = "Ok" => logits = decoder.logits
      BY DEF LoopInv
    <3> HIDE DEF seen
    <3>5. /\ decoder.tokens = request.prompt \o seen
          /\ result = "Ok" =>
               logits = FreshLogits(request.audio, request.prompt \o seen)
      BY <3>1, <3>3, <3>4 DEF Decodes
    <3> QED BY <3>5 DEF seen
  <2> QED BY <2>1, <2>2, <2>3 DEF DecoderOneBehind
<1> QED BY <1>1, LoopInvAlways, PTL

\* A round's upper half emits the token that the full context gives.
LEMMA SampleEmits ==
  ASSUME MaskLeavesTokens, LoopInv, SampleNext
  PROVE  Greedy!GreedyNext
<1> DEFINE next == MaskedSample(decoder.logits)
<1>1. /\ at = "Sample" /\ Len(tokens) < request.wanted /\ result = None
      /\ logits' = decoder.logits /\ request' = request
      /\ request \in Requests /\ Decodable(request) /\ tokens \in Seq(Token)
      /\ Decodes(decoder, request.audio, request.prompt \o tokens)
  BY DEF SampleNext, LoopInv, Seen
<1>2. /\ next \in Token \cup {AllSuppressed}
      /\ next = FullContextToken(request, tokens)
  BY <1>1 DEF Decodes, FreshLogits, MaskLeavesTokens, FullContextToken
<1>3. request.wanted \in Nat \ {0} /\ Len(tokens) \in Nat /\ None # "Ok"
  BY <1>1, DecodableRequest, TranscriptionAssumption DEF TranscriptionAssumption
<1>4. Status = "Decoding"
  BY <1>1, <1>3 DEF Status
<1>5. CASE next # AllSuppressed
  <2>1. tokens' = Append(tokens, next) /\ next \in Token
    BY <1>2, <1>5 DEF SampleNext
  <2>2. Len(tokens') = Len(tokens) + 1
    BY <1>1, <2>1
  <2>3. \/ next = request.stop /\ at' = "Returned" /\ result' = "Ok"
        \/ /\ next # request.stop
           /\ at' = IF Len(tokens) + 1 < request.wanted THEN "Append" ELSE "Sample"
           /\ result' = None
    BY <1>1, <1>5 DEF SampleNext
  <2>4. Status' = IF next = request.stop \/ Len(tokens) + 1 = request.wanted
                  THEN "Done" ELSE "Decoding"
    BY <1>1, <1>3, <2>2, <2>3 DEF Status
  <2> HIDE DEF next
  <2>5. Greedy!Emit
    BY <1>1, <1>2, <1>4, <1>5, <2>1, <2>4 DEF Greedy!Emit
  <2> QED BY <2>5 DEF Greedy!GreedyNext
<1>6. CASE next = AllSuppressed
  <2>1. /\ at' = "Returned" /\ result' = "Runtime" /\ tokens' = tokens
    BY <1>6 DEF SampleNext
  <2>2. Status' = "Failed" /\ None # "Runtime"
    BY <2>1, TranscriptionAssumption DEF TranscriptionAssumption, Status
  <2> QED BY <1>1, <1>4, <2>1, <2>2 DEF Greedy!GreedyNext, Greedy!Fail
<1> QED BY <1>5, <1>6

\* A failure is the specification's, wherever it comes.
LEMMA FailFails ==
  ASSUME LoopInv, at # "Returned", at = "Sample" => Len(tokens) < request.wanted,
         NEW kind \in {"InvalidRequest", "Kernel", "Runtime"}, Fail(kind)
  PROVE  Greedy!GreedyNext
<1>1. /\ result = None /\ at' = "Returned" /\ result' = kind
      /\ UNCHANGED <<request, tokens>>
  BY DEF LoopInv, Fail
<1>2. None \notin {"Ok", "InvalidRequest", "Kernel", "Runtime"}
  BY TranscriptionAssumption DEF TranscriptionAssumption
<1>3. Status \in {"New", "Decoding"}
  <2>1. at = "Append" => Len(tokens) < request.wanted
    BY DEF LoopInv
  <2>2. request.wanted \in Nat /\ Len(tokens) \in Nat
    BY TranscriptionAssumption DEF TranscriptionAssumption, LoopInv
  <2> QED BY <1>1, <1>2, <2>1, <2>2 DEF LoopInv, Status
<1>4. Status' = "Failed"
  BY <1>1, <1>2 DEF Status
<1> QED BY <1>1, <1>3, <1>4 DEF Greedy!GreedyNext, Greedy!Fail

\* Every step of the loop is one of greedy decoding, or none.
LEMMA LoopStep ==
  ASSUME MaskLeavesTokens, NoneIsNoDecoder, LoopInv, LoopInv', [Next]_vars
  PROVE  Greedy!GreedyNext \/ UNCHANGED <<request, tokens, Status>>
<1>0. /\ None \notin {"Ok", "InvalidRequest", "Kernel", "Runtime"}
      /\ request.wanted \in Nat /\ Len(tokens) \in Nat
  BY TranscriptionAssumption DEF TranscriptionAssumption, LoopInv
<1>1. CASE UNCHANGED vars
  BY <1>1 DEF vars, Status
<1>2. CASE Validate
  <2>1. CASE Fail("InvalidRequest")
    BY <1>2, <2>1, FailFails DEF Validate
  <2>2. CASE ~Fail("InvalidRequest")
    <3>1. /\ at = "Validate" /\ at' = "Encode" /\ UNCHANGED <<request, result, tokens>>
      BY <1>2, <2>2 DEF Validate, Goto
    <3> QED BY <3>1 DEF Status
  <2> QED BY <2>1, <2>2
<1>3. CASE Encode
  <2>1. CASE Fail("InvalidRequest") \/ Fail("Kernel")
    BY <1>3, <2>1, FailFails DEF Encode
  <2>2. CASE ~(Fail("InvalidRequest") \/ Fail("Kernel"))
    <3>1. /\ at = "Encode" /\ at' = "Prepare" /\ UNCHANGED <<request, result, tokens>>
      BY <1>3, <2>2 DEF Encode, Goto
    <3> QED BY <3>1 DEF Status
  <2> QED BY <2>1, <2>2
<1>4. CASE Prepare
  <2>1. CASE Fail("InvalidRequest") \/ Fail("Kernel")
    BY <1>4, <2>1, FailFails DEF Prepare
  <2>2. CASE ~(Fail("InvalidRequest") \/ Fail("Kernel"))
    <3>1. /\ at = "Prepare" /\ at' = "Sample" /\ Decodable(request)
          /\ UNCHANGED <<request, result, tokens>>
      BY <1>4, <2>2 DEF Prepare, Goto
    <3>2. result = None /\ tokens = <<>> /\ request.wanted # 0
      BY <3>1 DEF LoopInv, Decodable
    <3>3. Status = "New" /\ Status' = "Decoding"
      BY <1>0, <3>1, <3>2 DEF Status
    <3> QED BY <3>1, <3>3 DEF Greedy!GreedyNext, Greedy!Accept
  <2> QED BY <2>1, <2>2
<1>5. CASE LoopEnds
  <2>1. /\ at = "Sample" /\ Len(tokens) = request.wanted /\ at' = "Returned"
        /\ result' = "Ok" /\ UNCHANGED <<request, tokens>> /\ result = None
    BY <1>5 DEF LoopEnds, LoopInv
  <2> QED BY <1>0, <2>1 DEF Status
<1>6. CASE SampleNext
  BY <1>6, SampleEmits
<1>7. CASE AppendNext
  <2>1. /\ at = "Append" /\ result = None /\ Len(tokens) < request.wanted
    BY <1>7 DEF AppendNext, LoopInv
  <2>2. CASE Fail("InvalidRequest") \/ Fail("Kernel")
    BY <2>1, <2>2, FailFails
  <2>3. CASE ~(Fail("InvalidRequest") \/ Fail("Kernel"))
    <3>1. at' = "Sample" /\ UNCHANGED <<request, result, tokens>>
      BY <1>7, <2>3 DEF AppendNext, Goto
    <3> QED BY <1>0, <2>1, <3>1 DEF Status
  <2> QED BY <2>2, <2>3
<1> QED BY <1>1, <1>2, <1>3, <1>4, <1>5, <1>6, <1>7 DEF Next, Step, Returned

\* transcribe_whisper, with its cached rows and skipped last append, emits
\* what decoding the whole sequence anew for every token would.
THEOREM LoopImplementsGreedy ==
  ASSUME MaskLeavesTokens, NoneIsNoDecoder
  PROVE  Spec => ImplementsGreedy
<1>1. Init => Greedy!GreedyInit
  BY TranscriptionAssumption
     DEF Init, Greedy!GreedyInit, Status, TranscriptionAssumption
<1>2. LoopInv /\ LoopInv' /\ [Next]_vars => [Greedy!GreedyNext]_Greedy!greedyVars
  BY LoopStep DEF Greedy!greedyVars
<1>3. Spec => []LoopInv
  BY LoopInvAlways
<1> QED BY <1>1, <1>2, <1>3, PTL DEF Spec, ImplementsGreedy, Greedy!GreedySpec
=============================================================================
