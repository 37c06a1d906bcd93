------------------------- MODULE ClientBatchProofs -------------------------
(***************************************************************************)
(* Proofs about ClientBatch, for every set of packets and contexts, every  *)
(* size of a batch and every threshold: contexts are never shared, and the *)
(* server gets each batch as the processor left it.                        *)
(***************************************************************************)
EXTENDS ClientBatch, FramingProofs

-----------------------------------------------------------------------------
\* The inductive invariant.

\* Packets whose header can be read, their encodings, and the fields of a context.
Headed == {p \in Packets : p.header}
Payload == [id : {p.id : p \in Packets} \cup {"Latency"}, size : Nat \ {0},
            latest : BOOLEAN, changed : BOOLEAN]
Context == [raw : {s \in Seq(Payload) : Len(s) <= 1},
            decoded : {s \in Seq(Packets) : Len(s) <= 1},
            modified : BOOLEAN, canceled : BOOLEAN]
Fates == {"pass", "cancel", "modify"}

\* A context as decodeAndCreateContext leaves it, and after the processor.
Loaded(p) == [raw |-> <<Encoded(p, opts.latest, FALSE)>>,
              decoded |-> IF RawAllowed(p) THEN <<>> ELSE <<p>>,
              modified |-> FALSE, canceled |-> FALSE]
Processed(p, f) == [Loaded(p) EXCEPT !.canceled = (f = "cancel"),
                                     !.modified = (f = "modify")]

\* Contexts: one in the pool has been cleared and nobody else refers to it.
PoolInv ==
    /\ mem \in [Ctxs -> Context]
    /\ ctxBatch \in Seq(Ctxs) /\ pool \subseteq Ctxs /\ other \subseteq Ctxs
    /\ \A c \in pool : mem[c] = Fresh
    /\ ContextsApart

\* The batch that handleClient works on.  It is empty between two batches.
Idle == input = <<>> /\ done = 0 /\ ctxBatch = <<>> /\ fate = <<>> /\ payloads = <<>>
\* In the first loop: a context for each packet that is kept.
Decoding ==
    /\ fate = <<>> /\ payloads = <<>>
    /\ Kept[done] \in Seq(Headed)
    /\ Len(ctxBatch) = Len(Kept[done])
    /\ \A i \in 1 .. Len(ctxBatch) : mem[ctxBatch[i]] = Loaded(Kept[done][i])
\* In the second loop: the payloads are those wanted of the contexts that are gone.
Encoding ==
    /\ done = Len(input)
    /\ Kept[done] \in Seq(Headed) /\ fate \in Seq(Fates)
    /\ Len(fate) = Len(Kept[done]) /\ Len(ctxBatch) <= Len(fate)
    /\ \A i \in 1 .. Len(fate) : fate[i] = "modify" => ~RawAllowed(Kept[done][i])
    /\ payloads = Wanted[Len(fate) - Len(ctxBatch)]
    /\ \A i \in 1 .. Len(ctxBatch) :
          LET n == (Len(fate) - Len(ctxBatch)) + i IN
          mem[ctxBatch[i]] = Processed(Kept[done][n], fate[n])
BatchInv ==
    /\ opts \in [sync : BOOLEAN, all : BOOLEAN, latest : BOOLEAN]
    /\ input \in Seq(Packets) /\ Len(input) <= MaxBatch /\ done \in 0 .. Len(input)
    /\ client \in {"read", "decode", "encode", "lock", "write", "failed", "panicked",
                   "exited"}
    /\ client \in {"read", "write", "exited"} => Idle
    /\ client = "decode" => Decoding
    /\ client \in {"encode", "lock"} => Encoding
    /\ client = "lock" => ctxBatch = <<>>
    /\ PanicOnlyLegacySync

\* The Writer: whoever holds its mutex has something to write, and nobody else has.
Held ==
    /\ mu \in Writers \cup {"none"} /\ linkUp \in BOOLEAN
    /\ rest \in [Writers -> Seq(Seq(Byte(Payload)))]
    /\ \A w \in Writers : Len(rest[w]) <= 2 /\ (rest[w] # <<>> <=> mu = w)
WriterInv ==
    /\ Held
    /\ latency \in {"wait", "lock", "write"} /\ connDone \in BOOLEAN
    /\ client = "write" <=> mu = "client"
    /\ latency = "write" <=> mu = "latency"

\* The stream carries what is owed to the server, whole frames and in order.
Pending == IF mu = "none" THEN <<>> ELSE Flat(rest[mu])
StreamInv ==
    /\ stream \in Seq(Byte(Payload)) /\ owed \in Seq(Seq(Payload))
    /\ Carries(Payload, stream, linkUp, Pending, owed)
    /\ agreed

Inv == PoolInv /\ BatchInv /\ WriterInv /\ StreamInv
-----------------------------------------------------------------------------
\* Kept and Wanted, as functions of the batch, the options and the fates.

DropBy(p, o) ==
    /\ ~(~o.all /\ ~p.listed /\ (o.sync \/ o.latest))
    /\ ~o.sync /\ ~o.latest /\ p.upgrades = 0
KeptBy(b, o) ==
    LET kept[n \in 0 .. Len(b)] ==
          IF n = 0 THEN <<>>
          ELSE IF DropBy(b[n], o) THEN kept[n - 1] ELSE Append(kept[n - 1], b[n])
    IN  kept
WantedBy(f, k, latest) ==
    LET wanted[n \in 0 .. Len(f)] ==
          IF n = 0 THEN <<>>
          ELSE IF f[n] = "cancel" THEN wanted[n - 1]
          ELSE Append(wanted[n - 1], Encoded(k[n], latest, f[n] = "modify"))
    IN  wanted

\* The model's operators are these, before a step and after it.
LEMMA DropIs ==
    ASSUME NEW p
    PROVE  (Dropped(p) <=> DropBy(p, opts)) /\ (Dropped(p)' <=> DropBy(p, opts'))
  BY DEF Dropped, RawAllowed, Upgrades, DropBy

\* The packets of the batch that the upgrade leaves.
LEMMA KeptIs == Kept = KeptBy(input, opts) /\ Kept' = KeptBy(input', opts')
  BY Zenon DEF Kept, KeptBy, Dropped, RawAllowed, Upgrades, DropBy

\* What the server should get of them.
LEMMA WantedIs ==
    /\ Wanted = WantedBy(fate, Kept[Len(input)], ProtoLatest)
    /\ Wanted' = WantedBy(fate', Kept'[Len(input')], ProtoLatest')
  BY Zenon DEF Wanted, WantedBy

\* Each packet of a batch is kept or dropped.
LEMMA KeptFacts ==
    ASSUME NEW b \in Seq(Packets), NEW o
    PROVE  /\ KeptBy(b, o) \in [0 .. Len(b) -> Seq(Packets)]
           /\ KeptBy(b, o)[0] = <<>>
           /\ \A i \in 1 .. Len(b) : KeptBy(b, o)[i] =
                 IF DropBy(b[i], o) THEN KeptBy(b, o)[i - 1]
                 ELSE Append(KeptBy(b, o)[i - 1], b[i])
<1>. DEFINE B == Seq(Packets)
            N == Len(b)
            e == <<>>
            Round(q, i) == IF DropBy(b[i], o) THEN q ELSE Append(q, b[i])
            F == [nx \in (1 .. N) \X B |-> Round(nx[2], nx[1])]
            E(h) == h = [i \in 0 .. N |-> IF i = 0 THEN e ELSE Round(h[i - 1], i)]
            g == KeptBy(b, o)
<1>1. N \in Nat /\ e \in B
  OBVIOUS
<1>2. ASSUME NEW i \in 1 .. N, NEW q \in B PROVE Round(q, i) \in B
  <2>1. b[i] \in Packets
    OBVIOUS
  <2>. QED  BY <2>1
<1>3. g = CHOOSE h : E(h)
  BY DEF KeptBy
<1>. HIDE DEF B, N, e, Round, g
<1>4. F \in [(1 .. N) \X B -> B]
  BY <1>2
<1>5. \A n \in 1 .. N, q \in B : F[<<n, q>>] = Round(q, n)
  OBVIOUS
<1>. HIDE DEF F
<1>6. PICK f0 \in [0 .. N -> B] : Iterates(f0, N, e, F)
  BY <1>1, <1>4, Recursion, Zenon
<1>7. E(f0)
  <2>. DEFINE h == [i \in 0 .. N |-> IF i = 0 THEN e ELSE Round(f0[i - 1], i)]
  <2>1. ASSUME NEW i \in 0 .. N PROVE f0[i] = h[i]
    <3>1. CASE i = 0
      BY <1>6, <3>1 DEF Iterates
    <3>2. CASE i \in 1 .. N
      <4>1. f0[i - 1] \in B /\ f0[i] = F[<<i, f0[i - 1]>>]
        BY <1>1, <1>6, <3>2 DEF Iterates
      <4>. QED  BY <1>5, <3>2, <4>1
    <3>. QED  BY <1>1, <3>1, <3>2
  <2>2. f0 = [i \in 0 .. N |-> f0[i]] /\ h = [i \in 0 .. N |-> h[i]]
    OBVIOUS
  <2>. HIDE DEF h
  <2>3. f0 = h
    BY <2>1, <2>2
  <2>. QED  BY <2>3, Zenon DEF h
<1>8. E(g)
  <2>. HIDE DEF E
  <2>. QED  BY <1>3, <1>7
<1>9. /\ g[0] = e
      /\ \A i \in 1 .. N : g[i] = Round(g[i - 1], i)
      /\ g = [i \in 0 .. N |-> g[i]]
  <2>. DEFINE h == [i \in 0 .. N |-> IF i = 0 THEN e ELSE Round(g[i - 1], i)]
  <2>1. /\ h[0] = e
        /\ \A i \in 1 .. N : h[i] = Round(g[i - 1], i)
        /\ h = [i \in 0 .. N |-> h[i]]
    BY <1>1
  <2>2. g = h
    BY <1>8, Zenon
  <2>. HIDE DEF h
  <2>. QED  BY <2>1, <2>2, Zenon
<1>10. \A i \in 0 .. N : g[i] \in B
  <2>. DEFINE T == {i \in 0 .. N : g[i] \in B}
  <2>1. 0 \in T
    BY <1>1, <1>9
  <2>2. ASSUME NEW n \in 0 .. N, n \in T, n < N PROVE n + 1 \in T
    <3>1. n + 1 \in 1 .. N /\ (n + 1) - 1 = n
      BY <1>1, <2>2
    <3>2. g[n + 1] = Round(g[n], n + 1)
      BY <1>9, <3>1, Zenon
    <3>. QED  BY <1>2, <2>2, <3>1, <3>2
  <2>. HIDE DEF T
  <2>3. \A n \in 0 .. N : n \in T
    BY <1>1, <2>1, <2>2, IntervalInduction
  <2>. QED  BY <2>3 DEF T
<1>. QED  BY <1>9, <1>10, Zenon DEF g, N, B, e, Round

\* An encoding of a packet with a header is a payload.
LEMMA EncodedType ==
    ASSUME NEW p \in Headed, NEW latest \in BOOLEAN, NEW changed \in BOOLEAN
    PROVE  Encoded(p, latest, changed) \in Payload
<1>1. p.size \in Nat \ {0}
  BY PacketsAssumption DEF Headed
<1>2. p.id \in {q.id : q \in Packets}
  BY DEF Headed
<1>. QED  BY <1>1, <1>2 DEF Encoded, Payload

\* Each packet that is kept is cancelled or encoded.
LEMMA WantedFacts ==
    ASSUME NEW f \in Seq(Fates), NEW k \in Seq(Headed), Len(f) = Len(k),
           NEW latest \in BOOLEAN
    PROVE  /\ WantedBy(f, k, latest) \in [0 .. Len(f) -> Seq(Payload)]
           /\ WantedBy(f, k, latest)[0] = <<>>
           /\ \A i \in 1 .. Len(f) : WantedBy(f, k, latest)[i] =
                 IF f[i] = "cancel" THEN WantedBy(f, k, latest)[i - 1]
                 ELSE Append(WantedBy(f, k, latest)[i - 1],
                             Encoded(k[i], latest, f[i] = "modify"))
<1>. DEFINE B == Seq(Payload)
            N == Len(f)
            e == <<>>
            Round(q, i) == IF f[i] = "cancel" THEN q
                           ELSE Append(q, Encoded(k[i], latest, f[i] = "modify"))
            F == [nx \in (1 .. N) \X B |-> Round(nx[2], nx[1])]
            E(h) == h = [i \in 0 .. N |-> IF i = 0 THEN e ELSE Round(h[i - 1], i)]
            g == WantedBy(f, k, latest)
<1>1. N \in Nat /\ e \in B
  OBVIOUS
<1>2. ASSUME NEW i \in 1 .. N, NEW q \in B PROVE Round(q, i) \in B
  <2>1. k[i] \in Headed
    OBVIOUS
  <2>2. Encoded(k[i], latest, f[i] = "modify") \in Payload
    BY <2>1, EncodedType, Zenon
  <2>. QED  BY <2>2
<1>3. g = CHOOSE h : E(h)
  BY DEF WantedBy
<1>. HIDE DEF B, N, e, Round, g
<1>4. F \in [(1 .. N) \X B -> B]
  BY <1>2
<1>5. \A n \in 1 .. N, q \in B : F[<<n, q>>] = Round(q, n)
  OBVIOUS
<1>. HIDE DEF F
<1>6. PICK f0 \in [0 .. N -> B] : Iterates(f0, N, e, F)
  BY <1>1, <1>4, Recursion, Zenon
<1>7. E(f0)
  <2>. DEFINE h == [i \in 0 .. N |-> IF i = 0 THEN e ELSE Round(f0[i - 1], i)]
  <2>1. ASSUME NEW i \in 0 .. N PROVE f0[i] = h[i]
    <3>1. CASE i = 0
      BY <1>6, <3>1 DEF Iterates
    <3>2. CASE i \in 1 .. N
      <4>1. f0[i - 1] \in B /\ f0[i] = F[<<i, f0[i - 1]>>]
        BY <1>1, <1>6, <3>2 DEF Iterates
      <4>. QED  BY <1>5, <3>2, <4>1
    <3>. QED  BY <1>1, <3>1, <3>2
  <2>2. f0 = [i \in 0 .. N |-> f0[i]] /\ h = [i \in 0 .. N |-> h[i]]
    OBVIOUS
  <2>. HIDE DEF h
  <2>3. f0 = h
    BY <2>1, <2>2
  <2>. QED  BY <2>3, Zenon DEF h
<1>8. E(g)
  <2>. HIDE DEF E
  <2>. QED  BY <1>3, <1>7
<1>9. /\ g[0] = e
      /\ \A i \in 1 .. N : g[i] = Round(g[i - 1], i)
      /\ g = [i \in 0 .. N |-> g[i]]
  <2>. DEFINE h == [i \in 0 .. N |-> IF i = 0 THEN e ELSE Round(g[i - 1], i)]
  <2>1. /\ h[0] = e
        /\ \A i \in 1 .. N : h[i] = Round(g[i - 1], i)
        /\ h = [i \in 0 .. N |-> h[i]]
    BY <1>1
  <2>2. g = h
    BY <1>8, Zenon
  <2>. HIDE DEF h
  <2>. QED  BY <2>1, <2>2, Zenon
<1>10. \A i \in 0 .. N : g[i] \in B
  <2>. DEFINE T == {i \in 0 .. N : g[i] \in B}
  <2>1. 0 \in T
    BY <1>1, <1>9
  <2>2. ASSUME NEW n \in 0 .. N, n \in T, n < N PROVE n + 1 \in T
    <3>1. n + 1 \in 1 .. N /\ (n + 1) - 1 = n
      BY <1>1, <2>2
    <3>2. g[n + 1] = Round(g[n], n + 1)
      BY <1>9, <3>1, Zenon
    <3>. QED  BY <1>2, <2>2, <3>1, <3>2
  <2>. HIDE DEF T
  <2>3. \A n \in 0 .. N : n \in T
    BY <1>1, <2>1, <2>2, IntervalInduction
  <2>. QED  BY <2>3 DEF T
<1>. QED  BY <1>9, <1>10, Zenon DEF g, N, B, e, Round

\* The packets kept, one packet of the batch at a time.
LEMMA KeptUnfolds ==
    ASSUME input \in Seq(Packets)
    PROVE  /\ Kept \in [0 .. Len(input) -> Seq(Packets)]
           /\ Kept[0] = <<>>
           /\ \A i \in 1 .. Len(input) :
                 Kept[i] = IF Dropped(input[i]) THEN Kept[i - 1]
                           ELSE Append(Kept[i - 1], input[i])
<1>. DEFINE g == KeptBy(input, opts)
<1>1. /\ g \in [0 .. Len(input) -> Seq(Packets)]
      /\ g[0] = <<>>
      /\ \A i \in 1 .. Len(input) :
            g[i] = IF DropBy(input[i], opts) THEN g[i - 1] ELSE Append(g[i - 1], input[i])
  BY KeptFacts
<1>2. Kept = g
  BY KeptIs
<1>3. \A p : Dropped(p) <=> DropBy(p, opts)
  BY DropIs
<1>. HIDE DEF g
<1>. QED  BY <1>1, <1>2, <1>3

\* The packets wanted of the batch, one decision of the processor at a time.
LEMMA WantedUnfolds ==
    ASSUME fate \in Seq(Fates), Kept[Len(input)] \in Seq(Headed),
           Len(fate) = Len(Kept[Len(input)]), ProtoLatest \in BOOLEAN
    PROVE  /\ Wanted \in [0 .. Len(fate) -> Seq(Payload)]
           /\ Wanted[0] = <<>>
           /\ \A i \in 1 .. Len(fate) :
                 Wanted[i] = IF fate[i] = "cancel" THEN Wanted[i - 1]
                             ELSE Append(Wanted[i - 1],
                                         Encoded(Kept[Len(input)][i], ProtoLatest,
                                                 fate[i] = "modify"))
<1>. DEFINE k == Kept[Len(input)]
            l == ProtoLatest
            g == WantedBy(fate, k, l)
<1>. HIDE DEF k, l
<1>1. k \in Seq(Headed) /\ Len(fate) = Len(k) /\ l \in BOOLEAN
  BY DEF k, l
<1>2. /\ g \in [0 .. Len(fate) -> Seq(Payload)]
      /\ g[0] = <<>>
      /\ \A i \in 1 .. Len(fate) :
            g[i] = IF fate[i] = "cancel" THEN g[i - 1]
                   ELSE Append(g[i - 1], Encoded(k[i], l, fate[i] = "modify"))
  BY <1>1, WantedFacts
<1>3. Wanted = g
  BY WantedIs DEF k, l
<1>. HIDE DEF g
<1>. QED  BY <1>2, <1>3 DEF k, l

\* A step that changes neither the batch nor the options changes none of these.
LEMMA SameBatch ==
    ASSUME input' = input, opts' = opts
    PROVE  /\ Kept' = Kept
           /\ \A p : Loaded(p)' = Loaded(p) /\ (RawAllowed(p)' <=> RawAllowed(p))
           /\ \A p, f : Processed(p, f)' = Processed(p, f)
           /\ fate' = fate => Wanted' = Wanted
<1>1. Kept' = Kept
  BY KeptIs
<1>2. ProtoLatest' = ProtoLatest
  BY DEF ProtoLatest
<1>3. fate' = fate => Wanted' = Wanted
  BY <1>1, <1>2, WantedIs
<1>4. \A p : Loaded(p)' = Loaded(p) /\ (RawAllowed(p)' <=> RawAllowed(p))
  BY DEF Loaded, RawAllowed
<1>5. \A p, f : Processed(p, f)' = Processed(p, f)
  BY DEF Processed, Loaded, RawAllowed
<1>. QED  BY <1>1, <1>3, <1>4, <1>5

-----------------------------------------------------------------------------
\* Contexts.

\* The first context of a batch, and the others.
LEMMA TailFacts ==
    ASSUME NEW S, NEW s \in Seq(S), s # <<>>
    PROVE  /\ Len(s) \in Nat \ {0} /\ Head(s) \in S /\ Head(s) = s[1]
           /\ Tail(s) \in Seq(S) /\ Len(Tail(s)) = Len(s) - 1
           /\ \A i \in 1 .. Len(s) - 1 : i + 1 \in 1 .. Len(s) /\ Tail(s)[i] = s[i + 1]
  OBVIOUS

\* One more context.
LEMMA AppendFacts ==
    ASSUME NEW S, NEW s \in Seq(S), NEW x \in S
    PROVE  /\ Append(s, x) \in Seq(S) /\ Len(s) \in Nat /\ Len(Append(s, x)) = Len(s) + 1
           /\ \A i \in 1 .. Len(s) : Append(s, x)[i] = s[i]
           /\ Append(s, x)[Len(s) + 1] = x
  OBVIOUS

\* ContextsApart in terms of indices.
Apart(s, p, o) ==
    /\ \A i, j \in 1 .. Len(s) : i # j => s[i] # s[j]
    /\ \A i \in 1 .. Len(s) : s[i] \notin p /\ s[i] \notin o
    /\ p \cap o = {}

\* The two forms agree, before a step and after it.
LEMMA ApartIs ==
    /\ ctxBatch \in Seq(Ctxs) => (ContextsApart <=> Apart(ctxBatch, pool, other))
    /\ ctxBatch' \in Seq(Ctxs) => (ContextsApart' <=> Apart(ctxBatch', pool', other'))
  BY DEF ContextsApart, Apart, Range

\* The contexts of a batch are its range.
LEMMA RangeFacts ==
    ASSUME ctxBatch \in Seq(Ctxs), NEW c
    PROVE  c \in Range(ctxBatch) <=> \E i \in 1 .. Len(ctxBatch) : ctxBatch[i] = c
  BY DEF Range

\* What NewPacketContext sets in a cleared context.
LEMMA FreshSet ==
    ASSUME NEW r, NEW d
    PROVE  [Fresh EXCEPT !.raw = r, !.decoded = d]
              = [raw |-> r, decoded |-> d, modified |-> FALSE, canceled |-> FALSE]
<1>. DEFINE A == {<<>>, r}
            D == {<<>>, d}
            x == [Fresh EXCEPT !.raw = r, !.decoded = d]
<1>1. Fresh \in [raw : A, decoded : D, modified : BOOLEAN, canceled : BOOLEAN]
  BY DEF Fresh
<1>2. r \in A /\ d \in D
  OBVIOUS
<1>. HIDE DEF A, D
<1>3. x \in [raw : A, decoded : D, modified : BOOLEAN, canceled : BOOLEAN]
  BY <1>1, <1>2, Zenon
<1>4. x.raw = r /\ x.decoded = d /\ x.modified = Fresh.modified /\ x.canceled = Fresh.canceled
  BY <1>1
<1>5. Fresh.modified = FALSE /\ Fresh.canceled = FALSE
  BY DEF Fresh
<1>. HIDE DEF x
<1>6. x = [raw |-> x.raw, decoded |-> x.decoded, modified |-> x.modified,
           canceled |-> x.canceled]
  BY <1>3
<1>. QED  BY <1>4, <1>5, <1>6, Zenon DEF x

\* A context for one more packet is nobody else's and was cleared.
LEMMA NewContext ==
    ASSUME PoolInv, BatchInv, NEW p \in Headed, NEW c \in Ctxs,
           NewPacketContext(c, <<Encoded(p, opts.latest, FALSE)>>,
                            IF RawAllowed(p) THEN <<>> ELSE <<p>>),
           ctxBatch' = Append(ctxBatch, c), other' = other
    PROVE  PoolInv' /\ mem' = [mem EXCEPT ![c] = Loaded(p)]
                    /\ \A i \in 1 .. Len(ctxBatch) : ctxBatch[i] # c
<1>1. /\ \A i \in 1 .. Len(ctxBatch) : ctxBatch[i] # c
      /\ c \notin other
      /\ c \in pool => mem[c] = Fresh
  <2>1. c \in pool \/ (c \notin Range(ctxBatch) /\ c \notin other)
    BY DEF NewPacketContext, Gettable, InUse
  <2>2. Apart(ctxBatch, pool, other)
    BY ApartIs DEF PoolInv
  <2>3. ctxBatch \in Seq(Ctxs)
    BY DEF PoolInv
  <2>4. CASE c \in pool
    BY <2>2, <2>4 DEF Apart, PoolInv
  <2>5. CASE c \notin pool
    BY <2>1, <2>3, <2>5, RangeFacts
  <2>. QED  BY <2>4, <2>5
<1>2. mem' = [mem EXCEPT ![c] = Loaded(p)]
  <2>. DEFINE old == IF c \in pool THEN mem[c] ELSE Fresh
              raw == <<Encoded(p, opts.latest, FALSE)>>
              decoded == IF RawAllowed(p) THEN <<>> ELSE <<p>>
  <2>1. mem' = [mem EXCEPT ![c] = [old EXCEPT !.raw = raw, !.decoded = decoded]]
    BY DEF NewPacketContext
  <2>2. old = Fresh
    BY <1>1
  <2>. HIDE DEF old, raw, decoded
  <2>3. [Fresh EXCEPT !.raw = raw, !.decoded = decoded]
          = [raw |-> raw, decoded |-> decoded, modified |-> FALSE, canceled |-> FALSE]
    BY FreshSet, Zenon
  <2>4. Loaded(p)
          = [raw |-> raw, decoded |-> decoded, modified |-> FALSE, canceled |-> FALSE]
    BY DEF Loaded, raw, decoded
  <2>. QED  BY <2>1, <2>2, <2>3, <2>4, Zenon
<1>3. Loaded(p) \in Context
  <2>. DEFINE x == Encoded(p, opts.latest, FALSE)
  <2>1. x \in Payload
    BY EncodedType, Zenon DEF BatchInv
  <2>. HIDE DEF x
  <2>2. <<x>> \in Seq(Payload) /\ Len(<<x>>) <= 1
    BY <2>1
  <2>3. p \in Packets
    BY DEF Headed
  <2>4. <<p>> \in Seq(Packets) /\ Len(<<p>>) <= 1 /\ <<>> \in Seq(Packets) /\ Len(<<>>) <= 1
    BY <2>3
  <2>. QED  BY <2>2, <2>4, Zenon DEF Loaded, Context, x
<1>4. mem' \in [Ctxs -> Context]
  BY <1>2, <1>3 DEF PoolInv
<1>5. pool' = pool \ {c} /\ ctxBatch \in Seq(Ctxs) /\ pool \subseteq Ctxs /\ other \subseteq Ctxs
  BY DEF NewPacketContext, PoolInv
<1>6. ctxBatch' \in Seq(Ctxs)
  BY <1>5
<1>7. \A d \in pool' : mem'[d] = Fresh
  BY <1>2, <1>5 DEF PoolInv
<1>8. Apart(ctxBatch', pool', other')
  <2>1. Apart(ctxBatch, pool, other)
    BY ApartIs DEF PoolInv
  <2>2. /\ Len(ctxBatch) \in Nat /\ Len(ctxBatch') = Len(ctxBatch) + 1
        /\ \A i \in 1 .. Len(ctxBatch) : ctxBatch'[i] = ctxBatch[i]
        /\ ctxBatch'[Len(ctxBatch) + 1] = c
    BY <1>5, AppendFacts
  <2>3. \A i \in 1 .. Len(ctxBatch') : i \in 1 .. Len(ctxBatch) \/ i = Len(ctxBatch) + 1
    BY <2>2
  <2>. QED  BY <1>1, <1>5, <2>1, <2>2, <2>3 DEF Apart
<1>. QED  BY <1>1, <1>2, <1>4, <1>5, <1>6, <1>7, <1>8, ApartIs DEF PoolInv

\* The first context of the batch is returned to the pool or forgotten.
LEMMA ContextGone ==
    ASSUME PoolInv, ctxBatch # <<>>,
           ReturnPacketContext(Head(ctxBatch)) \/ Forget(Head(ctxBatch)),
           ctxBatch' = Tail(ctxBatch), other' = other
    PROVE  PoolInv' /\ mem' = [mem EXCEPT ![Head(ctxBatch)] = Fresh]
<1>. DEFINE c == Head(ctxBatch)
<1>1. mem' = [mem EXCEPT ![c] = Fresh] /\ (pool' = pool \cup {c} \/ pool' = pool)
  BY DEF ReturnPacketContext, Forget
<1>2. /\ Len(ctxBatch) \in Nat \ {0} /\ c \in Ctxs /\ c = ctxBatch[1]
      /\ ctxBatch' \in Seq(Ctxs) /\ Len(ctxBatch') = Len(ctxBatch) - 1
      /\ \A i \in 1 .. Len(ctxBatch) - 1 :
            i + 1 \in 1 .. Len(ctxBatch) /\ ctxBatch'[i] = ctxBatch[i + 1]
  BY TailFacts DEF PoolInv
<1>. HIDE DEF c
<1>3. Fresh \in Context
  BY DEF Fresh, Context
<1>4. mem' \in [Ctxs -> Context] /\ \A d \in pool' : mem'[d] = Fresh
  BY <1>1, <1>2, <1>3 DEF PoolInv
<1>5. Apart(ctxBatch', pool', other')
  <2>1. Apart(ctxBatch, pool, other)
    BY ApartIs DEF PoolInv
  <2>2. \A i \in 1 .. Len(ctxBatch') : i + 1 # 1 /\ ctxBatch'[i] # c
    BY <1>2, <2>1 DEF Apart
  <2>3. c \notin other
    BY <1>2, <2>1 DEF Apart
  <2>4. \A i, j \in 1 .. Len(ctxBatch') : i # j => ctxBatch'[i] # ctxBatch'[j]
    <3>. SUFFICES ASSUME NEW i \in 1 .. Len(ctxBatch'), NEW j \in 1 .. Len(ctxBatch'), i # j
                  PROVE  ctxBatch'[i] # ctxBatch'[j]
      OBVIOUS
    <3>1. i + 1 # j + 1 /\ i + 1 \in 1 .. Len(ctxBatch) /\ j + 1 \in 1 .. Len(ctxBatch)
      BY <1>2
    <3>. QED  BY <1>2, <2>1, <3>1 DEF Apart
  <2>5. \A i \in 1 .. Len(ctxBatch') : ctxBatch'[i] \notin pool' /\ ctxBatch'[i] \notin other'
    BY <1>1, <1>2, <2>1, <2>2 DEF Apart
  <2>. QED  BY <1>1, <2>1, <2>3, <2>4, <2>5 DEF Apart
<1>. QED  BY <1>1, <1>2, <1>4, <1>5, ApartIs DEF PoolInv, c

\* What the processor's decision f does to a context.
Marked(m, f) == [m EXCEPT !.canceled = @ \/ f = "cancel", !.modified = @ \/ f = "modify"]
Marking(f) ==
    [c \in Ctxs |-> IF \E i \in DOMAIN f : ctxBatch[i] = c
                    THEN Marked(mem[c], f[CHOOSE i \in DOMAIN f : ctxBatch[i] = c])
                    ELSE mem[c]]

\* The processor marks the contexts of the batch, each by its own decision.
LEMMA ContextsMarked ==
    ASSUME PoolInv, NEW f \in [DOMAIN ctxBatch -> Fates],
           mem' = Marking(f),
           ctxBatch' = ctxBatch, pool' = pool, other' = other
    PROVE  /\ PoolInv'
           /\ f \in Seq(Fates) /\ Len(f) = Len(ctxBatch)
           /\ \A i \in 1 .. Len(ctxBatch) : mem'[ctxBatch[i]] = Marked(mem[ctxBatch[i]], f[i])
<1>. DEFINE At(c) == CHOOSE i \in DOMAIN f : ctxBatch[i] = c
<1>1. /\ ctxBatch \in Seq(Ctxs) /\ Len(ctxBatch) \in Nat
      /\ DOMAIN ctxBatch = 1 .. Len(ctxBatch) /\ DOMAIN f = 1 .. Len(ctxBatch)
  BY DEF PoolInv
<1>2. f \in Seq(Fates) /\ Len(f) = Len(ctxBatch)
  <2>1. PICK n \in Nat : n = Len(ctxBatch)
    BY <1>1, Zenon
  <2>2. f \in [1 .. n -> Fates]
    BY <1>1, <2>1
  <2>. QED  BY <2>1, <2>2
<1>3. Apart(ctxBatch, pool, other)
  BY ApartIs DEF PoolInv
<1>4. mem' = [c \in Ctxs |-> IF \E i \in DOMAIN f : ctxBatch[i] = c
                             THEN Marked(mem[c], f[At(c)]) ELSE mem[c]]
  BY DEF Marking
<1>5. ASSUME NEW i \in 1 .. Len(ctxBatch) PROVE At(ctxBatch[i]) = i
  <2>. DEFINE k == At(ctxBatch[i])
  <2>1. k \in 1 .. Len(ctxBatch) /\ ctxBatch[k] = ctxBatch[i]
    BY <1>1
  <2>. HIDE DEF k
  <2>2. k = i
    BY <1>3, <2>1 DEF Apart
  <2>. QED  BY <2>2 DEF k
<1>. HIDE DEF At
<1>6. ASSUME NEW i \in 1 .. Len(ctxBatch)
      PROVE  ctxBatch[i] \in Ctxs /\ mem'[ctxBatch[i]] = Marked(mem[ctxBatch[i]], f[i])
  BY <1>1, <1>4, <1>5
<1>7. ASSUME NEW m \in Context, NEW x PROVE Marked(m, x) \in Context
  BY Zenon DEF Marked, Context
<1>8. mem' \in [Ctxs -> Context]
  <2>. SUFFICES ASSUME NEW c \in Ctxs
                PROVE  (IF \E i \in DOMAIN f : ctxBatch[i] = c
                        THEN Marked(mem[c], f[At(c)]) ELSE mem[c]) \in Context
    BY <1>4
  <2>1. mem[c] \in Context
    BY DEF PoolInv
  <2>. QED  BY <1>7, <2>1
<1>9. ASSUME NEW c \in pool PROVE mem'[c] = Fresh
  <2>1. c \in Ctxs /\ mem[c] = Fresh /\ ~\E i \in DOMAIN f : ctxBatch[i] = c
    BY <1>1, <1>3 DEF Apart, PoolInv
  <2>. QED  BY <1>4, <2>1
<1>10. ctxBatch' \in Seq(Ctxs) /\ Apart(ctxBatch', pool', other')
  BY <1>1, <1>3
<1>. QED  BY <1>2, <1>6, <1>8, <1>9, <1>10, ApartIs DEF PoolInv

\* Every step keeps the contexts apart and the pooled ones cleared.
LEMMA PoolStep ==
    ASSUME PoolInv, BatchInv, [Next]_vars
    PROVE  PoolInv'
<1>1. ASSUME UNCHANGED <<poolVars, ctxBatch>> PROVE PoolInv'
  BY <1>1 DEF PoolInv, ContextsApart, poolVars
<1>2. CASE DecodeNext
  <2>. DEFINE p == input[done + 1]
  <2>1. CASE DecodeFails(p) /\ UNCHANGED <<ctxBatch, mem, pool>>
    BY <1>1, <1>2, <2>1 DEF DecodeNext, poolVars
  <2>2. CASE Dropped(p) /\ UNCHANGED <<ctxBatch, mem, pool>>
    BY <1>1, <1>2, <2>2 DEF DecodeNext, poolVars
  <2>3. ASSUME ~DecodeFails(p), NEW c \in Ctxs,
               NewPacketContext(c, <<Encoded(p, opts.latest, FALSE)>>,
                                IF RawAllowed(p) THEN <<>> ELSE <<p>>),
               ctxBatch' = Append(ctxBatch, c)
        PROVE  PoolInv'
    <3>1. p \in Packets
      BY <1>2 DEF DecodeNext, BatchInv
    <3>. HIDE DEF p
    <3>2. p \in Headed
      BY <2>3, <3>1 DEF DecodeFails, Headed
    <3>3. other' = other
      BY <1>2 DEF DecodeNext
    <3>. QED  BY <2>3, <3>2, <3>3, NewContext, Zenon
  <2>. QED  BY <1>2, <2>1, <2>2, <2>3, Zenon DEF DecodeNext
<1>3. CASE ProcessClient
  <2>1. PICK f \in [DOMAIN ctxBatch -> Fates] : mem' = Marking(f)
    BY <1>3, Zenon DEF ProcessClient, Fates, Marking, Marked
  <2>. QED  BY <1>3, <2>1, ContextsMarked, Zenon DEF ProcessClient
<1>4. CASE EncodeNext
  <2>1. /\ ctxBatch # <<>> /\ ctxBatch' = Tail(ctxBatch) /\ other' = other
        /\ ReturnPacketContext(Head(ctxBatch)) \/ Forget(Head(ctxBatch))
    BY <1>4 DEF EncodeNext
  <2>. QED  BY <2>1, ContextGone, SMTT(30)
<1>5. CASE ClientEnds
  <2>1. Fresh \in Context
    BY DEF Fresh, Context
  <2>2. mem' \in [Ctxs -> Context] /\ \A c \in pool : mem'[c] = Fresh
    BY <1>5, <2>1 DEF ClientEnds, PoolInv
  <2>3. ctxBatch' = <<>> /\ pool' = pool /\ other' = other /\ pool \cap other = {}
    BY <1>5 DEF ClientEnds, PoolInv, ContextsApart
  <2>4. ctxBatch' \in Seq(Ctxs) /\ Apart(ctxBatch', pool', other')
    BY <2>3 DEF Apart
  <2>. QED  BY <2>2, <2>3, <2>4, ApartIs DEF PoolInv
<1>6. CASE OtherTakes
  <2>1. PICK c \in pool :
           /\ mem' = [mem EXCEPT ![c] = [raw |-> <<>>, decoded |-> <<>>,
                                         modified |-> TRUE, canceled |-> TRUE]]
           /\ pool' = pool \ {c} /\ other' = {c}
    BY <1>6, Zenon DEF OtherTakes
  <2>2. ctxBatch' = ctxBatch /\ ctxBatch \in Seq(Ctxs) /\ c \in Ctxs
    BY <1>6 DEF OtherTakes, batchVars, PoolInv
  <2>3. [raw |-> <<>>, decoded |-> <<>>, modified |-> TRUE, canceled |-> TRUE] \in Context
    BY DEF Context
  <2>4. mem' \in [Ctxs -> Context] /\ \A d \in pool' : mem'[d] = Fresh
    BY <2>1, <2>2, <2>3 DEF PoolInv
  <2>5. Apart(ctxBatch, pool, other)
    BY ApartIs DEF PoolInv
  <2>6. Apart(ctxBatch', pool', other')
    BY <2>1, <2>2, <2>5 DEF Apart
  <2>. QED  BY <2>1, <2>2, <2>4, <2>6, ApartIs DEF PoolInv
<1>7. CASE OtherReturns
  <2>1. PICK c \in other : ReturnPacketContext(c) \/ Forget(c)
    BY <1>7 DEF OtherReturns
  <2>2. ctxBatch' = ctxBatch /\ ctxBatch \in Seq(Ctxs) /\ c \in Ctxs /\ other' = {}
    BY <1>7 DEF OtherReturns, batchVars, PoolInv
  <2>3. mem' = [mem EXCEPT ![c] = Fresh] /\ pool' \in {pool, pool \cup {c}}
    BY <2>1 DEF ReturnPacketContext, Forget
  <2>4. Fresh \in Context
    BY DEF Fresh, Context
  <2>5. mem' \in [Ctxs -> Context] /\ \A d \in pool' : mem'[d] = Fresh
    BY <2>2, <2>3, <2>4 DEF PoolInv
  <2>6. Apart(ctxBatch, pool, other)
    BY ApartIs DEF PoolInv
  <2>7. Apart(ctxBatch', pool', other')
    BY <2>2, <2>3, <2>6 DEF Apart
  <2>. QED  BY <2>2, <2>3, <2>5, <2>7, ApartIs DEF PoolInv
<1>8. CASE UNCHANGED vars
  BY <1>1, <1>8 DEF vars, batchVars
<1>9. CASE \/ ReadBatch \/ WriteBatch \/ WriteBatchFrame \/ ClientWrites
           \/ LatencyTick \/ LatencyFrame \/ LatencyWrites \/ ConnClosed
           \/ StreamEnds \/ PeerReads
  BY <1>1, <1>9 DEF ReadBatch, WriteBatch, WriteBatchFrame, ClientWrites, LatencyTick,
     LatencyFrame, LatencyWrites, ConnClosed, StreamEnds, PeerReads, batchVars
<1>. QED  BY <1>2, <1>3, <1>4, <1>5, <1>6, <1>7, <1>8, <1>9 DEF Next

-----------------------------------------------------------------------------
\* The batch.

\* Steps that leave the batch and its contexts alone.
LEMMA SamePhase ==
    ASSUME UNCHANGED <<opts, input, done, ctxBatch, fate, payloads>>,
           \A i \in 1 .. Len(ctxBatch) : mem'[ctxBatch[i]] = mem[ctxBatch[i]]
    PROVE  (Idle => Idle') /\ (Decoding => Decoding') /\ (Encoding => Encoding')
<1>1. /\ Kept' = Kept /\ Wanted' = Wanted
      /\ \A p : Loaded(p)' = Loaded(p) /\ (RawAllowed(p)' <=> RawAllowed(p))
      /\ \A p, f : Processed(p, f)' = Processed(p, f)
  BY SameBatch
<1>2. Idle => Idle'
  BY DEF Idle
<1>3. Decoding => Decoding'
  BY <1>1 DEF Decoding
<1>4. Encoding => Encoding'
  BY <1>1 DEF Encoding
<1>. QED  BY <1>2, <1>3, <1>4

\* A batch is read.
LEMMA BatchRead ==
    ASSUME BatchInv, ReadBatch
    PROVE  BatchInv'
<1>1. PICK m \in 1 .. MaxBatch : input' \in [1 .. m -> Packets]
  BY DEF ReadBatch
<1>2. input' \in Seq(Packets) /\ Len(input') <= MaxBatch /\ Len(input') \in Nat
  <2>. DEFINE b == input'
  <2>. HIDE DEF b
  <2>1. m \in Nat /\ m <= MaxBatch /\ b \in [1 .. m -> Packets]
    BY <1>1, BoundsAssumption DEF b
  <2>2. b \in Seq(Packets) /\ Len(b) = m
    BY <2>1
  <2>. QED  BY <2>1, <2>2 DEF b
<1>3. Idle /\ UNCHANGED <<opts, done, ctxBatch, fate, payloads>> /\ client' = "decode"
  BY DEF BatchInv, ReadBatch
<1>4. Kept'[0] = <<>>
  BY <1>2, KeptIs, KeptFacts
<1>5. Decoding'
  BY <1>3, <1>4 DEF Idle, Decoding
<1>. QED  BY <1>2, <1>3, <1>5 DEF BatchInv, PanicOnlyLegacySync, Idle

\* A packet of the batch is decoded.
LEMMA BatchDecodes ==
    ASSUME PoolInv, BatchInv, DecodeNext
    PROVE  BatchInv'
<1>. DEFINE p == input[done + 1]
<1>1. /\ client = "decode" /\ Decoding /\ UNCHANGED <<opts, input, fate, payloads, other>>
      /\ Kept' = Kept /\ \A q : Loaded(q)' = Loaded(q)
  BY SameBatch DEF BatchInv, DecodeNext
<1>2. /\ done \in Nat /\ Len(input) \in Nat /\ done + 1 \in 1 .. Len(input)
      /\ (done + 1) - 1 = done /\ p \in Packets
  BY DEF BatchInv, DecodeNext
<1>3. Kept[done + 1] = IF Dropped(p) THEN Kept[done] ELSE Append(Kept[done], p)
  BY <1>2, KeptUnfolds DEF BatchInv
<1>. HIDE DEF p
<1>4. CASE client' = "failed" /\ done' = done
  BY <1>1, <1>4 DEF BatchInv, PanicOnlyLegacySync
<1>5. CASE Dropped(p) /\ client' = client /\ done' = done + 1 /\ UNCHANGED <<ctxBatch, mem>>
  <2>1. Decoding'
    BY <1>1, <1>3, <1>5 DEF Decoding
  <2>. QED  BY <1>1, <1>2, <1>5, <2>1 DEF BatchInv, PanicOnlyLegacySync
<1>6. ASSUME ~DecodeFails(p), ~Dropped(p), NEW c \in Ctxs,
             NewPacketContext(c, <<Encoded(p, opts.latest, FALSE)>>,
                              IF RawAllowed(p) THEN <<>> ELSE <<p>>),
             ctxBatch' = Append(ctxBatch, c), done' = done + 1, client' = client
      PROVE  BatchInv'
  <2>1. p \in Headed
    BY <1>2, <1>6 DEF DecodeFails, Headed
  <2>2. mem' = [mem EXCEPT ![c] = Loaded(p)] /\ \A i \in 1 .. Len(ctxBatch) : ctxBatch[i] # c
    BY <1>1, <1>6, <2>1, NewContext, Zenon
  <2>. DEFINE k == Kept[done]
              kk == Kept[done + 1]
              n == Len(ctxBatch)
  <2>3. /\ k \in Seq(Headed) /\ n = Len(k)
        /\ \A i \in 1 .. n : mem[ctxBatch[i]] = Loaded(k[i])
        /\ kk = Append(k, p)
    BY <1>1, <1>3, <1>6 DEF Decoding
  <2>4. ctxBatch \in Seq(Ctxs) /\ mem \in [Ctxs -> Context]
    BY DEF PoolInv
  <2>. HIDE DEF k, kk
  <2>5. /\ n \in Nat /\ Len(ctxBatch') = n + 1 /\ ctxBatch'[n + 1] = c
        /\ \A i \in 1 .. n : ctxBatch'[i] = ctxBatch[i] /\ ctxBatch[i] \in Ctxs
    BY <1>6, <2>4, AppendFacts
  <2>6. /\ kk \in Seq(Headed) /\ Len(kk) = n + 1 /\ kk[n + 1] = p
        /\ \A i \in 1 .. n : kk[i] = k[i]
    BY <2>1, <2>3, AppendFacts
  <2>. HIDE DEF n
  <2>7. ASSUME NEW i \in 1 .. n + 1 PROVE mem'[ctxBatch'[i]] = Loaded(kk[i])
    <3>1. CASE i = n + 1
      BY <2>2, <2>4, <2>5, <2>6, <3>1
    <3>2. CASE i \in 1 .. n
      <4>1. ctxBatch'[i] = ctxBatch[i] /\ ctxBatch[i] \in Ctxs /\ ctxBatch[i] # c
        BY <2>2, <2>5, <3>2 DEF n
      <4>2. mem'[ctxBatch[i]] = mem[ctxBatch[i]]
        BY <2>2, <2>4, <4>1
      <4>. QED  BY <2>3, <2>6, <3>2, <4>1, <4>2
    <3>. QED  BY <2>5, <3>1, <3>2
  <2>8. Kept'[done'] = kk
    BY <1>1, <1>6 DEF kk
  <2>9. Decoding'
    BY <1>1, <2>5, <2>6, <2>7, <2>8 DEF Decoding
  <2>. QED  BY <1>1, <1>2, <1>6, <2>9 DEF BatchInv, PanicOnlyLegacySync
<1>. QED  BY <1>4, <1>5, <1>6, Zenon DEF DecodeNext, p

\* What the marks are on a context that decodeAndCreateContext left.
LEMMA MarkedLoaded ==
    ASSUME NEW p, NEW f
    PROVE  Marked(Loaded(p), f) = Processed(p, f)
<1>1. Loaded(p).canceled = FALSE /\ Loaded(p).modified = FALSE
  BY DEF Loaded
<1>2. (Loaded(p).canceled \/ f = "cancel") = (f = "cancel")
  BY <1>1
<1>3. (Loaded(p).modified \/ f = "modify") = (f = "modify")
  BY <1>1
<1>. QED  BY <1>2, <1>3, Zenon DEF Marked, Processed

\* The fields of a context after the processor.
HoldsProcessed(m, p, f) ==
    /\ m.raw = <<Encoded(p, opts.latest, FALSE)>>
    /\ m.decoded = IF RawAllowed(p) THEN <<>> ELSE <<p>>
    /\ m.canceled = (f = "cancel") /\ m.modified = (f = "modify")

\* A context has these once the processor marked it.
LEMMA ProcessedFields ==
    ASSUME NEW p, NEW f
    PROVE  HoldsProcessed(Processed(p, f), p, f)
  BY Zenon DEF HoldsProcessed, Processed, Loaded

\* The processor decides about every packet.
LEMMA BatchProcessed ==
    ASSUME PoolInv, BatchInv, ProcessClient
    PROVE  BatchInv'
<1>1. /\ client = "decode" /\ Decoding /\ done = Len(input) /\ client' = "encode"
      /\ UNCHANGED <<opts, input, done, ctxBatch, payloads, pool, other>>
      /\ Kept' = Kept /\ (\A p : RawAllowed(p)' <=> RawAllowed(p))
      /\ (\A p, g : Processed(p, g)' = Processed(p, g))
  BY SameBatch, Zenon DEF BatchInv, ProcessClient
<1>2. PICK f \in [DOMAIN ctxBatch -> Fates] :
         /\ mem' = Marking(f) /\ fate' = f
         /\ \A i \in DOMAIN f : f[i] = "modify" => mem[ctxBatch[i]].decoded # <<>>
  BY Zenon DEF ProcessClient, Fates, Marking, Marked
<1>3. /\ f \in Seq(Fates) /\ Len(f) = Len(ctxBatch)
      /\ \A i \in 1 .. Len(ctxBatch) : mem'[ctxBatch[i]] = Marked(mem[ctxBatch[i]], f[i])
  BY <1>1, <1>2, ContextsMarked
<1>. DEFINE k == Kept[done]
            n == Len(ctxBatch)
<1>4. /\ k \in Seq(Headed) /\ n = Len(k) /\ n \in Nat
      /\ payloads = <<>> /\ \A i \in 1 .. n : mem[ctxBatch[i]] = Loaded(k[i])
  BY <1>1 DEF Decoding
<1>. HIDE DEF k
<1>5. \A i \in 1 .. n : mem'[ctxBatch[i]] = Processed(k[i], f[i])
  BY <1>3, <1>4, MarkedLoaded
<1>6. ASSUME NEW i \in 1 .. Len(f), f[i] = "modify" PROVE ~RawAllowed(k[i])
  <2>1. DOMAIN f = 1 .. Len(f)
    BY <1>3
  <2>2. mem[ctxBatch[i]].decoded # <<>>
    BY <1>2, <1>6, <2>1
  <2>3. mem[ctxBatch[i]] = Loaded(k[i])
    BY <1>3, <1>4
  <2>. QED  BY <2>2, <2>3 DEF Loaded
<1>7. Kept'[Len(input')] = k /\ Kept'[done'] = k
  BY <1>1 DEF k
<1>8. ProtoLatest' \in BOOLEAN
  BY DEF ProtoLatest
<1>9. Wanted'[0] = <<>>
  <2>. DEFINE l == ProtoLatest'
  <2>. HIDE DEF l
  <2>1. l \in BOOLEAN
    BY <1>8 DEF l
  <2>2. WantedBy(f, k, l)[0] = <<>>
    BY <1>3, <1>4, <2>1, WantedFacts
  <2>. QED  BY <1>2, <1>7, <2>2, WantedIs DEF l
<1>10. Encoding'
  <2>1. /\ done' = Len(input') /\ Kept'[done'] \in Seq(Headed) /\ fate' \in Seq(Fates)
        /\ Len(fate') = Len(Kept'[done']) /\ Len(ctxBatch') = Len(fate')
        /\ Len(ctxBatch') <= Len(fate')
    BY <1>1, <1>2, <1>3, <1>4, <1>7
  <2>2. (\A i \in 1 .. Len(fate) : fate[i] = "modify" => ~RawAllowed(Kept[done][i]))'
    BY <1>1, <1>2, <1>6, <1>7
  <2>3. payloads' = Wanted'[Len(fate') - Len(ctxBatch')]
    BY <1>1, <1>3, <1>2, <1>4, <1>9
  <2>4. ASSUME NEW i \in 1 .. Len(ctxBatch')
        PROVE  (LET m == (Len(fate) - Len(ctxBatch)) + i IN
                mem[ctxBatch[i]] = Processed(Kept[done][m], fate[m]))'
    <3>1. (Len(fate') - Len(ctxBatch')) + i = i
      BY <1>1, <1>2, <1>3, <1>4
    <3>2. i \in 1 .. n
      BY <1>1
    <3>3. mem'[ctxBatch'[i]] = Processed(k[i], f[i])
      BY <1>1, <1>5, <3>2, SMTT(30)
    <3>. QED  BY <1>1, <1>2, <1>7, <3>1, <3>3
  <2>. QED  BY <2>1, <2>2, <2>3, <2>4 DEF Encoding
<1>. QED  BY <1>1, <1>10 DEF BatchInv, PanicOnlyLegacySync

\* One context of the second loop gives what is wanted of it, or panics.
LEMMA EncodesWanted ==
    ASSUME PoolInv, BatchInv, EncodeNext
    PROVE  /\ client' = "panicked" => opts.sync /\ ~opts.latest
           /\ client' # "panicked" =>
                 /\ client' = "encode"
                 /\ payloads' = Wanted[(Len(fate) - Len(ctxBatch)) + 1]
<1>. DEFINE n == Len(fate) - Len(ctxBatch)
            k == Kept[done]
            q == k[n + 1]
            g == fate[n + 1]
            c == Head(ctxBatch)
<1>1. client = "encode" /\ Encoding /\ ctxBatch # <<>> /\ opts.latest \in BOOLEAN
      /\ opts.sync \in BOOLEAN
  BY DEF BatchInv, EncodeNext
<1>2. /\ Len(ctxBatch) \in Nat \ {0} /\ c = ctxBatch[1] /\ Len(fate) \in Nat
      /\ Len(ctxBatch) <= Len(fate)
  BY <1>1, TailFacts DEF PoolInv, Encoding
<1>3. n \in Nat /\ n + 1 \in 1 .. Len(fate) /\ (n + 1) - 1 = n /\ 1 \in 1 .. Len(ctxBatch)
  BY <1>2
<1>4. mem[c] = Processed(q, g)
  BY <1>1, <1>2, <1>3 DEF Encoding
<1>5. ProtoLatest \in BOOLEAN
  BY DEF ProtoLatest
<1>6. /\ Wanted[n] \in Seq(Payload)
      /\ Wanted[n + 1] = IF g = "cancel" THEN Wanted[n]
                         ELSE Append(Wanted[n], Encoded(q, ProtoLatest, g = "modify"))
  <2>1. /\ fate \in Seq(Fates) /\ Kept[Len(input)] = k /\ k \in Seq(Headed)
        /\ Len(fate) = Len(k)
    BY <1>1 DEF Encoding
  <2>. HIDE DEF k, n
  <2>2. n \in 0 .. Len(fate)
    BY <1>2, <1>3
  <2>. QED  BY <1>3, <1>5, <2>1, <2>2, WantedUnfolds, Zenon
<1>7. payloads = Wanted[n] /\ (g = "modify" => ~RawAllowed(q))
  BY <1>1, <1>3, Zenon DEF Encoding
<1>. HIDE DEF n, k, q, g, c
<1>8. /\ mem[c].raw = <<Encoded(q, opts.latest, FALSE)>>
      /\ mem[c].decoded = IF RawAllowed(q) THEN <<>> ELSE <<q>>
      /\ mem[c].canceled = (g = "cancel") /\ mem[c].modified = (g = "modify")
  <2>1. HoldsProcessed(mem[c], q, g)
    BY <1>4, ProcessedFields
  <2>. QED  BY <2>1 DEF HoldsProcessed
<1>9. <<q>> # <<>> /\ <<q>>[1] = q
  OBVIOUS
<1>10. CASE mem[c].canceled /\ UNCHANGED <<client, payloads>>
  BY <1>1, <1>6, <1>7, <1>8, <1>10, Zenon DEF n
<1>11. CASE ~mem[c].canceled /\ ForwardsRaw(c) /\ payloads' = payloads \o mem[c].raw
            /\ client' = client
  <2>1. opts.latest = TRUE /\ ProtoLatest = TRUE
    BY <1>1, <1>11 DEF ForwardsRaw, ProtoLatest
  <2>2. (g = "modify") = FALSE
    BY <1>7, <1>8, <1>9, <1>11, Zenon DEF ForwardsRaw
  <2>. DEFINE x == Encoded(q, TRUE, FALSE)
  <2>3. mem[c].raw = <<x>> /\ Wanted[n + 1] = Append(Wanted[n], x)
    BY <1>6, <1>8, <1>11, <2>1, <2>2, Zenon
  <2>. HIDE DEF x
  <2>4. Wanted[n] \o <<x>> = Append(Wanted[n], x)
    BY <1>6
  <2>. QED  BY <1>1, <1>7, <1>11, <2>3, <2>4 DEF n
<1>12. CASE ~mem[c].canceled /\ ~ForwardsRaw(c) /\ mem[c].decoded = <<>>
            /\ client' = "panicked"
  BY <1>8, <1>9, <1>12 DEF ForwardsRaw, RawAllowed
<1>13. CASE ~mem[c].canceled /\ mem[c].decoded # <<>> /\ client' = client
            /\ payloads' = Append(payloads, Encoded(mem[c].decoded[1], ProtoLatest,
                                                    mem[c].modified))
  <2>1. mem[c].decoded = <<q>> /\ mem[c].decoded[1] = q
    BY <1>8, <1>9, <1>13
  <2>. QED  BY <1>1, <1>6, <1>7, <1>8, <1>13, <2>1, Zenon DEF n
<1>. QED  BY <1>10, <1>11, <1>12, <1>13, SMTT(30) DEF EncodeNext, c

\* The second loop handles one context; the others still hold their packets.
LEMMA BatchEncodes ==
    ASSUME PoolInv, BatchInv, EncodeNext
    PROVE  BatchInv'
<1>1. /\ client = "encode" /\ Encoding /\ ctxBatch # <<>> /\ ctxBatch' = Tail(ctxBatch)
      /\ UNCHANGED <<opts, input, done, fate, other>>
      /\ ReturnPacketContext(Head(ctxBatch)) \/ Forget(Head(ctxBatch))
  BY DEF BatchInv, EncodeNext
<1>2. mem' = [mem EXCEPT ![Head(ctxBatch)] = Fresh]
  BY <1>1, ContextGone
<1>3. /\ Kept' = Kept /\ Wanted' = Wanted
      /\ (\A p : RawAllowed(p)' <=> RawAllowed(p))
      /\ (\A p, g : Processed(p, g)' = Processed(p, g))
  BY <1>1, SameBatch
<1>4. /\ Len(ctxBatch) \in Nat \ {0} /\ Len(fate) \in Nat /\ Len(ctxBatch) <= Len(fate)
      /\ Head(ctxBatch) = ctxBatch[1] /\ Len(ctxBatch') = Len(ctxBatch) - 1
      /\ \A i \in 1 .. Len(ctxBatch) - 1 :
            i + 1 \in 1 .. Len(ctxBatch) /\ ctxBatch'[i] = ctxBatch[i + 1]
      /\ ctxBatch \in Seq(Ctxs) /\ mem \in [Ctxs -> Context]
  BY <1>1, TailFacts DEF PoolInv, Encoding
<1>5. /\ Len(fate) - Len(ctxBatch') = (Len(fate) - Len(ctxBatch)) + 1
      /\ Len(ctxBatch') <= Len(fate)
  BY <1>4
<1>6. ASSUME client' # "panicked" PROVE Encoding' /\ client' = "encode"
  <2>1. client' = "encode" /\ payloads' = Wanted[(Len(fate) - Len(ctxBatch)) + 1]
    BY <1>6, EncodesWanted
  <2>2. payloads' = Wanted'[Len(fate') - Len(ctxBatch')]
    BY <1>1, <1>3, <1>5, <2>1
  <2>3. ASSUME NEW i \in 1 .. Len(ctxBatch')
        PROVE  (LET m == (Len(fate) - Len(ctxBatch)) + i IN
                mem[ctxBatch[i]] = Processed(Kept[done][m], fate[m]))'
    <3>1. /\ i + 1 \in 1 .. Len(ctxBatch) /\ i + 1 # 1 /\ ctxBatch'[i] = ctxBatch[i + 1]
          /\ (Len(fate) - Len(ctxBatch')) + i = (Len(fate) - Len(ctxBatch)) + (i + 1)
      BY <1>4
    <3>2. Apart(ctxBatch, pool, other)
      BY ApartIs DEF PoolInv
    <3>3. ctxBatch[i + 1] # Head(ctxBatch) /\ ctxBatch[i + 1] \in Ctxs
      BY <1>4, <3>1, <3>2 DEF Apart
    <3>4. mem'[ctxBatch[i + 1]] = mem[ctxBatch[i + 1]]
      BY <1>2, <1>4, <3>3
    <3>5. LET m == (Len(fate) - Len(ctxBatch)) + (i + 1) IN
          mem[ctxBatch[i + 1]] = Processed(Kept[done][m], fate[m])
      BY <1>1, <3>1, Zenon DEF Encoding
    <3>. QED  BY <1>1, <1>3, <3>1, <3>4, <3>5
  <2>4. /\ done' = Len(input') /\ Kept'[done'] \in Seq(Headed) /\ fate' \in Seq(Fates)
        /\ Len(fate') = Len(Kept'[done']) /\ Len(ctxBatch') <= Len(fate')
    BY <1>1, <1>3, <1>5 DEF Encoding
  <2>5. (\A i \in 1 .. Len(fate) : fate[i] = "modify" => ~RawAllowed(Kept[done][i]))'
    BY <1>1, <1>3 DEF Encoding
  <2>. QED  BY <2>1, <2>2, <2>3, <2>4, <2>5 DEF Encoding
<1>7. PanicOnlyLegacySync'
  BY <1>1, EncodesWanted DEF PanicOnlyLegacySync
<1>8. client' \in {"encode", "panicked"}
  BY <1>6
<1>. QED  BY <1>1, <1>6, <1>7, <1>8 DEF BatchInv

\* Every step keeps the batch, its contexts and its payloads in agreement.
LEMMA BatchStep ==
    ASSUME PoolInv, BatchInv, WriterInv, [Next]_vars
    PROVE  BatchInv'
<1>1. ASSUME UNCHANGED <<opts, batchVars>>,
             \A i \in 1 .. Len(ctxBatch) : mem'[ctxBatch[i]] = mem[ctxBatch[i]]
      PROVE  BatchInv'
  BY <1>1, SamePhase DEF BatchInv, PanicOnlyLegacySync, batchVars
<1>2. CASE ReadBatch
  BY <1>2, BatchRead
<1>3. CASE DecodeNext
  BY <1>3, BatchDecodes
<1>4. CASE ProcessClient
  BY <1>4, BatchProcessed
<1>5. CASE EncodeNext
  BY <1>5, BatchEncodes
<1>6. CASE WriteBatch
  <2>1. client = "encode" /\ ctxBatch = <<>> /\ UNCHANGED <<opts, ctxBatch, mem>>
    BY <1>6 DEF WriteBatch, poolVars
  <2>2. CASE client' = "failed" /\ UNCHANGED <<input, done>>
    BY <2>1, <2>2 DEF BatchInv, PanicOnlyLegacySync
  <2>3. CASE client' = "read" /\ input' = <<>> /\ done' = 0 /\ fate' = <<>> /\ payloads' = <<>>
    BY <2>1, <2>3, BoundsAssumption DEF BatchInv, Idle, PanicOnlyLegacySync
  <2>4. CASE client' = "lock" /\ UNCHANGED <<input, done, fate, payloads>>
    BY <2>1, <2>4, SamePhase DEF BatchInv, PanicOnlyLegacySync
  <2>. QED  BY <1>6, <2>2, <2>3, <2>4 DEF WriteBatch
<1>7. CASE WriteBatchFrame
  BY <1>7, BoundsAssumption DEF WriteBatchFrame, BatchInv, Idle, PanicOnlyLegacySync
<1>8. CASE ClientWrites
  <2>1. rest["client"] # <<>>
    BY <1>8 DEF ClientWrites, WritePart, WriteFails
  <2>2. client = "write"
    BY <2>1, GoroutinesAssumption DEF WriterInv, Held
  <2>3. /\ client' \in {"read", "write", "failed"}
        /\ UNCHANGED <<opts, input, done, ctxBatch, fate, payloads>>
    BY <1>8, <2>2 DEF ClientWrites
  <2>. QED  BY <2>2, <2>3 DEF BatchInv, Idle, PanicOnlyLegacySync
<1>9. CASE ClientEnds
  BY <1>9, BoundsAssumption DEF ClientEnds, BatchInv, Idle, PanicOnlyLegacySync
<1>10. CASE OtherTakes \/ OtherReturns
  <2>1. PICK c \in pool \cup other : \E x : mem' = [mem EXCEPT ![c] = x]
    BY <1>10 DEF OtherTakes, OtherReturns, ReturnPacketContext, Forget
  <2>2. Apart(ctxBatch, pool, other) /\ mem \in [Ctxs -> Context] /\ ctxBatch \in Seq(Ctxs)
    BY ApartIs DEF PoolInv
  <2>3. \A i \in 1 .. Len(ctxBatch) : mem'[ctxBatch[i]] = mem[ctxBatch[i]]
    BY <2>1, <2>2 DEF Apart
  <2>. QED  BY <1>1, <1>10, <2>3 DEF OtherTakes, OtherReturns
<1>11. CASE UNCHANGED vars
  BY <1>1, <1>11 DEF vars, poolVars
<1>12. CASE \/ LatencyTick \/ LatencyFrame \/ LatencyWrites \/ ConnClosed
            \/ StreamEnds \/ PeerReads
  BY <1>1, <1>12 DEF LatencyTick, LatencyFrame, LatencyWrites, ConnClosed, StreamEnds,
     PeerReads, poolVars
<1>. QED  BY <1>2, <1>3, <1>4, <1>5, <1>6, <1>7, <1>8, <1>9, <1>10, <1>11, <1>12 DEF Next

-----------------------------------------------------------------------------
\* The Writer and the stream.

\* The empty sequence has length 0.
LEMMA EmptyLength ==
    ASSUME NEW S, NEW s \in Seq(S)
    PROVE  Len(s) = 0 <=> s = <<>>
  OBVIOUS

\* No frame is left to write.
LEMMA EmptyIsShort == Len(<<>>) <= 2
  OBVIOUS

\* What is left of a frame after one Write.
LEMMA FlatTail ==
    ASSUME NEW S, NEW parts \in Seq(Seq(S)), parts # <<>>, Len(parts) <= 2
    PROVE  /\ Head(parts) \in Seq(S) /\ Tail(parts) \in Seq(Seq(S)) /\ Flat(Tail(parts)) \in Seq(S)
           /\ Flat(parts) = Head(parts) \o Flat(Tail(parts))
           /\ Len(parts) = 1 => Tail(parts) = <<>>
           /\ Len(parts) # 1 => Tail(parts) # <<>> /\ Len(Tail(parts)) = 1
<1>1. /\ Len(parts) \in Nat \ {0} /\ Head(parts) \in Seq(S) /\ Head(parts) = parts[1]
      /\ Tail(parts) \in Seq(Seq(S)) /\ Len(Tail(parts)) = Len(parts) - 1
      /\ \A i \in 1 .. Len(parts) - 1 : i + 1 \in 1 .. Len(parts) /\ Tail(parts)[i] = parts[i + 1]
  BY TailFacts
<1>2. CASE Len(parts) = 1
  <2>1. Tail(parts) = <<>>
    <3>1. Len(Tail(parts)) = 0
      BY <1>1, <1>2
    <3>. QED  BY <1>1, <3>1, EmptyLength, Zenon
  <2>2. Flat(Tail(parts)) = <<>> /\ Flat(parts) = Head(parts)
    BY <1>1, <1>2, <2>1 DEF Flat
  <2>3. Head(parts) \o <<>> = Head(parts) /\ <<>> \in Seq(S)
    BY <1>1
  <2>. QED  BY <1>1, <1>2, <2>1, <2>2, <2>3, Zenon
<1>3. CASE Len(parts) = 2
  <2>1. Tail(parts) # <<>> /\ Len(Tail(parts)) = 1 /\ Tail(parts)[1] = parts[2]
        /\ parts[2] \in Seq(S)
    <3>1. Len(Tail(parts)) = 1 /\ 1 \in 1 .. Len(parts) - 1 /\ 2 \in 1 .. Len(parts)
      BY <1>1, <1>3
    <3>2. Tail(parts)[1] = parts[2]
      BY <1>1, <3>1
    <3>3. parts[2] \in Seq(S)
      BY <3>1
    <3>4. Tail(parts) # <<>>
      <4>. DEFINE t == Tail(parts)
      <4>1. Len(t) = 1 /\ t \in Seq(Seq(S))
        BY <1>1, <3>1
      <4>. HIDE DEF t
      <4>2. Len(t) # 0
        BY <4>1
      <4>3. t # <<>>
        BY <4>1, <4>2, EmptyLength, Zenon
      <4>. QED  BY <4>3 DEF t
    <3>. QED  BY <3>1, <3>2, <3>3, <3>4
  <2>2. Flat(Tail(parts)) = parts[2] /\ Flat(parts) = parts[1] \o parts[2]
    BY <1>3, <2>1 DEF Flat
  <2>. QED  BY <1>1, <1>3, <2>1, <2>2
<1>. QED  BY <1>1, <1>2, <1>3

\* A goroutine takes the mutex to write a frame.
LEMMA LockKeeps ==
    ASSUME Held, stream \in Seq(Byte(Payload)), NEW want \in Seq(Seq(Payload)),
           Carries(Payload, stream, linkUp, Pending, want),
           NEW w \in Writers, NEW x \in Seq(Payload), NEW frame, Writes(Payload, frame, x),
           Lock(w, frame)
    PROVE  /\ Held' /\ mu = "none" /\ mu' = w
           /\ Carries(Payload, stream', linkUp', Pending', Append(want, x))
<1>1. /\ mu = "none" /\ mu' = w /\ rest' = [rest EXCEPT ![w] = frame]
      /\ UNCHANGED <<stream, linkUp>>
  BY DEF Lock
<1>2. frame \in Seq(Seq(Byte(Payload))) /\ Len(frame) = 2
  BY DEF Writes
<1>3. w # "none"
  BY WritersAssumption
<1>4. frame # <<>>
  <2>1. Len(frame) # 0
    BY <1>2
  <2>. QED  BY <1>2, <2>1, EmptyLength, Zenon
<1>5. \A v \in Writers : rest[v] = <<>> /\ v # "none"
  BY <1>1, WritersAssumption DEF Held
<1>6. /\ rest' \in [Writers -> Seq(Seq(Byte(Payload)))] /\ rest'[w] = frame
      /\ \A v \in Writers : v # w => rest'[v] = <<>>
  BY <1>1, <1>2, <1>5 DEF Held
<1>7. \A v \in Writers : Len(rest'[v]) <= 2 /\ (rest'[v] # <<>> <=> mu' = v)
  <2>1. Len(frame) <= 2 /\ Len(<<>>) <= 2
    BY <1>2, EmptyIsShort
  <2>. QED  BY <1>1, <1>4, <1>6, <2>1, Zenon
<1>8. Held'
  BY <1>1, <1>6, <1>7 DEF Held
<1>9. Pending = <<>> /\ Pending' = Flat(frame)
  BY <1>1, <1>3, <1>6 DEF Pending
<1>10. Carries(Payload, stream, linkUp, Flat(frame), Append(want, x))
  <2>1. Carries(Payload, stream, linkUp, <<>>, want) /\ linkUp \in BOOLEAN
    BY <1>9, SMTT(30) DEF Held
  <2>. QED  BY <2>1, CarriesFrame
<1>. QED  BY <1>1, <1>8, <1>9, <1>10

\* The goroutine that has something to write, and what it has.
LEMMA Holder ==
    ASSUME Held, NEW w \in Writers, rest[w] # <<>>
    PROVE  /\ mu = w /\ w # "none" /\ Pending = Flat(rest[w])
           /\ rest[w] \in Seq(Seq(Byte(Payload))) /\ Len(rest[w]) <= 2
           /\ Head(rest[w]) \in Seq(Byte(Payload))
           /\ Flat(Tail(rest[w])) \in Seq(Byte(Payload))
           /\ Pending = Head(rest[w]) \o Flat(Tail(rest[w]))
<1>1. /\ mu = w /\ w # "none" /\ Pending = Flat(rest[w])
      /\ rest[w] \in Seq(Seq(Byte(Payload))) /\ Len(rest[w]) <= 2
  BY WritersAssumption DEF Held, Pending
<1>. DEFINE parts == rest[w]
<1>. HIDE DEF parts
<1>2. parts # <<>> /\ parts \in Seq(Seq(Byte(Payload))) /\ Len(parts) <= 2
  BY <1>1 DEF parts
<1>3. /\ Head(parts) \in Seq(Byte(Payload)) /\ Flat(Tail(parts)) \in Seq(Byte(Payload))
      /\ Flat(parts) = Head(parts) \o Flat(Tail(parts))
  BY <1>2, FlatTail
<1>. QED  BY <1>1, <1>3 DEF parts

\* It makes one of its Write calls.
LEMMA PartKeeps ==
    ASSUME Held, stream \in Seq(Byte(Payload)), NEW want,
           Carries(Payload, stream, linkUp, Pending, want),
           NEW w \in Writers, WritePart(w)
    PROVE  /\ Held' /\ mu = w /\ mu' = IF Len(rest[w]) = 1 THEN "none" ELSE w
           /\ stream' \in Seq(Byte(Payload))
           /\ Carries(Payload, stream', linkUp', Pending', want)
<1>. DEFINE a == Head(rest[w])
            d == Flat(Tail(rest[w]))
<1>1. /\ rest[w] # <<>> /\ rest' = [rest EXCEPT ![w] = Tail(rest[w])]
      /\ stream' = (IF linkUp THEN stream \o a ELSE stream)
      /\ mu' = (IF Len(rest[w]) = 1 THEN "none" ELSE mu) /\ linkUp' = linkUp
  BY DEF WritePart
<1>2. /\ mu = w /\ w # "none" /\ rest[w] \in Seq(Seq(Byte(Payload))) /\ Len(rest[w]) <= 2
      /\ a \in Seq(Byte(Payload)) /\ d \in Seq(Byte(Payload)) /\ Pending = a \o d
  BY <1>1, Holder, Zenon
<1>. DEFINE tl == Tail(rest[w])
<1>3. /\ tl \in Seq(Seq(Byte(Payload)))
      /\ Len(rest[w]) = 1 => tl = <<>>
      /\ Len(rest[w]) # 1 => tl # <<>> /\ Len(tl) = 1
  <2>. DEFINE parts == rest[w]
  <2>. HIDE DEF parts
  <2>1. parts # <<>> /\ parts \in Seq(Seq(Byte(Payload))) /\ Len(parts) <= 2
    BY <1>1, <1>2 DEF parts
  <2>2. /\ Tail(parts) \in Seq(Seq(Byte(Payload)))
        /\ Len(parts) = 1 => Tail(parts) = <<>>
        /\ Len(parts) # 1 => Tail(parts) # <<>> /\ Len(Tail(parts)) = 1
    BY <2>1, FlatTail
  <2>. QED  BY <2>2 DEF parts
<1>4. \A v \in Writers : v # "none" /\ (v # w => rest[v] = <<>>)
  BY <1>2, WritersAssumption DEF Held
<1>. HIDE DEF a, d, tl
<1>5. /\ rest' = [rest EXCEPT ![w] = tl] /\ rest' \in [Writers -> Seq(Seq(Byte(Payload)))]
      /\ rest'[w] = tl /\ \A v \in Writers : v # w => rest'[v] = <<>>
  BY <1>1, <1>3, <1>4 DEF Held, tl
<1>6. mu' = (IF Len(rest[w]) = 1 THEN "none" ELSE w) /\ (tl # <<>> <=> mu' = w)
  BY <1>1, <1>2, <1>3
<1>7. Len(tl) <= 2 /\ Len(<<>>) <= 2
  <2>1. CASE Len(rest[w]) = 1
    BY <1>3, <2>1, EmptyIsShort, Zenon
  <2>2. CASE Len(rest[w]) # 1
    <3>1. Len(tl) = 1
      BY <1>3, <2>2, Zenon
    <3>2. Len(tl) <= 2
      BY <3>1
    <3>. QED  BY <3>2, EmptyIsShort, Zenon
  <2>. QED  BY <2>1, <2>2
<1>8. Held'
  <2>1. \A v \in Writers : Len(rest'[v]) <= 2 /\ (rest'[v] # <<>> <=> mu' = v)
    BY <1>2, <1>4, <1>5, <1>6, <1>7
  <2>. QED  BY <1>1, <1>5, <1>6, <2>1, Zenon DEF Held
<1>9. Pending' = d
  <2>1. CASE tl = <<>>
    <3>1. mu' = "none" /\ d = <<>>
      BY <1>2, <1>6, <2>1 DEF d, tl, Flat
    <3>. QED  BY <3>1 DEF Pending
  <2>2. CASE tl # <<>>
    <3>1. mu' = w /\ mu' # "none"
      BY <1>2, <1>6, <2>2
    <3>. QED  BY <1>5, <3>1 DEF Pending, d, tl
  <2>. QED  BY <2>1, <2>2
<1>10. stream' \in Seq(Byte(Payload))
  BY <1>1, <1>2, ConcatFacts
<1>11. Carries(Payload, stream', linkUp', d, want)
  <2>1. CASE linkUp = TRUE
    <3>1. Carries(Payload, stream, TRUE, a \o d, want)
      BY <1>2, <2>1, Zenon
    <3>2. Carries(Payload, stream \o a, TRUE, d, want)
      BY <1>2, <3>1, CarriesWritten, Zenon
    <3>. QED  BY <1>1, <2>1, <3>2, Zenon
  <2>2. CASE linkUp = FALSE
    BY <1>1, <2>2, CarriesDown, Zenon
  <2>. QED  BY <2>1, <2>2, Zenon DEF Held
<1>. QED  BY <1>2, <1>6, <1>8, <1>9, <1>10, <1>11

\* A Write fails.
LEMMA FailKeeps ==
    ASSUME Held, stream \in Seq(Byte(Payload)), NEW want,
           Carries(Payload, stream, linkUp, Pending, want),
           NEW w \in Writers, WriteFails(w)
    PROVE  /\ Held' /\ mu = w /\ mu' = "none" /\ stream' = stream
           /\ Carries(Payload, stream', linkUp', Pending', want)
<1>1. /\ rest[w] # <<>> /\ linkUp = FALSE /\ rest' = [rest EXCEPT ![w] = <<>>]
      /\ mu' = "none" /\ UNCHANGED <<stream, linkUp>>
  BY DEF WriteFails, Held
<1>2. mu = w
  BY <1>1, Holder, Zenon
<1>3. \A v \in Writers : v # "none" /\ (v # w => rest[v] = <<>>)
  BY <1>2, WritersAssumption DEF Held
<1>4. rest' \in [Writers -> Seq(Seq(Byte(Payload)))] /\ \A v \in Writers : rest'[v] = <<>>
  BY <1>1, <1>3 DEF Held
<1>5. \A v \in Writers : Len(rest'[v]) <= 2 /\ (rest'[v] # <<>> <=> mu' = v)
  BY <1>1, <1>3, <1>4, EmptyIsShort, Zenon
<1>6. Held'
  BY <1>1, <1>4, <1>5 DEF Held
<1>7. Carries(Payload, stream', linkUp', Pending', want)
  BY <1>1, CarriesDown, Zenon
<1>. QED  BY <1>1, <1>2, <1>6, <1>7

\* The stream breaks, between two Write calls or in the middle of one.
LEMMA LinkKeeps ==
    ASSUME Held, stream \in Seq(Byte(Payload)), NEW want,
           Carries(Payload, stream, linkUp, Pending, want), LinkFails
    PROVE  /\ Held' /\ mu' = mu /\ stream' \in Seq(Byte(Payload))
           /\ Carries(Payload, stream', linkUp', Pending', want)
<1>1. linkUp = TRUE /\ linkUp' = FALSE /\ UNCHANGED <<mu, rest>>
  BY DEF LinkFails, Held
<1>2. Held'
  BY <1>1, Zenon DEF Held
<1>3. CASE UNCHANGED stream
  BY <1>1, <1>2, <1>3, CarriesDown, Zenon
<1>4. ASSUME NEW w \in Writers, rest[w] # <<>>, NEW n \in 1 .. Len(Head(rest[w])),
             stream' = stream \o SubSeq(Head(rest[w]), 1, n)
      PROVE  stream' \in Seq(Byte(Payload)) /\ Carries(Payload, stream', linkUp', Pending', want)
  <2>. DEFINE a == Head(rest[w])
              d == Flat(Tail(rest[w]))
  <2>1. a \in Seq(Byte(Payload)) /\ d \in Seq(Byte(Payload)) /\ Pending = a \o d
    BY <1>4, Holder, Zenon
  <2>2. stream' = stream \o SubSeq(a, 1, n) /\ n \in 1 .. Len(a)
    BY <1>4
  <2>. HIDE DEF a, d
  <2>3. n \in 0 .. Len(a) /\ Len(a) \in Nat /\ n \in Nat /\ n <= Len(a)
    BY <2>1, <2>2
  <2>4. Carries(Payload, stream, TRUE, a \o d, want)
    BY <1>1, <2>1, Zenon
  <2>. DEFINE q == Pending'
  <2>. HIDE DEF q
  <2>5. Carries(Payload, stream \o SubSeq(a, 1, n), FALSE, q, want)
    BY <2>1, <2>3, <2>4, CarriesBroken, Zenon
  <2>6. SubSeq(a, 1, n) \in Seq(Byte(Payload))
    BY <2>1, <2>3, SubSeqFacts
  <2>7. stream' \in Seq(Byte(Payload))
    BY <2>2, <2>6, ConcatFacts
  <2>. QED  BY <1>1, <2>2, <2>5, <2>7, Zenon DEF q
<1>. QED  BY <1>1, <1>2, <1>3, <1>4, Zenon DEF LinkFails

\* The peer reads a frame: it gets what is owed to it first.
LEMMA ReadKeeps ==
    ASSUME Held, stream \in Seq(Byte(Payload)), NEW want \in Seq(Seq(Payload)),
           Carries(Payload, stream, linkUp, Pending, want), ReadPacket
    PROVE  /\ Held' /\ mu' = mu /\ stream' \in Seq(Byte(Payload))
           /\ want # <<>> /\ Decode(NextFrame) = Head(want)
           /\ Carries(Payload, stream', linkUp', Pending', Tail(want))
<1>. DEFINE n == AsLength(Head(stream), "big")
<1>1. /\ stream # <<>> /\ Len(stream) > n /\ NextLength = n
      /\ NextFrame = SubSeq(stream, 2, n + 1)
      /\ stream' = SubSeq(stream, n + 2, Len(stream)) /\ UNCHANGED <<linkUp, mu, rest>>
  BY Zenon DEF ReadPacket, Complete, NextLength, NextFrame
<1>2. Held' /\ Pending' = Pending
  BY <1>1 DEF Held, Pending
<1>3. /\ n \in Nat /\ want # <<>>
      /\ Decode(SubSeq(stream, 2, n + 1)) = Head(want)
      /\ Carries(Payload, SubSeq(stream, n + 2, Len(stream)), linkUp, Pending, Tail(want))
  BY <1>1, CarriesRead
<1>. HIDE DEF n
<1>4. SubSeq(stream, n + 2, Len(stream)) \in Seq(Byte(Payload))
  <2>. DEFINE l == Len(stream)
  <2>1. l \in Nat /\ n + 2 \in Nat \ {0} /\ n + 2 <= l + 1
    BY <1>1, <1>3
  <2>. HIDE DEF l
  <2>2. SubSeq(stream, n + 2, l) \in Seq(Byte(Payload))
    BY <2>1, SubSeqFacts DEF l
  <2>. QED  BY <2>2 DEF l
<1>. QED  BY <1>1, <1>2, <1>3, <1>4

\* Once every context is encoded the payloads are what the server should get.
LEMMA PayloadsExpected ==
    ASSUME BatchInv, client \in {"encode", "lock"}, ctxBatch = <<>>
    PROVE  payloads = Expected /\ payloads \in Seq(Payload)
<1>1. Encoding /\ Len(ctxBatch) = 0 /\ ProtoLatest \in BOOLEAN
  BY SMTT(30) DEF BatchInv, ProtoLatest
<1>2. /\ fate \in Seq(Fates) /\ Kept[Len(input)] \in Seq(Headed)
      /\ Len(fate) = Len(Kept[Len(input)]) /\ payloads = Wanted[Len(fate) - 0]
  BY <1>1 DEF Encoding
<1>3. Len(fate) \in Nat /\ Len(fate) - 0 = Len(fate) /\ Len(fate) \in 0 .. Len(fate)
  BY <1>2
<1>4. Wanted \in [0 .. Len(fate) -> Seq(Payload)]
  BY <1>1, <1>2, WantedUnfolds
<1>. QED  BY <1>2, <1>3, <1>4 DEF Expected

\* handleLatency's packet is a payload.
LEMMA LatencyType == LatencyPacket \in Payload
<1>. DEFINE I == {p.id : p \in Packets} \cup {"Latency"}
<1>1. "Latency" \in I /\ 1 \in Nat \ {0}
  OBVIOUS
<1>. HIDE DEF I
<1>2. LatencyPacket \in [id : I, size : Nat \ {0}, latest : BOOLEAN, changed : BOOLEAN]
  BY <1>1 DEF LatencyPacket
<1>. QED  BY <1>2 DEF Payload, I

\* Every step keeps the stream what is owed to the server.
LEMMA StreamStep ==
    ASSUME Inv, [Next]_vars
    PROVE  WriterInv' /\ StreamInv'
<1>. DEFINE B == Byte(Payload)
<1>1. /\ Held /\ stream \in Seq(B) /\ owed \in Seq(Seq(Payload)) /\ agreed
      /\ Carries(Payload, stream, linkUp, Pending, owed)
  BY DEF Inv, WriterInv, StreamInv
<1>2. ASSUME UNCHANGED <<streamVars, owed, agreed>> PROVE Held' /\ StreamInv' /\ mu' = mu
  BY <1>2 DEF Inv, WriterInv, Held, StreamInv, Pending, streamVars
<1>3. /\ latency \in {"wait", "lock", "write"} /\ connDone \in BOOLEAN
      /\ client = "write" <=> mu = "client"
      /\ latency = "write" <=> mu = "latency"
  BY DEF Inv, WriterInv
<1>4. "client" \in Writers /\ "latency" \in Writers /\ "client" # "none" /\ "latency" # "none"
  BY GoroutinesAssumption, WritersAssumption
<1>5. \A p \in Payload : p.size \in Nat \ {0}
  BY DEF Payload
<1>6. CASE ReadBatch \/ DecodeNext \/ ProcessClient \/ EncodeNext
  <2>1. UNCHANGED <<streamVars, owed, agreed, latency, connDone>>
    BY <1>6, Zenon DEF ReadBatch, DecodeNext, ProcessClient, EncodeNext
  <2>2. client # "write" /\ client' # "write"
    BY <1>6, Zenon DEF ReadBatch, DecodeNext, ProcessClient, EncodeNext
  <2>. QED  BY <1>2, <1>3, <2>1, <2>2 DEF WriterInv
<1>7. CASE WriteBatch
  <2>1. UNCHANGED <<streamVars, agreed, latency, connDone>> /\ client # "write" /\ client' # "write"
    BY <1>7 DEF WriteBatch
  <2>2. owed' = owed
    <3>1. payloads = Expected
      BY <1>7, PayloadsExpected DEF WriteBatch, Inv
    <3>. QED  BY <1>7, <3>1 DEF WriteBatch
  <2>. QED  BY <1>2, <1>3, <2>1, <2>2 DEF WriterInv
<1>8. CASE WriteBatchFrame
  <2>1. /\ client = "lock" /\ Lock("client", Frame({"batch"}, BatchBytes(payloads)))
        /\ client' = "write" /\ owed' = Append(owed, Expected)
        /\ UNCHANGED <<latency, connDone, agreed>>
    BY <1>8 DEF WriteBatchFrame
  <2>2. payloads = Expected /\ payloads \in Seq(Payload)
    BY <2>1, PayloadsExpected DEF Inv, BatchInv
  <2>3. Writes(Payload, Frame({"batch"}, BatchBytes(payloads)), payloads)
    BY <1>5, <2>2, BatchFrameDecodes
  <2>4. /\ Held' /\ mu = "none" /\ mu' = "client"
        /\ Carries(Payload, stream', linkUp', Pending', Append(owed, payloads))
    BY <1>1, <1>4, <2>1, <2>2, <2>3, LockKeeps
  <2>5. owed' \in Seq(Seq(Payload)) /\ stream' = stream
    BY <1>1, <2>1, <2>2, AppendFacts, Zenon DEF Lock
  <2>6. StreamInv'
    BY <1>1, <2>1, <2>2, <2>4, <2>5 DEF StreamInv
  <2>. QED  BY <1>3, <1>4, <2>1, <2>4, <2>6 DEF WriterInv
<1>9. CASE ClientWrites
  <2>1. UNCHANGED <<latency, connDone, owed, agreed>>
    BY <1>9 DEF ClientWrites
  <2>2. CASE WritePart("client") /\ client' = IF Len(rest["client"]) = 1 THEN "read" ELSE client
    <3>1. /\ Held' /\ mu = "client" /\ stream' \in Seq(B)
          /\ mu' = IF Len(rest["client"]) = 1 THEN "none" ELSE "client"
          /\ Carries(Payload, stream', linkUp', Pending', owed)
      BY <1>1, <1>4, <2>2, PartKeeps
    <3>. QED  BY <1>1, <1>3, <1>4, <2>1, <2>2, <3>1 DEF WriterInv, StreamInv
  <2>3. CASE WriteFails("client") /\ client' = "failed"
    <3>1. /\ Held' /\ mu = "client" /\ mu' = "none" /\ stream' = stream
          /\ Carries(Payload, stream', linkUp', Pending', owed)
      BY <1>1, <1>4, <2>3, FailKeeps
    <3>. QED  BY <1>1, <1>3, <1>4, <2>1, <2>3, <3>1 DEF WriterInv, StreamInv
  <2>. QED  BY <1>9, <2>2, <2>3 DEF ClientWrites
<1>10. CASE ClientEnds
  <2>1. /\ UNCHANGED <<streamVars, owed, agreed, latency>> /\ connDone' = TRUE
        /\ client # "write" /\ client' # "write"
    BY <1>10 DEF ClientEnds
  <2>. QED  BY <1>2, <1>3, <2>1 DEF WriterInv
<1>11. CASE OtherTakes \/ OtherReturns \/ ConnClosed \/ UNCHANGED vars
  <2>1. UNCHANGED <<streamVars, owed, agreed, latency, client>> /\ connDone' \in {connDone, TRUE}
    BY <1>11, Zenon DEF OtherTakes, OtherReturns, ConnClosed, vars, batchVars
  <2>. QED  BY <1>2, <1>3, <2>1, Zenon DEF WriterInv
<1>12. CASE LatencyTick
  <2>1. /\ UNCHANGED <<streamVars, owed, agreed, connDone, client>>
        /\ latency = "wait" /\ latency' \in {"wait", "lock"}
    BY <1>12 DEF LatencyTick, batchVars
  <2>. QED  BY <1>2, <1>3, <2>1 DEF WriterInv
<1>13. CASE LatencyFrame
  <2>. DEFINE x == LatencyPacket
  <2>1. /\ latency = "lock" /\ Lock("latency", Frame({}, PacketBytes(x)))
        /\ latency' = "write" /\ owed' = Append(owed, <<x>>)
        /\ UNCHANGED <<client, connDone, agreed>>
    BY <1>13 DEF LatencyFrame, batchVars
  <2>2. x \in Payload
    BY LatencyType
  <2>. HIDE DEF x
  <2>3. Writes(Payload, Frame({}, PacketBytes(x)), <<x>>) /\ <<x>> \in Seq(Payload)
    BY <1>5, <2>2, PacketFrameDecodes
  <2>4. /\ Held' /\ mu = "none" /\ mu' = "latency"
        /\ Carries(Payload, stream', linkUp', Pending', Append(owed, <<x>>))
    BY <1>1, <1>4, <2>1, <2>3, LockKeeps, Zenon
  <2>5. owed' \in Seq(Seq(Payload)) /\ stream' = stream
    BY <1>1, <2>1, <2>3, AppendFacts DEF Lock
  <2>6. StreamInv'
    BY <1>1, <2>1, <2>4, <2>5 DEF StreamInv
  <2>. QED  BY <1>3, <1>4, <2>1, <2>4, <2>6 DEF WriterInv
<1>14. CASE LatencyWrites
  <2>1. UNCHANGED <<client, connDone, owed, agreed>>
    BY <1>14 DEF LatencyWrites, batchVars
  <2>2. CASE WritePart("latency") /\ latency' = IF Len(rest["latency"]) = 1 THEN "wait" ELSE latency
    <3>1. /\ Held' /\ mu = "latency" /\ stream' \in Seq(B)
          /\ mu' = IF Len(rest["latency"]) = 1 THEN "none" ELSE "latency"
          /\ Carries(Payload, stream', linkUp', Pending', owed)
      BY <1>1, <1>4, <2>2, PartKeeps
    <3>. QED  BY <1>1, <1>3, <1>4, <2>1, <2>2, <3>1 DEF WriterInv, StreamInv
  <2>3. CASE WriteFails("latency") /\ latency' = "wait"
    <3>1. /\ Held' /\ mu = "latency" /\ mu' = "none" /\ stream' = stream
          /\ Carries(Payload, stream', linkUp', Pending', owed)
      BY <1>1, <1>4, <2>3, FailKeeps
    <3>. QED  BY <1>1, <1>3, <1>4, <2>1, <2>3, <3>1 DEF WriterInv, StreamInv
  <2>. QED  BY <1>14, <2>2, <2>3 DEF LatencyWrites
<1>15. CASE StreamEnds
  <2>1. LinkFails /\ UNCHANGED <<client, latency, connDone, owed, agreed>>
    BY <1>15 DEF StreamEnds, batchVars
  <2>2. /\ Held' /\ mu' = mu /\ stream' \in Seq(B)
        /\ Carries(Payload, stream', linkUp', Pending', owed)
    BY <1>1, <2>1, LinkKeeps
  <2>. QED  BY <1>1, <1>3, <2>1, <2>2 DEF WriterInv, StreamInv
<1>16. CASE PeerReads
  <2>1. UNCHANGED <<client, latency, connDone>>
    BY <1>16 DEF PeerReads, batchVars
  <2>2. CASE ReadFails /\ UNCHANGED <<owed, agreed>>
    <3>1. UNCHANGED <<stream, linkUp, mu, rest>>
      BY <2>2 DEF ReadFails
    <3>2. Held' /\ StreamInv' /\ mu' = mu
      BY <1>1, <2>2, <3>1 DEF Held, StreamInv, Pending
    <3>. QED  BY <1>3, <2>1, <3>2 DEF WriterInv
  <2>3. CASE /\ ReadPacket
             /\ agreed' = (agreed /\ owed # <<>> /\ Decode(NextFrame) = Head(owed))
             /\ owed' = IF owed = <<>> THEN owed ELSE Tail(owed)
    <3>1. /\ Held' /\ mu' = mu /\ stream' \in Seq(B)
          /\ owed # <<>> /\ Decode(NextFrame) = Head(owed)
          /\ Carries(Payload, stream', linkUp', Pending', Tail(owed))
      BY <1>1, <2>3, ReadKeeps
    <3>2. owed' = Tail(owed) /\ agreed'
      BY <1>1, <2>3, <3>1, Zenon
    <3>3. Tail(owed) \in Seq(Seq(Payload))
      BY <1>1, <3>1, TailFacts
    <3>. QED  BY <1>3, <2>1, <3>1, <3>2, <3>3 DEF WriterInv, StreamInv
  <2>. QED  BY <1>16, <2>2, <2>3 DEF PeerReads
<1>. QED  BY <1>6, <1>7, <1>8, <1>9, <1>10, <1>11, <1>12, <1>13, <1>14, <1>15, <1>16 DEF Next

-----------------------------------------------------------------------------
\* The theorems.

\* The initial states satisfy the invariant.
LEMMA InitInv == Init => Inv
<1>. SUFFICES ASSUME Init PROVE Inv
  OBVIOUS
<1>1. PoolInv
  <2>1. Fresh \in Context
    BY DEF Fresh, Context
  <2>2. mem \in [Ctxs -> Context] /\ ctxBatch = <<>> /\ pool = {} /\ other = {}
    BY <2>1 DEF Init
  <2>3. ctxBatch \in Seq(Ctxs) /\ Apart(ctxBatch, pool, other)
    BY <2>2 DEF Apart
  <2>. QED  BY <2>2, <2>3, ApartIs DEF PoolInv
<1>2. BatchInv
  BY BoundsAssumption DEF Init, BatchInv, Idle, PanicOnlyLegacySync
<1>3. Held
  <2>1. mu = "none" /\ linkUp = TRUE /\ rest = [w \in Writers |-> <<>>]
    BY DEF Init, FramingInit
  <2>2. \A w \in Writers : rest[w] = <<>> /\ w # "none"
    BY <2>1, WritersAssumption, Zenon
  <2>3. rest \in [Writers -> Seq(Seq(Byte(Payload)))]
    BY <2>1
  <2>4. \A w \in Writers : Len(rest[w]) <= 2 /\ (rest[w] # <<>> <=> mu = w)
    BY <2>1, <2>2, EmptyIsShort, Zenon
  <2>. QED  BY <2>1, <2>3, <2>4 DEF Held
<1>4. WriterInv
  BY <1>3, Zenon DEF Init, FramingInit, WriterInv
<1>5. StreamInv
  <2>1. stream = <<>> /\ owed = <<>> /\ agreed = TRUE /\ Pending = <<>>
    BY DEF Init, FramingInit, Pending
  <2>2. <<>> \in Seq(Byte(Payload)) /\ <<>> \o <<>> = <<>>
    OBVIOUS
  <2>3. Carries(Payload, <<>>, linkUp, <<>>, <<>>)
    BY <2>2, FramedEmpty, Zenon DEF Carries
  <2>. QED  BY <2>1, <2>3 DEF StreamInv
<1>. QED  BY <1>1, <1>2, <1>4, <1>5 DEF Inv

\* The invariant holds in every reachable state.
THEOREM Invariance == Spec => []Inv
<1>1. Inv /\ [Next]_vars => Inv'
  BY PoolStep, BatchStep, StreamStep DEF Inv
<1>. QED  BY <1>1, InitInv, PTL DEF Spec

\* Every variable keeps its type, and a context holds at most one packet.
THEOREM TypeCorrect == Spec => []TypeOK
<1>1. Inv => TypeOK
  <2>. SUFFICES ASSUME Inv PROVE TypeOK
    OBVIOUS
  <2>1. \A c \in Ctxs : Len(mem[c].raw) <= 1 /\ Len(mem[c].decoded) <= 1
    BY DEF Inv, PoolInv, Context
  <2>2. done \in 0 .. MaxBatch
    <3>1. done \in 0 .. Len(input) /\ Len(input) <= MaxBatch /\ input \in Seq(Packets)
      BY DEF Inv, BatchInv
    <3>. QED  BY <3>1, BoundsAssumption
  <2>. QED  BY <2>1, <2>2 DEF Inv, PoolInv, BatchInv, WriterInv, Held, TypeOK
<1>. QED  BY <1>1, Invariance, PTL

\* No PacketContext is in two batches, twice in one, or in use while it is in the
\* pool, however many sessions share the pool (NewPacketContext,
\* ReturnPacketContext).
THEOREM ContextsNeverShared == Spec => []ContextsApart
<1>1. Inv => ContextsApart
  BY DEF Inv, PoolInv
<1>. QED  BY <1>1, Invariance, PTL

\* handleClientBatch encodes a packet that was not decoded only for an outdated
\* client under SyncProtocol.
THEOREM PanicsOnlyLegacySync == Spec => []PanicOnlyLegacySync
<1>1. Inv => PanicOnlyLegacySync
  BY DEF Inv, BatchInv
<1>. QED  BY <1>1, Invariance, PTL

\* Whatever the packets, the processor's decisions, the threshold and the moment at
\* which the stream breaks, every frame the server reads decodes to the next batch
\* or latency packet in the order the Writer got them, each batch as the processor
\* left it, for a server that reads the lengths in a batch little-endian
\* (handleClientBatch, WriteBatch, WritePacket, Writer, Reader).
THEOREM BatchesArrive == Spec => []ServerGetsBatches
<1>1. Inv => ServerGetsBatches
  BY DEF Inv, StreamInv, ServerGetsBatches
<1>. QED  BY <1>1, Invariance, PTL
=============================================================================
