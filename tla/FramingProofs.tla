--------------------------- MODULE FramingProofs ---------------------------
(***************************************************************************)
(* Proofs about Framing: what a peer decodes from a frame is what was put  *)
(* into it, for every number and size of packets.                          *)
(***************************************************************************)
EXTENDS Framing, WellFoundedInduction, TLAPS

-----------------------------------------------------------------------------
\* Induction and recursion over an interval.  The library's theorems about them
\* take operators; these take sets and functions.

\* A set of naturals that is not empty has a least element.
LEMMA LeastNat ==
    ASSUME NEW T \in SUBSET Nat, T # {}
    PROVE  \E n \in T : \A m \in T : n <= m
<1>. DEFINE R == {ss \in Nat \X Nat : ss[1] < ss[2]}
<1>1. IsWellFoundedOn(R, Nat)
  BY NatLessThanWellFounded, Zenon DEF OpToRel
<1>2. \A x, y \in Nat : y < x => <<y, x>> \in R
  OBVIOUS
<1>. HIDE DEF R
<1>3. PICK x \in T : \A y \in T : ~(<<y, x>> \in R)
  BY <1>1, WFMin, Zenon
<1>4. \A y \in T : ~(y < x)
  BY <1>2, <1>3, Zenon
<1>. QED  BY <1>4

\* A set that holds 0 and, with every number below N, the next one, holds 0 .. N.
LEMMA IntervalInduction ==
    ASSUME NEW N \in Nat, NEW T,
           0 \in T, \A n \in 0 .. N : n \in T /\ n < N => n + 1 \in T
    PROVE  \A n \in 0 .. N : n \in T
<1>. SUFFICES ASSUME NEW k \in 0 .. N, k \notin T PROVE FALSE
  OBVIOUS
<1>. DEFINE U == {n \in 0 .. N : n \notin T}
<1>1. U \in SUBSET Nat /\ U # {} /\ 0 \notin U
  OBVIOUS
<1>2. \A n \in Nat : n \in U <=> n <= N /\ n \notin T
  OBVIOUS
<1>. HIDE DEF U
<1>3. PICK n \in U : \A m \in U : n <= m
  BY <1>1, LeastNat
<1>4. n \in Nat /\ n # 0 /\ n <= N /\ n \notin T
  BY <1>1, <1>2
<1>5. n - 1 \in Nat /\ n - 1 \in 0 .. N /\ n - 1 < N /\ (n - 1) + 1 = n
  BY <1>4
<1>6. n - 1 \in T
  BY <1>2, <1>3, <1>4, <1>5
<1>. QED  BY <1>4, <1>5, <1>6

\* f starts with x0 and gets each further value from the one before by F.
Iterates(f, N, x0, F) ==
    f[0] = x0 /\ \A i \in 1 .. N : f[i] = F[<<i, f[i - 1]>>]

\* Such a function exists.
LEMMA Recursion ==
    ASSUME NEW N \in Nat, NEW X, NEW x0 \in X, NEW F \in [(1 .. N) \X X -> X]
    PROVE  \E f \in [0 .. N -> X] : Iterates(f, N, x0, F)
<1>. DEFINE Good(m, f) == /\ f \in [0 .. N -> X]
                          /\ f[0] = x0
                          /\ \A i \in 1 .. m : f[i] = F[<<i, f[i - 1]>>]
            T == {m \in 0 .. N : \E f : Good(m, f)}
<1>1. 0 \in T
  <2>1. Good(0, [i \in 0 .. N |-> x0])
    OBVIOUS
  <2>. HIDE DEF Good
  <2>. QED  BY <2>1
<1>2. ASSUME NEW n \in 0 .. N, n \in T, n < N PROVE n + 1 \in T
  <2>1. PICK f : Good(n, f)
    BY <1>2
  <2>2. n + 1 \in 1 .. N /\ n + 1 \in 0 .. N /\ n \in 0 .. N
    BY <1>2
  <2>3. F[<<n + 1, f[n]>>] \in X
    BY <2>1, <2>2
  <2>. DEFINE h == [f EXCEPT ![n + 1] = F[<<n + 1, f[n]>>]]
  <2>4. h \in [0 .. N -> X] /\ h[n + 1] = F[<<n + 1, f[n]>>]
    BY <2>1, <2>2, <2>3
  <2>5. \A i \in 0 .. n : h[i] = f[i]
    BY <2>1, <2>2
  <2>. HIDE DEF h
  <2>6. ASSUME NEW i \in 1 .. n + 1 PROVE h[i] = F[<<i, h[i - 1]>>]
    <3>1. CASE i = n + 1
      <4>1. i - 1 = n /\ n \in 0 .. n
        BY <3>1
      <4>. QED  BY <2>4, <2>5, <3>1, <4>1
    <3>2. CASE i \in 1 .. n
      <4>1. i - 1 \in 0 .. n /\ i \in 0 .. n
        BY <3>2
      <4>. QED  BY <2>1, <2>5, <3>2, <4>1
    <3>. QED  BY <3>1, <3>2
  <2>7. h[0] = x0
    BY <2>1, <2>5
  <2>8. Good(n + 1, h)
    BY <2>4, <2>6, <2>7
  <2>. HIDE DEF Good
  <2>. QED  BY <2>2, <2>8
<1>3. N \in T
  <2>. HIDE DEF T
  <2>1. \A n \in 0 .. N : n \in T
    BY <1>1, <1>2, IntervalInduction
  <2>. QED  BY <2>1
<1>4. PICK f : Good(N, f)
  BY <1>3
<1>. QED  BY <1>4 DEF Iterates

-----------------------------------------------------------------------------
\* Sequences.

\* What a concatenation consists of.
LEMMA ConcatFacts ==
    ASSUME NEW S, NEW c \in Seq(S), NEW d \in Seq(S)
    PROVE  /\ c \o d \in Seq(S)
           /\ Len(c) \in Nat /\ Len(d) \in Nat /\ Len(c \o d) = Len(c) + Len(d)
           /\ \A k \in 1 .. Len(c) : (c \o d)[k] = c[k]
           /\ \A k \in 1 .. Len(d) : (c \o d)[Len(c) + k] = d[k]
<1>1. Len(c) \in Nat /\ Len(d) \in Nat
  OBVIOUS
<1>2. c \o d \in Seq(S) /\ Len(c \o d) = Len(c) + Len(d)
  OBVIOUS
<1>3. ASSUME NEW k \in 1 .. Len(c) PROVE (c \o d)[k] = c[k]
  OBVIOUS
<1>4. ASSUME NEW k \in 1 .. Len(d) PROVE (c \o d)[Len(c) + k] = d[k]
  OBVIOUS
<1>. QED  BY <1>1, <1>2, <1>3, <1>4

\* What a part of a sequence consists of.
LEMMA SubSeqFacts ==
    ASSUME NEW S, NEW s \in Seq(S), NEW m \in Nat \ {0}, NEW n \in Nat,
           m <= n + 1, n <= Len(s)
    PROVE  /\ SubSeq(s, m, n) \in Seq(S)
           /\ Len(SubSeq(s, m, n)) = (n + 1) - m
           /\ SubSeq(s, m, n) = [k \in 1 .. (n + 1) - m |-> s[(k + m) - 1]]
  OBVIOUS

\* The first elements of a sequence, one more at a time.
LEMMA SubSeqGrows ==
    ASSUME NEW S, NEW s \in Seq(S), NEW i \in 1 .. Len(s)
    PROVE  SubSeq(s, 1, i) = Append(SubSeq(s, 1, i - 1), s[i])
  OBVIOUS

\* Two sequences of the same length with the same elements are the same.
LEMMA SeqEqual ==
    ASSUME NEW S, NEW c \in Seq(S), NEW d \in Seq(S), Len(c) = Len(d),
           \A k \in 1 .. Len(c) : c[k] = d[k]
    PROVE  c = d
  OBVIOUS

\* Concatenation is associative.
LEMMA ConcatAssoc ==
    ASSUME NEW S, NEW c \in Seq(S), NEW d \in Seq(S), NEW e \in Seq(S)
    PROVE  (c \o d) \o e = c \o (d \o e)
  OBVIOUS

\* Four sequences, grouped from the middle or in pairs.
SamePairs(c, d, e, f) == c \o ((d \o e) \o f) = (c \o d) \o (e \o f)

\* The two groupings are the same sequence.
LEMMA ConcatPairs ==
    ASSUME NEW S, NEW c \in Seq(S), NEW d \in Seq(S), NEW e \in Seq(S), NEW f \in Seq(S)
    PROVE  SamePairs(c, d, e, f)
<1>1. (d \o e) \o f = d \o (e \o f) /\ e \o f \in Seq(S)
  OBVIOUS
<1>. DEFINE g == e \o f
<1>. HIDE DEF g
<1>2. ASSUME g \in Seq(S) PROVE c \o (d \o g) = (c \o d) \o g
  BY <1>2
<1>. QED  BY <1>1, <1>2 DEF g, SamePairs

\* A sequence cut in two.
LEMMA SubSeqSplit ==
    ASSUME NEW S, NEW s \in Seq(S), NEW n \in 0 .. Len(s)
    PROVE  /\ SubSeq(s, 1, n) \in Seq(S) /\ Len(SubSeq(s, 1, n)) = n
           /\ SubSeq(s, n + 1, Len(s)) \in Seq(S)
           /\ Len(SubSeq(s, n + 1, Len(s))) = Len(s) - n
           /\ SubSeq(s, 1, n) \o SubSeq(s, n + 1, Len(s)) = s
<1>1. Len(s) \in Nat /\ n \in Nat /\ n <= Len(s)
  OBVIOUS
<1>2. SubSeq(s, 1, n) \in Seq(S) /\ Len(SubSeq(s, 1, n)) = n
  BY <1>1, SubSeqFacts
<1>3. /\ SubSeq(s, n + 1, Len(s)) \in Seq(S)
      /\ Len(SubSeq(s, n + 1, Len(s))) = Len(s) - n
  BY <1>1, SubSeqFacts
<1>4. SubSeq(s, 1, n) \o SubSeq(s, n + 1, Len(s)) = s
  <2>. DEFINE c == SubSeq(s, 1, n)
              d == SubSeq(s, n + 1, Len(s))
              l == Len(s)
  <2>1. c = [k \in 1 .. (n + 1) - 1 |-> s[(k + 1) - 1]]
    BY <1>1, SubSeqFacts
  <2>2. d = [k \in 1 .. (l + 1) - (n + 1) |-> s[(k + (n + 1)) - 1]]
    BY <1>1, SubSeqFacts
  <2>3. c \in Seq(S) /\ d \in Seq(S) /\ Len(c) = n /\ Len(d) = l - n
    BY <1>2, <1>3
  <2>. HIDE DEF c, d
  <2>4. /\ c \o d \in Seq(S) /\ Len(c \o d) = Len(c) + Len(d)
        /\ \A k \in 1 .. Len(c) : (c \o d)[k] = c[k]
        /\ \A k \in 1 .. Len(d) : (c \o d)[Len(c) + k] = d[k]
    <3>1. c \in Seq(S) /\ d \in Seq(S)
      BY <2>3
    <3>. QED  BY <3>1, ConcatFacts
  <2>. DEFINE e == c \o d
  <2>. HIDE DEF e, l
  <2>5. e \in Seq(S) /\ Len(e) = l
    BY <1>1, <2>3, <2>4 DEF e, l
  <2>6. ASSUME NEW k \in 1 .. l PROVE e[k] = s[k]
    <3>1. CASE k \in 1 .. n
      <4>1. e[k] = c[k]
        BY <2>3, <2>4, <3>1 DEF e
      <4>2. c[k] = s[k]
        BY <1>1, <2>1, <3>1
      <4>. QED  BY <4>1, <4>2
    <3>2. CASE k \in n + 1 .. l
      <4>1. k - n \in 1 .. l - n /\ n + (k - n) = k
            /\ k - n \in 1 .. (l + 1) - (n + 1) /\ ((k - n) + (n + 1)) - 1 = k
        BY <1>1, <3>2 DEF l
      <4>2. e[k] = d[k - n]
        BY <2>3, <2>4, <4>1 DEF e
      <4>3. d[k - n] = s[k]
        BY <2>2, <4>1
      <4>. QED  BY <4>2, <4>3
    <3>. QED  BY <1>1, <3>1, <3>2 DEF l
  <2>7. e = s
    BY <2>5, <2>6, SeqEqual DEF l
  <2>. QED  BY <2>7, Zenon DEF e, c, d
<1>. QED  BY <1>2, <1>3, <1>4, Zenon

\* A part of the left side of a concatenation.
LEMMA SubSeqLeft ==
    ASSUME NEW S, NEW c \in Seq(S), NEW d \in Seq(S), NEW m \in Nat \ {0},
           NEW n \in Nat, m <= n + 1, n <= Len(c)
    PROVE  SubSeq(c \o d, m, n) = SubSeq(c, m, n)
<1>1. /\ c \o d \in Seq(S) /\ Len(c) \in Nat /\ Len(c \o d) \in Nat
      /\ n <= Len(c \o d)
  BY ConcatFacts
<1>2. \A k \in 1 .. Len(c) : (c \o d)[k] = c[k]
  BY ConcatFacts
<1>. DEFINE e == c \o d
<1>. HIDE DEF e
<1>3. /\ SubSeq(e, m, n) = [k \in 1 .. (n + 1) - m |-> e[(k + m) - 1]]
      /\ SubSeq(c, m, n) = [k \in 1 .. (n + 1) - m |-> c[(k + m) - 1]]
  BY <1>1, SubSeqFacts DEF e
<1>4. \A k \in 1 .. (n + 1) - m : (k + m) - 1 \in 1 .. Len(c)
  BY <1>1
<1>5. \A k \in 1 .. (n + 1) - m : e[(k + m) - 1] = c[(k + m) - 1]
  BY <1>2, <1>4 DEF e
<1>. QED  BY <1>3, <1>5 DEF e

\* A part of the right side of a concatenation.
LEMMA SubSeqRight ==
    ASSUME NEW S, NEW c \in Seq(S), NEW d \in Seq(S), NEW m \in Nat \ {0},
           NEW n \in Nat, m <= n + 1, n <= Len(d)
    PROVE  SubSeq(c \o d, Len(c) + m, Len(c) + n) = SubSeq(d, m, n)
<1>1. /\ c \o d \in Seq(S) /\ Len(c) \in Nat /\ Len(d) \in Nat
      /\ Len(c \o d) = Len(c) + Len(d)
  BY ConcatFacts
<1>2. \A k \in 1 .. Len(d) : (c \o d)[Len(c) + k] = d[k]
  BY ConcatFacts
<1>. DEFINE e == c \o d
            l == Len(c)
<1>. HIDE DEF e, l
<1>3. /\ SubSeq(e, l + m, l + n)
            = [k \in 1 .. ((l + n) + 1) - (l + m) |-> e[(k + (l + m)) - 1]]
      /\ SubSeq(d, m, n) = [k \in 1 .. (n + 1) - m |-> d[(k + m) - 1]]
  BY <1>1, SubSeqFacts DEF e, l
<1>4. ((l + n) + 1) - (l + m) = (n + 1) - m
  BY <1>1 DEF l
<1>5. ASSUME NEW k \in 1 .. (n + 1) - m PROVE e[(k + (l + m)) - 1] = d[(k + m) - 1]
  <2>1. (k + (l + m)) - 1 = l + ((k + m) - 1) /\ (k + m) - 1 \in 1 .. Len(d)
    BY <1>1 DEF l
  <2>. QED  BY <1>2, <2>1 DEF e, l
<1>. QED  BY <1>3, <1>4, <1>5 DEF e, l

\* A part of what is left of a sequence without its first h elements.
LEMMA SubSeqInside ==
    ASSUME NEW S, NEW c \in Seq(S), NEW h \in Nat, h <= Len(c), NEW m \in Nat \ {0},
           NEW n \in Nat, m <= n + 1, h + n <= Len(c)
    PROVE  SubSeq(SubSeq(c, h + 1, Len(c)), m, n) = SubSeq(c, h + m, h + n)
<1>. DEFINE e == SubSeq(c, h + 1, Len(c))
            l == Len(c)
<1>0. l \in Nat
  OBVIOUS
<1>1. /\ e \in Seq(S) /\ Len(e) = (l + 1) - (h + 1)
      /\ e = [k \in 1 .. (l + 1) - (h + 1) |-> c[(k + (h + 1)) - 1]]
  BY <1>0, SubSeqFacts
<1>. HIDE DEF e
<1>2. /\ SubSeq(e, m, n) = [k \in 1 .. (n + 1) - m |-> e[(k + m) - 1]]
      /\ SubSeq(c, h + m, h + n)
            = [k \in 1 .. ((h + n) + 1) - (h + m) |-> c[(k + (h + m)) - 1]]
  BY <1>0, <1>1, SubSeqFacts
<1>3. ((h + n) + 1) - (h + m) = (n + 1) - m
  OBVIOUS
<1>4. ASSUME NEW k \in 1 .. (n + 1) - m PROVE e[(k + m) - 1] = c[(k + (h + m)) - 1]
  <2>1. /\ (k + m) - 1 \in 1 .. (l + 1) - (h + 1)
        /\ (((k + m) - 1) + (h + 1)) - 1 = (k + (h + m)) - 1
    BY <1>0
  <2>. QED  BY <1>1, <2>1
<1>. QED  BY <1>2, <1>3, <1>4 DEF e

-----------------------------------------------------------------------------
\* Batches.

\* The bytes of a batch of packets of P.
PayloadByte(P) == [is : {"length"}, of : Nat, order : {"big", "little"}]
                  \cup [is : {"packet"}, of : P]

\* A round of WriteBatch's loop writes the length of the packet, then the packet.
LEMMA PrefixedFacts ==
    ASSUME NEW P, NEW p \in P, p.size \in Nat
    PROVE  /\ PacketBytes(p) \in Seq(PayloadByte(P)) /\ Len(PacketBytes(p)) = p.size
           /\ Prefixed(p) \in Seq(PayloadByte(P))
           /\ Len(Prefixed(p)) = p.size + 1
           /\ Prefixed(p)[1] = LengthByte(p.size, "little")
           /\ \A i \in 1 .. p.size : Prefixed(p)[i + 1] = PacketBytes(p)[i]
<1>1. [is |-> "packet", of |-> p] \in PayloadByte(P)
  BY DEF PayloadByte
<1>2. PacketBytes(p) \in Seq(PayloadByte(P)) /\ Len(PacketBytes(p)) = p.size
  BY <1>1 DEF PacketBytes
<1>3. LengthByte(p.size, "little") \in PayloadByte(P)
  BY DEF LengthByte, PayloadByte
<1>. DEFINE l == LengthByte(p.size, "little")
            b == PacketBytes(p)
<1>. HIDE DEF l, b
<1>4. l \in PayloadByte(P) /\ b \in Seq(PayloadByte(P)) /\ Len(b) = p.size
  BY <1>2, <1>3 DEF l, b
<1>5. /\ <<l>> \o b \in Seq(PayloadByte(P))
      /\ Len(<<l>> \o b) = p.size + 1
      /\ (<<l>> \o b)[1] = l
      /\ \A i \in 1 .. p.size : (<<l>> \o b)[i + 1] = b[i]
  BY <1>4
<1>. QED  BY <1>2, <1>5 DEF l, b, Prefixed

\* WriteBatch's buffer grows by one packet a round.
LEMMA FillingFacts ==
    ASSUME NEW P, \A p \in P : p.size \in Nat, NEW ps \in Seq(P)
    PROVE  /\ Filling(ps) \in [0 .. Len(ps) -> Seq(PayloadByte(P))]
           /\ Filling(ps)[0] = <<>>
           /\ \A i \in 1 .. Len(ps) :
                 Filling(ps)[i] = Filling(ps)[i - 1] \o Prefixed(ps[i])
<1>. DEFINE B == Seq(PayloadByte(P))
            N == Len(ps)
            e == <<>>
            Round(b, i) == b \o Prefixed(ps[i])
            F == [nx \in (1 .. N) \X B |-> Round(nx[2], nx[1])]
            E(f) == f = [i \in 0 .. N |-> IF i = 0 THEN e ELSE Round(f[i - 1], i)]
            g == Filling(ps)
<1>1. N \in Nat /\ e \in B /\ \A i \in 1 .. N : ps[i] \in P
  OBVIOUS
<1>2. ASSUME NEW i \in 1 .. N, NEW b \in B PROVE Round(b, i) \in B
  <2>1. Prefixed(ps[i]) \in B
    BY <1>1, PrefixedFacts, Zenon
  <2>. QED  BY <2>1
<1>3. g = CHOOSE h : E(h)
  BY DEF Filling
<1>. HIDE DEF B, N, e, Round, g
<1>4. F \in [(1 .. N) \X B -> B]
  BY <1>2
<1>5. \A n \in 1 .. N, b \in B : F[<<n, b>>] = Round(b, n)
  OBVIOUS
<1>. HIDE DEF F
<1>6. PICK f \in [0 .. N -> B] : Iterates(f, N, e, F)
  BY <1>1, <1>4, Recursion, Zenon
<1>7. E(f)
  <2>. DEFINE h == [i \in 0 .. N |-> IF i = 0 THEN e ELSE Round(f[i - 1], i)]
  <2>1. ASSUME NEW i \in 0 .. N PROVE f[i] = h[i]
    <3>1. CASE i = 0
      BY <1>6, <3>1 DEF Iterates
    <3>2. CASE i \in 1 .. N
      <4>1. f[i - 1] \in B /\ f[i] = F[<<i, f[i - 1]>>]
        BY <1>1, <1>6, <3>2 DEF Iterates
      <4>. QED  BY <1>5, <3>2, <4>1
    <3>. QED  BY <1>1, <3>1, <3>2
  <2>2. f = [i \in 0 .. N |-> f[i]] /\ h = [i \in 0 .. N |-> h[i]]
    OBVIOUS
  <2>. HIDE DEF h
  <2>3. f = h
    BY <2>1, <2>2
  <2>. QED  BY <2>3, Zenon DEF h
<1>8. E(g)
  <2>. HIDE DEF E
  <2>. QED  BY <1>3, <1>7
<1>9. /\ g[0] = e
      /\ \A i \in 1 .. N : g[i] = Round(g[i - 1], i)
      /\ g = [i \in 0 .. N |-> g[i]]
  <2>. DEFINE h == [i \in 0 .. N |-> IF i = 0 THEN e ELSE Round(g[i - 1], i)]
  <2>1. /\ h[0] = e
        /\ \A i \in 1 .. N : h[i] = Round(g[i - 1], i)
        /\ h = [i \in 0 .. N |-> h[i]]
    BY <1>1
  <2>2. g = h
    BY <1>8, Zenon
  <2>. HIDE DEF h
  <2>. QED  BY <2>1, <2>2, Zenon
<1>10. \A i \in 0 .. N : g[i] \in B
  <2>. DEFINE T == {i \in 0 .. N : g[i] \in B}
  <2>1. 0 \in T
    BY <1>1, <1>9
  <2>2. ASSUME NEW n \in 0 .. N, n \in T, n < N PROVE n + 1 \in T
    <3>1. n + 1 \in 1 .. N /\ (n + 1) - 1 = n
      BY <1>1, <2>2
    <3>2. g[n + 1] = Round(g[n], n + 1)
      BY <1>9, <3>1, Zenon
    <3>. QED  BY <1>2, <2>2, <3>1, <3>2
  <2>. HIDE DEF T
  <2>3. \A n \in 0 .. N : n \in T
    BY <1>1, <2>1, <2>2, IntervalInduction, Zenon
  <2>. QED  BY <2>3 DEF T
<1>. QED  BY <1>9, <1>10 DEF g, N, B, e, Round

\* The buffer after a round is a prefix of the buffer after any later one, and
\* longer by what the round wrote.
LEMMA FillingPrefix ==
    ASSUME NEW P, \A p \in P : p.size \in Nat, NEW ps \in Seq(P)
    PROVE  /\ BatchBytes(ps) \in Seq(PayloadByte(P))
           /\ \A i \in 0 .. Len(ps) :
                 /\ Len(Filling(ps)[i]) \in Nat /\ i <= Len(Filling(ps)[i])
                 /\ Len(Filling(ps)[i]) <= Len(BatchBytes(ps))
           /\ \A i \in 1 .. Len(ps) :
                 /\ Len(Filling(ps)[i]) = Len(Filling(ps)[i - 1]) + ps[i].size + 1
                 /\ \A k \in 1 .. ps[i].size + 1 :
                       BatchBytes(ps)[Len(Filling(ps)[i - 1]) + k]
                          = Prefixed(ps[i])[k]
<1>. DEFINE B == PayloadByte(P)
            N == Len(ps)
            b == Filling(ps)
            L == [i \in 0 .. N |-> Len(b[i])]
<1>1. N \in Nat /\ \A i \in 1 .. N : ps[i] \in P /\ ps[i].size \in Nat
  OBVIOUS
<1>2. /\ b \in [0 .. N -> Seq(B)] /\ b[0] = <<>>
      /\ \A i \in 1 .. N : b[i] = b[i - 1] \o Prefixed(ps[i])
  BY FillingFacts, Zenon
<1>3. \A i \in 1 .. N : /\ Prefixed(ps[i]) \in Seq(B)
                        /\ Len(Prefixed(ps[i])) = ps[i].size + 1
  BY <1>1, PrefixedFacts
<1>4. BatchBytes(ps) = b[N]
  BY DEF BatchBytes
<1>. HIDE DEF B, N, b
<1>5. \A i \in 0 .. N : L[i] = Len(b[i]) /\ L[i] \in Nat /\ b[i] \in Seq(B)
  BY <1>1, <1>2
<1>6. L[0] = 0
  BY <1>1, <1>2
<1>. HIDE DEF L
<1>7. ASSUME NEW i \in 1 .. N
      PROVE  /\ L[i] = L[i - 1] + ps[i].size + 1
             /\ \A k \in 1 .. L[i - 1] : b[i][k] = b[i - 1][k]
             /\ \A k \in 1 .. ps[i].size + 1 :
                   b[i][L[i - 1] + k] = Prefixed(ps[i])[k]
  <2>. DEFINE c == b[i - 1]
              d == Prefixed(ps[i])
  <2>0. i - 1 \in 0 .. N /\ i \in 0 .. N
    BY <1>1
  <2>1. c \in Seq(B) /\ Len(c) = L[i - 1] /\ Len(b[i]) = L[i] /\ L[i - 1] \in Nat
    BY <1>5, <2>0
  <2>2. d \in Seq(B) /\ Len(d) = ps[i].size + 1 /\ ps[i].size \in Nat
    BY <1>1, <1>3
  <2>b. b[i] = c \o d
    BY <1>2, Zenon
  <2>. HIDE DEF c, d
  <2>3. /\ Len(c \o d) = Len(c) + Len(d)
        /\ \A k \in 1 .. Len(c) : (c \o d)[k] = c[k]
        /\ \A k \in 1 .. Len(d) : (c \o d)[Len(c) + k] = d[k]
    <3>1. c \in Seq(B) /\ d \in Seq(B)
      BY <2>1, <2>2
    <3>2. Len(c \o d) = Len(c) + Len(d)
      BY <3>1, ConcatFacts
    <3>3. \A k \in 1 .. Len(c) : (c \o d)[k] = c[k]
      BY <3>1, ConcatFacts
    <3>4. \A k \in 1 .. Len(d) : (c \o d)[Len(c) + k] = d[k]
      BY <3>1, ConcatFacts
    <3>. QED  BY <3>2, <3>3, <3>4
  <2>l. Len(b[i]) = Len(c) + Len(d)
    BY <2>b, <2>3
  <2>4. L[i] = L[i - 1] + ps[i].size + 1
    <3>1. L[i] = L[i - 1] + (ps[i].size + 1)
      BY <2>1, <2>2, <2>l, Zenon
    <3>2. L[i - 1] \in Nat /\ ps[i].size \in Nat
      BY <2>1, <2>2
    <3>. QED  BY <3>1, <3>2
  <2>5. \A k \in 1 .. L[i - 1] : b[i][k] = c[k]
    BY <2>b, <2>1, <2>3
  <2>6. \A k \in 1 .. ps[i].size + 1 : b[i][L[i - 1] + k] = d[k]
    BY <2>b, <2>1, <2>2, <2>3, Zenon
  <2>. QED  BY <2>4, <2>5, <2>6 DEF c, d
<1>. DEFINE T == {j \in 0 .. N : /\ j <= L[j]
                                 /\ \A i \in 0 .. j :
                                       /\ L[i] <= L[j]
                                       /\ \A k \in 1 .. L[i] : b[j][k] = b[i][k]}
<1>8. 0 \in T
  BY <1>1, <1>5, <1>6
<1>9. ASSUME NEW n \in 0 .. N, n \in T, n < N PROVE n + 1 \in T
  <2>1. n + 1 \in 1 .. N /\ n + 1 \in 0 .. N /\ (n + 1) - 1 = n /\ n \in Nat
    BY <1>1, <1>9
  <2>2. ps[n + 1].size \in Nat /\ L[n] \in Nat /\ L[n + 1] \in Nat
    BY <1>1, <1>5, <2>1
  <2>3. /\ L[n + 1] = L[n] + ps[n + 1].size + 1
        /\ \A k \in 1 .. L[n] : b[n + 1][k] = b[n][k]
    BY <1>7, <2>1
  <2>4. n + 1 <= L[n + 1] /\ L[n] <= L[n + 1]
    BY <1>9, <2>1, <2>2, <2>3
  <2>5. ASSUME NEW i \in 0 .. n + 1
        PROVE  L[i] <= L[n + 1] /\ \A k \in 1 .. L[i] : b[n + 1][k] = b[i][k]
    <3>1. CASE i = n + 1
      BY <2>2, <3>1
    <3>2. CASE i \in 0 .. n
      <4>1. L[i] <= L[n] /\ \A k \in 1 .. L[i] : b[n][k] = b[i][k]
        BY <1>9, <3>2
      <4>2. L[i] \in Nat
        BY <1>1, <1>5, <2>1, <3>2
      <4>3. \A k \in 1 .. L[i] : k \in 1 .. L[n]
        BY <2>2, <4>1, <4>2
      <4>. QED  BY <2>2, <2>3, <2>4, <4>1, <4>2, <4>3
    <3>. QED  BY <2>1, <3>1, <3>2
  <2>. QED  BY <2>1, <2>4, <2>5
<1>10. \A n \in 0 .. N : n \in T
  <2>. HIDE DEF T
  <2>. QED  BY <1>1, <1>8, <1>9, IntervalInduction, Zenon
<1>11. \A i \in 0 .. N : /\ i <= L[i] /\ L[i] <= L[N]
                         /\ \A k \in 1 .. L[i] : b[N][k] = b[i][k]
  BY <1>1, <1>10
<1>12. ASSUME NEW i \in 1 .. N, NEW k \in 1 .. ps[i].size + 1
       PROVE  b[N][L[i - 1] + k] = Prefixed(ps[i])[k]
  <2>1. ps[i].size \in Nat /\ L[i - 1] \in Nat /\ L[i] = L[i - 1] + ps[i].size + 1
    BY <1>1, <1>5, <1>7
  <2>2. L[i - 1] + k \in 1 .. L[i] /\ i \in 0 .. N
    BY <2>1
  <2>. QED  BY <1>7, <1>11, <2>2
<1>13. \A i \in 1 .. N : i - 1 \in 0 .. N /\ i \in 0 .. N
  BY <1>1
<1>14. /\ BatchBytes(ps) \in Seq(B)
       /\ \A i \in 0 .. N : /\ Len(b[i]) \in Nat /\ i <= Len(b[i])
                            /\ Len(b[i]) <= Len(BatchBytes(ps))
  <2>1. N \in 0 .. N
    BY <1>1
  <2>. QED  BY <1>4, <1>5, <1>11, <2>1
<1>15. ASSUME NEW i \in 1 .. N
       PROVE  /\ Len(b[i]) = Len(b[i - 1]) + ps[i].size + 1
              /\ \A k \in 1 .. ps[i].size + 1 :
                    BatchBytes(ps)[Len(b[i - 1]) + k] = Prefixed(ps[i])[k]
  <2>1. Len(b[i]) = L[i] /\ Len(b[i - 1]) = L[i - 1]
    BY <1>5, <1>13
  <2>2. L[i] = L[i - 1] + ps[i].size + 1
    BY <1>7
  <2>3. \A k \in 1 .. ps[i].size + 1 : b[N][L[i - 1] + k] = Prefixed(ps[i])[k]
    BY <1>12
  <2>. QED  BY <1>4, <2>1, <2>2, <2>3
<1>. QED
  BY <1>14, <1>15 DEF N, b, B

\* The bytes of a packet that is not empty are recognised.
LEMMA AsPacketInverse ==
    ASSUME NEW p, p.size \in Nat \ {0}
    PROVE  AsPacket(PacketBytes(p)) = p
<1>1. PacketBytes(p)[1] = [is |-> "packet", of |-> p] /\ PacketBytes(p) # <<>>
  BY DEF PacketBytes
<1>. QED  BY <1>1 DEF AsPacket

\* The peer takes the packets out of a batch one by one.
LEMMA TakeFacts ==
    ASSUME NEW P, \A p \in P : p.size \in Nat \ {0}, NEW ps \in Seq(P),
           NEW i \in 1 .. Len(ps)
    PROVE  Take(BatchBytes(ps),
                [at |-> Len(Filling(ps)[i - 1]), got |-> SubSeq(ps, 1, i - 1)])
              = [at |-> Len(Filling(ps)[i]), got |-> SubSeq(ps, 1, i)]
<1>. DEFINE bytes == BatchBytes(ps)
            a == Len(Filling(ps)[i - 1])
            c == Len(Filling(ps)[i])
            p == ps[i]
            n == p.size
            m == Len(bytes)
            st == [at |-> a, got |-> SubSeq(ps, 1, i - 1)]
<1>1. p \in P /\ n \in Nat \ {0} /\ Len(ps) \in Nat /\ i - 1 \in 0 .. Len(ps)
      /\ i \in 0 .. Len(ps)
  OBVIOUS
<1>2. /\ bytes \in Seq(PayloadByte(P)) /\ a \in Nat /\ c \in Nat /\ m \in Nat
      /\ c <= m /\ c = a + n + 1
      /\ \A k \in 1 .. n + 1 : bytes[a + k] = Prefixed(p)[k]
  <2>0. \A x \in P : x.size \in Nat
    OBVIOUS
  <2>1. bytes \in Seq(PayloadByte(P))
    BY <2>0, FillingPrefix
  <2>2. a \in Nat /\ c \in Nat /\ c <= m
    BY <1>1, <2>0, FillingPrefix, Zenon
  <2>3. c = a + n + 1
    BY <1>1, <2>0, FillingPrefix, Zenon
  <2>4. \A k \in 1 .. n + 1 : bytes[a + k] = Prefixed(p)[k]
    BY <1>1, <2>0, FillingPrefix, Zenon
  <2>5. m \in Nat
    BY <2>1
  <2>. QED  BY <2>1, <2>2, <2>3, <2>4, <2>5
<1>3. /\ Prefixed(p)[1] = LengthByte(n, "little")
      /\ \A k \in 1 .. n : Prefixed(p)[k + 1] = PacketBytes(p)[k]
  BY <1>1, PrefixedFacts, Zenon
<1>. HIDE DEF bytes, a, c, p, n
<1>4. AsLength(bytes[a + 1], BatchOrder) = n
  <2>1. bytes[a + 1] = LengthByte(n, "little")
    BY <1>1, <1>2, <1>3
  <2>. QED  BY <2>1, BatchOrderAssumption DEF AsLength, LengthByte
<1>5. a # m /\ ~(a + n >= m)
  BY <1>1, <1>2
<1>6. SubSeq(bytes, a + 2, a + n + 1) = PacketBytes(p)
  <2>1. SubSeq(bytes, a + 2, a + n + 1) =
           [k \in 1 .. ((a + n + 1) + 1) - (a + 2) |-> bytes[(k + (a + 2)) - 1]]
    BY <1>1, <1>2, SubSeqFacts
  <2>2. ((a + n + 1) + 1) - (a + 2) = n
    BY <1>1, <1>2
  <2>3. ASSUME NEW k \in 1 .. n PROVE bytes[(k + (a + 2)) - 1] = PacketBytes(p)[k]
    <3>1. (k + (a + 2)) - 1 = a + (k + 1) /\ k + 1 \in 1 .. n + 1
      BY <1>1, <1>2
    <3>. QED  BY <1>2, <1>3, <3>1
  <2>4. PacketBytes(p) = [k \in 1 .. n |-> PacketBytes(p)[k]]
    BY DEF PacketBytes, n
  <2>. QED  BY <2>1, <2>2, <2>3, <2>4
<1>7. AsPacket(SubSeq(bytes, a + 2, a + n + 1)) = p
  BY <1>1, <1>6, AsPacketInverse, Zenon DEF n
<1>8. Append(SubSeq(ps, 1, i - 1), p) = SubSeq(ps, 1, i)
  BY SubSeqGrows DEF p
<1>9. Take(bytes, st) = [at |-> a + n + 1, got |-> Append(SubSeq(ps, 1, i - 1), p)]
  <2>. DEFINE q == SubSeq(ps, 1, i - 1)
  <2>. HIDE DEF q
  <2>1. Take(bytes, [at |-> a, got |-> q]) = [at |-> a + n + 1, got |-> Append(q, p)]
    BY <1>4, <1>5, <1>7, Zenon DEF Take
  <2>. QED  BY <2>1 DEF q
<1>. QED  BY <1>2, <1>8, <1>9, Zenon DEF bytes, a, c

\* What the peer takes out of a batch is what WriteBatch put into it, as it reads
\* the lengths in the byte order WriteBatch uses (BatchOrderAssumption).
THEOREM UnbatchInverse ==
    ASSUME NEW P, \A p \in P : p.size \in Nat \ {0}, NEW ps \in Seq(P)
    PROVE  Unbatch(BatchBytes(ps)) = ps
<1>. DEFINE bytes == BatchBytes(ps)
            N == Len(ps)
            M == Len(bytes)
            L == [i \in 0 .. N |-> Len(Filling(ps)[i])]
            Step(x) == Take(bytes, x)
            start == [at |-> 0, got |-> <<>>]
            g == [i \in 0 .. M |->
                    IF i <= N THEN [at |-> L[i], got |-> SubSeq(ps, 1, i)]
                              ELSE [at |-> M, got |-> ps]]
            E(f) == f = [i \in 0 .. M |-> IF i = 0 THEN start ELSE Step(f[i - 1])]
            f == Taking(bytes)
<1>0. \A x \in P : x.size \in Nat
  OBVIOUS
<1>1. N \in Nat /\ bytes \in Seq(PayloadByte(P)) /\ M \in Nat
  BY <1>0, FillingPrefix
<1>2. \A i \in 0 .. N : L[i] \in Nat /\ i <= L[i] /\ L[i] <= M
  BY <1>0, FillingPrefix, Zenon
<1>3. L[0] = 0 /\ L[N] = M
  <2>1. Filling(ps)[0] = <<>>
    BY <1>0, FillingFacts, Zenon
  <2>2. 0 \in 0 .. N /\ N \in 0 .. N
    BY <1>1
  <2>. QED  BY <2>1, <2>2 DEF BatchBytes
<1>4. SubSeq(ps, 1, 0) = <<>> /\ SubSeq(ps, 1, N) = ps
  OBVIOUS
<1>5. ASSUME NEW i \in 1 .. N
      PROVE  Step([at |-> L[i - 1], got |-> SubSeq(ps, 1, i - 1)])
                = [at |-> L[i], got |-> SubSeq(ps, 1, i)]
  <2>1. L[i - 1] = Len(Filling(ps)[i - 1]) /\ L[i] = Len(Filling(ps)[i])
    BY <1>1
  <2>. QED  BY <2>1, TakeFacts, Zenon
<1>6. Step([at |-> M, got |-> ps]) = [at |-> M, got |-> ps]
  BY DEF Take
<1>7. f = CHOOSE h : E(h)
  BY DEF Taking
<1>8. Unbatch(bytes) = f[M].got
  BY DEF Unbatch
<1>. HIDE DEF bytes, N, M, L, Step, f
<1>9. N <= M
  BY <1>1, <1>2, <1>3
<1>10. g[0] = start /\ g[M] = [at |-> M, got |-> ps]
  <2>1. 0 \in 0 .. M /\ M \in 0 .. M /\ 0 <= N /\ (M <= N => M = N)
    BY <1>1, <1>9
  <2>2. g[0] = [at |-> L[0], got |-> SubSeq(ps, 1, 0)]
    BY <2>1
  <2>3. CASE M <= N
    <3>1. M = N
      BY <2>1, <2>3
    <3>2. g[M] = [at |-> L[M], got |-> SubSeq(ps, 1, M)]
      BY <2>1, <2>3
    <3>. QED  BY <1>3, <1>4, <2>2, <3>1, <3>2, Zenon
  <2>4. CASE ~(M <= N)
    <3>1. g[M] = [at |-> M, got |-> ps]
      BY <2>1, <2>4
    <3>. QED  BY <1>3, <1>4, <2>2, <3>1, Zenon
  <2>. QED  BY <2>3, <2>4
<1>11. ASSUME NEW i \in 1 .. M PROVE g[i] = Step(g[i - 1])
  <2>1. i \in 0 .. M /\ i - 1 \in 0 .. M
    BY <1>1
  <2>2. CASE i \in 1 .. N
    <3>1. i <= N /\ i - 1 <= N
      BY <1>1, <2>2
    <3>2. /\ g[i] = [at |-> L[i], got |-> SubSeq(ps, 1, i)]
          /\ g[i - 1] = [at |-> L[i - 1], got |-> SubSeq(ps, 1, i - 1)]
      BY <2>1, <3>1
    <3>. QED  BY <1>5, <2>2, <3>2, Zenon
  <2>3. CASE i > N
    <3>1. g[i] = [at |-> M, got |-> ps]
      BY <1>1, <2>1, <2>3
    <3>2. g[i - 1] = [at |-> M, got |-> ps]
      <4>1. CASE i - 1 = N
        BY <1>1, <1>3, <1>4, <2>1, <4>1
      <4>2. CASE i - 1 > N
        BY <1>1, <2>1, <4>2
      <4>. QED  BY <1>1, <2>3, <4>1, <4>2
    <3>. QED  BY <1>6, <3>1, <3>2
  <2>. QED  BY <1>1, <2>2, <2>3
<1>12. g = [i \in 0 .. M |-> g[i]]
  OBVIOUS
<1>. HIDE DEF g, start
<1>13. E(g)
  <2>. DEFINE h == [i \in 0 .. M |-> IF i = 0 THEN start ELSE Step(g[i - 1])]
  <2>1. \A i \in 0 .. M : g[i] = h[i]
    <3>. TAKE i \in 0 .. M
    <3>1. CASE i = 0
      BY <1>10, <3>1
    <3>2. CASE i \in 1 .. M
      BY <1>11, <3>2
    <3>. QED  BY <1>1, <3>1, <3>2
  <2>2. h = [i \in 0 .. M |-> h[i]]
    OBVIOUS
  <2>. HIDE DEF h
  <2>3. g = h
    BY <1>12, <2>1, <2>2
  <2>. QED  BY <2>3, Zenon DEF h
<1>14. E(f)
  <2>. HIDE DEF E
  <2>. QED  BY <1>7, <1>13
<1>15. f[0] = start /\ \A i \in 1 .. M : f[i] = Step(f[i - 1])
  <2>. DEFINE h == [i \in 0 .. M |-> IF i = 0 THEN start ELSE Step(f[i - 1])]
  <2>1. h[0] = start /\ \A i \in 1 .. M : h[i] = Step(f[i - 1])
    BY <1>1
  <2>2. f = h
    BY <1>14, Zenon
  <2>. HIDE DEF h
  <2>. QED  BY <2>1, <2>2
<1>16. \A i \in 0 .. M : f[i] = g[i]
  <2>. DEFINE T == {i \in 0 .. M : f[i] = g[i]}
  <2>1. 0 \in T
    BY <1>1, <1>10, <1>15
  <2>2. ASSUME NEW n \in 0 .. M, n \in T, n < M PROVE n + 1 \in T
    <3>1. n + 1 \in 1 .. M /\ (n + 1) - 1 = n
      BY <1>1, <2>2
    <3>2. f[n + 1] = Step(f[n]) /\ g[n + 1] = Step(g[n])
      BY <1>11, <1>15, <3>1
    <3>. QED  BY <2>2, <3>1, <3>2
  <2>. HIDE DEF T
  <2>3. \A n \in 0 .. M : n \in T
    BY <1>1, <2>1, <2>2, IntervalInduction, Zenon
  <2>. QED  BY <2>3 DEF T
<1>17. f[M].got = ps
  BY <1>1, <1>10, <1>16
<1>. QED  BY <1>8, <1>17 DEF bytes

-----------------------------------------------------------------------------
\* Frames.

Byte(P) == PayloadByte(P)
              \cup [is : {"flags"}, of : SUBSET {"batch", "compressed"}]
              \cup [is : {"snappy"}, of : Seq(PayloadByte(P))]

\* All the bytes of the Write calls a goroutine has still to make.
Flat(parts) ==
    IF parts = <<>> THEN <<>>
    ELSE IF Len(parts) = 1 THEN parts[1] ELSE parts[1] \o parts[2]

\* These bytes are one frame, and a peer decodes x from it.
IsFrame(bytes, x) ==
    /\ bytes # <<>>
    /\ bytes[1] = LengthByte(Len(bytes) - 1, "big")
    /\ Decode(SubSeq(bytes, 2, Len(bytes))) = x

\* The two Write calls of such a frame.
Writes(P, parts, x) ==
    /\ parts \in Seq(Seq(Byte(P))) /\ Len(parts) = 2
    /\ Flat(parts) \in Seq(Byte(P))
    /\ IsFrame(Flat(parts), x)

\* What WriteWithFlags writes is a frame with the flags and the data.
LEMMA WriteWithFlagsFacts ==
    ASSUME NEW P, NEW flags \in SUBSET {"batch", "compressed"},
           NEW data \in Seq(Byte(P))
    PROVE  Writes(P, WriteWithFlags(flags, data), Decode(<<FlagsByte(flags)>> \o data))
<1>. DEFINE B == Byte(P)
            n == Len(data)
            l == LengthByte(n + 1, "big")
            f == FlagsByte(flags)
            all == <<l, f>> \o data
<1>0. n \in Nat
  OBVIOUS
<1>1. l \in B /\ f \in B
  BY <1>0 DEF Byte, PayloadByte, LengthByte, FlagsByte
<1>2. WriteWithFlags(flags, data) = <<<<l, f>>, data>>
  BY DEF WriteWithFlags
<1>. HIDE DEF B, l, f
<1>3. <<l, f>> \in Seq(B) /\ data \in Seq(B) /\ Len(<<l, f>>) = 2 /\ <<f>> \in Seq(B)
  BY <1>1 DEF B
<1>4. Flat(<<<<l, f>>, data>>) = all
  BY DEF Flat
<1>5. all \in Seq(B) /\ Len(all) = n + 2 /\ all # <<>> /\ all[1] = l
  BY <1>0, <1>3
<1>6. SubSeq(all, 2, n + 2) = <<f>> \o data
  <2>1. /\ SubSeq(all, 2, n + 2) \in Seq(B)
        /\ Len(SubSeq(all, 2, n + 2)) = n + 1
        /\ \A k \in 1 .. n + 1 : SubSeq(all, 2, n + 2)[k] = all[k + 1]
    BY <1>0, <1>5
  <2>2. all[2] = f /\ \A k \in 1 .. n : all[k + 2] = data[k]
    BY <1>0, <1>3
  <2>3. /\ <<f>> \o data \in Seq(B) /\ Len(<<f>> \o data) = n + 1
        /\ (<<f>> \o data)[1] = f
        /\ \A k \in 1 .. n : (<<f>> \o data)[k + 1] = data[k]
    BY <1>0, <1>3
  <2>. DEFINE c == SubSeq(all, 2, n + 2)
              d == <<f>> \o data
  <2>4. ASSUME NEW k \in 1 .. n + 1 PROVE c[k] = d[k]
    <3>1. CASE k = 1
      BY <2>1, <2>2, <2>3, <3>1
    <3>2. CASE k \in 2 .. n + 1
      <4>1. k - 1 \in 1 .. n /\ (k - 1) + 2 = k + 1 /\ (k - 1) + 1 = k
        BY <1>0, <3>2
      <4>. HIDE DEF all
      <4>2. all[k + 1] = data[k - 1] /\ d[k] = data[k - 1]
        BY <2>2, <2>3, <4>1
      <4>. QED  BY <2>1, <4>2
    <3>. QED  BY <1>0, <3>1, <3>2
  <2>. HIDE DEF c, d, all
  <2>. QED  BY <2>1, <2>3, <2>4, SeqEqual, Zenon DEF c, d
<1>. HIDE DEF all
<1>7. IsFrame(all, Decode(<<f>> \o data))
  <2>1. Len(all) - 1 = n + 1
    BY <1>0, <1>5
  <2>. QED  BY <1>5, <1>6, <2>1, Zenon DEF IsFrame, l
<1>8. <<<<l, f>>, data>> \in Seq(Seq(B)) /\ Len(<<<<l, f>>, data>>) = 2
  BY <1>3
<1>. QED  BY <1>2, <1>4, <1>5, <1>7, <1>8 DEF B, f, Writes

\* What the peer makes of the flags and the data of a frame.
LEMMA DecodeFacts ==
    ASSUME NEW P, NEW flags \in {{}, {"batch"}}, NEW buf \in Seq(PayloadByte(P))
    PROVE  LET x == IF flags = {} THEN <<AsPacket(buf)>> ELSE Unbatch(buf) IN
           /\ Decode(<<FlagsByte(flags)>> \o buf) = x
           /\ Decode(<<FlagsByte(flags \cup {"compressed"})>> \o snappyEncode(buf))
                 = x
<1>1. ASSUME NEW fl \in SUBSET {"batch", "compressed"}, NEW data \in Seq(Byte(P))
      PROVE  Decode(<<FlagsByte(fl)>> \o data) =
                LET b == IF "compressed" \in fl THEN snappyDecode(data) ELSE data
                IN  IF "batch" \in fl THEN Unbatch(b) ELSE <<AsPacket(b)>>
  <2>. DEFINE f == FlagsByte(fl)
              all == <<f>> \o data
  <2>1. f \in Byte(P) /\ f.is = "flags" /\ f.of = fl
    BY DEF FlagsByte, Byte
  <2>. HIDE DEF f
  <2>2. all # <<>> /\ all[1] = f /\ Tail(all) = data
    BY <2>1
  <2>. HIDE DEF all
  <2>. QED  BY <2>1, <2>2, Zenon DEF Decode, all, f
<1>2. buf \in Seq(Byte(P))
  BY DEF Byte
<1>3. snappyEncode(buf) \in Seq(Byte(P)) /\ snappyDecode(snappyEncode(buf)) = buf
  BY DEF snappyEncode, snappyDecode, Byte
<1>. HIDE DEF snappyEncode
<1>4. flags \cup {"compressed"} \in SUBSET {"batch", "compressed"}
      /\ flags \in SUBSET {"batch", "compressed"} /\ "compressed" \notin flags
  OBVIOUS
<1>5. "batch" \in flags <=> flags # {}
  OBVIOUS
<1>. QED  BY <1>1, <1>2, <1>3, <1>4, <1>5, Zenon

\* The frame of a buffer, compressed or not, decodes to what the buffer holds.
LEMMA FrameFacts ==
    ASSUME NEW P, NEW flags \in {{}, {"batch"}}, NEW buf \in Seq(PayloadByte(P))
    PROVE  Writes(P, Frame(flags, buf),
                  IF flags = {} THEN <<AsPacket(buf)>> ELSE Unbatch(buf))
<1>. DEFINE x == IF flags = {} THEN <<AsPacket(buf)>> ELSE Unbatch(buf)
            z == snappyEncode(buf)
            c == flags \cup {"compressed"}
<1>0. /\ Decode(<<FlagsByte(flags)>> \o buf) = x
      /\ Decode(<<FlagsByte(c)>> \o z) = x
  BY DecodeFacts, Zenon
<1>1. buf \in Seq(Byte(P)) /\ snappyEncode(buf) \in Seq(Byte(P))
  BY DEF snappyEncode, Byte
<1>2. flags \cup {"compressed"} \in SUBSET {"batch", "compressed"}
      /\ flags \in SUBSET {"batch", "compressed"}
  OBVIOUS
<1>3. CASE Len(buf) > Threshold
  <2>1. Frame(flags, buf) = WriteWithFlags(flags \cup {"compressed"}, snappyEncode(buf))
    BY <1>3 DEF Frame
  <2>. HIDE DEF x, z, c
  <2>2. Writes(P, WriteWithFlags(c, z), Decode(<<FlagsByte(c)>> \o z))
    BY <1>1, <1>2, WriteWithFlagsFacts, Zenon DEF c, z
  <2>. QED  BY <1>0, <2>1, <2>2 DEF c, z, x
<1>4. CASE ~(Len(buf) > Threshold)
  <2>1. Frame(flags, buf) = WriteWithFlags(flags, buf)
    BY <1>4 DEF Frame
  <2>. HIDE DEF x
  <2>2. Writes(P, WriteWithFlags(flags, buf), Decode(<<FlagsByte(flags)>> \o buf))
    BY <1>1, <1>2, WriteWithFlagsFacts
  <2>. QED  BY <1>0, <2>1, <2>2 DEF x
<1>. QED  BY <1>3, <1>4

\* The peer gets the packets of a batch out of the frame WriteBatch makes of them.
THEOREM BatchFrameDecodes ==
    ASSUME NEW P, \A p \in P : p.size \in Nat \ {0}, NEW ps \in Seq(P)
    PROVE  Writes(P, Frame({"batch"}, BatchBytes(ps)), ps)
<1>1. BatchBytes(ps) \in Seq(PayloadByte(P))
  <2>1. \A p \in P : p.size \in Nat
    OBVIOUS
  <2>. QED  BY <2>1, FillingPrefix
<1>2. Unbatch(BatchBytes(ps)) = ps
  BY UnbatchInverse
<1>3. {"batch"} # {}
  OBVIOUS
<1>. QED  BY <1>1, <1>2, <1>3, FrameFacts, Zenon

\* And the packet out of the frame WritePacket makes of it.
THEOREM PacketFrameDecodes ==
    ASSUME NEW P, NEW p \in P, p.size \in Nat \ {0}
    PROVE  Writes(P, Frame({}, PacketBytes(p)), <<p>>)
<1>1. PacketBytes(p) \in Seq(PayloadByte(P)) /\ AsPacket(PacketBytes(p)) = p
  BY PrefixedFacts, AsPacketInverse
<1>. QED  BY <1>1, FrameFacts

-----------------------------------------------------------------------------
\* Streams.

\* The bytes are a frame for each element of want, in order; cut says where each
\* one ends.
Framed(bytes, want) ==
    \E cut \in [0 .. Len(want) -> 0 .. Len(bytes)] :
        /\ cut[0] = 0 /\ cut[Len(want)] = Len(bytes)
        /\ \A i \in 1 .. Len(want) :
              /\ cut[i - 1] < cut[i]
              /\ IsFrame(SubSeq(bytes, cut[i - 1] + 1, cut[i]), want[i])

\* The stream before anything is written.
LEMMA FramedEmpty == Framed(<<>>, <<>>)
<1>. DEFINE cut == [i \in 0 .. 0 |-> 0]
<1>1. /\ cut \in [0 .. Len(<<>>) -> 0 .. Len(<<>>)]
      /\ cut[0] = 0 /\ cut[Len(<<>>)] = Len(<<>>)
      /\ \A i \in 1 .. Len(<<>>) : FALSE
  OBVIOUS
<1>. HIDE DEF cut
<1>. QED  BY <1>1 DEF Framed

\* One more frame.
LEMMA FramedAppend ==
    ASSUME NEW S, NEW bytes \in Seq(S), NEW fr \in Seq(S), NEW W, NEW want \in Seq(W),
           NEW x \in W, Framed(bytes, want), IsFrame(fr, x)
    PROVE  Framed(bytes \o fr, Append(want, x))
<1>. DEFINE n == Len(want)
            l == Len(bytes)
            m == Len(fr)
            all == bytes \o fr
            wantx == Append(want, x)
<1>1. PICK cut \in [0 .. n -> 0 .. l] :
        /\ cut[0] = 0 /\ cut[n] = l
        /\ \A i \in 1 .. n : /\ cut[i - 1] < cut[i]
                             /\ IsFrame(SubSeq(bytes, cut[i - 1] + 1, cut[i]), want[i])
  BY DEF Framed
<1>2. n \in Nat /\ l \in Nat /\ m \in Nat /\ Len(all) = l + m /\ all \in Seq(S)
  BY ConcatFacts
<1>3. m > 0
  <2>1. fr # <<>>
    BY DEF IsFrame
  <2>. QED  BY <1>2, <2>1
<1>4. Len(wantx) = n + 1 /\ wantx[n + 1] = x /\ \A i \in 1 .. n : wantx[i] = want[i]
  OBVIOUS
<1>. HIDE DEF n, l, m, all, wantx
<1>. DEFINE c == [i \in 0 .. n + 1 |-> IF i = n + 1 THEN l + m ELSE cut[i]]
<1>5. c[n + 1] = l + m /\ \A i \in 0 .. n : c[i] = cut[i] /\ cut[i] \in Nat /\ cut[i] <= l
  BY <1>1, <1>2
<1>6. c \in [0 .. n + 1 -> 0 .. l + m]
  BY <1>1, <1>2
<1>. HIDE DEF c
<1>7. ASSUME NEW i \in 1 .. n + 1
      PROVE  c[i - 1] < c[i] /\ IsFrame(SubSeq(all, c[i - 1] + 1, c[i]), wantx[i])
  <2>1. CASE i \in 1 .. n
    <3>1. i - 1 \in 0 .. n /\ i \in 0 .. n
      BY <1>2, <2>1
    <3>2. /\ c[i - 1] = cut[i - 1] /\ c[i] = cut[i] /\ wantx[i] = want[i]
          /\ cut[i - 1] \in Nat /\ cut[i] \in Nat /\ cut[i] <= l /\ cut[i - 1] < cut[i]
      BY <1>1, <1>4, <1>5, <2>1, <3>1
    <3>3. cut[i - 1] + 1 \in Nat \ {0} /\ cut[i - 1] + 1 <= cut[i] + 1
      BY <3>2
    <3>4. SubSeq(all, cut[i - 1] + 1, cut[i]) = SubSeq(bytes, cut[i - 1] + 1, cut[i])
      BY <3>2, <3>3, SubSeqLeft, Zenon DEF all, l
    <3>. QED  BY <1>1, <2>1, <3>2, <3>4, Zenon
  <2>2. CASE i = n + 1
    <3>1. c[i - 1] = l /\ c[i] = l + m /\ wantx[i] = x
      BY <1>1, <1>2, <1>4, <1>5, <2>2
    <3>2. SubSeq(all, l + 1, l + m) = SubSeq(fr, 1, m)
      BY <1>2, SubSeqRight DEF all, l, m
    <3>3. SubSeq(fr, 1, m) = fr
      BY DEF m
    <3>4. l < l + m
      BY <1>2, <1>3
    <3>5. SubSeq(all, c[i - 1] + 1, c[i]) = fr
      BY <3>1, <3>2, <3>3, Zenon
    <3>6. IsFrame(SubSeq(all, c[i - 1] + 1, c[i]), wantx[i])
      BY <3>1, <3>5, Zenon
    <3>. QED  BY <3>1, <3>4, <3>6
  <2>. QED  BY <1>2, <2>1, <2>2
<1>8. c[0] = 0
  BY <1>1, <1>2, <1>5
<1>9. Framed(all, wantx)
  BY <1>2, <1>4, <1>5, <1>6, <1>7, <1>8, Zenon DEF Framed
<1>. QED  BY <1>9 DEF all, wantx

\* The first frame, and the ones behind it.
LEMMA FramedHead ==
    ASSUME NEW S, NEW bytes \in Seq(S), NEW W, NEW want \in Seq(W),
           Framed(bytes, want), want # <<>>
    PROVE  \E h \in 1 .. Len(bytes) :
              /\ IsFrame(SubSeq(bytes, 1, h), Head(want))
              /\ Framed(SubSeq(bytes, h + 1, Len(bytes)), Tail(want))
<1>. DEFINE n == Len(want)
            l == Len(bytes)
            rst == Tail(want)
<1>1. PICK cut \in [0 .. n -> 0 .. l] :
        /\ cut[0] = 0 /\ cut[n] = l
        /\ \A i \in 1 .. n : /\ cut[i - 1] < cut[i]
                             /\ IsFrame(SubSeq(bytes, cut[i - 1] + 1, cut[i]), want[i])
  BY DEF Framed
<1>2. n \in Nat \ {0} /\ l \in Nat /\ Len(rst) = n - 1 /\ Head(want) = want[1]
      /\ \A i \in 1 .. n - 1 : rst[i] = want[i + 1]
  OBVIOUS
<1>. HIDE DEF n, l, rst
<1>3. \A i \in 0 .. n : cut[i] \in Nat /\ cut[i] <= l
  BY <1>1, <1>2
<1>. DEFINE h == cut[1]
            back == SubSeq(bytes, h + 1, l)
            c == [i \in 0 .. n - 1 |-> cut[i + 1] - h]
<1>4. h \in 1 .. l /\ IsFrame(SubSeq(bytes, 1, h), Head(want))
  <2>1. 1 \in 1 .. n /\ 1 - 1 = 0 /\ 1 \in 0 .. n /\ 0 + 1 = 1
    BY <1>2
  <2>2. cut[1] \in Nat /\ cut[1] <= l /\ 0 < cut[1]
    BY <1>1, <1>3, <2>1
  <2>. QED  BY <1>1, <1>2, <2>1, <2>2
<1>5. \A i \in 1 .. n : h <= cut[i]
  <2>. DEFINE T == {i \in 0 .. n : i > 0 => h <= cut[i]}
  <2>1. 0 \in T
    BY <1>2
  <2>2. ASSUME NEW i \in 0 .. n, i \in T, i < n PROVE i + 1 \in T
    <3>1. i + 1 \in 1 .. n /\ i + 1 \in 0 .. n /\ (i + 1) - 1 = i
      BY <1>2, <2>2
    <3>2. CASE i = 0
      BY <1>4, <3>1, <3>2
    <3>3. CASE i > 0
      <4>1. cut[i] \in Nat /\ cut[i + 1] \in Nat /\ cut[i] < cut[i + 1] /\ h <= cut[i]
        BY <1>1, <1>3, <2>2, <3>1, <3>3
      <4>. QED  BY <1>4, <3>1, <4>1
    <3>. QED  BY <3>2, <3>3
  <2>3. \A i \in 0 .. n : i \in T
    <3>. HIDE DEF T
    <3>. QED  BY <1>2, <2>1, <2>2, IntervalInduction, Zenon
  <2>. QED  BY <1>2, <2>3
<1>6. Len(back) = l - h /\ back \in Seq(S)
  BY <1>2, <1>4, SubSeqFacts DEF l
<1>7. \A i \in 0 .. n - 1 : /\ c[i] = cut[i + 1] - h /\ c[i] \in 0 .. l - h
                            /\ h + c[i] = cut[i + 1]
  <2>. TAKE i \in 0 .. n - 1
  <2>1. i + 1 \in 1 .. n /\ i + 1 \in 0 .. n
    BY <1>2
  <2>2. cut[i + 1] \in Nat /\ cut[i + 1] <= l /\ h <= cut[i + 1]
    BY <1>3, <1>5, <2>1
  <2>. QED  BY <1>2, <1>4, <2>2
<1>8. c \in [0 .. n - 1 -> 0 .. l - h]
  BY <1>7
<1>9. c[0] = 0 /\ c[n - 1] = l - h
  <2>1. 0 \in 0 .. n - 1 /\ n - 1 \in 0 .. n - 1 /\ 0 + 1 = 1 /\ (n - 1) + 1 = n
    BY <1>2
  <2>. QED  BY <1>1, <1>2, <1>4, <1>7, <2>1
<1>. HIDE DEF c
<1>10. ASSUME NEW i \in 1 .. n - 1
       PROVE  c[i - 1] < c[i] /\ IsFrame(SubSeq(back, c[i - 1] + 1, c[i]), rst[i])
  <2>1. i - 1 \in 0 .. n - 1 /\ i \in 0 .. n - 1 /\ (i - 1) + 1 = i
        /\ i + 1 \in 1 .. n /\ (i + 1) - 1 = i
    BY <1>2
  <2>2. /\ c[i - 1] \in 0 .. l - h /\ c[i] \in 0 .. l - h
        /\ h + c[i - 1] = cut[i] /\ h + c[i] = cut[i + 1]
    BY <1>7, <2>1
  <2>3. /\ cut[i] < cut[i + 1] /\ rst[i] = want[i + 1]
        /\ IsFrame(SubSeq(bytes, cut[i] + 1, cut[i + 1]), want[i + 1])
    BY <1>1, <1>2, <2>1, Zenon
  <2>. HIDE DEF h
  <2>4. /\ h \in Nat /\ h <= l /\ c[i - 1] \in Nat /\ c[i] \in Nat /\ c[i - 1] < c[i]
        /\ h + c[i] <= l
        /\ h + (c[i - 1] + 1) = cut[i] + 1 /\ c[i - 1] + 1 <= c[i] + 1
        /\ c[i - 1] + 1 \in Nat \ {0}
    <3>. DEFINE a == c[i - 1]
                b == c[i]
    <3>1. h \in 1 .. l /\ l \in Nat /\ a \in 0 .. l - h /\ b \in 0 .. l - h
      BY <1>2, <1>4, <2>2
    <3>2. h + a < h + b /\ cut[i] = h + a
      BY <2>2, <2>3
    <3>. HIDE DEF a, b
    <3>3. /\ h \in Nat /\ h <= l /\ a \in Nat /\ b \in Nat /\ a < b /\ h + b <= l
          /\ h + (a + 1) = (h + a) + 1 /\ a + 1 <= b + 1 /\ a + 1 \in Nat \ {0}
      BY <3>1, <3>2
    <3>. QED  BY <3>2, <3>3 DEF a, b
  <2>5. SubSeq(back, c[i - 1] + 1, c[i]) = SubSeq(bytes, cut[i] + 1, cut[i + 1])
    <3>1. SubSeq(SubSeq(bytes, h + 1, Len(bytes)), c[i - 1] + 1, c[i])
             = SubSeq(bytes, h + (c[i - 1] + 1), h + c[i])
      BY <2>4, SubSeqInside, Zenon DEF l
    <3>. QED  BY <2>2, <2>4, <3>1, Zenon DEF l
  <2>. QED  BY <2>3, <2>4, <2>5, Zenon
<1>11. Framed(back, rst)
  <2>. HIDE DEF back
  <2>. QED  BY <1>2, <1>6, <1>8, <1>9, <1>10, Zenon DEF Framed
<1>. QED  BY <1>4, <1>11 DEF l, rst

\* The stream str, followed by bytes that are still to be written (pend, while the
\* stream is up) or never will be, is a frame for each element of want.
Carries(P, str, up, pend, want) ==
    \E tl \in Seq(Byte(P)) : /\ Framed(str \o tl, want)
                             /\ up => tl = pend

\* A goroutine starts to write a frame.
LEMMA CarriesFrame ==
    ASSUME NEW P, NEW str \in Seq(Byte(P)), NEW up \in BOOLEAN, NEW W,
           NEW want \in Seq(W), NEW x \in W, NEW parts,
           Carries(P, str, up, <<>>, want), Writes(P, parts, x)
    PROVE  Carries(P, str, up, Flat(parts), Append(want, x))
<1>. DEFINE B == Byte(P)
            fl == Flat(parts)
<1>1. PICK tl \in Seq(B) : Framed(str \o tl, want) /\ (up => tl = <<>>)
  BY DEF Carries
<1>2. fl \in Seq(B) /\ IsFrame(fl, x)
  BY DEF Writes
<1>. HIDE DEF B, fl
<1>3. str \in Seq(B) /\ str \o tl \in Seq(B)
  BY DEF B
<1>4. Framed((str \o tl) \o fl, Append(want, x))
  <2>. DEFINE e == str \o tl
  <2>. HIDE DEF e
  <2>1. e \in Seq(B) /\ Framed(e, want)
    BY <1>1, <1>3 DEF e
  <2>2. Framed(e \o fl, Append(want, x))
    BY <1>2, <2>1, FramedAppend
  <2>. QED  BY <2>2 DEF e
<1>5. (str \o tl) \o fl = str \o (tl \o fl) /\ tl \o fl \in Seq(B)
  BY <1>2, <1>3
<1>6. <<>> \o fl = fl
  BY <1>2
<1>. QED  BY <1>1, <1>4, <1>5, <1>6, Zenon DEF Carries, B, fl

\* Bytes are written.
LEMMA CarriesWritten ==
    ASSUME NEW P, NEW str \in Seq(Byte(P)), NEW a \in Seq(Byte(P)),
           NEW d \in Seq(Byte(P)), NEW want, Carries(P, str, TRUE, a \o d, want)
    PROVE  Carries(P, str \o a, TRUE, d, want)
<1>1. Framed(str \o (a \o d), want)
  BY Zenon DEF Carries
<1>2. str \o (a \o d) = (str \o a) \o d
  OBVIOUS
<1>. QED  BY <1>1, <1>2 DEF Carries

\* The stream breaks after some of them.
LEMMA CarriesCut ==
    ASSUME NEW P, NEW str \in Seq(Byte(P)), NEW a1 \in Seq(Byte(P)),
           NEW a2 \in Seq(Byte(P)), NEW d \in Seq(Byte(P)), NEW want,
           Carries(P, str, TRUE, (a1 \o a2) \o d, want), NEW pend
    PROVE  Carries(P, str \o a1, FALSE, pend, want)
<1>. DEFINE B == Byte(P)
<1>1. Framed(str \o ((a1 \o a2) \o d), want)
  BY Zenon DEF Carries
<1>2. str \in Seq(B) /\ a1 \in Seq(B) /\ a2 \in Seq(B) /\ d \in Seq(B)
  OBVIOUS
<1>. HIDE DEF B
<1>3. a2 \o d \in Seq(B)
  BY <1>2
<1>4. str \o ((a1 \o a2) \o d) = (str \o a1) \o (a2 \o d)
  <2>1. SamePairs(str, a1, a2, d)
    BY <1>2, ConcatPairs
  <2>. QED  BY <2>1 DEF SamePairs
<1>5. Framed((str \o a1) \o (a2 \o d), want)
  BY <1>1, <1>4
<1>. QED  BY <1>3, <1>5, Zenon DEF Carries, B

\* The same, by the number of bytes that were written.
LEMMA CarriesBroken ==
    ASSUME NEW P, NEW str \in Seq(Byte(P)), NEW a \in Seq(Byte(P)),
           NEW d \in Seq(Byte(P)), NEW want, Carries(P, str, TRUE, a \o d, want),
           NEW n \in 0 .. Len(a), NEW pend
    PROVE  Carries(P, str \o SubSeq(a, 1, n), FALSE, pend, want)
<1>. DEFINE a1 == SubSeq(a, 1, n)
            a2 == SubSeq(a, n + 1, Len(a))
<1>1. a1 \in Seq(Byte(P)) /\ a2 \in Seq(Byte(P)) /\ a1 \o a2 = a
  BY SubSeqSplit, Zenon
<1>. HIDE DEF a1, a2
<1>2. Carries(P, str, TRUE, (a1 \o a2) \o d, want)
  BY <1>1, Zenon
<1>3. Carries(P, str \o a1, FALSE, pend, want)
  BY <1>1, <1>2, CarriesCut, Zenon
<1>. QED  BY <1>3, Zenon DEF a1

\* Nothing more is written to a stream that is down.
LEMMA CarriesDown ==
    ASSUME NEW P, NEW str, NEW up, NEW pend, NEW other, NEW want,
           Carries(P, str, up, pend, want)
    PROVE  Carries(P, str, FALSE, other, want)
  BY DEF Carries

\* The peer reads the first frame of a stream once it has arrived: it is the first
\* of those wanted.
LEMMA CarriesRead ==
    ASSUME NEW P, NEW str \in Seq(Byte(P)), NEW up, NEW pend, NEW W,
           NEW want \in Seq(W), Carries(P, str, up, pend, want),
           str # <<>>, Len(str) > AsLength(Head(str), "big")
    PROVE  LET n == AsLength(Head(str), "big") IN
           /\ n \in Nat /\ want # <<>>
           /\ Decode(SubSeq(str, 2, n + 1)) = Head(want)
           /\ Carries(P, SubSeq(str, n + 2, Len(str)), up, pend, Tail(want))
<1>. DEFINE B == Byte(P)
            n == AsLength(Head(str), "big")
            l == Len(str)
<1>1. PICK tl \in Seq(B) : Framed(str \o tl, want) /\ (up => tl = pend)
  BY DEF Carries
<1>. DEFINE all == str \o tl
<1>. HIDE DEF B
<1>2. /\ str \in Seq(B) /\ all \in Seq(B) /\ l \in Nat \ {0} /\ Len(tl) \in Nat
      /\ Len(all) = l + Len(tl) /\ Head(str) = str[1] /\ all[1] = str[1]
  BY DEF B
<1>. HIDE DEF all, l
<1>3. want # <<>>
  <2>1. SUFFICES ASSUME want = <<>> PROVE FALSE
    OBVIOUS
  <2>2. Len(all) = 0
    BY <1>1, <2>1 DEF Framed, all
  <2>. QED  BY <1>2, <2>2
<1>4. PICK h \in 1 .. Len(all) :
         /\ IsFrame(SubSeq(all, 1, h), Head(want))
         /\ Framed(SubSeq(all, h + 1, Len(all)), Tail(want))
  <2>1. Framed(all, want)
    BY <1>1 DEF all
  <2>. QED  BY <1>2, <1>3, <2>1, FramedHead, Zenon
<1>5. h \in Nat \ {0} /\ h <= l + Len(tl)
  BY <1>2
<1>6. /\ Len(SubSeq(all, 1, h)) = h /\ SubSeq(all, 1, h)[1] = all[1]
      /\ SubSeq(SubSeq(all, 1, h), 2, h) = SubSeq(all, 2, h)
  BY <1>2, <1>5
<1>7. n = h - 1
  <2>1. all[1] = LengthByte(h - 1, "big")
    BY <1>4, <1>6 DEF IsFrame
  <2>. QED  BY <1>2, <2>1 DEF AsLength, LengthByte
<1>8. h <= l /\ n \in Nat /\ n + 1 = h /\ n + 2 = h + 1
  <2>1. l > n
    BY DEF l
  <2>. HIDE DEF n
  <2>. QED  BY <1>2, <1>5, <1>7, <2>1
<1>9. Decode(SubSeq(all, 2, h)) = Head(want)
  BY <1>4, <1>6, Zenon DEF IsFrame
<1>10. SubSeq(all, 2, h) = SubSeq(str, 2, h)
  BY <1>2, <1>5, <1>8, SubSeqLeft DEF all, l
<1>. DEFINE back == SubSeq(str, h + 1, l)
<1>11. back \in Seq(B) /\ SubSeq(all, h + 1, Len(all)) = back \o tl
  <2>. DEFINE front == SubSeq(str, 1, h)
  <2>1. front \in Seq(B) /\ Len(front) = h /\ back \in Seq(B) /\ Len(back) = l - h
    BY <1>2, <1>5, <1>8, SubSeqFacts DEF l
  <2>2. str = front \o back
    BY <1>2, <1>5, <1>8 DEF l
  <2>. HIDE DEF front, back
  <2>3. all = front \o (back \o tl)
    BY <2>1, <2>2 DEF all
  <2>. DEFINE e == back \o tl
              m == Len(e)
  <2>4. e \in Seq(B) /\ m = Len(back) + Len(tl) /\ m \in Nat
    BY <2>1, ConcatFacts, Zenon
  <2>. HIDE DEF e
  <2>5. SubSeq(front \o e, Len(front) + 1, Len(front) + m) = SubSeq(e, 1, m)
    <3>1. front \in Seq(B) /\ e \in Seq(B) /\ 1 \in Nat \ {0} /\ m \in Nat
          /\ 1 <= m + 1 /\ m <= Len(e)
      BY <2>1, <2>4
    <3>. QED  BY <3>1, SubSeqRight
  <2>6. Len(front) + m = Len(all) /\ Len(front) + 1 = h + 1
    <3>. HIDE DEF m
    <3>1. m = (l - h) + Len(tl)
      BY <2>1, <2>4
    <3>. QED  BY <1>2, <1>5, <1>8, <2>1, <3>1
  <2>7. SubSeq(e, 1, m) = e
    BY <2>4
  <2>8. SubSeq(all, h + 1, Len(all)) = e
    BY <2>3, <2>5, <2>6, <2>7, Zenon DEF e
  <2>. QED  BY <2>1, <2>8, Zenon DEF e
<1>12. Carries(P, back, up, pend, Tail(want))
  <2>. HIDE DEF back
  <2>. QED  BY <1>1, <1>4, <1>11, Zenon DEF Carries, B
<1>. QED  BY <1>3, <1>8, <1>9, <1>10, <1>12, Zenon DEF l

=============================================================================
