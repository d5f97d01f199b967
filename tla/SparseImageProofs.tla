------------------------- MODULE SparseImageProofs --------------------------
(***************************************************************************)
(* Sparse files that begin with raw data and have raw data and areas to    *)
(* skip: whatever chunks there are, whatever the sizes of sectors, blocks  *)
(* and writes, the sums of the scan lead to the headers and sectors that   *)
(* the chunks have.                                                        *)
(***************************************************************************)
EXTENDS SparseImage, NaturalsInduction, WellFoundedInduction, TLAPS

-----------------------------------------------------------------------------
(* Places of chunks.                                                       *)

\* What holds of 0 and of each successor holds of all numbers.
LEMMA Induction ==
    ASSUME NEW S, 0 \in S, \A n \in Nat : n \in S => n + 1 \in S
    PROVE  Nat \subseteq S
<1> DEFINE T == Nat \ S
<1>1. SUFFICES ASSUME T # {} PROVE FALSE
  OBVIOUS
<1>2. PICK x \in T : \A y \in T : x <= y
  <2>1. PICK x \in T : \A y \in T : ~ (<<y, x>> \in OpToRel(<, Nat))
    BY <1>1, WFMin, NatLessThanWellFounded
  <2>2. \A y \in T : <<y, x>> \in OpToRel(<, Nat) <=> y < x
    BY DEF OpToRel
  <2>3. \A y \in T : ~ (y < x)
    BY <2>1, <2>2, Zenon
  <2>4. \A y \in T : x <= y
    BY <2>3
  <2> QED
    BY <2>4
<1>3. x - 1 \in Nat /\ x - 1 \notin T
  BY <1>2
<1> QED
  BY <1>2, <1>3

LEMMA PlacesExist ==
    ASSUME NEW z \in Nat, NEW n \in Nat, NEW d \in [1 .. n -> Nat]
    PROVE  \E s \in [1 .. n + 1 -> Nat] :
              s = [c \in 1 .. n + 1 |-> IF c = 1 THEN z ELSE s[c - 1] + d[c - 1]]
<1> DEFINE Adds(s, k) == s[1] = z /\ \A c \in 1 .. k : s[c + 1] = s[c] + d[c]
           G == {k \in Nat : k <= n => \E s \in [1 .. k + 1 -> Nat] : Adds(s, k)}
<1>1. 0 \in G
  <2>1. [c \in 1 .. 0 + 1 |-> z] \in [1 .. 0 + 1 -> Nat] /\ Adds([c \in 1 .. 0 + 1 |-> z], 0)
    OBVIOUS
  <2>2. \E s \in [1 .. 0 + 1 -> Nat] : Adds(s, 0)
    BY <2>1
  <2> QED
    BY <2>2
<1>2. ASSUME NEW k \in Nat, k \in G, k + 1 <= n
      PROVE  \E s \in [1 .. (k + 1) + 1 -> Nat] : Adds(s, k + 1)
  <2>1. PICK s \in [1 .. k + 1 -> Nat] : Adds(s, k)
    <3> HIDE DEF Adds
    <3> QED
      BY <1>2
  <2> DEFINE t == [c \in 1 .. (k + 1) + 1 |-> IF c = (k + 1) + 1 THEN s[k + 1] + d[k + 1] ELSE s[c]]
  <2>2. t \in [1 .. (k + 1) + 1 -> Nat]
    <3>1. s[k + 1] + d[k + 1] \in Nat
      BY <1>2, <2>1
    <3> QED
      BY <2>1, <3>1
  <2>3. Adds(t, k + 1)
    BY <2>1
  <2> HIDE DEF t
  <2> QED
    BY <2>2, <2>3
<1>3. n \in G
  <2>1. ASSUME NEW k \in Nat, k \in G PROVE k + 1 \in G
    <3>1. k + 1 <= n => \E s \in [1 .. (k + 1) + 1 -> Nat] : Adds(s, k + 1)
      BY <1>2, <2>1
    <3> HIDE DEF Adds
    <3> QED
      BY <3>1, SMTT(30)
  <2> HIDE DEF G
  <2> QED
    BY <1>1, <2>1, Induction
<1>4. PICK s \in [1 .. n + 1 -> Nat] : Adds(s, n)
  BY <1>3
<1>5. s = [c \in 1 .. n + 1 |-> IF c = 1 THEN z ELSE s[c - 1] + d[c - 1]]
  BY <1>4
<1> QED
  BY <1>5

LEMMA PlacesAdd ==
    ASSUME NEW z \in Nat, NEW n \in Nat, NEW d \in [1 .. n -> Nat]
    PROVE  /\ Places(z, n, d) \in [1 .. n + 1 -> Nat]
           /\ Places(z, n, d)[1] = z
           /\ \A c \in 1 .. n : Places(z, n, d)[c + 1] = Places(z, n, d)[c] + d[c]
<1>1. \E s : s = [c \in 1 .. n + 1 |-> IF c = 1 THEN z ELSE s[c - 1] + d[c - 1]]
  <2>1. \E s \in [1 .. n + 1 -> Nat] :
            s = [c \in 1 .. n + 1 |-> IF c = 1 THEN z ELSE s[c - 1] + d[c - 1]]
    BY PlacesExist, ZenonT(30)
  <2> QED
    BY <2>1, Zenon
<1>2. Places(z, n, d)
        = [c \in 1 .. n + 1 |-> IF c = 1 THEN z ELSE Places(z, n, d)[c - 1] + d[c - 1]]
  BY <1>1, Zenon DEF Places
<1> DEFINE f == Places(z, n, d)
           G == {k \in Nat : k <= n => f[k + 1] \in Nat}
<1>3. f = [c \in 1 .. n + 1 |-> IF c = 1 THEN z ELSE f[c - 1] + d[c - 1]]
  BY <1>2
<1> HIDE DEF f
<1>4. DOMAIN f = 1 .. n + 1 /\ f[1] = z /\ \A c \in 1 .. n : f[c + 1] = f[c] + d[c]
  BY <1>3
<1>5. 0 \in G
  BY <1>4
<1>6. \A k \in Nat : k \in G => k + 1 \in G
  <2> SUFFICES ASSUME NEW k \in Nat, k \in G, k + 1 <= n PROVE f[(k + 1) + 1] \in Nat
    OBVIOUS
  <2>1. f[k + 1] \in Nat /\ f[(k + 1) + 1] = f[k + 1] + d[k + 1] /\ d[k + 1] \in Nat
    BY <1>4
  <2> QED
    BY <2>1
<1>7. Nat \subseteq G
  <2> HIDE DEF G
  <2> QED
    BY <1>5, <1>6, Induction
<1>8. \A c \in 1 .. n + 1 : f[c] \in Nat
  <2> SUFFICES ASSUME NEW c \in 1 .. n + 1 PROVE f[c] \in Nat
    OBVIOUS
  <2>1. c - 1 \in Nat /\ (c - 1) + 1 = c /\ c - 1 <= n
    OBVIOUS
  <2>2. c - 1 \in G
    <3> HIDE DEF G
    <3> QED
      BY <1>7, <2>1
  <2>3. f[(c - 1) + 1] \in Nat
    BY <2>1, <2>2
  <2> QED
    BY <2>1, <2>3
<1>9. f \in [1 .. n + 1 -> Nat]
  <2>1. f = [c \in 1 .. n + 1 |-> f[c]]
    BY <1>3, <1>4
  <2> QED
    BY <1>8, <2>1
<1> QED
  BY <1>4, <1>9 DEF f

\* What grows at each step grows.
LEMMA Grows ==
    ASSUME NEW n \in Nat, NEW f, \A c \in 1 .. n + 1 : f[c] \in Nat,
           \A c \in 1 .. n : f[c] < f[c + 1],
           NEW a \in 1 .. n + 1, NEW b \in 1 .. n + 1, a < b
    PROVE  f[a] < f[b]
<1> DEFINE G == {k \in Nat : a + k + 1 <= n + 1 => f[a] < f[a + k + 1]}
<1>1. 0 \in G
  <2>1. a + 0 + 1 = a + 1 /\ (a + 1 <= n + 1 => a \in 1 .. n)
    OBVIOUS
  <2> QED
    BY <2>1
<1>2. \A k \in Nat : k \in G => k + 1 \in G
  <2> SUFFICES ASSUME NEW k \in Nat, k \in G, a + (k + 1) + 1 <= n + 1 PROVE f[a] < f[a + (k + 1) + 1]
    OBVIOUS
  <2>1. a + k + 1 \in 1 .. n /\ (a + k + 1) + 1 = a + (k + 1) + 1 /\ a + k + 1 <= n + 1
    OBVIOUS
  <2>2. f[a] < f[a + k + 1] /\ f[a + k + 1] < f[(a + k + 1) + 1]
    BY <2>1
  <2>3. f[a] \in Nat /\ f[a + k + 1] \in Nat /\ f[(a + k + 1) + 1] \in Nat
    BY <2>1
  <2> QED
    BY <2>1, <2>2, <2>3
<1>3. Nat \subseteq G
  <2> HIDE DEF G
  <2> QED
    BY <1>1, <1>2, Induction
<1>4. b - a - 1 \in Nat /\ a + (b - a - 1) + 1 = b
  OBVIOUS
<1>5. b - a - 1 \in G
  BY <1>3, <1>4
<1> QED
  BY <1>4, <1>5

-----------------------------------------------------------------------------
(* The file.                                                               *)

Chunk == [type : Types, blocks : Nat \ {0}]

LEMMA BlockSize == BlockWords \in Nat \ {0}
<1>1. SectorWords \in Nat \ {0} /\ BlockSectors \in Nat \ {0}
  BY SparseAssumption DEF SparseAssumption
<1> QED
  BY <1>1 DEF BlockWords

LEMMA ChunkTypes ==
    ASSUME NEW f \in Seq(Chunk)
    PROVE  /\ Len(f) \in Nat /\ DOMAIN f = 1 .. Len(f)
           /\ \A c \in 1 .. Len(f) :
                 /\ f[c] \in Chunk /\ f[c].type \in Types /\ f[c].blocks \in Nat \ {0}
                 /\ DataWords(f[c]) \in Nat
<1>1. Len(f) \in Nat /\ DOMAIN f = 1 .. Len(f) /\ \A c \in 1 .. Len(f) : f[c] \in Chunk
  OBVIOUS
<1>2. \A c \in Chunk : c.type \in Types /\ c.blocks \in Nat \ {0}
  BY DEF Chunk
<1>3. \A x \in Nat \ {0}, y \in Nat \ {0} : x * y \in Nat
  OBVIOUS
<1>4. \A c \in Chunk : DataWords(c) \in Nat
  <2> SUFFICES ASSUME NEW c \in Chunk PROVE DataWords(c) \in Nat
    OBVIOUS
  <2>1. c.type \in Types /\ c.blocks * BlockWords \in Nat
    BY <1>2, <1>3, BlockSize
  <2> QED
    BY <2>1 DEF DataWords, Types
<1> QED
  BY <1>1, <1>2, <1>4

\* Where the chunks and their headers are.
LEMMA Layout ==
    ASSUME NEW f \in Seq(Chunk)
    PROVE  /\ \A c \in 1 .. Len(f) + 1 : /\ BlockOf(f)[c] \in Nat /\ HeaderAt(f)[c] \in Nat
                                         /\ WordOf(f, c) \in Nat
           /\ BlockOf(f)[1] = 0 /\ HeaderAt(f)[1] = FileHeader /\ WordOf(f, 1) = 0
           /\ \A c \in 1 .. Len(f) :
                 /\ BlockOf(f)[c + 1] = BlockOf(f)[c] + f[c].blocks
                 /\ HeaderAt(f)[c + 1] = HeaderAt(f)[c] + (ChunkHeader + DataWords(f[c]))
                 /\ WordOf(f, c + 1) = WordOf(f, c) + f[c].blocks * BlockWords
<1> DEFINE d == [c \in 1 .. Len(f) |-> f[c].blocks]
           e == [c \in 1 .. Len(f) |-> ChunkHeader + DataWords(f[c])]
<1>1. Len(f) \in Nat /\ \A c \in 1 .. Len(f) : f[c].blocks \in Nat /\ DataWords(f[c]) \in Nat
  BY ChunkTypes
<1>2. /\ \A c \in 1 .. Len(f) : d[c] \in Nat /\ d[c] = f[c].blocks
      /\ \A c \in 1 .. Len(f) : e[c] \in Nat /\ e[c] = ChunkHeader + DataWords(f[c])
  BY <1>1 DEF ChunkHeader
<1> HIDE DEF d, e
<1>3. BlockOf(f) = Places(0, Len(f), d) /\ HeaderAt(f) = Places(FileHeader, Len(f), e)
  BY DEF BlockOf, HeaderAt, d, e
<1>d. d \in [1 .. Len(f) -> Nat] /\ e \in [1 .. Len(f) -> Nat]
  BY <1>2 DEF d, e
<1>4. /\ BlockOf(f) \in [1 .. Len(f) + 1 -> Nat] /\ BlockOf(f)[1] = 0
      /\ \A c \in 1 .. Len(f) : BlockOf(f)[c + 1] = BlockOf(f)[c] + d[c]
  <2>0. 0 \in Nat
    OBVIOUS
  <2>1. /\ Places(0, Len(f), d) \in [1 .. Len(f) + 1 -> Nat] /\ Places(0, Len(f), d)[1] = 0
        /\ \A c \in 1 .. Len(f) : Places(0, Len(f), d)[c + 1] = Places(0, Len(f), d)[c] + d[c]
    BY <1>1, <1>d, <2>0, PlacesAdd, ZenonT(30)
  <2> QED
    BY <1>3, <2>1
<1>5. /\ HeaderAt(f) \in [1 .. Len(f) + 1 -> Nat] /\ HeaderAt(f)[1] = FileHeader
      /\ \A c \in 1 .. Len(f) : HeaderAt(f)[c + 1] = HeaderAt(f)[c] + e[c]
  <2>1. FileHeader \in Nat
    BY DEF FileHeader
  <2>2. /\ Places(FileHeader, Len(f), e) \in [1 .. Len(f) + 1 -> Nat]
        /\ Places(FileHeader, Len(f), e)[1] = FileHeader
        /\ \A c \in 1 .. Len(f) :
              Places(FileHeader, Len(f), e)[c + 1] = Places(FileHeader, Len(f), e)[c] + e[c]
    BY <1>1, <1>d, <2>1, PlacesAdd, ZenonT(30)
  <2> QED
    BY <1>3, <2>2
<1>6. \A x \in Nat, y \in Nat : /\ x * BlockWords \in Nat /\ 0 * BlockWords = 0
                                /\ (x + y) * BlockWords = x * BlockWords + y * BlockWords
  BY BlockSize
<1>7. \A c \in 1 .. Len(f) + 1 : BlockOf(f)[c] \in Nat /\ HeaderAt(f)[c] \in Nat
  BY <1>4, <1>5
<1>8. \A c \in 1 .. Len(f) : BlockOf(f)[c + 1] = BlockOf(f)[c] + f[c].blocks
  BY <1>2, <1>4
<1>9. \A c \in 1 .. Len(f) : WordOf(f, c + 1) = WordOf(f, c) + f[c].blocks * BlockWords
  <2> SUFFICES ASSUME NEW c \in 1 .. Len(f)
               PROVE  WordOf(f, c + 1) = WordOf(f, c) + f[c].blocks * BlockWords
    OBVIOUS
  <2>1. BlockOf(f)[c] \in Nat /\ f[c].blocks \in Nat
    BY <1>1, <1>7
  <2>2. (BlockOf(f)[c] + f[c].blocks) * BlockWords = BlockOf(f)[c] * BlockWords + f[c].blocks * BlockWords
    BY <1>6, <2>1
  <2> QED
    BY <1>8, <2>2 DEF WordOf
<1>10. \A c \in 1 .. Len(f) + 1 : WordOf(f, c) \in Nat
  BY <1>6, <1>7 DEF WordOf
<1>11. WordOf(f, 1) = 0
  BY <1>4, <1>6 DEF WordOf
<1> QED
  BY <1>2, <1>4, <1>5, <1>7, <1>8, <1>9, <1>10, <1>11

\* Chunks and headers follow each other.
LEMMA Ordered ==
    ASSUME NEW f \in Seq(Chunk), NEW a \in 1 .. Len(f) + 1, NEW b \in 1 .. Len(f) + 1, a < b
    PROVE  HeaderAt(f)[a] < HeaderAt(f)[b] /\ WordOf(f, a) < WordOf(f, b)
<1> DEFINE w == [c \in 1 .. Len(f) + 1 |-> WordOf(f, c)]
           h == HeaderAt(f)
<1>1. Len(f) \in Nat
  BY ChunkTypes
<1>2. \A x \in Nat \ {0} : x * BlockWords \in Nat \ {0}
  BY BlockSize
<1>3. \A c \in 1 .. Len(f) + 1 : h[c] \in Nat /\ w[c] \in Nat /\ w[c] = WordOf(f, c)
  BY Layout
<1>4. \A c \in 1 .. Len(f) : h[c] < h[c + 1] /\ w[c] < w[c + 1]
  <2> SUFFICES ASSUME NEW c \in 1 .. Len(f) PROVE h[c] < h[c + 1] /\ w[c] < w[c + 1]
    OBVIOUS
  <2>1. /\ WordOf(f, c + 1) = WordOf(f, c) + f[c].blocks * BlockWords
        /\ h[c + 1] = h[c] + (ChunkHeader + DataWords(f[c]))
    BY Layout
  <2>2. f[c].blocks * BlockWords \in Nat \ {0} /\ DataWords(f[c]) \in Nat
    BY <1>2, ChunkTypes
  <2>3. c \in 1 .. Len(f) + 1 /\ c + 1 \in 1 .. Len(f) + 1
    BY <1>1
  <2> HIDE DEF w, h
  <2>4. w[c] \in Nat /\ w[c + 1] \in Nat /\ h[c] \in Nat /\ h[c + 1] \in Nat
        /\ w[c] = WordOf(f, c) /\ w[c + 1] = WordOf(f, c + 1)
    BY <1>3, <2>3
  <2> QED
    BY <2>1, <2>2, <2>4, SMTT(30) DEF ChunkHeader
<1> HIDE DEF w, h
<1>5. h[a] < h[b] /\ w[a] < w[b]
  <2>1. h[a] < h[b]
    BY <1>1, <1>3, <1>4, Grows
  <2>2. w[a] < w[b]
    BY <1>1, <1>3, <1>4, Grows
  <2> QED
    BY <2>1, <2>2
<1> QED
  BY <1>3, <1>5 DEF h

\* A word of the flash belongs to one chunk.
Covers(f, c, a) == WordOf(f, c) <= a /\ a < WordOf(f, c + 1)

LEMMA OneCovers ==
    ASSUME NEW f \in Seq(Chunk), NEW c \in 1 .. Len(f), NEW d \in 1 .. Len(f), NEW a \in Int,
           Covers(f, c, a), Covers(f, d, a)
    PROVE  c = d
<1> SUFFICES ASSUME NEW x \in 1 .. Len(f), NEW y \in 1 .. Len(f), x < y,
                    Covers(f, x, a), Covers(f, y, a)
             PROVE  FALSE
  <2>1. Len(f) \in Nat
    BY ChunkTypes
  <2> QED
    BY <2>1
<1>1. Len(f) \in Nat
  BY ChunkTypes
<1>2. /\ x \in 1 .. Len(f) + 1 /\ y \in 1 .. Len(f) + 1 /\ x + 1 \in 1 .. Len(f) + 1
      /\ x + 1 = y \/ x + 1 < y
  BY <1>1
<1>3. WordOf(f, x + 1) \in Nat /\ WordOf(f, y) \in Nat
  BY <1>2, Layout
<1>4. x + 1 < y => WordOf(f, x + 1) < WordOf(f, y)
  BY <1>2, Ordered
<1>5. WordOf(f, x + 1) <= WordOf(f, y)
  BY <1>2, <1>3, <1>4
<1> QED
  BY <1>3, <1>5 DEF Covers

-----------------------------------------------------------------------------
(* Sums.                                                                   *)

Sum == [blocks : Nat, words : Nat, count : Nat]

\* s is the sum of the chunks from a to the one before b, all of type t.
Spans(f, s, a, b, t) ==
    /\ s \in Sum
    /\ a \in 1 .. Len(f) + 1 /\ b \in 1 .. Len(f) + 1 /\ a + s.count = b
    /\ BlockOf(f)[b] = BlockOf(f)[a] + s.blocks
    /\ HeaderAt(f)[b] = HeaderAt(f)[a] + s.words + s.count * ChunkHeader
    /\ s.words = IF t = "raw" THEN s.blocks * BlockWords ELSE 0
    /\ \A c \in a .. b - 1 : f[c].type = t

LEMMA SumTypes ==
    /\ Zero \in Sum
    /\ \A s \in Sum : s.blocks \in Nat /\ s.words \in Nat /\ s.count \in Nat
    /\ \A s \in Sum, c \in Chunk :
          /\ Plus(s, c) \in Sum
          /\ Plus(s, c).blocks = s.blocks + c.blocks
          /\ Plus(s, c).words = s.words + DataWords(c)
          /\ Plus(s, c).count = s.count + 1
    /\ \A c \in Chunk : One(c) = Plus(Zero, c)
<1>1. \A s \in Sum : s.blocks \in Nat /\ s.words \in Nat /\ s.count \in Nat
  BY DEF Sum
<1>2. \A c \in Chunk : c.blocks \in Nat /\ DataWords(c) \in Nat
  <2> SUFFICES ASSUME NEW c \in Chunk PROVE c.blocks \in Nat /\ DataWords(c) \in Nat
    OBVIOUS
  <2>1. << c >> \in Seq(Chunk) /\ Len(<< c >>) = 1 /\ << c >>[1] = c
    OBVIOUS
  <2>2. 1 \in 1 .. Len(<< c >>)
    BY <2>1
  <2>3. << c >>[1].blocks \in Nat /\ DataWords(<< c >>[1]) \in Nat
    BY <2>1, <2>2, ChunkTypes
  <2> QED
    BY <2>1, <2>3
<1>3. Zero \in Sum
  BY DEF Zero, Sum
<1>4. \A s \in Sum, c \in Chunk :
          /\ Plus(s, c) \in Sum
          /\ Plus(s, c).blocks = s.blocks + c.blocks
          /\ Plus(s, c).words = s.words + DataWords(c)
          /\ Plus(s, c).count = s.count + 1
  BY <1>1, <1>2 DEF Plus, Sum
<1>5. \A c \in Chunk : One(c) = Plus(Zero, c)
  BY <1>2 DEF One, Plus, Zero
<1> QED
  BY <1>1, <1>3, <1>4, <1>5

LEMMA SpansNone ==
    ASSUME NEW f \in Seq(Chunk), NEW a \in 1 .. Len(f) + 1, NEW t
    PROVE  Spans(f, Zero, a, a, t)
<1>1. BlockOf(f)[a] \in Nat /\ HeaderAt(f)[a] \in Nat
  BY Layout
<1>2. 0 * BlockWords = 0
  BY BlockSize
<1>3. Zero.blocks = 0 /\ Zero.words = 0 /\ Zero.count = 0 /\ Zero \in Sum
  BY SumTypes DEF Zero
<1>4. Len(f) \in Nat
  BY ChunkTypes
<1> QED
  BY <1>1, <1>2, <1>3, <1>4 DEF Spans, ChunkHeader

LEMMA SpansMore ==
    ASSUME NEW f \in Seq(Chunk), NEW s, NEW a, NEW b \in 1 .. Len(f), NEW t \in {"raw", "skip"},
           Spans(f, s, a, b, t), f[b].type = t
    PROVE  Spans(f, Plus(s, f[b]), a, b + 1, t)
<1>1. Len(f) \in Nat /\ f[b] \in Chunk /\ f[b].blocks \in Nat /\ DataWords(f[b]) \in Nat
  BY ChunkTypes
<1>2. s \in Sum /\ a \in 1 .. Len(f) + 1 /\ s.blocks \in Nat /\ s.words \in Nat /\ s.count \in Nat
  BY SumTypes DEF Spans
<1>3. DataWords(f[b]) = IF t = "raw" THEN f[b].blocks * BlockWords ELSE 0
  BY DEF DataWords
<1>4. (s.blocks + f[b].blocks) * BlockWords = s.blocks * BlockWords + f[b].blocks * BlockWords
  BY <1>1, <1>2, BlockSize
<1> DEFINE p == Plus(s, f[b])
<1>5. /\ p \in Sum /\ p.blocks = s.blocks + f[b].blocks
      /\ p.words = s.words + DataWords(f[b]) /\ p.count = s.count + 1
  BY <1>1, <1>2, SumTypes
<1> HIDE DEF p
<1>6. /\ BlockOf(f)[b + 1] = BlockOf(f)[b] + f[b].blocks
      /\ HeaderAt(f)[b + 1] = HeaderAt(f)[b] + (ChunkHeader + DataWords(f[b]))
      /\ BlockOf(f)[a] \in Nat /\ HeaderAt(f)[a] \in Nat
  BY <1>2, Layout
<1>7. /\ a + s.count = b /\ BlockOf(f)[b] = BlockOf(f)[a] + s.blocks
      /\ HeaderAt(f)[b] = HeaderAt(f)[a] + s.words + s.count * ChunkHeader
      /\ s.words = IF t = "raw" THEN s.blocks * BlockWords ELSE 0
      /\ \A c \in a .. b - 1 : f[c].type = t
  BY DEF Spans
<1>8. p.words = IF t = "raw" THEN p.blocks * BlockWords ELSE 0
  BY <1>3, <1>4, <1>5, <1>7
<1>9. b + 1 \in 1 .. Len(f) + 1 /\ a + p.count = b + 1
  <2>1. a + s.count = b /\ p.count = s.count + 1
    BY <1>5, <1>7
  <2>2. \A x \in Nat, y \in Nat : x + y = b => x + (y + 1) = b + 1
    OBVIOUS
  <2>3. b + 1 \in 1 .. Len(f) + 1 /\ a \in Nat
    BY <1>1, <1>2
  <2> QED
    BY <1>2, <2>1, <2>2, <2>3
<1>10. BlockOf(f)[b + 1] = BlockOf(f)[a] + p.blocks
  BY <1>1, <1>2, <1>5, <1>6, <1>7, SMTT(30)
<1>11. HeaderAt(f)[b + 1] = HeaderAt(f)[a] + p.words + p.count * ChunkHeader
  <2>1. /\ HeaderAt(f)[b + 1] = HeaderAt(f)[b] + (ChunkHeader + DataWords(f[b]))
        /\ HeaderAt(f)[b] = HeaderAt(f)[a] + s.words + s.count * ChunkHeader
        /\ p.words = s.words + DataWords(f[b]) /\ p.count = s.count + 1
    BY <1>5, <1>6, <1>7
  <2>3. (HeaderAt(f)[a] + s.words + s.count * ChunkHeader) + (ChunkHeader + DataWords(f[b]))
          = HeaderAt(f)[a] + (s.words + DataWords(f[b])) + (s.count + 1) * ChunkHeader
    <3>1. /\ HeaderAt(f)[a] \in Nat /\ s.words \in Nat /\ s.count \in Nat
          /\ DataWords(f[b]) \in Nat
      BY <1>1, <1>2, <1>6
    <3> DEFINE h == HeaderAt(f)[a]
               x == DataWords(f[b])
               w == s.words
               n == s.count
    <3>2. h \in Nat /\ x \in Nat /\ w \in Nat /\ n \in Nat
      BY <3>1
    <3> HIDE DEF h, x, w, n
    <3>3. (h + w + n * ChunkHeader) + (ChunkHeader + x) = h + (w + x) + (n + 1) * ChunkHeader
      BY <3>2, SMTT(30) DEF ChunkHeader
    <3> QED
      BY <3>3 DEF h, x, w, n
  <2> QED
    BY <2>1, <2>3
<1>12. \A c \in a .. (b + 1) - 1 : f[c].type = t
  BY <1>2, <1>7
<1>13. Spans(f, p, a, b + 1, t)
  BY <1>2, <1>5, <1>8, <1>9, <1>10, <1>11, <1>12 DEF Spans
<1> QED
  BY <1>13 DEF p

LEMMA SpansOne ==
    ASSUME NEW f \in Seq(Chunk), NEW c \in 1 .. Len(f), f[c].type \in {"raw", "skip"}
    PROVE  Spans(f, One(f[c]), c, c + 1, f[c].type)
<1>1. f[c] \in Chunk /\ c \in 1 .. Len(f) + 1
  BY ChunkTypes
<1>2. Spans(f, Zero, c, c, f[c].type)
  BY <1>1, SpansNone
<1>3. Spans(f, Plus(Zero, f[c]), c, c + 1, f[c].type)
  BY <1>2, SpansMore
<1> QED
  BY <1>1, <1>3, SumTypes

-----------------------------------------------------------------------------
(* The scan.                                                               *)

\* Files that begin with raw data and have no fill patterns.
Plain(f) ==
    /\ f \in Seq(Chunk) /\ Len(f) > 0
    /\ f[1].type = "raw" /\ \A c \in 1 .. Len(f) : f[c].type \in {"raw", "skip"}

\* Run j goes from chunk p[j] to the one before q[j], the gap behind it from there
\* to the one before p[j + 1].
Cut(f, R, G, p, q) ==
    /\ R \in Seq(Sum) /\ G \in Seq(Sum)
    /\ Len(G) <= Len(R) /\ Len(R) <= Len(G) + 1
    /\ p \in [1 .. Len(G) + 1 -> Nat] /\ q \in [1 .. Len(R) -> Nat] /\ p[1] = 1
    /\ \A j \in 1 .. Len(R) : R[j].count > 0 /\ Spans(f, R[j], p[j], q[j], "raw")
    /\ \A j \in 1 .. Len(G) : Spans(f, G[j], q[j], p[j + 1], "skip")

\* The last gap ends before chunk a, or the last run does.
BeforeRun(f, R, G, p, q, a) == Cut(f, R, G, p, q) /\ Len(G) = Len(R) /\ p[Len(R) + 1] = a
BeforeGap(f, R, G, p, q, a) == Cut(f, R, G, p, q) /\ Len(R) = Len(G) + 1 /\ q[Len(R)] = a

LEMMA CutRun ==
    ASSUME NEW f \in Seq(Chunk), NEW R, NEW G, NEW p, NEW q, NEW s, NEW a, NEW b,
           BeforeRun(f, R, G, p, q, a), Spans(f, s, a, b, "raw"), s.count > 0
    PROVE  \E v : BeforeGap(f, Append(R, s), G, p, v, b)
<1>1. /\ R \in Seq(Sum) /\ G \in Seq(Sum) /\ Len(R) \in Nat /\ Len(G) \in Nat
      /\ p \in [1 .. Len(G) + 1 -> Nat] /\ q \in [1 .. Len(R) -> Nat] /\ p[1] = 1
      /\ \A j \in 1 .. Len(R) : R[j].count > 0 /\ Spans(f, R[j], p[j], q[j], "raw")
      /\ \A j \in 1 .. Len(G) : Spans(f, G[j], q[j], p[j + 1], "skip")
      /\ Len(G) = Len(R) /\ p[Len(R) + 1] = a
  BY DEF Cut, BeforeRun
<1>2. s \in Sum /\ b \in Nat
  BY ChunkTypes DEF Spans
<1> DEFINE v == [j \in 1 .. Len(R) + 1 |-> IF j <= Len(R) THEN q[j] ELSE b]
           S == Append(R, s)
<1>3. /\ S \in Seq(Sum) /\ Len(S) = Len(R) + 1 /\ S[Len(R) + 1] = s
      /\ \A j \in 1 .. Len(R) : S[j] = R[j]
  BY <1>1, <1>2
<1>4. /\ v \in [1 .. Len(R) + 1 -> Nat] /\ v[Len(R) + 1] = b
      /\ \A j \in 1 .. Len(R) : v[j] = q[j]
  BY <1>1, <1>2
<1> HIDE DEF v, S
<1>5. \A j \in 1 .. Len(S) : S[j].count > 0 /\ Spans(f, S[j], p[j], v[j], "raw")
  <2> SUFFICES ASSUME NEW j \in 1 .. Len(S) PROVE S[j].count > 0 /\ Spans(f, S[j], p[j], v[j], "raw")
    OBVIOUS
  <2>1. CASE j \in 1 .. Len(R)
    BY <1>1, <1>3, <1>4, <2>1
  <2>2. CASE j = Len(R) + 1
    <3>1. S[j] = s /\ p[j] = a /\ v[j] = b
      BY <1>1, <1>3, <1>4, <2>2
    <3> QED
      BY <3>1
  <2> QED
    BY <1>1, <1>3, <2>1, <2>2
<1>6. \A j \in 1 .. Len(G) : Spans(f, G[j], v[j], p[j + 1], "skip")
  BY <1>1, <1>4
<1>7. v \in [1 .. Len(S) -> Nat] /\ Len(G) <= Len(S) /\ Len(S) <= Len(G) + 1
  BY <1>1, <1>3, <1>4
<1>8. Cut(f, S, G, p, v)
  BY <1>1, <1>3, <1>5, <1>6, <1>7 DEF Cut
<1>9. BeforeGap(f, S, G, p, v, b)
  BY <1>1, <1>3, <1>4, <1>8 DEF BeforeGap
<1> QED
  BY <1>9 DEF S

LEMMA CutGap ==
    ASSUME NEW f \in Seq(Chunk), NEW R, NEW G, NEW p, NEW q, NEW s, NEW a, NEW b,
           BeforeGap(f, R, G, p, q, a), Spans(f, s, a, b, "skip")
    PROVE  \E u : BeforeRun(f, R, Append(G, s), u, q, b)
<1>1. /\ R \in Seq(Sum) /\ G \in Seq(Sum) /\ Len(R) \in Nat /\ Len(G) \in Nat
      /\ p \in [1 .. Len(G) + 1 -> Nat] /\ q \in [1 .. Len(R) -> Nat] /\ p[1] = 1
      /\ \A j \in 1 .. Len(R) : R[j].count > 0 /\ Spans(f, R[j], p[j], q[j], "raw")
      /\ \A j \in 1 .. Len(G) : Spans(f, G[j], q[j], p[j + 1], "skip")
      /\ Len(R) = Len(G) + 1 /\ q[Len(R)] = a
  BY DEF Cut, BeforeGap
<1>2. s \in Sum /\ b \in Nat
  BY ChunkTypes DEF Spans
<1> DEFINE u == [j \in 1 .. Len(G) + 2 |-> IF j <= Len(G) + 1 THEN p[j] ELSE b]
           S == Append(G, s)
<1>3. /\ S \in Seq(Sum) /\ Len(S) = Len(G) + 1 /\ S[Len(G) + 1] = s
      /\ \A j \in 1 .. Len(G) : S[j] = G[j]
  BY <1>1, <1>2
<1>4. /\ u \in [1 .. Len(G) + 2 -> Nat] /\ u[Len(G) + 2] = b
      /\ \A j \in 1 .. Len(G) + 1 : u[j] = p[j]
  BY <1>1, <1>2
<1> HIDE DEF u, S
<1>5. \A j \in 1 .. Len(S) : Spans(f, S[j], q[j], u[j + 1], "skip")
  <2> SUFFICES ASSUME NEW j \in 1 .. Len(S) PROVE Spans(f, S[j], q[j], u[j + 1], "skip")
    OBVIOUS
  <2>1. CASE j \in 1 .. Len(G)
    <3>1. j + 1 \in 1 .. Len(G) + 1
      BY <1>1, <2>1
    <3> QED
      BY <1>1, <1>3, <1>4, <2>1, <3>1
  <2>2. CASE j = Len(G) + 1
    <3>1. j + 1 = Len(G) + 2 /\ j = Len(R)
      BY <1>1, <2>2
    <3>2. S[j] = s /\ q[j] = a /\ u[j + 1] = b
      BY <1>1, <1>3, <1>4, <2>2, <3>1
    <3> QED
      BY <3>2
  <2> QED
    BY <1>1, <1>3, <2>1, <2>2
<1>6. \A j \in 1 .. Len(R) : R[j].count > 0 /\ Spans(f, R[j], u[j], q[j], "raw")
  BY <1>1, <1>4
<1>7. /\ u \in [1 .. Len(S) + 1 -> Nat] /\ u[1] = 1 /\ Len(S) <= Len(R) /\ Len(R) <= Len(S) + 1
      /\ u[Len(R) + 1] = b
  <2>1. Len(S) + 1 = Len(G) + 2 /\ Len(R) + 1 = Len(G) + 2
    BY <1>1, <1>3
  <2> QED
    BY <1>1, <1>3, <1>4, <2>1
<1>8. Cut(f, R, S, u, q)
  BY <1>1, <1>3, <1>5, <1>6, <1>7 DEF Cut
<1>9. BeforeRun(f, R, S, u, q, b)
  BY <1>1, <1>3, <1>7, <1>8 DEF BeforeRun
<1> QED
  BY <1>9 DEF S

\* What the scan knows before chunk k, the one before being of type t: s is the
\* sum of the run or gap it is in, and a run at the end of the file is recorded.
Scanned(f, k, t, s, R, G, p, q) ==
    /\ k \in 1 .. Len(f) + 1
    /\ \/ /\ t \in {"none", "raw"} /\ k <= Len(f) /\ (t = "none" <=> k = 1)
          /\ t = "raw" => s.count > 0
          /\ \E a : BeforeRun(f, R, G, p, q, a) /\ Spans(f, s, a, k, "raw")
       \/ t = "raw" /\ k = Len(f) + 1 /\ BeforeGap(f, R, G, p, q, k)
       \/ /\ t = "skip" /\ k > 1
          /\ \E a : BeforeGap(f, R, G, p, q, a) /\ Spans(f, s, a, k, "skip")

\* At the beginning of the scan nothing is known.
LEMMA ScanBegin ==
    ASSUME NEW f, Plain(f)
    PROVE  \E p, q : Scanned(f, 1, "none", Zero, << >>, << >>, p, q)
<1> DEFINE p == [j \in 1 .. 0 + 1 |-> 1]
           q == [j \in 1 .. 0 |-> 1]
           E == << >>
<1>0. f \in Seq(Chunk) /\ Len(f) \in Nat \ {0}
  BY ChunkTypes DEF Plain
<1>1. E \in Seq(Sum) /\ Len(E) = 0
  OBVIOUS
<1>2. p \in [1 .. 0 + 1 -> Nat] /\ q \in [1 .. 0 -> Nat] /\ p[1] = 1
  OBVIOUS
<1>3. Spans(f, Zero, 1, 1, "raw")
  BY <1>0, SpansNone
<1> HIDE DEF p, q, E
<1>4. Cut(f, E, E, p, q)
  BY <1>1, <1>2 DEF Cut
<1>5. BeforeRun(f, E, E, p, q, 1)
  BY <1>1, <1>2, <1>4 DEF BeforeRun
<1>6. Scanned(f, 1, "none", Zero, E, E, p, q)
  BY <1>0, <1>3, <1>5 DEF Scanned
<1> QED
  BY <1>6 DEF E

\* A turn of the loop keeps that.
LEMMA ScanStep ==
    ASSUME NEW p, NEW q, Plain(file), Scanned(file, m, lastType, sum, runs, gaps, p, q), Scan
    PROVE  \E u, v : Scanned(file', m', lastType', sum', runs', gaps', u, v)
<1> DEFINE c == file[m]
           n == Len(file)
<1>0. file \in Seq(Chunk) /\ n \in Nat /\ m \in 1 .. n /\ m + 1 \in 1 .. n + 1
  BY ChunkTypes DEF Plain, Scanned, Scan
<1>1. c.type \in {"raw", "skip"} /\ c \in Chunk /\ (m = 1 => c.type = "raw")
  BY <1>0, ChunkTypes DEF Plain
<1>2. file' = file /\ m' = m + 1 /\ lastType' = c.type
  BY DEF Scan
<1>3. \A a : \A t \in {"raw", "skip"} :
          c.type = t /\ Spans(file, sum, a, m, t) => Spans(file, Plus(sum, c), a, m + 1, t)
  BY <1>0, SpansMore
<1>4. Spans(file, One(c), m, m + 1, c.type)
  BY <1>0, <1>1, SpansOne
\* A run goes on, or begins behind a gap; the last one ends with the file.
<1>5. ASSUME NEW G, NEW u, NEW a, c.type = "raw", gaps' = G,
             BeforeRun(file, runs, G, u, q, a), Spans(file, sum', a, m + 1, "raw"), sum'.count > 0,
             runs' = IF m = n THEN Append(runs, sum') ELSE runs
      PROVE  \E v : Scanned(file', m', lastType', sum', runs', gaps', u, v)
  <2>1. CASE m = n
    <3>1. PICK v : BeforeGap(file, Append(runs, sum'), G, u, v, m + 1)
      BY <1>0, <1>5, CutRun
    <3>2. BeforeGap(file, runs', gaps', u, v, m + 1) /\ m + 1 = n + 1
      BY <1>5, <2>1, <3>1
    <3>3. Scanned(file', m', lastType', sum', runs', gaps', u, v)
      BY <1>0, <1>2, <1>5, <3>2 DEF Scanned
    <3> QED
      BY <3>3
  <2>2. CASE m < n
    <3>1. runs' = runs /\ m + 1 <= n /\ m + 1 # 1
      BY <1>0, <1>5, <2>2
    <3>2. BeforeRun(file, runs', gaps', u, q, a)
      BY <1>5, <3>1
    <3>3. Scanned(file', m', lastType', sum', runs', gaps', u, q)
      BY <1>0, <1>2, <1>5, <3>1, <3>2 DEF Scanned
    <3> QED
      BY <3>3
  <2> QED
    BY <1>0, <2>1, <2>2
<1>6. CASE c.type = "raw" /\ lastType \in {"none", "raw"}
  <2>1. /\ sum' = Plus(sum, c) /\ gaps' = gaps
        /\ runs' = IF m = n THEN Append(runs, sum') ELSE runs
    BY <1>6 DEF Scan, HasData
  <2>2. PICK a : BeforeRun(file, runs, gaps, p, q, a) /\ Spans(file, sum, a, m, "raw")
    BY <1>0, <1>6 DEF Scanned
  <2>3. Spans(file, sum', a, m + 1, "raw")
    BY <1>3, <1>6, <2>1, <2>2
  <2>4. sum'.count > 0
    <3>1. sum \in Sum
      BY <2>2 DEF Spans
    <3>2. Plus(sum, c).count = sum.count + 1 /\ sum.count \in Nat
      BY <1>1, <3>1, SumTypes
    <3> QED
      BY <2>1, <3>2
  <2> QED
    BY <1>5, <1>6, <2>1, <2>2, <2>3, <2>4
<1>7. CASE c.type = "raw" /\ lastType = "skip"
  <2>1. /\ sum' = One(c) /\ gaps' = Append(gaps, sum)
        /\ runs' = IF m = n THEN Append(runs, sum') ELSE runs
    BY <1>7 DEF Scan, HasData
  <2>2. PICK a : BeforeGap(file, runs, gaps, p, q, a) /\ Spans(file, sum, a, m, "skip")
    BY <1>7 DEF Scanned
  <2>3. PICK u : BeforeRun(file, runs, gaps', u, q, m)
    BY <1>0, <2>1, <2>2, CutGap
  <2>4. Spans(file, sum', m, m + 1, "raw") /\ sum'.count > 0
    BY <1>4, <1>7, <2>1 DEF One
  <2> QED
    BY <1>5, <1>7, <2>1, <2>3, <2>4
<1>8. CASE c.type = "skip" /\ lastType = "raw"
  <2>1. sum' = One(c) /\ gaps' = gaps /\ runs' = Append(runs, sum)
    BY <1>8 DEF Scan, HasData
  <2>2. PICK a : BeforeRun(file, runs, gaps, p, q, a) /\ Spans(file, sum, a, m, "raw")
    BY <1>0, <1>8 DEF Scanned
  <2>3. PICK v : BeforeGap(file, runs', gaps', p, v, m)
    <3>1. sum.count > 0
      BY <1>0, <1>8 DEF Scanned
    <3> QED
      BY <1>0, <2>1, <2>2, <3>1, CutRun
  <2>4. Spans(file, sum', m, m + 1, "skip")
    BY <1>4, <1>8, <2>1
  <2>5. Scanned(file', m', lastType', sum', runs', gaps', p, v)
    BY <1>0, <1>2, <1>8, <2>3, <2>4 DEF Scanned
  <2> QED
    BY <2>5
<1>9. CASE c.type = "skip" /\ lastType = "skip"
  <2>1. sum' = Plus(sum, c) /\ gaps' = gaps /\ runs' = runs
    BY <1>9 DEF Scan, HasData
  <2>2. PICK a : BeforeGap(file, runs, gaps, p, q, a) /\ Spans(file, sum, a, m, "skip")
    BY <1>9 DEF Scanned
  <2>3. Spans(file, sum', a, m + 1, "skip") /\ BeforeGap(file, runs', gaps', p, q, a)
    BY <1>3, <1>9, <2>1, <2>2
  <2>4. Scanned(file', m', lastType', sum', runs', gaps', p, q)
    BY <1>0, <1>2, <1>9, <2>3 DEF Scanned
  <2> QED
    BY <2>4
<1>10. lastType \in {"none", "raw", "skip"} /\ (lastType = "none" => m = 1)
  BY DEF Scanned
<1> QED
  BY <1>1, <1>6, <1>7, <1>8, <1>9, <1>10

\* What is known when all chunks have been read.
Finished(f, R, G, p, q) ==
    \E a : BeforeGap(f, R, G, p, q, a) /\ \A c \in a .. Len(f) : f[c].type = "skip"

LEMMA ScanFinishes ==
    ASSUME NEW f, NEW t, NEW s, NEW R, NEW G, NEW p, NEW q, Plain(f),
           Scanned(f, Len(f) + 1, t, s, R, G, p, q)
    PROVE  Finished(f, R, G, p, q)
<1>1. Len(f) \in Nat \ {0}
  BY ChunkTypes DEF Plain
<1>2. CASE t = "raw"
  <2>1. BeforeGap(f, R, G, p, q, Len(f) + 1)
    BY <1>1, <1>2 DEF Scanned
  <2> QED
    BY <1>1, <2>1 DEF Finished
<1>3. CASE t = "skip"
  <2>1. PICK a : BeforeGap(f, R, G, p, q, a) /\ Spans(f, s, a, Len(f) + 1, "skip")
    BY <1>3 DEF Scanned
  <2>2. \A c \in a .. (Len(f) + 1) - 1 : f[c].type = "skip"
    BY <2>1 DEF Spans
  <2> QED
    BY <1>1, <2>1, <2>2 DEF Finished
<1>4. t # "none" /\ t \in {"none", "raw", "skip"}
  BY <1>1 DEF Scanned
<1> QED
  BY <1>2, <1>3, <1>4

-----------------------------------------------------------------------------
(* Sectors.                                                                *)

LEMMA Shape ==
    /\ SectorWords \in Nat \ {0} /\ BlockSectors \in Nat \ {0} /\ BlockWords \in Nat \ {0}
    /\ \E k \in Nat \ {0} : Payload = k * SectorWords
    /\ \A x \in Nat : x * BlockWords = (x * BlockSectors) * SectorWords
    /\ \A x \in Nat, y \in Nat : (x + y) * BlockSectors = x * BlockSectors + y * BlockSectors
    /\ \A x \in Nat : x * BlockSectors \in Nat
<1>1. SectorWords \in Nat \ {0} /\ BlockSectors \in Nat \ {0} /\ \E k \in 1 .. 1024 : Payload = k * SectorWords
  BY SparseAssumption DEF SparseAssumption
<1>2. \A x \in Nat, y \in Nat, z \in Nat : x * (y * z) = (x * y) * z
  OBVIOUS
<1>3. \A x \in Nat : x * BlockWords = (x * BlockSectors) * SectorWords
  BY <1>1, <1>2 DEF BlockWords
<1> QED
  BY <1>1, <1>3, BlockSize

LEMMA Exactly ==
    ASSUME NEW k \in Nat, NEW n \in Nat \ {0}
    PROVE  (k * n) \div n = k /\ (k * n) % n = 0
<1> DEFINE d == (k * n) \div n
           e == (k * n) % n
<1>0. k * n \in Nat /\ k * n = n * k
  OBVIOUS
<1>1. d \in Nat /\ e \in 0 .. n - 1 /\ k * n = n * d + e
  BY <1>0
<1> HIDE DEF d, e
<1>2. ~(d < k)
  <2> SUFFICES ASSUME d + 1 <= k PROVE FALSE
    BY <1>1
  <2>1. n * (d + 1) <= n * k /\ n * (d + 1) = n * d + n
    BY <1>1
  <2> QED
    BY <1>0, <1>1, <2>1
<1>3. ~(k < d)
  <2> SUFFICES ASSUME k + 1 <= d PROVE FALSE
    BY <1>1
  <2>1. n * (k + 1) <= n * d /\ n * (k + 1) = n * k + n
    BY <1>1
  <2> QED
    BY <1>0, <1>1, <2>1
<1>4. d = k
  BY <1>1, <1>2, <1>3
<1> QED
  BY <1>0, <1>1, <1>4 DEF d, e

\* A whole number of sectors is that many, and needs no padding.
Whole(w) == \E k \in Nat : w = k * SectorWords

LEMMA SectorsOf == \A k \in Nat : Sectors(k * SectorWords) = k /\ Padded(k * SectorWords) = k * SectorWords
<1> SUFFICES ASSUME NEW k \in Nat
             PROVE  Sectors(k * SectorWords) = k /\ Padded(k * SectorWords) = k * SectorWords
  OBVIOUS
<1>1. (k * SectorWords) \div SectorWords = k /\ (k * SectorWords) % SectorWords = 0
  BY Shape, Exactly
<1>2. Sectors(k * SectorWords) = k
  BY <1>1 DEF Sectors
<1> QED
  BY <1>2 DEF Padded

\* A piece of whole sectors leaves whole sectors.
LEMMA PieceOf ==
    ASSUME left \in Nat, left > 0, Whole(left)
    PROVE  /\ Piece \in Nat \ {0} /\ Piece <= left /\ Padded(Piece) = Piece
           /\ left - Piece \in Nat /\ Whole(left - Piece)
<1>1. PICK k \in Nat : left = k * SectorWords
  BY DEF Whole
<1>2. PICK j \in Nat \ {0} : Payload = j * SectorWords
  BY Shape
<1>3. SectorWords \in Nat \ {0}
  BY Shape
<1>4. \A x \in Nat, y \in Nat : x * SectorWords \in Nat /\ (x <= y => x * SectorWords <= y * SectorWords)
  BY <1>3
<1>5. \A x \in Nat, y \in Nat : x <= y => y - x \in Nat /\ y * SectorWords - x * SectorWords = (y - x) * SectorWords
  BY <1>3
<1>6. \A x \in Nat \ {0} : x * SectorWords \in Nat \ {0}
  BY <1>3
<1>7. CASE left < Payload
  <2>1. Piece = left
    BY <1>7 DEF Piece
  <2>2. Padded(left) = left
    BY <1>1, SectorsOf
  <2>3. Whole(left - left)
    <3>1. 0 * SectorWords = 0 /\ left - left = 0
      BY <1>3
    <3> QED
      BY <3>1 DEF Whole
  <2> QED
    BY <2>1, <2>2, <2>3
<1>8. CASE ~(left < Payload)
  <2>1. Piece = Payload /\ Payload \in Nat \ {0} /\ Payload <= left
    BY <1>2, <1>6, <1>8 DEF Piece
  <2>2. Padded(Payload) = Payload
    BY <1>2, SectorsOf
  <2>3. j <= k
    <3> SUFFICES ASSUME k + 1 <= j PROVE FALSE
      OBVIOUS
    <3>1. (k + 1) * SectorWords <= j * SectorWords /\ (k + 1) * SectorWords = k * SectorWords + SectorWords
      BY <1>3, <1>4
    <3>2. k * SectorWords \in Nat
      BY <1>4
    <3> QED
      BY <1>1, <1>2, <1>3, <2>1, <3>1, <3>2
  <2>4. k - j \in Nat /\ left - Payload = (k - j) * SectorWords
    BY <1>1, <1>2, <1>5, <2>3
  <2>5. Whole(left - Payload) /\ left - Payload \in Nat
    BY <1>4, <2>4 DEF Whole
  <2> QED
    BY <2>1, <2>2, <2>5
<1> QED
  BY <1>7, <1>8

-----------------------------------------------------------------------------
(* The flash.                                                              *)

LEMMA Sorted ==
    ASSUME NEW f \in Seq(Chunk), NEW a \in 1 .. Len(f) + 1, NEW b \in 1 .. Len(f) + 1, a <= b
    PROVE  WordOf(f, a) \in Nat /\ WordOf(f, b) \in Nat /\ WordOf(f, a) <= WordOf(f, b)
<1>1. WordOf(f, a) \in Nat /\ WordOf(f, b) \in Nat
  BY Layout
<1>2. a < b => WordOf(f, a) < WordOf(f, b)
  BY Ordered
<1> QED
  BY <1>1, <1>2

\* Below word n the flash F has exactly the raw data of the file.
Filled(f, F, n) ==
    /\ DOMAIN F \subseteq Nat
    /\ \A x \in Nat : x \in DOMAIN F <=>
          x < n /\ \E c \in 1 .. Len(f) : Covers(f, c, x) /\ f[c].type = "raw"
    /\ \A x \in DOMAIN F, c \in 1 .. Len(f) :
          Covers(f, c, x) => F[x] = Word(c, x - WordOf(f, c) + 1)

LEMMA FilledNone ==
    ASSUME NEW f, NEW F, DOMAIN F = {} PROVE Filled(f, F, 0)
BY DEF Filled

\* A gap has nothing that could be missing.
LEMMA FilledGap ==
    ASSUME NEW f \in Seq(Chunk), NEW F, NEW s, NEW a, NEW b,
           Filled(f, F, WordOf(f, a)), Spans(f, s, a, b, "skip")
    PROVE  Filled(f, F, WordOf(f, b))
<1>1. /\ a \in 1 .. Len(f) + 1 /\ b \in 1 .. Len(f) + 1 /\ a <= b
      /\ \A c \in a .. b - 1 : f[c].type = "skip"
  BY SumTypes DEF Spans
<1>2. Len(f) \in Nat
  BY ChunkTypes
<1>3. WordOf(f, a) \in Nat /\ WordOf(f, b) \in Nat /\ WordOf(f, a) <= WordOf(f, b)
  BY <1>1, Sorted
<1>4. ASSUME NEW x \in Nat, NEW c \in 1 .. Len(f), Covers(f, c, x), f[c].type = "raw", x < WordOf(f, b)
      PROVE  x < WordOf(f, a)
  <2>1. c < a \/ b <= c
    BY <1>1, <1>2, <1>4
  <2>2. c + 1 \in 1 .. Len(f) + 1 /\ c \in 1 .. Len(f) + 1
    BY <1>2
  <2>3. CASE c < a
    <3>1. WordOf(f, c + 1) <= WordOf(f, a) /\ WordOf(f, c + 1) \in Nat
      BY <1>1, <2>2, <2>3, Sorted
    <3> QED
      BY <1>3, <1>4, <3>1 DEF Covers
  <2>4. CASE b <= c
    <3>1. WordOf(f, b) <= WordOf(f, c) /\ WordOf(f, c) \in Nat
      BY <1>1, <2>2, <2>4, Sorted
    <3> QED
      BY <1>3, <1>4, <3>1 DEF Covers
  <2> QED
    BY <2>1, <2>3, <2>4
<1>5. \A x \in Nat : x < WordOf(f, a) => x < WordOf(f, b)
  BY <1>3
<1>6. \A x \in Nat : x \in DOMAIN F <=>
          x < WordOf(f, b) /\ \E c \in 1 .. Len(f) : Covers(f, c, x) /\ f[c].type = "raw"
  BY <1>4, <1>5 DEF Filled
<1> QED
  BY <1>6 DEF Filled

\* A piece of a raw chunk c, of k words, written where the file has it.
LEMMA FilledMore ==
    ASSUME NEW f \in Seq(Chunk), NEW F, NEW E, NEW n \in Nat, NEW k \in Nat, NEW c \in 1 .. Len(f),
           Filled(f, F, n), f[c].type = "raw", WordOf(f, c) <= n, n + k <= WordOf(f, c + 1),
           DOMAIN E = DOMAIN F \cup (n .. n + k - 1),
           \A x \in DOMAIN E :
              E[x] = IF x \in n .. n + k - 1 THEN Word(c, x - WordOf(f, c) + 1) ELSE F[x]
    PROVE  Filled(f, E, n + k)
<1>1. Len(f) \in Nat
  BY ChunkTypes
<1>2. WordOf(f, c) \in Nat /\ WordOf(f, c + 1) \in Nat
  BY <1>1, Layout, SMTT(30)
<1>3. \A x \in n .. n + k - 1 : x \in Nat /\ x < n + k /\ Covers(f, c, x)
  BY <1>2 DEF Covers
<1>4. \A x \in n .. n + k - 1, d \in 1 .. Len(f) : Covers(f, d, x) => d = c
  BY <1>3, OneCovers
<1>5. DOMAIN E \subseteq Nat
  BY DEF Filled
<1>6. ASSUME NEW x \in Nat
      PROVE  x \in DOMAIN E <=>
                x < n + k /\ \E d \in 1 .. Len(f) : Covers(f, d, x) /\ f[d].type = "raw"
  <2>1. CASE x \in n .. n + k - 1
    BY <1>3, <2>1
  <2>2. CASE x \notin n .. n + k - 1
    <3>1. x \in DOMAIN E <=> x \in DOMAIN F
      BY <2>2
    <3>2. x < n + k <=> x < n
      BY <2>2
    <3> QED
      BY <3>1, <3>2 DEF Filled
  <2> QED
    BY <2>1, <2>2
<1>7. ASSUME NEW x \in DOMAIN E, NEW d \in 1 .. Len(f), Covers(f, d, x)
      PROVE  E[x] = Word(d, x - WordOf(f, d) + 1)
  <2>1. CASE x \in n .. n + k - 1
    <3>1. d = c
      BY <1>4, <1>7, <2>1
    <3> QED
      BY <2>1, <3>1
  <2>2. CASE x \notin n .. n + k - 1
    <3>1. x \in DOMAIN F /\ E[x] = F[x]
      BY <2>2
    <3> QED
      BY <1>7, <3>1 DEF Filled
  <2> QED
    BY <2>1, <2>2
<1> QED
  BY <1>5, <1>6, <1>7 DEF Filled

-----------------------------------------------------------------------------
(* The runs.                                                               *)

LEMMA RunFacts ==
    ASSUME NEW f, NEW R, NEW G, NEW p, NEW q, Plain(f), Finished(f, R, G, p, q), NEW j \in 1 .. Len(R)
    PROVE  /\ Len(R) \in Nat \ {0} /\ Len(G) = Len(R) - 1 /\ p[1] = 1
           /\ p[j] \in 1 .. Len(f) + 1 /\ q[j] \in 1 .. Len(f) + 1 /\ p[j] < q[j]
           /\ R[j].blocks \in Nat /\ R[j].words \in Nat /\ R[j].count \in Nat
           /\ HeaderAt(f)[p[j]] \in Nat /\ BlockOf(f)[p[j]] \in Nat
           /\ WordOf(f, p[j]) \in Nat /\ WordOf(f, q[j]) = WordOf(f, p[j]) + R[j].words
           /\ WordOf(f, p[j]) = (BlockOf(f)[p[j]] * BlockSectors) * SectorWords
           /\ R[j].words = (R[j].blocks * BlockSectors) * SectorWords
           /\ HeaderAt(f)[q[j]] = HeaderAt(f)[p[j]] + R[j].words + R[j].count * ChunkHeader
           /\ BlockOf(f)[q[j]] = BlockOf(f)[p[j]] + R[j].blocks
           /\ \A c \in p[j] .. q[j] - 1 : f[c].type = "raw"
<1>1. f \in Seq(Chunk) /\ Len(f) \in Nat
  BY ChunkTypes DEF Plain
<1>2. /\ Len(R) \in Nat \ {0} /\ Len(G) = Len(R) - 1 /\ p[1] = 1
      /\ R[j].count > 0 /\ Spans(f, R[j], p[j], q[j], "raw")
  BY DEF Finished, BeforeGap, Cut
<1>3. /\ R[j] \in Sum /\ p[j] \in 1 .. Len(f) + 1 /\ q[j] \in 1 .. Len(f) + 1
      /\ p[j] + R[j].count = q[j]
      /\ BlockOf(f)[q[j]] = BlockOf(f)[p[j]] + R[j].blocks
      /\ HeaderAt(f)[q[j]] = HeaderAt(f)[p[j]] + R[j].words + R[j].count * ChunkHeader
      /\ R[j].words = R[j].blocks * BlockWords
      /\ \A c \in p[j] .. q[j] - 1 : f[c].type = "raw"
  BY <1>2 DEF Spans
<1>4. R[j].blocks \in Nat /\ R[j].words \in Nat /\ R[j].count \in Nat
  BY <1>3, SumTypes
<1>5. p[j] < q[j]
  BY <1>2, <1>3, <1>4
<1>6. BlockOf(f)[p[j]] \in Nat /\ HeaderAt(f)[p[j]] \in Nat /\ WordOf(f, p[j]) \in Nat
  BY <1>1, <1>3, Layout
<1>7. \A x \in Nat, y \in Nat : (x + y) * BlockWords = x * BlockWords + y * BlockWords
  BY Shape
<1>8. WordOf(f, q[j]) = WordOf(f, p[j]) + R[j].words
  <2>1. (BlockOf(f)[p[j]] + R[j].blocks) * BlockWords
          = BlockOf(f)[p[j]] * BlockWords + R[j].blocks * BlockWords
    BY <1>4, <1>6, <1>7
  <2> QED
    BY <1>3, <2>1 DEF WordOf
<1>9. /\ WordOf(f, p[j]) = (BlockOf(f)[p[j]] * BlockSectors) * SectorWords
      /\ R[j].words = (R[j].blocks * BlockSectors) * SectorWords
  <2>1. /\ BlockOf(f)[p[j]] * BlockWords = (BlockOf(f)[p[j]] * BlockSectors) * SectorWords
        /\ R[j].blocks * BlockWords = (R[j].blocks * BlockSectors) * SectorWords
    BY <1>4, <1>6, Shape
  <2> QED
    BY <1>3, <2>1 DEF WordOf
<1> QED
  BY <1>2, <1>3, <1>4, <1>5, <1>6, <1>8, <1>9

LEMMA GapFacts ==
    ASSUME NEW f, NEW R, NEW G, NEW p, NEW q, Plain(f), Finished(f, R, G, p, q), NEW j \in 1 .. Len(R) - 1
    PROVE  /\ j \in DOMAIN G /\ G[j].blocks \in Nat /\ G[j].count \in Nat
           /\ Spans(f, G[j], q[j], p[j + 1], "skip")
           /\ HeaderAt(f)[p[j + 1]] = HeaderAt(f)[q[j]] + G[j].count * ChunkHeader
           /\ BlockOf(f)[p[j + 1]] = BlockOf(f)[q[j]] + G[j].blocks
<1>1. /\ Len(R) \in Nat /\ Len(G) = Len(R) - 1 /\ G \in Seq(Sum)
      /\ \A k \in 1 .. Len(G) : Spans(f, G[k], q[k], p[k + 1], "skip")
  BY DEF Finished, BeforeGap, Cut
<1>2. j \in 1 .. Len(G) /\ j \in DOMAIN G
  BY <1>1
<1>3. Spans(f, G[j], q[j], p[j + 1], "skip")
  BY <1>1, <1>2
<1>4. /\ G[j] \in Sum /\ q[j] \in 1 .. Len(f) + 1 /\ G[j].words = 0
      /\ HeaderAt(f)[p[j + 1]] = HeaderAt(f)[q[j]] + G[j].words + G[j].count * ChunkHeader
      /\ BlockOf(f)[p[j + 1]] = BlockOf(f)[q[j]] + G[j].blocks
  BY <1>3 DEF Spans
<1>5. G[j].blocks \in Nat /\ G[j].count \in Nat
  BY <1>4, SumTypes
<1>6. HeaderAt(f)[q[j]] \in Nat
  <2>1. f \in Seq(Chunk)
    BY DEF Plain
  <2> QED
    BY <1>4, <2>1, Layout
<1>7. HeaderAt(f)[p[j + 1]] = HeaderAt(f)[q[j]] + G[j].count * ChunkHeader
  <2>1. HeaderAt(f)[q[j]] + G[j].words = HeaderAt(f)[q[j]]
    BY <1>4, <1>6
  <2> QED
    BY <1>4, <2>1
<1> QED
  BY <1>2, <1>3, <1>4, <1>5, <1>7

\* Between two runs the place and the start sector are those of the one before,
\* and its data is in the flash.
AtRun(p, q) ==
    /\ i \in 1 .. Len(runs) + 1
    /\ i = 1 => start = 0 /\ Filled(file, flash, 0)
    /\ i # 1 => /\ offset = HeaderAt(file)[p[i - 1]]
                /\ start = BlockOf(file)[p[i - 1]] * BlockSectors
                /\ num = runs[i - 1].blocks * BlockSectors
                /\ Filled(file, flash, WordOf(file, q[i - 1]))

\* In a run they are its own; what has been sent and what is left of the chunk
\* reaches to the end of the chunk, and what is in the flash to where it is left.
InRun(p, q) ==
    /\ i \in 1 .. Len(runs)
    /\ offset = HeaderAt(file)[p[i]] /\ start = BlockOf(file)[p[i]] * BlockSectors
    /\ num = runs[i].blocks * BlockSectors /\ size = runs[i].words
    /\ sent \in Nat /\ awaited \in Nat /\ awaited + sent = size /\ chunk \in p[i] .. q[i] - 1
    /\ pc = "header" => /\ WordOf(file, p[i]) + sent = WordOf(file, chunk)
                        /\ Filled(file, flash, WordOf(file, chunk))
    /\ pc = "data" => /\ left \in Nat /\ Whole(left) /\ left <= DataWords(file[chunk])
                      /\ WordOf(file, p[i]) + sent + left = WordOf(file, chunk + 1)
                      /\ Filled(file, flash, WordOf(file, chunk + 1) - left)

Placing(p, q) ==
    /\ pc \in {"run", "header", "data", "done"}
    /\ pc = "run" => AtRun(p, q)
    /\ pc \in {"header", "data"} => InRun(p, q)
    /\ pc = "done" => Filled(file, flash, WordOf(file, q[Len(runs)]))

ScanInv ==
    /\ i = 1 /\ start = 0 /\ DOMAIN flash = {}
    /\ \E p, q : Scanned(file, m, lastType, sum, runs, gaps, p, q)

PlaceInv == \E p, q : Finished(file, runs, gaps, p, q) /\ Placing(p, q)

\* The header of a run and its place follow from those of the run before and the sums.
LEMMA NextRunAt ==
    ASSUME NEW p, NEW q, Plain(file), Literal8 = BlockSectors, Finished(file, runs, gaps, p, q),
           AtRun(p, q), i <= Len(runs)
    PROVE  /\ (IF i = 1 THEN FileHeader ELSE NextOffset) = HeaderAt(file)[p[i]]
           /\ (IF i = 1 THEN start ELSE NextStart) = BlockOf(file)[p[i]] * BlockSectors
           /\ Filled(file, flash, WordOf(file, p[i]))
<1>0. file \in Seq(Chunk)
  BY DEF Plain
<1>1. i \in 1 .. Len(runs) /\ Len(runs) \in Nat /\ p[1] = 1
  <2>1. Len(runs) \in Nat /\ p[1] = 1
    BY DEF Finished, BeforeGap, Cut
  <2> QED
    BY <2>1 DEF AtRun
<1>2. CASE i = 1
  <2>1. HeaderAt(file)[1] = FileHeader /\ BlockOf(file)[1] = 0 /\ WordOf(file, 1) = 0
    BY <1>0, Layout
  <2>2. 0 * BlockSectors = 0
    BY Shape
  <2> QED
    BY <1>1, <1>2, <2>1, <2>2 DEF AtRun
<1>3. CASE i # 1
  <2> DEFINE j == i - 1
  <2>1. j \in 1 .. Len(runs) - 1 /\ j \in 1 .. Len(runs) /\ j + 1 = i
    BY <1>1, <1>3
  <2>2. /\ offset = HeaderAt(file)[p[j]] /\ start = BlockOf(file)[p[j]] * BlockSectors
        /\ num = runs[j].blocks * BlockSectors /\ Filled(file, flash, WordOf(file, q[j]))
    BY <1>3 DEF AtRun
  <2> HIDE DEF j
  <2>3. /\ HeaderAt(file)[q[j]] = HeaderAt(file)[p[j]] + runs[j].words + runs[j].count * ChunkHeader
        /\ BlockOf(file)[q[j]] = BlockOf(file)[p[j]] + runs[j].blocks
        /\ HeaderAt(file)[p[j]] \in Nat /\ BlockOf(file)[p[j]] \in Nat
        /\ runs[j].words \in Nat /\ runs[j].count \in Nat /\ runs[j].blocks \in Nat
    BY <2>1, RunFacts
  <2>4. /\ j \in DOMAIN gaps /\ gaps[j].blocks \in Nat /\ gaps[j].count \in Nat
        /\ Spans(file, gaps[j], q[j], p[j + 1], "skip")
        /\ HeaderAt(file)[p[j + 1]] = HeaderAt(file)[q[j]] + gaps[j].count * ChunkHeader
        /\ BlockOf(file)[p[j + 1]] = BlockOf(file)[q[j]] + gaps[j].blocks
    BY <2>1, GapFacts
  <2>5. Gap(j) = gaps[j]
    BY <2>4 DEF Gap
  <2>6. NextOffset = HeaderAt(file)[p[i]]
    <3>1. NextOffset = offset + runs[j].words + runs[j].count * ChunkHeader + gaps[j].count * ChunkHeader
      BY <2>5 DEF NextOffset, j
    <3> QED
      BY <2>1, <2>2, <2>3, <2>4, <3>1
  <2>7. NextStart = BlockOf(file)[p[i]] * BlockSectors
    <3>1. NextStart = start + num + gaps[j].blocks * BlockSectors
      BY <2>5 DEF NextStart, j
    <3>2. (BlockOf(file)[p[j]] + runs[j].blocks) * BlockSectors
            = BlockOf(file)[p[j]] * BlockSectors + runs[j].blocks * BlockSectors
      BY <2>3, Shape
    <3>3. BlockOf(file)[q[j]] \in Nat
      BY <2>3
    <3>4. (BlockOf(file)[q[j]] + gaps[j].blocks) * BlockSectors
            = BlockOf(file)[q[j]] * BlockSectors + gaps[j].blocks * BlockSectors
      BY <2>4, <3>3, Shape
    <3> QED
      BY <2>1, <2>2, <2>3, <2>4, <3>1, <3>2, <3>4
  <2>8. Filled(file, flash, WordOf(file, p[i]))
    BY <1>0, <2>1, <2>2, <2>4, FilledGap
  <2> QED
    BY <1>3, <2>6, <2>7, <2>8
<1> QED
  BY <1>2, <1>3

-----------------------------------------------------------------------------
(* The steps.                                                              *)

\* A run begins at the header of its first chunk.
LEMMA BeginRunStep ==
    ASSUME NEW p, NEW q, Plain(file), Literal8 = BlockSectors, Finished(file, runs, gaps, p, q),
           AtRun(p, q), BeginRun
    PROVE  Placing(p, q)'
<1>0. /\ file \in Seq(Chunk) /\ Len(file) \in Nat /\ DOMAIN file = 1 .. Len(file)
      /\ i \in 1 .. Len(runs) /\ i <= Len(runs)
  <2>1. Len(runs) \in Nat
    BY DEF Finished, BeforeGap, Cut
  <2> QED
    BY <2>1, ChunkTypes DEF Plain, AtRun, BeginRun
<1> DEFINE a == p[i]
<1>1. /\ offset' = HeaderAt(file)[a] /\ start' = BlockOf(file)[a] * BlockSectors
      /\ size' = runs[i].words /\ num' = Sectors(size') /\ awaited' = num' * SectorWords
      /\ sent' = 0 /\ UNCHANGED <<file, runs, gaps, i, flash>>
      /\ Filled(file, flash, WordOf(file, a))
  BY <1>0, NextRunAt DEF BeginRun, scanning
<1>2. /\ a \in 1 .. Len(file) + 1 /\ q[i] \in 1 .. Len(file) + 1 /\ a < q[i]
      /\ runs[i].words \in Nat /\ runs[i].blocks \in Nat
      /\ runs[i].words = (runs[i].blocks * BlockSectors) * SectorWords
      /\ WordOf(file, a) \in Nat
  BY <1>0, RunFacts
<1> HIDE DEF a
<1>3. a \in 1 .. Len(file) /\ a \in a .. q[i] - 1
  BY <1>0, <1>2
<1>4. \A c \in DOMAIN file : HeaderAt(file)[c] = HeaderAt(file)[a] => c = a
  <2> SUFFICES ASSUME NEW c \in 1 .. Len(file), HeaderAt(file)[c] = HeaderAt(file)[a] PROVE c = a
    BY <1>0
  <2>1. c \in 1 .. Len(file) + 1 /\ HeaderAt(file)[c] \in Nat /\ HeaderAt(file)[a] \in Nat
    BY <1>0, <1>2, Layout
  <2>2. c < a => HeaderAt(file)[c] < HeaderAt(file)[a]
    BY <1>0, <1>2, <2>1, Ordered
  <2>3. a < c => HeaderAt(file)[a] < HeaderAt(file)[c]
    BY <1>0, <1>2, <2>1, Ordered
  <2> QED
    BY <1>2, <2>1, <2>2, <2>3
<1>5. pc' = "header" /\ chunk' = a
  <2>1. \E c \in DOMAIN file : HeaderAt(file)[c] = offset'
    BY <1>0, <1>1, <1>3
  <2>2. pc' = "header" /\ chunk' = CHOOSE c \in DOMAIN file : HeaderAt(file)[c] = offset'
    BY <2>1 DEF BeginRun
  <2>3. chunk' \in DOMAIN file /\ HeaderAt(file)[chunk'] = offset'
    BY <2>1, <2>2
  <2> QED
    BY <1>1, <1>4, <2>2, <2>3
<1>6. num' = runs[i].blocks * BlockSectors /\ awaited' = runs[i].words
  <2>1. runs[i].blocks * BlockSectors \in Nat
    BY <1>2, Shape
  <2>2. Sectors(runs[i].words) = runs[i].blocks * BlockSectors
    BY <1>2, <2>1, SectorsOf
  <2> QED
    BY <1>1, <1>2, <2>2
<1>7. awaited' \in Nat /\ sent' \in Nat /\ awaited' + sent' = size' /\ WordOf(file, a) + sent' = WordOf(file, a)
  BY <1>1, <1>2, <1>6
<1>8. InRun(p, q)'
  BY <1>0, <1>1, <1>3, <1>5, <1>6, <1>7 DEF InRun, a
<1> QED
  BY <1>5, <1>8 DEF Placing

\* A header is followed by all of its chunk.
LEMMA ReadHeaderStep ==
    ASSUME NEW p, NEW q, Plain(file), Finished(file, runs, gaps, p, q), pc = "header", InRun(p, q),
           ReadHeader
    PROVE  Placing(p, q)'
<1>1. /\ UNCHANGED <<file, runs, gaps, i, offset, start, num, size, chunk, sent, flash, awaited>>
      /\ (chunk \in DOMAIN file => pc' = "data" /\ left' = DataWords(file[chunk]))
  BY DEF ReadHeader, scanning, placing, target
<1>2. /\ i \in 1 .. Len(runs) /\ chunk \in p[i] .. q[i] - 1
      /\ WordOf(file, p[i]) + sent = WordOf(file, chunk) /\ sent \in Nat
      /\ Filled(file, flash, WordOf(file, chunk))
  BY DEF InRun
<1>3. /\ file \in Seq(Chunk) /\ Len(file) \in Nat /\ DOMAIN file = 1 .. Len(file)
  BY ChunkTypes DEF Plain
<1>4. /\ p[i] \in 1 .. Len(file) + 1 /\ q[i] \in 1 .. Len(file) + 1 /\ WordOf(file, p[i]) \in Nat
      /\ \A c \in p[i] .. q[i] - 1 : file[c].type = "raw"
  BY <1>2, RunFacts
<1>5. chunk \in 1 .. Len(file) /\ file[chunk].type = "raw"
  BY <1>2, <1>3, <1>4
<1>6. /\ DataWords(file[chunk]) = file[chunk].blocks * BlockWords /\ file[chunk].blocks \in Nat
      /\ DataWords(file[chunk]) \in Nat
  BY <1>3, <1>5, ChunkTypes DEF DataWords
<1>7. WordOf(file, chunk + 1) = WordOf(file, chunk) + DataWords(file[chunk]) /\ WordOf(file, chunk) \in Nat
  BY <1>3, <1>5, <1>6, Layout
<1>8. Whole(DataWords(file[chunk]))
  <2>1. file[chunk].blocks * BlockWords = (file[chunk].blocks * BlockSectors) * SectorWords
        /\ file[chunk].blocks * BlockSectors \in Nat
    BY <1>6, Shape
  <2> QED
    BY <1>6, <2>1 DEF Whole
<1>9. pc' = "data" /\ left' = DataWords(file[chunk])
  BY <1>1, <1>3, <1>5
<1>10. /\ WordOf(file, p[i]) + sent + DataWords(file[chunk]) = WordOf(file, chunk + 1)
       /\ WordOf(file, chunk + 1) - DataWords(file[chunk]) = WordOf(file, chunk)
  BY <1>2, <1>4, <1>6, <1>7
<1>11. InRun(p, q)'
  <2>1. left' \in Nat /\ left' <= DataWords(file'[chunk']) /\ Whole(left')
    BY <1>1, <1>6, <1>8, <1>9
  <2>2. Whole(left)' <=> Whole(left')
    BY DEF Whole
  <2>3. WordOf(file', p[i']) + sent' + left' = WordOf(file', chunk' + 1)
    BY <1>1, <1>9, <1>10
  <2>4. Filled(file', flash', WordOf(file', chunk' + 1) - left')
    BY <1>1, <1>2, <1>9, <1>10
  <2> QED
    BY <1>1, <1>9, <2>1, <2>2, <2>3, <2>4 DEF InRun
<1> QED
  BY <1>9, <1>11 DEF Placing

\* A piece goes where the file has it, and the target waits for all of it.
LEMMA SendPieceStep ==
    ASSUME NEW p, NEW q, Plain(file), Finished(file, runs, gaps, p, q), pc = "data", InRun(p, q),
           SendPiece
    PROVE  Placing(p, q)'
<1> DEFINE n == Piece
           d == DataWords(file[chunk])
           base == WordOf(file, p[i])
           low == WordOf(file, chunk)
           end == WordOf(file, chunk + 1)
<1>1. /\ i \in 1 .. Len(runs) /\ chunk \in p[i] .. q[i] - 1
      /\ start = BlockOf(file)[p[i]] * BlockSectors /\ num = runs[i].blocks * BlockSectors
      /\ size = runs[i].words /\ sent \in Nat /\ awaited \in Nat /\ awaited + sent = size
      /\ left \in Nat /\ Whole(left) /\ left <= d
      /\ base + sent + left = end /\ Filled(file, flash, end - left)
  BY DEF InRun
<1>2. /\ file \in Seq(Chunk) /\ Len(file) \in Nat
  BY ChunkTypes DEF Plain
<1>3. /\ p[i] \in 1 .. Len(file) + 1 /\ q[i] \in 1 .. Len(file) + 1
      /\ base \in Nat /\ WordOf(file, q[i]) = base + runs[i].words
      /\ base = (BlockOf(file)[p[i]] * BlockSectors) * SectorWords
      /\ runs[i].words = (runs[i].blocks * BlockSectors) * SectorWords
      /\ runs[i].words \in Nat
      /\ \A c \in p[i] .. q[i] - 1 : file[c].type = "raw"
  BY <1>1, RunFacts
<1>4. chunk \in 1 .. Len(file) /\ file[chunk].type = "raw" /\ chunk + 1 \in 1 .. Len(file) + 1
      /\ chunk + 1 <= q[i]
  <2>1. /\ chunk \in p[i] .. q[i] - 1 /\ p[i] \in 1 .. Len(file) + 1 /\ q[i] \in 1 .. Len(file) + 1
        /\ \A c \in p[i] .. q[i] - 1 : file[c].type = "raw"
    BY <1>1, <1>3
  <2> QED
    BY <1>2, <2>1
<1>5. d \in Nat /\ end = low + d /\ low \in Nat /\ end \in Nat
  <2>1. d = file[chunk].blocks * BlockWords /\ d \in Nat
    BY <1>2, <1>4, ChunkTypes DEF DataWords
  <2>2. end = low + file[chunk].blocks * BlockWords
    BY <1>2, <1>4, Layout
  <2>3. low \in Nat
    BY <1>2, <1>4, Layout
  <2> QED
    BY <2>1, <2>2, <2>3
<1>6. end <= base + size
  <2>1. end <= WordOf(file, q[i])
    BY <1>2, <1>3, <1>4, Sorted
  <2> QED
    BY <1>1, <1>3, <2>1
<1>7. /\ n \in Nat \ {0} /\ n <= left /\ Padded(n) = n /\ left - n \in Nat /\ Whole(left - n)
  <2>1. left > 0
    BY DEF SendPiece
  <2> QED
    BY <1>1, <2>1, PieceOf
<1>n. /\ base \in Nat /\ sent \in Nat /\ awaited \in Nat /\ left \in Nat
      /\ awaited + sent = size /\ base + sent + left = end /\ left <= d
  BY <1>1, <1>3
<1>8. n <= awaited
  <2> HIDE DEF n, d, base, low, end
  <2> QED
    BY <1>n, <1>5, <1>6, <1>7
<1> DEFINE piece == [w \in 1 .. Padded(n) |-> IF w <= n THEN Word(chunk, (d - left) + w) ELSE Padding]
           at == start * SectorWords + num * SectorWords - awaited
           taken == IF Len(piece) < awaited THEN Len(piece) ELSE awaited
<1>9. Len(piece) = n /\ \A w \in 1 .. n : piece[w] = Word(chunk, (d - left) + w)
  <2>1. piece = [w \in 1 .. n |-> IF w <= n THEN Word(chunk, (d - left) + w) ELSE Padding]
    BY <1>7
  <2> HIDE DEF piece
  <2> QED
    BY <1>7, <2>1
<1>10. /\ left' = left - n /\ sent' = sent + Len(piece) /\ awaited' = awaited - taken
       /\ flash' = [a \in DOMAIN flash \cup (at .. at + taken - 1) |->
                       IF a \in at .. at + taken - 1 THEN piece[a - at + 1] ELSE flash[a]]
       /\ pc' = IF taken < Len(piece) THEN "failed" ELSE pc
       /\ UNCHANGED <<file, runs, gaps, i, offset, start, num, size, chunk>>
  BY DEF SendPiece, scanning, placing
<1> HIDE DEF n, d, base, low, end, piece
<1>11. taken = n
  BY <1>1, <1>7, <1>8, <1>9
<1>12. at = end - left
  <2>1. start * SectorWords = base /\ num * SectorWords = size
    BY <1>1, <1>3
  <2> QED
    BY <1>n, <1>5, <2>1
<1> HIDE DEF taken, at
<1>13. at \in Nat /\ low <= at /\ at + n <= end
  BY <1>n, <1>5, <1>7, <1>12
<1>14. \A a \in at .. at + n - 1 : piece[a - at + 1] = Word(chunk, a - low + 1)
  <2> SUFFICES ASSUME NEW a \in at .. at + n - 1
               PROVE  piece[a - at + 1] = Word(chunk, a - low + 1)
    OBVIOUS
  <2>1. a - at + 1 \in 1 .. n /\ (d - left) + (a - at + 1) = a - low + 1
    BY <1>n, <1>5, <1>7, <1>12, <1>13
  <2> QED
    BY <1>9, <2>1
<1>15. Filled(file, flash', at + n)
  <2> DEFINE E == flash'
  <2>1. DOMAIN E = DOMAIN flash \cup (at .. at + n - 1)
    BY <1>10, <1>11
  <2>2. \A x \in DOMAIN E :
           E[x] = IF x \in at .. at + n - 1 THEN Word(chunk, x - WordOf(file, chunk) + 1) ELSE flash[x]
    BY <1>10, <1>11, <1>14 DEF low
  <2>3. Filled(file, flash, at)
    BY <1>1, <1>12
  <2>4. at + n <= WordOf(file, chunk + 1) /\ WordOf(file, chunk) <= at
    BY <1>13 DEF low, end
  <2> HIDE DEF E
  <2>5. Filled(file, E, at + n)
    BY <1>2, <1>4, <1>7, <1>13, <2>1, <2>2, <2>3, <2>4, FilledMore
  <2> QED
    BY <2>5 DEF E
<1>16. /\ pc' = "data" /\ left' = left - n /\ sent' = sent + n /\ awaited' = awaited - n
  BY <1>7, <1>9, <1>10, <1>11
<1>17. /\ left' \in Nat /\ left' <= d /\ sent' \in Nat /\ awaited' \in Nat /\ awaited' + sent' = size
       /\ base + sent' + left' = end /\ end - left' = at + n
  BY <1>n, <1>5, <1>7, <1>8, <1>12, <1>16
<1>18. InRun(p, q)'
  <2>1. Whole(left)'
    <3>1. Whole(left')
      BY <1>7, <1>16
    <3> QED
      BY <3>1 DEF Whole
  <2>2. Filled(file', flash', WordOf(file', chunk' + 1) - left')
    BY <1>10, <1>15, <1>17 DEF end
  <2>3. WordOf(file', p[i']) + sent' + left' = WordOf(file', chunk' + 1)
    BY <1>10, <1>17 DEF base, end
  <2>4. left' <= DataWords(file'[chunk'])
    BY <1>10, <1>17 DEF d
  <2> QED
    BY <1>1, <1>10, <1>16, <1>17, <2>1, <2>2, <2>3, <2>4 DEF InRun
<1> QED
  BY <1>16, <1>18 DEF Placing

\* A chunk that is not the last of its run is followed by another one of it.
LEMMA EndChunkStep ==
    ASSUME NEW p, NEW q, Plain(file), Finished(file, runs, gaps, p, q), pc = "data", InRun(p, q),
           EndChunk
    PROVE  Placing(p, q)'
<1>1. /\ left = 0 /\ sent < size /\ chunk' = chunk + 1 /\ pc' = "header"
      /\ UNCHANGED <<file, runs, gaps, i, offset, start, num, size, left, sent, flash, awaited>>
  BY DEF EndChunk, scanning, placing, target
<1>2. /\ i \in 1 .. Len(runs) /\ chunk \in p[i] .. q[i] - 1 /\ size = runs[i].words /\ sent \in Nat
      /\ WordOf(file, p[i]) + sent + left = WordOf(file, chunk + 1)
      /\ Filled(file, flash, WordOf(file, chunk + 1) - left)
  BY DEF InRun
<1>3. /\ p[i] \in 1 .. Len(file) + 1 /\ q[i] \in 1 .. Len(file) + 1 /\ WordOf(file, p[i]) \in Nat
      /\ WordOf(file, q[i]) = WordOf(file, p[i]) + runs[i].words /\ runs[i].words \in Nat
  <2>1. i \in 1 .. Len(runs)
    BY <1>2
  <2> QED
    BY <2>1, RunFacts, SMTT(30)
<1>4. WordOf(file, p[i]) + sent = WordOf(file, chunk + 1)
      /\ WordOf(file, chunk + 1) - left = WordOf(file, chunk + 1)
  BY <1>1, <1>2, <1>3
<1>5. chunk + 1 # q[i]
  BY <1>1, <1>2, <1>3, <1>4
<1>6. chunk + 1 \in p[i] .. q[i] - 1
  BY <1>2, <1>3, <1>5, SMTT(30)
<1>7. InRun(p, q)'
  BY <1>1, <1>2, <1>4, <1>6 DEF InRun
<1> QED
  BY <1>1, <1>7 DEF Placing

\* At the end of a run the target has all that it was promised.
LEMMA EndRunStep ==
    ASSUME NEW p, NEW q, Plain(file), Finished(file, runs, gaps, p, q), pc = "data", InRun(p, q),
           EndRun
    PROVE  Placing(p, q)'
<1>1. /\ left = 0 /\ sent >= size
      /\ UNCHANGED <<file, runs, gaps, offset, start, num, size, flash>>
      /\ (awaited = 0 => pc' = "run" /\ i' = i + 1)
  BY DEF EndRun, scanning, sending, target
<1>2. /\ i \in 1 .. Len(runs) /\ chunk \in p[i] .. q[i] - 1 /\ size = runs[i].words
      /\ sent \in Nat /\ awaited \in Nat /\ awaited + sent = size
      /\ WordOf(file, p[i]) + sent + left = WordOf(file, chunk + 1)
      /\ Filled(file, flash, WordOf(file, chunk + 1) - left)
      /\ offset = HeaderAt(file)[p[i]] /\ start = BlockOf(file)[p[i]] * BlockSectors
      /\ num = runs[i].blocks * BlockSectors
  BY DEF InRun
<1>3. /\ p[i] \in 1 .. Len(file) + 1 /\ q[i] \in 1 .. Len(file) + 1 /\ WordOf(file, p[i]) \in Nat
      /\ WordOf(file, q[i]) = WordOf(file, p[i]) + runs[i].words /\ runs[i].words \in Nat
      /\ Len(runs) \in Nat
  BY <1>2, RunFacts
<1>4. awaited = 0 /\ sent = size
  BY <1>1, <1>2, <1>3, SMTT(30)
<1>5. WordOf(file, chunk + 1) - left = WordOf(file, q[i])
  BY <1>1, <1>2, <1>3, <1>4
<1>6. /\ pc' = "run" /\ i' = i + 1 /\ i' - 1 = i /\ i' # 1 /\ i' \in 1 .. Len(runs) + 1
  BY <1>1, <1>2, <1>3, <1>4
<1>7. AtRun(p, q)'
  BY <1>1, <1>2, <1>5, <1>6 DEF AtRun
<1> QED
  BY <1>6, <1>7 DEF Placing

LEMMA FinishStep ==
    ASSUME NEW p, NEW q, Plain(file), Finished(file, runs, gaps, p, q), AtRun(p, q), Finish
    PROVE  Placing(p, q)'
<1>1. /\ i > Len(runs) /\ pc' = "done" /\ UNCHANGED <<file, runs, gaps, flash>>
  BY DEF Finish, scanning, target
<1>2. Len(runs) \in Nat \ {0}
  <2>1. Len(gaps) \in Nat /\ Len(runs) \in Nat /\ Len(runs) = Len(gaps) + 1
    BY DEF Finished, BeforeGap, Cut
  <2> QED
    BY <2>1
<1>3. i = Len(runs) + 1 /\ i # 1 /\ i - 1 = Len(runs)
  BY <1>1, <1>2 DEF AtRun
<1>4. Filled(file, flash, WordOf(file, q[Len(runs)]))
  BY <1>3 DEF AtRun
<1> QED
  BY <1>1, <1>4 DEF Placing

\* The invariant: the scan, then the runs, for files that begin with raw data and
\* have blocks of as many sectors as fh_process_program takes for granted.
Inv == Plain(file) /\ Literal8 = BlockSectors =>
          /\ pc = "scan" => ScanInv
          /\ pc # "scan" => PlaceInv

LEMMA InitInv == Init => Inv
<1> SUFFICES ASSUME Init, Plain(file) PROVE ScanInv /\ pc = "scan"
  BY DEF Inv
<1>1. /\ m = 1 /\ lastType = "none" /\ sum = Zero /\ runs = << >> /\ gaps = << >>
      /\ i = 1 /\ start = 0 /\ pc = "scan" /\ DOMAIN flash = {}
  BY DEF Init
<1>2. \E p, q : Scanned(file, 1, "none", Zero, << >>, << >>, p, q)
  BY ScanBegin
<1>3. \E p, q : Scanned(file, m, lastType, sum, runs, gaps, p, q)
  BY <1>1, <1>2
<1> QED
  BY <1>1, <1>3 DEF ScanInv

LEMMA FileStays == [Next]_vars => file' = file
BY DEF Next, Program, Scan, ScanEnd, BeginRun, ReadHeader, SendPiece, EndChunk, EndRun, Finish, Ended, vars

LEMMA NextInv == Inv /\ [Next]_vars => Inv'
<1> SUFFICES ASSUME Inv, [Next]_vars, Plain(file), Literal8 = BlockSectors
             PROVE  (pc' = "scan" => ScanInv') /\ (pc' # "scan" => PlaceInv')
  <2>1. [Next]_vars /\ Plain(file') => Plain(file)
    BY FileStays
  <2>2. Plain(file)' <=> Plain(file')
    BY DEF Plain
  <2> QED
    BY <2>1, <2>2 DEF Inv
<1>1. (pc = "scan" => ScanInv) /\ (pc # "scan" => PlaceInv)
  BY DEF Inv
<1>2. CASE Scan
  <2>1. pc = "scan" /\ pc' = "scan" /\ UNCHANGED <<i, start, flash>>
    BY <1>2 DEF Scan, placing, target
  <2>2. PICK p, q : Scanned(file, m, lastType, sum, runs, gaps, p, q)
    BY <1>1, <2>1 DEF ScanInv
  <2>3. \E u, v : Scanned(file', m', lastType', sum', runs', gaps', u, v)
    BY <1>2, <2>2, ScanStep
  <2> QED
    BY <1>1, <2>1, <2>3 DEF ScanInv
<1>3. CASE ScanEnd
  <2>1. pc = "scan" /\ pc' = "run" /\ m > Len(file) /\ UNCHANGED <<file, runs, gaps, i, start, flash>>
    BY <1>3 DEF ScanEnd, scanning, placing, target
  <2>2. PICK p, q : Scanned(file, m, lastType, sum, runs, gaps, p, q)
    BY <1>1, <2>1 DEF ScanInv
  <2>3. m = Len(file) + 1
    <3>1. Len(file) \in Nat
      BY ChunkTypes DEF Plain
    <3> QED
      BY <2>1, <2>2, <3>1 DEF Scanned
  <2>4. Scanned(file, Len(file) + 1, lastType, sum, runs, gaps, p, q)
    BY <2>2, <2>3
  <2>5. Finished(file, runs, gaps, p, q)
    BY <2>4, ScanFinishes
  <2>6. AtRun(p, q)'
    <3>1. Len(runs) \in Nat
      BY <2>5 DEF Finished, BeforeGap, Cut
    <3>2. i = 1 /\ start = 0 /\ Filled(file, flash, 0)
      BY <1>1, <2>1, FilledNone DEF ScanInv
    <3> QED
      BY <2>1, <3>1, <3>2 DEF AtRun
  <2> QED
    BY <2>1, <2>5, <2>6 DEF PlaceInv, Placing
<1>4. CASE BeginRun \/ ReadHeader \/ SendPiece \/ EndChunk \/ EndRun \/ Finish
  <2>1. pc \in {"run", "header", "data"} /\ UNCHANGED <<file, runs, gaps>>
    BY <1>4 DEF BeginRun, ReadHeader, SendPiece, EndChunk, EndRun, Finish, scanning
  <2>2. PICK p, q : Finished(file, runs, gaps, p, q) /\ Placing(p, q)
    BY <1>1, <2>1 DEF PlaceInv
  <2>3. Placing(p, q)'
    <3>1. CASE BeginRun
      BY <2>2, <3>1, BeginRunStep DEF Placing, BeginRun
    <3>2. CASE ReadHeader
      BY <2>2, <3>2, ReadHeaderStep DEF Placing, ReadHeader
    <3>3. CASE SendPiece
      BY <2>2, <3>3, SendPieceStep DEF Placing, SendPiece
    <3>4. CASE EndChunk
      BY <2>2, <3>4, EndChunkStep DEF Placing, EndChunk
    <3>5. CASE EndRun
      BY <2>2, <3>5, EndRunStep DEF Placing, EndRun
    <3>6. CASE Finish
      BY <2>2, <3>6, FinishStep DEF Placing, Finish
    <3> QED
      BY <1>4, <3>1, <3>2, <3>3, <3>4, <3>5, <3>6
  <2>4. Finished(file', runs', gaps', p, q)
    BY <2>1, <2>2
  <2>5. PlaceInv'
    BY <2>3, <2>4 DEF PlaceInv
  <2>6. pc' # "scan"
    BY <2>3 DEF Placing
  <2> QED
    BY <2>5, <2>6
<1>5. CASE Ended \/ UNCHANGED vars
  <2>1. UNCHANGED vars
    BY <1>5 DEF Ended
  <2>2. UNCHANGED <<file, pc, m, lastType, sum, runs, gaps, i, offset, start, num, size, chunk, left,
                    sent, flash, awaited>>
    BY <2>1 DEF vars, scanning, placing, sending, target
  <2>3. (ScanInv => ScanInv') /\ (PlaceInv => PlaceInv')
    BY <2>2 DEF ScanInv, PlaceInv, Placing, AtRun, InRun, Whole
  <2> QED
    BY <1>1, <2>2, <2>3
<1> QED
  BY <1>2, <1>3, <1>4, <1>5 DEF Next, Program

-----------------------------------------------------------------------------
(* The theorems.                                                           *)

\* Each word below the size is one of some chunk.
LEMMA Covered ==
    ASSUME NEW f \in Seq(Chunk), NEW a \in Nat, a < WordOf(f, Len(f) + 1)
    PROVE  \E c \in 1 .. Len(f) : Covers(f, c, a)
<1> DEFINE G == {k \in Nat : k <= Len(f) /\ a < WordOf(f, k + 1) => \E c \in 1 .. Len(f) : Covers(f, c, a)}
<1>1. Len(f) \in Nat
  BY ChunkTypes
<1>2. 0 \in G
  BY Layout
<1>3. \A k \in Nat : k \in G => k + 1 \in G
  <2> SUFFICES ASSUME NEW k \in Nat, k \in G PROVE k + 1 \in G
    OBVIOUS
  <2> SUFFICES ASSUME k + 1 <= Len(f) /\ a < WordOf(f, (k + 1) + 1)
               PROVE  \E c \in 1 .. Len(f) : Covers(f, c, a)
    <3>1. k + 1 \in Nat
      OBVIOUS
    <3> QED
      BY <3>1, Zenon
  <2>1. k + 1 \in 1 .. Len(f) /\ k <= Len(f) /\ k + 1 \in 1 .. Len(f) + 1
    BY <1>1
  <2>2. WordOf(f, k + 1) \in Nat
    BY <2>1, Layout
  <2>3. CASE a < WordOf(f, k + 1)
    BY <2>1, <2>3
  <2>4. CASE ~(a < WordOf(f, k + 1))
    <3>1. Covers(f, k + 1, a)
      BY <2>2, <2>4 DEF Covers
    <3> QED
      BY <2>1, <3>1
  <2> QED
    BY <2>3, <2>4
<1>4. Nat \subseteq G
  <2> HIDE DEF G
  <2> QED
    BY <1>2, <1>3, Induction
<1>5. Len(f) \in G
  <2> HIDE DEF G
  <2> QED
    BY <1>1, <1>4
<1> QED
  BY <1>5

\* The chunk that the format has at a place is the one that covers it.
LEMMA ChunkIs ==
    ASSUME file \in Seq(Chunk), NEW c \in 1 .. Len(file), NEW a \in Nat, Covers(file, c, a)
    PROVE  ChunkAt(a) = c
<1>1. DOMAIN file = 1 .. Len(file)
  BY ChunkTypes
<1>2. \E d \in DOMAIN file : WordOf(file, d) <= a /\ a < WordOf(file, d + 1)
  BY <1>1 DEF Covers
<1>3. /\ ChunkAt(a) \in DOMAIN file
      /\ WordOf(file, ChunkAt(a)) <= a /\ a < WordOf(file, ChunkAt(a) + 1)
  BY <1>2 DEF ChunkAt
<1>4. ChunkAt(a) \in 1 .. Len(file) /\ Covers(file, ChunkAt(a), a)
  BY <1>1, <1>3 DEF Covers
<1> QED
  BY <1>4, OneCovers

LEMMA FilledPlaces ==
    ASSUME Plain(file), NEW n, Filled(file, flash, n)
    PROVE  PlacedWhereTold
<1>1. file \in Seq(Chunk) /\ Len(file) \in Nat
  BY ChunkTypes DEF Plain
<1> SUFFICES ASSUME NEW a \in DOMAIN flash PROVE a < Size /\ flash[a] = Expected(a)
  BY DEF PlacedWhereTold
<1>2. PICK c \in 1 .. Len(file) : a \in Nat /\ Covers(file, c, a) /\ file[c].type = "raw"
  BY DEF Filled
<1>3. flash[a] = Word(c, a - WordOf(file, c) + 1)
  BY <1>2 DEF Filled
<1>4. ChunkAt(a) = c
  BY <1>1, <1>2, ChunkIs
<1>5. Expected(a) = Word(c, a - WordOf(file, c) + 1)
  BY <1>2, <1>4 DEF Expected
<1>6. c + 1 \in 1 .. Len(file) + 1 /\ Len(file) + 1 \in 1 .. Len(file) + 1 /\ c + 1 <= Len(file) + 1
  BY <1>1
<1>7. /\ WordOf(file, c + 1) <= WordOf(file, Len(file) + 1)
      /\ WordOf(file, c + 1) \in Nat /\ WordOf(file, Len(file) + 1) \in Nat
  BY <1>1, <1>6, Sorted
<1> QED
  BY <1>2, <1>3, <1>5, <1>7 DEF Covers, Size

LEMMA FilledUp ==
    ASSUME Plain(file), NEW p, NEW q, Finished(file, runs, gaps, p, q),
           Filled(file, flash, WordOf(file, q[Len(runs)]))
    PROVE  Complete
<1>1. file \in Seq(Chunk) /\ Len(file) \in Nat
  BY ChunkTypes DEF Plain
<1> DEFINE e == q[Len(runs)]
<1>2. \A c \in e .. Len(file) : file[c].type = "skip"
  BY DEF Finished, BeforeGap
<1>3. e \in 1 .. Len(file) + 1
  <2>1. Len(runs) \in 1 .. Len(runs)
    <3>1. Len(gaps) \in Nat /\ Len(runs) \in Nat /\ Len(runs) = Len(gaps) + 1
      BY DEF Finished, BeforeGap, Cut
    <3> QED
      BY <3>1
  <2> QED
    BY <2>1, RunFacts
<1>4. Filled(file, flash, WordOf(file, e))
  OBVIOUS
<1> HIDE DEF e
<1> SUFFICES ASSUME NEW a \in 0 .. Size - 1, Expected(a) # Old PROVE a \in DOMAIN flash
  BY DEF Complete
<1>5. WordOf(file, Len(file) + 1) \in Nat
  BY <1>1, Layout
<1>6. a \in Nat /\ a < WordOf(file, Len(file) + 1)
  BY <1>5 DEF Size
<1>7. PICK c \in 1 .. Len(file) : Covers(file, c, a)
  BY <1>1, <1>6, Covered
<1>8. ChunkAt(a) = c
  BY <1>1, <1>6, <1>7, ChunkIs
<1>9. file[c].type = "raw"
  <2>1. file[c].type \in {"raw", "skip"}
    BY DEF Plain
  <2>2. file[c].type # "skip"
    BY <1>8 DEF Expected
  <2> QED
    BY <2>1, <2>2
<1>10. c < e /\ c + 1 \in 1 .. Len(file) + 1 /\ c + 1 <= e
  BY <1>1, <1>2, <1>3, <1>9
<1>11. /\ WordOf(file, c + 1) <= WordOf(file, e) /\ WordOf(file, c + 1) \in Nat
       /\ WordOf(file, e) \in Nat
  BY <1>1, <1>3, <1>10, Sorted
<1>12. a < WordOf(file, e)
  BY <1>6, <1>7, <1>11 DEF Covers
<1> QED
  BY <1>4, <1>6, <1>7, <1>9, <1>12 DEF Filled

LEMMA InvHolds == Spec => []Inv
<1> QED
  BY InitInv, NextInv, PTL DEF Spec

\* At every moment each word in the flash is the one that the sparse file has for
\* its address.
THEOREM RightPlaces == Spec => [](Plain(file) /\ Literal8 = BlockSectors => PlacedWhereTold)
<1>1. Inv => (Plain(file) /\ Literal8 = BlockSectors => PlacedWhereTold)
  <2> SUFFICES ASSUME Inv, Plain(file), Literal8 = BlockSectors PROVE PlacedWhereTold
    OBVIOUS
  <2>1. CASE pc = "scan"
    <3>1. DOMAIN flash = {}
      BY <2>1 DEF Inv, ScanInv
    <3> QED
      BY <3>1 DEF PlacedWhereTold
  <2>2. CASE pc # "scan"
    <3>1. PICK p, q : Placing(p, q)
      BY <2>2 DEF Inv, PlaceInv
    <3>2. \E n : Filled(file, flash, n)
      BY <3>1 DEF Placing, AtRun, InRun
    <3> QED
      BY <3>2, FilledPlaces
  <2> QED
    BY <2>1, <2>2
<1> QED
  BY <1>1, InvHolds, PTL

\* The offsets fall on headers, every run ends when the target has the sectors it
\* was promised, and in the end nothing that the file has data for is left out.
THEOREM NothingLeftOut ==
    Spec => [](Plain(file) /\ Literal8 = BlockSectors => pc # "failed" /\ (pc = "done" => Complete))
<1>1. Inv => (Plain(file) /\ Literal8 = BlockSectors => pc # "failed" /\ (pc = "done" => Complete))
  <2> SUFFICES ASSUME Inv, Plain(file), Literal8 = BlockSectors, pc # "scan"
               PROVE  pc # "failed" /\ (pc = "done" => Complete)
    OBVIOUS
  <2>1. PICK p, q : Finished(file, runs, gaps, p, q) /\ Placing(p, q)
    BY DEF Inv, PlaceInv
  <2>2. pc \in {"run", "header", "data", "done"}
    BY <2>1 DEF Placing
  <2>3. pc = "done" => Complete
    BY <2>1, FilledUp DEF Placing
  <2> QED
    BY <2>2, <2>3
<1> QED
  BY <1>1, InvHolds, PTL
=============================================================================
