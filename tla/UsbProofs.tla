----------------------------- MODULE UsbProofs -----------------------------
(***************************************************************************)
(* The transports.  The bridge keeps its two promises for every size of    *)
(* transfer, of call, of write and of the connection: both directions are  *)
(* pipes until a record is cut short, and a server that hangs up has sent  *)
(* all it took.  The search opens the module that was asked for, for every *)
(* neighbour, delay and number of attempts.                                *)
(***************************************************************************)
EXTENDS UsbTcp, UsbDevice, FiniteSetTheorems, SequenceTheorems, TLAPS

Messages == [type : {"tlv", "unit"}, n : Nat]

TypeOK ==
    /\ devSent \in Seq(Messages) /\ inEp \in Seq(Messages) /\ devGot \in Seq(Messages)
    /\ reader \in {"read", "wait", "gone"} /\ pair \in Seq(Messages) /\ woken \in BOOLEAN
    /\ main \in {"poll", "forward", "body", "gone"} /\ ready \subseteq {"usb", "client"}
    /\ pbuf \in Seq(Messages) /\ expect \in Nat
    /\ s2c \in Seq(Messages) /\ c2s \in Seq(Messages)
    /\ conn \in {"open", "fin", "reset", "down"}
    /\ call \in [max : Nat, min : Nat] /\ cur \in Nat /\ tlvLen \in Nat /\ want \in Nat
    /\ cur + want <= call.max \/ call = NoCall
    /\ call = NoCall => want = 0
    /\ hostGot \in Seq(Messages) /\ inCut \in BOOLEAN
    /\ wplace \in {"idle", "header", "body"} /\ wleft \in Nat
    /\ wplace # "idle" => wleft > 0
    /\ wcalls \in Nat /\ wcalls <= Len(Writes)
    /\ hostSent \in Seq(Messages) /\ outCut \in BOOLEAN

-----------------------------------------------------------------------------
(* Streams.                                                                *)

\* s is the units after the first c.
UnitsAfter(s, c) == \A i \in 1 .. Len(s) : s[i] = Unit(c + i)

\* Reading e when c units have come before, and r of the record are still to
\* come, leaves c2 and r2.
Reads1(e, c, r, c2, r2) ==
    IF r = 0 THEN e = Header(r2) /\ r2 > 0 /\ c2 = c
             ELSE e = Unit(c + 1) /\ c2 = c + 1 /\ r2 = r - 1

\* Reading the stream w: records, each header followed by as many units as it
\* says, all units in order.
Stream(w, c0, r0, c1, r1) ==
    \E c, r \in [0 .. Len(w) -> Nat] :
        /\ c[0] = c0 /\ r[0] = r0 /\ c[Len(w)] = c1 /\ r[Len(w)] = r1
        /\ \A i \in 1 .. Len(w) : Reads1(w[i], c[i - 1], r[i - 1], c[i], r[i])
        /\ \A i, j \in 0 .. Len(w) : i <= j => c[i] <= c[j]

LEMMA UnitsAppend ==
    ASSUME NEW s \in Seq(Messages), NEW c \in Nat, UnitsAfter(s, c),
           NEW e \in Messages, e = Unit(c + Len(s) + 1)
    PROVE  UnitsAfter(Append(s, e), c)
<1> DEFINE t == Append(s, e)
<1>1. /\ Len(s) \in Nat /\ Len(t) = Len(s) + 1 /\ t[Len(s) + 1] = e
      /\ \A i \in 1 .. Len(s) : t[i] = s[i]
  OBVIOUS
<1> SUFFICES ASSUME NEW i \in 1 .. Len(s) + 1 PROVE t[i] = Unit(c + i)
  BY <1>1 DEF UnitsAfter
<1> HIDE DEF t
<1>2. CASE i = Len(s) + 1
  <2>1. c + Len(s) + 1 = c + i
    BY <1>1, <1>2
  <2>2. QED
    BY <1>1, <1>2, <2>1
<1>3. CASE i # Len(s) + 1
  <2>1. i \in 1 .. Len(s)
    BY <1>1, <1>3
  <2>2. QED
    BY <1>1, <2>1 DEF UnitsAfter
<1>4. QED
  BY <1>2, <1>3

LEMMA UnitsConcat ==
    ASSUME NEW v \in Seq(Messages), NEW w \in Seq(Messages), NEW c \in Nat,
           UnitsAfter(v, c), UnitsAfter(w, c + Len(v))
    PROVE  UnitsAfter(v \o w, c)
<1> DEFINE t == v \o w
<1>1. /\ Len(v) \in Nat /\ Len(w) \in Nat /\ Len(t) = Len(v) + Len(w)
      /\ \A i \in 1 .. Len(v) : t[i] = v[i]
      /\ \A i \in Len(v) + 1 .. Len(v) + Len(w) : t[i] = w[i - Len(v)]
  OBVIOUS
<1> SUFFICES ASSUME NEW i \in 1 .. Len(v) + Len(w) PROVE t[i] = Unit(c + i)
  BY <1>1 DEF UnitsAfter
<1> HIDE DEF t
<1>2. CASE i <= Len(v)
  <2>1. i \in 1 .. Len(v)
    BY <1>1, <1>2
  <2>2. QED
    BY <1>1, <2>1 DEF UnitsAfter
<1>3. CASE i > Len(v)
  <2>1. i \in Len(v) + 1 .. Len(v) + Len(w) /\ i - Len(v) \in 1 .. Len(w)
    BY <1>1, <1>3
  <2>2. t[i] = Unit(c + Len(v) + (i - Len(v)))
    BY <1>1, <2>1 DEF UnitsAfter
  <2>3. c + Len(v) + (i - Len(v)) = c + i
    BY <1>1
  <2>4. QED
    BY <2>2, <2>3
<1>4. QED
  BY <1>1, <1>2, <1>3

LEMMA UnitsSplit ==
    ASSUME NEW s \in Seq(Messages), NEW c \in Nat, UnitsAfter(s, c), NEW n \in 1 .. Len(s)
    PROVE  /\ UnitsAfter(SubSeq(s, 1, n), c)
           /\ UnitsAfter(SubSeq(s, n + 1, Len(s)), c + n)
<1>1. Len(s) \in Nat /\ n \in Nat
  OBVIOUS
<1>2. UnitsAfter(SubSeq(s, 1, n), c)
  <2>1. Len(SubSeq(s, 1, n)) = n /\ \A i \in 1 .. n : SubSeq(s, 1, n)[i] = s[i]
    BY <1>1
  <2>2. \A i \in 1 .. n : i \in 1 .. Len(s)
    BY <1>1
  <2>3. QED
    BY <2>1, <2>2 DEF UnitsAfter
<1>3. UnitsAfter(SubSeq(s, n + 1, Len(s)), c + n)
  <2> DEFINE t == SubSeq(s, n + 1, Len(s))
             m == Len(s) - n
  <2>1. Len(t) = m /\ \A i \in 1 .. m : t[i] = s[n + i]
    BY <1>1
  <2> SUFFICES ASSUME NEW i \in 1 .. m PROVE t[i] = Unit(c + n + i)
    BY <2>1 DEF UnitsAfter
  <2>2. n + i \in 1 .. Len(s)
    BY <1>1
  <2>3. t[i] = Unit(c + (n + i))
    <3> HIDE DEF t, m
    <3>1. QED
      BY <2>1, <2>2 DEF UnitsAfter
  <2>4. c + (n + i) = c + n + i
    BY <1>1
  <2>5. QED
    BY <2>3, <2>4
<1>4. QED
  BY <1>2, <1>3

LEMMA SplitSizes ==
    ASSUME NEW s \in Seq(Messages), NEW n \in 1 .. Len(s)
    PROVE  /\ SubSeq(s, 1, n) \in Seq(Messages) /\ Len(SubSeq(s, 1, n)) = n
           /\ SubSeq(s, n + 1, Len(s)) \in Seq(Messages)
           /\ Len(SubSeq(s, n + 1, Len(s))) = Len(s) - n
OBVIOUS

LEMMA ReadsUnit ==
    ASSUME NEW e, NEW c, NEW r, NEW c2, NEW r2, r # 0, Reads1(e, c, r, c2, r2)
    PROVE  e = Unit(c + 1) /\ c2 = c + 1 /\ r2 = r - 1
BY DEF Reads1

LEMMA StreamEmpty ==
    ASSUME NEW c0 \in Nat, NEW r0 \in Nat
    PROVE  Stream(<< >>, c0, r0, c0, r0)
<1> DEFINE c == [i \in 0 .. 0 |-> c0]
           r == [i \in 0 .. 0 |-> r0]
<1>1. c \in [0 .. 0 -> Nat] /\ r \in [0 .. 0 -> Nat] /\ c[0] = c0 /\ r[0] = r0
  OBVIOUS
<1>2. \A i, j \in 0 .. 0 : i <= j => c[i] <= c[j]
  OBVIOUS
<1> HIDE DEF c, r
<1>3. Len(<< >>) = 0
  OBVIOUS
<1>4. QED
  BY <1>1, <1>2, <1>3 DEF Stream

\* Taking the first element.
LEMMA StreamTail ==
    ASSUME NEW w \in Seq(Messages), w # << >>,
           NEW c0 \in Nat, NEW r0 \in Nat, NEW c1 \in Nat, NEW r1 \in Nat,
           Stream(w, c0, r0, c1, r1)
    PROVE  \E c2, r2 \in Nat :
              /\ Reads1(Head(w), c0, r0, c2, r2) /\ c2 <= c1
              /\ Stream(Tail(w), c2, r2, c1, r1)
<1>1. PICK c, r \in [0 .. Len(w) -> Nat] :
        /\ c[0] = c0 /\ r[0] = r0 /\ c[Len(w)] = c1 /\ r[Len(w)] = r1
        /\ \A i \in 1 .. Len(w) : Reads1(w[i], c[i - 1], r[i - 1], c[i], r[i])
        /\ \A i, j \in 0 .. Len(w) : i <= j => c[i] <= c[j]
  BY DEF Stream
<1>2. /\ Len(w) \in Nat \ {0} /\ Len(Tail(w)) = Len(w) - 1 /\ Head(w) = w[1]
      /\ \A i \in 1 .. Len(w) - 1 : Tail(w)[i] = w[i + 1]
  OBVIOUS
<1> DEFINE n == Len(w) - 1
           d == [i \in 0 .. n |-> c[i + 1]]
           s == [i \in 0 .. n |-> r[i + 1]]
<1>3. d \in [0 .. n -> Nat] /\ s \in [0 .. n -> Nat]
  BY <1>2
<1>4. d[0] = c[1] /\ s[0] = r[1] /\ d[n] = c1 /\ s[n] = r1
  BY <1>1, <1>2
<1>5. \A i \in 1 .. n : Reads1(Tail(w)[i], d[i - 1], s[i - 1], d[i], s[i])
  <2> SUFFICES ASSUME NEW i \in 1 .. n
               PROVE  Reads1(Tail(w)[i], d[i - 1], s[i - 1], d[i], s[i])
    OBVIOUS
  <2>1. Reads1(w[i + 1], c[i + 1 - 1], r[i + 1 - 1], c[i + 1], r[i + 1])
    BY <1>1, <1>2
  <2>2. i + 1 - 1 = i /\ d[i - 1] = c[i] /\ s[i - 1] = r[i] /\ d[i] = c[i + 1] /\ s[i] = r[i + 1]
    BY <1>2
  <2>3. QED
    BY <1>2, <2>1, <2>2
<1>6. \A i, j \in 0 .. n : i <= j => d[i] <= d[j]
  BY <1>1, <1>2
<1>7. c[1] \in Nat /\ r[1] \in Nat /\ c[1] <= c1 /\ Reads1(Head(w), c0, r0, c[1], r[1])
  BY <1>1, <1>2
<1> HIDE DEF d, s
<1>8. Stream(Tail(w), c[1], r[1], c1, r1)
  BY <1>2, <1>3, <1>4, <1>5, <1>6 DEF Stream
<1>9. QED
  BY <1>7, <1>8

\* Putting an element at the end.
LEMMA StreamAppend ==
    ASSUME NEW w \in Seq(Messages), NEW e \in Messages,
           NEW c0 \in Nat, NEW r0 \in Nat, NEW c1 \in Nat, NEW r1 \in Nat,
           NEW c2 \in Nat, NEW r2 \in Nat,
           Stream(w, c0, r0, c1, r1), Reads1(e, c1, r1, c2, r2)
    PROVE  Stream(Append(w, e), c0, r0, c2, r2)
<1>1. PICK c, r \in [0 .. Len(w) -> Nat] :
        /\ c[0] = c0 /\ r[0] = r0 /\ c[Len(w)] = c1 /\ r[Len(w)] = r1
        /\ \A i \in 1 .. Len(w) : Reads1(w[i], c[i - 1], r[i - 1], c[i], r[i])
        /\ \A i, j \in 0 .. Len(w) : i <= j => c[i] <= c[j]
  BY DEF Stream
<1> DEFINE n == Len(w) + 1
           d == [i \in 0 .. n |-> IF i = n THEN c2 ELSE c[i]]
           s == [i \in 0 .. n |-> IF i = n THEN r2 ELSE r[i]]
<1>2. /\ Len(w) \in Nat /\ Len(Append(w, e)) = n /\ Append(w, e)[n] = e
      /\ \A i \in 1 .. Len(w) : Append(w, e)[i] = w[i]
  OBVIOUS
<1>3. d \in [0 .. n -> Nat] /\ s \in [0 .. n -> Nat]
  BY <1>2
<1>4. d[0] = c0 /\ s[0] = r0 /\ d[n] = c2 /\ s[n] = r2
  BY <1>1, <1>2
<1>5. \A i \in 1 .. n : Reads1(Append(w, e)[i], d[i - 1], s[i - 1], d[i], s[i])
  <2> SUFFICES ASSUME NEW i \in 1 .. n
               PROVE  Reads1(Append(w, e)[i], d[i - 1], s[i - 1], d[i], s[i])
    OBVIOUS
  <2>1. CASE i = n
    <3>1. /\ d[i - 1] = c1 /\ s[i - 1] = r1 /\ d[i] = c2 /\ s[i] = r2
          /\ Append(w, e)[i] = e
      BY <1>1, <1>2, <2>1
    <3>2. QED
      BY <3>1
  <2>2. CASE i # n
    <3>1. i \in 1 .. Len(w)
      BY <1>2, <2>2
    <3>2. /\ d[i - 1] = c[i - 1] /\ s[i - 1] = r[i - 1] /\ d[i] = c[i] /\ s[i] = r[i]
          /\ Append(w, e)[i] = w[i]
      BY <1>2, <2>2, <3>1
    <3>3. QED
      BY <1>1, <3>1, <3>2
  <2>3. QED
    BY <2>1, <2>2
<1>6. c1 <= c2
  BY DEF Reads1
<1>7. \A i, j \in 0 .. n : i <= j => d[i] <= d[j]
  <2> SUFFICES ASSUME NEW i \in 0 .. n, NEW j \in 0 .. n, i <= j PROVE d[i] <= d[j]
    OBVIOUS
  <2>1. CASE j = n
    <3>1. i # n => i <= Len(w) /\ i \in 0 .. Len(w) /\ Len(w) \in 0 .. Len(w)
      BY <1>2
    <3>2. i # n => c[i] <= c1
      BY <1>1, <3>1
    <3>3. i # n => d[i] = c[i] /\ c[i] \in Nat
      BY <3>1
    <3>4. d[j] = c2 /\ (i = n => d[i] = c2)
      BY <2>1
    <3>5. QED
      BY <1>6, <3>2, <3>3, <3>4
  <2>2. CASE j # n
    <3>1. i \in 0 .. Len(w) /\ j \in 0 .. Len(w) /\ i # n
      BY <1>2, <2>2
    <3>2. QED
      BY <1>1, <2>2, <3>1
  <2>3. QED
    BY <2>1, <2>2
<1> HIDE DEF d, s
<1>8. QED
  BY <1>2, <1>3, <1>4, <1>5, <1>7 DEF Stream

\* Losing the end.
LEMMA StreamPrefix ==
    ASSUME NEW v \in Seq(Messages), NEW w \in Seq(Messages),
           NEW c0 \in Nat, NEW r0 \in Nat, NEW c1 \in Nat, NEW r1 \in Nat,
           Stream(v \o w, c0, r0, c1, r1)
    PROVE  \E c2, r2 \in Nat : c2 <= c1 /\ Stream(v, c0, r0, c2, r2)
<1>1. PICK c, r \in [0 .. Len(v \o w) -> Nat] :
        /\ c[0] = c0 /\ r[0] = r0 /\ c[Len(v \o w)] = c1
        /\ \A i \in 1 .. Len(v \o w) : Reads1((v \o w)[i], c[i - 1], r[i - 1], c[i], r[i])
        /\ \A i, j \in 0 .. Len(v \o w) : i <= j => c[i] <= c[j]
  BY DEF Stream
<1> DEFINE n == Len(v)
           d == [i \in 0 .. n |-> c[i]]
           s == [i \in 0 .. n |-> r[i]]
<1>2. /\ n \in Nat /\ Len(v \o w) \in Nat /\ n <= Len(v \o w)
      /\ \A i \in 1 .. n : (v \o w)[i] = v[i]
  OBVIOUS
<1>3. d \in [0 .. n -> Nat] /\ s \in [0 .. n -> Nat]
  BY <1>2
<1>4. d[0] = c0 /\ s[0] = r0 /\ d[n] \in Nat /\ s[n] \in Nat /\ d[n] <= c1
  BY <1>1, <1>2, SMTT(30)
<1>5. \A i \in 1 .. n : Reads1(v[i], d[i - 1], s[i - 1], d[i], s[i])
  <2> SUFFICES ASSUME NEW i \in 1 .. n
               PROVE  Reads1(v[i], d[i - 1], s[i - 1], d[i], s[i])
    OBVIOUS
  <2>1. d[i - 1] = c[i - 1] /\ s[i - 1] = r[i - 1] /\ d[i] = c[i] /\ s[i] = r[i]
    BY <1>2
  <2>2. QED
    BY <1>1, <1>2, <2>1
<1>6. \A i, j \in 0 .. n : i <= j => d[i] <= d[j]
  BY <1>1, <1>2
<1>7. Stream(v, c0, r0, d[n], s[n])
  <2> HIDE DEF d, s
  <2>1. QED
    BY <1>3, <1>4, <1>5, <1>6 DEF Stream
<1>8. QED
  BY <1>4, <1>7

\* One stream after another.
LEMMA StreamConcat ==
    ASSUME NEW v \in Seq(Messages), NEW w \in Seq(Messages),
           NEW c0 \in Nat, NEW r0 \in Nat, NEW c1 \in Nat, NEW r1 \in Nat,
           NEW c2 \in Nat, NEW r2 \in Nat,
           Stream(v, c0, r0, c1, r1), Stream(w, c1, r1, c2, r2)
    PROVE  Stream(v \o w, c0, r0, c2, r2)
<1>1. PICK c, r \in [0 .. Len(v) -> Nat] :
        /\ c[0] = c0 /\ r[0] = r0 /\ c[Len(v)] = c1 /\ r[Len(v)] = r1
        /\ \A i \in 1 .. Len(v) : Reads1(v[i], c[i - 1], r[i - 1], c[i], r[i])
        /\ \A i, j \in 0 .. Len(v) : i <= j => c[i] <= c[j]
  BY DEF Stream
<1>2. PICK a, b \in [0 .. Len(w) -> Nat] :
        /\ a[0] = c1 /\ b[0] = r1 /\ a[Len(w)] = c2 /\ b[Len(w)] = r2
        /\ \A i \in 1 .. Len(w) : Reads1(w[i], a[i - 1], b[i - 1], a[i], b[i])
        /\ \A i, j \in 0 .. Len(w) : i <= j => a[i] <= a[j]
  BY DEF Stream
<1> DEFINE m == Len(v)
           n == Len(v) + Len(w)
           d == [i \in 0 .. n |-> IF i <= m THEN c[i] ELSE a[i - m]]
           s == [i \in 0 .. n |-> IF i <= m THEN r[i] ELSE b[i - m]]
<1>3. /\ m \in Nat /\ Len(w) \in Nat /\ Len(v \o w) = n
      /\ \A i \in 1 .. m : (v \o w)[i] = v[i]
      /\ \A i \in m + 1 .. n : (v \o w)[i] = w[i - m]
  OBVIOUS
<1>4. \A i \in 0 .. n : IF i <= m THEN i \in 0 .. Len(v) ELSE i - m \in 0 .. Len(w)
  BY <1>3
<1>d. d \in [0 .. n -> Nat] /\ s \in [0 .. n -> Nat]
  <2>1. \A i \in 0 .. n : /\ (IF i <= m THEN c[i] ELSE a[i - m]) \in Nat
                          /\ (IF i <= m THEN r[i] ELSE b[i - m]) \in Nat
    BY <1>4
  <2>2. QED
    BY <2>1
<1>5. \A i \in m .. n : d[i] = a[i - m] /\ s[i] = b[i - m]
  BY <1>1, <1>2, <1>3
<1>6. d[0] = c0 /\ s[0] = r0 /\ d[n] = c2 /\ s[n] = r2
  <2>1. d[0] = c[0] /\ s[0] = r[0]
    BY <1>3
  <2>2. n \in m .. n /\ n - m = Len(w)
    BY <1>3
  <2>3. d[n] = a[Len(w)] /\ s[n] = b[Len(w)]
    <3> HIDE DEF d, s, m, n
    <3>1. QED
      BY <1>5, <2>2
  <2>4. QED
    BY <1>1, <1>2, <2>1, <2>3
<1>7. \A i \in 1 .. n : Reads1((v \o w)[i], d[i - 1], s[i - 1], d[i], s[i])
  <2> SUFFICES ASSUME NEW i \in 1 .. n
               PROVE  Reads1((v \o w)[i], d[i - 1], s[i - 1], d[i], s[i])
    OBVIOUS
  <2>1. CASE i <= m
    <3>1. /\ d[i - 1] = c[i - 1] /\ s[i - 1] = r[i - 1] /\ d[i] = c[i] /\ s[i] = r[i]
          /\ (v \o w)[i] = v[i] /\ i \in 1 .. Len(v)
      BY <1>3, <2>1
    <3>2. QED
      BY <1>1, <3>1
  <2>2. CASE i > m
    <3>1. i - 1 \in m .. n /\ i \in m .. n /\ i - m \in 1 .. Len(w) /\ (i - 1) - m = (i - m) - 1
      BY <1>3, <2>2
    <3>2. /\ d[i - 1] = a[(i - m) - 1] /\ s[i - 1] = b[(i - m) - 1]
          /\ d[i] = a[i - m] /\ s[i] = b[i - m] /\ (v \o w)[i] = w[i - m]
      <4>1. i \in m + 1 .. n
        BY <1>3, <2>2
      <4> HIDE DEF d, s, m, n
      <4>2. QED
        BY <1>3, <1>5, <3>1, <4>1
    <3>3. QED
      <4> HIDE DEF d, s, m
      <4>1. QED
        BY <1>2, <3>1, <3>2
  <2>3. QED
    BY <1>3, <2>1, <2>2, SMTT(30)
<1>8. \A i, j \in 0 .. n : i <= j => d[i] <= d[j]
  <2> SUFFICES ASSUME NEW i \in 0 .. n, NEW j \in 0 .. n, i <= j PROVE d[i] <= d[j]
    OBVIOUS
  <2>1. CASE j <= m
    BY <1>1, <1>3, <2>1
  <2>2. CASE i > m
    <3>1. d[i] = a[i - m] /\ d[j] = a[j - m] /\ i - m \in 0 .. Len(w) /\ j - m \in 0 .. Len(w)
      BY <1>3, <2>2
    <3>2. i - m <= j - m
      BY <1>3
    <3>3. QED
      BY <1>2, <3>1, <3>2
  <2>3. CASE i <= m /\ j > m
    <3>i. i \in 0 .. Len(v) /\ Len(v) \in 0 .. Len(v) /\ j - m \in 0 .. Len(w)
      BY <1>3, <2>3
    <3>1. d[i] = c[i] /\ c[i] \in Nat /\ c[i] <= c1
      BY <1>1, <2>3, <3>i
    <3>2. d[j] = a[j - m] /\ a[j - m] \in Nat
      <4>1. ~(j <= m)
        BY <1>3, <2>3
      <4>2. d[j] = a[j - m]
        BY <4>1
      <4>3. QED
        BY <3>i, <4>2
    <3>3. c1 <= a[j - m]
      BY <1>2, <3>i
    <3>4. QED
      BY <3>1, <3>2, <3>3
  <2>4. QED
    BY <1>3, <2>1, <2>2, <2>3
<1> HIDE DEF d, s, m, n
<1>9. QED
  BY <1>3, <1>d, <1>6, <1>7, <1>8 DEF Stream

\* A record whose units follow on.
LEMMA StreamRecord ==
    ASSUME NEW p \in Seq(Messages), p # << >>, NEW c0 \in Nat, UnitsAfter(p, c0)
    PROVE  Stream(<< Header(Len(p)) >> \o p, c0, 0, c0 + Len(p), 0)
<1> DEFINE n == Len(p)
           w == << Header(n) >> \o p
           c == [i \in 0 .. n + 1 |-> IF i = 0 THEN c0 ELSE c0 + i - 1]
           r == [i \in 0 .. n + 1 |-> IF i = 0 THEN 0 ELSE n + 1 - i]
<1>1. /\ n \in Nat \ {0} /\ Len(w) = n + 1 /\ w[1] = Header(n)
      /\ \A i \in 2 .. n + 1 : w[i] = p[i - 1]
  OBVIOUS
<1>2. c \in [0 .. n + 1 -> Nat] /\ r \in [0 .. n + 1 -> Nat]
  BY <1>1
<1>3. c[0] = c0 /\ r[0] = 0 /\ c[n + 1] = c0 + n /\ r[n + 1] = 0
  BY <1>1
<1>4. \A i \in 1 .. n + 1 : Reads1(w[i], c[i - 1], r[i - 1], c[i], r[i])
  <2> SUFFICES ASSUME NEW i \in 1 .. n + 1
               PROVE  Reads1(w[i], c[i - 1], r[i - 1], c[i], r[i])
    OBVIOUS
  <2>1. CASE i = 1
    <3>1. c[i - 1] = c0 /\ r[i - 1] = 0 /\ c[i] = c0 /\ r[i] = n /\ w[i] = Header(n) /\ n > 0
      BY <1>1, <2>1
    <3>2. QED
      BY <3>1 DEF Reads1
  <2>2. CASE i # 1
    <3>1. /\ c[i - 1] = c0 + i - 2 /\ r[i - 1] = n + 2 - i /\ c[i] = c0 + i - 1
          /\ r[i] = n + 1 - i /\ w[i] = p[i - 1] /\ i - 1 \in 1 .. n
      BY <1>1, <2>2
    <3>2. p[i - 1] = Unit((c0 + i - 2) + 1)
      <4>1. p[i - 1] = Unit(c0 + (i - 1)) /\ c0 + (i - 1) = (c0 + i - 2) + 1
        BY <3>1 DEF UnitsAfter
      <4>2. QED
        BY <4>1
    <3>3. c0 + i - 1 = (c0 + i - 2) + 1 /\ n + 1 - i = (n + 2 - i) - 1 /\ n + 2 - i # 0
      BY <1>1, <3>1
    <3> HIDE DEF c, r, w, n
    <3>4. QED
      BY <3>1, <3>2, <3>3 DEF Reads1
  <2>3. QED
    BY <2>1, <2>2
<1>5. \A i, j \in 0 .. n + 1 : i <= j => c[i] <= c[j]
  BY <1>1
<1> HIDE DEF c, r
<1>6. Stream(w, c0, 0, c0 + n, 0)
  <2> HIDE DEF w, n
  <2>1. QED
    BY <1>1, <1>2, <1>3, <1>4, <1>5 DEF Stream
<1>7. QED
  BY <1>6

\* The reader thread and main: data in the socket pair keeps the thread waiting,
\* so that it ends, and main with it, only when the pair is empty.
Handshake ==
    /\ main # "gone" /\ pair # << >> => reader = "wait" /\ ~woken
    /\ woken => reader = "wait"
    /\ "usb" \in ready => main = "poll" /\ pair # << >>
    /\ main = "poll" => pbuf = << >>
    /\ main = "forward" => pbuf # << >>
    /\ conn = "down" => main = "gone" /\ pair = << >> /\ pbuf = << >>
    /\ Open => main # "gone"

Forwarding == IF main = "forward" THEN pbuf ELSE << >>
Inbound == s2c \o Forwarding

\* From the module.  While the connection is open, what the host has, what is
\* under way, and what the server and the module hold make up what was sent;
\* what the host has or will find is always the beginning of it.
InWhole ==
    \E c1 \in Nat :
        /\ Stream(Inbound, Len(hostGot), want + tlvLen, c1, 0)
        /\ UnitsAfter(pair, c1) /\ UnitsAfter(inEp, c1 + Len(pair))
        /\ c1 + Len(pair) + Len(inEp) = Len(devSent)

InFar ==
    \E c1, r1 \in Nat :
        /\ Stream(s2c, Len(hostGot), want + tlvLen, c1, r1)
        /\ c1 <= Len(devSent)

InInv ==
    /\ UnitsAfter(devSent, 0)
    /\ ~inCut => /\ UnitsAfter(hostGot, 0) /\ Len(hostGot) <= Len(devSent)
                 /\ Open => InWhole
                 /\ InFar

Body == IF main = "body" THEN pbuf ELSE << >>
Due  == IF main = "body" THEN expect ELSE 0
Arrived == Len(devGot) + Len(Body)

\* What the host has still to send of the record it is writing.
Unsent == IF wplace = "body" THEN wleft ELSE 0

\* To the module: what it has, with the body the server holds, and what is under
\* way is what was sent, all of it while the connection is open.
OutFar ==
    \E c1, r1 \in Nat :
        /\ Stream(c2s, Arrived, Due, c1, r1) /\ c1 <= Len(hostSent)
        /\ Open => c1 = Len(hostSent) /\ r1 = Unsent

OutInv ==
    /\ UnitsAfter(hostSent, 0)
    /\ ~outCut => /\ UnitsAfter(devGot, 0) /\ UnitsAfter(Body, Len(devGot))
                  /\ Arrived <= Len(hostSent)
                  /\ main # "gone" => OutFar

IInv == TypeOK /\ Handshake /\ InInv /\ OutInv

-----------------------------------------------------------------------------
(* Types.                                                                  *)

LEMMA TypeInit == Init => TypeOK
<1>1. 0 \in Nat /\ << >> \in Seq(Messages) /\ Len(Writes) \in Nat
  BY UsbTcpAssumption
<1>2. NoCall \in [max : Nat, min : Nat]
  BY DEF NoCall
<1> SUFFICES ASSUME Init PROVE TypeOK
  OBVIOUS
<1>3. wcalls \in Nat /\ wcalls <= Len(Writes)
  BY <1>1 DEF Init
<1>4. /\ call \in [max : Nat, min : Nat] /\ cur \in Nat /\ tlvLen \in Nat /\ want \in Nat
      /\ call = NoCall /\ want = 0
  BY <1>1, <1>2 DEF Init
<1>5. QED
  BY <1>1, <1>3, <1>4 DEF Init, TypeOK

LEMMA Typed == \A n \in Nat : Header(n) \in Messages /\ Unit(n) \in Messages
BY DEF Header, Unit, Messages

LEMMA LeastIs ==
    ASSUME NEW a \in Nat, NEW b \in Nat
    PROVE  Least(a, b) \in Nat /\ Least(a, b) <= a /\ Least(a, b) <= b
BY DEF Least

LEMMA TypeNext ==
    ASSUME TypeOK, Handshake, [Next]_vars PROVE TypeOK'
<1> USE DEF device, thread, server, net, hread, hwrite
<1>1. CASE DevSend
  <2>1. Len(devSent) + 1 \in Nat
    BY DEF TypeOK
  <2>2. QED
    BY <1>1, <2>1, Typed DEF DevSend, TypeOK
<1>2. CASE ReadUsb
  <2>1. PICK n \in 1 .. Least(MaxIn, Len(inEp)) :
          pair' = pair \o SubSeq(inEp, 1, n) /\ inEp' = SubSeq(inEp, n + 1, Len(inEp))
    BY <1>2 DEF ReadUsb
  <2>2. Len(inEp) \in Nat /\ Least(MaxIn, Len(inEp)) <= Len(inEp) /\ Least(MaxIn, Len(inEp)) \in Nat
    BY UsbTcpAssumption, LeastIs DEF TypeOK
  <2>3. n \in 1 .. Len(inEp)
    BY <2>2
  <2>4. SubSeq(inEp, 1, n) \in Seq(Messages) /\ SubSeq(inEp, n + 1, Len(inEp)) \in Seq(Messages)
    BY <2>3, SplitSizes DEF TypeOK
  <2>5. pair' \in Seq(Messages)
    BY <2>1, <2>4 DEF TypeOK
  <2>6. QED
    BY <1>2, <2>4, <2>5, SMTT(30) DEF ReadUsb, TypeOK
<1>3. CASE Wake \/ ReaderExit \/ Poll \/ Hangup \/ ReadTimeout \/ WriteTimeout \/ Close
  <2>1. CASE Wake
    BY <2>1, ZenonT(30) DEF Wake, TypeOK
  <2>2. CASE ReaderExit
    BY <2>2 DEF ReaderExit, TypeOK
  <2>3. CASE Poll
    BY <2>3 DEF Poll, Readable, TypeOK
  <2>4. CASE Hangup
    BY <2>4 DEF Hangup, TypeOK, Open
  <2>5. CASE ReadTimeout
    BY <2>5 DEF ReadTimeout, ReadReturns, TypeOK, NoCall
  <2>6. CASE WriteTimeout
    BY <2>6 DEF WriteTimeout, WriteUnchanged, TypeOK
  <2>7. CASE Close
    <3>1. << >> \in Seq(Messages)
      OBVIOUS
    <3>2. QED
      BY <2>7, <3>1 DEF Close, TypeOK
  <2>8. QED
    BY <1>3, <2>1, <2>2, <2>3, <2>4, <2>5, <2>6, <2>7
<1>4. CASE FromUsb
  <2>1. << Header(Len(pair)) >> \o pair \in Seq(Messages)
    BY Typed DEF TypeOK
  <2>2. QED
    BY <1>4, <2>1 DEF FromUsb, TypeOK
<1>5. CASE Forward
  <2>1. pbuf # << >> => Head(pbuf) \in Messages /\ Tail(pbuf) \in Seq(Messages)
    BY DEF TypeOK
  <2>2. main = "forward" => pbuf # << >>
    BY DEF Handshake
  <2>3. << >> \in Seq(Messages) /\ s2c' \in Seq(Messages)
    <3>1. s2c \in Seq(Messages) /\ Head(pbuf) \in Messages
      BY <1>5, <2>1, <2>2 DEF Forward, TypeOK
    <3>2. Append(s2c, Head(pbuf)) \in Seq(Messages) /\ << >> \in Seq(Messages)
      BY <3>1
    <3>3. s2c' \in {s2c, Append(s2c, Head(pbuf))}
      BY <1>5 DEF Forward
    <3>4. QED
      BY <3>1, <3>2, <3>3
  <2>4. c2s' \in Seq(Messages) /\ conn' \in {"open", "fin", "reset", "down"}
    BY <1>5, <2>3 DEF Forward, TypeOK
  <2>5. pbuf' \in Seq(Messages) /\ main' \in {"poll", "forward", "body", "gone"}
    BY <1>5, <2>1, <2>2 DEF Forward
  <2>6. UNCHANGED <<faults, device, thread, ready, expect, hread, hwrite>>
    BY <1>5 DEF Forward
  <2>7. QED
    BY <2>3, <2>4, <2>5, <2>6 DEF TypeOK
<1>6. CASE FromClient \/ TakeBody
  <2>1. c2s # << >> /\ Head(c2s) \in Messages /\ Tail(c2s) \in Seq(Messages)
    BY <1>6, SMTT(30) DEF FromClient, TakeBody, TypeOK
  <2>2. Head(c2s).n \in Nat
    BY <2>1 DEF Messages
  <2>3. CASE FromClient
    <3>1. c2s' \in Seq(Messages) /\ ready' = {}
      BY <2>1, <2>3 DEF FromClient
    <3>2. main' \in {"poll", "body"} /\ expect' \in Nat
      BY <2>2, <2>3 DEF FromClient, TypeOK
    <3>3. UNCHANGED <<faults, device, thread, pbuf, s2c, conn, hread, hwrite>>
      BY <2>3 DEF FromClient
    <3>4. QED
      BY <3>1, <3>2, <3>3 DEF TypeOK
  <2>4. CASE TakeBody
    <3>1. expect - 1 \in Nat /\ Append(pbuf, Head(c2s)) \in Seq(Messages)
      BY <2>1, <2>4 DEF TakeBody, TypeOK
    <3>2. QED
      BY <2>1, <2>4, <3>1 DEF TakeBody, TypeOK
  <2>5. QED
    BY <1>6, <2>3, <2>4
<1>7. CASE ToUsb
  BY <1>7 DEF ToUsb, TypeOK
<1>8. CASE ReadBegin
  <2>1. call' \in [max : Nat \ {0}, min : Nat \ {0}]
    BY <1>8, UsbTcpAssumption DEF ReadBegin
  <2>2. call' \in [max : Nat, min : Nat] /\ call' # NoCall /\ call'.max \in Nat
    BY <2>1 DEF NoCall
  <2>3. cur' = 0 /\ want' = 0
    BY <1>8 DEF ReadBegin, TypeOK
  <2>4. QED
    BY <1>8, <2>2, <2>3 DEF ReadBegin, TypeOK
<1>9. CASE FromRecord \/ NoHeader \/ TakeUnit
  <2>1. s2c # << >> /\ Head(s2c) \in Messages /\ Tail(s2c) \in Seq(Messages)
    BY <1>9, SMTT(30) DEF FromRecord, NoHeader, TakeUnit, TypeOK
  <2>2. Head(s2c).n \in Nat
    BY <2>1 DEF Messages
  <2>3. CASE FromRecord
    <3> DEFINE left == IF tlvLen = 0 THEN Head(s2c).n ELSE tlvLen
    <3>1. left \in Nat
      BY <2>2 DEF TypeOK
    <3>2. call.max \in Nat /\ call.max - cur \in Nat
      BY <2>3, SMTT(30) DEF FromRecord, TypeOK
    <3>3. want' = Least(call.max - cur, left) /\ tlvLen' = left - want'
      BY <2>3 DEF FromRecord
    <3> HIDE DEF left
    <3>4. want' \in Nat /\ want' <= call.max - cur /\ want' <= left
      BY <3>1, <3>2, <3>3, LeastIs
    <3>5. tlvLen' \in Nat
      BY <3>1, <3>3, <3>4
    <3>6. cur + want' <= call.max
      BY <3>2, <3>4, SMTT(30) DEF TypeOK
    <3>7. s2c' \in Seq(Messages) /\ UNCHANGED <<faults, device, thread, server, c2s, conn, call,
                                                  hwrite, cur, hostGot, inCut>>
      BY <2>1, <2>3 DEF FromRecord, ReadUnchanged, TypeOK
    <3>8. call # NoCall
      BY <2>3 DEF FromRecord
    <3>9. QED
      BY <3>4, <3>5, <3>6, <3>7, <3>8 DEF TypeOK
  <2>4. CASE NoHeader
    BY <2>1, <2>4 DEF NoHeader, ReadReturns, TypeOK, NoCall
  <2>5. CASE TakeUnit
    <3>1. want' = want - 1 /\ want' \in Nat /\ cur' = cur + 1 /\ cur' \in Nat
      BY <2>5 DEF TakeUnit, TypeOK
    <3>2. hostGot' \in Seq(Messages) /\ s2c' \in Seq(Messages)
      BY <2>1, <2>5 DEF TakeUnit, TypeOK
    <3>3. call' \in {call, NoCall} /\ call # NoCall /\ (call' = NoCall => want = 1)
      BY <2>5, SMTT(30) DEF TakeUnit, TypeOK, ReadReturns
    <3>4. call' = NoCall => want' = 0
      BY <3>1, <3>3
    <3>5. cur' + want' = cur + want
      BY <3>1 DEF TypeOK
    <3>6. call' = call => cur' + want' <= call'.max
      BY <3>3, <3>5 DEF TypeOK
    <3>7. call' \in [max : Nat, min : Nat]
      BY <3>3 DEF TypeOK, NoCall
    <3>8. QED
      BY <2>5, <3>1, <3>2, <3>3, <3>4, <3>6, <3>7, SMTT(30) DEF TakeUnit, TypeOK
  <2>6. QED
    BY <1>9, <2>3, <2>4, <2>5
<1>10. CASE WriteBegin
  <2>1. wcalls + 1 \in 1 .. Len(Writes)
    BY <1>10, UsbTcpAssumption DEF WriteBegin, TypeOK
  <2>2. Writes[wcalls + 1] \in Nat \ {0}
    BY <2>1, UsbTcpAssumption
  <2>3. QED
    BY <1>10, <2>1, <2>2, UsbTcpAssumption, SMTT(30) DEF WriteBegin, WriteUnchanged, TypeOK
<1>11. CASE WriteHeader
  BY <1>11, Typed, SMTT(30) DEF WriteHeader, WriteUnchanged, TypeOK
<1>12. CASE WriteUnit
  <2>1. Len(hostSent) + 1 \in Nat
    BY DEF TypeOK
  <2>2. c2s' \in Seq(Messages) /\ hostSent' \in Seq(Messages)
    BY <1>12, <2>1, Typed DEF WriteUnit, TypeOK
  <2>3. wleft' \in Nat /\ (wleft # 1 => wleft' > 0)
    BY <1>12 DEF WriteUnit, TypeOK
  <2>4. QED
    BY <1>12, <2>2, <2>3 DEF WriteUnit, WriteUnchanged, TypeOK
<1>13. CASE UNCHANGED vars
  BY <1>13 DEF vars, TypeOK
<1>14. QED
  BY <1>1, <1>2, <1>3, <1>4, <1>5, <1>6, <1>7, <1>8, <1>9, <1>10, <1>11, <1>12, <1>13
     DEF Next, Reader, Main, HostReads, HostWrites, Ended

-----------------------------------------------------------------------------
(* The reader thread and main.                                             *)

LEMMA HandshakeNext ==
    ASSUME TypeOK, TypeOK', Handshake, [Next]_vars PROVE Handshake'
<1> USE DEF device, thread, server, net, hread, hwrite, Handshake
<1>1. CASE DevSend \/ HostReads \/ HostWrites \/ UNCHANGED vars
  <2>1. UNCHANGED <<thread, main, ready, pbuf, conn>>
    BY <1>1 DEF vars, DevSend, HostReads, ReadBegin, FromRecord, NoHeader, TakeUnit, ReadTimeout,
       HostWrites, WriteBegin, WriteHeader, WriteUnit, WriteTimeout, ReadUnchanged, WriteUnchanged
  <2>2. QED
    BY <2>1 DEF Open
<1>2. CASE ReadUsb
  BY <1>2 DEF ReadUsb, Open
<1>3. CASE Wake
  <2>1. main # "gone" => pair = << >>
    BY <1>3 DEF Wake
  <2>2. QED
    BY <1>3, <2>1 DEF Wake, Open
<1>4. CASE ReaderExit
  BY <1>4 DEF ReaderExit, Open
<1>5. CASE Poll
  BY <1>5 DEF Poll, Readable, Open
<1>6. CASE Hangup
  <2>1. Open => main = "poll" /\ reader = "gone"
    BY <1>6 DEF Hangup, Open
  <2>2. Open => pair = << >> /\ pbuf = << >>
    BY <2>1
  <2>3. QED
    BY <1>6, <2>2 DEF Hangup, Open
<1>7. CASE FromUsb
  <2>1. << Header(Len(pair)) >> \o pair # << >>
    BY DEF TypeOK, Messages, Header
  <2>2. QED
    BY <1>7, <2>1 DEF FromUsb, Open
<1>8. CASE Forward
  <2>1. pbuf # << >> /\ (Len(pbuf) = 1 <=> Tail(pbuf) = << >>)
    <3>1. pbuf \in Seq(Messages) /\ pbuf # << >>
      BY <1>8 DEF Forward, TypeOK
    <3>2. Len(pbuf) \in Nat \ {0} /\ Tail(pbuf) \in Seq(Messages) /\ Len(Tail(pbuf)) = Len(pbuf) - 1
      BY <3>1
    <3>3. Tail(pbuf) = << >> <=> Len(Tail(pbuf)) = 0
      BY <3>2, EmptySeq
    <3>4. QED
      BY <3>1, <3>2, <3>3
  <2>2. QED
    BY <1>8, <2>1 DEF Forward, Open
<1>9. CASE FromClient \/ TakeBody \/ ToUsb
  BY <1>9 DEF FromClient, TakeBody, ToUsb, Open
<1>10. CASE Close
  BY <1>10 DEF Close, Open
<1>11. QED
  BY <1>1, <1>2, <1>3, <1>4, <1>5, <1>6, <1>7, <1>8, <1>9, <1>10 DEF Next, Reader, Main, Ended

-----------------------------------------------------------------------------
(* From the module.                                                        *)

LEMMA Lengths ==
    ASSUME TypeOK
    PROVE  /\ Len(devSent) \in Nat /\ Len(inEp) \in Nat /\ Len(devGot) \in Nat
           /\ Len(pair) \in Nat /\ Len(pbuf) \in Nat /\ Len(s2c) \in Nat
           /\ Len(hostGot) \in Nat /\ Len(hostSent) \in Nat /\ want + tlvLen \in Nat
           /\ Forwarding \in Seq(Messages) /\ Inbound \in Seq(Messages)
           /\ Body \in Seq(Messages) /\ Len(Body) \in Nat /\ Due \in Nat /\ Arrived \in Nat
BY DEF TypeOK, Forwarding, Inbound, Body, Due, Arrived

LEMMA InInit == Init => InInv
<1> SUFFICES ASSUME Init PROVE InInv
  OBVIOUS
<1>1. Len(<< >>) = 0 /\ << >> \in Seq(Messages)
  OBVIOUS
<1>2. Inbound = << >>
  BY <1>1 DEF Init, Inbound, Forwarding
<1>3. want + tlvLen = 0 /\ Len(hostGot) = 0 /\ Len(devSent) = 0 /\ Len(pair) = 0 /\ Len(inEp) = 0
  BY <1>1 DEF Init
<1>4. UnitsAfter(devSent, 0) /\ UnitsAfter(hostGot, 0) /\ UnitsAfter(pair, 0) /\ UnitsAfter(inEp, 0)
  BY <1>3 DEF UnitsAfter
<1>5. Stream(Inbound, 0, 0, 0, 0) /\ Stream(s2c, 0, 0, 0, 0)
  BY <1>2, StreamEmpty DEF Init
<1>6. InWhole
  BY <1>3, <1>4, <1>5 DEF InWhole
<1>7. InFar
  BY <1>3, <1>5 DEF InFar
<1>8. QED
  BY <1>3, <1>4, <1>6, <1>7 DEF InInv

LEMMA TailConcat ==
    ASSUME NEW v \in Seq(Messages), NEW w \in Seq(Messages), v # << >>
    PROVE  Tail(v \o w) = Tail(v) \o w
<1> DEFINE a == Tail(v \o w)
           b == Tail(v) \o w
<1>1. /\ Len(v) \in Nat \ {0} /\ Tail(v) \in Seq(Messages) /\ Len(Tail(v)) = Len(v) - 1
      /\ v \o w \in Seq(Messages) /\ Len(v \o w) = Len(v) + Len(w) /\ Len(w) \in Nat
  OBVIOUS
<1>2. v \o w # << >>
  BY <1>1
<1>3. /\ a \in Seq(Messages) /\ Len(a) = Len(v) + Len(w) - 1
      /\ b \in Seq(Messages) /\ Len(b) = Len(v) - 1 + Len(w)
  BY <1>1, <1>2
<1>4. \A i \in 1 .. Len(v) + Len(w) - 1 : a[i] = b[i]
  <2> SUFFICES ASSUME NEW i \in 1 .. Len(v) + Len(w) - 1 PROVE a[i] = b[i]
    OBVIOUS
  <2>1. a[i] = (v \o w)[i + 1]
    BY <1>1, <1>2, <1>3
  <2>2. CASE i <= Len(v) - 1
    <3>1. (v \o w)[i + 1] = v[i + 1] /\ b[i] = Tail(v)[i]
      BY <1>1, <2>2
    <3>2. Tail(v)[i] = v[i + 1]
      BY <1>1, <2>2
    <3>3. QED
      BY <2>1, <3>1, <3>2
  <2>3. CASE i > Len(v) - 1
    <3>1. (v \o w)[i + 1] = w[i + 1 - Len(v)] /\ b[i] = w[i - (Len(v) - 1)]
      BY <1>1, <2>3
    <3>2. i + 1 - Len(v) = i - (Len(v) - 1)
      BY <1>1
    <3>3. QED
      BY <2>1, <3>1, <3>2
  <2>4. QED
    BY <1>1, <2>2, <2>3
<1> HIDE DEF a, b
<1>5. a = b
  BY <1>1, <1>3, <1>4, SeqEqual
<1>6. QED
  BY <1>5 DEF a, b

\* The host takes the first element of what is under way.
LEMMA InTakes ==
    ASSUME TypeOK, InInv, ~inCut, s2c # << >>, s2c' = Tail(s2c),
           UNCHANGED <<devSent, inEp, pair, conn, Forwarding>>,
           (want + tlvLen)' \in Nat, Len(hostGot)' \in Nat,
           \A c2, r2 \in Nat :
              Reads1(Head(s2c), Len(hostGot), want + tlvLen, c2, r2)
                 => c2 = Len(hostGot)' /\ r2 = (want + tlvLen)'
    PROVE  (Open => InWhole)' /\ InFar' /\ Len(hostGot)' <= Len(devSent)'
<1> USE Lengths
<1>1. InFar' /\ Len(hostGot)' <= Len(devSent)'
  <2>1. PICK c1, r1 \in Nat :
          Stream(s2c, Len(hostGot), want + tlvLen, c1, r1) /\ c1 <= Len(devSent)
    BY DEF InInv, InFar
  <2>2. s2c \in Seq(Messages)
    BY DEF TypeOK
  <2>3. PICK c2, r2 \in Nat :
          /\ Reads1(Head(s2c), Len(hostGot), want + tlvLen, c2, r2) /\ c2 <= c1
          /\ Stream(Tail(s2c), c2, r2, c1, r1)
    BY <2>1, <2>2, StreamTail
  <2>4. c2 = Len(hostGot)' /\ r2 = (want + tlvLen)'
    BY <2>3
  <2>5. Stream(s2c', Len(hostGot)', (want + tlvLen)', c1, r1)
    BY <2>3, <2>4
  <2>6. c1 <= Len(devSent)' /\ Len(hostGot)' <= Len(devSent)'
    BY <2>1, <2>3, <2>4
  <2>7. QED
    BY <2>5, <2>6 DEF InFar
<1>2. ASSUME Open PROVE InWhole'
  <2>1. PICK c1 \in Nat :
          /\ Stream(Inbound, Len(hostGot), want + tlvLen, c1, 0)
          /\ UnitsAfter(pair, c1) /\ UnitsAfter(inEp, c1 + Len(pair))
          /\ c1 + Len(pair) + Len(inEp) = Len(devSent)
    BY <1>2 DEF InInv, InWhole
  <2>2. Inbound # << >> /\ Head(Inbound) = Head(s2c) /\ Tail(Inbound) = Inbound'
    <3>1. s2c \in Seq(Messages) /\ Forwarding \in Seq(Messages) /\ Inbound = s2c \o Forwarding
      BY DEF TypeOK, Inbound
    <3>2. Inbound' = Tail(s2c) \o Forwarding
      BY DEF Inbound
    <3>3. Tail(s2c \o Forwarding) = Tail(s2c) \o Forwarding
      BY <3>1, TailConcat
    <3>4. s2c \o Forwarding # << >> /\ Head(s2c \o Forwarding) = Head(s2c)
      BY <3>1
    <3>5. QED
      BY <3>1, <3>2, <3>3, <3>4
  <2>3. PICK c2, r2 \in Nat :
          /\ Reads1(Head(Inbound), Len(hostGot), want + tlvLen, c2, r2) /\ c2 <= c1
          /\ Stream(Tail(Inbound), c2, r2, c1, 0)
    BY <2>1, <2>2, StreamTail
  <2>4. c2 = Len(hostGot)' /\ r2 = (want + tlvLen)'
    BY <2>2, <2>3
  <2>5. Stream(Inbound', Len(hostGot)', (want + tlvLen)', c1, 0)
    BY <2>2, <2>3, <2>4
  <2>6. QED
    BY <2>1, <2>5 DEF InWhole
<1>3. QED
  BY <1>1, <1>2 DEF Open

\* The server sends, or loses, the first element of its buffer.
LEMMA Forwards ==
    ASSUME TypeOK, Handshake, Open, Forward
    PROVE  Inbound' = Inbound /\ Inbound' = s2c' \o Forwarding'
<1>1. /\ main = "forward" /\ s2c' = Append(s2c, Head(pbuf)) /\ pbuf' = Tail(pbuf)
      /\ main' = IF Len(pbuf) = 1 THEN "poll" ELSE "forward"
  BY DEF Forward
<1>2. pbuf \in Seq(Messages) /\ pbuf # << >> /\ s2c \in Seq(Messages)
  BY <1>1 DEF TypeOK, Handshake
<1>3. Len(pbuf) = 1 => Tail(pbuf) = << >>
  <2>1. Tail(pbuf) \in Seq(Messages) /\ Len(Tail(pbuf)) = Len(pbuf) - 1 /\ Len(pbuf) \in Nat
    BY <1>2
  <2>2. Tail(pbuf) # << >> => Len(Tail(pbuf)) \in Nat \ {0}
    BY <2>1, EmptySeq
  <2>3. QED
    BY <2>1, <2>2
<1>4. Forwarding' = Tail(pbuf) /\ Forwarding = pbuf
  BY <1>1, <1>3 DEF Forwarding
<1>5. Append(s2c, Head(pbuf)) \o Tail(pbuf) = s2c \o pbuf
  <2>1. Head(pbuf) \in Messages /\ Tail(pbuf) \in Seq(Messages) /\ << Head(pbuf) >> \in Seq(Messages)
    BY <1>2
  <2>2. Append(s2c, Head(pbuf)) = s2c \o << Head(pbuf) >>
    BY <1>2, <2>1, AppendIsConcat
  <2>3. << Head(pbuf) >> \o Tail(pbuf) = pbuf
    BY <1>2, <2>1
  <2>4. (s2c \o << Head(pbuf) >>) \o Tail(pbuf) = s2c \o (<< Head(pbuf) >> \o Tail(pbuf))
    BY <1>2, <2>1, ConcatAssociative
  <2>5. QED
    BY <2>2, <2>3, <2>4
<1>6. QED
  BY <1>1, <1>4, <1>5 DEF Inbound

InStill == UNCHANGED <<devSent, inEp, pair, s2c, conn, Forwarding, hostGot, want + tlvLen>>

LEMMA InNext ==
    ASSUME TypeOK, TypeOK', Handshake, InInv, [Next]_vars PROVE InInv'
<1> USE DEF device, thread, server, net, hread, hwrite
<1> /\ Len(devSent) \in Nat /\ Len(inEp) \in Nat /\ Len(pair) \in Nat /\ Len(hostGot) \in Nat
    /\ want + tlvLen \in Nat
  BY Lengths
<1> DEFINE Half == ~inCut' => /\ UnitsAfter(hostGot, 0)' /\ Len(hostGot)' <= Len(devSent)'
                              /\ (Open => InWhole)' /\ InFar'
<1>s. devSent' = devSent /\ Half => InInv'
  BY DEF InInv
<1>c. ~inCut' => ~inCut
  BY DEF vars, TypeOK, Next, DevSend, Reader, ReadUsb, Wake, ReaderExit, Main, Poll, Hangup,
     FromUsb, Forward, FromClient, TakeBody, ToUsb, HostReads, ReadBegin, FromRecord, NoHeader,
     TakeUnit, ReadTimeout, HostWrites, WriteBegin, WriteHeader, WriteUnit, WriteTimeout,
     Close, Ended, ReadUnchanged, WriteUnchanged
<1>t. InStill /\ (~inCut' => ~inCut) => InInv'
  <2> SUFFICES ASSUME InStill, ~inCut' => ~inCut PROVE InInv'
    OBVIOUS
  <2>1. Inbound' = Inbound
    BY DEF InStill, Inbound
  <2>2. InFar => InFar'
    BY DEF InStill, InFar
  <2>3. InWhole => InWhole'
    BY <2>1 DEF InStill, InWhole
  <2>4. QED
    BY <2>2, <2>3 DEF InStill, InInv, Open
<1>1. CASE Wake \/ ReaderExit \/ Poll \/ FromClient \/ TakeBody \/ ToUsb \/ ReadBegin
           \/ HostWrites \/ UNCHANGED vars
  <2>1. InStill
    BY <1>1 DEF InStill, Forwarding, vars, Wake, ReaderExit, Poll, FromClient, TakeBody, ToUsb,
       ReadBegin, HostWrites, WriteBegin, WriteHeader, WriteUnit, WriteTimeout, WriteUnchanged
  <2>2. QED
    BY <2>1, <1>c, <1>t
<1>2. CASE ReadTimeout
  <2>1. ~inCut' => want = 0 /\ want' = 0
    <3>1. ~inCut' => ~(want > 0)
      BY <1>2 DEF ReadTimeout
    <3>2. want' = 0 /\ want \in Nat
      BY <1>2 DEF ReadTimeout, TypeOK
    <3>3. QED
      BY <3>1, <3>2
  <2>i. ~inCut' => InStill
    BY <1>2, <2>1 DEF ReadTimeout, InStill, Forwarding
  <2>2. CASE inCut'
    BY <1>2, <2>2, <1>s DEF ReadTimeout
  <2>3. QED
    BY <2>i, <2>2, <1>c, <1>t
<1>3. CASE Hangup \/ Close
  <2>1. ~Open' /\ UNCHANGED <<devSent, s2c, hostGot, want, tlvLen, inCut>>
    BY <1>3 DEF Hangup, Close, Open
  <2>2. InFar => InFar'
    BY <2>1 DEF InFar
  <2>3. QED
    BY <2>1, <2>2 DEF InInv
<1>4. CASE DevSend
  <2> DEFINE n == Len(devSent) + 1
  <2>1. /\ devSent' = Append(devSent, Unit(n)) /\ inEp' = Append(inEp, Unit(n))
        /\ UNCHANGED <<pair, s2c, conn, Forwarding, hostGot, want, tlvLen, inCut>>
    BY <1>4 DEF DevSend, Forwarding
  <2>2. n \in Nat /\ Unit(n) \in Messages
    BY Typed
  <2>3. Len(devSent') = n /\ Len(inEp') = Len(inEp) + 1
    BY <2>1, <2>2 DEF TypeOK
  <2>4. UnitsAfter(devSent', 0)
    <3>1. n = 0 + Len(devSent) + 1
      OBVIOUS
    <3>2. QED
      BY <2>1, <2>2, <3>1, UnitsAppend DEF InInv, TypeOK
  <2>5. InFar => InFar'
    <3> SUFFICES ASSUME InFar PROVE InFar'
      OBVIOUS
    <3>1. PICK c1, r1 \in Nat :
            Stream(s2c, Len(hostGot), want + tlvLen, c1, r1) /\ c1 <= Len(devSent)
      BY DEF InFar
    <3>2. c1 <= Len(devSent')
      BY <2>3, <3>1
    <3>3. QED
      BY <2>1, <3>1, <3>2 DEF InFar
  <2>6. InWhole => InWhole'
    <3> SUFFICES ASSUME InWhole PROVE InWhole'
      OBVIOUS
    <3>1. PICK c1 \in Nat :
            /\ Stream(Inbound, Len(hostGot), want + tlvLen, c1, 0)
            /\ UnitsAfter(pair, c1) /\ UnitsAfter(inEp, c1 + Len(pair))
            /\ c1 + Len(pair) + Len(inEp) = Len(devSent)
      BY DEF InWhole
    <3>2. UnitsAfter(inEp', c1 + Len(pair))
      <4>1. n = c1 + Len(pair) + Len(inEp) + 1 /\ c1 + Len(pair) \in Nat
        BY <3>1
      <4>2. QED
        BY <2>1, <2>2, <3>1, <4>1, UnitsAppend DEF TypeOK
    <3>3. c1 + Len(pair) + Len(inEp') = Len(devSent')
      <4>1. c1 + Len(pair) + (Len(inEp) + 1) = Len(devSent) + 1
        BY <3>1
      <4>2. QED
        BY <2>3, <4>1
    <3>4. Inbound' = Inbound
      BY <2>1 DEF Inbound
    <3>5. QED
      BY <2>1, <3>1, <3>2, <3>3, <3>4 DEF InWhole
  <2>7. Len(hostGot) <= Len(devSent) => Len(hostGot') <= Len(devSent')
    BY <2>1, <2>3
  <2>8. QED
    BY <2>1, <2>4, <2>5, <2>6, <2>7 DEF InInv, Open
<1>5. CASE ReadUsb
  <2>1. PICK n \in 1 .. Least(MaxIn, Len(inEp)) :
          pair' = pair \o SubSeq(inEp, 1, n) /\ inEp' = SubSeq(inEp, n + 1, Len(inEp))
    BY <1>5 DEF ReadUsb
  <2>2. n \in 1 .. Len(inEp)
    <3>1. Least(MaxIn, Len(inEp)) \in Nat /\ Least(MaxIn, Len(inEp)) <= Len(inEp)
      BY UsbTcpAssumption, LeastIs
    <3>2. QED
      BY <3>1
  <2>3. SubSeq(inEp, 1, n) \in Seq(Messages) /\ Len(SubSeq(inEp, 1, n)) = n
    BY <2>2, SplitSizes DEF TypeOK
  <2>4. Len(inEp') = Len(inEp) - n
    BY <2>1, <2>2, SplitSizes DEF TypeOK
  <2>5. UNCHANGED <<devSent, s2c, conn, main, pbuf, Inbound, hostGot, want, tlvLen, inCut>>
    BY <1>5 DEF ReadUsb, Inbound, Forwarding
  <2>6. InFar => InFar'
    BY <2>5 DEF InFar
  <2>7. InWhole => InWhole'
    <3> SUFFICES ASSUME InWhole PROVE InWhole'
      OBVIOUS
    <3>1. PICK c1 \in Nat :
            /\ Stream(Inbound, Len(hostGot), want + tlvLen, c1, 0)
            /\ UnitsAfter(pair, c1) /\ UnitsAfter(inEp, c1 + Len(pair))
            /\ c1 + Len(pair) + Len(inEp) = Len(devSent)
      BY DEF InWhole
    <3>2. Len(pair') = Len(pair) + n
      BY <2>1, <2>3 DEF TypeOK
    <3>i. c1 + Len(pair) \in Nat
      OBVIOUS
    <3>ii. /\ UnitsAfter(SubSeq(inEp, 1, n), c1 + Len(pair))
           /\ UnitsAfter(inEp', c1 + Len(pair) + n)
      BY <2>1, <2>2, <3>1, <3>i, UnitsSplit DEF TypeOK
    <3>3. UnitsAfter(pair', c1)
      BY <2>1, <2>3, <3>1, <3>ii, UnitsConcat DEF TypeOK
    <3>4. UnitsAfter(inEp', c1 + Len(pair'))
      <4>1. c1 + Len(pair) + n = c1 + (Len(pair) + n)
        OBVIOUS
      <4>2. QED
        BY <3>2, <3>ii, <4>1
    <3>5. c1 + Len(pair') + Len(inEp') = Len(devSent')
      <4>1. c1 + (Len(pair) + n) + (Len(inEp) - n) = c1 + Len(pair) + Len(inEp)
        OBVIOUS
      <4>2. QED
        BY <2>4, <2>5, <3>1, <3>2, <4>1
    <3>6. QED
      BY <2>5, <3>1, <3>3, <3>4, <3>5 DEF InWhole
  <2>8. QED
    BY <2>5, <2>6, <2>7 DEF InInv, Open
<1>6. CASE FromUsb
  <2>1. /\ pbuf' = << Header(Len(pair)) >> \o pair /\ pair' = << >> /\ main' = "forward"
        /\ main = "poll" /\ pair # << >>
        /\ UNCHANGED <<devSent, inEp, s2c, conn, hostGot, want, tlvLen, inCut>>
    BY <1>6 DEF FromUsb, Handshake
  <2>2. InFar => InFar'
    BY <2>1 DEF InFar
  <2>3. InWhole => InWhole'
    <3> SUFFICES ASSUME InWhole PROVE InWhole'
      OBVIOUS
    <3>1. PICK c1 \in Nat :
            /\ Stream(Inbound, Len(hostGot), want + tlvLen, c1, 0)
            /\ UnitsAfter(pair, c1) /\ UnitsAfter(inEp, c1 + Len(pair))
            /\ c1 + Len(pair) + Len(inEp) = Len(devSent)
      BY DEF InWhole
    <3>2. Inbound = s2c /\ Inbound' = s2c \o pbuf' /\ pbuf' \in Seq(Messages) /\ s2c \in Seq(Messages)
      BY <2>1, ConcatEmptySeq DEF Inbound, Forwarding, TypeOK
    <3>3. Stream(pbuf', c1, 0, c1 + Len(pair), 0)
      BY <2>1, <3>1, StreamRecord DEF TypeOK
    <3>4. Stream(Inbound', Len(hostGot), want + tlvLen, c1 + Len(pair), 0)
      <4>1. c1 + Len(pair) \in Nat
        OBVIOUS
      <4>2. QED
        BY <3>1, <3>2, <3>3, <4>1, StreamConcat
    <3>5. /\ Len(pair') = 0 /\ UnitsAfter(pair', c1 + Len(pair))
          /\ c1 + Len(pair) + Len(pair') = c1 + Len(pair) /\ c1 + Len(pair) \in Nat
      BY <2>1 DEF UnitsAfter
    <3>6. UnitsAfter(inEp', c1 + Len(pair) + Len(pair'))
      BY <2>1, <3>1, <3>5
    <3>7. c1 + Len(pair) + Len(pair') + Len(inEp') = Len(devSent')
      BY <2>1, <3>1, <3>5
    <3>8. QED
      BY <2>1, <3>4, <3>5, <3>6, <3>7 DEF InWhole
  <2>4. QED
    BY <2>1, <2>2, <2>3 DEF InInv, Open
<1>7. CASE Forward
  <2>1. UNCHANGED <<devSent, inEp, pair, hostGot, want, tlvLen, inCut>>
    BY <1>7 DEF Forward
  <2>2. CASE ~Open
    <3>1. s2c' = s2c /\ ~Open'
      BY <1>7, <2>2 DEF Forward, Open
    <3>2. InFar => InFar'
      BY <2>1, <3>1 DEF InFar
    <3>3. QED
      BY <2>1, <3>1, <3>2 DEF InInv
  <2>3. CASE Open
    <3> SUFFICES ASSUME InWhole PROVE InWhole' /\ InFar'
      BY <2>1, <2>3 DEF InInv
    <3>1. Inbound' = Inbound /\ Inbound' = s2c' \o Forwarding'
      BY <1>7, <2>3, Forwards
    <3>2. PICK c1 \in Nat :
            /\ Stream(Inbound, Len(hostGot), want + tlvLen, c1, 0)
            /\ UnitsAfter(pair, c1) /\ UnitsAfter(inEp, c1 + Len(pair))
            /\ c1 + Len(pair) + Len(inEp) = Len(devSent)
      BY DEF InWhole
    <3>3. InWhole'
      BY <2>1, <3>1, <3>2 DEF InWhole
    <3>4. s2c' \in Seq(Messages) /\ Forwarding' \in Seq(Messages)
      BY DEF TypeOK, Forwarding
    <3>5. Stream(s2c' \o Forwarding', Len(hostGot), want + tlvLen, c1, 0)
      BY <3>1, <3>2
    <3>6. PICK c2, r2 \in Nat : c2 <= c1 /\ Stream(s2c', Len(hostGot), want + tlvLen, c2, r2)
      BY <3>4, <3>5, StreamPrefix
    <3>7. c2 <= Len(devSent')
      BY <2>1, <3>2, <3>6
    <3>8. InFar'
      BY <2>1, <3>6, <3>7 DEF InFar
    <3>9. QED
      BY <3>3, <3>8
  <2>4. QED
    BY <2>2, <2>3
<1>8. CASE FromRecord \/ NoHeader \/ TakeUnit
  <2> SUFFICES ASSUME ~inCut' PROVE InInv'
    BY <1>8, <1>s DEF FromRecord, NoHeader, TakeUnit, ReadUnchanged
  <2>1. ~inCut /\ InFar /\ s2c # << >> /\ s2c \in Seq(Messages)
    BY <1>8, <1>c DEF InInv, FromRecord, NoHeader, TakeUnit, TypeOK
  <2>2. PICK c2, r2 \in Nat : Reads1(Head(s2c), Len(hostGot), want + tlvLen, c2, r2)
    BY <2>1, StreamTail DEF InFar
  <2>3. UNCHANGED <<devSent, inEp, pair, conn, Forwarding>>
    BY <1>8 DEF FromRecord, NoHeader, TakeUnit, ReadUnchanged, Forwarding
  <2>4. CASE FromRecord
    <3> DEFINE left == IF tlvLen = 0 THEN Head(s2c).n ELSE tlvLen
    <3>1. want = 0 /\ want' = Least(call.max - cur, left) /\ tlvLen' = left - want' /\ hostGot' = hostGot
      BY <2>4 DEF FromRecord
    <3>2. left \in Nat
      <4>1. Head(s2c) \in Messages
        BY <2>1
      <4>2. Head(s2c).n \in Nat
        BY <4>1 DEF Messages
      <4>3. QED
        BY <4>2 DEF TypeOK
    <3>3. (want + tlvLen)' = left
      <4> HIDE DEF left
      <4>1. QED
        BY <3>1, <3>2, SMTT(30) DEF TypeOK
    <3>4. CASE tlvLen > 0
      <4>1. left = want + tlvLen /\ s2c' = s2c
        BY <2>4, <3>1, <3>4 DEF FromRecord, TypeOK
      <4>2. InStill
        BY <2>3, <3>1, <3>3, <4>1 DEF InStill
      <4>3. QED
        BY <1>c, <1>t, <4>2
    <3>5. CASE tlvLen = 0
      <4>1. s2c' = Tail(s2c) /\ want + tlvLen = 0 /\ left = Head(s2c).n
        BY <2>4, <3>1, <3>5 DEF FromRecord
      <4>2. ASSUME NEW c, NEW r, Reads1(Head(s2c), Len(hostGot), want + tlvLen, c, r)
            PROVE  c = Len(hostGot)' /\ r = (want + tlvLen)'
        <5>1. Head(s2c) = Header(r) /\ c = Len(hostGot)
          BY <4>1, <4>2 DEF Reads1
        <5>2. Head(s2c).n = r
          BY <5>1 DEF Header
        <5>3. QED
          BY <3>1, <3>3, <4>1, <5>1, <5>2
      <4>3. (want + tlvLen)' \in Nat /\ Len(hostGot)' \in Nat
        BY <3>1, <3>2, <3>3
      <4>4. (Open => InWhole)' /\ InFar' /\ Len(hostGot)' <= Len(devSent)'
        BY <2>1, <2>3, <4>1, <4>2, <4>3, InTakes
      <4>5. UnitsAfter(hostGot, 0)'
        BY <2>1, <3>1 DEF InInv
      <4>6. QED
        BY <1>s, <2>3, <4>4, <4>5
    <3>6. QED
      BY <3>4, <3>5 DEF TypeOK
  <2>5. CASE NoHeader
    <3>1. want + tlvLen = 0 /\ Head(s2c).type # "tlv"
      BY <2>5 DEF NoHeader
    <3>2. QED
      BY <2>2, <3>1 DEF Reads1, Header
  <2>6. CASE TakeUnit
    <3>1. /\ want > 0 /\ s2c' = Tail(s2c) /\ want' = want - 1 /\ tlvLen' = tlvLen
          /\ hostGot' = Append(hostGot, Head(s2c))
      BY <2>6 DEF TakeUnit
    <3>2. want + tlvLen # 0 /\ (want + tlvLen)' = (want + tlvLen) - 1 /\ (want + tlvLen)' \in Nat
      BY <3>1 DEF TypeOK
    <3>3. Len(hostGot)' = Len(hostGot) + 1 /\ Len(hostGot)' \in Nat
      BY <2>1, <3>1 DEF TypeOK
    <3>4. \A c, r : Reads1(Head(s2c), Len(hostGot), want + tlvLen, c, r) =>
             c = Len(hostGot)' /\ r = (want + tlvLen)' /\ Head(s2c) = Unit(Len(hostGot) + 1)
      <4>1. ASSUME NEW c, NEW r, Reads1(Head(s2c), Len(hostGot), want + tlvLen, c, r)
            PROVE  c = Len(hostGot) + 1 /\ r = (want + tlvLen) - 1 /\ Head(s2c) = Unit(Len(hostGot) + 1)
        BY <3>2, <4>1, ReadsUnit
      <4>2. QED
        BY <3>2, <3>3, <4>1
    <3>5. (Open => InWhole)' /\ InFar' /\ Len(hostGot)' <= Len(devSent)'
      BY <2>1, <2>3, <3>1, <3>2, <3>3, <3>4, InTakes
    <3>6. UnitsAfter(hostGot, 0)'
      <4>1. Head(s2c) = Unit(Len(hostGot) + 1) /\ UnitsAfter(hostGot, 0) /\ Head(s2c) \in Messages
        BY <2>1, <2>2, <3>4 DEF InInv
      <4>2. Len(hostGot) + 1 = 0 + Len(hostGot) + 1
        OBVIOUS
      <4>3. QED
        BY <3>1, <4>1, <4>2, UnitsAppend DEF TypeOK
    <3>7. QED
      BY <1>s, <2>3, <3>5, <3>6
  <2>7. QED
    BY <1>8, <2>4, <2>5, <2>6
<1>9. QED
  BY <1>1, <1>2, <1>3, <1>4, <1>5, <1>6, <1>7, <1>8 DEF Next, Reader, Main, HostReads, Ended

-----------------------------------------------------------------------------
(* To the module.                                                          *)

LEMMA OutInit == Init => OutInv
<1> SUFFICES ASSUME Init PROVE OutInv
  OBVIOUS
<1>1. Body = << >> /\ Due = 0 /\ Arrived = 0 /\ Len(devGot) = 0 /\ Len(hostSent) = 0
  BY DEF Init, Body, Due, Arrived
<1>2. UnitsAfter(hostSent, 0) /\ UnitsAfter(devGot, 0) /\ UnitsAfter(Body, Len(devGot))
  BY <1>1 DEF UnitsAfter, Init
<1>3. Stream(c2s, Arrived, Due, 0, 0)
  BY <1>1, StreamEmpty DEF Init
<1>4. wplace = "idle"
  BY DEF Init
<1>5. OutFar
  BY <1>1, <1>3, <1>4 DEF OutFar, Unsent
<1>6. QED
  BY <1>1, <1>2, <1>5 DEF OutInv

\* What stays outside the direction, as long as main does not go.
OutStill ==
    /\ UNCHANGED <<devGot, Body, Due, Arrived, c2s, hostSent>>
    /\ main' # "gone" => main # "gone"
    /\ Open' => Open /\ UNCHANGED Unsent

LEMMA OutStays ==
    ASSUME OutInv, OutStill, ~outCut' => ~outCut PROVE OutInv'
<1>1. OutFar => OutFar'
  <2> SUFFICES ASSUME OutFar PROVE OutFar'
    OBVIOUS
  <2>1. PICK c1, r1 \in Nat :
          /\ Stream(c2s, Arrived, Due, c1, r1) /\ c1 <= Len(hostSent)
          /\ Open => c1 = Len(hostSent) /\ r1 = Unsent
    BY DEF OutFar
  <2>2. Stream(c2s, Arrived, Due, c1, r1)' /\ c1 <= Len(hostSent)'
    BY <2>1 DEF OutStill
  <2>3. Open' => c1 = Len(hostSent)' /\ r1 = Unsent'
    BY <2>1 DEF OutStill
  <2>4. QED
    BY <2>2, <2>3 DEF OutFar
<1>2. QED
  BY <1>1 DEF OutInv, OutStill

\* The server takes the first element of what is under way.
LEMMA OutTakes ==
    ASSUME TypeOK, OutInv, ~outCut, main # "gone", c2s # << >>, c2s' = Tail(c2s),
           UNCHANGED <<hostSent, conn, wplace, wleft>>, Arrived' \in Nat, Due' \in Nat,
           \A c2, r2 \in Nat :
              Reads1(Head(c2s), Arrived, Due, c2, r2) => c2 = Arrived' /\ r2 = Due'
    PROVE  OutFar' /\ Arrived' <= Len(hostSent)'
<1>0. Arrived \in Nat /\ Due \in Nat /\ c2s \in Seq(Messages) /\ Len(hostSent) \in Nat
  BY Lengths DEF TypeOK
<1>1. PICK c1, r1 \in Nat :
        /\ Stream(c2s, Arrived, Due, c1, r1) /\ c1 <= Len(hostSent)
        /\ Open => c1 = Len(hostSent) /\ r1 = Unsent
  BY DEF OutInv, OutFar
<1>2. PICK c2, r2 \in Nat :
        /\ Reads1(Head(c2s), Arrived, Due, c2, r2) /\ c2 <= c1
        /\ Stream(Tail(c2s), c2, r2, c1, r1)
  BY <1>0, <1>1, StreamTail
<1>3. c2 = Arrived' /\ r2 = Due'
  BY <1>2
<1>4. Stream(c2s', Arrived', Due', c1, r1)
  BY <1>2, <1>3
<1>5. Open' => c1 = Len(hostSent)' /\ r1 = Unsent'
  BY <1>1 DEF Open, Unsent
<1>6. c1 <= Len(hostSent)' /\ Arrived' <= Len(hostSent)'
  BY <1>0, <1>1, <1>2, <1>3
<1>7. QED
  BY <1>4, <1>5, <1>6 DEF OutFar

\* The host has closed with data unread: what was under way is lost.
LEMMA OutLoses ==
    ASSUME TypeOK, OutInv, ~outCut, c2s' = << >>, ~Open',
           UNCHANGED <<hostSent, Arrived, Due>>
    PROVE  OutFar'
<1>1. Arrived \in Nat /\ Due \in Nat /\ Arrived <= Len(hostSent)
  BY Lengths DEF OutInv
<1>2. Stream(c2s', Arrived', Due', Arrived, Due)
  BY <1>1, StreamEmpty
<1>3. QED
  BY <1>1, <1>2 DEF OutFar

LEMMA OutNext ==
    ASSUME TypeOK, TypeOK', Handshake, InInv, OutInv, [Next]_vars PROVE OutInv'
<1> USE DEF device, thread, server, net, hread, hwrite
<1>0. /\ Len(devGot) \in Nat /\ Len(hostSent) \in Nat /\ Len(Body) \in Nat
      /\ Body \in Seq(Messages) /\ Due \in Nat /\ Arrived \in Nat
  BY Lengths
<1>c. ~outCut' => ~outCut
  BY DEF vars, TypeOK, Next, DevSend, Reader, ReadUsb, Wake, ReaderExit, Main, Poll, Hangup,
     FromUsb, Forward, FromClient, TakeBody, ToUsb, HostReads, ReadBegin, FromRecord, NoHeader,
     TakeUnit, ReadTimeout, HostWrites, WriteBegin, WriteHeader, WriteUnit, WriteTimeout,
     Close, Ended, ReadUnchanged, WriteUnchanged
<1>1. CASE DevSend \/ Reader \/ Poll \/ FromUsb \/ HostReads \/ UNCHANGED vars
  <2>1. OutStill
    BY <1>1 DEF OutStill, Body, Due, Arrived, Unsent, Open, vars, DevSend, Reader, ReadUsb, Wake,
       ReaderExit, Poll, FromUsb, HostReads, ReadBegin, FromRecord, NoHeader, TakeUnit,
       ReadTimeout, ReadUnchanged
  <2>2. QED
    BY <2>1, <1>c, OutStays
<1>2. CASE WriteBegin \/ WriteTimeout
  <2>1. ~outCut' => OutStill
    BY <1>2 DEF OutStill, Body, Due, Arrived, Unsent, Open, WriteBegin, WriteTimeout, WriteUnchanged
  <2>2. outCut' => OutInv'
    BY <1>2 DEF OutInv, WriteBegin, WriteTimeout
  <2>3. QED
    BY <2>1, <2>2, <1>c, OutStays
<1>3. CASE Forward
  <2>1. /\ UNCHANGED <<devGot, Body, Due, Arrived, hostSent, outCut, wplace, wleft>>
        /\ main # "gone" /\ main' # "gone"
    BY <1>3 DEF Forward, Body, Due, Arrived
  <2>2. CASE Open
    <3>1. OutStill
      BY <1>3, <2>1, <2>2 DEF OutStill, Forward, Unsent
    <3>2. QED
      BY <1>c, <3>1, OutStays
  <2>3. CASE ~Open
    <3>1. c2s' = << >> /\ ~Open'
      BY <1>3, <2>3 DEF Forward, Open
    <3>2. ~outCut => OutFar'
      BY <2>1, <3>1, OutLoses
    <3>3. QED
      BY <2>1, <3>2 DEF OutInv
  <2>4. QED
    BY <2>2, <2>3
<1>4. CASE Close
  <2>1. /\ UNCHANGED <<devGot, Body, Due, Arrived, hostSent, outCut, wplace, wleft, main>>
        /\ ~Open'
    BY <1>4 DEF Close, Body, Due, Arrived, Open
  <2>2. CASE s2c = << >>
    <3>1. OutStill
      BY <1>4, <2>1, <2>2 DEF OutStill, Close
    <3>2. QED
      BY <1>c, <3>1, OutStays
  <2>3. CASE s2c # << >>
    <3>1. c2s' = << >>
      BY <1>4, <2>3 DEF Close
    <3>2. ~outCut => OutFar'
      BY <2>1, <3>1, OutLoses
    <3>3. QED
      BY <2>1, <3>2 DEF OutInv
  <2>4. QED
    BY <2>2, <2>3
<1>5. CASE Hangup
  <2>1. main' = "gone" /\ UNCHANGED <<devGot, hostSent, outCut>>
    BY <1>5 DEF Hangup
  <2>2. Body' = << >> /\ Arrived' = Len(devGot)
    BY <2>1, <1>0 DEF Body, Arrived
  <2>3. UnitsAfter(Body, Len(devGot))'
    BY <2>2 DEF UnitsAfter
  <2>4. Arrived <= Len(hostSent) => Arrived' <= Len(hostSent)'
    BY <1>0, <2>1, <2>2 DEF Arrived
  <2>5. QED
    BY <2>1, <2>3, <2>4 DEF OutInv
<1>6. CASE FromClient \/ TakeBody
  <2>1. /\ c2s # << >> /\ c2s' = Tail(c2s) /\ main # "gone" /\ main' # "gone"
        /\ UNCHANGED <<devGot, hostSent, conn, wplace, wleft, outCut>>
    BY <1>6 DEF FromClient, TakeBody
  <2> SUFFICES ASSUME ~outCut
               PROVE  UnitsAfter(Body, Len(devGot))' /\ Arrived' <= Len(hostSent)' /\ OutFar'
    BY <2>1 DEF OutInv
  <2>2. Arrived' \in Nat /\ Due' \in Nat /\ c2s \in Seq(Messages) /\ Head(c2s) \in Messages
    <3>i. devGot' \in Seq(Messages) /\ Body' \in Seq(Messages) /\ expect' \in Nat
      BY DEF TypeOK, Body
    <3>1. Len(devGot') \in Nat /\ Len(Body') \in Nat
      BY <3>i
    <3>2. Arrived' = Len(devGot') + Len(Body')
      BY DEF Arrived
    <3>ii. c2s \in Seq(Messages)
      BY DEF TypeOK
    <3>3. Due' \in Nat /\ Head(c2s) \in Messages
      BY <2>1, <3>i, <3>ii DEF Due
    <3>4. QED
      BY <3>1, <3>2, <3>3, <3>ii
  <2>3. PICK c2, r2 \in Nat : Reads1(Head(c2s), Arrived, Due, c2, r2)
    BY <1>0, <2>1, <2>2, StreamTail DEF OutInv, OutFar
  <2>4. CASE FromClient
    <3>1. main = "poll" /\ Due = 0 /\ Body = << >> /\ pbuf = << >> /\ pbuf' = pbuf
      BY <2>4 DEF FromClient, Due, Body, Handshake
    <3>2. Body' = << >> /\ Arrived' = Arrived
      BY <2>1, <3>1 DEF Body, Arrived
    <3>3. Head(c2s) = Header(r2) /\ Head(c2s).type = "tlv"
      BY <2>3, <3>1 DEF Reads1, Header
    <3>4. main' = "body" /\ Due' = Head(c2s).n
      BY <2>4, <3>3 DEF FromClient, Due
    <3>5. \A c, r : Reads1(Head(c2s), Arrived, Due, c, r) => c = Arrived' /\ r = Due'
      BY <3>1, <3>2, <3>4 DEF Reads1, Header
    <3>6. UnitsAfter(Body, Len(devGot))'
      BY <3>2 DEF UnitsAfter
    <3>7. QED
      BY <2>1, <2>2, <3>5, <3>6, OutTakes
  <2>5. CASE TakeBody
    <3>1. /\ main = "body" /\ main' = "body" /\ expect > 0 /\ expect' = expect - 1
          /\ pbuf' = Append(pbuf, Head(c2s)) /\ Body = pbuf /\ Body' = pbuf'
      BY <2>5 DEF TakeBody, Body
    <3>2. Due = expect /\ Due' = expect - 1 /\ expect \in Nat /\ Due # 0
      BY <3>1 DEF Due, TypeOK
    <3>3. Len(Body') = Len(Body) + 1 /\ Arrived' = Arrived + 1
      <4>1. Len(Body') = Len(Body) + 1
        BY <1>0, <2>2, <3>1
      <4>2. QED
        BY <1>0, <2>1, <4>1 DEF Arrived
    <3>4. \A c, r : Reads1(Head(c2s), Arrived, Due, c, r) =>
             c = Arrived' /\ r = Due' /\ Head(c2s) = Unit(Arrived + 1)
      BY <3>2, <3>3 DEF Reads1
    <3>5. Head(c2s) = Unit(Arrived + 1) /\ Arrived + 1 = Len(devGot) + Len(Body) + 1
      BY <1>0, <2>3, <3>4 DEF Arrived
    <3>6. UnitsAfter(Append(Body, Head(c2s)), Len(devGot))
      BY <1>0, <2>2, <3>5, UnitsAppend DEF OutInv
    <3>7. UnitsAfter(Body, Len(devGot))'
      BY <2>1, <3>1, <3>6
    <3>8. QED
      BY <2>1, <2>2, <3>4, <3>7, OutTakes
  <2>6. QED
    BY <1>6, <2>4, <2>5
<1>7. CASE ToUsb
  <2>1. /\ main = "body" /\ main' = "poll" /\ expect = 0 /\ expect' = expect /\ Body = pbuf
        /\ devGot' = devGot \o Body /\ Body' = << >> /\ Due = 0 /\ Due' = 0
        /\ UNCHANGED <<c2s, hostSent, conn, wplace, wleft, outCut>>
    BY <1>7 DEF ToUsb, Body, Due
  <2>2. Len(devGot') = Len(devGot) + Len(Body)
    BY <1>0, <2>1 DEF TypeOK
  <2>3. Arrived' = Arrived
    BY <1>0, <2>1, <2>2 DEF Arrived
  <2>4. UnitsAfter(devGot, 0) /\ UnitsAfter(Body, Len(devGot)) => UnitsAfter(devGot', 0)
    <3>1. 0 + Len(devGot) = Len(devGot)
      BY <1>0
    <3>2. QED
      BY <1>0, <2>1, <3>1, UnitsConcat DEF TypeOK
  <2>5. UnitsAfter(Body, Len(devGot))'
    BY <2>1 DEF UnitsAfter
  <2>6. OutFar => OutFar'
    BY <2>1, <2>3 DEF OutFar, Open, Unsent
  <2>7. QED
    BY <2>1, <2>3, <2>4, <2>5, <2>6 DEF OutInv
<1>8. CASE WriteHeader \/ WriteUnit
  <2>1. /\ Open /\ UNCHANGED <<devGot, Body, Due, Arrived, conn, main, outCut>>
        /\ main # "gone"
    BY <1>8 DEF WriteHeader, WriteUnit, WriteUnchanged, Body, Due, Arrived, Handshake
  <2>2. CASE WriteHeader
    <3>1. /\ wplace = "header" /\ wplace' = "body" /\ wleft' = wleft /\ hostSent' = hostSent
          /\ c2s' = Append(c2s, Header(wleft)) /\ Unsent = 0 /\ Unsent' = wleft
          /\ wleft > 0 /\ wleft \in Nat
      BY <2>2 DEF WriteHeader, Unsent, TypeOK
    <3>2. Reads1(Header(wleft), Len(hostSent), 0, Len(hostSent), wleft)
      BY <3>1 DEF Reads1
    <3>3. ~outCut => OutFar'
      <4> SUFFICES ASSUME ~outCut PROVE OutFar'
        OBVIOUS
      <4>1. Stream(c2s, Arrived, Due, Len(hostSent), 0)
        BY <2>1, <3>1 DEF OutInv, OutFar
      <4>2. Stream(c2s', Arrived, Due, Len(hostSent), wleft)
        BY <1>0, <3>1, <3>2, <4>1, Typed, StreamAppend DEF TypeOK
      <4>3. QED
        BY <1>0, <2>1, <3>1, <4>2 DEF OutFar
    <3>4. QED
      BY <2>1, <3>1, <3>3 DEF OutInv
  <2>3. CASE WriteUnit
    <3> DEFINE n == Len(hostSent) + 1
    <3>1. /\ wplace = "body" /\ wleft' = wleft - 1 /\ hostSent' = Append(hostSent, Unit(n))
          /\ c2s' = Append(c2s, Unit(n)) /\ Unsent = wleft /\ wleft > 0 /\ wleft \in Nat
          /\ wplace' = IF wleft = 1 THEN "idle" ELSE "body"
      BY <2>3 DEF WriteUnit, Unsent, TypeOK
    <3>2. Unsent' = wleft - 1 /\ n \in Nat /\ Unit(n) \in Messages
      BY <1>0, <3>1, Typed DEF Unsent
    <3>3. Len(hostSent') = n /\ n = 0 + Len(hostSent) + 1
      BY <1>0, <3>1, <3>2 DEF TypeOK
    <3>4. UnitsAfter(hostSent', 0)
      BY <3>1, <3>2, <3>3, UnitsAppend DEF OutInv, TypeOK
    <3>5. Reads1(Unit(n), Len(hostSent), wleft, n, wleft - 1)
      BY <1>0, <3>1 DEF Reads1
    <3>6. ~outCut => OutFar'
      <4> SUFFICES ASSUME ~outCut PROVE OutFar'
        OBVIOUS
      <4>1. Stream(c2s, Arrived, Due, Len(hostSent), wleft)
        BY <2>1, <3>1 DEF OutInv, OutFar
      <4>2. wleft - 1 \in Nat /\ n \in Nat /\ n <= n
        BY <3>1, <3>2
      <4>3. Stream(c2s', Arrived, Due, n, wleft - 1)
        BY <1>0, <3>1, <3>2, <3>5, <4>1, <4>2, StreamAppend DEF TypeOK
      <4> HIDE DEF n
      <4>4. QED
        BY <2>1, <3>2, <3>3, <4>2, <4>3 DEF OutFar
    <3>7. Arrived <= Len(hostSent) => Arrived' <= Len(hostSent')
      BY <1>0, <2>1, <3>3
    <3>8. QED
      BY <2>1, <3>4, <3>6, <3>7 DEF OutInv
  <2>4. QED
    BY <1>8, <2>2, <2>3
<1>9. QED
  BY <1>1, <1>2, <1>3, <1>4, <1>5, <1>6, <1>7, <1>8 DEF Next, Main, HostWrites, Ended

-----------------------------------------------------------------------------
(* The theorems.                                                           *)

\* The invariant holds in every behaviour.
THEOREM Invariant == Spec => []IInv
<1>1. Init => IInv
  <2>1. Init => Handshake
    BY DEF Init, Handshake, Open
  <2>2. QED
    BY <2>1, TypeInit, InInit, OutInit DEF IInv
<1>2. IInv /\ [Next]_vars => IInv'
  BY TypeNext, HandshakeNext, InNext, OutNext DEF IInv
<1>3. QED
  BY <1>1, <1>2, PTL DEF Spec

\* A server that hangs up by itself has sent on all its thread has taken from the
\* module (usb_bulk_read_thread and usb2tcp_main with their wake-up byte).
THEOREM SendsAllItTook == Spec => []NothingLeftBehind
<1>1. IInv => NothingLeftBehind
  BY DEF IInv, Handshake, NothingLeftBehind
<1>2. QED
  BY <1>1, Invariant, PTL

LEMMA BeginningOf ==
    ASSUME NEW s \in Seq(Messages), NEW t \in Seq(Messages),
           UnitsAfter(s, 0), UnitsAfter(t, 0), Len(s) <= Len(t)
    PROVE  IsPrefix(s, t)
<1>1. Len(s) \in Nat /\ Len(t) \in Nat
  OBVIOUS
<1>2. \A i \in 1 .. Len(s) : i \in 1 .. Len(t) /\ s[i] = t[i]
  BY <1>1 DEF UnitsAfter
<1>3. /\ SubSeq(s, 1, Len(s)) = s /\ SubSeq(t, 1, Len(s)) \in Seq(Messages)
      /\ Len(SubSeq(t, 1, Len(s))) = Len(s)
      /\ \A i \in 1 .. Len(s) : SubSeq(t, 1, Len(s))[i] = t[i]
  BY <1>1, <1>2
<1>4. SubSeq(t, 1, Len(s)) = s
  BY <1>2, <1>3, SeqEqual
<1>5. QED
  BY <1>3, <1>4 DEF IsPrefix

LEMMA StrictlyLonger ==
    ASSUME NEW s \in Seq(Messages), NEW t \in Seq(Messages),
           UnitsAfter(s, 0), UnitsAfter(t, 0), Len(s) < Len(t)
    PROVE  IsStrictPrefix(s, t)
<1>1. Len(s) \in Nat /\ Len(t) \in Nat /\ Len(s) <= Len(t) /\ s # t
  OBVIOUS
<1>2. QED
  BY <1>1, BeginningOf DEF IsStrictPrefix

\* What the host reads is what the module sent, in order, nothing twice and nothing
\* left out, until a read times out in the middle of a record.
LEMMA InStep ==
    ASSUME IInv, IInv', [Next]_vars PROVE [In!Next]_(In!vars)
<1> USE DEF device, thread, server, net, hread, hwrite
<1>1. CASE DevSend
  <2>1. devSent \in Seq(Messages) /\ devSent' \in Seq(Messages)
        /\ UnitsAfter(devSent, 0) /\ UnitsAfter(devSent', 0)
    BY DEF IInv, TypeOK, InInv
  <2>2. Len(devSent) \in Nat /\ Len(devSent) + 1 \in Nat
    BY <2>1
  <2>3. Len(devSent') = Len(devSent) + 1
    BY <1>1, <2>1, <2>2, Typed DEF DevSend
  <2>4. IsStrictPrefix(devSent, devSent')
    BY <2>1, <2>2, <2>3, StrictlyLonger
  <2>5. QED
    BY <1>1, <2>4 DEF DevSend, In!Next, In!Send,
       In!IsStrictPrefix, In!IsPrefix, IsStrictPrefix, IsPrefix
<1>2. CASE TakeUnit
  <2>1. UNCHANGED <<devSent, inCut>> /\ s2c # << >> /\ hostGot' = Append(hostGot, Head(s2c))
    BY <1>2 DEF TakeUnit
  <2>2. CASE inCut
    BY <2>1, <2>2 DEF In!Next, In!AfterCut
  <2>3. CASE ~inCut
    <3>1. /\ hostGot \in Seq(Messages) /\ hostGot' \in Seq(Messages) /\ devSent \in Seq(Messages)
          /\ UnitsAfter(devSent, 0) /\ UnitsAfter(hostGot, 0) /\ UnitsAfter(hostGot', 0)
          /\ Len(hostGot') <= Len(devSent)
      BY <2>1, <2>3 DEF IInv, TypeOK, InInv
    <3>2. Head(s2c) \in Messages
      BY <2>1 DEF IInv, TypeOK
    <3>3. Len(hostGot) < Len(hostGot')
      BY <2>1, <3>1, <3>2
    <3>4. IsStrictPrefix(hostGot, hostGot') /\ IsPrefix(hostGot', devSent)
      BY <3>1, <3>3, StrictlyLonger, BeginningOf
    <3>5. QED
      BY <2>1, <3>4 DEF In!Next, In!Deliver,
         In!IsStrictPrefix, In!IsPrefix, IsStrictPrefix, IsPrefix
  <2>4. QED
    BY <2>2, <2>3
<1>3. CASE ReadTimeout
  <2>1. UNCHANGED <<devSent, hostGot>> /\ inCut' \in BOOLEAN /\ (inCut => inCut')
    BY <1>3 DEF ReadTimeout, IInv, TypeOK
  <2>2. QED
    BY <2>1 DEF IInv, TypeOK, In!Next, In!Cut, In!vars
<1>4. CASE ~(DevSend \/ TakeUnit \/ ReadTimeout)
  <2>1. UNCHANGED In!vars
    BY <1>4 DEF In!vars, vars, Next, Reader, ReadUsb, Wake, ReaderExit, Main, Poll, Hangup,
       FromUsb, Forward, FromClient, TakeBody, ToUsb, HostReads, ReadBegin, FromRecord, NoHeader,
       HostWrites, WriteBegin, WriteHeader, WriteUnit, WriteTimeout, Close, Ended,
       ReadUnchanged, WriteUnchanged
  <2>2. QED
    BY <2>1
<1>5. QED
  BY <1>1, <1>2, <1>3, <1>4

\* The same of what the module receives, until a write times out in the middle of a
\* record: then the rest goes under a second header.
LEMMA OutStep ==
    ASSUME IInv, IInv', [Next]_vars PROVE [Out!Next]_(Out!vars)
<1> USE DEF device, thread, server, net, hread, hwrite
<1>1. CASE WriteUnit
  <2>1. hostSent \in Seq(Messages) /\ hostSent' \in Seq(Messages)
        /\ UnitsAfter(hostSent, 0) /\ UnitsAfter(hostSent', 0)
    BY DEF IInv, TypeOK, OutInv
  <2>2. Len(hostSent) \in Nat /\ Len(hostSent) + 1 \in Nat
    BY <2>1
  <2>3. Len(hostSent') = Len(hostSent) + 1
    BY <1>1, <2>1, <2>2, Typed DEF WriteUnit
  <2>4. IsStrictPrefix(hostSent, hostSent')
    BY <2>1, <2>2, <2>3, StrictlyLonger
  <2>5. QED
    BY <1>1, <2>4 DEF WriteUnit, WriteUnchanged, Out!Next, Out!Send,
       Out!IsStrictPrefix, Out!IsPrefix, IsStrictPrefix, IsPrefix
<1>2. CASE ToUsb
  <2>1. UNCHANGED <<hostSent, outCut>> /\ devGot' = devGot \o pbuf
    BY <1>2 DEF ToUsb
  <2>2. CASE outCut
    BY <2>1, <2>2 DEF Out!Next, Out!AfterCut
  <2>3. CASE pbuf = << >>
    <3>1. devGot' = devGot
      BY <2>1, <2>3, ConcatEmptySeq DEF IInv, TypeOK
    <3>2. QED
      BY <2>1, <3>1 DEF Out!vars
  <2>4. CASE ~outCut /\ pbuf # << >>
    <3>1. /\ devGot \in Seq(Messages) /\ devGot' \in Seq(Messages) /\ hostSent \in Seq(Messages)
          /\ pbuf \in Seq(Messages)
          /\ UnitsAfter(hostSent, 0) /\ UnitsAfter(devGot, 0) /\ UnitsAfter(devGot', 0)
          /\ Arrived' <= Len(hostSent)
      BY <2>1, <2>4 DEF IInv, TypeOK, OutInv
    <3>2. Len(devGot) < Len(devGot')
      BY <2>1, <2>4, <3>1
    <3>3. Body' = << >>
      BY <1>2 DEF ToUsb, Body
    <3>4. Len(devGot') <= Len(hostSent)
      BY <3>1, <3>3 DEF Arrived
    <3>5. IsStrictPrefix(devGot, devGot') /\ IsPrefix(devGot', hostSent)
      BY <3>1, <3>2, <3>4, StrictlyLonger, BeginningOf
    <3>6. QED
      BY <2>1, <3>5 DEF Out!Next, Out!Deliver,
         Out!IsStrictPrefix, Out!IsPrefix, IsStrictPrefix, IsPrefix
  <2>5. QED
    BY <2>2, <2>3, <2>4
<1>3. CASE WriteTimeout
  <2>1. UNCHANGED <<hostSent, devGot>> /\ outCut' \in BOOLEAN /\ (outCut => outCut')
    BY <1>3 DEF WriteTimeout, WriteUnchanged, IInv, TypeOK
  <2>2. QED
    BY <2>1 DEF IInv, TypeOK, Out!Next, Out!Cut, Out!vars
<1>4. CASE ~(WriteUnit \/ ToUsb \/ WriteTimeout)
  <2>1. UNCHANGED Out!vars
    BY <1>4 DEF Out!vars, vars, Next, DevSend, Reader, ReadUsb, Wake, ReaderExit, Main, Poll, Hangup,
       FromUsb, Forward, FromClient, TakeBody, HostReads, ReadBegin, FromRecord, NoHeader, TakeUnit,
       ReadTimeout, HostWrites, WriteBegin, WriteHeader, Close, Ended, ReadUnchanged, WriteUnchanged
  <2>2. QED
    BY <2>1
<1>5. QED
  BY <1>1, <1>2, <1>3, <1>4

\* Both directions of the bridge implement BytePipe.
THEOREM BridgeIsTwoPipes == Spec => Pipes
<1>1. Init => In!Init /\ Out!Init
  BY DEF Init, In!Init, Out!Init
<1>2. IInv /\ IInv' /\ [Next]_vars => [In!Next]_(In!vars) /\ [Out!Next]_(Out!vars)
  BY InStep, OutStep
<1>3. QED
  BY <1>1, <1>2, Invariant, PTL DEF Spec, Pipes, In!Spec, Out!Spec
-----------------------------------------------------------------------------
(* The search for the module.                                              *)

One == Home(1)
OneMoved == Moved(1)
Known == {"app", "laptop", "edl"}

\* A module is at one of its two places, at the second only in download mode.
Plugged ==
    /\ bus \in [Ports -> [who : {0, 1, 2}, product : {"none"} \cup Known \cup Neighbours]]
    /\ \A m \in {1, 2} : bus[Home(m)] = NoDevice \/ bus[Home(m)].who = m
    /\ bus[OneMoved] = NoDevice \/ bus[OneMoved] = At(1, "edl")
    /\ bus[One] = NoDevice \/ bus[One].product \in Known
    /\ away \in [{1, 2} -> {"no"} \cup Known]
    /\ fresh \subseteq Ports

\* The first module has not moved before it is told to.
Untold == away[1] = "no" /\ bus[One] # NoDevice

\* Nobody else makes a module move to a place where this one may be looked for.
Quiet == "gone" \notin troubles /\ (super => "switch" \notin troubles)

BusInv ==
    /\ Plugged
    /\ pc \in {"resolve", "speed", "open", "rescan", "opened", "closed", "failed"}
    /\ pc = "opened" => iface = 0
    /\ Quiet =>
         /\ chosen = 1
         /\ super => away[2] = "no"
         /\ pc \in {"resolve", "speed"} => Untold
         /\ pc \in {"speed", "open", "rescan", "opened"} => path \in {One, OneMoved}
         /\ pc = "speed" => path = One
         /\ pc \in {"open", "rescan"} /\ usb3 => super /\ ((Untold /\ path = One) \/ fresh \subseteq {One, OneMoved})
         /\ pc = "opened" => opened = 1

LEMMA PortsDiffer ==
    /\ One \in Ports /\ OneMoved \in Ports /\ Home(2) \in Ports /\ Moved(2) \in Ports
    /\ One # OneMoved /\ One # Home(2) /\ One # Moved(2)
    /\ OneMoved # Home(2) /\ OneMoved # Moved(2) /\ Home(2) # Moved(2)
    /\ Ports = {One, OneMoved, Home(2), Moved(2)}
BY DEF One, OneMoved, Ports, Home, Moved

LEMMA BusInit == ASSUME SearchInit PROVE BusInv
<1> USE PortsDiffer
<1>1. PICK p1 \in Known, p2 \in Neighbours :
        bus = [p \in Ports |->
              CASE p = One -> At(1, p1)
                [] p = Home(2) /\ p2 # "none" -> At(2, p2)
                [] OTHER -> NoDevice]
  BY DEF SearchInit, Known, One
<1>2. bus[One] = At(1, p1) /\ bus[OneMoved] = NoDevice /\ bus[Moved(2)] = NoDevice
  BY <1>1
<1>3. bus[Home(2)] = IF p2 # "none" THEN At(2, p2) ELSE NoDevice
  BY <1>1
<1>4. Plugged /\ Untold
  <2>1. \A p \in Ports : bus[p] \in [who : {0, 1, 2}, product : {"none"} \cup Known \cup Neighbours]
    BY <1>2, <1>3 DEF At, NoDevice
  <2>2. \A m \in {1, 2} : bus[Home(m)] = NoDevice \/ bus[Home(m)].who = m
    BY <1>2, <1>3 DEF At, One
  <2>3. bus[One].product \in Known /\ bus[One].who = 1
    BY <1>2 DEF At
  <2> QED
    BY <1>1, <1>2, <2>1, <2>2, <2>3 DEF Plugged, Untold, SearchInit, NoDevice
<1> QED
  BY <1>4 DEF BusInv, SearchInit, One

\* The only module of a bus that has the one that was not told to move is that one.
LEMMA OnlyOne ==
    ASSUME Plugged, Untold, Cardinality(Modules) = 1, NEW p \in Modules
    PROVE  p = One
<1>1. One \in Modules
  BY PortsDiffer DEF Modules, IsModule, Plugged, Untold, Known
<1>2. IsFiniteSet(Ports)
  <2>1. IsFiniteSet({One})
    BY FS_Singleton
  <2>2. IsFiniteSet({One} \cup {OneMoved})
    BY <2>1, FS_AddElement
  <2>3. IsFiniteSet(({One} \cup {OneMoved}) \cup {Home(2)})
    BY <2>2, FS_AddElement
  <2>4. IsFiniteSet((({One} \cup {OneMoved}) \cup {Home(2)}) \cup {Moved(2)})
    BY <2>3, FS_AddElement
  <2>5. Ports = (({One} \cup {OneMoved}) \cup {Home(2)}) \cup {Moved(2)}
    BY PortsDiffer
  <2> QED
    BY <2>4, <2>5
<1>3. IsFiniteSet(Modules)
  BY <1>2, FS_Subset DEF Modules
<1>4. PICK x : Modules = {x}
  BY <1>3, FS_Singleton
<1> QED
  BY <1>1, <1>4

LEMMA BusStep == ASSUME BusInv, [SearchNext]_svars PROVE BusInv'
<1> USE PortsDiffer DEF env, search, devvars, MainUnchanged
<1>0. Plugged
  BY DEF BusInv
<1>1. CASE ResolveGiven
  BY <1>1 DEF BusInv, Plugged, Untold, Quiet, ResolveGiven, One
<1>2. CASE ResolveAuto
  <2>1. Plugged'
    BY <1>0, <1>2 DEF Plugged, ResolveAuto
  <2>2. Quiet => Untold
    BY <1>2 DEF BusInv, ResolveAuto
  <2>3. Untold' = Untold /\ Quiet' = Quiet
    BY <1>2 DEF ResolveAuto, Untold, Quiet
  <2>4. Quiet /\ pc' # "failed" => path' = One /\ chosen' = 1
    <3> SUFFICES ASSUME Quiet, pc' # "failed" PROVE path' = One /\ chosen' = 1
      OBVIOUS
    <3>1. Cardinality(Modules) = 1 /\ path' \in Modules /\ chosen' = bus[path'].who
      BY <1>2, Zenon DEF ResolveAuto
    <3>2. path' = One
      BY <1>0, <2>2, <3>1, OnlyOne
    <3>3. bus[One].who = 1
      BY <1>0, <2>2 DEF Plugged, Untold, One
    <3> QED
      BY <3>1, <3>2, <3>3
  <2>5. Quiet => chosen' = 1
    BY <1>2, <2>4 DEF BusInv, ResolveAuto
  <2>6. pc' \in {"speed", "failed"} /\ UNCHANGED <<away, super>>
    BY <1>2 DEF ResolveAuto
  <2> QED
    BY <2>1, <2>2, <2>3, <2>4, <2>5, <2>6 DEF BusInv
<1>3. CASE ReadSpeed
  <2>1. Plugged' /\ Untold' = Untold /\ Quiet' = Quiet
    BY <1>0, <1>3 DEF ReadSpeed, Untold, Quiet, Plugged
  <2>2. Quiet => Untold /\ path = One
    BY <1>3 DEF ReadSpeed, BusInv
  <2>3. Quiet => usb3' = super
    BY <1>3, <2>2 DEF ReadSpeed, Untold
  <2> QED
    BY <1>3, <2>1, <2>2, <2>3 DEF BusInv, ReadSpeed
<1>4. CASE OpenDevice
  <2>1. Quiet /\ pc = "open" => bus[path].who = 1
    <3> SUFFICES ASSUME Quiet PROVE bus[path].who = 1
      OBVIOUS
    <3>1. path \in {One, OneMoved} /\ bus[path] # NoDevice
      BY <1>4 DEF BusInv, OpenDevice, Turn, NoDevice
    <3> QED
      BY <1>0, <3>1 DEF Plugged, One, At
  <2>2. Quiet' = Quiet /\ bus' = bus /\ super' = super /\ chosen' = chosen /\ path' = path /\ usb3' = usb3
    BY <1>4 DEF OpenDevice, Quiet
  <2>3. pc = "open" /\ pc' \in {"open", "opened"} /\ fresh' = {} /\ opened' = bus[path].who
    BY <1>4 DEF OpenDevice, Turn
  <2>4. pc' = "opened" => iface' = 0
    BY <1>4 DEF OpenDevice, Interface
  <2>5. away' = away \/ away' = [away EXCEPT ![bus[path].who] = "edl"]
    BY <1>4 DEF OpenDevice
  <2>6. away' \in [{1, 2} -> {"no"} \cup Known] /\ (Quiet => away'[2] = away[2])
    BY <1>0, <2>1, <2>3, <2>5 DEF Plugged, Known
  <2>7. Plugged'
    BY <1>0, <2>2, <2>3, <2>6 DEF Plugged
  <2> QED
    BY <2>1, <2>2, <2>3, <2>4, <2>6, <2>7 DEF BusInv
<1>5. CASE OpenFails
  BY <1>5 DEF BusInv, Plugged, Untold, Quiet, OpenFails, Turn
<1>6. CASE Rescan
  <2>1. Plugged' /\ Untold' = Untold /\ Quiet' = Quiet
    BY <1>0, <1>6 DEF Rescan, Untold, Quiet, Plugged
  <2>2. pc = "rescan" /\ pc' \in {"open", "failed"} /\ UNCHANGED <<away, super, chosen, usb3, fresh>>
    BY <1>6 DEF Rescan
  <2>3. Quiet /\ pc' = "open" /\ path' # path => path' \in {One, OneMoved} /\ fresh \subseteq {One, OneMoved}
    <3> SUFFICES ASSUME Quiet, pc' = "open", path' # path
                 PROVE  path' \in {One, OneMoved} /\ fresh \subseteq {One, OneMoved}
      OBVIOUS
    <3>1. usb3 /\ bus[path] = NoDevice /\ path' \in NewEdl
      BY <1>6 DEF Rescan
    <3>2. path' \in fresh /\ bus[path'].product = "edl"
      BY <3>1 DEF NewEdl
    <3>3. (Untold /\ path = One) \/ fresh \subseteq {One, OneMoved}
      BY <2>2, <3>1 DEF BusInv
    <3> QED
      BY <3>1, <3>2, <3>3 DEF Untold
  <2> QED
    BY <2>1, <2>2, <2>3 DEF BusInv
<1>7. CASE GiveUp \/ CloseDevice
  BY <1>7 DEF BusInv, Plugged, Untold, Quiet, GiveUp, CloseDevice
<1>8. ASSUME NEW m \in {1, 2}, Leave(m)
      PROVE  BusInv'
  <2> DEFINE p == Home(m)
  <2>1. away[m] # "no" /\ bus' = [bus EXCEPT ![p] = NoDevice] /\ p \in Ports /\ p # OneMoved
    BY <1>8 DEF Leave, Home, OneMoved, Moved, Ports
  <2>2. UNCHANGED <<troubles, super, away, pc, path, usb3, fresh, iface, chosen, opened>>
    BY <1>8 DEF Leave, WorldUnchanged
  <2>3. m = 1 \/ (p # One /\ m = 2)
    BY DEF Home, One
  <2> HIDE DEF p
  <2>4. \A q \in Ports : bus'[q] = IF q = p THEN NoDevice ELSE bus[q]
    BY <1>0, <2>1 DEF Plugged
  <2>5. NoDevice \in [who : {0, 1, 2}, product : {"none"} \cup Known \cup Neighbours]
    BY DEF NoDevice
  <2>6. \A n \in {1, 2} : Home(n) \in Ports
    BY DEF One
  <2>7. Plugged'
    BY <1>0, <2>1, <2>2, <2>4, <2>5, <2>6 DEF Plugged
  <2>8. (Untold => Untold') /\ Quiet' = Quiet
    BY <2>1, <2>2, <2>3, <2>4 DEF Untold, Quiet
  <2> QED
    BY <2>2, <2>7, <2>8 DEF BusInv
<1>9. ASSUME NEW m \in {1, 2}, Arrive(m)
      PROVE  BusInv'
  <2> DEFINE p == IF super /\ away[m] = "edl" THEN Moved(m) ELSE Home(m)
             d == At(m, away[m])
  <2>1. /\ away[m] # "no" /\ bus' = [bus EXCEPT ![p] = d]
        /\ fresh' = fresh \cup {p} /\ away' = [away EXCEPT ![m] = "no"]
        /\ UNCHANGED <<troubles, super, pc, path, usb3, iface, chosen, opened>>
    BY <1>9 DEF Arrive, WorldUnchanged
  <2>2. /\ p \in Ports
        /\ m = 1 => p \in {One, OneMoved}
        /\ m = 2 => p \in {Home(2), Moved(2)}
        /\ p = OneMoved => m = 1 /\ d = At(1, "edl")
        /\ p = One => m = 1
        /\ p = Home(2) => m = 2
    BY DEF One, OneMoved, Ports, Home, Moved
  <2>3. d \in [who : {0, 1, 2}, product : {"none"} \cup Known \cup Neighbours] /\ d.product \in Known /\ d.who = m
    BY <1>0, <2>1 DEF Plugged, At
  <2> HIDE DEF p, d
  <2>4. \A q \in Ports : bus'[q] = IF q = p THEN d ELSE bus[q]
    BY <1>0, <2>1 DEF Plugged
  <2>5. Plugged'
    <3>1. bus' \in [Ports -> [who : {0, 1, 2}, product : {"none"} \cup Known \cup Neighbours]]
      BY <1>0, <2>1, <2>2, <2>3 DEF Plugged
    <3>2. \A n \in {1, 2} : bus'[Home(n)] = NoDevice \/ bus'[Home(n)].who = n
      <4>1. bus'[One] = NoDevice \/ bus'[One].who = 1
        BY <1>0, <2>2, <2>3, <2>4 DEF Plugged, One
      <4>2. bus'[Home(2)] = NoDevice \/ bus'[Home(2)].who = 2
        BY <1>0, <2>2, <2>3, <2>4 DEF Plugged
      <4> QED
        BY <4>1, <4>2 DEF One
    <3>3. bus'[OneMoved] = NoDevice \/ bus'[OneMoved] = At(1, "edl")
      BY <1>0, <2>2, <2>4 DEF Plugged
    <3>4. bus'[One] = NoDevice \/ bus'[One].product \in Known
      BY <1>0, <2>3, <2>4 DEF Plugged
    <3>5. away' \in [{1, 2} -> {"no"} \cup Known] /\ fresh' \subseteq Ports
      BY <1>0, <2>1, <2>2 DEF Plugged
    <3> QED
      BY <3>1, <3>2, <3>3, <3>4, <3>5 DEF Plugged
  <2>6. Quiet' = Quiet /\ (Untold => m = 2 /\ Untold')
    BY <1>0, <2>1, <2>2, <2>4 DEF Untold, Quiet, Plugged
  <2>7. Quiet /\ super => m = 1
    BY <2>1 DEF BusInv
  <2>8. Quiet /\ super => away'[2] = "no"
    BY <1>0, <2>1, <2>7 DEF Plugged, BusInv
  <2> QED
    BY <2>1, <2>2, <2>5, <2>6, <2>7, <2>8 DEF BusInv
<1>10. CASE Neighbour
  <2>1. /\ "switch" \in troubles /\ away' = [away EXCEPT ![2] = "edl"]
        /\ UNCHANGED <<troubles, super, bus, pc, path, usb3, fresh, iface, chosen, opened>>
    BY <1>10 DEF Neighbour, WorldUnchanged
  <2>2. Plugged' /\ Untold' = Untold /\ Quiet' = Quiet /\ (Quiet => ~super)
    BY <1>0, <2>1 DEF Plugged, Untold, Quiet, Known
  <2> QED
    BY <2>1, <2>2 DEF BusInv
<1>11. CASE ResetEarly
  <2>1. /\ "gone" \in troubles /\ bus' = [bus EXCEPT ![One] = NoDevice]
        /\ away' = [away EXCEPT ![1] = bus[One].product] /\ bus[One].product \in Known
        /\ UNCHANGED <<troubles, super, pc, path, usb3, fresh, iface, chosen, opened>>
    BY <1>11 DEF ResetEarly, WorldUnchanged, One, Known
  <2>2. ~Quiet /\ ~Quiet'
    BY <2>1 DEF Quiet
  <2>3. \A q \in Ports : bus'[q] = IF q = One THEN NoDevice ELSE bus[q]
    BY <1>0, <2>1 DEF Plugged
  <2>4. NoDevice \in [who : {0, 1, 2}, product : {"none"} \cup Known \cup Neighbours]
    BY DEF NoDevice
  <2>5. \A n \in {1, 2} : Home(n) \in Ports
    BY DEF One
  <2>6. Plugged'
    BY <1>0, <2>1, <2>3, <2>4, <2>5 DEF Plugged
  <2> QED
    BY <2>1, <2>2, <2>6 DEF BusInv
<1>12. CASE Over \/ UNCHANGED svars
  BY <1>12 DEF BusInv, Plugged, Untold, Quiet, Over, svars, world
<1> QED
  BY <1>1, <1>2, <1>3, <1>4, <1>5, <1>6, <1>7, <1>8, <1>9, <1>10, <1>11, <1>12
     DEF SearchNext, SearchMain, World

\* The device that the stages write to is the one that was asked for, or that was the
\* only one, over its own interface, in every socket it may come back at.
THEOREM OpensTheRightModule == SearchSpec => []RightModule
<1>1. BusInv => RightModule
  BY DEF BusInv, Quiet, RightModule
<1> QED
  BY <1>1, BusInit, BusStep, PTL DEF SearchSpec
=============================================================================
