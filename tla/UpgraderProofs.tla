--------------------------- MODULE UpgraderProofs ---------------------------
(* Proofs about Upgrader, for every number of attempts and every package.  *)
EXTENDS Upgrader, NaturalsInduction, WellFoundedInduction, SequenceTheorems, TLAPS

\* What main knows of its handle at each place.  "closed" may survive in the
\* loop, after stream download, and reach sahara; nothing after it.
HandleInv ==
    /\ pc \in {"start", "check", "refused", "pcie", "open", "serve", "sahara", "download",
               "firehose", "image"}
    /\ retval \in {"none", "usage", "served", "ok", "failed"}
    /\ pc \in {"start", "check", "refused", "pcie", "open"} => handle # "open"
    /\ pc = "download" /\ retval = "none" => handle = "open" /\ seen = "loader"
    /\ pc \in {"firehose", "image"} /\ retval = "none" => handle = "open" /\ seen = "edl"
    /\ retval # "none" => handle # "open" /\ pc # "download"

LEMMA InitHandle == Init => HandleInv
BY DEF Init, HandleInv

\* One step per action; those that leave the handle and the place alone at once.
LEMMA NextHandle == HandleInv /\ [Next]_vars => HandleInv'
<1> SUFFICES ASSUME HandleInv, [Next]_vars PROVE HandleInv'
  OBVIOUS
<1>1. CASE Begin \/ CheckFails \/ Md5Fails \/ Usage \/ CheckPasses
  BY <1>1 DEF HandleInv, Begin, CheckFails, Md5Fails, Usage, CheckPasses, Still, Goto, Fail
<1>2. CASE OpenPcie \/ OpenPcieFails
  BY <1>2 DEF HandleInv, OpenPcie, OpenPcieFails, Still, Goto, Fail
<1>3. CASE OpenDevice
  BY <1>3 DEF HandleInv, OpenDevice, AfterSwitch, AfterLoop, Still, Goto
<1>4. CASE OpenDeviceFails \/ Ambiguous \/ NoMoreAttempts
  BY <1>4 DEF HandleInv, OpenDeviceFails, Ambiguous, NoMoreAttempts, AfterLoop,
              Still, Goto, Fail
<1>5. CASE Serve \/ SaharaDone \/ SaharaFails \/ StreamDownload
  BY <1>5 DEF HandleInv, Serve, SaharaDone, SaharaFails, StreamDownload, Still, Goto, Fail
<1>6. CASE FirehoseBegin \/ SendPiece \/ NextImage
  BY <1>6 DEF HandleInv, FirehoseBegin, SendPiece, NextImage, Still, Goto
<1>7. CASE FirehoseDone \/ FirehoseFails
  BY <1>7 DEF HandleInv, FirehoseDone, FirehoseFails, Still, Fail
<1>8. CASE Return
  BY <1>8 DEF HandleInv, Return, host
<1>9. CASE UNCHANGED vars
  BY <1>9 DEF HandleInv, vars, host
<1> QED
  BY <1>1, <1>2, <1>3, <1>4, <1>5, <1>6, <1>7, <1>8, <1>9 DEF Next, Main, Exited

LEMMA HandleInvariant == Spec => []HandleInv
<1> QED
  BY InitHandle, NextHandle, PTL DEF Spec

\* The stages that write to flash only ever run on the handle of a device that
\* is open and was opened in the mode the stage is for.
THEOREM StagesOnOpenHandle == Spec => []FlashesDownloadMode
<1>1. HandleInv => FlashesDownloadMode
  BY DEF HandleInv, FlashesDownloadMode
<1> QED
  BY <1>1, HandleInvariant, PTL

\* main returns, and opens a device anew, only with the last one closed.
THEOREM HandlesClosed == Spec => []NothingLeftOpen
<1>1. HandleInv => NothingLeftOpen
  BY DEF HandleInv, NothingLeftOpen
<1> QED
  BY <1>1, HandleInvariant, PTL
-----------------------------------------------------------------------------
(* The progress file.                                                      *)

\* A set of numbers that has 0 and with each number the next has them all.
LEMMA Induction ==
    ASSUME NEW S, 0 \in S, \A n \in Nat : n \in S => n + 1 \in S
    PROVE  Nat \subseteq S
<1> DEFINE T == Nat \ S
<1>1. SUFFICES ASSUME T # {} PROVE FALSE
  OBVIOUS
<1>2. PICK x \in T : \A y \in T : x <= y
  <2>1. PICK x \in T : \A y \in T : ~ (<<y, x>> \in OpToRel(<, Nat))
    BY <1>1, WFMin, NatLessThanWellFounded
  <2>2. \A y \in T : <<y, x>> \in OpToRel(<, Nat) <=> y < x
    BY DEF OpToRel
  <2>3. \A y \in T : ~ (y < x)
    BY <2>1, <2>2, Zenon
  <2>4. \A y \in T : x <= y
    BY <2>3
  <2> QED
    BY <2>4
<1>3. x - 1 \in Nat /\ x - 1 \notin T
  BY <1>2
<1> QED
  BY <1>2, <1>3

\* A package has at least one image, and sizes add up image by image.
Image == [size : Nat \ {0}, data : Nat]
Images == Seq(Image) \ { << >> }

LEMMA ImageTypes ==
    ASSUME NEW p \in Images
    PROVE  /\ Len(p) \in Nat \ {0}
           /\ \A k \in 1 .. Len(p) : p[k].size \in Nat \ {0} /\ p[k].data \in Nat
<1>1. p \in Seq(Image) /\ p # << >>
  BY DEF Images
<1>2. \A k \in 1 .. Len(p) : p[k] \in Image
  BY <1>1
<1>3. \A q \in Image : q.size \in Nat \ {0} /\ q.data \in Nat
  BY DEF Image
<1> QED
  BY <1>1, <1>2, <1>3

LEMMA SizesExist ==
    ASSUME NEW p \in Images
    PROVE  \E s \in [0 .. Len(p) -> Nat] :
              s = [n \in 0 .. Len(p) |-> IF n = 0 THEN 0 ELSE s[n - 1] + p[n].size]
<1> DEFINE Adds(s, n) == s[0] = 0 /\ \A k \in 1 .. n : s[k] = s[k - 1] + p[k].size
           G == {n \in Nat : n <= Len(p) => \E s \in [0 .. n -> Nat] : Adds(s, n)}
<1>0. Len(p) \in Nat /\ \A k \in 1 .. Len(p) : p[k].size \in Nat
  BY ImageTypes
<1>1. 0 \in G
  <2>1. [k \in 0 .. 0 |-> 0] \in [0 .. 0 -> Nat] /\ Adds([k \in 0 .. 0 |-> 0], 0)
    OBVIOUS
  <2>2. \E s \in [0 .. 0 -> Nat] : Adds(s, 0)
    BY <2>1
  <2> QED
    BY <2>2
<1>2. ASSUME NEW n \in Nat, n \in G, n + 1 <= Len(p)
      PROVE  \E s \in [0 .. n + 1 -> Nat] : Adds(s, n + 1)
  <2>0. n <= Len(p)
    BY <1>0, <1>2
  <2>1. PICK s \in [0 .. n -> Nat] : Adds(s, n)
    <3> HIDE DEF Adds
    <3> QED
      BY <1>2, <2>0
  <2> DEFINE t == [k \in 0 .. n + 1 |-> IF k = n + 1 THEN s[n] + p[n + 1].size ELSE s[k]]
  <2>2. t \in [0 .. n + 1 -> Nat]
    <3>1. s[n] + p[n + 1].size \in Nat
      BY <1>0, <1>2, <2>1
    <3> QED
      BY <2>1, <3>1
  <2>3. Adds(t, n + 1)
    BY <2>1
  <2> HIDE DEF t
  <2> QED
    BY <2>2, <2>3
<1>3. Len(p) \in G
  <2>1. ASSUME NEW n \in Nat, n \in G PROVE n + 1 \in G
    <3>1. n + 1 <= Len(p) => \E s \in [0 .. n + 1 -> Nat] : Adds(s, n + 1)
      BY <1>2, <2>1
    <3> HIDE DEF Adds
    <3> QED
      BY <3>1
  <2> HIDE DEF G
  <2> QED
    BY <1>0, <1>1, <2>1, Induction
<1>4. PICK s \in [0 .. Len(p) -> Nat] : Adds(s, Len(p))
  BY <1>0, <1>3, SMTT(30)
<1>5. s = [n \in 0 .. Len(p) |-> IF n = 0 THEN 0 ELSE s[n - 1] + p[n].size]
  BY <1>0, <1>4
<1> QED
  BY <1>5

LEMMA SizesAdd ==
    ASSUME NEW p \in Images
    PROVE  /\ FileSizes(p) \in [0 .. Len(p) -> Nat]
           /\ FileSizes(p)[0] = 0
           /\ \A n \in 1 .. Len(p) : FileSizes(p)[n] = FileSizes(p)[n - 1] + p[n].size
<1>1. PICK s : s = [n \in 0 .. Len(p) |-> IF n = 0 THEN 0 ELSE s[n - 1] + p[n].size]
  BY SizesExist
<1>2. FileSizes(p) = [n \in 0 .. Len(p) |-> IF n = 0 THEN 0 ELSE FileSizes(p)[n - 1] + p[n].size]
  BY <1>1, Zenon DEF FileSizes
<1>t. Len(p) \in Nat \ {0} /\ \A k \in 1 .. Len(p) : p[k].size \in Nat \ {0}
  BY ImageTypes
<1> DEFINE f == FileSizes(p)
           G == {n \in Nat : n <= Len(p) => f[n] \in Nat}
<1>3. /\ DOMAIN f = 0 .. Len(p) /\ f[0] = 0
      /\ \A n \in 1 .. Len(p) : f[n] = f[n - 1] + p[n].size
  <2> HIDE DEF f
  <2>1. f = [n \in 0 .. Len(p) |-> IF n = 0 THEN 0 ELSE f[n - 1] + p[n].size]
    BY <1>2 DEF f
  <2> QED
    BY <1>t, <2>1
<1> HIDE DEF f
<1>4. 0 \in G
  BY <1>3
<1>5. \A n \in Nat : n \in G => n + 1 \in G
  <2> SUFFICES ASSUME NEW n \in Nat, n \in G, n + 1 <= Len(p) PROVE f[n + 1] \in Nat
    OBVIOUS
  <2>1. f[n] \in Nat /\ f[n + 1] = f[n] + p[n + 1].size /\ p[n + 1].size \in Nat
    BY <1>t, <1>3
  <2> QED
    BY <2>1
<1>6. Nat \subseteq G
  <2> HIDE DEF G
  <2> QED
    BY <1>4, <1>5, Induction
<1>7. \A n \in 0 .. Len(p) : f[n] \in Nat
  BY <1>t, <1>6
<1>8. f \in [0 .. Len(p) -> Nat]
  <2>1. f = [n \in 0 .. Len(p) |-> f[n]]
    BY <1>2, <1>3 DEF f
  <2> QED
    BY <1>7, <2>1
<1> QED
  BY <1>3, <1>8 DEF f

\* What has been added up is part of the total.
LEMMA SizesGrow ==
    ASSUME NEW p \in Images, NEW n \in 0 .. Len(p)
    PROVE  FileSizes(p)[n] <= Total(p)
<1>t. Len(p) \in Nat /\ \A k \in 1 .. Len(p) : p[k].size \in Nat
  BY ImageTypes
<1> DEFINE f == FileSizes(p)
           G == {k \in Nat : n + k <= Len(p) => f[n] <= f[n + k]}
<1>1. /\ \A k \in 0 .. Len(p) : f[k] \in Nat
      /\ \A k \in 1 .. Len(p) : f[k] = f[k - 1] + p[k].size
  BY SizesAdd
<1> HIDE DEF f
<1>2. 0 \in G
  BY <1>1
<1>3. \A k \in Nat : k \in G => k + 1 \in G
  <2> SUFFICES ASSUME NEW k \in Nat, k \in G, n + (k + 1) <= Len(p) PROVE f[n] <= f[n + (k + 1)]
    OBVIOUS
  <2>1. n + (k + 1) \in 1 .. Len(p) /\ n + (k + 1) - 1 = n + k /\ n + k \in 0 .. Len(p)
    BY <1>t
  <2>2. f[n + (k + 1)] = f[n + k] + p[n + (k + 1)].size /\ p[n + (k + 1)].size \in Nat
    BY <1>t, <1>1, <2>1
  <2>3. f[n] \in Nat /\ f[n + k] \in Nat /\ f[n] <= f[n + k]
    BY <1>t, <1>1, <2>1
  <2> QED
    BY <2>2, <2>3
<1>4. Len(p) - n \in G
  <2> HIDE DEF G
  <2>1. Nat \subseteq G
    BY <1>2, <1>3, Induction
  <2> QED
    BY <1>t, <2>1
<1>5. n + (Len(p) - n) = Len(p)
  BY <1>t
<1> QED
  BY <1>t, <1>4, <1>5 DEF f, Total

\* Percentages.
LEMMA Quotient ==
    ASSUME NEW a \in Nat, NEW n \in Nat \ {0}
    PROVE  (a \div n) \in Nat /\ n * (a \div n) <= a /\ a < n * (a \div n) + n
OBVIOUS

LEMMA Times ==
    ASSUME NEW a \in Nat, NEW b \in Nat, NEW n \in Nat, a <= b
    PROVE  n * a <= n * b
OBVIOUS

LEMMA QuotientGrows ==
    ASSUME NEW a \in Nat, NEW b \in Nat, NEW n \in Nat \ {0}, a <= b
    PROVE  (a \div n) <= (b \div n)
<1> DEFINE p == a \div n
           q == b \div n
<1>1. p \in Nat /\ n * p <= a /\ a < n * p + n /\ q \in Nat /\ n * q <= b /\ b < n * q + n
  BY Quotient
<1>2. SUFFICES ASSUME q + 1 <= p PROVE FALSE
  <2> HIDE DEF p, q
  <2> SUFFICES p <= q
    BY DEF p, q
  <2> QED
    BY <1>1
<1> HIDE DEF p, q
<1>3. n * (q + 1) <= n * p /\ n * (q + 1) = n * q + n
  BY <1>1, <1>2, Times
<1> QED
  BY <1>1, <1>3

\* A hundred per cent is everything, and nothing less.
LEMMA Percentage ==
    ASSUME NEW t \in Nat, NEW n \in Nat \ {0}, t <= n
    PROVE  (t * 100) \div n \in 0 .. 100 /\ ((t * 100) \div n = 100 <=> t = n)
<1> DEFINE p == (t * 100) \div n
<1>1. p \in Nat /\ n * p <= t * 100 /\ t * 100 < n * p + n
  BY Quotient
<1> HIDE DEF p
<1>2. p <= 100
  <2>1. SUFFICES ASSUME 101 <= p PROVE FALSE
    BY <1>1
  <2>2. n * 101 <= n * p
    BY <1>1, <2>1, Times
  <2> QED
    BY <1>1, <2>2
<1>3. ASSUME p = 100 PROVE t = n
  BY <1>1, <1>3
<1>4. ASSUME t = n PROVE p = 100
  <2>1. SUFFICES ASSUME p <= 99 PROVE FALSE
    BY <1>1, <1>2
  <2>2. n * p <= n * 99
    BY <1>1, <2>1, Times
  <2> QED
    BY <1>1, <1>4, <2>2
<1> QED
  BY <1>1, <1>2, <1>3, <1>4 DEF p

-----------------------------------------------------------------------------
\* Texts, and that none is shorter than what it is written over.
Characters == {"-", "0", "1", "2", "3", "4", "5", "6", "7", "8", "9"}

LEMMA Digits == \A d \in 0 .. 9 : Digit(d) \in Characters
BY DEF Digit, Characters

LEMMA Short ==
    /\ \A a \in Characters : << a >> \in Seq(Characters) /\ Len(<< a >>) = 1
    /\ \A a, b \in Characters : << a, b >> \in Seq(Characters) /\ Len(<< a, b >>) = 2
    /\ \A a, b, c \in Characters : << a, b, c >> \in Seq(Characters) /\ Len(<< a, b, c >>) = 3
OBVIOUS

LEMMA Texts ==
    /\ \A p \in 0 .. 9 : Text(p) \in Seq(Characters) /\ Len(Text(p)) = 1
    /\ \A p \in 10 .. 99 : Text(p) \in Seq(Characters) /\ Len(Text(p)) = 2
    /\ Text(100) \in Seq(Characters) /\ Len(Text(100)) = 3
    /\ Text(-1) \in Seq(Characters) /\ Len(Text(-1)) = 2
<1>1. ASSUME NEW p \in 0 .. 9 PROVE Text(p) \in Seq(Characters) /\ Len(Text(p)) = 1
  <2>1. Text(p) = << Digit(p) >> /\ Digit(p) \in Characters
    BY Digits, SMTT(30) DEF Text
  <2> QED
    BY <2>1, Short
<1>2. ASSUME NEW p \in 10 .. 99 PROVE Text(p) \in Seq(Characters) /\ Len(Text(p)) = 2
  <2>1. Digit(p \div 10) \in Characters /\ Digit(p % 10) \in Characters
    <3>1. p \div 10 \in 0 .. 9 /\ p % 10 \in 0 .. 9
      OBVIOUS
    <3> QED
      BY <3>1, Digits
  <2>2. Text(p) = << Digit(p \div 10), Digit(p % 10) >>
    <3> DEFINE a == Digit(p \div 10)
               b == Digit(p % 10)
    <3>1. ~(p < 0) /\ p \notin 0 .. 9 /\ p \notin 100 .. 999
      OBVIOUS
    <3>2. Text(p) = CASE p < 0 -> << "-", Digit(0 - p) >>
                      [] p \in 0 .. 9 -> << Digit(p) >>
                      [] p \in 10 .. 99 -> << a, b >>
                      [] p \in 100 .. 999 ->
                            << Digit(p \div 100), Digit((p \div 10) % 10), Digit(p % 10) >>
      BY Zenon DEF Text
    <3> HIDE DEF a, b
    <3>3. Text(p) = << a, b >>
      BY <3>1, <3>2
    <3> QED
      BY <3>3 DEF a, b
  <2> QED
    BY <2>1, <2>2, Short
<1>3. Text(100) \in Seq(Characters) /\ Len(Text(100)) = 3
  <2>1. Text(100) = << Digit(1), Digit(0), Digit(0) >>
    BY DEF Text
  <2>2. Digit(1) \in Characters /\ Digit(0) \in Characters
    BY Digits
  <2>3. << Digit(1), Digit(0), Digit(0) >> \in Seq(Characters)
        /\ Len(<< Digit(1), Digit(0), Digit(0) >>) = 3
    BY <2>2, Short
  <2> QED
    BY <2>1, <2>3, Zenon
<1>4. Text(-1) \in Seq(Characters) /\ Len(Text(-1)) = 2
  <2>1. Text(-1) = << "-", Digit(1) >>
    BY DEF Text
  <2>2. Digit(1) \in Characters /\ "-" \in Characters
    BY Digits DEF Characters
  <2>3. << "-", Digit(1) >> \in Seq(Characters) /\ Len(<< "-", Digit(1) >>) = 2
    BY <2>2, Short
  <2> QED
    BY <2>1, <2>3, Zenon
<1> QED
  BY <1>1, <1>2, <1>3, <1>4

LEMMA OverShorter ==
    ASSUME NEW new \in Seq(Characters), NEW old \in Seq(Characters), Len(old) <= Len(new)
    PROVE  Over(new, old) = new
<1>1. SubSeq(old, Len(new) + 1, Len(old)) = << >>
  OBVIOUS
<1>2. new \o << >> = new
  OBVIOUS
<1> QED
  BY <1>1, <1>2 DEF Over

\* What a reader finds after the next percentage, or after -1.
LEMMA ShowText ==
    ASSUME fd = "open", lastPercent \in 0 .. 99, text = Text(lastPercent),
           NEW p \in (0 .. 100) \cup {-1}, p = -1 \/ lastPercent <= p, Show(p)
    PROVE  /\ lastPercent' = p /\ text' = Text(p)
           /\ fd' = IF p \in {100, -1} THEN "closed" ELSE "open"
<1>1. CASE p = lastPercent
  BY <1>1 DEF Show
<1>2. CASE p # lastPercent
  <2>1. Over(Text(p), text) = Text(p)
    <3>1. Text(p) \in Seq(Characters) /\ text \in Seq(Characters)
      <4>1. /\ p = -1 \/ p = 100 \/ p \in 0 .. 9 \/ p \in 10 .. 99
            /\ lastPercent \in 0 .. 9 \/ lastPercent \in 10 .. 99
        OBVIOUS
      <4> QED
        BY <4>1, Texts
    <3>2. Len(text) <= Len(Text(p))
      <4>1. CASE p \in 0 .. 9
        <5>1. lastPercent \in 0 .. 9
          BY <4>1
        <5>2. Len(text) = 1 /\ Len(Text(p)) = 1
          BY <4>1, <5>1, Texts
        <5> QED
          BY <5>2
      <4>2. CASE p \notin 0 .. 9
        <5>1. Len(Text(p)) = 2 \/ Len(Text(p)) = 3
          <6>1. p = -1 \/ p = 100 \/ p \in 10 .. 99
            BY <4>2
          <6> QED
            BY <6>1, Texts
        <5>2. Len(text) = 1 \/ Len(text) = 2
          <6>1. lastPercent \in 0 .. 9 \/ lastPercent \in 10 .. 99
            OBVIOUS
          <6> QED
            BY <6>1, Texts
        <5> QED
          BY <5>1, <5>2, SMTT(30)
      <4> QED
        BY <4>1, <4>2
    <3> QED
      BY <3>1, <3>2, OverShorter
  <2>2. WriteFile(p) /\ lastPercent' = p
    BY <1>2 DEF Show
  <2>3. text' = Text(p)
    BY <2>1, <2>2 DEF WriteFile
  <2>4. fd' = IF p \in {100, -1} THEN "closed" ELSE "open"
    BY <2>2 DEF WriteFile
  <2> QED
    BY <2>2, <2>3, <2>4
<1> QED
  BY <1>1, <1>2

-----------------------------------------------------------------------------
\* No more bytes of a file are sent than its size; of a package without sparse
\* images and gpt_empty0.bin every byte is.
Within == \A n \in DOMAIN package : package[n].data <= package[n].size
Dense == \A n \in DOMAIN package : package[n].data = package[n].size

\* The percentage that belongs to what has been sent.
Percent == (transferred * 100) \div all

\* What the file reads, by what has been reported.
FileInv ==
    /\ fd \in {"unopened", "open", "closed"}
    /\ fd = "unopened" <=> pc = "start"
    /\ pc = "start" => lastPercent = -1 /\ retval = "none"
    /\ fd = "open" => lastPercent \in 0 .. 99 /\ text = Text(lastPercent) /\ retval # "failed"
    /\ fd = "closed" => \/ lastPercent = 100 /\ text = Text(100) /\ retval # "failed"
                        \/ lastPercent = -1 /\ text \in {Text(100), Text(-1)} /\ retval = "failed"
    /\ pc # "image" /\ retval # "failed" /\ fd # "unopened" => lastPercent = 0

\* What has been reported, by what has been sent of the images.
SentInv ==
    /\ package \in Images /\ image \in 1 .. Len(package)
    /\ pc # "image" => image = 1 /\ retval # "ok"
    /\ pc = "image" =>
          /\ all = Total(package) /\ transferred \in Nat /\ left \in Nat
          /\ transferred + left <= FileSizes(package)[image]
          /\ Dense => transferred + left = FileSizes(package)[image]
          /\ retval # "failed" => lastPercent = Percent
    /\ retval = "failed" /\ text = Text(100) => pc = "image" /\ transferred = all
    /\ retval = "ok" => image = Len(package) /\ left = 0

ProgressInv == FileInv /\ SentInv

LEMMA TextsDiffer ==
    /\ \A p \in 0 .. 99 : Text(p) # Text(100)
    /\ Text(-1) # Text(100)
<1>1. ASSUME NEW p \in 0 .. 99 PROVE Text(p) # Text(100)
  <2>1. p \in 0 .. 9 \/ p \in 10 .. 99
    OBVIOUS
  <2>2. (Len(Text(p)) = 1 \/ Len(Text(p)) = 2) /\ Len(Text(100)) = 3
    BY <2>1, Texts
  <2> QED
    BY <2>2
<1>2. Len(Text(-1)) = 2 /\ Len(Text(100)) = 3
  BY Texts
<1> QED
  BY <1>1, <1>2

LEMMA AllIs ==
    ASSUME SentInv, pc = "image"
    PROVE  /\ all \in Nat \ {0} /\ transferred \in Nat /\ left \in Nat
           /\ transferred + left <= all
           /\ Dense /\ image = Len(package) => transferred + left = all
<1>1. package \in Images /\ Len(package) \in Nat \ {0} /\ image \in 0 .. Len(package)
  BY ImageTypes DEF SentInv
<1>2. FileSizes(package)[image] <= all /\ all = FileSizes(package)[Len(package)]
  BY <1>1, SizesGrow DEF SentInv, Total
<1>3. /\ FileSizes(package) \in [0 .. Len(package) -> Nat] /\ FileSizes(package)[0] = 0
      /\ FileSizes(package)[1] = FileSizes(package)[0] + package[1].size
      /\ package[1].size \in Nat \ {0}
  BY <1>1, SizesAdd, ImageTypes
<1>4. FileSizes(package)[1] <= all
  BY <1>1, <1>2, SizesGrow DEF Total
<1>5. all \in Nat /\ FileSizes(package)[image] \in Nat /\ FileSizes(package)[1] \in Nat \ {0}
  BY <1>1, <1>2, <1>3
<1> HIDE DEF Dense
<1>6. /\ transferred \in Nat /\ left \in Nat /\ transferred + left <= FileSizes(package)[image]
      /\ Dense => transferred + left = FileSizes(package)[image]
  BY DEF SentInv
<1> QED
  BY <1>2, <1>4, <1>5, <1>6

LEMMA InitProgress == Init => ProgressInv
<1> SUFFICES ASSUME Init PROVE ProgressInv
  OBVIOUS
<1>1. package \in Images /\ Len(package) \in Nat \ {0}
  <2>1. package \in Images
    BY UpgraderAssumption DEF Init, Images, Image, UpgraderAssumption
  <2> QED
    BY <2>1, ImageTypes
<1> QED
  BY <1>1 DEF Init, ProgressInit, ProgressInv, FileInv, SentInv

\* What main does but report and send.
LEMMA QuietStep ==
    ASSUME ProgressInv, UNCHANGED <<package, image, progress>>, pc \notin {"start", "image"},
           pc' \notin {"start", "image"}, retval = "none", retval' \in {"none", "usage", "served"}
    PROVE  ProgressInv'
<1>1. UNCHANGED <<all, transferred, lastPercent, fd, text>>
  BY DEF progress
<1>2. fd # "unopened" /\ lastPercent = 0
  BY DEF ProgressInv, FileInv
<1>3. FileInv'
  BY <1>1, <1>2 DEF ProgressInv, FileInv
<1>4. SentInv'
  BY <1>1 DEF ProgressInv, SentInv
<1> QED
  BY <1>3, <1>4 DEF ProgressInv

\* A failure, wherever it is: 100 is left behind when everything was sent.
LEMMA FailStep ==
    ASSUME ProgressInv, Fail, retval = "none", pc # "start", UNCHANGED <<package, image>>,
           (pc = "image") <=> (pc' = "image"), pc' # "start", pc = "image" => left' = left
    PROVE  ProgressInv'
<1>0. /\ retval' = "failed" /\ Show(-1) /\ UNCHANGED <<all, transferred>>
      /\ fd \in {"open", "closed"}
  BY DEF Fail, Report, ProgressInv, FileInv
<1>1. CASE fd = "open"
  <2>1. lastPercent \in 0 .. 99 /\ text = Text(lastPercent)
    BY <1>1 DEF ProgressInv, FileInv
  <2>2. lastPercent' = -1 /\ text' = Text(-1) /\ fd' = "closed"
    BY <1>0, <1>1, <2>1, ShowText
  <2>3. FileInv'
    BY <1>0, <2>2 DEF FileInv
  <2>4. SentInv'
    BY <1>0, <2>2, TextsDiffer DEF ProgressInv, SentInv, Dense
  <2> QED
    BY <2>3, <2>4 DEF ProgressInv
<1>2. CASE fd = "closed"
  <2>1. lastPercent = 100 /\ text = Text(100)
    BY <1>0, <1>2 DEF ProgressInv, FileInv
  <2>2. pc = "image" /\ lastPercent = Percent
    BY <1>2, <2>1 DEF ProgressInv, FileInv, SentInv
  <2>3. transferred = all
    <3>1. all \in Nat \ {0} /\ transferred \in Nat /\ left \in Nat /\ transferred + left <= all
      BY <2>2, AllIs DEF ProgressInv
    <3>2. transferred <= all
      BY <3>1
    <3>3. (transferred * 100) \div all = 100
      BY <2>1, <2>2 DEF Percent
    <3> QED
      BY <3>1, <3>2, <3>3, Percentage
  <2>4. lastPercent' = -1 /\ text' = text /\ fd' = "closed"
    BY <1>0, <1>2, <2>1 DEF Show, WriteFile
  <2>5. FileInv'
    BY <1>0, <2>1, <2>4 DEF FileInv
  <2>6. SentInv'
    BY <1>0, <2>2, <2>3, <2>4 DEF ProgressInv, SentInv, Dense
  <2> QED
    BY <2>5, <2>6 DEF ProgressInv
<1> QED
  BY <1>0, <1>1, <1>2

LEMMA BeginStep == ASSUME ProgressInv, Begin PROVE ProgressInv'
<1>1. /\ pc = "start" /\ pc' = "check" /\ Show(0) /\ UNCHANGED <<package, image, retval, all, transferred>>
  BY DEF Begin, Still, Goto, Report
<1>2. fd = "unopened" /\ lastPercent = -1 /\ retval = "none"
  BY <1>1 DEF ProgressInv, FileInv
<1>3. lastPercent' = 0 /\ fd' = "open" /\ text' = Text(0)
  BY <1>1, <1>2 DEF Show, WriteFile
<1>4. FileInv'
  BY <1>1, <1>2, <1>3 DEF FileInv
<1>5. SentInv'
  BY <1>1, <1>2 DEF ProgressInv, SentInv
<1> QED
  BY <1>4, <1>5 DEF ProgressInv

LEMMA Hundredfold ==
    ASSUME NEW a \in Nat, NEW b \in Nat, a <= b
    PROVE  a * 100 \in Nat /\ b * 100 \in Nat /\ a * 100 <= b * 100
OBVIOUS

LEMMA NothingSent == ASSUME NEW n \in Nat \ {0} PROVE (0 * 100) \div n = 0
<1>1. 0 * 100 = 0
  OBVIOUS
<1>2. 0 \div n = 0
  OBVIOUS
<1> QED
  BY <1>1, <1>2

LEMMA FirehoseBeginStep ==
    ASSUME ProgressInv, Within, FirehoseBegin
    PROVE  ProgressInv'
<1>1. /\ pc = "firehose" /\ retval = "none" /\ pc' = "image" /\ all' = Total(package)
      /\ transferred' = 0 /\ left' = package[image].data
      /\ UNCHANGED <<package, image, retval, lastPercent, fd, text>>
  BY DEF FirehoseBegin, Still, Goto, SetAll
<1>2. /\ image = 1 /\ package \in Images /\ Len(package) \in Nat \ {0}
      /\ fd # "unopened" /\ lastPercent = 0
  BY <1>1, ImageTypes DEF ProgressInv, FileInv, SentInv
<1>3. /\ FileSizes(package)[1] = package[1].size
      /\ package[1].size \in Nat /\ package[1].data \in Nat
  <2>1. 1 \in 1 .. Len(package) /\ 1 - 1 = 0
    BY <1>2
  <2>2. FileSizes(package)[1] = FileSizes(package)[1 - 1] + package[1].size /\ FileSizes(package)[0] = 0
    BY <1>2, <2>1, SizesAdd
  <2>3. package[1].size \in Nat /\ package[1].data \in Nat
    BY <1>2, <2>1, ImageTypes
  <2> QED
    BY <2>1, <2>2, <2>3
<1>4. package[1].data <= package[1].size /\ (Dense => package[1].data = package[1].size)
  <2>1. 1 \in DOMAIN package
    BY <1>2 DEF Images
  <2> QED
    BY <2>1 DEF Within, Dense
<1>5. FileInv'
  BY <1>1, <1>2 DEF ProgressInv, FileInv
<1>6. all' \in Nat \ {0}
  <2>1. FileSizes(package)[1] <= Total(package) /\ Total(package) \in Nat
    BY <1>2, SizesGrow, SizesAdd DEF Total
  <2>2. package[1].size # 0
    BY <1>2, ImageTypes
  <2> QED
    BY <1>1, <1>3, <2>1, <2>2
<1>7. Percent' = 0
  <2>1. Percent' = (0 * 100) \div all'
    BY <1>1 DEF Percent
  <2> QED
    BY <1>6, <2>1, NothingSent
<1>8. transferred' + left' = package[1].data
  BY <1>1, <1>2, <1>3
<1>9. SentInv'
  BY <1>1, <1>2, <1>3, <1>4, <1>7, <1>8 DEF ProgressInv, SentInv, Dense
<1> QED
  BY <1>5, <1>9 DEF ProgressInv

LEMMA PieceStep ==
    ASSUME ProgressInv, SendPiece
    PROVE  ProgressInv'
<1> DEFINE n == IF left < Payload THEN left ELSE Payload
<1>1. /\ pc = "image" /\ retval = "none" /\ left > 0 /\ left' = left - n
      /\ transferred' = transferred + n /\ Show((transferred' * 100) \div all)
      /\ UNCHANGED <<package, image, retval, pc, all>>
  BY DEF SendPiece, Still, Add
<1>2. all \in Nat \ {0} /\ transferred \in Nat /\ left \in Nat /\ transferred + left <= all
  BY <1>1, AllIs DEF ProgressInv
<1>3. n \in Nat /\ n <= left
  BY <1>2, UpgraderAssumption DEF UpgraderAssumption
<1> HIDE DEF n
<1> DEFINE p == (transferred' * 100) \div all
<1>4. transferred' \in Nat /\ left' \in Nat /\ transferred' + left' = transferred + left
      /\ transferred < all /\ transferred' <= all /\ transferred <= transferred'
  BY <1>1, <1>2, <1>3
<1>5. lastPercent = (transferred * 100) \div all
  BY <1>1 DEF ProgressInv, SentInv, Percent
<1>6. lastPercent \in 0 .. 99
  <2>1. transferred <= all /\ transferred # all
    BY <1>2, <1>4
  <2>2. lastPercent \in 0 .. 100 /\ lastPercent # 100
    BY <1>2, <1>5, <2>1, Percentage
  <2> QED
    BY <2>2
<1>7. fd = "open" /\ text = Text(lastPercent)
  BY <1>1, <1>6 DEF ProgressInv, FileInv
<1>8. p \in 0 .. 100 /\ lastPercent <= p
  <2>1. p \in 0 .. 100
    BY <1>2, <1>4, Percentage
  <2>2. transferred * 100 \in Nat /\ transferred' * 100 \in Nat /\ transferred * 100 <= transferred' * 100
    BY <1>2, <1>4, Hundredfold
  <2>3. (transferred * 100) \div all <= (transferred' * 100) \div all
    BY <1>2, <2>2, QuotientGrows
  <2> QED
    BY <1>5, <2>1, <2>3
<1>9. Show(p)
  BY <1>1
<1> HIDE DEF p
<1>10. /\ lastPercent' = p /\ text' = Text(p) /\ fd' = IF p \in {100, -1} THEN "closed" ELSE "open"
  BY <1>6, <1>7, <1>8, <1>9, ShowText
<1>11. FileInv'
  BY <1>1, <1>8, <1>10 DEF FileInv
<1>12. SentInv'
  <2>1. lastPercent' = Percent'
    BY <1>1, <1>10 DEF Percent, p
  <2> QED
    BY <1>1, <1>4, <2>1 DEF ProgressInv, SentInv, Dense
<1> QED
  BY <1>11, <1>12 DEF ProgressInv

LEMMA NextImageStep ==
    ASSUME ProgressInv, Within, NextImage
    PROVE  ProgressInv'
<1>1. /\ pc = "image" /\ retval = "none" /\ left = 0 /\ image < Len(package) /\ image' = image + 1
      /\ left' = package[image'].data /\ UNCHANGED <<package, retval, pc, progress>>
  BY DEF NextImage, Still
<1>p. UNCHANGED <<all, transferred, lastPercent, fd, text>>
  BY <1>1 DEF progress
<1>2. /\ package \in Images /\ Len(package) \in Nat \ {0} /\ image \in 1 .. Len(package)
      /\ transferred \in Nat /\ transferred + left <= FileSizes(package)[image]
      /\ Dense => transferred + left = FileSizes(package)[image]
  BY <1>1, ImageTypes DEF ProgressInv, SentInv
<1>3. image + 1 \in 1 .. Len(package) /\ (image + 1) - 1 = image
  BY <1>1, <1>2
<1>4. /\ FileSizes(package)[image + 1] = FileSizes(package)[image] + package[image + 1].size
      /\ FileSizes(package)[image] \in Nat
      /\ package[image + 1].size \in Nat /\ package[image + 1].data \in Nat
  <2>1. FileSizes(package)[image + 1] = FileSizes(package)[(image + 1) - 1] + package[image + 1].size
    BY <1>2, <1>3, SizesAdd
  <2>2. FileSizes(package)[image] \in Nat
    BY <1>2, SizesAdd
  <2> QED
    BY <1>2, <1>3, <2>1, <2>2, ImageTypes
<1>5. package[image + 1].data <= package[image + 1].size
      /\ (Dense => package[image + 1].data = package[image + 1].size)
  <2>1. image + 1 \in DOMAIN package
    BY <1>2, <1>3 DEF Images
  <2> QED
    BY <2>1 DEF Within, Dense
<1>6. /\ transferred' + left' <= FileSizes(package)[image']
      /\ Dense => transferred' + left' = FileSizes(package)[image']
  <2> HIDE DEF Dense
  <2> QED
    BY <1>1, <1>p, <1>2, <1>4, <1>5
<1>7. FileInv'
  BY <1>1, <1>p DEF ProgressInv, FileInv
<1>8. SentInv'
  BY <1>1, <1>p, <1>2, <1>3, <1>4, <1>6 DEF ProgressInv, SentInv, Dense, Percent
<1> QED
  BY <1>7, <1>8 DEF ProgressInv

LEMMA FirehoseDoneStep ==
    ASSUME ProgressInv, FirehoseDone
    PROVE  ProgressInv'
<1>1. /\ pc = "image" /\ left = 0 /\ image = Len(package) /\ retval = "none" /\ retval' = "ok"
      /\ UNCHANGED <<package, image, left, pc, all, transferred, lastPercent, fd, text>>
  BY DEF FirehoseDone, Still, progress
<1>2. FileInv'
  BY <1>1 DEF ProgressInv, FileInv
<1>3. SentInv'
  BY <1>1 DEF ProgressInv, SentInv, Dense, Percent
<1> QED
  BY <1>2, <1>3 DEF ProgressInv

LEMMA MainProgress ==
    ASSUME HandleInv, ProgressInv, Within, Main
    PROVE  ProgressInv'
<1>1. CASE CheckFails \/ Md5Fails \/ OpenPcieFails \/ Ambiguous \/ SaharaFails \/ FirehoseFails
  <2>1. /\ Fail /\ retval = "none" /\ UNCHANGED <<package, image, left>>
        /\ pc # "start" /\ pc' # "start" /\ (pc = "image" <=> pc' = "image")
    BY <1>1 DEF CheckFails, Md5Fails, OpenPcieFails, Ambiguous, SaharaFails, FirehoseFails, Still, Goto
  <2> QED
    BY <2>1, FailStep
<1>2. CASE NoMoreAttempts
  <2>1. CASE Fail
    BY <1>2, <2>1, FailStep DEF NoMoreAttempts, Still, Goto, AfterLoop
  <2>2. CASE ~Fail
    BY <1>2, <2>2, QuietStep DEF NoMoreAttempts, Still, Goto, AfterLoop
  <2> QED
    BY <2>1, <2>2
<1>3. CASE Usage \/ CheckPasses \/ OpenPcie \/ OpenDevice \/ OpenDeviceFails \/ Serve
           \/ SaharaDone \/ StreamDownload
  <2>1. /\ UNCHANGED <<package, image, progress>> /\ retval = "none"
        /\ retval' \in {"none", "usage", "served"} /\ pc \notin {"start", "image"}
        /\ pc' \notin {"start", "image"}
    BY <1>3 DEF Usage, CheckPasses, OpenPcie, OpenDevice, OpenDeviceFails, Serve, SaharaDone,
                StreamDownload, Still, Goto, AfterLoop, AfterSwitch
  <2> QED
    BY <2>1, QuietStep
<1> QED
  BY <1>1, <1>2, <1>3, BeginStep, FirehoseBeginStep, PieceStep, NextImageStep, FirehoseDoneStep DEF Main

LEMMA NextProgress ==
    ASSUME HandleInv, ProgressInv, Within, [Next]_vars
    PROVE  ProgressInv'
<1>1. CASE Main
  BY <1>1, MainProgress
<1>2. CASE Return \/ UNCHANGED vars
  <2>1. UNCHANGED <<package, image, left, pc, retval, all, transferred, lastPercent, fd, text>>
    BY <1>2 DEF Return, vars, host, progress
  <2>2. FileInv'
    BY <2>1 DEF ProgressInv, FileInv
  <2>3. SentInv'
    BY <2>1 DEF ProgressInv, SentInv, Dense, Percent
  <2> QED
    BY <2>2, <2>3 DEF ProgressInv
<1> QED
  BY <1>1, <1>2 DEF Next, Exited

LEMMA TruthFollows ==
    ASSUME ProgressInv, Dense
    PROVE  TruthShown
<1>1. TextIsLast
  BY DEF ProgressInv, FileInv, TextIsLast
<1>2. ASSUME retval = "ok" PROVE text = Text(100)
  <2>1. pc = "image" /\ image = Len(package) /\ left = 0 /\ lastPercent = Percent
    BY <1>2 DEF ProgressInv, SentInv
  <2>2. /\ all \in Nat \ {0} /\ transferred \in Nat /\ transferred + left = all
    BY <2>1, AllIs DEF ProgressInv
  <2>3. transferred = all
    BY <2>1, <2>2
  <2>4. lastPercent = 100
    BY <2>1, <2>2, <2>3, Percentage DEF Percent
  <2> QED
    BY <1>2, <2>1, <2>4 DEF ProgressInv, FileInv
<1>3. retval = "failed" /\ text = Text(100) => transferred = all
  BY DEF ProgressInv, SentInv
<1> QED
  BY <1>1, <1>2, <1>3 DEF TruthShown

\* The package stays what it is.
LEMMA PackageStays == [Next]_vars => package' = package
BY DEF Next, Main, Begin, CheckFails, Md5Fails, Usage, CheckPasses, OpenPcie, OpenPcieFails, OpenDevice,
       OpenDeviceFails, Ambiguous, NoMoreAttempts, Serve, SaharaDone, SaharaFails, StreamDownload,
       FirehoseBegin, SendPiece, NextImage, FirehoseDone, FirehoseFails, Return, Exited, vars, host

\* Whatever fails and whenever: with a package of which every byte is sent, the
\* file reads the last percentage written, 100 after success, and after a failure
\* only if everything had been sent.
THEOREM ProgressTold == Spec => [](Dense => TruthShown)
<1> DEFINE I == HandleInv /\ (Dense => ProgressInv)
<1>1. Init => I
  BY InitHandle, InitProgress
<1>2. I /\ [Next]_vars => I'
  <2> SUFFICES ASSUME I, [Next]_vars PROVE I'
    OBVIOUS
  <2>1. HandleInv'
    BY NextHandle
  <2>2. Dense' => Dense
    BY PackageStays DEF Dense
  <2>3. ASSUME Dense PROVE ProgressInv'
    <3>1. Within
      <4>1. \A n \in DOMAIN package : package[n].data = package[n].size /\ package[n].size \in Nat
        BY <2>3, ImageTypes, SMTT(30) DEF Dense, ProgressInv, SentInv, Images
      <4> QED
        BY <4>1 DEF Within
    <3> QED
      BY <2>3, <3>1, NextProgress
  <2> QED
    BY <2>1, <2>2, <2>3
<1>3. I => (Dense => TruthShown)
  BY TruthFollows
<1> QED
  BY <1>1, <1>2, <1>3, PTL DEF Spec

\* And with any package no more is ever claimed than was sent: 100 is read only
\* when the bytes add up to the sizes of the files, and whatever is read is whole.
THEOREM NothingOverstated ==
    Spec => [](Within => TextIsLast /\ (retval = "failed" /\ text = Text(100) => transferred = all))
<1> DEFINE I == HandleInv /\ (Within => ProgressInv)
<1>1. Init => I
  BY InitHandle, InitProgress
<1>2. I /\ [Next]_vars => I'
  <2>1. [Next]_vars => (Within' => Within)
    BY PackageStays DEF Within
  <2> QED
    BY <2>1, NextHandle, NextProgress
<1>3. I => (Within => TextIsLast /\ (retval = "failed" /\ text = Text(100) => transferred = all))
  BY DEF ProgressInv, FileInv, SentInv, TextIsLast
<1> QED
  BY <1>1, <1>2, <1>3, PTL DEF Spec
-----------------------------------------------------------------------------
(* The check of the package: what is read from a file and hashed block by  *)
(* block is the sum that RFC 1321 has its bytes make.                      *)

Regroups(V, s, t, u) == (s \o t) \o u = s \o (t \o u)

LEMMA Regrouped == \A V : \A s, t, u \in Seq(V) : Regroups(V, s, t, u)
BY ConcatAssociative DEF Regroups

\* l is s followed by t.
Joins(V, s, t, l) ==
    /\ l \in Seq(V) /\ Len(l) = Len(s) + Len(t)
    /\ \A i \in 1 .. Len(s) + Len(t) : l[i] = IF i <= Len(s) THEN s[i] ELSE t[i - Len(s)]

LEMMA Joined == \A V : \A s, t \in Seq(V) : Joins(V, s, t, s \o t)
BY ConcatProperties DEF Joins

LEMMA Multiples == \A a, b, c \in Nat : a <= b => a * c <= b * c
OBVIOUS

\* q whole pieces and a rest.
LEMMA Division ==
    ASSUME NEW n \in Nat \ {0}, NEW q \in Nat, NEW r \in Nat, r < n
    PROVE  (q * n + r) \div n = q /\ (q * n + r) % n = r
<1> DEFINE a == q * n + r
           d == a \div n
           m == a % n
<1>1. q * n \in Nat /\ a \in Nat /\ a = q * n + r
  OBVIOUS
<1>2. d \in Nat /\ m \in Nat /\ m < n /\ a = n * d + m
  <2> HIDE DEF a
  <2> QED
    BY <1>1 DEF d, m
<1> HIDE DEF a, d, m
<1>3. d = q
  <2>1. CASE d + 1 <= q
    <3>1. (d + 1) * n <= q * n
      BY <1>2, <2>1, Multiples
    <3>2. (d + 1) * n = n * d + n /\ n * d \in Nat
      BY <1>2
    <3> DEFINE x == n * d
               y == q * n
    <3>3. x \in Nat /\ y \in Nat /\ x + n <= y /\ a = x + m /\ a = y + r
      BY <1>1, <1>2, <3>1, <3>2
    <3> HIDE DEF x, y
    <3> QED
      BY <1>2, <3>3
  <2>2. CASE q + 1 <= d
    <3>1. (q + 1) * n <= d * n
      BY <1>2, <2>2, Multiples
    <3>2. (q + 1) * n = q * n + n /\ d * n = n * d /\ n * d \in Nat
      BY <1>2
    <3> DEFINE x == n * d
               y == q * n
    <3>3. x \in Nat /\ y \in Nat /\ y + n <= x /\ a = x + m /\ a = y + r
      BY <1>1, <1>2, <3>1, <3>2
    <3> HIDE DEF x, y
    <3> QED
      BY <1>2, <3>3
  <2> QED
    BY <1>2, <2>1, <2>2
<1>4. n * d = q * n
  BY <1>3
<1>5. m = r
  <2> DEFINE y == q * n
  <2>1. y \in Nat /\ a = y + m /\ a = y + r
    BY <1>1, <1>2, <1>4
  <2> HIDE DEF y
  <2> QED
    BY <1>2, <2>1
<1> QED
  BY <1>3, <1>5 DEF a, d, m

LEMMA Divided ==
    ASSUME NEW a \in Nat, NEW n \in Nat \ {0}
    PROVE  /\ a \div n \in Nat /\ a % n \in Nat /\ a % n < n
           /\ a = (a \div n) * n + (a % n)
           /\ (a \div n) * n \in Nat /\ (a \div n) * n <= a
<1> DEFINE d == a \div n
           m == a % n
<1>1. d \in Nat /\ m \in Nat /\ m < n /\ a = n * d + m
  OBVIOUS
<1>2. n * d = d * n /\ d * n \in Nat
  <2> HIDE DEF d
  <2> QED
    BY <1>1
<1> HIDE DEF d, m
<1> DEFINE x == d * n
<1>3. x \in Nat /\ a = x + m
  BY <1>1, <1>2
<1> HIDE DEF x
<1>4. x <= a
  BY <1>1, <1>3
<1> QED
  BY <1>1, <1>3, <1>4 DEF d, m, x

\* l is the first q pieces of n elements of s.
Cut(V, s, n, l, q) ==
    /\ l \in Seq(Seq(V)) /\ Len(l) = q
    /\ \A k \in 1 .. q :
          /\ l[k] \in Seq(V) /\ Len(l[k]) = n
          /\ \A i \in 1 .. n : l[k][i] = s[(k - 1) * n + i]

LEMMA PiecesAre ==
    ASSUME NEW V, NEW s \in Seq(V), NEW n \in Nat \ {0}
    PROVE  Cut(V, s, n, Pieces(s, n), Len(s) \div n)
<1> DEFINE q == Len(s) \div n
<1>1. Len(s) \in Nat /\ q \in Nat /\ q * n <= Len(s)
  BY Divided
<1> HIDE DEF q
<1>2. ASSUME NEW k \in 1 .. q
      PROVE  /\ SubSeq(s, (k - 1) * n + 1, k * n) \in Seq(V)
             /\ Len(SubSeq(s, (k - 1) * n + 1, k * n)) = n
             /\ \A i \in 1 .. n : SubSeq(s, (k - 1) * n + 1, k * n)[i] = s[(k - 1) * n + i]
  <2>1. k * n <= q * n /\ (k - 1) * n \in Nat /\ k * n = (k - 1) * n + n
    BY <1>1, Multiples
  <2> DEFINE x == (k - 1) * n
             y == k * n
  <2>2. x \in Nat /\ y = x + n /\ y <= Len(s)
    <3> DEFINE z == q * n
    <3>1. k * n <= z /\ z <= Len(s) /\ z \in Nat /\ k * n \in Nat
      BY <1>1, <2>1
    <3> HIDE DEF z
    <3> QED
      BY <1>1, <2>1, <3>1
  <2> HIDE DEF x, y
  <2>3. \A i \in x + 1 .. y : s[i] \in V
    BY <1>1, <2>2
  <2>4. x + 1 \in Int /\ y \in Int
    BY <2>2
  <2>5. /\ SubSeq(s, x + 1, y) \in Seq(V)
        /\ Len(SubSeq(s, x + 1, y)) = IF x + 1 <= y THEN y - (x + 1) + 1 ELSE 0
        /\ \A i \in 1 .. y - (x + 1) + 1 : SubSeq(s, x + 1, y)[i] = s[(x + 1) + i - 1]
    BY <2>3, <2>4, SubSeqProperties
  <2>6. y - (x + 1) + 1 = n /\ x + 1 <= y /\ \A i \in 1 .. n : (x + 1) + i - 1 = x + i
    BY <2>2
  <2> QED
    BY <2>5, <2>6 DEF x, y
<1>3. Pieces(s, n) = [k \in 1 .. q |-> SubSeq(s, (k - 1) * n + 1, k * n)]
  BY DEF Pieces, q
<1>4. Pieces(s, n) \in [1 .. q -> Seq(V)] /\ Len(Pieces(s, n)) = q
  BY <1>1, <1>2, <1>3
<1>5. Pieces(s, n) \in Seq(Seq(V))
  BY <1>1, <1>4
<1> QED
  BY <1>2, <1>3, <1>4, <1>5 DEF q, Cut

\* s is q pieces of n bytes.
Long(s, n, q) == Len(s) = q * n

\* What is cut into pieces after whole pieces is cut as it would be alone.
LEMMA PiecesJoin ==
    ASSUME NEW V, NEW n \in Nat \ {0}, NEW q \in Nat,
           NEW u \in Seq(V), NEW v \in Seq(V), Long(u, n, q)
    PROVE  Pieces(u \o v, n) = Pieces(u, n) \o Pieces(v, n)
<1> DEFINE p == Len(v) \div n
           r == Len(v) % n
<1>1. Len(v) \in Nat /\ p \in Nat /\ r \in Nat /\ r < n /\ Len(v) = p * n + r /\ p * n \in Nat
  BY Divided
<1> HIDE DEF p, r
<1>2. Len(u) \in Nat /\ u \o v \in Seq(V) /\ Len(u \o v) = Len(u) + Len(v)
  BY ConcatProperties
<1>q. Len(u) = q * n
  BY DEF Long
<1>3. Len(u) \div n = q
  <2>1. (q * n + 0) \div n = q
    BY Division
  <2> QED
    BY <1>2, <1>q, <2>1
<1>4. Len(u \o v) \div n = q + p
  <2>1. ((q + p) * n + r) \div n = q + p
    <3>1. q + p \in Nat
      BY <1>1
    <3> QED
      BY <1>1, <3>1, Division
  <2>2. (q + p) * n + r = q * n + (p * n + r)
    BY <1>1
  <2> QED
    BY <1>1, <1>2, <1>q, <2>1, <2>2
<1> DEFINE l == Pieces(u \o v, n)
           a == Pieces(u, n)
           b == Pieces(v, n)
<1>5. Cut(V, u \o v, n, l, q + p)
  BY <1>2, <1>4, PiecesAre, Zenon
<1>6. Cut(V, u, n, a, q)
  BY <1>3, PiecesAre, Zenon
<1>7. Cut(V, v, n, b, p)
  BY PiecesAre, Zenon DEF p
<1> HIDE DEF l, a, b
<1>8. /\ a \o b \in Seq(Seq(V)) /\ Len(a \o b) = q + p
      /\ \A k \in 1 .. q + p : (a \o b)[k] = IF k <= q THEN a[k] ELSE b[k - q]
  <2>1. a \in Seq(Seq(V)) /\ b \in Seq(Seq(V)) /\ Len(a) = q /\ Len(b) = p
    BY <1>6, <1>7, Zenon DEF Cut
  <2> QED
    BY <2>1, ConcatProperties
<1>9. ASSUME NEW k \in 1 .. q + p PROVE l[k] = (a \o b)[k]
  <2>1. CASE k <= q
    <3>1. k \in 1 .. q
      BY <2>1
    <3>2. (k - 1) * n \in Nat /\ (k - 1) * n + n <= q * n
      BY <3>1, Multiples
    <3>3. \A i \in 1 .. n : (u \o v)[(k - 1) * n + i] = u[(k - 1) * n + i]
      <4> DEFINE x == (k - 1) * n
                 y == q * n
      <4>1. x \in Nat /\ y = Len(u) /\ x + n <= y
        BY <1>q, <3>2
      <4> HIDE DEF x, y
      <4>2. \A i \in 1 .. n : x + i \in 1 .. Len(u) + Len(v) /\ x + i <= Len(u)
        BY <1>1, <1>2, <4>1
      <4>3. \A i \in 1 .. n : (u \o v)[x + i] = u[x + i]
        BY <4>2, ConcatProperties
      <4> QED
        BY <4>3 DEF x
    <3>4. l[k] \in Seq(V) /\ a[k] \in Seq(V) /\ Len(l[k]) = n /\ Len(a[k]) = n
      BY <1>5, <1>6, <3>1 DEF Cut
    <3>5. \A i \in 1 .. n : l[k][i] = a[k][i]
      <4>1. k \in 1 .. q + p
        OBVIOUS
      <4>2. \A i \in 1 .. n : l[k][i] = (u \o v)[(k - 1) * n + i]
        BY <1>5, <4>1, Zenon DEF Cut
      <4>3. \A i \in 1 .. n : a[k][i] = u[(k - 1) * n + i]
        BY <1>6, <3>1, Zenon DEF Cut
      <4> QED
        BY <3>3, <4>2, <4>3, Zenon
    <3>6. l[k] = a[k]
      BY <3>4, <3>5, SeqEqual
    <3> QED
      BY <1>8, <2>1, <3>6
  <2>2. CASE k > q
    <3>1. k - q \in 1 .. p
      BY <1>1, <2>2
    <3>2. ((k - q) - 1) * n \in Nat /\ ((k - q) - 1) * n + n <= p * n
          /\ (k - 1) * n = q * n + ((k - q) - 1) * n
      BY <1>1, <3>1, Multiples
    <3>3. \A i \in 1 .. n : (u \o v)[(k - 1) * n + i] = v[((k - q) - 1) * n + i]
      <4> DEFINE x == ((k - q) - 1) * n
                 y == p * n
                 z == (k - 1) * n
      <4>1. x \in Nat /\ y \in Nat /\ Len(v) = y + r /\ x + n <= y /\ z = Len(u) + x
        BY <1>1, <1>q, <3>2
      <4> HIDE DEF x, y, z
      <4>2. \A i \in 1 .. n : z + i \in 1 .. Len(u) + Len(v) /\ ~(z + i <= Len(u))
                              /\ (z + i) - Len(u) = x + i
        BY <1>1, <1>2, <4>1
      <4>3. \A i \in 1 .. n : (u \o v)[z + i] = v[x + i]
        BY <4>2, ConcatProperties
      <4> QED
        BY <4>3 DEF x, z
    <3>4. l[k] \in Seq(V) /\ b[k - q] \in Seq(V) /\ Len(l[k]) = n /\ Len(b[k - q]) = n
      BY <1>5, <1>7, <3>1 DEF Cut
    <3>5. \A i \in 1 .. n : l[k][i] = b[k - q][i]
      <4>1. k \in 1 .. q + p
        OBVIOUS
      <4>2. \A i \in 1 .. n : l[k][i] = (u \o v)[(k - 1) * n + i]
        BY <1>5, <4>1, Zenon DEF Cut
      <4>3. \A i \in 1 .. n : b[k - q][i] = v[((k - q) - 1) * n + i]
        BY <1>7, <3>1, Zenon DEF Cut
      <4> QED
        BY <3>3, <4>2, <4>3, Zenon
    <3>6. l[k] = b[k - q]
      BY <3>4, <3>5, SeqEqual
    <3> QED
      <4>0. k \in 1 .. q + p /\ ~(k <= q)
        BY <1>1, <2>2
      <4>1. (a \o b)[k] = b[k - q]
        BY <1>8, <4>0, Zenon
      <4> QED
        BY <3>6, <4>1
  <2>3. k <= q \/ k > q
    OBVIOUS
  <2> QED
    BY <2>1, <2>2, <2>3, Zenon
<1>10. l = a \o b
  BY <1>5, <1>8, <1>9, SeqEqual DEF Cut
<1> QED
  BY <1>10 DEF l, a, b

PiecesAdd(u, v, n) == Pieces(u \o v, n) = Pieces(u, n) \o Pieces(v, n)

LEMMA PiecesJoined ==
    \A V : \A n \in Nat \ {0}, q \in Nat, u, v \in Seq(V) : Long(u, n, q) => PiecesAdd(u, v, n)
BY PiecesJoin, Zenon DEF PiecesAdd

LEMMA PiecesOne ==
    ASSUME NEW V, NEW n \in Nat \ {0}, NEW s \in Seq(V), Long(s, n, 1)
    PROVE  Pieces(s, n) = << s >>
<1>1. Len(s) \div n = 1
  <2>1. (1 * n + 0) \div n = 1
    BY Division
  <2>2. Len(s) = n
    BY DEF Long
  <2> QED
    BY <2>1, <2>2
<1>n. Len(s) = n
  BY DEF Long
<1>2. /\ Pieces(s, n) \in Seq(Seq(V)) /\ Len(Pieces(s, n)) = 1
      /\ Pieces(s, n)[1] \in Seq(V) /\ Len(Pieces(s, n)[1]) = n
      /\ \A i \in 1 .. n : Pieces(s, n)[1][i] = s[(1 - 1) * n + i]
  <2>1. Cut(V, s, n, Pieces(s, n), 1)
    BY <1>1, PiecesAre, Zenon
  <2> QED
    BY <2>1 DEF Cut
<1>3. \A i \in 1 .. n : Pieces(s, n)[1][i] = s[i]
  BY <1>2
<1>4. Pieces(s, n)[1] = s
  BY <1>2, <1>3, <1>n, SeqEqual
<1> QED
  BY <1>2, <1>4

LEMMA PiecesNone ==
    ASSUME NEW V, NEW n \in Nat \ {0}, NEW s \in Seq(V), Len(s) < n
    PROVE  Pieces(s, n) = << >> /\ Rest(s, n) = s
<1>1. Len(s) \in Nat /\ Len(s) \div n = 0
  <2>1. Len(s) \in Nat /\ (0 * n + Len(s)) \div n = 0
    BY Division
  <2> QED
    BY <2>1
<1>2. Pieces(s, n) \in Seq(Seq(V)) /\ Len(Pieces(s, n)) = 0
  <2>1. Cut(V, s, n, Pieces(s, n), 0)
    BY <1>1, PiecesAre, Zenon
  <2> QED
    BY <2>1 DEF Cut
<1>3. Rest(s, n) = SubSeq(s, 1, Len(s))
  BY <1>1 DEF Rest
<1> QED
  BY <1>2, <1>3, SubSeqFull

\* A sequence is its whole pieces and the rest.
Parted(V, s, n, f, r, q) ==
    /\ Long(f, n, q) /\ q \in Nat
    /\ r \in Seq(V) /\ Len(r) = Len(s) % n /\ Len(r) < n
    /\ s = f \o r /\ Pieces(s, n) = Pieces(f, n)

LEMMA PiecesAndRest ==
    ASSUME NEW V, NEW n \in Nat \ {0}, NEW s \in Seq(V)
    PROVE  \E f \in Seq(V) : Parted(V, s, n, f, Rest(s, n), Len(s) \div n)
<1> DEFINE m == Len(s) \div n
           f == SubSeq(s, 1, m * n)
           x == m * n
<1>1. /\ m \in Nat /\ Len(s) \in Nat /\ Len(s) % n \in Nat /\ Len(s) % n < n
      /\ x \in Nat /\ x <= Len(s) /\ Len(s) = x + (Len(s) % n)
  BY Divided
<1>2. f = SubSeq(s, 1, x) /\ Rest(s, n) = SubSeq(s, x + 1, Len(s))
  BY DEF Rest
<1>l. Len(f) = x => Long(f, n, m)
  BY DEF Long
<1> HIDE DEF m, x, f
<1>3. /\ SubSeq(s, 1, x) \in Seq(V) /\ Len(SubSeq(s, 1, x)) = x
  <2>1. 1 \in Int /\ x \in Int /\ \A i \in 1 .. x : s[i] \in V
    BY <1>1
  <2>2. SubSeq(s, 1, x) \in Seq(V) /\ Len(SubSeq(s, 1, x)) = IF 1 <= x THEN x - 1 + 1 ELSE 0
    BY <2>1, SubSeqProperties
  <2> QED
    BY <1>1, <2>2
<1>4. /\ SubSeq(s, x + 1, Len(s)) \in Seq(V) /\ Len(SubSeq(s, x + 1, Len(s))) = Len(s) % n
  <2>1. x + 1 \in Int /\ Len(s) \in Int /\ \A i \in x + 1 .. Len(s) : s[i] \in V
    BY <1>1
  <2>2. /\ SubSeq(s, x + 1, Len(s)) \in Seq(V)
        /\ Len(SubSeq(s, x + 1, Len(s))) = IF x + 1 <= Len(s) THEN Len(s) - (x + 1) + 1 ELSE 0
    BY <2>1, SubSeqProperties
  <2> DEFINE y == Len(s) % n
  <2>3. y \in Nat /\ Len(s) = x + y
    BY <1>1
  <2> HIDE DEF y
  <2>4. (IF x + 1 <= Len(s) THEN Len(s) - (x + 1) + 1 ELSE 0) = y
    BY <1>1, <2>3
  <2> QED
    BY <2>2, <2>4 DEF y
<1>5. s = f \o Rest(s, n)
  <2>1. /\ 1 \in 1 .. Len(s) + 1 /\ x \in 1 - 1 .. Len(s) /\ Len(s) \in x .. Len(s)
    BY <1>1
  <2>2. SubSeq(s, 1, x) \o SubSeq(s, x + 1, Len(s)) = SubSeq(s, 1, Len(s))
    BY <2>1, ConcatAdjacentSubSeq
  <2> QED
    BY <1>2, <2>2, SubSeqFull
<1>6. f \in Seq(V) /\ Long(f, n, m)
  BY <1>2, <1>3, <1>l
<1>7. Rest(s, n) \in Seq(V) /\ Len(Rest(s, n)) = Len(s) % n /\ Len(Rest(s, n)) < n
  BY <1>1, <1>2, <1>4
<1>8. Pieces(s, n) = Pieces(f, n)
  <2>1. Pieces(f \o Rest(s, n), n) = Pieces(f, n) \o Pieces(Rest(s, n), n)
    <3>1. PiecesAdd(f, Rest(s, n), n)
      BY <1>1, <1>6, <1>7, PiecesJoined, Zenon
    <3> QED
      BY <3>1, Zenon DEF PiecesAdd
  <2>2. Pieces(Rest(s, n), n) = << >>
    BY <1>7, PiecesNone
  <2>3. Pieces(f, n) \in Seq(Seq(V))
    BY <1>6, PiecesAre, Zenon DEF Cut
  <2>4. Pieces(f, n) \o << >> = Pieces(f, n)
    BY <2>3, ConcatEmptySeq
  <2> QED
    BY <1>5, <2>1, <2>2, <2>4, Zenon
<1>9. Parted(V, s, n, f, Rest(s, n), m)
  BY <1>1, <1>5, <1>6, <1>7, <1>8, Zenon DEF Parted
<1> QED
  BY <1>6, <1>9, Zenon DEF m

-----------------------------------------------------------------------------
\* new is old, with s at at.
Copy(V, old, at, s, new) ==
    /\ new \in [1 .. BlockLen -> V]
    /\ \A i \in 1 .. BlockLen :
          new[i] = IF i > at /\ i <= at + Len(s) THEN s[i - at] ELSE old[i]

LEMMA Copied ==
    ASSUME NEW V, NEW buffer \in [1 .. BlockLen -> V], NEW at \in Nat, NEW s \in Seq(V)
    PROVE  Copy(V, buffer, at, s, Memcpy(buffer, at, s))
<1>1. ASSUME NEW i \in 1 .. BlockLen, i > at, i <= at + Len(s) PROVE s[i - at] \in V
  <2>1. i - at \in 1 .. Len(s)
    BY <1>1, Md5Assumption
  <2> QED
    BY <2>1
<1> QED
  BY <1>1 DEF Memcpy, Copy

LEMMA CopiedSo ==
    \A V : \A buffer \in [1 .. BlockLen -> V], at \in Nat, s \in Seq(V) :
        Copy(V, buffer, at, s, Memcpy(buffer, at, s))
BY Copied, Zenon

Contexts(V) == [lo : Nat, buffer : [1 .. BlockLen -> V], sum : Seq(Seq(V))]

\* w is whole blocks, and has been summed.
Summed(V, w, q, c) ==
    /\ w \in Seq(V) /\ q \in Nat /\ Long(w, BlockLen, q)
    /\ c \in Contexts(V) /\ c.sum = Pieces(w, BlockLen)

\* r waits in the buffer.
Waiting(V, w, r, c) ==
    /\ r \in Seq(V) /\ Len(r) < BlockLen
    /\ c.lo = Len(w) + Len(r) /\ \A i \in 1 .. Len(r) : c.buffer[i] = r[i]

\* c is what has been made of s.
Made(V, s, c) == \E w, r, q : Summed(V, w, q, c) /\ Waiting(V, w, r, c) /\ s = w \o r

LEMMA Summing ==
    ASSUME NEW V, NEW w, NEW q, NEW c, Summed(V, w, q, c), NEW u \in Seq(V), NEW p \in Nat,
           Long(u, BlockLen, p)
    PROVE  Summed(V, w \o u, q + p, body(c, Pieces(u, BlockLen)))
<1>1. /\ w \in Seq(V) /\ q \in Nat /\ Len(w) = q * BlockLen /\ Len(u) = p * BlockLen
      /\ c \in Contexts(V) /\ c.sum = Pieces(w, BlockLen) /\ BlockLen \in Nat \ {0}
  BY Md5Assumption DEF Summed, Long
<1>2. w \o u \in Seq(V) /\ Len(w \o u) = Len(w) + Len(u)
  BY <1>1, ConcatProperties
<1>3. Long(w \o u, BlockLen, q + p)
  <2>1. (q + p) * BlockLen = q * BlockLen + p * BlockLen
    BY <1>1
  <2>2. Len(w \o u) = (q + p) * BlockLen
    BY <1>1, <1>2, <2>1
  <2> QED
    BY <2>2, Zenon DEF Long
<1>4. Pieces(w \o u, BlockLen) = c.sum \o Pieces(u, BlockLen)
  <2>1. Long(w, BlockLen, q)
    BY DEF Summed
  <2>2. Pieces(w \o u, BlockLen) = Pieces(w, BlockLen) \o Pieces(u, BlockLen)
    <3>1. PiecesAdd(w, u, BlockLen)
      BY <1>1, <2>1, PiecesJoined, Zenon
    <3> QED
      BY <3>1, Zenon DEF PiecesAdd
  <2> QED
    BY <1>1, <2>2
<1>5. Pieces(u, BlockLen) \in Seq(Seq(V)) /\ c.sum \in Seq(Seq(V))
  <2>1. Pieces(u, BlockLen) \in Seq(Seq(V))
    BY <1>1, PiecesAre, Zenon DEF Cut
  <2> QED
    BY <1>1, <2>1 DEF Contexts
<1>6. c.sum \o Pieces(u, BlockLen) \in Seq(Seq(V))
  BY <1>5, ConcatProperties
<1>7. body(c, Pieces(u, BlockLen)) = [c EXCEPT !.sum = c.sum \o Pieces(u, BlockLen)]
  BY DEF body
<1> DEFINE t == c.sum \o Pieces(u, BlockLen)
<1>8. [c EXCEPT !.sum = t] \in Contexts(V) /\ [c EXCEPT !.sum = t].sum = t
  <2> HIDE DEF t
  <2> QED
    BY <1>1, <1>6 DEF Contexts, t
<1>9. q + p \in Nat
  BY <1>1
<1> QED
  BY <1>2, <1>3, <1>4, <1>7, <1>8, <1>9, Zenon DEF Summed

LEMMA SummedOne ==
    ASSUME NEW V, NEW w, NEW q, NEW c, Summed(V, w, q, c), NEW u \in Seq(V),
           Long(u, BlockLen, 1)
    PROVE  Summed(V, w \o u, q + 1, body(c, << u >>))
<1>1. Pieces(u, BlockLen) = << u >> /\ 1 \in Nat
  BY PiecesOne, Md5Assumption
<1> QED
  BY <1>1, Summing

\* What is left of the data: its whole blocks are summed, and the rest waits.
LEMMA SumsTheRest ==
    ASSUME NEW V, NEW w, NEW q, NEW c, Summed(V, w, q, c), NEW d \in Seq(V),
           c.lo = Len(w) + Len(d)
    PROVE  Made(V, w \o d, [body(c, Pieces(d, BlockLen)) EXCEPT
                               !.buffer = Memcpy(@, 0, Rest(d, BlockLen))])
<1> DEFINE p == Len(d) \div BlockLen
           r == Rest(d, BlockLen)
<1>0. BlockLen \in Nat \ {0}
  BY Md5Assumption
<1>p. PICK f \in Seq(V) : Parted(V, d, BlockLen, f, r, p)
  BY <1>0, PiecesAndRest, Zenon
<1> HIDE DEF p, r
<1>1. /\ Long(f, BlockLen, p) /\ p \in Nat /\ r \in Seq(V) /\ Len(r) < BlockLen
      /\ d = f \o r /\ Pieces(d, BlockLen) = Pieces(f, BlockLen)
  BY <1>p, Zenon DEF Parted
<1> DEFINE e == body(c, Pieces(f, BlockLen))
           g == [e EXCEPT !.buffer = Memcpy(@, 0, r)]
<1>2. Summed(V, w \o f, q + p, e)
  BY <1>1, Summing
<1>3. e.lo = c.lo /\ e \in Contexts(V)
  <2>1. e \in Contexts(V)
    BY <1>2 DEF Summed
  <2>2. c \in Contexts(V)
    BY DEF Summed
  <2> QED
    BY <2>1, <2>2 DEF body, Contexts
<1> HIDE DEF e
<1>4. /\ Memcpy(e.buffer, 0, r) \in [1 .. BlockLen -> V]
      /\ \A i \in 1 .. Len(r) : Memcpy(e.buffer, 0, r)[i] = r[i]
  <2>1. e.buffer \in [1 .. BlockLen -> V] /\ 0 \in Nat /\ r \in Seq(V)
    BY <1>1, <1>3 DEF Contexts
  <2>2. /\ Memcpy(e.buffer, 0, r) \in [1 .. BlockLen -> V]
        /\ \A i \in 1 .. BlockLen : Memcpy(e.buffer, 0, r)[i] =
                  IF i > 0 /\ i <= 0 + Len(r) THEN r[i - 0] ELSE e.buffer[i]
    <3>1. Copy(V, e.buffer, 0, r, Memcpy(e.buffer, 0, r))
      BY <2>1, CopiedSo, Zenon
    <3> QED
      BY <3>1, Zenon DEF Copy
  <2>3. \A i \in 1 .. Len(r) : i \in 1 .. BlockLen /\ i > 0 /\ i <= 0 + Len(r) /\ i - 0 = i
    BY <1>0, <1>1
  <2> QED
    BY <2>2, <2>3, Zenon
<1>5. g \in Contexts(V) /\ g.lo = e.lo /\ g.sum = e.sum /\ g.buffer = Memcpy(e.buffer, 0, r)
  BY <1>3, <1>4 DEF Contexts
<1> HIDE DEF g
<1>6. Summed(V, w \o f, q + p, g)
  BY <1>2, <1>5 DEF Summed
<1>7. /\ (w \o f) \o r = w \o d /\ Len(w \o f) + Len(r) = Len(w) + Len(d)
  <2>1. w \in Seq(V)
    BY DEF Summed
  <2>2. (w \o f) \o r = w \o (f \o r)
    BY <1>1, <2>1, ConcatAssociative
  <2>3. Len(d) = Len(f) + Len(r) /\ Len(w \o f) = Len(w) + Len(f)
    BY <1>1, <2>1, ConcatProperties
  <2>4. Len(w) \in Nat /\ Len(f) \in Nat /\ Len(r) \in Nat
    BY <1>1, <2>1
  <2> QED
    BY <1>1, <2>2, <2>3, <2>4
<1>8. Waiting(V, w \o f, r, g)
  BY <1>1, <1>3, <1>4, <1>5, <1>7 DEF Waiting
<1>9. Made(V, w \o d, g)
  BY <1>6, <1>7, <1>8, Zenon DEF Made
<1> QED
  BY <1>1, <1>9, Zenon DEF g, e, r

LEMMA BeginMade == ASSUME NEW V, 0 \in V PROVE Made(V, << >>, md5_begin)
<1>1. BlockLen \in Nat \ {0}
  BY Md5Assumption
<1>2. << >> \in Seq(V) /\ Len(<< >>) = 0 /\ << >> \o << >> = << >>
  OBVIOUS
<1>3. md5_begin \in Contexts(V) /\ md5_begin.lo = 0 /\ md5_begin.sum = << >>
  BY <1>1 DEF md5_begin, Contexts
<1>4. Pieces(<< >>, BlockLen) = << >>
  <2>1. << >> \in Seq(V) /\ Len(<< >>) < BlockLen
    BY <1>1
  <2> QED
    BY <1>1, <2>1, PiecesNone, Zenon
<1>5. Long(<< >>, BlockLen, 0)
  BY <1>1 DEF Long
<1>6. Summed(V, << >>, 0, md5_begin)
  BY <1>2, <1>3, <1>4, <1>5 DEF Summed
<1>7. Waiting(V, << >>, << >>, md5_begin)
  BY <1>1, <1>2, <1>3 DEF Waiting
<1> QED
  BY <1>2, <1>6, <1>7, Zenon DEF Made

LEMMA HashMade ==
    ASSUME NEW V, NEW s, NEW c, Made(V, s, c), NEW d \in Seq(V)
    PROVE  Made(V, s \o d, md5_hash(c, d))
<1>1. PICK w, r, q : Summed(V, w, q, c) /\ Waiting(V, w, r, c) /\ s = w \o r
  BY Zenon DEF Made
<1>2. /\ w \in Seq(V) /\ q \in Nat /\ Len(w) = q * BlockLen /\ c \in Contexts(V)
      /\ r \in Seq(V) /\ Len(r) < BlockLen /\ c.lo = Len(w) + Len(r)
      /\ \A i \in 1 .. Len(r) : c.buffer[i] = r[i]
      /\ BlockLen \in Nat \ {0} /\ Len(r) \in Nat /\ Len(w) \in Nat /\ Len(d) \in Nat
  BY <1>1, Md5Assumption DEF Summed, Waiting, Long
<1> DEFINE used == c.lo % BlockLen
           counted == [c EXCEPT !.lo = @ + Len(d)]
           available == IF used = 0 THEN 0 ELSE BlockLen - used
           filled == Memcpy(c.buffer, used, SubSeq(d, 1, available))
           full == IF used = 0 THEN counted
                   ELSE body([counted EXCEPT !.buffer = filled], << filled >>)
           over == SubSeq(d, available + 1, Len(d))
<1>3. used = Len(r)
  <2>1. (q * BlockLen + Len(r)) % BlockLen = Len(r)
    BY <1>2, Division
  <2> QED
    BY <1>2, <2>1
<1>t. w \in Seq(V) /\ r \in Seq(V) /\ c.buffer \in [1 .. BlockLen -> V] /\ Len(r) \in Nat
  BY <1>2 DEF Contexts
<1>4. /\ counted \in Contexts(V) /\ counted.lo = Len(w) + Len(r) + Len(d)
      /\ counted.buffer = c.buffer /\ counted.sum = c.sum
  <2>1. c \in Contexts(V) /\ c.lo + Len(d) \in Nat /\ c.lo + Len(d) = Len(w) + Len(r) + Len(d)
    BY <1>2 DEF Contexts
  <2> QED
    BY <2>1 DEF Contexts
<1>5. md5_hash(c, d) = IF used # 0 /\ Len(d) < available
                       THEN [counted EXCEPT !.buffer = Memcpy(@, used, d)]
                       ELSE [body(full, Pieces(over, BlockLen)) EXCEPT
                               !.buffer = Memcpy(@, 0, Rest(over, BlockLen))]
  BY DEF md5_hash
<1>6. Summed(V, w, q, counted)
  BY <1>1, <1>4 DEF Summed
<1>7. s \o d = w \o (r \o d)
  <2>1. (w \o r) \o d = w \o (r \o d)
    <3>1. Regroups(V, w, r, d)
      BY <1>t, Regrouped, Zenon
    <3> QED
      BY <3>1, Zenon DEF Regroups
  <2> QED
    BY <1>1, <2>1, Zenon
<1>8. CASE used = 0
  <2>1. full = counted /\ over = SubSeq(d, 1, Len(d)) /\ ~(used # 0 /\ Len(d) < available)
    BY <1>2, <1>8
  <2>2. over = d
    BY <2>1, SubSeqFull
  <2>3. r = << >>
    BY <1>2, <1>3, <1>8
  <2>4. r \o d = d
    BY <2>3, ConcatEmptySeq
  <2>5. counted.lo = Len(w) + Len(d)
    BY <1>2, <1>3, <1>4, <1>8
  <2> HIDE DEF counted, over, full, available, used, filled
  <2>6. Made(V, w \o d, [body(counted, Pieces(d, BlockLen)) EXCEPT
                            !.buffer = Memcpy(@, 0, Rest(d, BlockLen))])
    BY <1>6, <2>5, SumsTheRest
  <2>7. md5_hash(c, d) = [body(counted, Pieces(d, BlockLen)) EXCEPT
                            !.buffer = Memcpy(@, 0, Rest(d, BlockLen))]
    BY <1>5, <2>1, <2>2
  <2> QED
    BY <1>7, <2>4, <2>6, <2>7
<1>9. CASE used # 0 /\ Len(d) < available
  <2> DEFINE b == Memcpy(c.buffer, Len(r), d)
             g == [counted EXCEPT !.buffer = b]
  <2>1. md5_hash(c, d) = g
    <3> HIDE DEF available, full, over, filled
    <3>1. md5_hash(c, d) = [counted EXCEPT !.buffer = Memcpy(@, used, d)]
      BY <1>5, <1>9
    <3> QED
      BY <1>2, <1>3, <3>1 DEF Contexts
  <2>2. Len(r) + Len(d) < BlockLen
    BY <1>2, <1>3, <1>9
  <2> HIDE DEF available, full, over, filled, used
  <2>3. /\ b \in [1 .. BlockLen -> V]
        /\ \A i \in 1 .. BlockLen : b[i] =
               IF i > Len(r) /\ i <= Len(r) + Len(d) THEN d[i - Len(r)] ELSE c.buffer[i]
    <3>1. Copy(V, c.buffer, Len(r), d, b)
      BY <1>t, CopiedSo, Zenon
    <3> QED
      BY <3>1, Zenon DEF Copy
  <2> HIDE DEF b, counted
  <2>4. g \in Contexts(V) /\ g.lo = counted.lo /\ g.sum = counted.sum /\ g.buffer = b
    BY <1>4, <2>3 DEF Contexts
  <2> HIDE DEF g
  <2>5. Summed(V, w, q, g)
    BY <1>6, <2>4 DEF Summed
  <2>6. /\ r \o d \in Seq(V) /\ Len(r \o d) = Len(r) + Len(d)
        /\ \A i \in 1 .. Len(r) + Len(d) : (r \o d)[i] = IF i <= Len(r) THEN r[i] ELSE d[i - Len(r)]
    BY <1>2, ConcatProperties
  <2>7. ASSUME NEW i \in 1 .. Len(r) + Len(d) PROVE b[i] = (r \o d)[i]
    <3>1. i \in 1 .. BlockLen /\ i > 0
      BY <1>2, <2>2
    <3>2. CASE i <= Len(r)
      <4>1. b[i] = c.buffer[i] /\ c.buffer[i] = r[i] /\ (r \o d)[i] = r[i]
        BY <1>2, <2>3, <2>6, <3>1, <3>2
      <4> QED
        BY <4>1
    <3>3. CASE i > Len(r)
      <4>1. b[i] = d[i - Len(r)] /\ (r \o d)[i] = d[i - Len(r)]
        BY <1>2, <2>3, <2>6, <3>1, <3>3
      <4> QED
        BY <4>1
    <3> QED
      BY <1>2, <3>2, <3>3
  <2>8. Waiting(V, w, r \o d, g)
    BY <1>2, <1>4, <2>2, <2>4, <2>6, <2>7 DEF Waiting
  <2> QED
    BY <1>7, <2>1, <2>5, <2>8, Zenon DEF Made
<1>10. CASE used # 0 /\ ~(Len(d) < available)
  <2> DEFINE n == BlockLen - Len(r)
             h == SubSeq(d, 1, n)
             t == SubSeq(d, n + 1, Len(d))
             u == r \o h
             b == Memcpy(c.buffer, Len(r), h)
             a == [counted EXCEPT !.buffer = b]
  <2>1. n \in Nat \ {0} /\ n <= Len(d) /\ available = n /\ n + Len(r) = BlockLen
    <3>1. BlockLen \in Nat \ {0} /\ Len(r) \in Nat /\ Len(r) < BlockLen /\ Len(d) \in Nat
      BY <1>2
    <3>2. available = n
      BY <1>3, <1>10
    <3>3. ~(Len(d) < n)
      BY <1>10, <3>2
    <3> QED
      BY <3>1, <3>2, <3>3
  <2>2. full = body(a, << b >>) /\ over = t
    BY <1>3, <1>10, <2>1
  <2>3. md5_hash(c, d) = [body(full, Pieces(over, BlockLen)) EXCEPT
                            !.buffer = Memcpy(@, 0, Rest(over, BlockLen))]
    <3> HIDE DEF full, over, available, used, counted
    <3> QED
      BY <1>5, <1>10
  <2> HIDE DEF full, over, available, used, filled, n
  <2>4. h \in Seq(V) /\ Len(h) = n /\ t \in Seq(V) /\ d = h \o t
    <3>1. 1 \in Int /\ n \in Int /\ n + 1 \in Int /\ Len(d) \in Int
      BY <1>2, <2>1
    <3>2. (\A i \in 1 .. n : d[i] \in V) /\ (\A i \in n + 1 .. Len(d) : d[i] \in V)
      BY <1>2, <2>1
    <3>3. /\ h \in Seq(V) /\ t \in Seq(V) /\ Len(h) = n
      <4>1. h \in Seq(V) /\ t \in Seq(V) /\ Len(h) = IF 1 <= n THEN n - 1 + 1 ELSE 0
        BY <3>1, <3>2, SubSeqProperties
      <4> QED
        BY <2>1, <4>1
    <3>4. 1 \in 1 .. Len(d) + 1 /\ n \in 1 - 1 .. Len(d) /\ Len(d) \in n .. Len(d)
      BY <1>2, <2>1
    <3>5. h \o t = SubSeq(d, 1, Len(d))
      BY <3>4, ConcatAdjacentSubSeq
    <3>6. d = h \o t
      BY <3>5, SubSeqFull
    <3> QED
      BY <3>3, <3>6
  <2> HIDE DEF h, t
  <2>5. /\ u \in Seq(V) /\ Len(u) = BlockLen
        /\ \A i \in 1 .. BlockLen : u[i] = IF i <= Len(r) THEN r[i] ELSE h[i - Len(r)]
    <3>1. /\ u \in Seq(V) /\ Len(u) = Len(r) + Len(h)
          /\ \A i \in 1 .. Len(r) + Len(h) : u[i] = IF i <= Len(r) THEN r[i] ELSE h[i - Len(r)]
      BY <1>t, <2>4, ConcatProperties, Zenon
    <3>2. Len(r) + Len(h) = BlockLen
      BY <1>2, <2>1, <2>4
    <3> QED
      BY <3>1, <3>2
  <2> HIDE DEF u
  <2>6. /\ b \in [1 .. BlockLen -> V]
        /\ \A i \in 1 .. BlockLen : b[i] =
               IF i > Len(r) /\ i <= Len(r) + Len(h) THEN h[i - Len(r)] ELSE c.buffer[i]
    <3>1. h \in Seq(V)
      BY <2>4
    <3>2. Copy(V, c.buffer, Len(r), h, b)
      BY <1>t, <3>1, CopiedSo, Zenon
    <3> QED
      BY <3>2, Zenon DEF Copy
  <2> HIDE DEF b
  <2>7. b = u
    <3>1. ASSUME NEW i \in 1 .. BlockLen PROVE b[i] = u[i]
      <4>1. CASE i <= Len(r)
        <5>1. b[i] = c.buffer[i] /\ c.buffer[i] = r[i] /\ u[i] = r[i]
          BY <1>2, <2>5, <2>6, <4>1
        <5> QED
          BY <5>1
      <4>2. CASE i > Len(r)
        <5>1. b[i] = h[i - Len(r)] /\ u[i] = h[i - Len(r)]
          BY <1>2, <2>1, <2>4, <2>5, <2>6, <4>2
        <5> QED
          BY <5>1
      <4> QED
        BY <1>2, <4>1, <4>2
    <3>2. b \in Seq(V) /\ Len(b) = BlockLen
      BY <1>2, <2>6
    <3> QED
      BY <2>5, <3>1, <3>2, SeqEqual
  <2>8. a \in Contexts(V) /\ a.lo = counted.lo /\ a.sum = counted.sum
    <3> HIDE DEF counted
    <3> QED
      BY <1>4, <2>6 DEF Contexts
  <2> HIDE DEF a, counted
  <2>9. Summed(V, w, q, a)
    BY <1>6, <2>8 DEF Summed
  <2>10. Summed(V, w \o u, q + 1, body(a, << u >>))
    <3>1. Long(u, BlockLen, 1)
      BY <1>2, <2>5 DEF Long
    <3> QED
      BY <2>5, <2>9, <3>1, SummedOne
  <2>11. body(a, << u >>).lo = Len(w \o u) + Len(t)
    <3>1. body(a, << u >>).lo = a.lo
      BY <2>8 DEF body, Contexts
    <3>2. Len(w \o u) = Len(w) + Len(u) /\ Len(d) = Len(h) + Len(t)
      BY <1>t, <2>4, <2>5, ConcatProperties, Zenon
    <3>3. Len(t) \in Nat
      BY <2>4
    <3> QED
      <4>1. body(a, << u >>).lo = Len(w) + Len(r) + Len(d)
        BY <1>4, <2>8, <3>1
      <4>2. /\ Len(w) \in Nat /\ Len(r) \in Nat /\ Len(u) = BlockLen /\ Len(h) = n
            /\ n \in Nat /\ BlockLen \in Nat /\ n + Len(r) = BlockLen
        BY <1>2, <2>1, <2>4, <2>5
      <4> QED
        BY <3>2, <3>3, <4>1, <4>2
  <2>12. Made(V, (w \o u) \o t, [body(body(a, << u >>), Pieces(t, BlockLen)) EXCEPT
                                    !.buffer = Memcpy(@, 0, Rest(t, BlockLen))])
    BY <2>4, <2>10, <2>11, SumsTheRest
  <2>13. (w \o u) \o t = s \o d
    <3>t. u \in Seq(V) /\ t \in Seq(V) /\ h \in Seq(V)
      BY <2>4, <2>5
    <3>1. Regroups(V, w, u, t) /\ Regroups(V, r, h, t)
      BY <1>t, <3>t, Regrouped, Zenon
    <3>2. (w \o u) \o t = w \o (u \o t) /\ (r \o h) \o t = r \o (h \o t)
      BY <3>1, Zenon DEF Regroups
    <3> QED
      BY <1>7, <2>4, <3>1, <3>2, Zenon DEF u
  <2> QED
    BY <2>2, <2>3, <2>7, <2>12, <2>13, Zenon
<1> HIDE DEF used, available
<1> QED
  BY <1>8, <1>9, <1>10, Zenon

-----------------------------------------------------------------------------
LEMMA ZerosAre ==
    ASSUME NEW V, 0 \in V, NEW n \in Nat
    PROVE  Zeros(n) \in Seq(V) /\ Len(Zeros(n)) = n /\ \A i \in 1 .. n : Zeros(n)[i] = 0
BY DEF Zeros

LEMMA ZerosAdd ==
    ASSUME NEW V, 0 \in V, NEW m \in Nat, NEW n \in Nat
    PROVE  Zeros(m) \o Zeros(n) = Zeros(m + n)
<1> DEFINE a == Zeros(m)
           b == Zeros(n)
           c == Zeros(m + n)
<1>1. a \in Seq(V) /\ Len(a) = m /\ \A i \in 1 .. m : a[i] = 0
  BY ZerosAre
<1>2. b \in Seq(V) /\ Len(b) = n /\ \A i \in 1 .. n : b[i] = 0
  BY ZerosAre
<1>3. c \in Seq(V) /\ Len(c) = m + n /\ \A i \in 1 .. m + n : c[i] = 0
  <2>1. m + n \in Nat
    OBVIOUS
  <2> QED
    BY <2>1, ZerosAre
<1> HIDE DEF a, b, c
<1>4. /\ a \o b \in Seq(V) /\ Len(a \o b) = m + n
      /\ \A i \in 1 .. m + n : (a \o b)[i] = IF i <= m THEN a[i] ELSE b[i - m]
  BY <1>1, <1>2, ConcatProperties
<1>5. ASSUME NEW i \in 1 .. m + n PROVE (a \o b)[i] = c[i]
  <2>1. CASE i <= m
    BY <1>1, <1>3, <1>4, <2>1
  <2>2. CASE i > m
    <3>1. i - m \in 1 .. n
      BY <2>2
    <3> QED
      BY <1>2, <1>3, <1>4, <2>2, <3>1
  <2>3. i <= m \/ i > m
    OBVIOUS
  <2> QED
    BY <2>1, <2>2, <2>3, Zenon
<1>6. a \o b = c
  BY <1>3, <1>4, <1>5, SeqEqual
<1> QED
  BY <1>6 DEF a, b, c

\* u is what buffer begins with, and t fills it.
Opens(u, t, buffer) ==
    Len(u) + Len(t) = BlockLen /\ \A i \in 1 .. Len(u) : buffer[i] = u[i]

LEMMA Overlaid ==
    ASSUME NEW V, NEW buffer \in [1 .. BlockLen -> V], NEW u \in Seq(V), NEW t \in Seq(V),
           Opens(u, t, buffer)
    PROVE  /\ Memcpy(buffer, Len(u), t) = u \o t
           /\ u \o t \in Seq(V) /\ Long(u \o t, BlockLen, 1) /\ u \o t \in [1 .. BlockLen -> V]
<1> DEFINE b == Memcpy(buffer, Len(u), t)
<1>1. /\ Len(u) \in Nat /\ Len(t) \in Nat /\ BlockLen \in Nat /\ Len(u) + Len(t) = BlockLen
      /\ \A i \in 1 .. Len(u) : buffer[i] = u[i]
  BY Md5Assumption DEF Opens
<1>2. Copy(V, buffer, Len(u), t, b)
  BY <1>1, Copied
<1> HIDE DEF b
<1>3. /\ b \in [1 .. BlockLen -> V]
      /\ \A i \in 1 .. BlockLen :
            b[i] = IF i > Len(u) /\ i <= Len(u) + Len(t) THEN t[i - Len(u)] ELSE buffer[i]
  BY <1>2 DEF Copy
<1>4. /\ u \o t \in Seq(V) /\ Len(u \o t) = Len(u) + Len(t)
      /\ \A i \in 1 .. Len(u) + Len(t) : (u \o t)[i] = IF i <= Len(u) THEN u[i] ELSE t[i - Len(u)]
  BY ConcatProperties
<1>5. ASSUME NEW i \in 1 .. BlockLen PROVE b[i] = (u \o t)[i]
  <2>0. i \in 1 .. Len(u) + Len(t)
    BY <1>1
  <2>1. CASE i <= Len(u)
    <3>1. b[i] = buffer[i] /\ buffer[i] = u[i] /\ (u \o t)[i] = u[i]
      BY <1>1, <1>3, <1>4, <2>0, <2>1
    <3> QED
      BY <3>1
  <2>2. CASE i > Len(u)
    <3>1. b[i] = t[i - Len(u)] /\ (u \o t)[i] = t[i - Len(u)]
      BY <1>1, <1>3, <1>4, <2>0, <2>2
    <3> QED
      BY <3>1
  <2> QED
    BY <1>1, <2>1, <2>2
<1>6. b \in Seq(V) /\ Len(b) = BlockLen
  BY <1>1, <1>3
<1>7. b = u \o t
  BY <1>1, <1>4, <1>5, <1>6, SeqEqual
<1>8. Long(b, BlockLen, 1)
  BY <1>1, <1>6 DEF Long
<1> QED
  BY <1>3, <1>6, <1>7, <1>8, Zenon DEF b

LEMMA LengthIs == \A n : Len(LengthBytes(n)) = LengthLen
<1>1. LengthLen \in Nat
  BY Md5Assumption
<1> QED
  BY <1>1 DEF LengthBytes

\* How much Sum puts between the mark and the length.
LEMMA Padding ==
    ASSUME NEW q \in Nat, NEW k \in Nat, k < BlockLen
    PROVE  BlockLen - 1 - ((q * BlockLen + k + LengthLen) % BlockLen) =
              IF BlockLen - (k + 1) < LengthLen
              THEN (BlockLen - (k + 1)) + (BlockLen - LengthLen)
              ELSE BlockLen - (k + 1) - LengthLen
<1> DEFINE x == q * BlockLen
           y == (q + 1) * BlockLen
<1>1. BlockLen \in Nat \ {0} /\ LengthLen \in Nat /\ LengthLen < BlockLen
  BY Md5Assumption
<1>2. x \in Nat /\ y = x + BlockLen /\ q + 1 \in Nat
  BY <1>1
<1>3. CASE BlockLen - (k + 1) < LengthLen
  <2> DEFINE r == k + LengthLen - BlockLen
  <2>1. r \in Nat /\ r < BlockLen
    BY <1>1, <1>3
  <2> HIDE DEF r
  <2>2. (y + r) % BlockLen = r
    BY <1>1, <1>2, <2>1, Division
  <2> HIDE DEF x, y
  <2>3. y + r = x + k + LengthLen
    BY <1>1, <1>2 DEF r
  <2>4. BlockLen - 1 - r = (BlockLen - (k + 1)) + (BlockLen - LengthLen)
    BY <1>1 DEF r
  <2>5. BlockLen - 1 - ((x + k + LengthLen) % BlockLen) = BlockLen - 1 - r
    BY <2>2, <2>3
  <2> QED
    BY <1>3, <2>4, <2>5 DEF x
<1>4. CASE ~(BlockLen - (k + 1) < LengthLen)
  <2> DEFINE r == k + LengthLen
  <2>1. r \in Nat /\ r < BlockLen
    BY <1>1, <1>4
  <2> HIDE DEF r
  <2>2. (x + r) % BlockLen = r
    BY <1>1, <2>1, Division
  <2> HIDE DEF x, y
  <2>3. x + r = x + k + LengthLen
    BY <1>1, <1>2 DEF r
  <2>4. BlockLen - 1 - r = BlockLen - (k + 1) - LengthLen
    BY <1>1 DEF r
  <2>5. BlockLen - 1 - ((x + k + LengthLen) % BlockLen) = BlockLen - 1 - r
    BY <2>2, <2>3
  <2> QED
    BY <1>4, <2>4, <2>5 DEF x
<1> QED
  BY <1>3, <1>4

\* The byte that follows the data.
Mark == << 128 >>

\* Laid behind u, t makes the block l.
Lays(V, buffer, u, t, l) ==
    /\ Memcpy(buffer, Len(u), t) = l
    /\ l \in Seq(V) /\ Long(l, BlockLen, 1) /\ l \in [1 .. BlockLen -> V]

LEMMA Laid ==
    \A V : \A buffer \in [1 .. BlockLen -> V] : \A u, t \in Seq(V) :
        Opens(u, t, buffer) => Lays(V, buffer, u, t, u \o t)
BY Overlaid, Zenon DEF Lays

LEMMA EndSums ==
    ASSUME NEW V, {0, 128} \subseteq V, NEW s, NEW c, Made(V, s, c),
           LengthBytes(Len(s)) \in Seq(V)
    PROVE  md5_end(c) = Sum(s)
<1>1. PICK w, r, q : Summed(V, w, q, c) /\ Waiting(V, w, r, c) /\ s = w \o r
  BY Zenon DEF Made
<1>2. /\ w \in Seq(V) /\ q \in Nat /\ Len(w) = q * BlockLen /\ c \in Contexts(V)
      /\ r \in Seq(V) /\ Len(r) < BlockLen /\ c.lo = Len(w) + Len(r)
      /\ \A i \in 1 .. Len(r) : c.buffer[i] = r[i]
      /\ Len(r) \in Nat /\ Len(w) \in Nat
  BY <1>1 DEF Summed, Waiting, Long
<1>a. /\ BlockLen \in Nat \ {0} /\ LengthLen \in Nat /\ LengthLen < BlockLen
      /\ Len(r) \in Nat /\ Len(r) < BlockLen
  BY <1>2, Md5Assumption
<1>t. w \in Seq(V) /\ r \in Seq(V) /\ Mark \in Seq(V) /\ Len(Mark) = 1 /\ 0 \in V
  BY <1>2 DEF Mark
<1> DEFINE n == BlockLen - (Len(r) + 1)
           b == LengthBytes(Len(s))
           x == r \o Mark
           m == x \o Zeros(n)
           marked == [c EXCEPT !.buffer = m]
<1>3. n \in Nat /\ Len(s) = c.lo /\ b \in Seq(V) /\ Len(b) = LengthLen
  <2>1. Len(s) = Len(w) + Len(r)
    BY <1>1, <1>t, ConcatProperties
  <2> QED
    BY <1>2, <1>a, <2>1, LengthIs
<1> HIDE DEF n, b
<1>4. x \in Seq(V) /\ Len(x) = Len(r) + 1 /\ \A i \in 1 .. Len(r) : x[i] = r[i]
  <2>1. /\ x \in Seq(V) /\ Len(x) = Len(r) + Len(Mark)
        /\ \A i \in 1 .. Len(r) + Len(Mark) : x[i] = IF i <= Len(r) THEN r[i] ELSE Mark[i - Len(r)]
    BY <1>t, ConcatProperties
  <2> QED
    BY <1>a, <1>t, <2>1
<1>5. Zeros(n) \in Seq(V) /\ Len(Zeros(n)) = n
  BY <1>3, <1>t, ZerosAre
<1>6. /\ Memcpy(c.buffer, Len(r), Mark \o Zeros(n)) = m
      /\ m \in Seq(V) /\ Long(m, BlockLen, 1) /\ m \in [1 .. BlockLen -> V]
  <2> DEFINE t == Mark \o Zeros(n)
  <2>1. t \in Seq(V) /\ Len(t) = 1 + n
    <3>1. Joins(V, Mark, Zeros(n), t)
      BY <1>5, <1>t, Joined, Zenon
    <3> QED
      BY <1>5, <1>t, <3>1 DEF Joins
  <2>2. c.buffer \in [1 .. BlockLen -> V]
    BY <1>2 DEF Contexts
  <2>3. r \o t = m
    <3>1. Regroups(V, r, Mark, Zeros(n))
      BY <1>5, <1>t, Regrouped, Zenon
    <3> QED
      BY <3>1, Zenon DEF Regroups
  <2> HIDE DEF t, m
  <2>4. Opens(r, t, c.buffer)
    BY <1>2, <1>a, <2>1 DEF Opens, n
  <2>5. Lays(V, c.buffer, r, t, r \o t)
    BY <1>t, <2>1, <2>2, <2>4, Laid, Zenon
  <2>6. Lays(V, c.buffer, r, t, m)
    BY <2>3, <2>5, Zenon
  <2> QED
    BY <2>6, Zenon DEF Lays, t
<1> DEFINE room == IF n < LengthLen
                   THEN [body(marked, << m >>) EXCEPT !.buffer = Zeros(BlockLen)]
                   ELSE marked
           last == Memcpy(room.buffer, BlockLen - LengthLen, b)
           z == IF n < LengthLen THEN n + (BlockLen - LengthLen) ELSE n - LengthLen
<1>7. md5_end(c) = body(room, << last >>).sum
  <2>1. c.lo % BlockLen = Len(r)
    <3>1. (q * BlockLen + Len(r)) % BlockLen = Len(r)
      BY <1>2, <1>a, Division
    <3> QED
      BY <1>2, <3>1
  <2> DEFINE used == (c.lo % BlockLen) + 1
             mk == [c EXCEPT !.buffer = Memcpy(@, used - 1, << 128 >> \o Zeros(BlockLen - used))]
             rm == IF BlockLen - used < LengthLen
                   THEN [body(mk, << mk.buffer >>) EXCEPT !.buffer = Zeros(BlockLen)]
                   ELSE mk
             ls == Memcpy(rm.buffer, BlockLen - LengthLen, LengthBytes(c.lo))
  <2>2. md5_end(c) = body(rm, << ls >>).sum
    BY DEF md5_end
  <2>3. used - 1 = Len(r) /\ BlockLen - used = n /\ << 128 >> = Mark
    BY <1>a, <2>1 DEF n, Mark
  <2>4. mk = [c EXCEPT !.buffer = Memcpy(c.buffer, Len(r), Mark \o Zeros(n))]
    <3> HIDE DEF used
    <3>1. mk = [c EXCEPT !.buffer = Memcpy(c.buffer, used - 1, << 128 >> \o Zeros(BlockLen - used))]
      OBVIOUS
    <3> QED
      BY <2>3, <3>1
  <2>5. mk = marked
    <3> HIDE DEF m, mk
    <3> QED
      BY <1>6, <2>4
  <2> HIDE DEF mk
  <2>6. marked.buffer = m
    <3> HIDE DEF m
    <3> QED
      BY <1>2 DEF Contexts
  <2> HIDE DEF used, m, marked
  <2>7. rm = room
    BY <2>3, <2>5, <2>6
  <2> HIDE DEF rm, room
  <2> QED
    BY <1>3, <2>2, <2>7 DEF b
<1>8. Sum(s) = Pieces(((s \o Mark) \o Zeros(z)) \o b, BlockLen)
  <2>1. BlockLen - 1 - ((Len(s) + LengthLen) % BlockLen) = z
    <3>1. BlockLen - 1 - ((q * BlockLen + Len(r) + LengthLen) % BlockLen) = z
      BY <1>2, <1>a, Padding DEF n
    <3> QED
      BY <1>2, <1>3, <3>1
  <2> HIDE DEF z
  <2> QED
    BY <2>1, Zenon DEF Sum, Mark, b
<1>9. marked \in Contexts(V) /\ marked.buffer = m /\ marked.sum = c.sum
  <2> HIDE DEF m
  <2> QED
    BY <1>2, <1>6 DEF Contexts
<1> HIDE DEF x, m, marked
<1>10. Summed(V, w, q, marked)
  BY <1>1, <1>9 DEF Summed
<1>11. (w \o r) \o Mark = w \o x
  <2>1. Regroups(V, w, r, Mark)
    BY <1>t, Regrouped, Zenon
  <2> QED
    BY <2>1, Zenon DEF x, Regroups
<1>12. CASE n < LengthLen
  <2> DEFINE k == BlockLen - LengthLen
             full == body(marked, << m >>)
             l == Zeros(k) \o b
  <2>1. /\ Summed(V, w \o m, q + 1, full)
        /\ room = [full EXCEPT !.buffer = Zeros(BlockLen)] /\ z = n + k /\ k \in Nat
    BY <1>6, <1>10, <1>12, <1>a, SummedOne
  <2> HIDE DEF z, full
  <2>2. full \in Contexts(V)
    BY <2>1 DEF Summed
  <2>3. Zeros(BlockLen) \in [1 .. BlockLen -> V] /\ \A i \in 1 .. BlockLen : Zeros(BlockLen)[i] = 0
    BY <1>a, <1>t DEF Zeros
  <2>4. room \in Contexts(V) /\ room.buffer = Zeros(BlockLen) /\ room.sum = full.sum
    <3> HIDE DEF room
    <3> QED
      BY <2>1, <2>2, <2>3 DEF Contexts
  <2>5. Zeros(k) \in Seq(V) /\ Len(Zeros(k)) = k /\ \A i \in 1 .. k : Zeros(k)[i] = 0
    BY <1>t, <2>1, ZerosAre
  <2> HIDE DEF room
  <2>6. last = l /\ l \in Seq(V) /\ Long(l, BlockLen, 1)
    <3>1. Opens(Zeros(k), b, Zeros(BlockLen))
      <4>1. Len(Zeros(k)) + Len(b) = BlockLen
        BY <1>3, <1>a, <2>5
      <4>2. \A i \in 1 .. Len(Zeros(k)) : Zeros(BlockLen)[i] = Zeros(k)[i]
        BY <1>a, <2>3, <2>5
      <4> QED
        BY <4>1, <4>2, Zenon DEF Opens
    <3>2. Lays(V, Zeros(BlockLen), Zeros(k), b, l)
      BY <1>3, <2>3, <2>5, <3>1, Laid, Zenon
    <3> HIDE DEF l
    <3> QED
      BY <2>4, <2>5, <3>2, Zenon DEF Lays
  <2> HIDE DEF last, k
  <2>7. Summed(V, w \o m, q + 1, room)
    BY <2>1, <2>4 DEF Summed
  <2>8. Summed(V, (w \o m) \o l, (q + 1) + 1, body(room, << last >>))
    <3> HIDE DEF l
    <3> QED
      BY <2>6, <2>7, SummedOne
  <2>9. body(room, << last >>).sum = Pieces((w \o m) \o l, BlockLen)
    BY <2>8, Zenon DEF Summed
  <2>10. (w \o m) \o l = ((s \o Mark) \o Zeros(z)) \o b
    <3>1. w \o m = (w \o x) \o Zeros(n) /\ w \o x \in Seq(V)
      <4>1. Regroups(V, w, x, Zeros(n)) /\ Joins(V, w, x, w \o x)
        BY <1>4, <1>5, <1>t, Regrouped, Joined, Zenon
      <4> QED
        BY <4>1, Zenon DEF Regroups, Joins, m
    <3> DEFINE y == w \o x
    <3> HIDE DEF y
    <3>2. y \in Seq(V) /\ w \o m = y \o Zeros(n)
      BY <3>1 DEF y
    <3>3. y \o Zeros(n) \in Seq(V)
      BY <1>5, <3>2, Joined, Zenon DEF Joins
    <3>4. (y \o Zeros(n)) \o l = ((y \o Zeros(n)) \o Zeros(k)) \o b
      <4>1. Regroups(V, y \o Zeros(n), Zeros(k), b)
        BY <1>3, <2>5, <3>3, Regrouped, Zenon
      <4> QED
        BY <4>1, Zenon DEF Regroups
    <3>5. (y \o Zeros(n)) \o Zeros(k) = y \o (Zeros(n) \o Zeros(k))
      <4>1. Regroups(V, y, Zeros(n), Zeros(k))
        BY <1>5, <2>5, <3>2, Regrouped, Zenon
      <4> QED
        BY <4>1, Zenon DEF Regroups
    <3>6. Zeros(n) \o Zeros(k) = Zeros(z)
      BY <1>3, <1>t, <2>1, ZerosAdd
    <3>7. s \o Mark = y
      BY <1>1, <1>11, Zenon DEF y
    <3> QED
      BY <3>2, <3>4, <3>5, <3>6, <3>7, Zenon
  <2> HIDE DEF l
  <2> QED
    BY <1>7, <1>8, <2>9, <2>10, Zenon
<1>13. CASE ~(n < LengthLen)
  <2> DEFINE u == x \o Zeros(z)
             l == u \o b
  <2>1. room = marked /\ z \in Nat /\ z + LengthLen = n
    BY <1>13, <1>3, <1>a
  <2> HIDE DEF z, room
  <2>2. Zeros(z) \in Seq(V) /\ Len(Zeros(z)) = z /\ Zeros(LengthLen) \in Seq(V)
    BY <1>a, <1>t, <2>1, ZerosAre
  <2>3. u \in Seq(V) /\ Len(u) = Len(r) + 1 + z
    <3>1. Joins(V, x, Zeros(z), u)
      BY <1>4, <2>2, Joined, Zenon
    <3> QED
      BY <1>4, <2>2, <3>1 DEF Joins
  <2>4. Len(u) = BlockLen - LengthLen
    BY <1>a, <2>1, <2>3 DEF n
  <2>5. m = u \o Zeros(LengthLen)
    <3>1. Zeros(z) \o Zeros(LengthLen) = Zeros(n)
      BY <1>a, <1>t, <2>1, ZerosAdd
    <3>2. x \in Seq(V)
      BY <1>4
    <3>3. (x \o Zeros(z)) \o Zeros(LengthLen) = x \o (Zeros(z) \o Zeros(LengthLen))
      <4>1. Regroups(V, x, Zeros(z), Zeros(LengthLen))
        BY <2>2, <3>2, Regrouped, Zenon
      <4> QED
        BY <4>1, Zenon DEF Regroups
    <3> QED
      BY <3>1, <3>3, Zenon DEF m
  <2> HIDE DEF u
  <2>6. \A i \in 1 .. Len(u) : m[i] = u[i]
    <3>1. \A i \in 1 .. Len(u) + Len(Zeros(LengthLen)) : (u \o Zeros(LengthLen))[i] =
              IF i <= Len(u) THEN u[i] ELSE Zeros(LengthLen)[i - Len(u)]
      BY <2>2, <2>3, ConcatProperties
    <3>2. Len(u) \in Nat /\ Len(Zeros(LengthLen)) \in Nat
      BY <2>2, <2>3
    <3> QED
      BY <2>5, <3>1, <3>2
  <2>7. last = l /\ l \in Seq(V) /\ Long(l, BlockLen, 1)
    <3>1. Opens(u, b, m)
      <4>1. Len(u) + Len(b) = BlockLen
        BY <1>3, <1>a, <2>4
      <4> QED
        BY <2>6, <4>1, Zenon DEF Opens
    <3>2. Lays(V, m, u, b, l)
      BY <1>3, <1>6, <2>3, <3>1, Laid, Zenon
    <3> HIDE DEF l
    <3> QED
      BY <1>9, <2>1, <2>4, <3>2, Zenon DEF Lays
  <2> HIDE DEF last
  <2>8. Summed(V, w \o l, q + 1, body(room, << last >>))
    <3> HIDE DEF l
    <3> QED
      BY <1>10, <2>1, <2>7, SummedOne
  <2>9. body(room, << last >>).sum = Pieces(w \o l, BlockLen)
    BY <2>8, Zenon DEF Summed
  <2>10. w \o l = ((s \o Mark) \o Zeros(z)) \o b
    <3>w. w \in Seq(V) /\ x \in Seq(V)
      BY <1>4, <1>t
    <3>1. w \o (u \o b) = (w \o u) \o b
      <4>1. Regroups(V, w, u, b)
        BY <1>3, <2>3, <3>w, Regrouped, Zenon
      <4> QED
        BY <4>1, Zenon DEF Regroups
    <3>2. w \o (x \o Zeros(z)) = (w \o x) \o Zeros(z)
      <4>1. Regroups(V, w, x, Zeros(z))
        BY <2>2, <3>w, Regrouped, Zenon
      <4> QED
        BY <4>1, Zenon DEF Regroups
    <3>3. s \o Mark = w \o x
      BY <1>1, <1>11, Zenon
    <3> QED
      BY <3>1, <3>2, <3>3, Zenon DEF u
  <2> HIDE DEF l
  <2> QED
    BY <1>7, <1>8, <2>9, <2>10, Zenon
<1> HIDE DEF z, last, room
<1> QED
  BY <1>12, <1>13

-----------------------------------------------------------------------------
\* What md5_hash makes of the first reads.
Hashes(reads, n, f) ==
    f = [k \in 0 .. n |-> IF k = 0 THEN md5_begin ELSE md5_hash(f[k - 1], reads[k])]

LEMMA HashesExist == \A reads : \A n \in Nat : \E f : Hashes(reads, n, f)
<1> SUFFICES ASSUME NEW reads PROVE \A n \in Nat : \E f : Hashes(reads, n, f)
  OBVIOUS
<1> DEFINE G == {n \in Nat : \E f : Hashes(reads, n, f)}
<1>1. 0 \in G
  <2>1. Hashes(reads, 0, [k \in 0 .. 0 |-> md5_begin])
    BY DEF Hashes
  <2> QED
    BY <2>1
<1>2. \A n \in Nat : n \in G => n + 1 \in G
  <2> SUFFICES ASSUME NEW n \in Nat, NEW f, Hashes(reads, n, f)
               PROVE  \E g : Hashes(reads, n + 1, g)
    OBVIOUS
  <2> DEFINE g == [k \in 0 .. n + 1 |-> IF k = n + 1 THEN md5_hash(f[n], reads[n + 1]) ELSE f[k]]
  <2>1. /\ \A k \in 1 .. n : f[k] = md5_hash(f[k - 1], reads[k])
        /\ f[0] = md5_begin
    BY DEF Hashes
  <2>2. ASSUME NEW k \in 0 .. n + 1
        PROVE  g[k] = IF k = 0 THEN md5_begin ELSE md5_hash(g[k - 1], reads[k])
    <3>1. CASE k = 0
      BY <2>1, <3>1
    <3>2. CASE k \in 1 .. n
      <4>1. g[k] = f[k] /\ g[k - 1] = f[k - 1] /\ k # 0
        BY <3>2
      <4> QED
        BY <2>1, <3>2, <4>1
    <3>3. CASE k = n + 1
      <4>1. g[k] = md5_hash(f[n], reads[n + 1]) /\ g[k - 1] = f[n] /\ k # 0
        BY <3>3
      <4> QED
        BY <3>3, <4>1
    <3> QED
      BY <3>1, <3>2, <3>3
  <2>3. g = [k \in 0 .. n + 1 |-> g[k]]
    OBVIOUS
  <2> HIDE DEF g
  <2>4. Hashes(reads, n + 1, g)
    BY <2>2, <2>3 DEF Hashes
  <2> QED
    BY <2>4
<1>3. Nat \subseteq G
  <2> HIDE DEF G
  <2> QED
    BY <1>1, <1>2, Induction
<1> QED
  BY <1>3

\* The reads of a file.
ReadsOf(file) == Pieces(file, ReadLen) \o
                 (IF Len(file) % ReadLen = 0 THEN << >> ELSE << Rest(file, ReadLen) >>)

LEMMA Summand ==
    ASSUME NEW file, Len(ReadsOf(file)) \in Nat
    PROVE  \E f : Hashes(ReadsOf(file), Len(ReadsOf(file)), f)
                  /\ md5sum(file) = md5_end(f[Len(ReadsOf(file))])
<1> DEFINE n == Len(ReadsOf(file))
           f == CHOOSE g : g = [k \in 0 .. n |->
                   IF k = 0 THEN md5_begin ELSE md5_hash(g[k - 1], ReadsOf(file)[k])]
<1>1. \E g : Hashes(ReadsOf(file), n, g)
  BY HashesExist
<1>2. \E g : g = [k \in 0 .. n |->
                   IF k = 0 THEN md5_begin ELSE md5_hash(g[k - 1], ReadsOf(file)[k])]
  BY <1>1, Zenon DEF Hashes
<1>3. f = [k \in 0 .. n |-> IF k = 0 THEN md5_begin ELSE md5_hash(f[k - 1], ReadsOf(file)[k])]
  <2> HIDE DEF n
  <2> QED
    BY <1>2, Zenon
<1>4. Hashes(ReadsOf(file), n, f)
  BY <1>3, Zenon DEF Hashes
<1>5. md5sum(file) = md5_end(f[n])
  BY Zenon DEF md5sum, ReadsOf
<1> QED
  BY <1>4, <1>5, Zenon

Values == Int \cup {LengthBytes(l[1])[l[2]] : l \in Nat \X (1 .. LengthLen)}

LEMMA LengthBytesAre == \A n \in Nat : LengthBytes(n) \in Seq(Values)
<1> TAKE n \in Nat
<1>1. LengthLen \in Nat
  BY Md5Assumption
<1>2. ASSUME NEW i \in 1 .. LengthLen PROVE LengthBytes(n)[i] \in Values
  <2>1. << n, i >> \in Nat \X (1 .. LengthLen) /\ << n, i >>[1] = n /\ << n, i >>[2] = i
    OBVIOUS
  <2> QED
    BY <2>1, Zenon DEF Values
<1>3. LengthBytes(n) = [i \in 1 .. LengthLen |-> LengthBytes(n)[i]]
  BY DEF LengthBytes
<1> HIDE DEF Values
<1>4. LengthBytes(n) \in [1 .. LengthLen -> Values]
  BY <1>2, <1>3
<1> QED
  BY <1>1, <1>4

\* md5sum makes of a file the sum that RFC 1321 has it make.
LEMMA SumIsRight == ASSUME NEW file \in Seq(Int) PROVE md5sum(file) = Sum(file)
<1> DEFINE V == Values
           R == ReadLen
           p == Len(file) \div R
           o == Len(file) % R
           reads == ReadsOf(file)
           n == Len(reads)
           first(k) == SubSeq(file, 1, k * R)
<1>1. {0, 128} \subseteq V /\ file \in Seq(V) /\ R \in Nat \ {0} /\ Len(file) \in Nat
  <2>1. Int \subseteq Values
    BY DEF Values
  <2>2. file \in Seq(Values)
    BY <2>1, SeqMonotonic
  <2> QED
    BY <2>1, <2>2, Md5Assumption
<1>2. /\ p \in Nat /\ o \in Nat /\ o < R
      /\ p * R \in Nat /\ Len(file) = p * R + o /\ p * R <= Len(file)
  BY <1>1, Divided
<1>l. LengthBytes(Len(file)) \in Seq(V)
  BY <1>1, LengthBytesAre
<1> HIDE DEF V, R, p, o
<1>3. Cut(V, file, R, Pieces(file, R), p)
  BY <1>1, PiecesAre, Zenon DEF p
<1>4. /\ n = IF o = 0 THEN p ELSE p + 1
      /\ \A k \in 1 .. p : reads[k] = Pieces(file, R)[k]
      /\ o # 0 => reads[p + 1] = Rest(file, R)
  <2> DEFINE a == Pieces(file, R)
             b == IF o = 0 THEN << >> ELSE << Rest(file, R) >>
             W == Seq(V) \cup {Rest(file, R)}
  <2>1. reads = a \o b
    BY Zenon DEF ReadsOf, R, o
  <2>2. a \in Seq(W) /\ Len(a) = p
    <3>1. a \in Seq(Seq(V)) /\ Len(a) = p
      BY <1>3, Zenon DEF Cut
    <3>2. Seq(V) \subseteq W
      OBVIOUS
    <3> HIDE DEF a, W
    <3> QED
      BY <3>1, <3>2, SeqMonotonic
  <2>3. b \in Seq(W) /\ Len(b) = (IF o = 0 THEN 0 ELSE 1) /\ (o # 0 => b[1] = Rest(file, R))
    <3> DEFINE t == Rest(file, R)
    <3>1. t \in W
      OBVIOUS
    <3>b. b = IF o = 0 THEN << >> ELSE << t >>
      OBVIOUS
    <3> HIDE DEF t, W, b
    <3>2. CASE o = 0
      BY <3>b, <3>2
    <3>3. CASE o # 0
      <4>1. b = << t >>
        BY <3>b, <3>3
      <4>2. b \in Seq(W) /\ Len(b) = 1 /\ b[1] = t
        BY <3>1, <4>1
      <4> QED
        BY <3>3, <4>2 DEF t
    <3> QED
      BY <3>2, <3>3 DEF t
  <2> HIDE DEF a, b, W, reads
  <2>4. Joins(W, a, b, reads)
    BY <2>1, <2>2, <2>3, Joined, Zenon
  <2>5. /\ n = p + Len(b)
        /\ \A k \in 1 .. p + Len(b) : reads[k] = IF k <= p THEN a[k] ELSE b[k - p]
    BY <2>2, <2>4 DEF Joins
  <2>6. o # 0 => p + 1 \in 1 .. p + Len(b) /\ ~(p + 1 <= p) /\ (p + 1) - p = 1
    BY <1>2, <2>3
  <2>7. \A k \in 1 .. p : k \in 1 .. p + Len(b) /\ k <= p
    BY <1>2, <2>3
  <2> HIDE DEF n
  <2>8. n = IF o = 0 THEN p ELSE p + 1
    BY <1>2, <2>3, <2>5
  <2>9. o # 0 => reads[p + 1] = Rest(file, R)
    BY <2>3, <2>5, <2>6
  <2>10. \A k \in 1 .. p : reads[k] = a[k]
    BY <2>5, <2>7
  <2> QED
    BY <2>8, <2>9, <2>10 DEF a
<1> HIDE DEF reads, n
<1>5. n \in Nat /\ p <= n
  BY <1>2, <1>4
<1>6. PICK f : Hashes(reads, n, f) /\ md5sum(file) = md5_end(f[n])
  BY <1>5, Summand DEF reads, n
<1>7. f[0] = md5_begin /\ \A k \in 1 .. n : f[k] = md5_hash(f[k - 1], reads[k])
  BY <1>5, <1>6 DEF Hashes
<1> DEFINE G == {k \in Nat : k <= p => Made(V, first(k), f[k])}
<1>8. 0 \in G
  <2>1. first(0) = << >>
    <3>1. 0 * R = 0
      BY <1>1
    <3> QED
      BY <3>1, SubSeqEmpty
  <2>2. Made(V, << >>, md5_begin)
    BY <1>1, BeginMade
  <2> QED
    BY <1>7, <2>1, <2>2
<1>9. \A k \in Nat : k \in G => k + 1 \in G
  <2> SUFFICES ASSUME NEW k \in Nat, k \in G, k + 1 <= p PROVE Made(V, first(k + 1), f[k + 1])
    OBVIOUS
  <2>1. k + 1 \in 1 .. p /\ k <= p /\ k + 1 \in 1 .. n /\ (k + 1) - 1 = k
    BY <1>2, <1>5
  <2>2. Made(V, first(k), f[k])
    BY <2>1
  <2>3. reads[k + 1] \in Seq(V)
    BY <1>3, <1>4, <2>1 DEF Cut
  <2>4. f[k + 1] = md5_hash(f[k], reads[k + 1])
    BY <1>7, <2>1
  <2>5. Made(V, first(k) \o reads[k + 1], f[k + 1])
    <3> HIDE DEF first
    <3> QED
      BY <2>2, <2>3, <2>4, HashMade
  <2>6. first(k) \o reads[k + 1] = first(k + 1)
    <3> DEFINE x == k * R
               y == (k + 1) * R
    <3>1. x \in Nat /\ y = x + R /\ (k + 1) * R <= p * R
      BY <1>1, <1>2, <2>1, Multiples
    <3> DEFINE z == p * R
    <3>2. y <= z /\ z <= Len(file) /\ z \in Nat
      BY <1>2, <3>1
    <3>3. reads[k + 1] = SubSeq(file, x + 1, y)
      <4>1. Pieces(file, R)[k + 1] = SubSeq(file, ((k + 1) - 1) * R + 1, (k + 1) * R)
        BY <2>1 DEF Pieces, p
      <4> QED
        BY <1>4, <2>1, <4>1
    <3>4. first(k) = SubSeq(file, 1, x) /\ first(k + 1) = SubSeq(file, 1, y)
      OBVIOUS
    <3> HIDE DEF x, y, z, first
    <3>5. 1 \in 1 .. Len(file) + 1 /\ x \in 1 - 1 .. Len(file) /\ y \in x .. Len(file)
      BY <1>1, <3>1, <3>2
    <3>6. SubSeq(file, 1, x) \o SubSeq(file, x + 1, y) = SubSeq(file, 1, y)
      BY <1>1, <3>5, ConcatAdjacentSubSeq
    <3> QED
      BY <3>3, <3>4, <3>6
  <2> QED
    BY <2>5, <2>6
<1>10. Made(V, first(p), f[p])
  <2> HIDE DEF G, first
  <2>1. p \in G
    BY <1>2, <1>8, <1>9, Induction
  <2> QED
    BY <1>2, <2>1 DEF G
<1>11. Made(V, file, f[n])
  <2>1. CASE o = 0
    <3>1. n = p /\ p * R = Len(file)
      BY <1>1, <1>2, <1>4, <2>1
    <3>2. first(p) = file
      BY <3>1, SubSeqFull
    <3> QED
      BY <1>10, <3>1, <3>2
  <2>2. CASE o # 0
    <3>1. n = p + 1 /\ reads[p + 1] = Rest(file, R) /\ n \in 1 .. n /\ n - 1 = p
      BY <1>2, <1>4, <2>2
    <3> DEFINE x == p * R
    <3>2. Rest(file, R) = SubSeq(file, x + 1, Len(file)) /\ first(p) = SubSeq(file, 1, x)
      BY DEF Rest, p
    <3> HIDE DEF x, first
    <3>3. 1 \in 1 .. Len(file) + 1 /\ x \in 1 - 1 .. Len(file) /\ Len(file) \in x .. Len(file)
      BY <1>1, <1>2 DEF x
    <3>4. SubSeq(file, 1, x) \o SubSeq(file, x + 1, Len(file)) = SubSeq(file, 1, Len(file))
      BY <1>1, <3>3, ConcatAdjacentSubSeq
    <3>5. first(p) \o Rest(file, R) = file
      BY <3>2, <3>4, SubSeqFull
    <3>6. \A i \in x + 1 .. Len(file) : file[i] \in V
      BY <1>1, <1>2 DEF x
    <3>7. x + 1 \in Int /\ Len(file) \in Int
      BY <1>1, <1>2 DEF x
    <3>8. Rest(file, R) \in Seq(V)
      BY <3>2, <3>6, <3>7, SubSeqProperties
    <3>9. f[n] = md5_hash(f[p], Rest(file, R))
      BY <1>7, <3>1
    <3>10. Made(V, first(p) \o Rest(file, R), md5_hash(f[p], Rest(file, R)))
      BY <1>10, <3>8, HashMade
    <3> QED
      BY <3>5, <3>9, <3>10
  <2> QED
    BY <2>1, <2>2
<1>12. md5_end(f[n]) = Sum(file)
  BY <1>1, <1>11, <1>l, EndSums
<1> QED
  BY <1>6, <1>12

-----------------------------------------------------------------------------
(* Packages.                                                               *)

IsFile(d, i) == d.list[i].kind = "file"
Present(d, i) == IsFile(d, i) /\ d.list[i].file \in DOMAIN d.files

\* A directory: its files are bytes; and no file that is missing has the sum of a
\* file that is listed before it, or no sum at all.
Listed(d) ==
    /\ Len(d.list) \in Nat /\ DOMAIN d.list = 1 .. Len(d.list)
    /\ \A f \in DOMAIN d.files : d.files[f] \in Seq(Int)
    /\ \A i \in 1 .. Len(d.list) : IsFile(d, i) /\ ~Present(d, i) =>
          /\ d.list[i].sum # << >>
          /\ \A j \in 1 .. i - 1 : Present(d, j) => Sum(d.files[d.list[j].file]) # d.list[i].sum

\* A line that does not hold.
Wrong(d, i) == IsFile(d, i) /\ ~(Present(d, i) /\ Sum(d.files[d.list[i].file]) = d.list[i].sum)

LEMMA IntactIs == ASSUME NEW d, Listed(d)
                  PROVE Intact(d) <=> \A i \in 1 .. Len(d.list) : ~Wrong(d, i)
BY DEF Listed, Intact, Wrong, Present, IsFile

CheckNone == [sum |-> << >>, failed |-> FALSE]
Checks(d, n, f) ==
    f = [k \in 0 .. n |-> IF k = 0 THEN CheckNone ELSE CheckLine(d, f[k - 1], d.list[k])]

LEMMA ChecksExist == \A d : \A n \in Nat : \E f : Checks(d, n, f)
<1> SUFFICES ASSUME NEW d PROVE \A n \in Nat : \E f : Checks(d, n, f)
  OBVIOUS
<1> DEFINE G == {n \in Nat : \E f : Checks(d, n, f)}
<1>1. 0 \in G
  <2>1. Checks(d, 0, [k \in 0 .. 0 |-> CheckNone])
    BY DEF Checks
  <2> QED
    BY <2>1
<1>2. \A n \in Nat : n \in G => n + 1 \in G
  <2> SUFFICES ASSUME NEW n \in Nat, NEW f, Checks(d, n, f)
               PROVE  \E g : Checks(d, n + 1, g)
    OBVIOUS
  <2> DEFINE g == [k \in 0 .. n + 1 |-> IF k = n + 1 THEN CheckLine(d, f[n], d.list[n + 1]) ELSE f[k]]
  <2>1. /\ \A k \in 1 .. n : f[k] = CheckLine(d, f[k - 1], d.list[k])
        /\ f[0] = CheckNone
    BY DEF Checks
  <2>2. ASSUME NEW k \in 0 .. n + 1
        PROVE  g[k] = IF k = 0 THEN CheckNone ELSE CheckLine(d, g[k - 1], d.list[k])
    <3>1. CASE k = 0
      BY <2>1, <3>1
    <3>2. CASE k \in 1 .. n
      <4>1. g[k] = f[k] /\ g[k - 1] = f[k - 1] /\ k # 0
        BY <3>2
      <4> QED
        BY <2>1, <3>2, <4>1
    <3>3. CASE k = n + 1
      <4>1. g[k] = CheckLine(d, f[n], d.list[n + 1]) /\ g[k - 1] = f[n] /\ k # 0
        BY <3>3
      <4> QED
        BY <3>3, <4>1
    <3> QED
      BY <3>1, <3>2, <3>3
  <2>3. g = [k \in 0 .. n + 1 |-> g[k]]
    OBVIOUS
  <2> HIDE DEF g
  <2>4. Checks(d, n + 1, g)
    BY <2>2, <2>3 DEF Checks
  <2> QED
    BY <2>4
<1>3. Nat \subseteq G
  <2> HIDE DEF G
  <2> QED
    BY <1>1, <1>2, Induction
<1> QED
  BY <1>3

\* What the sum in the buffer can be behind the first lines: none, or that of a
\* file that was there.
SumOfEarlier(d, n, sum) ==
    sum = << >> \/ \E j \in 1 .. n : Present(d, j) /\ sum = Sum(d.files[d.list[j].file])

\* What is known behind the first lines.
CheckedTo(d, n, r) ==
    /\ r = [sum |-> r.sum, failed |-> r.failed]
    /\ SumOfEarlier(d, n, r.sum)
    /\ r.failed <=> \E i \in 1 .. n : Wrong(d, i)

LEMMA LineChecked ==
    ASSUME NEW d, Listed(d), NEW n \in Nat, n + 1 <= Len(d.list), NEW r, CheckedTo(d, n, r)
    PROVE  CheckedTo(d, n + 1, CheckLine(d, r, d.list[n + 1]))
<1> DEFINE line == d.list[n + 1]
           s == CheckLine(d, r, line)
<1>1. n + 1 \in 1 .. Len(d.list) /\ (n + 1) - 1 = n
  BY DEF Listed
<1>2. \A i : i \in 1 .. n + 1 <=> i \in 1 .. n \/ i = n + 1
  OBVIOUS
<1>3. /\ r = [sum |-> r.sum, failed |-> r.failed]
      /\ SumOfEarlier(d, n, r.sum)
      /\ r.failed <=> \E i \in 1 .. n : Wrong(d, i)
  BY Zenon DEF CheckedTo
<1>4. SumOfEarlier(d, n + 1, r.sum)
  BY <1>2, <1>3, Zenon DEF SumOfEarlier
<1>5. CASE ~IsFile(d, n + 1)
  <2>1. s = r
    BY <1>5, Zenon DEF CheckLine, IsFile
  <2>2. ~Wrong(d, n + 1)
    BY <1>5, Zenon DEF Wrong
  <2>3. CheckedTo(d, n + 1, r)
    BY <1>2, <1>3, <1>4, <2>2, Zenon DEF CheckedTo
  <2> QED
    BY <2>1, <2>3, Zenon
<1>6. CASE Present(d, n + 1)
  <2> DEFINE m == Sum(d.files[line.file])
  <2>1. md5sum(d.files[line.file]) = m
    <3>1. d.files[line.file] \in Seq(Int)
      BY <1>6, Zenon DEF Present, Listed
    <3> QED
      BY <3>1, SumIsRight, Zenon
  <2>2. s = [sum |-> m, failed |-> r.failed \/ m # line.sum]
    <3>1. s = [sum |-> md5sum(d.files[line.file]),
               failed |-> r.failed \/ md5sum(d.files[line.file]) # line.sum]
      BY <1>6, Zenon DEF CheckLine, Present, IsFile
    <3> HIDE DEF m, s
    <3> QED
      BY <2>1, <3>1, Zenon
  <2>3. Wrong(d, n + 1) <=> m # line.sum
    BY <1>6, Zenon DEF Wrong, Present
  <2>4. SumOfEarlier(d, n + 1, m)
    BY <1>2, <1>6, Zenon DEF SumOfEarlier
  <2> HIDE DEF m, line
  <2>5. (r.failed \/ m # line.sum) <=> \E i \in 1 .. n + 1 : Wrong(d, i)
    BY <1>2, <1>3, <2>3, Zenon
  <2> HIDE DEF s
  <2>6. s.sum = m /\ s = [sum |-> s.sum, failed |-> s.failed]
    BY <2>2
  <2>7. s.failed <=> (r.failed \/ m # line.sum)
    BY <2>2
  <2>8. CheckedTo(d, n + 1, s)
    BY <2>4, <2>5, <2>6, <2>7, Zenon DEF CheckedTo
  <2> QED
    BY <2>8, Zenon DEF s, line
<1>7. CASE IsFile(d, n + 1) /\ ~Present(d, n + 1)
  <2>1. s = [sum |-> r.sum, failed |-> r.failed \/ r.sum # line.sum]
    BY <1>7, Zenon DEF CheckLine, Present, IsFile
  <2>2. Wrong(d, n + 1)
    BY <1>7, Zenon DEF Wrong
  <2>3. r.sum # line.sum
    <3>1. /\ line.sum # << >>
          /\ \A j \in 1 .. n : Present(d, j) => Sum(d.files[d.list[j].file]) # line.sum
      <4>1. /\ d.list[n + 1].sum # << >>
            /\ \A j \in 1 .. (n + 1) - 1 : Present(d, j) =>
                  Sum(d.files[d.list[j].file]) # d.list[n + 1].sum
        BY <1>1, <1>7, Zenon DEF Listed
      <4> QED
        BY <1>1, <4>1, Zenon
    <3> QED
      BY <1>3, <3>1, Zenon DEF SumOfEarlier
  <2> HIDE DEF line, s
  <2>4. s.sum = r.sum /\ s = [sum |-> s.sum, failed |-> s.failed] /\ s.failed
    BY <2>1, <2>3
  <2>5. \E i \in 1 .. n + 1 : Wrong(d, i)
    BY <1>2, <2>2, Zenon
  <2>6. CheckedTo(d, n + 1, s)
    BY <1>4, <2>4, <2>5, Zenon DEF CheckedTo
  <2> QED
    BY <2>6, Zenon DEF s, line
<1>8. Present(d, n + 1) => IsFile(d, n + 1)
  BY Zenon DEF Present
<1> QED
  BY <1>5, <1>6, <1>7, <1>8, Zenon

\* The check passes the packages that are intact.
LEMMA CheckIsRight == ASSUME NEW d, Listed(d) PROVE md5_check(d) <=> Intact(d)
<1> DEFINE n == Len(d.list)
           f == CHOOSE g : g = [k \in 0 .. n |-> IF k = 0 THEN [sum |-> << >>, failed |-> FALSE]
                                                 ELSE CheckLine(d, g[k - 1], d.list[k])]
<1>1. n \in Nat
  BY DEF Listed
<1>2. \E g : Checks(d, n, g)
  BY <1>1, ChecksExist
<1>3. \E g : g = [k \in 0 .. n |-> IF k = 0 THEN [sum |-> << >>, failed |-> FALSE]
                                    ELSE CheckLine(d, g[k - 1], d.list[k])]
  BY <1>2, Zenon DEF Checks, CheckNone
<1>4. f = [k \in 0 .. n |-> IF k = 0 THEN [sum |-> << >>, failed |-> FALSE]
                            ELSE CheckLine(d, f[k - 1], d.list[k])]
  <2> HIDE DEF n
  <2> QED
    BY <1>3, Zenon
<1>5. md5_check(d) <=> ~f[n].failed
  BY Zenon DEF md5_check
<1> HIDE DEF f, n
<1>6. f[0] = CheckNone /\ \A k \in 1 .. n : f[k] = CheckLine(d, f[k - 1], d.list[k])
  <2>1. Checks(d, n, f)
    BY <1>4, Zenon DEF Checks, CheckNone
  <2> QED
    BY <1>1, <2>1 DEF Checks
<1> DEFINE G == {k \in Nat : k <= n => CheckedTo(d, k, f[k])}
<1>7. 0 \in G
  <2>1. CheckNone.sum = << >> /\ CheckNone.failed = FALSE
        /\ CheckNone = [sum |-> CheckNone.sum, failed |-> CheckNone.failed]
    BY DEF CheckNone
  <2>2. ~ \E i \in 1 .. 0 : Wrong(d, i)
    OBVIOUS
  <2>3. CheckedTo(d, 0, CheckNone)
    BY <2>1, <2>2, Zenon DEF CheckedTo, SumOfEarlier
  <2> QED
    BY <1>6, <2>3
<1>8. \A k \in Nat : k \in G => k + 1 \in G
  <2> SUFFICES ASSUME NEW k \in Nat, k \in G, k + 1 <= n PROVE CheckedTo(d, k + 1, f[k + 1])
    OBVIOUS
  <2>1. CheckedTo(d, k, f[k]) /\ k + 1 \in 1 .. n /\ (k + 1) - 1 = k
    BY <1>1
  <2>2. f[k + 1] = CheckLine(d, f[k], d.list[k + 1])
    BY <1>6, <2>1
  <2>3. CheckedTo(d, k + 1, CheckLine(d, f[k], d.list[k + 1]))
    BY <2>1, LineChecked DEF n
  <2> QED
    BY <2>2, <2>3, Zenon
<1>9. CheckedTo(d, n, f[n])
  <2> HIDE DEF G
  <2>1. n \in G
    BY <1>1, <1>7, <1>8, Induction
  <2> QED
    BY <1>1, <2>1 DEF G
<1>10. f[n].failed <=> \E i \in 1 .. n : Wrong(d, i)
  BY <1>9, Zenon DEF CheckedTo
<1> QED
  BY <1>5, <1>10, IntactIs, Zenon DEF n

\* Where main has been past the check, or was stopped by it.
CheckInv ==
    /\ directory \in Directories
    /\ job = "serve" => pc \in {"start", "check", "open", "serve"}
    /\ job # "serve" /\ pc \notin {"start", "check", "refused"} => Vouched[directory]
    /\ pc = "refused" => ~Vouched[directory]

LEMMA InitCheck == Init => CheckInv
BY DEF Init, CheckInv

LEMMA NextCheck == CheckInv /\ [Next]_vars => CheckInv'
<1> SUFFICES ASSUME CheckInv, [Next]_vars PROVE CheckInv'
  OBVIOUS
<1>0. Vouched' = Vouched
  BY DEF Vouched
<1>1. CASE Begin \/ CheckFails \/ Usage
  BY <1>0, <1>1 DEF CheckInv, Begin, CheckFails, Usage, Still, Goto, Fail
<1>2. CASE Md5Fails \/ CheckPasses
  BY <1>0, <1>2 DEF CheckInv, Md5Fails, CheckPasses, Still, Goto, Fail
<1>3. CASE OpenPcie \/ OpenPcieFails
  BY <1>0, <1>3 DEF CheckInv, OpenPcie, OpenPcieFails, Still, Goto, Fail
<1>4. CASE OpenDevice \/ OpenDeviceFails \/ Ambiguous \/ NoMoreAttempts
  BY <1>0, <1>4 DEF CheckInv, OpenDevice, OpenDeviceFails, Ambiguous, NoMoreAttempts, AfterLoop,
                    Still, Goto, Fail
<1>5. CASE Serve \/ SaharaDone \/ SaharaFails \/ StreamDownload
  BY <1>0, <1>5 DEF CheckInv, Serve, SaharaDone, SaharaFails, StreamDownload, Still, Goto, Fail
<1>6. CASE FirehoseBegin \/ SendPiece \/ NextImage \/ FirehoseDone \/ FirehoseFails
  BY <1>0, <1>6 DEF CheckInv, FirehoseBegin, SendPiece, NextImage, FirehoseDone, FirehoseFails,
                    Still, Goto, Fail
<1>7. CASE Return \/ UNCHANGED vars
  BY <1>0, <1>7 DEF CheckInv, Return, host, vars
<1> QED
  BY <1>1, <1>2, <1>3, <1>4, <1>5, <1>6, <1>7 DEF Next, Main, Exited

\* A package that was to be checked reaches the module only if every file that
\* its md5.txt names is the one it was made for, wherever the end of the file falls
\* in a read and in a block, and is refused only if one is not.
THEOREM PackageChecked == Spec => [](Listed(directory) => ChecksPackage)
<1>1. CheckInv => (Listed(directory) => ChecksPackage)
  <2> SUFFICES ASSUME CheckInv, Listed(directory), directory.check PROVE
        /\ pc \in {"sahara", "download", "firehose", "image"} => Intact(directory)
        /\ pc = "refused" => ~Intact(directory)
    BY Zenon DEF ChecksPackage
  <2>1. Vouched[directory] <=> md5_check(directory)
    BY DEF CheckInv, Vouched
  <2>2. md5_check(directory) <=> Intact(directory)
    BY CheckIsRight
  <2>3. pc \in {"sahara", "download", "firehose", "image"} =>
            job # "serve" /\ pc \notin {"start", "check", "refused"}
    BY DEF CheckInv
  <2> QED
    BY <2>1, <2>2, <2>3, Zenon DEF CheckInv
<1> QED
  BY <1>1, InitCheck, NextCheck, PTL DEF Spec
=============================================================================
