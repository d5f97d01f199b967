--------------------------- MODULE ProgramsProofs ---------------------------
(***************************************************************************)
(* The parcels and the small programs.  No call touches memory beyond the  *)
(* block of its parcel, for all items, all sizes and every heap: the       *)
(* position is never behind the size, nor the size behind the capacity,    *)
(* and both are multiples of four.  And what is read from a parcel is what *)
(* was written, since its items stand side by side in it and a call that   *)
(* fails leaves them as they are.  The sections that follow are about the  *)
(* other programs of Programs: the thermal configuration, the time client, *)
(* the clients of the modem's port, the console, an open device and the    *)
(* start of a logger.  The last one takes what they keep to Programs.      *)
(***************************************************************************)
EXTENDS Programs, SequenceTheorems, NaturalsInduction, WellFoundedInduction, TLAPS

Blocks == UNION {[Offsets(n) -> Int] : n \in Nat}
Fields == [mData : Blocks, allocated : BOOLEAN, mDataSize : Nat, mDataCapacity : Nat,
           mDataPos : Nat, wild : BOOLEAN]

Fit(p) ==
    /\ p \in Fields
    /\ p.wild = FALSE
    /\ p.mData \in [Offsets(p.mDataCapacity) -> Int]
    /\ p.mDataPos <= p.mDataSize
    /\ p.mDataSize <= p.mDataCapacity
    /\ p.mDataPos % 4 = 0
    /\ p.mDataSize % 4 = 0
    /\ p.allocated \/ p.mDataCapacity = 0

\* Padding rounds up to the next multiple of four and not further: what fits into a
\* multiple of four fits with its pad.
LEMMA Pad ==
    ASSUME NEW s \in Nat
    PROVE  /\ pad_size(s) \in Nat /\ s <= pad_size(s) /\ pad_size(s) % 4 = 0
           /\ \A n \in Nat : n % 4 = 0 /\ s <= n => pad_size(s) <= n
BY DEF pad_size

LEMMA Fours ==
    ASSUME NEW a \in Nat, NEW b \in Nat, a % 4 = 0, b % 4 = 0
    PROVE  (a + b) % 4 = 0
OBVIOUS

\* realloc keeps the record a parcel's.
LEMMA ResizedFields ==
    ASSUME NEW p, p \in Fields, p.mData \in [Offsets(p.mDataCapacity) -> Int], NEW n \in Nat
    PROVE  /\ Resized(p, n) \in Fields
           /\ Resized(p, n).mData \in [Offsets(n) -> Int]
           /\ Resized(p, n).mDataCapacity = n
           /\ Resized(p, n).mDataSize = p.mDataSize
           /\ Resized(p, n).mDataPos = p.mDataPos
           /\ Resized(p, n).wild = p.wild
           /\ Resized(p, n).allocated
<1> DEFINE block == [i \in Offsets(n) |-> IF i < p.mDataCapacity THEN p.mData[i] ELSE Garbage]
<1>1. block \in [Offsets(n) -> Int]
  BY DEF Offsets, Garbage, Fields
<1>2. block \in Blocks
  BY <1>1 DEF Blocks
<1> HIDE DEF block
<1>3. Resized(p, n) = [p EXCEPT !.mData = block, !.allocated = TRUE, !.mDataCapacity = n]
  BY DEF Resized, block
<1> QED
  BY <1>1, <1>2, <1>3 DEF Fields

\* What continueWrite promises to whoever asked for so much.
LEMMA ContinueFit ==
    ASSUME NEW p, Fit(p), NEW desired \in Nat, NEW heap \in Nat,
           desired % 4 = 0 \/ desired >= p.mDataSize,
           NEW w, w = continueWrite(p, desired, heap)
    PROVE  /\ Fit(w.p)
           /\ w.status # "NO_ERROR" => w.p = p
           /\ w.status = "NO_ERROR" =>
                 w.p.allocated /\ desired <= w.p.mDataCapacity /\ w.p.mDataPos <= desired
           /\ desired >= p.mDataSize => w.p.mDataSize = p.mDataSize /\ w.p.mDataPos = p.mDataPos
<1> DEFINE r == Resized(p, desired)
<1>0. /\ p \in Fields /\ p.mDataSize \in Nat /\ p.mDataPos \in Nat /\ p.mDataCapacity \in Nat
      /\ p.allocated \in BOOLEAN
  BY DEF Fit, Fields
<1>1. /\ r \in Fields /\ r.mData \in [Offsets(desired) -> Int] /\ r.mDataCapacity = desired
      /\ r.mDataSize = p.mDataSize /\ r.mDataPos = p.mDataPos /\ r.wild = FALSE /\ r.allocated
  BY ONLY Fit(p), ResizedFields, desired \in Nat DEF Fit
<1> HIDE DEF r
<1>2. CASE p.allocated /\ desired <= p.mDataCapacity
  <2> DEFINE q == Clipped(p, desired)
  <2>1. continueWrite(p, desired, heap) = Done(q, "NO_ERROR")
    BY <1>2 DEF continueWrite
  <2>2. /\ q \in Fields /\ q.mDataCapacity = p.mDataCapacity /\ q.mData = p.mData
        /\ q.wild = p.wild /\ q.allocated = p.allocated
        /\ q.mDataSize = AtMost(p.mDataSize, desired) /\ q.mDataPos = AtMost(p.mDataPos, desired)
    BY <1>0 DEF Clipped, AtMost, Fields
  <2> HIDE DEF q
  <2>3. /\ Fit(q) /\ q.mDataPos <= desired
        /\ desired >= p.mDataSize => q.mDataSize = p.mDataSize /\ q.mDataPos = p.mDataPos
    BY <1>0, <1>2, <2>2 DEF Fit, AtMost
  <2>4. w.p = q /\ w.status = "NO_ERROR"
    BY <2>1 DEF Done
  <2> QED
    BY <1>2, <2>2, <2>3, <2>4
<1>3. CASE ~(p.allocated /\ desired <= p.mDataCapacity) /\ desired > heap
  <2>1. w = Done(p, "NO_MEMORY")
    BY <1>3 DEF continueWrite
  <2> QED
    BY <1>0, <2>1 DEF Done, Fit
<1>4. CASE ~(p.allocated /\ desired <= p.mDataCapacity) /\ ~(desired > heap) /\ p.allocated
  <2>1. continueWrite(p, desired, heap) = Done(r, "NO_ERROR")
    BY <1>4 DEF continueWrite, r
  <2>2. p.mDataCapacity < desired
    BY <1>0, <1>4
  <2>3. Fit(r)
    BY <1>0, <1>1, <2>2 DEF Fit
  <2> QED
    BY <1>0, <1>1, <2>1, <2>2, <2>3 DEF Done, Fit
<1>5. CASE ~(p.allocated /\ desired <= p.mDataCapacity) /\ ~(desired > heap) /\ ~p.allocated
  <2>1. continueWrite(p, desired, heap) = Done(Rewound(r), "NO_ERROR")
    BY <1>5 DEF continueWrite, r
  <2>2. /\ Rewound(r) \in Fields /\ Rewound(r).mDataPos = 0 /\ Rewound(r).mDataSize = 0
        /\ Rewound(r).mDataCapacity = desired /\ Rewound(r).mData = r.mData /\ Rewound(r).wild = FALSE
        /\ Rewound(r).allocated
    BY <1>1 DEF Rewound, Fields
  <2>3. Fit(Rewound(r))
    BY <1>1, <2>2 DEF Fit
  <2>4. p.mDataSize = 0 /\ p.mDataPos = 0
    BY <1>0, <1>5 DEF Fit
  <2> QED
    BY <1>0, <2>1, <2>2, <2>3, <2>4 DEF Done
<1> QED
  BY <1>2, <1>3, <1>4, <1>5

\* Nothing moved, and there is room for len bytes.
Roomy(p, r, len) ==
    /\ Fit(r.p) /\ r.p.mDataPos = p.mDataPos /\ r.p.mDataSize = p.mDataSize
    /\ r.status = "NO_ERROR" => r.p.allocated /\ r.p.mDataPos + len <= r.p.mDataCapacity

\* Making room makes enough of it, although it is reckoned from the size: the position
\* is not behind it.
LEMMA RoomFit ==
    ASSUME NEW p, Fit(p), NEW len \in Nat, len > 0, NEW heap \in Nat,
           NEW r, r = Room(p, len, heap)
    PROVE  Roomy(p, r, len)
<1>0. p.mDataSize \in Nat /\ p.mDataPos \in Nat /\ p.mDataCapacity \in Nat /\ p.mDataPos <= p.mDataSize
  BY DEF Fit, Fields
<1>1. CASE p.mDataPos + len <= p.mDataCapacity
  <2>1. p.allocated
    BY <1>0, <1>1 DEF Fit
  <2> QED
    BY <1>1, <2>1 DEF Room, Done, Roomy
<1>2. CASE ~(p.mDataPos + len <= p.mDataCapacity)
  <2> DEFINE newSize == ((p.mDataSize + len) * 3) \div 2
  <2>1. /\ newSize \in Nat /\ newSize >= p.mDataSize + len /\ newSize > p.mDataSize
        /\ newSize >= p.mDataSize
    BY <1>0
  <2>2. r = continueWrite(p, newSize, heap)
    BY <1>0, <1>2, <2>1 DEF Room, growData
  <2> HIDE DEF newSize
  <2>3. /\ Fit(r.p) /\ r.p.mDataPos = p.mDataPos /\ r.p.mDataSize = p.mDataSize
        /\ r.status = "NO_ERROR" => r.p.allocated /\ newSize <= r.p.mDataCapacity
    BY <2>1, <2>2, ContinueFit
  <2>4. r.p.mDataPos \in Nat /\ r.p.mDataCapacity \in Nat
    BY <2>3 DEF Fit, Fields
  <2> QED
    BY <1>0, <2>1, <2>3, <2>4 DEF Roomy
<1> QED
  BY <1>1, <1>2

\* A copy that fits changes no more than the bytes.
LEMMA CopyFit ==
    ASSUME NEW p, Fit(p), NEW to \in Nat, NEW bytes \in Seq(Int), to + Len(bytes) <= p.mDataCapacity
    PROVE  /\ Fit(memcpy(p, to, bytes))
           /\ memcpy(p, to, bytes).mDataSize = p.mDataSize
           /\ memcpy(p, to, bytes).mDataPos = p.mDataPos
           /\ memcpy(p, to, bytes).mDataCapacity = p.mDataCapacity
           /\ memcpy(p, to, bytes).allocated = p.allocated
<1> DEFINE block == [i \in Offsets(p.mDataCapacity) |->
                       IF i >= to /\ i < to + Len(bytes) THEN bytes[i - to + 1] ELSE p.mData[i]]
<1>0. p \in Fields /\ p.mDataCapacity \in Nat /\ p.mData \in [Offsets(p.mDataCapacity) -> Int] /\ p.wild = FALSE
  BY DEF Fit, Fields
<1>1. block \in [Offsets(p.mDataCapacity) -> Int]
  <2>1. ASSUME NEW i \in Offsets(p.mDataCapacity), i >= to, i < to + Len(bytes)
        PROVE  bytes[i - to + 1] \in Int
    <3>1. i - to + 1 \in 1 .. Len(bytes)
      BY <1>0, <2>1 DEF Offsets
    <3> QED
      BY <3>1
  <2>2. ASSUME NEW i \in Offsets(p.mDataCapacity)
        PROVE  p.mData[i] \in Int
    BY <1>0
  <2> QED
    BY <2>1, <2>2
<1>2. block \in Blocks
  BY <1>0, <1>1 DEF Blocks
<1> HIDE DEF block
<1>3. Touch(p, to, Len(bytes)) = [p EXCEPT !.wild = FALSE]
  <2>1. ~(to + Len(bytes) > p.mDataCapacity)
    BY <1>0
  <2> QED
    BY <1>0, <2>1 DEF Touch
<1>4. memcpy(p, to, bytes) = [[p EXCEPT !.wild = FALSE] EXCEPT !.mData = block]
  BY <1>3 DEF memcpy, block
<1>5. /\ memcpy(p, to, bytes) \in Fields /\ memcpy(p, to, bytes).mData = block /\ memcpy(p, to, bytes).wild = FALSE
      /\ memcpy(p, to, bytes).mDataSize = p.mDataSize
      /\ memcpy(p, to, bytes).mDataPos = p.mDataPos
      /\ memcpy(p, to, bytes).mDataCapacity = p.mDataCapacity
      /\ memcpy(p, to, bytes).allocated = p.allocated
  BY <1>0, <1>2, <1>4 DEF Fields
<1> QED
  BY <1>0, <1>1, <1>5 DEF Fit

\* The parcel holds as much as it did, and something when the call says so.
Written(p, w) ==
    /\ Fit(w.p) /\ w.p.mDataSize >= p.mDataSize
    /\ w.status = "NO_ERROR" => w.p.mDataSize > 0

\* A copy of a multiple of four bytes to the position, and the position behind them.
LEMMA AlignedFit ==
    ASSUME NEW p, Fit(p), NEW bytes \in Seq(Int), Len(bytes) > 0, Len(bytes) % 4 = 0,
           NEW heap \in Nat, NEW w, w = writeAligned(p, bytes, heap)
    PROVE  Written(p, w)
<1>n. PICK len : len = Len(bytes)
  OBVIOUS
<1>0. len \in Nat /\ len > 0 /\ len % 4 = 0 /\ p.mDataSize \in Nat
  BY <1>n DEF Fit, Fields
<1>r. PICK r : r = Room(p, len, heap)
  OBVIOUS
<1>q. Roomy(p, r, len)
  BY <1>0, <1>r, RoomFit
<1>1. /\ Fit(r.p) /\ r.p.mDataSize = p.mDataSize
      /\ r.status = "NO_ERROR" => r.p.mDataPos + len <= r.p.mDataCapacity
  BY <1>q DEF Roomy
<1>2. CASE r.status # "NO_ERROR"
  <2>1. w = r
    BY <1>2, <1>n, <1>r DEF writeAligned
  <2> QED
    BY <1>0, <1>1, <1>2, <2>1 DEF Written
<1>3. CASE r.status = "NO_ERROR"
  <2>1. r.p.mDataPos \in Nat
    BY <1>1 DEF Fit, Fields
  <2>c. PICK c : c = memcpy(r.p, r.p.mDataPos, bytes)
    OBVIOUS
  <2>2. /\ Fit(c) /\ c.mDataSize = p.mDataSize /\ c.mDataPos = r.p.mDataPos
        /\ c.mDataCapacity = r.p.mDataCapacity
    BY <1>n, <1>1, <1>3, <2>1, <2>c, CopyFit
  <2> DEFINE pos == c.mDataPos + len
             top == IF pos > c.mDataSize THEN pos ELSE c.mDataSize
  <2>f. PICK f : f = [c EXCEPT !.mDataPos = pos, !.mDataSize = top]
    OBVIOUS
  <2>3. w = Done(f, "NO_ERROR")
    BY <1>n, <1>3, <1>r, <2>c, <2>f DEF writeAligned, finishWrite
  <2>4. /\ c \in Fields /\ c.mDataPos \in Nat /\ c.mDataSize \in Nat /\ c.mDataCapacity \in Nat
        /\ c.mDataPos % 4 = 0 /\ c.mDataSize % 4 = 0
    BY <2>2 DEF Fit, Fields
  <2>a. pos \in Nat /\ pos > 0
    BY <1>0, <2>4
  <2>d. pos % 4 = 0
    BY ONLY <1>0, <2>4, Fours
  <2>b. pos <= c.mDataCapacity
    BY <1>1, <1>3, <2>2
  <2>5. pos \in Nat /\ pos > 0 /\ pos % 4 = 0 /\ pos <= c.mDataCapacity
    BY <2>a, <2>b, <2>d
  <2>6. /\ top \in Nat /\ top >= pos /\ top >= c.mDataSize /\ top % 4 = 0
        /\ top <= c.mDataCapacity
    BY <2>2, <2>4, <2>5 DEF Fit
  <2> HIDE DEF pos, top
  <2>7. /\ f \in Fields /\ f.mDataPos = pos /\ f.mDataSize = top
        /\ f.mData = c.mData /\ f.mDataCapacity = c.mDataCapacity /\ f.wild = c.wild
        /\ f.allocated = c.allocated
    BY <2>4, <2>5, <2>6, <2>f DEF Fields
  <2>8. Fit(f)
    BY <2>2, <2>5, <2>6, <2>7 DEF Fit
  <2>9. w.p = f /\ w.status = "NO_ERROR"
    BY <2>3 DEF Done
  <2>10. top >= p.mDataSize /\ top > 0
    BY <1>0, <2>2, <2>4, <2>5, <2>6
  <2> QED
    BY <2>7, <2>8, <2>9, <2>10 DEF Written
<1> QED
  BY <1>2, <1>3

\* A write with its pad is an aligned write of the bytes and the pad.
LEMMA WriteFit ==
    ASSUME NEW p, Fit(p), NEW bytes \in Seq(Int), Len(bytes) > 0,
           NEW heap \in Nat, NEW w, w = write(p, bytes, heap)
    PROVE  Written(p, w)
<1> DEFINE padded == pad_size(Len(bytes))
           zeros == [i \in 1 .. padded - Len(bytes) |-> 0]
           all == bytes \o zeros
<1>1. padded \in Nat /\ padded >= Len(bytes) /\ padded % 4 = 0 /\ padded > 0
  BY Pad
<1> HIDE DEF padded
<1>2. zeros \in Seq(Int) /\ Len(zeros) = padded - Len(bytes)
  BY <1>1
<1> HIDE DEF zeros
<1>3. all \in Seq(Int) /\ Len(all) = padded
  BY <1>1, <1>2
<1>4. w = writeAligned(p, all, heap)
  BY <1>3 DEF write, writeAligned, padded, zeros
<1> HIDE DEF all
<1> QED
  BY <1>1, <1>3, <1>4, AlignedFit

LEMMA String16Fit ==
    ASSUME NEW p, Fit(p), NEW str \in Seq(Int),
           NEW heap \in Nat, NEW w, w = writeString16(p, str, heap)
    PROVE  Written(p, w)
<1> DEFINE n == Int32(Len(str) \div 2)
           z == str \o << 0, 0 >>
<1>1. n \in Seq(Int) /\ Len(n) > 0 /\ Len(n) % 4 = 0
  BY DEF Int32
<1>2. z \in Seq(Int) /\ Len(z) > 0
  OBVIOUS
<1>r. PICK r : r = writeAligned(p, n, heap)
  OBVIOUS
<1>s. PICK s : s = write(r.p, z, heap)
  OBVIOUS
<1>3. w = IF r.status # "NO_ERROR" THEN r ELSE s
  BY <1>r, <1>s DEF writeString16
<1> HIDE DEF n, z
<1>4. Written(p, r)
  BY <1>1, <1>r, AlignedFit
<1>a. Fit(r.p)
  BY <1>4 DEF Written
<1>5. Written(r.p, s)
  BY <1>2, <1>a, <1>s, WriteFit
<1>6. p.mDataSize \in Nat /\ r.p.mDataSize \in Nat /\ s.p.mDataSize \in Nat
  BY <1>4, <1>5 DEF Fit, Fields, Written
<1> QED
  BY <1>3, <1>4, <1>5, <1>6 DEF Written

LEMMA ItemTyped ==
    ASSUME NEW item \in Items
    PROVE  /\ item.kind \in Kinds /\ item.bytes \in Seq(Int)
           /\ item.kind = "aligned" => Len(item.bytes) > 0 /\ Len(item.bytes) % 4 = 0
           /\ item.kind = "raw" => Len(item.bytes) > 0
<1>1. item.kind \in Kinds /\ item.bytes \in Seq(0 .. 255)
  BY ParcelAssumption
<1>2. item.bytes \in Seq(Int)
  <2>1. (0 .. 255) \subseteq Int
    OBVIOUS
  <2> QED
    BY <1>1, <2>1, SeqMonotonic
<1>3. item.kind = "aligned" => Len(item.bytes) > 0 /\ Len(item.bytes) % 4 = 0
  <2>1. item.kind = "aligned" => Len(item.bytes) \in {4, 8}
    BY ParcelAssumption
  <2>2. \A n \in {4, 8} : n > 0 /\ n % 4 = 0
    OBVIOUS
  <2> QED
    BY ONLY <2>1, <2>2
<1>4. item.kind = "raw" => Len(item.bytes) > 0
  <2>1. item.kind = "raw" => item.bytes # << >>
    BY ParcelAssumption
  <2> QED
    BY <1>2, <2>1
<1> QED
  BY <1>1, <1>2, <1>3, <1>4

\* What writeNull16 writes, and every other kind.
LEMMA MarshalFit ==
    ASSUME NEW p, Fit(p), NEW item \in Items, NEW heap \in Nat,
           NEW w, w = Marshal(p, item, heap),
           item.kind = "string8" => writeString16(p, item.bytes, heap).status = "NO_ERROR"
    PROVE  Written(p, w)
<1>1. /\ item.kind \in Kinds /\ item.bytes \in Seq(Int)
      /\ item.kind = "aligned" => Len(item.bytes) > 0 /\ Len(item.bytes) % 4 = 0
      /\ item.kind = "raw" => Len(item.bytes) > 0
  BY ItemTyped
<1>2. CASE item.kind = "aligned"
  <2>1. w = writeAligned(p, item.bytes, heap)
    BY <1>2 DEF Marshal
  <2> QED
    BY <1>1, <1>2, <2>1, AlignedFit
<1>3. CASE item.kind = "raw"
  <2>1. w = write(p, item.bytes, heap)
    BY <1>3 DEF Marshal
  <2> QED
    BY <1>1, <1>3, <2>1, WriteFit
<1>4. CASE item.kind = "cstring"
  <2>b. PICK b : b = Append(item.bytes, 0)
    OBVIOUS
  <2>1. w = write(p, b, heap)
    BY <1>4, <2>b DEF Marshal, writeCString
  <2>2. b \in Seq(Int) /\ Len(b) > 0
    BY <1>1, <2>b
  <2> QED
    BY <2>1, <2>2, WriteFit
<1>5. CASE item.kind = "string16"
  <2>1. w = writeString16(p, item.bytes, heap)
    BY <1>5 DEF Marshal
  <2> QED
    BY <1>1, <2>1, String16Fit
<1>6. CASE item.kind = "string8"
  <2>v. PICK v : v = writeString16(p, item.bytes, heap)
    OBVIOUS
  <2>1. v.status = "NO_ERROR" /\ w = writeString8AsString16(p, item.bytes, heap)
    BY <1>6, <2>v DEF Marshal
  <2>2. Written(p, v)
    BY <1>1, <2>v, String16Fit
  <2>3. CASE Len(item.bytes) > heap
    <3>1. w.p = p /\ w.status = "NO_MEMORY"
      BY <2>1, <2>3 DEF writeString8AsString16, Done
    <3>2. p.mDataSize \in Nat
      BY DEF Fit, Fields
    <3> QED
      BY <3>1, <3>2 DEF Written
  <2>4. CASE ~(Len(item.bytes) > heap)
    <3>1. w.p = v.p
      BY <2>1, <2>4, <2>v DEF writeString8AsString16, Done
    <3> QED
      BY <2>1, <2>2, <3>1 DEF Written
  <2> QED
    BY <2>3, <2>4
<1>7. CASE item.kind = "null16"
  <2>b. PICK b : b = Int32(-1)
    OBVIOUS
  <2>1. w = writeAligned(p, b, heap)
    BY <1>7, <2>b DEF Marshal, writeNull16
  <2>2. b \in Seq(Int) /\ Len(b) > 0 /\ Len(b) % 4 = 0
    BY <2>b DEF Int32
  <2> QED
    BY <2>1, <2>2, AlignedFit
<1> QED
  BY <1>1, <1>2, <1>3, <1>4, <1>5, <1>6, <1>7 DEF Kinds

\* A size that is set is the size, or nothing changed.
LEMMA SizeFit ==
    ASSUME NEW p, Fit(p), NEW size \in Nat, size % 4 = 0, NEW heap \in Nat,
           NEW w, w = setDataSize(p, size, heap)
    PROVE  Fit(w.p) /\ w.p.mDataSize \in {size, p.mDataSize}
<1>r. PICK r : r = continueWrite(p, size, heap)
  OBVIOUS
<1>1. /\ Fit(r.p)
      /\ r.status # "NO_ERROR" => r.p = p
      /\ r.status = "NO_ERROR" => r.p.allocated /\ size <= r.p.mDataCapacity /\ r.p.mDataPos <= size
  BY <1>r, ContinueFit
<1>2. CASE r.status = "NO_ERROR"
  <2>f. PICK f : f = [r.p EXCEPT !.mDataSize = size]
    OBVIOUS
  <2>1. w.p = f
    BY <1>2, <1>r, <2>f DEF setDataSize, Done
  <2>2. /\ f \in Fields /\ f.mDataSize = size /\ f.mDataPos = r.p.mDataPos /\ f.mData = r.p.mData
        /\ f.mDataCapacity = r.p.mDataCapacity /\ f.wild = r.p.wild /\ f.allocated = r.p.allocated
    BY <1>1, <2>f DEF Fit, Fields
  <2> QED
    BY <1>1, <1>2, <2>1, <2>2 DEF Fit
<1>3. CASE r.status # "NO_ERROR"
  <2>1. w = r
    BY <1>3, <1>r DEF setDataSize
  <2> QED
    BY <1>1, <1>3, <2>1
<1> QED
  BY <1>2, <1>3

LEMMA CapacityFit ==
    ASSUME NEW p, Fit(p), NEW size \in Nat, NEW heap \in Nat,
           NEW w, w = setDataCapacity(p, size, heap)
    PROVE  Fit(w.p)
<1>0. p.mDataSize \in Nat /\ p.mDataCapacity \in Nat /\ p.mDataSize <= p.mDataCapacity
  BY DEF Fit, Fields
<1>1. CASE size > p.mDataCapacity
  <2>1. w = continueWrite(p, size, heap)
    BY <1>1 DEF setDataCapacity
  <2>2. size >= p.mDataSize
    BY <1>0, <1>1
  <2> QED
    BY <2>1, <2>2, ContinueFit
<1>2. CASE ~(size > p.mDataCapacity)
  BY <1>2 DEF setDataCapacity, Done
<1> QED
  BY <1>1, <1>2

\* A position that is a multiple of four within the size.
LEMMA PositionFit ==
    ASSUME NEW p, Fit(p), NEW pos \in Nat, pos % 4 = 0, pos <= p.mDataSize
    PROVE  Fit(setDataPosition(p, pos)) /\ setDataPosition(p, pos).mDataSize = p.mDataSize
<1>f. PICK f : f = setDataPosition(p, pos)
  OBVIOUS
<1>1. /\ f \in Fields /\ f.mDataSize = p.mDataSize /\ f.mDataPos = pos /\ f.mData = p.mData
      /\ f.mDataCapacity = p.mDataCapacity /\ f.wild = p.wild /\ f.allocated = p.allocated
  BY <1>f DEF Fit, Fields, setDataPosition
<1> QED
  BY <1>f, <1>1 DEF Fit

LEMMA BytesSeq ==
    ASSUME NEW p, Fit(p), NEW from \in Nat, NEW len \in Nat, from + len <= p.mDataSize
    PROVE  Bytes(p, from, len) \in Seq(Int) /\ Len(Bytes(p, from, len)) = len
<1>0. /\ p.mDataCapacity \in Nat /\ p.mDataSize \in Nat /\ p.mDataSize <= p.mDataCapacity
      /\ p.mData \in [Offsets(p.mDataCapacity) -> Int]
  BY DEF Fit, Fields
<1>1. ASSUME NEW i \in 1 .. len
      PROVE  p.mData[from + i - 1] \in Int
  <2>1. from + i - 1 \in Offsets(p.mDataCapacity)
    BY <1>0 DEF Offsets
  <2> QED
    BY <1>0, <2>1
<1> QED
  BY <1>1 DEF Bytes

\* realloc, that a failure leaves nothing of but the old block.
LEMMA RestartFit ==
    ASSUME NEW p, Fit(p), NEW desired \in Nat, desired > 0, NEW heap \in Nat,
           NEW w, w = restartWrite(p, desired, heap)
    PROVE  Fit(w.p) /\ (w.status = "NO_ERROR" => desired <= w.p.mDataCapacity /\ w.p.mDataPos = 0)
<1>0. /\ p \in Fields /\ p.mDataSize \in Nat /\ p.mDataPos \in Nat /\ p.mDataCapacity \in Nat
      /\ p.mData \in [Offsets(p.mDataCapacity) -> Int] /\ p.wild = FALSE /\ desired # 0
      /\ p.allocated \/ p.mDataCapacity = 0
  BY DEF Fit, Fields
<1>1. CASE desired <= heap
  <2>r. PICK r : r = Resized(p, desired)
    OBVIOUS
  <2>1. /\ r \in Fields /\ r.mData \in [Offsets(desired) -> Int] /\ r.mDataCapacity = desired
        /\ r.wild = FALSE /\ r.allocated
    BY ONLY <1>0, <2>r, ResizedFields, desired \in Nat
  <2>f. PICK f : f = Rewound(r)
    OBVIOUS
  <2>2. w = Done(f, "NO_ERROR")
    BY <1>0, <1>1, <2>r, <2>f DEF restartWrite
  <2>3. /\ f \in Fields /\ f.mDataPos = 0 /\ f.mDataSize = 0 /\ f.mDataCapacity = desired
        /\ f.mData = r.mData /\ f.wild = FALSE /\ f.allocated
    BY <2>1, <2>f DEF Rewound, Fields
  <2> QED
    BY <2>1, <2>2, <2>3 DEF Fit, Done
<1>2. CASE ~(desired <= heap) /\ desired <= p.mDataCapacity
  <2>f. PICK f : f = Rewound(p)
    OBVIOUS
  <2>1. w = Done(f, "NO_ERROR")
    BY <1>0, <1>2, <2>f DEF restartWrite
  <2>2. /\ f \in Fields /\ f.mDataPos = 0 /\ f.mDataSize = 0 /\ f.mDataCapacity = p.mDataCapacity
        /\ f.mData = p.mData /\ f.wild = FALSE /\ f.allocated = p.allocated
    BY <1>0, <2>f DEF Rewound, Fields
  <2> QED
    BY <1>0, <1>2, <2>1, <2>2 DEF Fit, Done
<1>3. CASE ~(desired <= heap) /\ ~(desired <= p.mDataCapacity)
  <2>1. w = Done(p, "NO_MEMORY")
    BY <1>0, <1>3 DEF restartWrite
  <2> QED
    BY <2>1 DEF Done
<1> QED
  BY <1>1, <1>2, <1>3

LEMMA DataFit ==
    ASSUME NEW p, Fit(p), NEW bytes \in Seq(Int), Len(bytes) > 0, Len(bytes) % 4 = 0,
           NEW heap \in Nat, NEW w, w = setData(p, bytes, heap)
    PROVE  Fit(w.p)
<1>n. PICK len : len = Len(bytes)
  OBVIOUS
<1>0. len \in Nat /\ len > 0 /\ len % 4 = 0 /\ 0 + len = len
  BY <1>n
<1>r. PICK r : r = restartWrite(p, len, heap)
  OBVIOUS
<1>1. Fit(r.p) /\ (r.status = "NO_ERROR" => len <= r.p.mDataCapacity /\ r.p.mDataPos = 0)
  BY <1>0, <1>r, RestartFit
<1>2. CASE r.status = "NO_ERROR"
  <2>c. PICK c : c = memcpy(r.p, 0, bytes)
    OBVIOUS
  <2>1. Fit(c) /\ c.mDataPos = 0 /\ c.mDataCapacity = r.p.mDataCapacity
    BY <1>n, <1>0, <1>1, <1>2, <2>c, CopyFit
  <2>f. PICK f : f = [c EXCEPT !.mDataSize = len]
    OBVIOUS
  <2>2. w.p = f
    BY <1>n, <1>r, <1>2, <2>c, <2>f DEF setData, Done
  <2>3. /\ f \in Fields /\ f.mDataSize = len /\ f.mDataPos = c.mDataPos /\ f.mData = c.mData
        /\ f.mDataCapacity = c.mDataCapacity /\ f.wild = c.wild /\ f.allocated = c.allocated
    BY <1>0, <2>1, <2>f DEF Fit, Fields
  <2>4. 0 <= len /\ len <= c.mDataCapacity /\ 0 % 4 = 0
    BY <1>0, <1>1, <1>2, <2>1
  <2> QED
    BY <1>0, <2>1, <2>2, <2>3, <2>4 DEF Fit
<1>3. CASE r.status # "NO_ERROR"
  <2>1. w = r
    BY <1>n, <1>r, <1>3 DEF setData
  <2> QED
    BY <1>1, <2>1
<1> QED
  BY <1>2, <1>3

\* Here the room is reckoned from the size, and the bytes go to the position before it.
LEMMA AppendFit ==
    ASSUME NEW p, Fit(p), NEW q, Fit(q), q.mDataPos < q.mDataSize, NEW heap \in Nat,
           NEW w, w = appendFrom(p, q, q.mDataPos, q.mDataSize - q.mDataPos, heap)
    PROVE  Written(p, w)
<1>n. PICK len : len = q.mDataSize - q.mDataPos
  OBVIOUS
<1>o. PICK offset : offset = q.mDataPos
  OBVIOUS
<1>0. /\ q.mDataSize \in Nat /\ q.mDataPos \in Nat /\ q.mDataPos % 4 = 0 /\ q.mDataSize % 4 = 0
      /\ p.mDataSize \in Nat /\ p.mDataPos \in Nat /\ p.mDataCapacity \in Nat
      /\ p.mDataPos <= p.mDataSize
  BY DEF Fit, Fields
<1>1. len \in Nat /\ len > 0 /\ len % 4 = 0 /\ offset \in Nat /\ offset + len = q.mDataSize
  BY <1>n, <1>o, <1>0
<1>b. PICK bytes : bytes = Bytes(q, offset, len)
  OBVIOUS
<1>2. bytes \in Seq(Int) /\ Len(bytes) = len
  <2>1. offset + len <= q.mDataSize
    BY <1>0, <1>1
  <2> QED
    BY ONLY Fit(q), <1>b, <1>1, <2>1, BytesSeq
<1>r. PICK r : r = IF p.mDataSize + len > p.mDataCapacity THEN growData(p, len, heap)
                   ELSE Done(p, "NO_ERROR")
  OBVIOUS
<1>3. /\ Fit(r.p) /\ r.p.mDataPos = p.mDataPos /\ r.p.mDataSize = p.mDataSize
      /\ r.status = "NO_ERROR" => r.p.mDataSize + len <= r.p.mDataCapacity
  <2>1. CASE p.mDataSize + len > p.mDataCapacity
    <3>g. PICK newSize : newSize = ((p.mDataSize + len) * 3) \div 2
      OBVIOUS
    <3>1. /\ newSize \in Nat /\ newSize >= p.mDataSize + len /\ newSize > p.mDataSize
          /\ newSize >= p.mDataSize
      BY <1>0, <1>1, <3>g
    <3>2. r = continueWrite(p, newSize, heap)
      BY <1>0, <1>r, <2>1, <3>g, <3>1 DEF growData
    <3>3. /\ Fit(r.p) /\ r.p.mDataPos = p.mDataPos /\ r.p.mDataSize = p.mDataSize
          /\ r.status = "NO_ERROR" => newSize <= r.p.mDataCapacity
      BY <3>1, <3>2, ContinueFit
    <3>4. r.p.mDataCapacity \in Nat
      BY <3>3 DEF Fit, Fields
    <3> QED
      BY <1>0, <1>1, <3>1, <3>3, <3>4
  <2>2. CASE ~(p.mDataSize + len > p.mDataCapacity)
    BY <1>0, <1>1, <1>r, <2>2 DEF Done
  <2> QED
    BY <2>1, <2>2
<1>4. w = IF r.status # "NO_ERROR" THEN r
          ELSE Done([memcpy(r.p, r.p.mDataPos, bytes) EXCEPT
                       !.mDataPos = r.p.mDataPos + len, !.mDataSize = r.p.mDataSize + len], "NO_ERROR")
  BY <1>n, <1>o, <1>0, <1>1, <1>b, <1>r DEF appendFrom
<1>5. CASE r.status # "NO_ERROR"
  BY <1>0, <1>3, <1>4, <1>5 DEF Written
<1>6. CASE r.status = "NO_ERROR"
  <2>c. PICK c : c = memcpy(r.p, r.p.mDataPos, bytes)
    OBVIOUS
  <2>1. r.p.mDataPos + len <= r.p.mDataCapacity
    <3>1. r.p.mDataCapacity \in Nat
      BY <1>3 DEF Fit, Fields
    <3> QED
      BY <1>0, <1>1, <1>3, <1>6, <3>1
  <2>2. /\ Fit(c) /\ c.mDataPos = p.mDataPos /\ c.mDataSize = p.mDataSize
        /\ c.mDataCapacity = r.p.mDataCapacity
    <3>1. r.p.mDataPos \in Nat /\ r.p.mDataPos + Len(bytes) <= r.p.mDataCapacity
      BY <1>0, <1>2, <1>3, <2>1
    <3> QED
      BY <1>2, <1>3, <3>1, <2>c, CopyFit
  <2>t. PICK pos, size : pos = p.mDataPos + len /\ size = p.mDataSize + len
    OBVIOUS
  <2>f. PICK f : f = [c EXCEPT !.mDataPos = pos, !.mDataSize = size]
    OBVIOUS
  <2>3. w.p = f
    BY <1>3, <1>4, <1>6, <2>c, <2>t, <2>f DEF Done
  <2>4. /\ c \in Fields /\ p.mDataPos % 4 = 0 /\ p.mDataSize % 4 = 0
    BY <2>2 DEF Fit, Fields
  <2>5. pos \in Nat /\ size \in Nat /\ pos <= size /\ size > 0 /\ size >= p.mDataSize
    BY <1>0, <1>1, <2>t
  <2>6. pos % 4 = 0 /\ size % 4 = 0
    BY <1>0, <1>1, <2>t, <2>4, Fours
  <2>7. size <= c.mDataCapacity
    BY <1>3, <1>6, <2>2, <2>t
  <2>8. /\ f \in Fields /\ f.mDataPos = pos /\ f.mDataSize = size
        /\ f.mData = c.mData /\ f.mDataCapacity = c.mDataCapacity /\ f.wild = c.wild
        /\ f.allocated = c.allocated
    BY <2>4, <2>5, <2>f DEF Fields
  <2>9. Fit(f)
    BY <2>2, <2>5, <2>6, <2>7, <2>8 DEF Fit
  <2> QED
    BY <2>3, <2>5, <2>8, <2>9 DEF Written
<1> QED
  BY <1>5, <1>6

\* The parcel still fits, and what was read is bytes.
Taken(w) == Fit(w.p) /\ w.value \in Seq(Seq(Int))

\* A read of len bytes that leaves the position further on, within the size.
LEMMA TakeFit ==
    ASSUME NEW p, Fit(p), NEW len \in Nat, NEW next \in Nat, next % 4 = 0,
           p.mDataPos + len <= next, next <= p.mDataSize,
           NEW w, w = Took([Touch(p, p.mDataPos, len) EXCEPT !.mDataPos = next],
                           << Bytes(p, p.mDataPos, len) >>)
    PROVE  Taken(w)
<1>0. /\ p \in Fields /\ p.mDataPos \in Nat /\ p.mDataSize \in Nat /\ p.mDataCapacity \in Nat
      /\ p.wild = FALSE /\ p.mDataSize <= p.mDataCapacity
  BY DEF Fit, Fields
<1>1. Touch(p, p.mDataPos, len) = p
  <2>1. ~(p.mDataPos + len > p.mDataCapacity)
    BY <1>0
  <2>2. Touch(p, p.mDataPos, len) = [p EXCEPT !.wild = FALSE]
    BY <1>0, <2>1 DEF Touch
  <2> QED
    BY <1>0, <2>2 DEF Fields
<1>f. PICK f : f = setDataPosition(p, next)
  OBVIOUS
<1>2. Fit(f)
  BY <1>f, PositionFit
<1>b. PICK bytes : bytes = Bytes(p, p.mDataPos, len)
  OBVIOUS
<1>3. bytes \in Seq(Int)
  <2>1. p.mDataPos + len <= p.mDataSize
    BY <1>0
  <2> QED
    BY <1>0, <1>b, <2>1, BytesSeq
<1>4. << bytes >> \in Seq(Seq(Int))
  BY <1>3
<1>5. w.p = f /\ w.value = << bytes >>
  BY <1>1, <1>f, <1>b DEF Took, setDataPosition
<1> QED
  BY <1>2, <1>4, <1>5 DEF Taken

LEMMA NothingTaken ==
    ASSUME NEW p, Fit(p), NEW w, w = Took(p, << >>)
    PROVE  Taken(w)
<1>1. << >> \in Seq(Seq(Int))
  OBVIOUS
<1> QED
  BY <1>1 DEF Taken, Took

LEMMA ReadAlignedFit ==
    ASSUME NEW p, Fit(p), NEW len \in Nat, len % 4 = 0, NEW w, w = readAligned(p, len)
    PROVE  Taken(w)
<1>0. p.mDataPos \in Nat /\ p.mDataSize \in Nat /\ p.mDataPos % 4 = 0
  BY DEF Fit, Fields
<1>n. PICK next : next = p.mDataPos + len
  OBVIOUS
<1>1. next \in Nat /\ p.mDataPos + len <= next
  BY <1>0, <1>n
<1>2. next % 4 = 0
  BY <1>0, <1>n, Fours
<1>3. CASE next <= p.mDataSize
  BY <1>n, <1>1, <1>2, <1>3, TakeFit DEF readAligned
<1>4. CASE ~(next <= p.mDataSize)
  BY <1>n, <1>4, NothingTaken DEF readAligned
<1> QED
  BY <1>3, <1>4

LEMMA ReadFit ==
    ASSUME NEW p, Fit(p), NEW len \in Nat, NEW w, w = read(p, len)
    PROVE  Taken(w)
<1>0. p.mDataPos \in Nat /\ p.mDataSize \in Nat /\ p.mDataPos % 4 = 0
  BY DEF Fit, Fields
<1>p. PICK padded : padded = pad_size(len)
  OBVIOUS
<1>a. padded \in Nat /\ len <= padded /\ padded % 4 = 0
  BY <1>p, Pad
<1>n. PICK next : next = p.mDataPos + padded
  OBVIOUS
<1>1. next \in Nat /\ p.mDataPos + len <= next
  <2>1. PICK pos \in Nat : pos = p.mDataPos
    BY <1>0
  <2>2. pos + padded \in Nat /\ pos + len <= pos + padded
    BY <1>a
  <2> QED
    BY <1>n, <2>1, <2>2
<1>2. next % 4 = 0
  BY <1>0, <1>a, <1>n, Fours
<1>3. CASE next <= p.mDataSize
  BY <1>p, <1>n, <1>1, <1>2, <1>3, TakeFit DEF read
<1>4. CASE ~(next <= p.mDataSize)
  BY <1>p, <1>n, <1>4, NothingTaken DEF read
<1> QED
  BY <1>3, <1>4

LEMMA ReadInt32Fit ==
    ASSUME NEW p, Fit(p), NEW w, w = readInt32(p)
    PROVE  Fit(w.p) /\ w.value \in Int
<1>r. PICK r : r = readAligned(p, 4)
  OBVIOUS
<1>1. 4 \in Nat /\ 4 % 4 = 0
  OBVIOUS
<1>2. Taken(r)
  BY <1>r, <1>1, ReadAlignedFit
<1>3. Fit(r.p)
  BY <1>2 DEF Taken
<1>4. r.value = << >> \/ AsInt32(r.value[1]) \in Int
  <2>1. CASE p.mDataPos + 4 <= p.mDataSize
    <3>b. PICK b : b = Bytes(p, p.mDataPos, 4)
      OBVIOUS
    <3>1. r.value = << b >>
      BY <1>r, <2>1, <3>b DEF readAligned, Took
    <3>2. p.mDataPos \in Nat
      BY DEF Fit, Fields
    <3>3. b \in Seq(Int) /\ Len(b) = 4
      BY <1>1, <2>1, <3>b, <3>2, BytesSeq
    <3>4. b[1] \in Int /\ b[2] \in Int /\ b[3] \in Int /\ b[4] \in Int
      <4>1. \A i \in 1 .. 4 : b[i] \in Int
        BY <3>3, ElementOfSeq
      <4> QED
        BY ONLY <4>1
    <3>5. AsInt32(b) \in Int
      BY <3>4 DEF AsInt32
    <3> QED
      BY <3>1, <3>5
  <2>2. CASE ~(p.mDataPos + 4 <= p.mDataSize)
    BY <1>r, <2>2 DEF readAligned, Took
  <2> QED
    BY <2>1, <2>2
<1>5. w.p = r.p /\ w.value = IF r.value = << >> THEN 0 ELSE AsInt32(r.value[1])
  BY <1>r DEF readInt32, Took
<1> QED
  BY <1>3, <1>4, <1>5

LEMMA ReadString16Fit ==
    ASSUME NEW p, Fit(p), NEW w, w = readString16(p)
    PROVE  Taken(w)
<1>r. PICK r : r = readInt32(p)
  OBVIOUS
<1>1. Fit(r.p) /\ r.value \in Int
  BY <1>r, ReadInt32Fit
<1>s. PICK s : s = read(r.p, (r.value + 1) * 2)
  OBVIOUS
<1>e. << << >> >> \in Seq(Seq(Int))
  OBVIOUS
<1>2. w = IF r.value < 0 THEN Took(r.p, << << >> >>)
          ELSE IF s.value = << >> THEN Took(s.p, << << >> >>)
          ELSE Took(s.p, << SubSeq(s.value[1], 1, r.value * 2) >>)
  BY <1>r, <1>s DEF readString16
<1>3. CASE r.value < 0
  BY <1>1, <1>2, <1>3, <1>e DEF Taken, Took
<1>4. CASE ~(r.value < 0)
  <2>1. (r.value + 1) * 2 \in Nat
    BY <1>1, <1>4
  <2>2. Taken(s)
    BY <1>1, <1>s, <2>1, ReadFit
  <2>3. CASE s.value = << >>
    BY <1>2, <1>4, <2>2, <2>3, <1>e DEF Taken, Took
  <2>4. CASE s.value # << >>
    <3>b. PICK b : b = Bytes(r.p, r.p.mDataPos, (r.value + 1) * 2)
      OBVIOUS
    <3>n. PICK n : n = (r.value + 1) * 2
      OBVIOUS
    <3>1. r.p.mDataPos + pad_size(n) <= r.p.mDataSize /\ s.value = << b >>
      BY <1>s, <2>4, <3>b, <3>n DEF read, Took
    <3>2. r.p.mDataPos \in Nat /\ r.p.mDataSize \in Nat /\ n \in Nat
      BY <1>1, <2>1, <3>n DEF Fit, Fields
    <3>3. r.p.mDataPos + n <= r.p.mDataSize
      BY <3>1, <3>2, Pad
    <3>4. b \in Seq(Int) /\ Len(b) = n
      BY ONLY <1>1, <3>b, <3>n, <3>2, <3>3, BytesSeq
    <3>t. PICK t : t = SubSeq(b, 1, r.value * 2)
      OBVIOUS
    <3>5. t \in Seq(Int)
      <4>1. r.value * 2 <= n /\ r.value * 2 \in Nat
        BY <1>1, <1>4, <3>n
      <4> QED
        BY <3>4, <3>t, <4>1
    <3>6. w.p = s.p /\ w.value = << t >>
      BY <1>2, <1>4, <2>4, <3>1, <3>t DEF Took
    <3>7. << t >> \in Seq(Seq(Int))
      BY <3>5
    <3> QED
      BY <2>2, <3>6, <3>7 DEF Taken
  <2> QED
    BY <2>3, <2>4
<1> QED
  BY <1>1, <1>3, <1>4

LEMMA Least ==
    ASSUME NEW T, T \subseteq Nat, T # {}
    PROVE  \E x \in T : \A y \in T : x <= y
<1> DEFINE R == {ss \in Nat \X Nat : ss[1] < ss[2]}
<1>1. IsWellFoundedOn(R, Nat)
  BY ONLY NatLessThanWellFounded DEF OpToRel
<1> HIDE DEF R
<1>2. PICK x \in T : \A y \in T : ~ (<<y, x>> \in R)
  BY <1>1, WFMin
<1>3. \A y \in T : ~ (y < x)
  BY <1>2 DEF R
<1> QED
  BY <1>3

\* The string ends before the size, and so does its pad.
LEMMA ReadCStringFit ==
    ASSUME NEW p, Fit(p), NEW w, w = readCString(p)
    PROVE  Taken(w)
<1>0. /\ p.mDataPos \in Nat /\ p.mDataSize \in Nat /\ p.mDataPos <= p.mDataSize
      /\ p.mDataPos % 4 = 0 /\ p.mDataSize % 4 = 0
  BY DEF Fit, Fields
<1> DEFINE nul == {i \in p.mDataPos .. (p.mDataSize - 1) : p.mData[i] = 0}
           eos == CHOOSE i \in nul : \A j \in nul : i <= j
<1>1. CASE nul = {}
  <2>1. w = Took(p, << >>)
    BY <1>0, <1>1 DEF readCString
  <2> QED
    BY <2>1, NothingTaken
<1>2. CASE nul # {}
  <2>1. nul \subseteq Nat
    BY <1>0
  <2>2. eos \in nul
    <3> HIDE DEF nul
    <3>1. \E i \in nul : \A j \in nul : i <= j
      BY <1>2, <2>1, Least
    <3> QED
      BY <3>1
  <2>e. PICK e : e = eos
    OBVIOUS
  <2>3. e \in Nat /\ p.mDataPos <= e /\ e < p.mDataSize
    BY <1>0, <2>2, <2>e
  <2>n. PICK len : len = e - p.mDataPos
    OBVIOUS
  <2>4. len \in Nat
    BY <1>0, <2>3, <2>n
  <2>p. PICK padded : padded = pad_size(len + 1)
    OBVIOUS
  <2>x. PICK next : next = p.mDataPos + padded
    OBVIOUS
  <2>5. w = Took([p EXCEPT !.mDataPos = next], << Bytes(p, p.mDataPos, len) >>)
    <3>1. w = Took([p EXCEPT !.mDataPos = p.mDataPos + pad_size((eos - p.mDataPos) + 1)],
                   << Bytes(p, p.mDataPos, eos - p.mDataPos) >>)
      BY <1>0, <1>2 DEF readCString
    <3> HIDE DEF eos
    <3> QED
      BY <3>1, <2>e, <2>n, <2>p, <2>x
  <2>6. padded \in Nat /\ len + 1 <= padded /\ padded % 4 = 0 /\ padded <= p.mDataSize - p.mDataPos
    <3>r. PICK rest : rest = p.mDataSize - p.mDataPos
      OBVIOUS
    <3>1. rest \in Nat /\ rest % 4 = 0 /\ len + 1 <= rest /\ len + 1 \in Nat
      BY <1>0, <2>3, <2>4, <2>n, <3>r
    <3> QED
      BY <3>1, <3>r, <2>p, Pad
  <2>7. next \in Nat /\ next <= p.mDataSize
    BY <1>0, <2>6, <2>x
  <2>8. next % 4 = 0
    BY <1>0, <2>6, <2>x, Fours
  <2>9. p.mDataPos + len <= p.mDataSize
    BY <1>0, <2>3, <2>n
  <2>10. Fit(setDataPosition(p, next))
    BY <2>7, <2>8, PositionFit
  <2>b. PICK bytes : bytes = Bytes(p, p.mDataPos, len)
    OBVIOUS
  <2>11. bytes \in Seq(Int)
    BY <1>0, <2>4, <2>9, <2>b, BytesSeq
  <2>12. << bytes >> \in Seq(Seq(Int))
    BY <2>11
  <2>13. w.p = setDataPosition(p, next) /\ w.value = << bytes >>
    BY <2>5, <2>b DEF Took, setDataPosition
  <2> QED
    BY <2>10, <2>12, <2>13 DEF Taken
<1> QED
  BY <1>1, <1>2

LEMMA UnmarshalFit ==
    ASSUME NEW p, Fit(p), NEW item \in Items, NEW w, w = Unmarshal(p, item)
    PROVE  Taken(w)
<1>n. PICK len : len = Len(item.bytes)
  OBVIOUS
<1>0. len \in Nat /\ (item.kind = "aligned" => len % 4 = 0)
  <2>1. len \in Nat
    BY <1>n, ItemTyped, LenProperties
  <2>2. item.kind = "aligned" => Len(item.bytes) % 4 = 0
    BY ItemTyped
  <2> QED
    BY ONLY <1>n, <2>1, <2>2
<1>1. CASE item.kind = "aligned"
  <2>1. w = readAligned(p, len)
    BY <1>n, <1>1 DEF Unmarshal
  <2> QED
    BY <1>0, <1>1, <2>1, ReadAlignedFit
<1>2. CASE item.kind = "raw"
  <2>1. w = read(p, len)
    BY <1>n, <1>2 DEF Unmarshal
  <2> QED
    BY <1>0, <2>1, ReadFit
<1>3. CASE item.kind = "cstring"
  <2>1. w = readCString(p)
    BY <1>3 DEF Unmarshal
  <2> QED
    BY <2>1, ReadCStringFit
<1>4. CASE item.kind \notin {"aligned", "raw", "cstring"}
  <2>1. w = readString16(p)
    BY <1>4 DEF Unmarshal
  <2> QED
    BY <2>1, ReadString16Fit
<1> QED
  BY <1>1, <1>2, <1>3, <1>4

-----------------------------------------------------------------------------
(* What every step keeps: both parcels fit, and a message that has items   *)
(* has bytes, so that nothing is ever set from none.                       *)

ParcelInv ==
    /\ Fit(out) /\ Fit(in)
    /\ packed # << >> => out.mDataSize > 0
    /\ packed \in Seq(Items) /\ sent \in Seq(Items) /\ got \in Seq(Seq(Seq(Int)))

LEMMA ParcelInit == Init => ParcelInv
<1> SUFFICES ASSUME Init PROVE ParcelInv
  OBVIOUS
<1>1. [i \in {} |-> 0] = << >>
  OBVIOUS
<1>2. /\ initState.mData = << >> /\ initState.mDataSize = 0 /\ initState.mDataCapacity = 0
      /\ initState.mDataPos = 0 /\ initState.wild = FALSE /\ initState.allocated = FALSE
  BY DEF initState
<1>3. Offsets(0) = {}
  BY DEF Offsets
<1>4. << >> \in [Offsets(0) -> Int]
  BY <1>3
<1>5. << >> \in Blocks
  BY <1>4 DEF Blocks
<1>6. initState \in Fields
  BY <1>5 DEF initState, Fields
<1>7. Fit(initState)
  BY <1>2, <1>4, <1>6 DEF Fit
<1> QED
  BY <1>7 DEF Init, ParcelInv

LEMMA ParcelWrite ==
    ASSUME ParcelInv, NEW item \in Items, NEW heap \in Heaps, Write(item, heap)
    PROVE  ParcelInv'
<1>0. heap \in Nat
  BY ParcelAssumption
<1>r. PICK r : r = Marshal(out, item, heap)
  OBVIOUS
<1>1. Written(out, r)
  BY <1>0, <1>r, MarshalFit DEF ParcelInv, Write
<1>2. UNCHANGED <<in, sent, got>>
  BY DEF Write
<1>3. out.mDataSize \in Nat /\ out.mDataSize % 4 = 0
  BY DEF ParcelInv, Fit, Fields
<1>4. CASE r.status = "NO_ERROR"
  <2>1. out' = r.p /\ packed' = Append(packed, item)
    BY <1>r, <1>4 DEF Write
  <2>2. packed' \in Seq(Items)
    BY <2>1 DEF ParcelInv
  <2> QED
    BY <1>1, <1>2, <1>4, <2>1, <2>2 DEF ParcelInv, Written
<1>5. CASE r.status # "NO_ERROR"
  <2>s. PICK w : w = setDataSize(r.p, out.mDataSize, heap)
    OBVIOUS
  <2>1. out' = w.p /\ packed' = packed
    BY <1>r, <1>5, <2>s DEF Write
  <2>2. Fit(r.p) /\ r.p.mDataSize >= out.mDataSize
    BY <1>1 DEF Written
  <2>3. Fit(w.p) /\ w.p.mDataSize \in {out.mDataSize, r.p.mDataSize}
    BY <1>0, <1>3, <2>2, <2>s, SizeFit
  <2>4. r.p.mDataSize \in Nat
    BY <2>2 DEF Fit, Fields
  <2>5. packed # << >> => w.p.mDataSize > 0
    BY <1>3, <2>2, <2>3, <2>4 DEF ParcelInv
  <2> QED
    BY <1>2, <2>1, <2>3, <2>5 DEF ParcelInv
<1> QED
  BY <1>4, <1>5

LEMMA ParcelFillIn ==
    ASSUME ParcelInv, NEW item \in Items, NEW heap \in Heaps, FillIn(item, heap)
    PROVE  ParcelInv'
<1>0. heap \in Nat
  BY ParcelAssumption
<1>1. /\ out.mDataSize \in Nat /\ out.mDataPos \in Nat /\ out.mDataSize % 4 = 0
      /\ out.mDataPos <= out.mDataSize
  BY DEF ParcelInv, Fit, Fields
<1>2. dataSize(out) = out.mDataSize
  BY <1>1 DEF dataSize
<1>p. PICK p : p = setDataPosition(out, 0)
  OBVIOUS
<1>3. Fit(p) /\ p.mDataSize = out.mDataSize
  <2>1. 0 \in Nat /\ 0 % 4 = 0 /\ 0 <= out.mDataSize
    BY <1>1
  <2> QED
    BY <1>p, <2>1, PositionFit DEF ParcelInv
<1>r. PICK r : r = writeAligned(p, item.bytes, heap)
  OBVIOUS
<1>4. Written(p, r)
  <2>1. item.kind = "aligned"
    BY DEF FillIn
  <2>2. item.bytes \in Seq(Int) /\ Len(item.bytes) > 0 /\ Len(item.bytes) % 4 = 0
    BY <2>1, ItemTyped
  <2> QED
    BY <1>0, <1>3, <1>r, <2>2, AlignedFit
<1>5. Fit(r.p) /\ r.p.mDataSize >= out.mDataSize
  BY <1>3, <1>4 DEF Written
<1>6. r.p.mDataSize \in Nat /\ out.mDataSize <= r.p.mDataSize
  BY <1>1, <1>5 DEF Fit, Fields
<1>e. PICK end : end = out.mDataSize
  OBVIOUS
<1>7. out' = setDataPosition(r.p, end)
  BY <1>2, <1>p, <1>r, <1>e DEF FillIn
<1>8. Fit(setDataPosition(r.p, end)) /\ setDataPosition(r.p, end).mDataSize = r.p.mDataSize
  BY <1>1, <1>5, <1>6, <1>e, PositionFit
<1>9. packed # << >> /\ packed' = [packed EXCEPT ![1] = item] /\ UNCHANGED <<in, sent, got>>
  BY DEF FillIn, ParcelInv
<1>10. packed' \in Seq(Items)
  <2>1. packed \in Seq(Items)
    BY DEF ParcelInv
  <2>2. Len(packed) > 1
    BY DEF FillIn
  <2>3. 1 \in 1 .. Len(packed)
    BY <2>1, <2>2, LenProperties
  <2> QED
    BY <1>9, <2>1, <2>3, ExceptSeq
<1>11. out'.mDataSize > 0
  BY <1>1, <1>6, <1>7, <1>8, <1>9 DEF ParcelInv
<1> QED
  BY <1>7, <1>8, <1>9, <1>10, <1>11 DEF ParcelInv

LEMMA ParcelReserve ==
    ASSUME ParcelInv, NEW size \in Sizes, NEW heap \in Heaps, Reserve(size, heap)
    PROVE  ParcelInv'
<1>0. heap \in Nat /\ size \in Nat
  BY ParcelAssumption
<1>1. Fit(setDataCapacity(out, size, heap).p)
  BY <1>0, CapacityFit DEF ParcelInv
<1>2. out' = setDataCapacity(out, size, heap).p /\ packed = << >> /\ UNCHANGED <<in, packed, sent, got>>
  BY DEF Reserve
<1> QED
  BY <1>1, <1>2 DEF ParcelInv

LEMMA ParcelForward ==
    ASSUME ParcelInv, NEW heap \in Heaps, Forward(heap)
    PROVE  ParcelInv'
<1>0. heap \in Nat
  BY ParcelAssumption
<1>1. /\ in.mDataSize \in Nat /\ in.mDataPos \in Nat /\ in.mDataPos <= in.mDataSize
      /\ out.mDataSize \in Nat
  BY DEF ParcelInv, Fit, Fields
<1>2. dataAvail(in) = in.mDataSize - in.mDataPos
  BY <1>1 DEF dataAvail, dataSize
<1>3. in.mDataPos < in.mDataSize
  BY <1>1, <1>2 DEF Forward
<1>r. PICK r : r = appendFrom(out, in, in.mDataPos, in.mDataSize - in.mDataPos, heap)
  OBVIOUS
<1>4. Written(out, r)
  BY <1>0, <1>3, <1>r, AppendFit DEF ParcelInv
<1>5. out' = r.p /\ UNCHANGED <<in, sent, got>>
  BY <1>2, <1>r DEF Forward
<1>6. Fit(r.p) /\ r.p.mDataSize >= out.mDataSize /\ r.p.mDataSize \in Nat
  BY <1>4 DEF Written, Fit, Fields
<1>t. PICK rest : rest = SubSeq(sent, Len(got) + 1, Len(sent))
  OBVIOUS
<1>7. rest \in Seq(Items)
  BY <1>t DEF ParcelInv
<1>8. CASE r.status = "NO_ERROR"
  <2>1. packed' = packed \o rest
    BY <1>2, <1>r, <1>t, <1>8 DEF Forward
  <2>2. packed' \in Seq(Items)
    BY <1>7, <2>1 DEF ParcelInv
  <2>3. r.p.mDataSize > 0
    BY <1>4, <1>8 DEF Written
  <2> QED
    BY <1>5, <1>6, <2>2, <2>3 DEF ParcelInv
<1>9. CASE r.status # "NO_ERROR"
  <2>1. packed' = packed
    BY <1>2, <1>r, <1>9 DEF Forward
  <2>2. packed # << >> => r.p.mDataSize > 0
    BY <1>1, <1>6 DEF ParcelInv
  <2> QED
    BY <1>5, <1>6, <2>1, <2>2 DEF ParcelInv
<1> QED
  BY <1>8, <1>9

LEMMA ParcelSend ==
    ASSUME ParcelInv, NEW heap \in Heaps, Send(heap)
    PROVE  ParcelInv'
<1>0. heap \in Nat /\ 0 \in Nat /\ 0 % 4 = 0
  BY ParcelAssumption
<1>1. /\ out.mDataSize \in Nat /\ out.mDataPos \in Nat /\ out.mDataPos <= out.mDataSize
      /\ out.mDataSize % 4 = 0
  BY DEF ParcelInv, Fit, Fields
<1>2. dataSize(out) = out.mDataSize
  BY <1>1 DEF dataSize
<1>n. PICK len : len = out.mDataSize
  OBVIOUS
<1>b. PICK bytes : bytes = Bytes(out, 0, len)
  OBVIOUS
<1>3. len \in Nat /\ len > 0 /\ len % 4 = 0
  BY <1>1, <1>n DEF Send, ParcelInv
<1>4. bytes \in Seq(Int) /\ Len(bytes) = len
  <2>1. 0 + len <= out.mDataSize
    BY <1>1, <1>n
  <2>2. Fit(out)
    BY DEF ParcelInv
  <2> QED
    BY ONLY <1>0, <1>3, <1>b, <2>1, <2>2, BytesSeq
<1>5. Len(bytes) > 0 /\ Len(bytes) % 4 = 0
  BY ONLY <1>3, <1>4
<1>6. Fit(setData(in, bytes, heap).p)
  BY <1>0, <1>4, <1>5, DataFit DEF ParcelInv
<1>7. Fit(setDataSize(out, 0, heap).p)
  BY <1>0, SizeFit DEF ParcelInv
<1>8. /\ out' = setDataSize(out, 0, heap).p /\ packed' = << >>
      /\ in' = setData(in, bytes, heap).p
      /\ sent' \in {packed, sent} /\ got' \in {<< >>, got}
  BY <1>2, <1>n, <1>b DEF Send
<1>9. got' \in Seq(Seq(Seq(Int)))
  <2>1. << >> \in Seq(Seq(Seq(Int)))
    OBVIOUS
  <2> QED
    BY <1>8, <2>1 DEF ParcelInv
<1> QED
  BY <1>6, <1>7, <1>8, <1>9 DEF ParcelInv

LEMMA ParcelRead ==
    ASSUME ParcelInv, Read
    PROVE  ParcelInv'
<1>i. PICK item : item = sent[Len(got) + 1]
  OBVIOUS
<1>1. item \in Items
  <2>1. Len(got) \in Nat /\ Len(sent) \in Nat
    BY LenProperties DEF ParcelInv
  <2>2. Len(got) + 1 \in 1 .. Len(sent)
    BY <2>1 DEF Read
  <2> QED
    BY <1>i, <2>2, ElementOfSeq DEF ParcelInv
<1>r. PICK r : r = Unmarshal(in, item)
  OBVIOUS
<1>2. Taken(r)
  BY <1>1, <1>r, UnmarshalFit DEF ParcelInv
<1>3. in' = r.p /\ got' = Append(got, r.value) /\ UNCHANGED <<out, packed, sent>>
  BY <1>i, <1>r DEF Read
<1>4. got' \in Seq(Seq(Seq(Int)))
  BY <1>2, <1>3 DEF ParcelInv, Taken
<1> QED
  BY <1>2, <1>3, <1>4 DEF ParcelInv, Taken

LEMMA ParcelMisread ==
    ASSUME ParcelInv, NEW item \in Items, Misread(item)
    PROVE  ParcelInv'
<1>1. Taken(Unmarshal(in, item))
  BY UnmarshalFit DEF ParcelInv
<1>2. /\ in' = Unmarshal(in, item).p /\ got' = << >> /\ sent' = << >>
      /\ UNCHANGED <<out, packed>>
  BY DEF Misread
<1>3. << >> \in Seq(Items) /\ << >> \in Seq(Seq(Seq(Int)))
  OBVIOUS
<1> QED
  BY <1>1, <1>2, <1>3 DEF ParcelInv, Taken

LEMMA ParcelStep == ParcelInv /\ [Next]_vars => ParcelInv'
<1> SUFFICES ASSUME ParcelInv, [Next]_vars PROVE ParcelInv'
  OBVIOUS
<1>1. ASSUME NEW item \in Items, NEW heap \in Heaps, Write(item, heap) PROVE ParcelInv'
  BY <1>1, ParcelWrite
<1>2. ASSUME NEW item \in Items, NEW heap \in Heaps, FillIn(item, heap) PROVE ParcelInv'
  BY <1>2, ParcelFillIn
<1>3. ASSUME NEW size \in Sizes, NEW heap \in Heaps, Reserve(size, heap) PROVE ParcelInv'
  BY <1>3, ParcelReserve
<1>4. ASSUME NEW heap \in Heaps, Forward(heap) PROVE ParcelInv'
  BY <1>4, ParcelForward
<1>5. ASSUME NEW heap \in Heaps, Send(heap) PROVE ParcelInv'
  BY <1>5, ParcelSend
<1>6. CASE Read
  BY <1>6, ParcelRead
<1>7. ASSUME NEW item \in Items, Misread(item) PROVE ParcelInv'
  BY <1>7, ParcelMisread
<1>8. CASE UNCHANGED vars
  BY <1>8 DEF ParcelInv, vars
<1> QED
  BY <1>1, <1>2, <1>3, <1>4, <1>5, <1>6, <1>7, <1>8 DEF Next

\* No call of Parcel2.cpp reads or writes beyond the block of its parcel, for all
\* items, heaps and sizes, as long as clients set no position behind the size.
THEOREM ParcelInBounds == Spec => []InBounds
<1>1. ParcelInv => InBounds
  BY DEF ParcelInv, InBounds, Fit
<1> QED
  BY <1>1, ParcelInit, ParcelStep, PTL DEF Spec
-----------------------------------------------------------------------------
(* What is read is what was written.  Every kind of item has its bytes and *)
(* takes their number of places; a parcel holds its items side by side,    *)
(* and calls that fail leave nothing behind its size.                      *)

\* The bytes with their pad.
Padded(bytes) == bytes \o [i \in 1 .. pad_size(Len(bytes)) - Len(bytes) |-> 0]

\* What an item is in a parcel.
Encoded(item) ==
    CASE item.kind = "aligned" -> item.bytes
      [] item.kind = "raw" -> Padded(item.bytes)
      [] item.kind = "cstring" -> Padded(Append(item.bytes, 0))
      [] item.kind = "null16" -> Int32(-1)
      [] item.kind \in {"string16", "string8"} ->
            Int32(Len(item.bytes) \div 2) \o Padded(item.bytes \o << 0, 0 >>)

Stands(p, from, bytes) ==
    /\ from + Len(bytes) <= p.mDataSize
    /\ \A k \in 1 .. Len(bytes) : p.mData[from + k - 1] = bytes[k]

\* What p holds is in q too.
Keeps(p, q) ==
    /\ p.mDataSize <= q.mDataSize
    /\ \A i \in Offsets(p.mDataSize) : q.mData[i] = p.mData[i]

\* Everything is written at the end.
Ended(p) == Fit(p) /\ p.mDataPos = p.mDataSize

\* The call has added the bytes, or has changed nothing of what there was.
Puts(p, w, bytes) ==
    /\ Ended(w.p) /\ Keeps(p, w.p)
    /\ w.status = "NO_ERROR" =>
          w.p.mDataSize = p.mDataSize + Len(bytes) /\ Stands(w.p, p.mDataSize, bytes)

LEMMA PaddedSeq ==
    ASSUME NEW bytes \in Seq(Int), Len(bytes) > 0
    PROVE  /\ Padded(bytes) \in Seq(Int) /\ Len(Padded(bytes)) = pad_size(Len(bytes))
           /\ Len(Padded(bytes)) > 0 /\ Len(Padded(bytes)) % 4 = 0
           /\ Len(bytes) <= Len(Padded(bytes))
           /\ \A k \in 1 .. Len(bytes) : Padded(bytes)[k] = bytes[k]
<1>n. PICK n : n = pad_size(Len(bytes))
  OBVIOUS
<1>1. n \in Nat /\ n >= Len(bytes) /\ n % 4 = 0 /\ n > 0
  BY <1>n, Pad
<1>z. PICK z : z = [i \in 1 .. n - Len(bytes) |-> 0]
  OBVIOUS
<1>2. z \in Seq(Int) /\ Len(z) = n - Len(bytes)
  BY <1>1, <1>z
<1>3. Padded(bytes) = bytes \o z
  BY <1>n, <1>z DEF Padded
<1>4. bytes \o z \in Seq(Int) /\ Len(bytes \o z) = n /\ \A k \in 1 .. Len(bytes) : (bytes \o z)[k] = bytes[k]
  BY <1>1, <1>2
<1> QED
  BY <1>n, <1>1, <1>3, <1>4, Zenon DEF Padded

LEMMA KeepsAll ==
    ASSUME NEW p, NEW q, Fit(p), q.mDataSize = p.mDataSize, q.mData = p.mData
    PROVE  Keeps(p, q)
<1>1. p.mDataSize \in Nat
  BY DEF Fit, Fields
<1> QED
  BY <1>1 DEF Keeps

LEMMA KeepsOn ==
    ASSUME NEW p, NEW q, NEW r, Fit(p), Fit(q), Fit(r), Keeps(p, q), Keeps(q, r)
    PROVE  Keeps(p, r)
<1>1. p.mDataSize \in Nat /\ q.mDataSize \in Nat /\ r.mDataSize \in Nat
  BY DEF Fit, Fields
<1>2. p.mDataSize <= q.mDataSize /\ q.mDataSize <= r.mDataSize
  BY DEF Keeps
<1>3. p.mDataSize <= r.mDataSize
  BY <1>1, <1>2
<1>4. \A i \in Offsets(p.mDataSize) : i \in Offsets(q.mDataSize)
  BY <1>1, <1>2 DEF Offsets
<1> QED
  BY <1>3, <1>4, Zenon DEF Keeps

\* Bytes stay where they stand.
LEMMA Stay ==
    ASSUME NEW p, NEW q, Fit(p), Fit(q), Keeps(p, q), NEW from \in Nat, NEW bytes \in Seq(Int),
           Stands(p, from, bytes)
    PROVE  Stands(q, from, bytes)
<1>1. p.mDataSize \in Nat /\ q.mDataSize \in Nat
  BY DEF Fit, Fields
<1>2. p.mDataSize <= q.mDataSize /\ from + Len(bytes) <= p.mDataSize
  BY DEF Keeps, Stands
<1>3. from + Len(bytes) <= q.mDataSize
  BY <1>1, <1>2
<1>4. \A k \in 1 .. Len(bytes) : from + k - 1 \in Offsets(p.mDataSize)
  BY <1>1, <1>2 DEF Offsets
<1> QED
  BY <1>3, <1>4, Zenon DEF Keeps, Stands

\* A larger block has what the smaller one had.
LEMMA ContinueKeeps ==
    ASSUME NEW p, Fit(p), NEW desired \in Nat, desired >= p.mDataSize, NEW heap \in Nat,
           NEW w, w = continueWrite(p, desired, heap)
    PROVE  Keeps(p, w.p)
<1> DEFINE r == Resized(p, desired)
<1>0. /\ p \in Fields /\ p.mDataSize \in Nat /\ p.mDataPos \in Nat /\ p.mDataCapacity \in Nat
      /\ p.mDataPos <= p.mDataSize /\ p.mDataSize <= p.mDataCapacity
      /\ p.allocated \/ p.mDataCapacity = 0
  BY DEF Fit, Fields
<1>1. w.p.mDataSize = p.mDataSize
  BY ContinueFit
<1>2. w.p.mData \in {p.mData, r.mData}
  <2>1. w.p \in {p, Clipped(p, desired), r, Rewound(r)}
    BY DEF continueWrite, Done
  <2>2. Clipped(p, desired).mData = p.mData
    BY <1>0 DEF Clipped, Fields
  <2>3. Rewound(r).mData = r.mData
    <3>1. r \in Fields
      BY <1>0, ResizedFields DEF Fit
    <3> QED
      BY <3>1 DEF Rewound, Fields
  <2> QED
    BY <2>1, <2>2, <2>3
<1>3. w.p.mData = r.mData => \A i \in Offsets(p.mDataSize) : r.mData[i] = p.mData[i]
  <2>1. r.mData = [i \in Offsets(desired) |-> IF i < p.mDataCapacity THEN p.mData[i] ELSE Garbage]
    BY <1>0 DEF Resized, Fields
  <2>2. \A i \in Offsets(p.mDataSize) : i \in Offsets(desired) /\ i < p.mDataCapacity
    BY <1>0 DEF Offsets
  <2> QED
    BY <2>1, <2>2
<1> HIDE DEF r
<1>4. p.mDataSize <= w.p.mDataSize
  BY <1>0, <1>1
<1> QED
  BY <1>2, <1>3, <1>4 DEF Keeps

LEMMA RoomKeeps ==
    ASSUME NEW p, Fit(p), NEW len \in Nat, len > 0, NEW heap \in Nat, NEW r, r = Room(p, len, heap)
    PROVE  Keeps(p, r.p)
<1>0. p.mDataSize \in Nat /\ p.mDataPos \in Nat /\ p.mDataCapacity \in Nat
  BY DEF Fit, Fields
<1>1. CASE p.mDataPos + len <= p.mDataCapacity
  <2>1. r.p = p
    BY <1>1 DEF Room, Done
  <2> QED
    BY <2>1, KeepsAll
<1>2. CASE ~(p.mDataPos + len <= p.mDataCapacity)
  <2> DEFINE newSize == ((p.mDataSize + len) * 3) \div 2
  <2>1. newSize \in Nat /\ newSize > p.mDataSize /\ newSize >= p.mDataSize
    BY <1>0
  <2>2. r = continueWrite(p, newSize, heap)
    BY <1>0, <1>2, <2>1 DEF Room, growData
  <2> HIDE DEF newSize
  <2> QED
    BY <2>1, <2>2, ContinueKeeps
<1> QED
  BY <1>1, <1>2

\* A copy is where it was put, and nothing else has changed.
LEMMA CopyStands ==
    ASSUME NEW p, Fit(p), NEW to \in Nat, NEW bytes \in Seq(Int), to + Len(bytes) <= p.mDataCapacity,
           NEW c, c = memcpy(p, to, bytes)
    PROVE  /\ \A k \in 1 .. Len(bytes) : c.mData[to + k - 1] = bytes[k]
           /\ \A i \in Offsets(p.mDataCapacity) :
                 i < to \/ i >= to + Len(bytes) => c.mData[i] = p.mData[i]
<1>0. p \in Fields /\ p.mDataCapacity \in Nat
  BY DEF Fit, Fields
<1>n. PICK n \in Nat : n = Len(bytes)
  BY LenProperties
<1>1. c.mData = [i \in Offsets(p.mDataCapacity) |->
                   IF i >= to /\ i < to + n THEN bytes[i - to + 1] ELSE p.mData[i]]
  BY <1>0, <1>n DEF memcpy, Touch, Fields
<1>2. ASSUME NEW k \in 1 .. n PROVE c.mData[to + k - 1] = bytes[k]
  <2>1. /\ to + k - 1 \in Offsets(p.mDataCapacity) /\ to + k - 1 >= to /\ to + k - 1 < to + n
        /\ (to + k - 1) - to + 1 = k
    BY <1>0, <1>n DEF Offsets
  <2> QED
    BY <1>1, <2>1
<1>3. ASSUME NEW i \in Offsets(p.mDataCapacity), i < to \/ i >= to + n PROVE c.mData[i] = p.mData[i]
  <2>1. ~(i >= to /\ i < to + n)
    BY <1>0, <1>3 DEF Offsets
  <2> QED
    BY <1>1, <2>1
<1> QED
  BY <1>n, <1>2, <1>3

LEMMA AlignedPuts ==
    ASSUME NEW p, Ended(p), NEW bytes \in Seq(Int), Len(bytes) > 0, Len(bytes) % 4 = 0,
           NEW heap \in Nat, NEW w, w = writeAligned(p, bytes, heap)
    PROVE  Puts(p, w, bytes)
<1>n. PICK n : n = Len(bytes)
  OBVIOUS
<1>0. n \in Nat /\ n > 0 /\ n % 4 = 0 /\ Fit(p) /\ p.mDataSize \in Nat /\ p.mDataPos = p.mDataSize
  BY <1>n DEF Ended, Fit, Fields
<1>r. PICK r : r = Room(p, n, heap)
  OBVIOUS
<1>q. Roomy(p, r, n) /\ Keeps(p, r.p)
  BY <1>0, <1>r, RoomFit, RoomKeeps
<1>1. /\ Fit(r.p) /\ r.p.mDataSize = p.mDataSize /\ r.p.mDataPos = p.mDataSize
      /\ r.status = "NO_ERROR" => p.mDataSize + n <= r.p.mDataCapacity
  BY <1>0, <1>q DEF Roomy
<1>2. CASE r.status # "NO_ERROR"
  <2>1. w = r
    BY <1>2, <1>n, <1>r DEF writeAligned
  <2> QED
    BY <1>q, <1>1, <1>2, <2>1 DEF Puts, Ended
<1>3. CASE r.status = "NO_ERROR"
  <2>c. PICK c : c = memcpy(r.p, r.p.mDataPos, bytes)
    OBVIOUS
  <2>s. PICK s : s = p.mDataSize
    OBVIOUS
  <2>0. s \in Nat /\ r.p.mDataPos = s /\ s + Len(bytes) <= r.p.mDataCapacity
    BY <1>n, <1>0, <1>1, <1>3, <2>s
  <2>1. c = memcpy(r.p, s, bytes)
    BY <2>0, <2>c
  <2>2. /\ Fit(c) /\ c.mDataSize = s /\ c.mDataPos = s /\ c.mDataCapacity = r.p.mDataCapacity
    BY <1>1, <2>0, <2>1, <2>s, CopyFit
  <2>3. /\ \A k \in 1 .. n : c.mData[s + k - 1] = bytes[k]
        /\ \A i \in Offsets(r.p.mDataCapacity) : i < s \/ i >= s + n => c.mData[i] = r.p.mData[i]
    BY <1>1, <1>n, <2>0, <2>1, CopyStands
  <2>e. PICK e : e = s + n
    OBVIOUS
  <2>4. e \in Nat /\ e > s /\ e <= c.mDataCapacity
    BY <1>0, <1>n, <2>0, <2>2, <2>e
  <2>5. e % 4 = 0
    <3>1. s % 4 = 0
      BY <1>0, <2>s DEF Fit
    <3> QED
      BY ONLY <3>1, <1>0, <2>0, <2>e, Fours
  <2>f. PICK f : f = [c EXCEPT !.mDataPos = e, !.mDataSize = e]
    OBVIOUS
  <2>6. w = Done(f, "NO_ERROR")
    <3>1. finishWrite(c, n) = f
      <4>1. c.mDataPos + n = e /\ c.mDataSize = s /\ e > s
        BY <2>2, <2>e, <2>4
      <4> QED
        BY <4>1, <2>f DEF finishWrite
    <3> QED
      BY <1>n, <1>3, <1>r, <2>c, <3>1 DEF writeAligned
  <2>7. /\ f \in Fields /\ f.mDataPos = e /\ f.mDataSize = e
        /\ f.mData = c.mData /\ f.mDataCapacity = c.mDataCapacity /\ f.wild = c.wild
        /\ f.allocated = c.allocated
    BY <2>2, <2>4, <2>f DEF Fit, Fields
  <2>8. Fit(f)
    BY <2>2, <2>4, <2>5, <2>7 DEF Fit
  <2>9. w.p = f /\ w.status = "NO_ERROR"
    BY <2>6 DEF Done
  <2>10. Stands(f, s, bytes)
    BY <1>n, <1>0, <2>0, <2>3, <2>7, <2>e DEF Stands
  <2>11. Keeps(p, f)
    <3>1. p.mDataSize <= f.mDataSize
      BY <2>0, <2>4, <2>7, <2>s
    <3>2. ASSUME NEW i \in Offsets(s) PROVE f.mData[i] = p.mData[i]
      <4>1. r.p.mData[i] = p.mData[i]
        BY <1>q, <3>2, <2>s DEF Keeps
      <4>2. r.p.mDataCapacity \in Nat
        BY <1>1 DEF Fit, Fields
      <4>3. i \in Offsets(r.p.mDataCapacity) /\ i < s
        BY <1>0, <1>n, <2>0, <4>2 DEF Offsets
      <4> QED
        BY <2>3, <2>7, <4>1, <4>3
    <3> QED
      BY <2>s, <3>1, <3>2 DEF Keeps
  <2> QED
    BY <1>n, <2>7, <2>8, <2>9, <2>10, <2>11, <2>s, <2>e DEF Puts, Ended
<1> QED
  BY <1>2, <1>3

\* The pad counts as written.
LEMMA WritePuts ==
    ASSUME NEW p, Ended(p), NEW bytes \in Seq(Int), Len(bytes) > 0,
           NEW heap \in Nat, NEW w, w = write(p, bytes, heap)
    PROVE  Puts(p, w, Padded(bytes))
<1>a. PICK all : all = Padded(bytes)
  OBVIOUS
<1>1. all \in Seq(Int) /\ Len(all) = pad_size(Len(bytes)) /\ Len(all) > 0 /\ Len(all) % 4 = 0
  BY <1>a, PaddedSeq
<1>2. w = writeAligned(p, all, heap)
  BY <1>a, <1>1 DEF write, writeAligned, Padded
<1> QED
  BY <1>a, <1>1, <1>2, AlignedPuts

\* Two runs of bytes side by side.
LEMMA StandsTwice ==
    ASSUME NEW p, p.mDataSize \in Nat, NEW from \in Nat, NEW a \in Seq(Int), NEW b \in Seq(Int)
    PROVE  Stands(p, from, a \o b) <=> Stands(p, from, a) /\ Stands(p, from + Len(a), b)
<1>n. PICK n \in Nat, m \in Nat : n = Len(a) /\ m = Len(b)
  BY LenProperties
<1>c. PICK c : c = a \o b
  OBVIOUS
<1>1. /\ c \in Seq(Int) /\ Len(c) = n + m
      /\ \A k \in 1 .. n : c[k] = a[k]
      /\ \A k \in 1 .. m : c[n + k] = b[k]
  BY <1>n, <1>c
<1>2. ASSUME Stands(p, from, c) PROVE Stands(p, from, a) /\ Stands(p, from + n, b)
  <2>1. from + (n + m) <= p.mDataSize /\ \A k \in 1 .. n + m : p.mData[from + k - 1] = c[k]
    BY <1>1, <1>2 DEF Stands
  <2>2. from + n <= p.mDataSize /\ (from + n) + m <= p.mDataSize
    BY <2>1
  <2>3. ASSUME NEW k \in 1 .. n PROVE p.mData[from + k - 1] = a[k]
    <3>1. k \in 1 .. n + m
      OBVIOUS
    <3> QED
      BY <1>1, <2>1, <3>1
  <2>4. ASSUME NEW k \in 1 .. m PROVE p.mData[(from + n) + k - 1] = b[k]
    <3>1. n + k \in 1 .. n + m /\ from + (n + k) - 1 = (from + n) + k - 1
      OBVIOUS
    <3> QED
      BY <1>1, <2>1, <3>1
  <2> QED
    BY <1>n, <2>2, <2>3, <2>4 DEF Stands
<1>3. ASSUME Stands(p, from, a), Stands(p, from + n, b) PROVE Stands(p, from, c)
  <2>1. /\ (from + n) + m <= p.mDataSize
        /\ \A k \in 1 .. n : p.mData[from + k - 1] = a[k]
        /\ \A k \in 1 .. m : p.mData[(from + n) + k - 1] = b[k]
    BY <1>n, <1>3 DEF Stands
  <2>2. from + (n + m) <= p.mDataSize
    BY <2>1
  <2>3. ASSUME NEW k \in 1 .. n + m PROVE p.mData[from + k - 1] = c[k]
    <3>1. CASE k <= n
      <4>1. k \in 1 .. n
        BY <3>1
      <4> QED
        BY <1>1, <2>1, <4>1
    <3>2. CASE ~(k <= n)
      <4>j. PICK j : j = k - n
        OBVIOUS
      <4>1. j \in 1 .. m /\ k = n + j /\ (from + n) + j - 1 = from + k - 1
        BY <3>2, <4>j
      <4>2. c[n + j] = b[j] /\ p.mData[(from + n) + j - 1] = b[j]
        BY <1>1, <2>1, <4>1
      <4> QED
        BY <4>1, <4>2
    <3> QED
      BY <3>1, <3>2
  <2> QED
    BY <1>1, <2>2, <2>3 DEF Stands
<1> QED
  BY <1>n, <1>c, <1>2, <1>3

\* One call after the other adds the bytes of both.
LEMMA PutsTwice ==
    ASSUME NEW p, Ended(p), NEW a \in Seq(Int), NEW b \in Seq(Int),
           NEW r, Puts(p, r, a), r.status = "NO_ERROR", NEW s, Puts(r.p, s, b)
    PROVE  Puts(p, s, a \o b)
<1>0. /\ Fit(p) /\ Fit(r.p) /\ Fit(s.p) /\ Ended(s.p) /\ Keeps(p, r.p) /\ Keeps(r.p, s.p)
      /\ p.mDataSize \in Nat /\ r.p.mDataSize \in Nat /\ s.p.mDataSize \in Nat
  BY DEF Ended, Puts, Fit, Fields
<1>1. Keeps(p, s.p)
  BY <1>0, KeepsOn
<1>2. ASSUME s.status = "NO_ERROR"
      PROVE  s.p.mDataSize = p.mDataSize + Len(a \o b) /\ Stands(s.p, p.mDataSize, a \o b)
  <2>1. /\ r.p.mDataSize = p.mDataSize + Len(a) /\ Stands(r.p, p.mDataSize, a)
        /\ s.p.mDataSize = r.p.mDataSize + Len(b) /\ Stands(s.p, r.p.mDataSize, b)
    BY <1>2 DEF Puts
  <2>2. Stands(s.p, p.mDataSize, a)
    BY <1>0, <2>1, Stay
  <2>3. Stands(s.p, p.mDataSize + Len(a), b)
    BY <2>1
  <2>4. Stands(s.p, p.mDataSize, a \o b)
    BY <1>0, <2>2, <2>3, StandsTwice
  <2>5. Len(a \o b) = Len(a) + Len(b) /\ Len(a) \in Nat /\ Len(b) \in Nat
    OBVIOUS
  <2>6. s.p.mDataSize = p.mDataSize + Len(a \o b)
    BY <1>0, <2>1, <2>5
  <2> QED
    BY <2>4, <2>6
<1> QED
  BY <1>0, <1>1, <1>2 DEF Puts

LEMMA String16Puts ==
    ASSUME NEW p, Ended(p), NEW str \in Seq(Int),
           NEW heap \in Nat, NEW w, w = writeString16(p, str, heap)
    PROVE  Puts(p, w, Int32(Len(str) \div 2) \o Padded(str \o << 0, 0 >>))
<1>n. PICK n : n = Int32(Len(str) \div 2)
  OBVIOUS
<1>1. n \in Seq(Int) /\ Len(n) > 0 /\ Len(n) % 4 = 0
  BY <1>n DEF Int32
<1>z. PICK z : z = str \o << 0, 0 >>
  OBVIOUS
<1>2. z \in Seq(Int) /\ Len(z) > 0
  BY <1>z
<1>3. Padded(z) \in Seq(Int)
  BY <1>2, PaddedSeq
<1>r. PICK r : r = writeAligned(p, n, heap)
  OBVIOUS
<1>s. PICK s : s = write(r.p, z, heap)
  OBVIOUS
<1>4. w = IF r.status # "NO_ERROR" THEN r ELSE s
  BY <1>n, <1>z, <1>r, <1>s DEF writeString16
<1>5. Puts(p, r, n)
  BY <1>1, <1>r, AlignedPuts
<1>6. Ended(r.p)
  BY <1>5 DEF Puts
<1>7. Puts(r.p, s, Padded(z))
  BY <1>2, <1>6, <1>s, WritePuts
<1>8. CASE r.status # "NO_ERROR"
  <2>1. Puts(p, r, n \o Padded(z))
    BY <1>5, <1>8 DEF Puts
  <2> QED
    BY <1>n, <1>z, <1>4, <1>8, <2>1
<1>9. CASE r.status = "NO_ERROR"
  <2>1. Puts(p, s, n \o Padded(z))
    BY <1>1, <1>3, <1>5, <1>7, <1>9, PutsTwice
  <2> QED
    BY <1>n, <1>z, <1>4, <1>9, <2>1
<1> QED
  BY <1>8, <1>9

LEMMA EncodedSeq ==
    ASSUME NEW item \in Items
    PROVE  Encoded(item) \in Seq(Int) /\ Len(Encoded(item)) > 0
<1>1. /\ item.kind \in Kinds /\ item.bytes \in Seq(Int)
      /\ item.kind = "aligned" => Len(item.bytes) > 0 /\ Len(item.bytes) % 4 = 0
      /\ item.kind = "raw" => Len(item.bytes) > 0
  BY ItemTyped
<1>2. CASE item.kind = "aligned"
  BY <1>1, <1>2 DEF Encoded
<1>3. CASE item.kind = "raw"
  <2>1. Encoded(item) = Padded(item.bytes)
    BY <1>3 DEF Encoded
  <2> QED
    BY <1>1, <1>3, <2>1, PaddedSeq
<1>4. CASE item.kind = "cstring"
  <2>b. PICK b : b = Append(item.bytes, 0)
    OBVIOUS
  <2>1. Encoded(item) = Padded(b)
    BY <1>4, <2>b DEF Encoded
  <2>2. b \in Seq(Int) /\ Len(b) > 0
    BY <1>1, <2>b
  <2> QED
    BY <2>1, <2>2, PaddedSeq
<1>5. CASE item.kind = "null16"
  BY <1>5 DEF Encoded, Int32
<1>6. CASE item.kind \in {"string16", "string8"}
  <2>b. PICK b : b = item.bytes \o << 0, 0 >>
    OBVIOUS
  <2>n. PICK n : n = Int32(Len(item.bytes) \div 2)
    OBVIOUS
  <2>z. PICK z : z = Padded(b)
    OBVIOUS
  <2>1. Encoded(item) = n \o z
    BY <1>6, <2>b, <2>n, <2>z DEF Encoded
  <2>2. b \in Seq(Int) /\ Len(b) > 0
    BY <1>1, <2>b
  <2>3. z \in Seq(Int)
    BY <2>2, <2>z, PaddedSeq
  <2>4. n \in Seq(Int) /\ Len(n) > 0
    BY <1>1, <2>n DEF Int32
  <2> QED
    BY <2>1, <2>3, <2>4
<1> QED
  BY <1>1, <1>2, <1>3, <1>4, <1>5, <1>6 DEF Kinds

\* Every kind of item leaves its bytes.
LEMMA MarshalPuts ==
    ASSUME NEW p, Ended(p), NEW item \in Items, NEW heap \in Nat,
           NEW w, w = Marshal(p, item, heap),
           item.kind = "string8" => writeString16(p, item.bytes, heap).status = "NO_ERROR"
    PROVE  Puts(p, w, Encoded(item))
<1>1. /\ item.kind \in Kinds /\ item.bytes \in Seq(Int)
      /\ item.kind = "aligned" => Len(item.bytes) > 0 /\ Len(item.bytes) % 4 = 0
      /\ item.kind = "raw" => Len(item.bytes) > 0
  BY ItemTyped
<1>2. CASE item.kind = "aligned"
  <2>1. w = writeAligned(p, item.bytes, heap) /\ Encoded(item) = item.bytes
    BY <1>2 DEF Marshal, Encoded
  <2> QED
    BY <1>1, <1>2, <2>1, AlignedPuts
<1>3. CASE item.kind = "raw"
  <2>1. w = write(p, item.bytes, heap) /\ Encoded(item) = Padded(item.bytes)
    BY <1>3 DEF Marshal, Encoded
  <2> QED
    BY <1>1, <1>3, <2>1, WritePuts
<1>4. CASE item.kind = "cstring"
  <2>b. PICK b : b = Append(item.bytes, 0)
    OBVIOUS
  <2>1. w = write(p, b, heap) /\ Encoded(item) = Padded(b)
    BY <1>4, <2>b DEF Marshal, writeCString, Encoded
  <2>2. b \in Seq(Int) /\ Len(b) > 0
    BY <1>1, <2>b
  <2> QED
    BY <2>1, <2>2, WritePuts
<1>5. CASE item.kind = "string16"
  <2>1. w = writeString16(p, item.bytes, heap)
    BY <1>5 DEF Marshal
  <2>2. Encoded(item) = Int32(Len(item.bytes) \div 2) \o Padded(item.bytes \o << 0, 0 >>)
    BY <1>5 DEF Encoded
  <2> QED
    BY <1>1, <2>1, <2>2, String16Puts
<1>6. CASE item.kind = "string8"
  <2>v. PICK v : v = writeString16(p, item.bytes, heap)
    OBVIOUS
  <2>1. v.status = "NO_ERROR" /\ w = writeString8AsString16(p, item.bytes, heap)
    BY <1>6, <2>v DEF Marshal
  <2>e. PICK e : e = Encoded(item)
    OBVIOUS
  <2>2. Encoded(item) = Int32(Len(item.bytes) \div 2) \o Padded(item.bytes \o << 0, 0 >>)
    BY <1>6 DEF Encoded
  <2>3. Puts(p, v, e)
    BY <1>1, <2>v, <2>e, <2>2, String16Puts
  <2>4. CASE Len(item.bytes) > heap
    <3>1. w.p = p /\ w.status = "NO_MEMORY"
      BY <2>1, <2>4 DEF writeString8AsString16, Done
    <3>2. Keeps(p, p)
      BY KeepsAll DEF Ended
    <3> QED
      BY <2>e, <3>1, <3>2 DEF Puts
  <2>5. CASE ~(Len(item.bytes) > heap)
    <3>1. w.p = v.p
      BY <2>1, <2>5, <2>v DEF writeString8AsString16, Done
    <3> QED
      BY <2>1, <2>3, <2>e, <3>1 DEF Puts
  <2> QED
    BY <2>4, <2>5
<1>7. CASE item.kind = "null16"
  <2>b. PICK b : b = Int32(-1)
    OBVIOUS
  <2>1. w = writeAligned(p, b, heap) /\ Encoded(item) = b
    BY <1>7, <2>b DEF Marshal, writeNull16, Encoded
  <2>2. b \in Seq(Int) /\ Len(b) > 0 /\ Len(b) % 4 = 0
    BY <2>b DEF Int32
  <2> QED
    BY <2>1, <2>2, AlignedPuts
<1> QED
  BY <1>1, <1>2, <1>3, <1>4, <1>5, <1>6, <1>7 DEF Kinds

\* A size that is taken back leaves the bytes below it.
LEMMA SizeKeeps ==
    ASSUME NEW p, Ended(p), NEW size \in Nat, size % 4 = 0, size <= p.mDataSize, NEW heap \in Nat,
           NEW w, w = setDataSize(p, size, heap)
    PROVE  /\ Ended(w.p) /\ w.p.mDataSize = size
           /\ \A i \in Offsets(size) : w.p.mData[i] = p.mData[i]
<1>0. /\ Fit(p) /\ p \in Fields /\ p.mDataSize \in Nat /\ p.mDataCapacity \in Nat
      /\ p.mDataPos = p.mDataSize /\ p.mDataSize <= p.mDataCapacity /\ p.allocated \in BOOLEAN
      /\ p.allocated \/ p.mDataCapacity = 0
  BY DEF Ended, Fit, Fields
<1>1. Fit(w.p)
  BY <1>0, SizeFit
<1>2. CASE p.allocated
  <2>c. PICK c : c = Clipped(p, size)
    OBVIOUS
  <2>1. AtMost(p.mDataSize, size) = size
    BY <1>0 DEF AtMost
  <2>2. c \in Fields /\ c.mData = p.mData /\ c.mDataPos = size
    BY <1>0, <2>1, <2>c DEF Clipped, Fields
  <2>3. continueWrite(p, size, heap) = Done(c, "NO_ERROR")
    BY <1>0, <1>2, <2>c DEF continueWrite
  <2>4. w.p = [c EXCEPT !.mDataSize = size]
    BY <2>3 DEF setDataSize, Done
  <2>5. w.p.mData = p.mData /\ w.p.mDataPos = size /\ w.p.mDataSize = size
    BY <2>2, <2>4 DEF Fields
  <2> QED
    BY <1>1, <2>5 DEF Ended
<1>3. CASE ~p.allocated
  <2>1. size = 0 /\ p.mDataCapacity = 0
    BY <1>0, <1>3
  <2>r. PICK r : r = Resized(p, size)
    OBVIOUS
  <2>2. r \in Fields
    BY <1>0, <2>r, ResizedFields DEF Fit
  <2>f. PICK f : f = Rewound(r)
    OBVIOUS
  <2>3. f \in Fields /\ f.mDataPos = 0
    BY <2>2, <2>f DEF Rewound, Fields
  <2>4. continueWrite(p, size, heap) = Done(f, "NO_ERROR")
    BY <1>3, <2>1, <2>r, <2>f DEF continueWrite
  <2>5. w.p = [f EXCEPT !.mDataSize = size]
    BY <2>4 DEF setDataSize, Done
  <2>6. w.p.mDataPos = 0 /\ w.p.mDataSize = 0
    BY <2>1, <2>3, <2>5 DEF Fields
  <2>7. Offsets(size) = {}
    BY <2>1 DEF Offsets
  <2> QED
    BY <1>1, <2>1, <2>6, <2>7 DEF Ended
<1> QED
  BY <1>2, <1>3

\* Where each item begins, and where the last one ends.
Marks(p, items, first, last, mark) ==
    /\ mark \in [0 .. Len(items) -> Nat]
    /\ mark[0] = first /\ mark[Len(items)] = last
    /\ \A i, j \in 0 .. Len(items) : i <= j => mark[i] <= mark[j]
    /\ \A i \in 1 .. Len(items) :
          /\ mark[i] = mark[i - 1] + Len(Encoded(items[i]))
          /\ Stands(p, mark[i - 1], Encoded(items[i]))

\* The items stand side by side, from the first offset to the last.
Laid(p, items, first, last) == \E mark : Marks(p, items, first, last, mark)

LEMMA LaidNone ==
    ASSUME NEW p, NEW first \in Nat
    PROVE  Laid(p, << >>, first, first)
<1>m. PICK mark : mark = [i \in {0} |-> first]
  OBVIOUS
<1>e. PICK none : none = << >>
  OBVIOUS
<1>0. Len(none) = 0
  BY <1>e
<1>1. 0 .. 0 = {0} /\ 1 .. 0 = {}
  OBVIOUS
<1>2. mark \in [0 .. 0 -> Nat] /\ mark[0] = first
  BY <1>m, <1>1
<1>3. \A i, j \in 0 .. 0 : i <= j => mark[i] <= mark[j]
  BY <1>1, <1>2
<1>4. Marks(p, none, first, first, mark)
  BY <1>0, <1>1, <1>2, <1>3, Zenon DEF Marks
<1> QED
  BY <1>e, <1>4, Zenon DEF Laid

LEMMA LaidOne ==
    ASSUME NEW p, NEW item \in Items, NEW first \in Nat, Stands(p, first, Encoded(item)),
           NEW last, last = first + Len(Encoded(item))
    PROVE  Laid(p, << item >>, first, last)
<1>n. PICK n \in Nat : n = Len(Encoded(item))
  BY EncodedSeq, LenProperties
<1>m. PICK mark : mark = [i \in {0, 1} |-> IF i = 0 THEN first ELSE last]
  OBVIOUS
<1>o. PICK one : one = << item >>
  OBVIOUS
<1>0. Len(one) = 1 /\ one[1] = item
  BY <1>o
<1>1. 0 .. 1 = {0, 1} /\ 1 .. 1 = {1} /\ 1 - 1 = 0
  OBVIOUS
<1>2. last \in Nat /\ first <= last /\ last = first + n
  BY <1>n
<1>3. mark \in [0 .. 1 -> Nat] /\ mark[0] = first /\ mark[1] = last
  BY <1>m, <1>1, <1>2
<1>4. \A i, j \in 0 .. 1 : i <= j => mark[i] <= mark[j]
  BY <1>1, <1>2, <1>3
<1>5. \A i \in 1 .. 1 : /\ mark[i] = mark[i - 1] + Len(Encoded(one[i]))
                        /\ Stands(p, mark[i - 1], Encoded(one[i]))
  BY <1>0, <1>1, <1>3, Zenon
<1>6. Marks(p, one, first, last, mark)
  BY <1>0, <1>3, <1>4, <1>5, Zenon DEF Marks
<1> QED
  BY <1>o, <1>6, Zenon DEF Laid

LEMMA LaidJoin ==
    ASSUME NEW p, NEW a \in Seq(Items), NEW b \in Seq(Items), NEW first \in Nat, NEW mid \in Nat,
           NEW last \in Nat, Laid(p, a, first, mid), Laid(p, b, mid, last)
    PROVE  Laid(p, a \o b, first, last)
<1>a. PICK ma : Marks(p, a, first, mid, ma)
  BY DEF Laid
<1>b. PICK mb : Marks(p, b, mid, last, mb)
  BY DEF Laid
<1>n. PICK n \in Nat, k \in Nat : n = Len(a) /\ k = Len(b)
  BY LenProperties
<1>c. PICK c : c = a \o b
  OBVIOUS
<1>0. /\ Len(c) = n + k
      /\ \A i \in 1 .. n : c[i] = a[i]
      /\ \A i \in 1 .. k : c[n + i] = b[i]
  BY <1>n, <1>c
<1>1. /\ ma \in [0 .. n -> Nat] /\ ma[0] = first /\ ma[n] = mid
      /\ \A i, j \in 0 .. n : i <= j => ma[i] <= ma[j]
  BY <1>a, <1>n, Zenon DEF Marks
<1>2. /\ mb \in [0 .. k -> Nat] /\ mb[0] = mid /\ mb[k] = last
      /\ \A i, j \in 0 .. k : i <= j => mb[i] <= mb[j]
  BY <1>b, <1>n, Zenon DEF Marks
<1>3. /\ \A i \in 1 .. n : ma[i] = ma[i - 1] + Len(Encoded(a[i])) /\ Stands(p, ma[i - 1], Encoded(a[i]))
      /\ \A i \in 1 .. k : mb[i] = mb[i - 1] + Len(Encoded(b[i])) /\ Stands(p, mb[i - 1], Encoded(b[i]))
  BY <1>a, <1>b, <1>n, Zenon DEF Marks
<1>m. PICK m : m = [i \in 0 .. n + k |-> IF i <= n THEN ma[i] ELSE mb[i - n]]
  OBVIOUS
<1>4. \A i \in 0 .. n : m[i] = ma[i]
  BY <1>m
<1>5. \A i \in 0 .. k : m[n + i] = mb[i]
  <2>1. ASSUME NEW i \in 0 .. k PROVE m[n + i] = mb[i]
    <3>1. CASE i = 0
      <4>1. n \in 0 .. n /\ n + 0 = n
        OBVIOUS
      <4> QED
        BY <1>1, <1>2, <1>4, <3>1, <4>1
    <3>2. CASE i # 0
      <4>1. n + i \in 0 .. n + k /\ ~(n + i <= n) /\ (n + i) - n = i
        BY <3>2
      <4> QED
        BY <1>m, <4>1
    <3> QED
      BY <3>1, <3>2
  <2> QED
    BY <2>1
<1>6. \A i \in 0 .. n + k : i \in 0 .. n \/ \E j \in 0 .. k : i = n + j
  <2>1. ASSUME NEW i \in 0 .. n + k, ~(i <= n) PROVE i - n \in 0 .. k /\ i = n + (i - n)
    BY <2>1
  <2>2. ASSUME NEW i \in 0 .. n + k, i <= n PROVE i \in 0 .. n
    BY <2>2
  <2> QED
    BY <2>1, <2>2
<1>7. m \in [0 .. n + k -> Nat]
  <2>1. ASSUME NEW i \in 0 .. n PROVE m[i] \in Nat
    BY ONLY <1>1, <1>4, <2>1, Zenon
  <2>2. ASSUME NEW i \in 0 .. k PROVE m[n + i] \in Nat
    BY ONLY <1>2, <1>5, <2>2, Zenon
  <2>3. ASSUME NEW i \in 0 .. n + k PROVE m[i] \in Nat
    BY ONLY <1>6, <2>1, <2>2, <2>3, Zenon
  <2> QED
    BY ONLY <1>m, <2>3
<1>8. m[0] = first /\ m[n + k] = last
  <2>1. 0 \in 0 .. n /\ k \in 0 .. k
    OBVIOUS
  <2> QED
    BY <1>1, <1>2, <1>4, <1>5, <2>1
<1>9. \A i, j \in 0 .. n + k : i <= j => m[i] <= m[j]
  <2>1. ASSUME NEW i \in 0 .. n + k, NEW j \in 0 .. n + k, i <= j PROVE m[i] <= m[j]
    <3>1. CASE j \in 0 .. n
      <4>1. i \in 0 .. n
        BY <2>1, <3>1
      <4> QED
        BY <1>1, <1>4, <2>1, <3>1, <4>1
    <3>2. ASSUME NEW h \in 0 .. k, j = n + h PROVE m[i] <= m[j]
      <4>1. CASE i \in 0 .. n
        <5>1. n \in 0 .. n /\ 0 \in 0 .. k /\ i <= n /\ 0 <= h
          BY <4>1
        <5>2. m[i] = ma[i] /\ ma[i] <= mid /\ m[j] = mb[h] /\ mid <= mb[h]
          BY <1>1, <1>2, <1>4, <1>5, <3>2, <4>1, <5>1
        <5>3. ma[i] \in Nat /\ mb[h] \in Nat
          BY <1>1, <1>2, <4>1
        <5> QED
          BY <5>2, <5>3
      <4>2. ASSUME NEW g \in 0 .. k, i = n + g PROVE m[i] <= m[j]
        <5>1. g <= h
          BY <2>1, <3>2, <4>2
        <5> QED
          BY <1>2, <1>5, <3>2, <4>2, <5>1
      <4> QED
        BY <1>6, <4>1, <4>2
    <3> QED
      BY <1>6, <3>1, <3>2
  <2> QED
    BY <2>1
<1>10. ASSUME NEW i \in 1 .. n + k
       PROVE  m[i] = m[i - 1] + Len(Encoded(c[i])) /\ Stands(p, m[i - 1], Encoded(c[i]))
  <2>1. CASE i <= n
    <3>1. i \in 1 .. n /\ i \in 0 .. n /\ i - 1 \in 0 .. n
      BY <2>1
    <3>2. m[i] = ma[i] /\ m[i - 1] = ma[i - 1] /\ c[i] = a[i]
      BY <1>0, <1>4, <3>1
    <3> QED
      BY <1>3, <3>1, <3>2, Zenon
  <2>2. CASE ~(i <= n)
    <3>j. PICK j : j = i - n
      OBVIOUS
    <3>1. j \in 1 .. k /\ j \in 0 .. k /\ j - 1 \in 0 .. k /\ i = n + j /\ i - 1 = n + (j - 1)
      BY <2>2, <3>j
    <3>2. m[i] = mb[j] /\ m[i - 1] = mb[j - 1] /\ c[i] = b[j]
      BY <1>0, <1>5, <3>1
    <3> QED
      BY <1>3, <3>1, <3>2, Zenon
  <2> QED
    BY <2>1, <2>2
<1>11. Marks(p, c, first, last, m)
  BY <1>0, <1>7, <1>8, <1>9, <1>10, Zenon DEF Marks
<1> QED
  BY <1>c, <1>11, Zenon DEF Laid

\* The same bytes at another place, of the same parcel or of another one.
LEMMA LaidMoved ==
    ASSUME NEW p, NEW q, NEW items \in Seq(Items), NEW first \in Nat, NEW last \in Nat, NEW to \in Nat,
           NEW len \in Nat, last = first + len, Laid(p, items, first, last),
           to + len <= q.mDataSize, q.mDataSize \in Nat,
           \A i \in Offsets(len) : q.mData[to + i] = p.mData[first + i]
    PROVE  Laid(q, items, to, to + len)
<1>m. PICK mark : Marks(p, items, first, last, mark)
  BY DEF Laid
<1>n. PICK n \in Nat : n = Len(items)
  BY LenProperties
<1>1. /\ mark \in [0 .. n -> Nat] /\ mark[0] = first /\ mark[n] = last
      /\ \A i, j \in 0 .. n : i <= j => mark[i] <= mark[j]
      /\ \A i \in 1 .. n : mark[i] = mark[i - 1] + Len(Encoded(items[i])) /\ Stands(p, mark[i - 1], Encoded(items[i]))
  BY <1>m, <1>n, Zenon DEF Marks
<1>2. \A i \in 0 .. n : mark[i] \in Nat /\ first <= mark[i] /\ mark[i] <= last
  <2>1. 0 \in 0 .. n /\ n \in 0 .. n /\ \A i \in 0 .. n : 0 <= i /\ i <= n
    OBVIOUS
  <2> QED
    BY <1>1, <2>1
<1>d. PICK moved : moved = [i \in 0 .. n |-> to + (mark[i] - first)]
  OBVIOUS
<1>3. \A i \in 0 .. n : moved[i] = to + (mark[i] - first) /\ moved[i] \in Nat
  BY <1>2, <1>d
<1>4. moved \in [0 .. n -> Nat]
  BY <1>3, <1>d
<1>5. moved[0] = to /\ moved[n] = to + len
  <2>1. 0 \in 0 .. n /\ n \in 0 .. n
    OBVIOUS
  <2>2. moved[0] = to + (first - first) /\ moved[n] = to + (last - first)
    BY <1>1, <1>3, <2>1, Zenon
  <2>3. last - first = len /\ first - first = 0 /\ to + 0 = to
    OBVIOUS
  <2> QED
    BY ONLY <2>2, <2>3
<1>6. ASSUME NEW i \in 0 .. n, NEW j \in 0 .. n, i <= j PROVE moved[i] <= moved[j]
  <2>1. mark[i] \in Nat /\ mark[j] \in Nat /\ mark[i] <= mark[j]
    BY <1>1, <1>2, <1>6
  <2>2. moved[i] = to + (mark[i] - first) /\ moved[j] = to + (mark[j] - first)
    BY <1>3
  <2>3. first \in Nat /\ to \in Nat
    OBVIOUS
  <2> QED
    BY ONLY <2>1, <2>2, <2>3
<1>7. ASSUME NEW i \in 1 .. n
      PROVE  moved[i] = moved[i - 1] + Len(Encoded(items[i])) /\ Stands(q, moved[i - 1], Encoded(items[i]))
  <2>1. items[i] \in Items
    BY <1>n, ElementOfSeq
  <2>e. PICK e : e = Encoded(items[i])
    OBVIOUS
  <2>2. e \in Seq(Int)
    BY <2>1, <2>e, EncodedSeq
  <2>k. PICK h \in Nat : h = Len(e)
    BY <2>2, LenProperties
  <2>3. i \in 0 .. n /\ i - 1 \in 0 .. n
    OBVIOUS
  <2>x. PICK f \in Nat, g \in Nat : f = mark[i - 1] /\ g = moved[i - 1]
    BY <1>2, <1>3, <2>3
  <2>4. mark[i] = f + h /\ Stands(p, f, e)
    BY <1>1, <2>e, <2>k, <2>x
  <2>5. first <= f /\ f + h <= last /\ g = to + (f - first)
    BY <1>2, <1>3, <2>3, <2>4, <2>x
  <2>6. moved[i] = g + h
    BY <1>3, <2>3, <2>4, <2>5
  <2>7. \A k \in 1 .. h : p.mData[f + k - 1] = e[k]
    BY <2>4, <2>k DEF Stands
  <2>8. ASSUME NEW k \in 1 .. h PROVE q.mData[g + k - 1] = e[k]
    <3>o. PICK o : o = (f - first) + k - 1
      OBVIOUS
    <3>1. o \in Offsets(len) /\ to + o = g + k - 1 /\ first + o = f + k - 1
      <4>1. /\ first \in Nat /\ last = first + len /\ len \in Nat /\ to \in Nat
            /\ f \in Nat /\ g \in Nat /\ h \in Nat /\ k \in 1 .. h
        OBVIOUS
      <4> QED
        BY ONLY <2>5, <3>o, <4>1 DEF Offsets
    <3>2. q.mData[to + o] = p.mData[first + o]
      BY <3>1
    <3> QED
      BY <2>7, <3>1, <3>2
  <2>9. g + h <= q.mDataSize
    BY <2>5
  <2>10. Stands(q, g, e)
    BY <2>8, <2>9, <2>k DEF Stands
  <2> QED
    BY <2>6, <2>10, <2>e, <2>k, <2>x
<1>8. Marks(q, items, to, to + len, moved)
  BY <1>n, <1>4, <1>5, <1>6, <1>7, Zenon DEF Marks
<1> QED
  BY <1>8, Zenon DEF Laid

\* The first of them, and those behind it.
LEMMA LaidFirst ==
    ASSUME NEW p, NEW items \in Seq(Items), items # << >>, NEW first \in Nat, NEW last \in Nat,
           Laid(p, items, first, last)
    PROVE  /\ Stands(p, first, Encoded(items[1])) /\ items[1] \in Items
           /\ Laid(p, Tail(items), first + Len(Encoded(items[1])), last)
           /\ first < last /\ first + Len(Encoded(items[1])) <= last
<1>m. PICK mark : Marks(p, items, first, last, mark)
  BY DEF Laid
<1>n. PICK n \in Nat : n = Len(items) /\ n > 0
  <2>1. Len(items) \in Nat /\ Len(items) > 0
    OBVIOUS
  <2> QED
    BY <2>1
<1>1. /\ mark \in [0 .. n -> Nat] /\ mark[0] = first /\ mark[n] = last
      /\ \A i, j \in 0 .. n : i <= j => mark[i] <= mark[j]
      /\ \A i \in 1 .. n : mark[i] = mark[i - 1] + Len(Encoded(items[i])) /\ Stands(p, mark[i - 1], Encoded(items[i]))
  BY <1>m, <1>n, Zenon DEF Marks
<1>2. 1 \in 1 .. n /\ 1 \in 0 .. n /\ n \in 0 .. n /\ 1 <= n /\ 1 - 1 = 0
  BY <1>n
<1>3. items[1] \in Items
  BY <1>n, <1>2, ElementOfSeq
<1>h. PICK h \in Nat : h = Len(Encoded(items[1])) /\ h > 0
  <2>1. Encoded(items[1]) \in Seq(Int) /\ Len(Encoded(items[1])) > 0
    BY <1>3, EncodedSeq
  <2> QED
    BY <2>1, LenProperties
<1>4. mark[1] = first + h /\ Stands(p, first, Encoded(items[1]))
  BY <1>1, <1>2, <1>h, Zenon
<1>5. first + h <= last /\ first < last
  <2>1. mark[1] <= mark[n]
    BY <1>1, <1>2
  <2> QED
    BY <1>1, <1>4, <1>h, <2>1
<1>t. PICK t : t = Tail(items)
  OBVIOUS
<1>6. Len(t) = n - 1 /\ \A i \in 1 .. n - 1 : t[i] = items[i + 1]
  BY <1>n, <1>t
<1>d. PICK next : next = [i \in 0 .. n - 1 |-> mark[i + 1]]
  OBVIOUS
<1>7. \A i \in 0 .. n - 1 : i + 1 \in 0 .. n /\ next[i] = mark[i + 1] /\ next[i] \in Nat
  BY <1>1, <1>d
<1>8. next \in [0 .. n - 1 -> Nat]
  BY <1>7, <1>d
<1>9. next[0] = first + h /\ next[n - 1] = last
  <2>1. 0 \in 0 .. n - 1 /\ n - 1 \in 0 .. n - 1 /\ (n - 1) + 1 = n /\ 0 + 1 = 1
    BY <1>n
  <2> QED
    BY <1>1, <1>4, <1>7, <2>1
<1>10. ASSUME NEW i \in 0 .. n - 1, NEW j \in 0 .. n - 1, i <= j PROVE next[i] <= next[j]
  <2>1. i + 1 \in 0 .. n /\ j + 1 \in 0 .. n /\ i + 1 <= j + 1
    BY <1>10
  <2> QED
    BY <1>1, <1>7, <2>1
<1>11. ASSUME NEW i \in 1 .. n - 1
       PROVE  next[i] = next[i - 1] + Len(Encoded(t[i])) /\ Stands(p, next[i - 1], Encoded(t[i]))
  <2>1. i + 1 \in 1 .. n /\ i \in 0 .. n - 1 /\ i - 1 \in 0 .. n - 1 /\ (i - 1) + 1 = i /\ (i + 1) - 1 = i
    OBVIOUS
  <2>2. next[i] = mark[i + 1] /\ next[i - 1] = mark[i] /\ t[i] = items[i + 1]
    BY <1>6, <1>7, <2>1
  <2>3. mark[i + 1] = mark[i] + Len(Encoded(items[i + 1])) /\ Stands(p, mark[i], Encoded(items[i + 1]))
    BY <1>1, <2>1
  <2> QED
    BY <2>2, <2>3, Zenon
<1>12. Marks(p, t, first + h, last, next)
  BY <1>6, <1>8, <1>9, <1>10, <1>11, Zenon DEF Marks
<1>13. Laid(p, Tail(items), first + h, last)
  BY <1>t, <1>12, Zenon DEF Laid
<1> QED
  BY <1>3, <1>4, <1>5, <1>h, <1>13, Zenon

LEMMA LaidEnd ==
    ASSUME NEW p, NEW items \in Seq(Items), NEW first \in Nat, NEW last \in Nat, Laid(p, items, first, last)
    PROVE  items = << >> <=> first = last
<1>1. ASSUME items = << >> PROVE first = last
  <2>m. PICK mark : Marks(p, items, first, last, mark)
    BY DEF Laid
  <2>0. Len(items) = 0
    BY <1>1
  <2> QED
    BY <2>m, <2>0, Zenon DEF Marks
<1>2. ASSUME items # << >> PROVE first # last
  <2>1. first < last
    BY <1>2, LaidFirst
  <2> QED
    BY <2>1
<1> QED
  BY <1>1, <1>2

\* What stands in p stands in what keeps it.
LEMMA LaidKeeps ==
    ASSUME NEW p, NEW q, Fit(p), Fit(q), NEW items \in Seq(Items), Laid(p, items, 0, p.mDataSize),
           p.mDataSize <= q.mDataSize, \A i \in Offsets(p.mDataSize) : q.mData[i] = p.mData[i]
    PROVE  Laid(q, items, 0, p.mDataSize)
<1>n. PICK len \in Nat : len = p.mDataSize
  BY DEF Fit, Fields
<1>1. q.mDataSize \in Nat
  BY DEF Fit, Fields
<1>2. 0 + len = len /\ \A i \in Offsets(len) : 0 + i = i
  BY DEF Offsets
<1>3. \A i \in Offsets(len) : q.mData[0 + i] = p.mData[0 + i]
  BY <1>n, <1>2
<1>4. Laid(p, items, 0, len) /\ 0 + len <= q.mDataSize
  BY <1>n, <1>2
<1>5. 0 \in Nat /\ len = 0 + len
  BY <1>2
<1>6. Laid(q, items, 0, 0 + len)
  BY ONLY <1>1, <1>3, <1>4, <1>5, LaidMoved, items \in Seq(Items)
<1> QED
  BY <1>n, <1>2, <1>6

\* A number comes back from its four bytes, and so does the one of a null string.
LEMMA Int32Back ==
    /\ \A n \in Nat : n <= INT32_MAX => AsInt32(Int32(n)) = n
    /\ AsInt32(Int32(-1)) = -1
<1>1. ASSUME NEW n \in Nat, n <= INT32_MAX PROVE AsInt32(Int32(n)) = n
  <2>a. PICK a, b, c, d : /\ a = n % 256 /\ b = (n \div 256) % 256
                          /\ c = (n \div 65536) % 256 /\ d = (n \div 16777216) % 256
    OBVIOUS
  <2>1. Int32(n) = << a, b, c, d >>
    BY <2>a DEF Int32
  <2>2. n <= 2147483647
    BY <1>1 DEF INT32_MAX
  <2>3. a + b * 256 + c * 65536 + d * 16777216 = n /\ d \in Int /\ d <= 127
    BY <2>a, <2>2
  <2> QED
    BY <2>1, <2>3 DEF AsInt32
<1>2. AsInt32(Int32(-1)) = -1
  <2>1. Int32(-1) = << 255, 255, 255, 255 >>
    <3>1. \A n \in Int : n + 1 = 0 =>
             n \div 256 = n /\ n \div 65536 = n /\ n \div 16777216 = n /\ n % 256 = 255
      OBVIOUS
    <3>2. ASSUME NEW n \in Int, n + 1 = 0 PROVE Int32(n) = << 255, 255, 255, 255 >>
      BY <3>1, <3>2 DEF Int32
    <3>3. -1 \in Int /\ -1 + 1 = 0
      OBVIOUS
    <3> QED
      BY <3>2, <3>3
  <2> QED
    BY <2>1 DEF AsInt32
<1> QED
  BY <1>1, <1>2

LEMMA Moved ==
    ASSUME NEW p, Fit(p), NEW next \in Nat, NEW q, q = setDataPosition(p, next)
    PROVE  /\ q.mData = p.mData /\ q.mDataSize = p.mDataSize /\ q.mDataPos = next
           /\ \A from, bytes : Stands(q, from, bytes) <=> Stands(p, from, bytes)
<1>1. q.mData = p.mData /\ q.mDataSize = p.mDataSize /\ q.mDataPos = next
  BY DEF Fit, Fields, setDataPosition
<1>2. \A from, bytes : Stands(q, from, bytes) <=> Stands(p, from, bytes)
  BY <1>1, Zenon DEF Stands
<1> QED
  BY <1>1, <1>2

\* A read takes the bytes that stand at the position.
LEMMA TakeStands ==
    ASSUME NEW p, Fit(p), NEW bytes \in Seq(Int), NEW len, len = Len(bytes), NEW next \in Nat,
           p.mDataPos + len <= next, next <= p.mDataSize,
           \A k \in 1 .. len : p.mData[p.mDataPos + k - 1] = bytes[k],
           NEW w, w = Took([Touch(p, p.mDataPos, len) EXCEPT !.mDataPos = next],
                           << Bytes(p, p.mDataPos, len) >>)
    PROVE  w = Took(setDataPosition(p, next), << bytes >>)
<1>0. /\ p \in Fields /\ p.mDataPos \in Nat /\ p.mDataSize \in Nat /\ p.mDataCapacity \in Nat
      /\ p.wild = FALSE /\ p.mDataSize <= p.mDataCapacity /\ len \in Nat
  BY LenProperties DEF Fit, Fields
<1>1. Touch(p, p.mDataPos, len) = p
  <2>1. ~(p.mDataPos + len > p.mDataCapacity)
    BY <1>0
  <2>2. Touch(p, p.mDataPos, len) = [p EXCEPT !.wild = FALSE]
    BY <1>0, <2>1 DEF Touch
  <2> QED
    BY <1>0, <2>2 DEF Fields
<1>2. Bytes(p, p.mDataPos, len) = bytes
  <2>1. bytes = [k \in 1 .. len |-> bytes[k]]
    OBVIOUS
  <2>2. Bytes(p, p.mDataPos, len) = [k \in 1 .. len |-> bytes[k]]
    BY Zenon DEF Bytes
  <2> QED
    BY <2>1, <2>2
<1> QED
  BY <1>1, <1>2, Zenon DEF setDataPosition

LEMMA ReadAlignedStands ==
    ASSUME NEW p, Fit(p), NEW bytes \in Seq(Int), NEW from, from = p.mDataPos, Stands(p, from, bytes),
           NEW next, next = from + Len(bytes)
    PROVE  readAligned(p, Len(bytes)) = Took(setDataPosition(p, next), << bytes >>)
<1>n. PICK n \in Nat : n = Len(bytes)
  BY LenProperties
<1>0. p.mDataPos \in Nat /\ from \in Nat /\ p.mDataSize \in Nat
  BY DEF Fit, Fields
<1>1. /\ next = p.mDataPos + n /\ next \in Nat /\ p.mDataPos + n <= next /\ next <= p.mDataSize
      /\ \A k \in 1 .. n : p.mData[p.mDataPos + k - 1] = bytes[k]
  BY <1>0, <1>n DEF Stands
<1>2. readAligned(p, n) = Took([Touch(p, p.mDataPos, n) EXCEPT !.mDataPos = next], << Bytes(p, p.mDataPos, n) >>)
  BY <1>1 DEF readAligned
<1>3. readAligned(p, n) = Took(setDataPosition(p, next), << bytes >>)
  BY <1>n, <1>1, <1>2, TakeStands
<1> QED
  BY <1>n, <1>3

LEMMA ReadStands ==
    ASSUME NEW p, Fit(p), NEW bytes \in Seq(Int), Len(bytes) > 0, NEW from, from = p.mDataPos,
           Stands(p, from, Padded(bytes)), NEW next, next = from + Len(Padded(bytes))
    PROVE  read(p, Len(bytes)) = Took(setDataPosition(p, next), << bytes >>)
<1>n. PICK n \in Nat : n = Len(bytes)
  BY LenProperties
<1>z. PICK z : z = Padded(bytes)
  OBVIOUS
<1>m. PICK m \in Nat : m = Len(z) /\ m = pad_size(n) /\ n <= m /\ \A k \in 1 .. n : z[k] = bytes[k]
  <2>1. /\ z \in Seq(Int) /\ Len(z) = pad_size(n) /\ n <= Len(z)
        /\ \A k \in 1 .. n : z[k] = bytes[k]
    BY <1>n, <1>z, PaddedSeq
  <2>2. Len(z) \in Nat
    BY <2>1, LenProperties
  <2> QED
    BY <2>1, <2>2
<1>0. p.mDataPos \in Nat /\ from \in Nat /\ p.mDataSize \in Nat
  BY DEF Fit, Fields
<1>1. next = p.mDataPos + m /\ next <= p.mDataSize /\ \A k \in 1 .. m : p.mData[from + k - 1] = z[k]
  BY <1>z, <1>m DEF Stands
<1>2. next \in Nat /\ p.mDataPos + n <= next
  BY <1>0, <1>1, <1>m
<1>3. \A k \in 1 .. n : p.mData[p.mDataPos + k - 1] = bytes[k]
  <2>1. \A k \in 1 .. n : k \in 1 .. m
    BY <1>m
  <2> QED
    BY <1>1, <1>m, <2>1
<1>4. read(p, n) = Took([Touch(p, p.mDataPos, n) EXCEPT !.mDataPos = next], << Bytes(p, p.mDataPos, n) >>)
  BY <1>1, <1>m DEF read
<1>5. read(p, n) = Took(setDataPosition(p, next), << bytes >>)
  BY <1>n, <1>1, <1>2, <1>3, <1>4, TakeStands
<1> QED
  BY <1>n, <1>5

\* The number of a string, or of none.
LEMMA ReadInt32Stands ==
    ASSUME NEW p, Fit(p), NEW n \in Int, NEW from, from = p.mDataPos, Stands(p, from, Int32(n)),
           NEW r, r = readInt32(p)
    PROVE  /\ r.p = setDataPosition(p, from + 4) /\ r.value = AsInt32(Int32(n))
           /\ from + 4 <= p.mDataSize
<1>b. PICK b : b = Int32(n)
  OBVIOUS
<1>1. b \in Seq(Int) /\ Len(b) = 4
  BY <1>b DEF Int32
<1>2. readAligned(p, 4) = Took(setDataPosition(p, from + 4), << b >>)
  BY <1>b, <1>1, ReadAlignedStands
<1>3. from + 4 <= p.mDataSize
  BY <1>b, <1>1 DEF Stands
<1>a. PICK a : a = readAligned(p, 4)
  OBVIOUS
<1>4. a.p = setDataPosition(p, from + 4) /\ a.value = << b >>
  BY <1>2, <1>a DEF Took
<1>5. a.value # << >> /\ a.value[1] = b
  BY <1>4
<1>6. r = Took(a.p, IF a.value = << >> THEN 0 ELSE AsInt32(a.value[1]))
  BY <1>a DEF readInt32
<1>7. r.p = a.p /\ r.value = AsInt32(b)
  BY <1>5, <1>6 DEF Took
<1> QED
  BY <1>b, <1>3, <1>4, <1>7

LEMMA ReadString16Stands ==
    ASSUME NEW p, Fit(p), NEW bytes \in Seq(Int), Len(bytes) % 2 = 0, Len(bytes) <= INT32_MAX,
           NEW from, from = p.mDataPos, NEW all,
           all = Int32(Len(bytes) \div 2) \o Padded(bytes \o << 0, 0 >>),
           Stands(p, from, all), NEW next, next = from + Len(all)
    PROVE  readString16(p) = Took(setDataPosition(p, next), << bytes >>)
<1>0. p.mDataPos \in Nat /\ from \in Nat /\ p.mDataSize \in Nat /\ from % 4 = 0
  BY DEF Fit, Fields
<1>m. PICK m \in Nat : m = Len(bytes)
  BY LenProperties
<1>n. PICK n \in Nat : n = m \div 2 /\ n * 2 = m /\ n <= INT32_MAX /\ (n + 1) * 2 = m + 2
  <2>0. m \in Nat /\ m % 2 = 0 /\ m <= INT32_MAX /\ INT32_MAX \in Nat
    BY <1>m, SMT DEF INT32_MAX
  <2>1. m \div 2 \in Nat /\ (m \div 2) * 2 = m /\ ((m \div 2) + 1) * 2 = m + 2 /\ m \div 2 <= m
    BY ONLY <2>0
  <2>2. m \div 2 <= INT32_MAX
    BY ONLY <2>0, <2>1
  <2> QED
    BY <2>1, <2>2
<1>b. PICK b : b = Int32(n)
  OBVIOUS
<1>z. PICK z : z = bytes \o << 0, 0 >>
  OBVIOUS
<1>1. b \in Seq(Int) /\ Len(b) = 4
  BY <1>b DEF Int32
<1>2. z \in Seq(Int) /\ Len(z) = m + 2 /\ Len(z) > 0 /\ SubSeq(z, 1, m) = bytes
  <2>1. z \in Seq(Int) /\ Len(z) = m + 2 /\ Len(z) > 0 /\ \A k \in 1 .. m : z[k] = bytes[k]
    BY <1>m, <1>z
  <2>2. SubSeq(z, 1, m) \in Seq(Int) /\ Len(SubSeq(z, 1, m)) = m /\ \A k \in 1 .. m : SubSeq(z, 1, m)[k] = z[k]
    BY <2>1
  <2> QED
    BY <1>m, <2>1, <2>2, SeqEqual
<1>3. Padded(z) \in Seq(Int)
  BY <1>2, PaddedSeq
<1>4. all = b \o Padded(z)
  BY <1>m, <1>n, <1>b, <1>z
<1>5. Stands(p, from, b) /\ Stands(p, from + 4, Padded(z))
  <2>1. Stands(p, from, b \o Padded(z))
    BY ONLY <1>4, Stands(p, from, all)
  <2> QED
    BY ONLY <1>0, <1>1, <1>3, <2>1, StandsTwice
<1>r. PICK r : r = readInt32(p)
  OBVIOUS
<1>6. r.p = setDataPosition(p, from + 4) /\ r.value = AsInt32(Int32(n)) /\ from + 4 <= p.mDataSize
  BY <1>b, <1>r, <1>5, ReadInt32Stands
<1>7. r.value = n
  BY <1>6, <1>n, Int32Back
<1>q. PICK q : q = setDataPosition(p, from + 4)
  OBVIOUS
<1>f. PICK four : four = from + 4
  OBVIOUS
<1>8. four \in Nat /\ four % 4 = 0 /\ four <= p.mDataSize
  <2>1. from \in Nat /\ from % 4 = 0 /\ from + 4 <= p.mDataSize
    BY <1>0, <1>6
  <2>2. four \in Nat /\ four % 4 = 0
    BY ONLY <1>f, <2>1
  <2> QED
    BY ONLY <1>f, <2>1, <2>2
<1>9. Fit(q)
  BY <1>f, <1>q, <1>8, PositionFit
<1>10. q.mDataPos = four /\ Stands(q, four, Padded(z))
  BY <1>5, <1>f, <1>q, <1>8, Moved
<1>11. read(q, m + 2) = Took(setDataPosition(q, four + Len(Padded(z))), << z >>)
  BY <1>2, <1>9, <1>10, ReadStands
<1>12. four + Len(Padded(z)) = next
  <2>1. ASSUME NEW y \in Seq(Int) PROVE Len(b \o y) = 4 + Len(y) /\ Len(y) \in Nat
    <3>1. b \in Seq(Int) /\ y \in Seq(Int) /\ Len(b) = 4
      BY <1>1
    <3>2. Len(b \o y) = Len(b) + Len(y)
      BY ONLY <3>1, ConcatProperties
    <3>3. Len(y) \in Nat
      BY ONLY <3>1, LenProperties
    <3> QED
      BY ONLY <3>1, <3>2, <3>3
  <2>2. Len(all) = 4 + Len(Padded(z)) /\ Len(Padded(z)) \in Nat
    BY ONLY <1>3, <1>4, <2>1, Zenon
  <2>3. next = from + Len(all) /\ from \in Nat
    BY <1>0
  <2> QED
    BY ONLY <1>f, <2>2, <2>3
<1>13. setDataPosition(q, next) = setDataPosition(p, next)
  <2>1. p \in Fields
    BY DEF Fit
  <2> QED
    BY <1>q, <2>1 DEF setDataPosition, Fields
<1>14. read(r.p, (r.value + 1) * 2) = Took(setDataPosition(p, next), << z >>)
  BY <1>6, <1>7, <1>n, <1>q, <1>11, <1>12, <1>13
<1>15. ~(r.value < 0) /\ r.value * 2 = m
  BY <1>7, <1>n
<1>s. PICK s : s = Took(setDataPosition(p, next), << z >>)
  OBVIOUS
<1>16. s.value # << >> /\ s.value[1] = z /\ s.p = setDataPosition(p, next)
  BY <1>s DEF Took
<1>17. readString16(p) = Took(s.p, << SubSeq(s.value[1], 1, r.value * 2) >>)
  <2>1. read(r.p, (r.value + 1) * 2) = s
    BY <1>14, <1>s
  <2> QED
    BY ONLY <1>r, <1>15, <1>16, <2>1 DEF readString16
<1> QED
  BY <1>2, <1>15, <1>16, <1>17

\* The end of the string is the first zero.
LEMMA ReadCStringStands ==
    ASSUME NEW p, Fit(p), NEW bytes \in Seq(Int), \A k \in 1 .. Len(bytes) : bytes[k] # 0,
           NEW from, from = p.mDataPos, Stands(p, from, Padded(Append(bytes, 0))),
           NEW next, next = from + Len(Padded(Append(bytes, 0)))
    PROVE  readCString(p) = Took(setDataPosition(p, next), << bytes >>)
<1>0. /\ p.mDataPos \in Nat /\ from \in Nat /\ p.mDataSize \in Nat /\ p.mDataPos <= p.mDataSize
  BY DEF Fit, Fields
<1>n. PICK n \in Nat : n = Len(bytes)
  BY LenProperties
<1>b. PICK b : b = Append(bytes, 0)
  OBVIOUS
<1>1. /\ b \in Seq(Int) /\ Len(b) = n + 1 /\ Len(b) > 0 /\ b[n + 1] = 0
      /\ \A k \in 1 .. n : b[k] = bytes[k]
  BY <1>n, <1>b
<1>z. PICK z : z = Padded(b)
  OBVIOUS
<1>2. /\ z \in Seq(Int) /\ Len(z) = pad_size(n + 1) /\ n + 1 <= Len(z) /\ Len(z) \in Nat
      /\ \A k \in 1 .. n + 1 : z[k] = b[k]
  <2>1. /\ z \in Seq(Int) /\ Len(z) = pad_size(Len(b)) /\ Len(b) <= Len(z)
        /\ \A k \in 1 .. Len(b) : z[k] = b[k]
    BY <1>1, <1>z, PaddedSeq
  <2>2. Len(z) \in Nat
    BY <2>1, LenProperties
  <2> QED
    BY ONLY <1>1, <2>1, <2>2
<1>m. PICK m \in Nat : m = Len(z)
  BY <1>2
<1>3. from + m <= p.mDataSize /\ \A k \in 1 .. m : p.mData[from + k - 1] = z[k]
  BY <1>b, <1>z, <1>m DEF Stands
<1>4. \A k \in 1 .. n + 1 : k \in 1 .. m /\ p.mData[from + k - 1] = b[k]
  BY <1>2, <1>3, <1>m
<1>e. PICK e \in Nat : e = from + n
  BY <1>0
<1>5. p.mData[e] = 0 /\ e \in from .. (p.mDataSize - 1)
  <2>1. n + 1 \in 1 .. n + 1 /\ from + (n + 1) - 1 = e
    BY <1>0, <1>e
  <2>2. p.mData[e] = 0
    BY <1>1, <1>4, <2>1
  <2>3. e >= from /\ e <= p.mDataSize - 1
    <3>1. n + 1 <= m /\ from + m <= p.mDataSize /\ n \in Nat /\ m \in Nat
      BY <1>2, <1>3, <1>m
    <3> QED
      BY ONLY <1>0, <1>e, <3>1
  <2> QED
    BY <1>0, <1>e, <2>2, <2>3
<1>6. ASSUME NEW i \in from .. (p.mDataSize - 1), p.mData[i] = 0 PROVE e <= i
  <2>1. SUFFICES ASSUME ~(e <= i) PROVE FALSE
    OBVIOUS
  <2>k. PICK k : k = i - from + 1
    OBVIOUS
  <2>i. i \in from .. (p.mDataSize - 1) /\ n \in Nat
    OBVIOUS
  <2>2. k \in 1 .. n /\ k \in 1 .. n + 1 /\ from + k - 1 = i
    BY ONLY <1>0, <1>e, <2>1, <2>k, <2>i
  <2>3. bytes[k] = 0
    BY <1>1, <1>4, <1>6, <2>2
  <2> QED
    BY <1>n, <2>2, <2>3
<1> DEFINE nul == {i \in p.mDataPos .. (p.mDataSize - 1) : p.mData[i] = 0}
           eos == CHOOSE i \in nul : \A j \in nul : i <= j
<1>7. e \in nul /\ \A j \in nul : e <= j /\ j \in Nat
  BY <1>0, <1>5, <1>6
<1>8. eos = e
  <2> HIDE DEF nul
  <2>1. eos \in nul /\ \A j \in nul : eos <= j
    BY <1>7
  <2>2. eos <= e /\ e <= eos /\ eos \in Nat
    BY <1>7, <2>1
  <2> QED
    BY <2>2
<1>9. readCString(p) = Took([p EXCEPT !.mDataPos = p.mDataPos + pad_size((eos - p.mDataPos) + 1)],
                            << Bytes(p, p.mDataPos, eos - p.mDataPos) >>)
  BY <1>0, <1>7 DEF readCString
<1> HIDE DEF eos, nul
<1>10. eos - p.mDataPos = n
  <2>1. from = p.mDataPos /\ n \in Nat
    OBVIOUS
  <2> QED
    BY ONLY <1>0, <1>8, <1>e, <2>1
<1>11. next = p.mDataPos + pad_size(n + 1)
  BY <1>2, <1>b, <1>z
<1>12. Bytes(p, p.mDataPos, n) = bytes
  <2>1. bytes = [k \in 1 .. n |-> bytes[k]]
    BY <1>n
  <2>2. \A k \in 1 .. n : p.mData[p.mDataPos + k - 1] = bytes[k]
    <3>1. ASSUME NEW k \in 1 .. n PROVE p.mData[from + k - 1] = bytes[k]
      <4>1. k \in 1 .. n + 1
        OBVIOUS
      <4> QED
        BY ONLY <1>1, <1>4, <4>1, k \in 1 .. n
    <3> QED
      BY ONLY <3>1, from = p.mDataPos
  <2>3. Bytes(p, p.mDataPos, n) = [k \in 1 .. n |-> bytes[k]]
    BY <2>2, Zenon DEF Bytes
  <2> QED
    BY <2>1, <2>3
<1> QED
  BY ONLY <1>9, <1>10, <1>11, <1>12 DEF setDataPosition

\* Whatever was written comes back, and the position goes to where the next one begins.
LEMMA UnmarshalStands ==
    ASSUME NEW p, Fit(p), NEW item \in Items, NEW from, from = p.mDataPos, Stands(p, from, Encoded(item)),
           NEW next, next = from + Len(Encoded(item))
    PROVE  Unmarshal(p, item) = Took(setDataPosition(p, next), << Value(item) >>)
<1>1. /\ item.kind \in Kinds /\ item.bytes \in Seq(Int)
      /\ item.kind = "raw" => Len(item.bytes) > 0
  BY ItemTyped
<1>2. CASE item.kind = "aligned"
  <2>1. Encoded(item) = item.bytes /\ Value(item) = item.bytes /\ Unmarshal(p, item) = readAligned(p, Len(item.bytes))
    BY <1>2 DEF Encoded, Value, Unmarshal
  <2> QED
    BY <1>1, <2>1, ReadAlignedStands
<1>3. CASE item.kind = "raw"
  <2>1. Encoded(item) = Padded(item.bytes) /\ Value(item) = item.bytes /\ Unmarshal(p, item) = read(p, Len(item.bytes))
    BY <1>3 DEF Encoded, Value, Unmarshal
  <2> QED
    BY <1>1, <1>3, <2>1, ReadStands
<1>4. CASE item.kind = "cstring"
  <2>1. /\ Encoded(item) = Padded(Append(item.bytes, 0)) /\ Value(item) = item.bytes
        /\ Unmarshal(p, item) = readCString(p)
    BY <1>4 DEF Encoded, Value, Unmarshal
  <2>2. \A k \in 1 .. Len(item.bytes) : item.bytes[k] # 0
    BY <1>4, ParcelAssumption, Zenon
  <2> QED
    BY <1>1, <2>1, <2>2, ReadCStringStands
<1>5. CASE item.kind \in {"string16", "string8"}
  <2>1. /\ Encoded(item) = Int32(Len(item.bytes) \div 2) \o Padded(item.bytes \o << 0, 0 >>)
        /\ Value(item) = item.bytes /\ Unmarshal(p, item) = readString16(p)
    BY <1>5 DEF Encoded, Value, Unmarshal
  <2>2. Len(item.bytes) % 2 = 0 /\ Len(item.bytes) <= INT32_MAX
    <3>1. Len(item.bytes) % 2 = 0 /\ Len(item.bytes) + 4 <= INT32_MAX
      BY <1>5, ParcelAssumption, Zenon
    <3>2. Len(item.bytes) \in Nat
      BY <1>1, LenProperties
    <3>3. \A k \in Nat : k + 4 <= INT32_MAX => k <= INT32_MAX
      BY SMT DEF INT32_MAX
    <3> QED
      BY ONLY <3>1, <3>2, <3>3, Zenon
  <2> QED
    BY <1>1, <2>1, <2>2, ReadString16Stands
<1>6. CASE item.kind = "null16"
  <2>1. Encoded(item) = Int32(-1) /\ Value(item) = << >> /\ Unmarshal(p, item) = readString16(p)
    BY <1>6 DEF Encoded, Value, Unmarshal
  <2>2. -1 \in Int /\ Len(Int32(-1)) = 4
    BY DEF Int32
  <2>r. PICK r : r = readInt32(p)
    OBVIOUS
  <2>3. r.p = setDataPosition(p, from + 4) /\ r.value = AsInt32(Int32(-1))
    BY <2>1, <2>2, <2>r, ReadInt32Stands
  <2>4. r.value < 0
    BY <2>3, Int32Back
  <2>5. readString16(p) = Took(r.p, << << >> >>)
    BY <2>r, <2>4 DEF readString16
  <2>6. next = from + 4
    BY <2>1, <2>2
  <2> QED
    BY <2>1, <2>3, <2>5, <2>6
<1> QED
  BY <1>1, <1>2, <1>3, <1>4, <1>5, <1>6 DEF Kinds

\* The bytes of another parcel are added like any others.
LEMMA AppendPuts ==
    ASSUME NEW p, Ended(p), NEW q, Fit(q), q.mDataPos < q.mDataSize, NEW heap \in Nat,
           NEW offset, offset = q.mDataPos, NEW len, len = q.mDataSize - q.mDataPos,
           NEW w, w = appendFrom(p, q, offset, len, heap)
    PROVE  Puts(p, w, Bytes(q, offset, len))
<1>0. /\ q.mDataSize \in Nat /\ q.mDataPos \in Nat /\ q.mDataPos % 4 = 0 /\ q.mDataSize % 4 = 0
      /\ p.mDataSize \in Nat /\ p.mDataCapacity \in Nat /\ p.mDataPos = p.mDataSize
      /\ p.mDataSize % 4 = 0 /\ Fit(p)
  BY DEF Ended, Fit, Fields
<1>1. len \in Nat /\ len > 0 /\ len % 4 = 0 /\ offset \in Nat /\ offset + len = q.mDataSize
  BY <1>0
<1>b. PICK bytes : bytes = Bytes(q, offset, len)
  OBVIOUS
<1>2. bytes \in Seq(Int) /\ Len(bytes) = len
  <2>1. offset + len <= q.mDataSize
    BY <1>0, <1>1
  <2> QED
    BY ONLY Fit(q), <1>b, <1>1, <2>1, BytesSeq
<1>a. PICK a : a = writeAligned(p, bytes, heap)
  OBVIOUS
<1>3. Puts(p, a, bytes)
  <2>1. Len(bytes) > 0 /\ Len(bytes) % 4 = 0 /\ bytes \in Seq(Int) /\ heap \in Nat
    BY <1>1, <1>2
  <2> QED
    BY ONLY Ended(p), <1>a, <2>1, AlignedPuts
<1>4. w = a
  <2>s. PICK s : s = p.mDataSize
    OBVIOUS
  <2>r. PICK r : r = IF s + len > p.mDataCapacity THEN growData(p, len, heap) ELSE Done(p, "NO_ERROR")
    OBVIOUS
  <2>1. Room(p, len, heap) = r
    BY <1>0, <1>1, <2>s, <2>r DEF Room
  <2>2. Roomy(p, r, len)
    BY <1>0, <1>1, <2>1, RoomFit
  <2>3. r.p.mDataPos = s /\ r.p.mDataSize = s /\ Fit(r.p)
    BY <1>0, <2>2, <2>s DEF Roomy
  <2>4. w = IF r.status # "NO_ERROR" THEN r
            ELSE Done([memcpy(r.p, r.p.mDataPos, bytes) EXCEPT
                         !.mDataPos = r.p.mDataPos + len, !.mDataSize = r.p.mDataSize + len], "NO_ERROR")
    BY <1>0, <1>1, <1>b, <2>s, <2>r DEF appendFrom
  <2>5. a = IF r.status # "NO_ERROR" THEN r
            ELSE Done(finishWrite(memcpy(r.p, r.p.mDataPos, bytes), len), "NO_ERROR")
    BY <1>2, <1>a, <2>1 DEF writeAligned
  <2>6. CASE r.status # "NO_ERROR"
    BY <2>4, <2>5, <2>6
  <2>7. CASE r.status = "NO_ERROR"
    <3>c. PICK c : c = memcpy(r.p, r.p.mDataPos, bytes)
      OBVIOUS
    <3>1. s \in Nat /\ s + Len(bytes) <= r.p.mDataCapacity
      BY <1>0, <1>2, <2>2, <2>3, <2>7, <2>s DEF Roomy
    <3>2. c = memcpy(r.p, s, bytes)
      BY <2>3, <3>c
    <3>3. c.mDataPos = s /\ c.mDataSize = s
      BY <1>2, <2>3, <3>1, <3>2, CopyFit
    <3>4. s + len > s
      BY <1>1, <3>1
    <3>5. finishWrite(c, len) = [c EXCEPT !.mDataPos = s + len, !.mDataSize = s + len]
      BY <3>3, <3>4 DEF finishWrite
    <3> QED
      BY <2>3, <2>4, <2>5, <2>7, <3>c, <3>5
  <2> QED
    BY <2>6, <2>7
<1> QED
  BY <1>b, <1>3, <1>4

\* A message that arrives is what was sent, or nothing has changed.
LEMMA DataStands ==
    ASSUME NEW p, Fit(p), NEW bytes \in Seq(Int), Len(bytes) > 0, NEW heap \in Nat,
           NEW w, w = setData(p, bytes, heap)
    PROVE  IF w.status = "NO_ERROR"
           THEN /\ w.p.mDataPos = 0 /\ w.p.mDataSize = Len(bytes)
                /\ Stands(w.p, 0, bytes)
           ELSE w.p = p
<1>n. PICK len \in Nat : len = Len(bytes)
  BY LenProperties
<1>0. len > 0 /\ len # 0 /\ 0 + len = len
  BY <1>n
<1>r. PICK r : r = restartWrite(p, len, heap)
  OBVIOUS
<1>1. Fit(r.p) /\ (r.status = "NO_ERROR" => len <= r.p.mDataCapacity /\ r.p.mDataPos = 0)
  BY <1>0, <1>r, RestartFit
<1>2. CASE r.status = "NO_ERROR"
  <2>c. PICK c : c = memcpy(r.p, 0, bytes)
    OBVIOUS
  <2>1. Fit(c) /\ c.mDataPos = 0
    BY <1>n, <1>0, <1>1, <1>2, <2>c, CopyFit
  <2>2. \A k \in 1 .. len : c.mData[0 + k - 1] = bytes[k]
    <3>d. PICK d : d = r.p
      OBVIOUS
    <3>1. Fit(d) /\ 0 + Len(bytes) <= d.mDataCapacity /\ 0 \in Nat /\ c = memcpy(d, 0, bytes)
      BY <1>n, <1>0, <1>1, <1>2, <2>c, <3>d
    <3>2. /\ \A k \in 1 .. Len(bytes) : c.mData[0 + k - 1] = bytes[k]
          /\ \A i \in Offsets(d.mDataCapacity) :
                i < 0 \/ i >= 0 + Len(bytes) => c.mData[i] = d.mData[i]
      BY ONLY <3>1, CopyStands
    <3> QED
      BY ONLY <1>n, <3>2, Zenon
  <2>f. PICK f : f = [c EXCEPT !.mDataSize = len]
    OBVIOUS
  <2>3. w = Done(f, "NO_ERROR")
    BY <1>n, <1>r, <1>2, <2>c, <2>f DEF setData
  <2>4. f.mDataSize = len /\ f.mDataPos = 0 /\ f.mData = c.mData
    BY <2>1, <2>f DEF Fit, Fields
  <2>5. Stands(f, 0, bytes)
    BY <1>n, <1>0, <2>2, <2>4 DEF Stands
  <2>6. w.p = f /\ w.status = "NO_ERROR"
    BY <2>3 DEF Done
  <2> QED
    BY <1>n, <2>4, <2>5, <2>6
<1>3. CASE r.status # "NO_ERROR"
  <2>1. w = r
    BY <1>n, <1>r, <1>3 DEF setData
  <2>2. r = Done(p, "NO_MEMORY")
    BY <1>0, <1>r, <1>3 DEF restartWrite, Done
  <2> QED
    BY <2>1, <2>2 DEF Done
<1> QED
  BY <1>2, <1>3

\* A place that is filled in keeps its length, and what follows stays.
LEMMA FilledIn ==
    ASSUME NEW p, Ended(p), NEW bytes \in Seq(Int), Len(bytes) > 0, Len(bytes) <= p.mDataSize,
           NEW heap \in Nat, NEW w, w = writeAligned(setDataPosition(p, 0), bytes, heap).p
    PROVE  /\ w.mDataSize = p.mDataSize /\ Stands(w, 0, bytes)
           /\ \A i \in Offsets(p.mDataSize) : i >= Len(bytes) => w.mData[i] = p.mData[i]
<1>n. PICK len \in Nat : len = Len(bytes)
  BY LenProperties
<1>0. /\ Fit(p) /\ p.mDataSize \in Nat /\ p.mDataCapacity \in Nat /\ p.mDataSize <= p.mDataCapacity
      /\ len > 0 /\ len <= p.mDataSize /\ 0 + len = len
  BY <1>n DEF Ended, Fit, Fields
<1>q. PICK q : q = setDataPosition(p, 0)
  OBVIOUS
<1>1. Fit(q) /\ q.mData = p.mData /\ q.mDataSize = p.mDataSize /\ q.mDataPos = 0
  <2>1. 0 \in Nat /\ 0 % 4 = 0 /\ 0 <= p.mDataSize
    BY <1>0
  <2> QED
    BY <1>0, <1>q, <2>1, PositionFit, Moved
<1>2. q.mDataCapacity = p.mDataCapacity
  BY <1>0, <1>q DEF setDataPosition, Fit, Fields
<1>3. Room(q, len, heap) = Done(q, "NO_ERROR")
  BY <1>0, <1>1, <1>2 DEF Room
<1>c. PICK c : c = memcpy(q, 0, bytes)
  OBVIOUS
<1>4. 0 + Len(bytes) <= q.mDataCapacity /\ 0 \in Nat
  BY <1>n, <1>0, <1>2
<1>5. Fit(c) /\ c.mDataSize = p.mDataSize /\ c.mDataPos = 0
  BY <1>1, <1>4, <1>c, CopyFit
<1>6. /\ \A k \in 1 .. len : c.mData[0 + k - 1] = bytes[k]
      /\ \A i \in Offsets(q.mDataCapacity) : i < 0 \/ i >= 0 + len => c.mData[i] = q.mData[i]
  BY <1>1, <1>4, <1>n, <1>c, CopyStands
<1>7. w = finishWrite(c, len)
  <2>1. writeAligned(q, bytes, heap) = Done(finishWrite(memcpy(q, 0, bytes), len), "NO_ERROR")
    BY <1>1, <1>3, <1>n DEF writeAligned, Done
  <2> QED
    BY <1>q, <1>c, <2>1 DEF Done
<1>8. w = [c EXCEPT !.mDataPos = len, !.mDataSize = p.mDataSize]
  <2>1. ~(len > p.mDataSize)
    BY <1>0
  <2> QED
    BY <1>0, <1>5, <1>7, <2>1 DEF finishWrite
<1>9. w.mData = c.mData /\ w.mDataSize = p.mDataSize
  BY <1>5, <1>8 DEF Fit, Fields
<1>10. Stands(w, 0, bytes)
  BY <1>n, <1>0, <1>6, <1>9 DEF Stands
<1>11. ASSUME NEW i \in Offsets(p.mDataSize), i >= len PROVE w.mData[i] = p.mData[i]
  <2>1. i \in Offsets(q.mDataCapacity) /\ i >= 0 + len
    BY <1>0, <1>2, <1>11 DEF Offsets
  <2> QED
    BY <1>1, <1>6, <1>9, <2>1
<1> QED
  BY <1>n, <1>9, <1>10, <1>11

-----------------------------------------------------------------------------
\* The written parcel is its items and ends with them.
OutInv ==
    /\ out.mDataPos = out.mDataSize
    /\ Laid(out, packed, 0, out.mDataSize)

\* The items of in that are not read yet.
Rest == SubSeq(sent, Len(got) + 1, Len(sent))

\* They are what is left in it, as long as nothing was misread.
InInv ==
    /\ ~lost => Laid(in, Rest, in.mDataPos, in.mDataSize)
    /\ Len(got) <= Len(sent)
    /\ \A i \in 1 .. Len(got) : got[i] = << Value(sent[i]) >>

LEMMA OutEnded ==
    ASSUME ParcelInv, OutInv
    PROVE  /\ Ended(out) /\ Fit(out) /\ out.mDataSize \in Nat /\ out.mDataSize % 4 = 0
           /\ packed \in Seq(Items) /\ Laid(out, packed, 0, out.mDataSize)
BY DEF ParcelInv, OutInv, Ended, Fit, Fields

LEMMA OutWrite ==
    ASSUME ParcelInv, OutInv, NEW item \in Items, NEW heap \in Heaps, Write(item, heap)
    PROVE  OutInv'
<1>0. heap \in Nat
  BY ParcelAssumption
<1>1. /\ Ended(out) /\ Fit(out) /\ out.mDataSize \in Nat /\ out.mDataSize % 4 = 0
      /\ packed \in Seq(Items) /\ Laid(out, packed, 0, out.mDataSize)
  BY OutEnded
<1>s. PICK s \in Nat : s = out.mDataSize
  BY <1>1
<1>r. PICK r : r = Marshal(out, item, heap)
  OBVIOUS
<1>2. Puts(out, r, Encoded(item))
  <2>1. item.kind = "string8" => writeString16(out, item.bytes, heap).status = "NO_ERROR"
    BY DEF Write
  <2> QED
    BY <1>0, <1>1, <1>r, <2>1, MarshalPuts
<1>3. Ended(r.p) /\ Fit(r.p) /\ Keeps(out, r.p) /\ r.p.mDataSize \in Nat
  BY <1>2 DEF Puts, Ended, Fit, Fields
<1>4. s <= r.p.mDataSize /\ \A i \in Offsets(s) : r.p.mData[i] = out.mData[i]
  BY <1>3, <1>s DEF Keeps
<1>5. CASE r.status = "NO_ERROR"
  <2>1. out' = r.p /\ packed' = Append(packed, item)
    BY <1>r, <1>5 DEF Write
  <2>t. PICK t \in Nat : t = r.p.mDataSize
    BY <1>3
  <2>2. t = s + Len(Encoded(item)) /\ Stands(r.p, s, Encoded(item))
    BY <1>2, <1>5, <1>s, <2>t DEF Puts
  <2>3. Laid(r.p, packed, 0, s)
    BY <1>1, <1>3, <1>4, <1>s, LaidKeeps
  <2>4. Laid(r.p, << item >>, s, t)
    BY <2>2, LaidOne
  <2>5. << item >> \in Seq(Items) /\ 0 \in Nat
    OBVIOUS
  <2>6. Laid(r.p, packed \o << item >>, 0, t)
    BY <1>1, <2>3, <2>4, <2>5, LaidJoin
  <2>7. packed \o << item >> = Append(packed, item)
    BY <1>1
  <2> QED
    BY <1>3, <2>1, <2>6, <2>7, <2>t DEF OutInv, Ended
<1>6. CASE r.status # "NO_ERROR"
  <2>w. PICK w : w = setDataSize(r.p, s, heap)
    OBVIOUS
  <2>1. out' = w.p /\ packed' = packed
    BY <1>r, <1>s, <1>6, <2>w DEF Write
  <2>2. Ended(w.p) /\ w.p.mDataSize = s /\ \A i \in Offsets(s) : w.p.mData[i] = r.p.mData[i]
    BY <1>0, <1>1, <1>3, <1>4, <1>s, <2>w, SizeKeeps
  <2>3. Fit(w.p) /\ w.p.mDataPos = s
    BY <2>2 DEF Ended
  <2>4. s <= w.p.mDataSize /\ \A i \in Offsets(s) : w.p.mData[i] = out.mData[i]
    BY <1>4, <2>2
  <2>5. Laid(w.p, packed, 0, s)
    BY <1>1, <1>s, <2>3, <2>4, LaidKeeps
  <2> QED
    BY <2>1, <2>2, <2>3, <2>5 DEF OutInv
<1> QED
  BY <1>5, <1>6

LEMMA OutFillIn ==
    ASSUME ParcelInv, OutInv, NEW item \in Items, NEW heap \in Heaps, FillIn(item, heap), ParcelInv'
    PROVE  OutInv'
<1>0. heap \in Nat
  BY ParcelAssumption
<1>1. /\ Ended(out) /\ Fit(out) /\ out.mDataSize \in Nat /\ out.mDataSize % 4 = 0
      /\ packed \in Seq(Items) /\ Laid(out, packed, 0, out.mDataSize)
  BY OutEnded
<1>s. PICK s \in Nat : s = out.mDataSize
  BY <1>1
<1>2. /\ packed # << >> /\ packed[1].kind = "aligned" /\ item.kind = "aligned"
      /\ Len(item.bytes) = Len(packed[1].bytes) /\ packed' = [packed EXCEPT ![1] = item]
  BY DEF FillIn, ParcelInv
<1>3. /\ Stands(out, 0, Encoded(packed[1])) /\ packed[1] \in Items
      /\ Laid(out, Tail(packed), 0 + Len(Encoded(packed[1])), s)
      /\ 0 + Len(Encoded(packed[1])) <= s
  BY <1>1, <1>2, <1>s, LaidFirst
<1>4. Encoded(packed[1]) = packed[1].bytes /\ Encoded(item) = item.bytes
  BY <1>2 DEF Encoded
<1>n. PICK len \in Nat : len = Len(item.bytes)
  BY ItemTyped, LenProperties
<1>5. item.bytes \in Seq(Int) /\ len > 0 /\ len <= s /\ 0 + len = len
  <2>1. item.bytes \in Seq(Int) /\ Len(item.bytes) > 0
    BY <1>2, ItemTyped
  <2>2. 0 + Len(item.bytes) <= s
    BY <1>2, <1>3, <1>4
  <2> QED
    BY <1>n, <2>1, <2>2
<1>6. Laid(out, Tail(packed), len, s)
  BY <1>2, <1>3, <1>4, <1>n, <1>5
<1>w. PICK w : w = writeAligned(setDataPosition(out, 0), item.bytes, heap).p
  OBVIOUS
<1>7. /\ w.mDataSize = s /\ Stands(w, 0, item.bytes)
      /\ \A i \in Offsets(s) : i >= len => w.mData[i] = out.mData[i]
  BY <1>0, <1>1, <1>5, <1>n, <1>s, <1>w, FilledIn
<1>8. out' = setDataPosition(w, s)
  <2>1. dataSize(out) = s
    BY <1>1, <1>s DEF dataSize, Ended
  <2> QED
    BY <1>w, <2>1 DEF FillIn
<1>9. w \in Fields
  <2>1. Fit(setDataPosition(out, 0))
    <3>1. 0 \in Nat /\ 0 % 4 = 0 /\ 0 <= out.mDataSize
      BY <1>1
    <3> QED
      BY <1>1, <3>1, PositionFit
  <2>2. Len(item.bytes) > 0 /\ Len(item.bytes) % 4 = 0
    BY <1>2, ItemTyped
  <2>a. PICK a : a = writeAligned(setDataPosition(out, 0), item.bytes, heap)
    OBVIOUS
  <2>3. Written(setDataPosition(out, 0), a)
    BY <1>0, <1>5, <2>1, <2>2, <2>a, AlignedFit
  <2> QED
    BY <1>w, <2>3, <2>a DEF Written, Fit
<1>10. out'.mData = w.mData /\ out'.mDataSize = s /\ out'.mDataPos = s
  BY <1>7, <1>8, <1>9 DEF setDataPosition, Fields
<1>q. PICK q : q = out'
  OBVIOUS
<1>11. Stands(q, 0, Encoded(item))
  BY <1>4, <1>7, <1>10, <1>q DEF Stands
<1>12. Laid(q, << item >>, 0, len)
  <2>1. 0 \in Nat /\ len = 0 + Len(Encoded(item))
    BY <1>4, <1>5, <1>n
  <2> QED
    BY <1>11, <2>1, LaidOne
<1>13. Laid(q, Tail(packed), len, s)
  <2>m. PICK m \in Nat : m = s - len
    BY <1>5
  <2>1. s = len + m /\ len + m <= q.mDataSize /\ q.mDataSize \in Nat
    BY <1>5, <1>10, <1>q, <2>m
  <2>2. \A i \in Offsets(m) : q.mData[len + i] = out.mData[len + i]
    <3>1. ASSUME NEW i \in Offsets(m) PROVE q.mData[len + i] = out.mData[len + i]
      <4>1. len + i \in Offsets(s) /\ len + i >= len
        BY <2>1 DEF Offsets
      <4> QED
        BY <1>7, <1>10, <1>q, <4>1
    <3> QED
      BY <3>1
  <2>3. Tail(packed) \in Seq(Items)
    BY <1>1, <1>2
  <2>4. Laid(q, Tail(packed), len, len + m)
    BY <1>6, <2>1, <2>2, <2>3, LaidMoved
  <2> QED
    BY <2>1, <2>4
<1>14. Laid(q, << item >> \o Tail(packed), 0, s)
  <2>1. << item >> \in Seq(Items) /\ Tail(packed) \in Seq(Items) /\ 0 \in Nat
    BY <1>1, <1>2
  <2> QED
    BY <1>12, <1>13, <2>1, LaidJoin
<1>15. << item >> \o Tail(packed) = packed'
  <2>a. PICK a : a = << item >> \o Tail(packed)
    OBVIOUS
  <2>b. PICK b : b = [packed EXCEPT ![1] = item]
    OBVIOUS
  <2>n. PICK n \in Nat : n = Len(packed) /\ n > 0
    <3>1. Len(packed) \in Nat /\ Len(packed) > 0
      BY <1>1, <1>2
    <3> QED
      BY <3>1
  <2>t. PICK t : t = Tail(packed)
    OBVIOUS
  <2>1. t \in Seq(Items) /\ Len(t) = n - 1 /\ \A i \in 1 .. n - 1 : t[i] = packed[i + 1]
    BY <1>1, <1>2, <2>n, <2>t
  <2>2. a \in Seq(Items) /\ Len(a) = n /\ a[1] = item /\ \A i \in 1 .. n - 1 : a[i + 1] = t[i]
    <3>o. PICK o : o = << item >>
      OBVIOUS
    <3>1. o \in Seq(Items) /\ Len(o) = 1 /\ o[1] = item
      BY <3>o
    <3>2. /\ o \o t \in Seq(Items) /\ Len(o \o t) = 1 + (n - 1)
          /\ \A i \in 1 .. 1 + (n - 1) : (o \o t)[i] = IF i <= 1 THEN o[i] ELSE t[i - 1]
      <4>1. /\ o \o t \in Seq(Items) /\ Len(o \o t) = Len(o) + Len(t)
            /\ \A i \in 1 .. Len(o) + Len(t) : (o \o t)[i] = IF i <= Len(o) THEN o[i] ELSE t[i - Len(o)]
        <5>1. o \in Seq(Items) /\ t \in Seq(Items)
          BY <2>1, <3>1
        <5>2. o \o t \in Seq(Items) /\ Len(o \o t) = Len(o) + Len(t)
          BY ONLY <5>1, ConcatProperties
        <5>3. \A i \in 1 .. Len(o) + Len(t) : (o \o t)[i] = IF i <= Len(o) THEN o[i] ELSE t[i - Len(o)]
          BY ONLY <5>1, ConcatProperties
        <5> QED
          BY ONLY <5>2, <5>3
      <4>2. Len(o) = 1 /\ Len(t) = n - 1
        BY ONLY <2>1, <3>1
      <4> QED
        BY ONLY <4>1, <4>2, Zenon
    <3>3. 1 + (n - 1) = n /\ 1 \in 1 .. n /\ \A i \in 1 .. n - 1 : i + 1 \in 1 .. n /\ ~(i + 1 <= 1) /\ (i + 1) - 1 = i
      BY <2>n
    <3> QED
      BY <2>a, <2>t, <3>o, <3>1, <3>2, <3>3
  <2>3. /\ b \in Seq(Items) /\ Len(b) = n /\ b[1] = item
        /\ \A i \in 1 .. n : i # 1 => b[i] = packed[i]
    BY <1>1, <2>b, <2>n
  <2>4. ASSUME NEW i \in 1 .. n PROVE a[i] = b[i]
    <3>1. CASE i = 1
      BY <2>2, <2>3, <3>1
    <3>2. CASE i # 1
      <4>1. i - 1 \in 1 .. n - 1 /\ (i - 1) + 1 = i
        BY <3>2
      <4> QED
        BY <2>1, <2>2, <2>3, <3>2, <4>1
    <3> QED
      BY <3>1, <3>2
  <2>5. a = b
    BY <2>2, <2>3, <2>4, SeqEqual
  <2> QED
    BY <1>2, <2>a, <2>b, <2>5
<1> QED
  BY <1>10, <1>14, <1>15, <1>q DEF OutInv

LEMMA OutReserve ==
    ASSUME ParcelInv, OutInv, NEW size \in Sizes, NEW heap \in Heaps, Reserve(size, heap)
    PROVE  OutInv'
<1>0. heap \in Nat /\ size \in Nat
  BY ParcelAssumption
<1>1. /\ Ended(out) /\ Fit(out) /\ out.mDataSize \in Nat /\ out.mDataCapacity \in Nat
      /\ packed \in Seq(Items) /\ Laid(out, packed, 0, out.mDataSize) /\ out.mDataSize <= out.mDataCapacity
  BY OutEnded DEF Fit, Fields
<1>2. packed = << >> /\ packed' = << >>
  BY DEF Reserve
<1>3. out.mDataSize = 0 /\ out.mDataPos = 0
  <2>1. 0 \in Nat
    OBVIOUS
  <2>2. out.mDataSize = 0
    BY ONLY <1>1, <1>2, <2>1, LaidEnd
  <2> QED
    BY <1>1, <2>2 DEF Ended
<1>w. PICK w : w = setDataCapacity(out, size, heap)
  OBVIOUS
<1>4. w.p.mDataSize = 0 /\ w.p.mDataPos = 0
  <2>1. CASE size > out.mDataCapacity
    <3>1. w = continueWrite(out, size, heap)
      BY <1>w, <2>1 DEF setDataCapacity
    <3>2. size >= out.mDataSize
      BY <1>0, <1>1, <2>1
    <3>p. PICK p : p = out
      OBVIOUS
    <3>3. /\ Fit(p) /\ size \in Nat /\ heap \in Nat /\ (size % 4 = 0 \/ size >= p.mDataSize)
          /\ size >= p.mDataSize /\ w = continueWrite(p, size, heap)
      BY <1>0, <1>1, <3>1, <3>2, <3>p
    <3>4. Fit(w.p) /\ w.p.mDataPos = p.mDataPos /\ w.p.mDataSize = p.mDataSize
      BY ONLY <3>3, ContinueFit
    <3> QED
      BY <1>3, <3>3, <3>4, <3>p
  <2>2. CASE ~(size > out.mDataCapacity)
    BY <1>3, <1>w, <2>2 DEF setDataCapacity, Done
  <2> QED
    BY <2>1, <2>2
<1>5. out' = w.p
  BY <1>w DEF Reserve
<1>6. Laid(w.p, << >>, 0, 0)
  <2>1. 0 \in Nat
    OBVIOUS
  <2> QED
    BY ONLY <2>1, LaidNone
<1> QED
  BY <1>2, <1>4, <1>5, <1>6 DEF OutInv

\* What bytes that were copied say of where they are now.
LEMMA LaidCopied ==
    ASSUME NEW p, Fit(p), NEW q, q.mDataSize \in Nat, NEW items \in Seq(Items),
           NEW first \in Nat, NEW len \in Nat, NEW to \in Nat,
           first + len <= p.mDataSize, Laid(p, items, first, first + len),
           Stands(q, to, Bytes(p, first, len))
    PROVE  Laid(q, items, to, to + len)
<1>b. PICK bytes : bytes = Bytes(p, first, len)
  OBVIOUS
<1>1. bytes \in Seq(Int) /\ Len(bytes) = len
  BY <1>b, BytesSeq
<1>2. \A k \in 1 .. len : bytes[k] = p.mData[first + k - 1]
  BY <1>b DEF Bytes
<1>3. to + len <= q.mDataSize /\ \A k \in 1 .. len : q.mData[to + k - 1] = bytes[k]
  BY <1>b, <1>1 DEF Stands
<1>4. ASSUME NEW i \in Offsets(len) PROVE q.mData[to + i] = p.mData[first + i]
  <2>k. PICK k : k = i + 1
    OBVIOUS
  <2>1. k \in 1 .. len /\ to + k - 1 = to + i /\ first + k - 1 = first + i
    <3>1. len \in Nat /\ to \in Nat /\ first \in Nat /\ i \in Offsets(len)
      OBVIOUS
    <3> QED
      BY ONLY <2>k, <3>1 DEF Offsets
  <2>2. q.mData[to + k - 1] = p.mData[first + k - 1]
    BY <1>2, <1>3, <2>1
  <2> QED
    BY <2>1, <2>2
<1>l. PICK last \in Nat : last = first + len
  OBVIOUS
<1>5. Laid(p, items, first, last)
  BY <1>l
<1>6. /\ last = first + len /\ to + len <= q.mDataSize /\ q.mDataSize \in Nat
      /\ items \in Seq(Items) /\ first \in Nat /\ last \in Nat /\ to \in Nat /\ len \in Nat
  BY <1>l, <1>3
<1> QED
  BY ONLY <1>4, <1>5, <1>6, LaidMoved

LEMMA RestSeq ==
    ASSUME ParcelInv, InInv
    PROVE  /\ Rest \in Seq(Items) /\ Len(got) \in Nat /\ Len(sent) \in Nat
           /\ Len(Rest) = Len(sent) - Len(got)
           /\ \A i \in 1 .. Len(sent) - Len(got) : Rest[i] = sent[Len(got) + i]
<1>1. sent \in Seq(Items) /\ Len(got) \in Nat /\ Len(sent) \in Nat /\ Len(got) <= Len(sent)
  BY LenProperties DEF ParcelInv, InInv
<1>g. PICK g \in Nat : g = Len(got)
  BY <1>1
<1>n. PICK n \in Nat : n = Len(sent)
  BY <1>1
<1>r. PICK r : r = SubSeq(sent, g + 1, n)
  OBVIOUS
<1>2. r \in Seq(Items) /\ Len(r) = n - g /\ \A i \in 1 .. n - g : r[i] = sent[g + i]
  <2>1. sent \in Seq(Items) /\ g <= n /\ n = Len(sent)
    BY <1>1, <1>g, <1>n
  <2>2. /\ Len(r) = IF g + 1 <= n THEN n - (g + 1) + 1 ELSE 0
        /\ \A i \in 1 .. n - (g + 1) + 1 : r[i] = sent[(g + 1) + i - 1]
    BY <1>r, <2>1
  <2>3. r \in Seq(Items)
    BY <1>r, <2>1
  <2>4. n - (g + 1) + 1 = n - g /\ \A i \in 1 .. n - g : (g + 1) + i - 1 = g + i
    OBVIOUS
  <2> QED
    BY <2>1, <2>2, <2>3, <2>4
<1> QED
  BY <1>1, <1>g, <1>n, <1>r, <1>2 DEF Rest

LEMMA OutForward ==
    ASSUME ParcelInv, OutInv, InInv, NEW heap \in Heaps, Forward(heap)
    PROVE  OutInv'
<1>0. heap \in Nat
  BY ParcelAssumption
<1>1. /\ Ended(out) /\ Fit(out) /\ out.mDataSize \in Nat
      /\ packed \in Seq(Items) /\ Laid(out, packed, 0, out.mDataSize)
  BY OutEnded
<1>2. /\ Fit(in) /\ in.mDataSize \in Nat /\ in.mDataPos \in Nat /\ in.mDataPos <= in.mDataSize
  BY DEF ParcelInv, Fit, Fields
<1>s. PICK s \in Nat : s = out.mDataSize
  BY <1>1
<1>f. PICK first \in Nat, len \in Nat : first = in.mDataPos /\ len = in.mDataSize - in.mDataPos
  BY <1>2
<1>3. dataAvail(in) = len /\ first + len = in.mDataSize
  BY <1>2, <1>f DEF dataAvail, dataSize
<1>4. in.mDataPos < in.mDataSize
  BY <1>2, <1>3, <1>f DEF Forward
<1>r. PICK r : r = appendFrom(out, in, first, len, heap)
  OBVIOUS
<1>5. Puts(out, r, Bytes(in, first, len))
  BY <1>0, <1>1, <1>2, <1>4, <1>f, <1>r, AppendPuts
<1>6. out' = r.p
  BY <1>3, <1>f, <1>r DEF Forward
<1>7. Ended(r.p) /\ Fit(r.p) /\ Keeps(out, r.p) /\ r.p.mDataSize \in Nat
  BY <1>5 DEF Puts, Ended, Fit, Fields
<1>8. s <= r.p.mDataSize /\ \A i \in Offsets(s) : r.p.mData[i] = out.mData[i]
  BY <1>7, <1>s DEF Keeps
<1>9. Laid(r.p, packed, 0, s)
  BY <1>1, <1>7, <1>8, <1>s, LaidKeeps
<1>10. CASE r.status = "NO_ERROR"
  <2>1. packed' = packed \o Rest
    BY <1>3, <1>f, <1>r, <1>10 DEF Forward, Rest
  <2>2. Rest \in Seq(Items)
    BY RestSeq
  <2>3. Laid(in, Rest, first, first + len)
    <3>1. ~lost
      BY DEF Forward
    <3> QED
      BY <1>3, <1>f, <3>1 DEF InInv
  <2>4. Len(Bytes(in, first, len)) = len
    <3>1. first + len <= in.mDataSize
      BY <1>2, <1>3
    <3> QED
      BY <1>2, <3>1, BytesSeq
  <2>5. r.p.mDataSize = s + len /\ Stands(r.p, s, Bytes(in, first, len))
    BY <1>5, <1>10, <1>s, <2>4 DEF Puts
  <2>6. first + len <= in.mDataSize
    BY <1>2, <1>3
  <2>7. Laid(r.p, Rest, s, s + len)
    BY <1>2, <1>7, <2>2, <2>3, <2>5, <2>6, LaidCopied
  <2>8. 0 \in Nat /\ s + len \in Nat
    OBVIOUS
  <2>9. Laid(r.p, packed \o Rest, 0, s + len)
    BY <1>1, <1>9, <2>2, <2>7, <2>8, LaidJoin
  <2> QED
    BY <1>6, <1>7, <2>1, <2>5, <2>9 DEF OutInv, Ended
<1>11. CASE r.status # "NO_ERROR"
  <2>1. packed' = packed
    BY <1>3, <1>f, <1>r, <1>11 DEF Forward
  <2>2. r.p = out
    <3>1. r = IF out.mDataSize + len > out.mDataCapacity THEN growData(out, len, heap) ELSE Done(out, "NO_ERROR")
      <4>1. len > 0 /\ ~(first + len > in.mDataSize)
        BY <1>2, <1>3, <1>4, <1>f
      <4>g. PICK g : g = IF out.mDataSize + len > out.mDataCapacity THEN growData(out, len, heap)
                         ELSE Done(out, "NO_ERROR")
        OBVIOUS
      <4>2. g.status # "NO_ERROR" \/ r.status = "NO_ERROR"
        BY <1>r, <4>1, <4>g DEF appendFrom, Done
      <4> QED
        BY <1>r, <1>11, <4>1, <4>g, <4>2 DEF appendFrom
    <3>2. r \in {Done(out, "NO_MEMORY"), Done(out, "NO_ERROR")}
              \/ \E newSize : r = continueWrite(out, newSize, heap)
      BY <3>1 DEF growData
    <3> QED
      BY <1>11, <3>2 DEF continueWrite, Done
  <2> QED
    BY <1>6, <2>1, <2>2 DEF OutInv
<1> QED
  BY <1>10, <1>11

LEMMA BothSend ==
    ASSUME ParcelInv, OutInv, InInv, NEW heap \in Heaps, Send(heap)
    PROVE  OutInv' /\ InInv'
<1>0. heap \in Nat
  BY ParcelAssumption
<1>1. /\ Ended(out) /\ Fit(out) /\ out.mDataSize \in Nat /\ out.mDataSize <= out.mDataCapacity
      /\ packed \in Seq(Items) /\ Laid(out, packed, 0, out.mDataSize) /\ packed # << >> /\ out.mDataSize > 0
  BY OutEnded DEF Send, Fit, ParcelInv
<1>s. PICK s \in Nat : s = out.mDataSize /\ s > 0
  BY <1>1
<1>2. dataSize(out) = s
  BY <1>1, <1>s DEF dataSize, Ended
<1>b. PICK bytes : bytes = Bytes(out, 0, s)
  OBVIOUS
<1>3. bytes \in Seq(Int) /\ Len(bytes) = s
  <2>1. 0 \in Nat /\ 0 + s <= out.mDataSize
    BY <1>1, <1>s
  <2> QED
    BY ONLY <1>1, <1>s, <1>b, <2>1, BytesSeq
<1>r. PICK r : r = setData(in, bytes, heap)
  OBVIOUS
<1>w. PICK w : w = setDataSize(out, 0, heap)
  OBVIOUS
<1>4. out' = w.p /\ packed' = << >> /\ in' = r.p
  BY <1>2, <1>b, <1>r, <1>w DEF Send
<1>5. OutInv'
  <2>1. 0 \in Nat /\ 0 % 4 = 0 /\ 0 <= out.mDataSize
    BY <1>1
  <2>2. Ended(w.p) /\ w.p.mDataSize = 0
    BY ONLY <1>0, <1>1, <1>w, <2>1, SizeKeeps
  <2>3. Laid(w.p, << >>, 0, 0)
    BY ONLY <2>1, LaidNone
  <2> QED
    BY <1>4, <2>2, <2>3 DEF OutInv, Ended
<1>6. IF r.status = "NO_ERROR"
      THEN r.p.mDataPos = 0 /\ r.p.mDataSize = Len(bytes) /\ Stands(r.p, 0, bytes)
      ELSE r.p = in
  <2>1. Fit(in) /\ Len(bytes) > 0
    BY <1>3, <1>s DEF ParcelInv
  <2> QED
    BY <1>0, <1>3, <1>r, <2>1, DataStands
<1>7. CASE r.status = "NO_ERROR"
  <2>1. sent' = packed /\ got' = << >>
    BY <1>2, <1>b, <1>r, <1>7 DEF Send
  <2>2. r.p.mDataPos = 0 /\ r.p.mDataSize = s /\ Stands(r.p, 0, Bytes(out, 0, s))
    BY <1>3, <1>6, <1>7, <1>b
  <2>3. Laid(r.p, packed, 0, s)
    <3>1. 0 \in Nat /\ 0 + s = s /\ s <= out.mDataSize
      BY <1>1, <1>s
    <3>2. Laid(out, packed, 0, 0 + s) /\ 0 + s <= out.mDataSize /\ r.p.mDataSize \in Nat
      BY <1>1, <1>s, <2>2, <3>1
    <3>3. Laid(r.p, packed, 0, 0 + s)
      BY ONLY <1>1, <1>s, <2>2, <3>1, <3>2, LaidCopied
    <3> QED
      BY <3>1, <3>3
  <2>4. Rest' = packed
    <3>1. Rest' = SubSeq(packed, Len(<< >>) + 1, Len(packed))
      BY <2>1 DEF Rest
    <3>2. Len(<< >>) + 1 = 1
      OBVIOUS
    <3>3. SubSeq(packed, 1, Len(packed)) = packed
      BY <1>1
    <3> QED
      BY <3>1, <3>2, <3>3
  <2>5. Len(got') = 0 /\ Len(sent') \in Nat
    BY <1>1, <2>1
  <2> QED
    BY <1>4, <1>5, <2>2, <2>3, <2>4, <2>5 DEF InInv
<1>8. CASE r.status # "NO_ERROR"
  <2>1. UNCHANGED <<sent, got, lost>>
    BY <1>2, <1>b, <1>r, <1>8 DEF Send
  <2>2. in' = in
    BY <1>4, <1>6, <1>8
  <2>3. InInv'
    BY <2>1, <2>2 DEF InInv, Rest
  <2> QED
    BY <1>5, <2>3
<1> QED
  BY <1>7, <1>8

LEMMA InRead ==
    ASSUME ParcelInv, InInv, Read
    PROVE  InInv'
<1>1. /\ Rest \in Seq(Items) /\ Len(got) \in Nat /\ Len(sent) \in Nat
      /\ Len(Rest) = Len(sent) - Len(got)
      /\ \A i \in 1 .. Len(sent) - Len(got) : Rest[i] = sent[Len(got) + i]
  BY RestSeq
<1>g. PICK g \in Nat : g = Len(got)
  BY <1>1
<1>n. PICK n \in Nat : n = Len(sent)
  BY <1>1
<1>2. /\ sent \in Seq(Items) /\ g < n /\ ~lost /\ Fit(in)
      /\ in.mDataPos \in Nat /\ in.mDataSize \in Nat
      /\ got \in Seq(Seq(Seq(Int)))
  BY <1>g, <1>n DEF Read, ParcelInv, Fit, Fields
<1>i. PICK item : item = sent[g + 1]
  OBVIOUS
<1>3. Rest # << >> /\ Rest[1] = item
  <2>1. 1 \in 1 .. n - g /\ n - g > 0
    BY <1>2
  <2> QED
    BY <1>1, <1>g, <1>n, <1>i, <2>1
<1>f. PICK first \in Nat, last \in Nat : first = in.mDataPos /\ last = in.mDataSize
  BY <1>2
<1>4. Laid(in, Rest, first, last)
  BY <1>2, <1>f DEF InInv
<1>x. PICK next : next = first + Len(Encoded(item))
  OBVIOUS
<1>5. /\ Stands(in, first, Encoded(item)) /\ item \in Items
      /\ Laid(in, Tail(Rest), next, last) /\ next <= last
  <2>a. PICK a : a = Rest
    OBVIOUS
  <2>1. a \in Seq(Items) /\ a # << >> /\ Laid(in, a, first, last)
    BY <1>1, <1>3, <1>4, <2>a
  <2>2. /\ Stands(in, first, Encoded(a[1])) /\ a[1] \in Items
        /\ Laid(in, Tail(a), first + Len(Encoded(a[1])), last) /\ first + Len(Encoded(a[1])) <= last
    BY ONLY <1>f, <2>1, LaidFirst
  <2> QED
    BY <1>3, <1>x, <2>2, <2>a
<1>6. next \in Nat
  <2>1. Len(Encoded(item)) \in Nat
    BY <1>5, EncodedSeq, LenProperties
  <2> QED
    BY <1>x, <2>1
<1>7. Unmarshal(in, item) = Took(setDataPosition(in, next), << Value(item) >>)
  BY <1>2, <1>5, <1>f, <1>x, UnmarshalStands
<1>8. in' = setDataPosition(in, next) /\ got' = Append(got, << Value(item) >>) /\ sent' = sent /\ lost' = lost
  <2>1. in' = Unmarshal(in, item).p /\ got' = Append(got, Unmarshal(in, item).value) /\ UNCHANGED <<sent, lost>>
    BY <1>g, <1>i DEF Read
  <2> QED
    BY <1>7, <2>1 DEF Took
<1>q. PICK q : q = in'
  OBVIOUS
<1>9. q.mData = in.mData /\ q.mDataSize = last /\ q.mDataPos = next
  BY <1>2, <1>6, <1>8, <1>f, <1>q, Moved
<1>10. Laid(q, Tail(Rest), next, last)
  <2>t. PICK t : t = Tail(Rest)
    OBVIOUS
  <2>1. t \in Seq(Items)
    BY <1>1, <1>3, <2>t
  <2>m. PICK m \in Nat : m = last - next
    BY <1>5, <1>6
  <2>2. last = next + m /\ next + m <= q.mDataSize /\ q.mDataSize \in Nat
    BY <1>6, <1>9, <2>m
  <2>3. \A i \in Offsets(m) : q.mData[next + i] = in.mData[next + i]
    BY <1>9
  <2>4. Laid(in, t, next, last)
    BY <1>5, <2>t
  <2>5. Laid(q, t, next, next + m)
    BY ONLY <1>6, <1>f, <2>1, <2>m, <2>2, <2>3, <2>4, LaidMoved
  <2> QED
    BY <2>2, <2>5, <2>t
<1>h. PICK h : h = got'
  OBVIOUS
<1>11. Len(h) = g + 1 /\ h[g + 1] = << Value(item) >> /\ \A i \in 1 .. g : h[i] = got[i]
  <2>v. PICK v : v = << Value(item) >>
    OBVIOUS
  <2>1. h = Append(got, v)
    BY <1>8, <1>h, <2>v
  <2> QED
    BY <1>2, <1>g, <2>1, <2>v
<1>12. SubSeq(sent, (g + 1) + 1, n) = Tail(Rest)
  <2>a. PICK a : a = SubSeq(sent, (g + 1) + 1, n)
    OBVIOUS
  <2>r. PICK r : r = Rest
    OBVIOUS
  <2>t. PICK t : t = Tail(r)
    OBVIOUS
  <2>0. /\ sent \in Seq(Items) /\ n = Len(sent) /\ g < n /\ r \in Seq(Items) /\ r # << >> /\ Len(r) = n - g
        /\ \A i \in 1 .. n - g : r[i] = sent[g + i]
    BY <1>1, <1>2, <1>3, <1>g, <1>n, <2>r
  <2>1. t \in Seq(Items) /\ Len(t) = (n - g) - 1 /\ \A i \in 1 .. (n - g) - 1 : t[i] = r[i + 1]
    BY ONLY <2>0, <2>t, g \in Nat, n \in Nat
  <2>2. /\ a \in Seq(Items) /\ Len(a) = (n - g) - 1
        /\ \A i \in 1 .. (n - g) - 1 : a[i] = sent[(g + 1) + i]
    <3>1. a \in Seq(Items)
      BY ONLY <2>0, <2>a, g \in Nat, n \in Nat
    <3>2. /\ Len(a) = IF (g + 1) + 1 <= n THEN n - ((g + 1) + 1) + 1 ELSE 0
          /\ \A i \in 1 .. n - ((g + 1) + 1) + 1 : a[i] = sent[((g + 1) + 1) + i - 1]
      BY ONLY <2>0, <2>a, g \in Nat, n \in Nat
    <3>3. /\ n - ((g + 1) + 1) + 1 = (n - g) - 1
          /\ (IF (g + 1) + 1 <= n THEN n - ((g + 1) + 1) + 1 ELSE 0) = (n - g) - 1
          /\ \A i \in 1 .. (n - g) - 1 : ((g + 1) + 1) + i - 1 = (g + 1) + i
      BY ONLY <2>0, g \in Nat, n \in Nat
    <3> QED
      BY ONLY <3>1, <3>2, <3>3
  <2>3. ASSUME NEW i \in 1 .. (n - g) - 1 PROVE a[i] = t[i]
    <3>1. i + 1 \in 1 .. n - g /\ g + (i + 1) = (g + 1) + i
      OBVIOUS
    <3> QED
      BY <2>0, <2>1, <2>2, <3>1
  <2>4. a = t
    BY ONLY <2>1, <2>2, <2>3, SeqEqual
  <2> QED
    BY <2>4, <2>a, <2>r, <2>t
<1>13. Rest' = Tail(Rest)
  BY <1>8, <1>11, <1>12, <1>h, <1>n DEF Rest
<1>14. Len(got') <= Len(sent')
  BY <1>2, <1>8, <1>11, <1>h, <1>n
<1>15. ASSUME NEW i \in 1 .. g + 1 PROVE got'[i] = << Value(sent'[i]) >>
  <2>1. CASE i = g + 1
    BY <1>8, <1>11, <1>h, <1>i, <2>1
  <2>2. CASE i # g + 1
    <3>1. i \in 1 .. g
      BY <2>2
    <3>2. got[i] = << Value(sent[i]) >>
      BY <1>g, <3>1 DEF InInv
    <3> QED
      BY <1>8, <1>11, <1>h, <3>1, <3>2
  <2> QED
    BY <2>1, <2>2
<1> QED
  BY <1>9, <1>10, <1>11, <1>13, <1>14, <1>15, <1>h, <1>q DEF InInv

LEMMA InMisread ==
    ASSUME ParcelInv, NEW item \in Items, Misread(item)
    PROVE  InInv'
<1>1. lost' /\ got' = << >> /\ sent' = << >>
  BY DEF Misread
<1> QED
  BY <1>1 DEF InInv

LEMMA ReadBackInit == Init => OutInv /\ InInv
<1> SUFFICES ASSUME Init PROVE OutInv /\ InInv
  OBVIOUS
<1>1. /\ out = initState /\ in = initState /\ packed = << >> /\ sent = << >> /\ got = << >>
      /\ initState.mDataSize = 0 /\ initState.mDataPos = 0
  BY DEF Init, initState
<1>2. Laid(initState, << >>, 0, 0)
  <2>1. 0 \in Nat
    OBVIOUS
  <2> QED
    BY ONLY <2>1, LaidNone
<1>3. OutInv
  BY <1>1, <1>2 DEF OutInv
<1>4. Rest = << >>
  <2>1. SubSeq(<< >>, 1, 0) = << >>
    OBVIOUS
  <2>2. Len(got) + 1 = 1 /\ Len(sent) = 0
    BY <1>1
  <2> QED
    BY <1>1, <2>1, <2>2 DEF Rest
<1>5. InInv
  BY <1>1, <1>2, <1>4 DEF InInv
<1> QED
  BY <1>3, <1>5

LEMMA ReadBackStep ==
    ParcelInv /\ OutInv /\ InInv /\ [Next]_vars => OutInv' /\ InInv'
<1> SUFFICES ASSUME ParcelInv, OutInv, InInv, [Next]_vars PROVE OutInv' /\ InInv'
  OBVIOUS
<1>0. ParcelInv'
  BY ParcelStep
<1>i. UNCHANGED <<in, sent, got, lost>> => InInv'
  BY DEF InInv, Rest
<1>o. UNCHANGED <<out, packed>> => OutInv'
  BY DEF OutInv
<1>1. ASSUME NEW item \in Items, NEW heap \in Heaps, Write(item, heap) PROVE OutInv' /\ InInv'
  <2>1. UNCHANGED <<in, sent, got, lost>>
    BY <1>1 DEF Write
  <2> QED
    BY <1>1, <1>i, <2>1, OutWrite
<1>2. ASSUME NEW item \in Items, NEW heap \in Heaps, FillIn(item, heap) PROVE OutInv' /\ InInv'
  <2>1. UNCHANGED <<in, sent, got, lost>>
    BY <1>2 DEF FillIn
  <2> QED
    BY <1>0, <1>2, <1>i, <2>1, OutFillIn
<1>3. ASSUME NEW size \in Sizes, NEW heap \in Heaps, Reserve(size, heap) PROVE OutInv' /\ InInv'
  <2>1. UNCHANGED <<in, sent, got, lost>>
    BY <1>3 DEF Reserve
  <2> QED
    BY <1>3, <1>i, <2>1, OutReserve
<1>4. ASSUME NEW heap \in Heaps, Forward(heap) PROVE OutInv' /\ InInv'
  <2>1. UNCHANGED <<in, sent, got, lost>>
    BY <1>4 DEF Forward
  <2> QED
    BY <1>4, <1>i, <2>1, OutForward
<1>5. ASSUME NEW heap \in Heaps, Send(heap) PROVE OutInv' /\ InInv'
  BY <1>5, BothSend
<1>6. CASE Read
  <2>1. UNCHANGED <<out, packed>>
    BY <1>6 DEF Read
  <2> QED
    BY <1>6, <1>o, <2>1, InRead
<1>7. ASSUME NEW item \in Items, Misread(item) PROVE OutInv' /\ InInv'
  <2>1. UNCHANGED <<out, packed>>
    BY <1>7 DEF Misread
  <2> QED
    BY <1>7, <1>o, <2>1, InMisread
<1>8. CASE UNCHANGED vars
  <2>1. UNCHANGED <<in, sent, got, lost>> /\ UNCHANGED <<out, packed>>
    BY <1>8 DEF vars
  <2> QED
    BY <1>i, <1>o, <2>1
<1> QED
  BY <1>1, <1>2, <1>3, <1>4, <1>5, <1>6, <1>7, <1>8 DEF Next

\* What is read from a parcel of Parcel2.cpp is what was written to the other, in that
\* order, and nothing is left over: for all items, heaps and sizes, with pads, requests
\* that a short heap refuses in the middle of a string, a first item that is filled in
\* at last, and items that are forwarded.
THEOREM ParcelReadsBack == Spec => []ReadsBack
<1>1. ASSUME ParcelInv, InInv PROVE ReadsBack
  <2>1. /\ Rest \in Seq(Items) /\ Len(got) \in Nat /\ Len(sent) \in Nat
        /\ Len(Rest) = Len(sent) - Len(got)
    BY <1>1, RestSeq
  <2>2. /\ in.mDataSize \in Nat /\ in.mDataPos \in Nat /\ in.mDataPos <= in.mDataSize
    BY <1>1 DEF ParcelInv, Fit, Fields
  <2>3. dataAvail(in) = in.mDataSize - in.mDataPos
    BY <2>2 DEF dataAvail, dataSize
  <2>4. ASSUME ~lost PROVE Len(got) = Len(sent) <=> dataAvail(in) = 0
    <3>1. Laid(in, Rest, in.mDataPos, in.mDataSize)
      BY <1>1, <2>4 DEF InInv
    <3>2. Rest = << >> <=> in.mDataPos = in.mDataSize
      BY ONLY <2>1, <2>2, <3>1, LaidEnd
    <3>3. Rest = << >> <=> Len(Rest) = 0
      BY <2>1
    <3>4. Len(Rest) = 0 <=> Len(got) = Len(sent)
      BY ONLY <2>1
    <3>5. dataAvail(in) = 0 <=> in.mDataPos = in.mDataSize
      BY ONLY <2>2, <2>3
    <3> QED
      BY <3>2, <3>3, <3>4, <3>5
  <2> QED
    BY <1>1, <2>4 DEF ReadsBack, InInv
<1>2. ParcelInv /\ InInv => ReadsBack
  BY <1>1
<1> QED
  BY <1>2, ParcelInit, ParcelStep, ReadBackInit, ReadBackStep, PTL DEF Spec
-----------------------------------------------------------------------------
(* The thermal configuration.                                              *)

\* Line j names the sensor, and no header stands between it and line n.
Names(c, j, n) ==
    /\ ~Rewrite!Copied(c[j]) /\ Rewrite!HasWord(c[j], 2, "cpuss-0")
    /\ \A k \in j + 1 .. n : Rewrite!Copied(c[k]) \/ ~Rewrite!Header(c[k])

Reaches(c, m, n) == \E j \in 1 .. m : Names(c, j, n)

\* What a line becomes.
Becomes(line, named) ==
    IF named /\ ~line.comment /\ Rewrite!HasWord(line, 1, "thresholds") /\ Len(line.words) > 1
    THEN << "thresholds" >> \o Thresholds ELSE line.words

ConfTypes(W) ==
    /\ ConfLines \subseteq [comment : BOOLEAN, words : Seq(W)]
    /\ Thresholds \in Seq(W)

RewriteInv ==
    /\ conf \in Seq(ConfLines) /\ on \in BOOLEAN
    /\ \E S : backup \in Seq(S)
    /\ Len(backup) = Len(conf)
    /\ on <=> Reaches(conf, Len(conf), Len(conf))
    /\ \A i \in 1 .. Len(conf) : backup[i].words = Becomes(conf[i], Reaches(conf, i - 1, i))

\* Lines that follow change nothing about those before them.
LEMMA ReachesBefore ==
    ASSUME NEW S, NEW c \in Seq(S), NEW line \in S, NEW m \in Nat, NEW n \in Nat, m <= n, n <= Len(c)
    PROVE  Reaches(Append(c, line), m, n) <=> Reaches(c, m, n)
<1>1. \A k \in 1 .. n : Append(c, line)[k] = c[k]
  OBVIOUS
<1>2. \A j \in 1 .. m : j \in 1 .. n /\ \A k \in j + 1 .. n : k \in 1 .. n
  OBVIOUS
<1>3. ASSUME NEW j \in 1 .. m PROVE Names(Append(c, line), j, n) <=> Names(c, j, n)
  BY <1>1, <1>2, Zenon DEF Names
<1> QED
  BY <1>3, Zenon DEF Reaches

\* The next line.
LEMMA ReachesNext ==
    ASSUME NEW S, NEW c \in Seq(S), NEW line \in S, NEW n, n = Len(c), NEW d, d = Append(c, line)
    PROVE  /\ Reaches(d, n, n + 1) <=>
                  Reaches(c, n, n) /\ (Rewrite!Copied(line) \/ ~Rewrite!Header(line))
           /\ Reaches(d, n + 1, n + 1) <=>
                  \/ Reaches(d, n, n + 1)
                  \/ ~Rewrite!Copied(line) /\ Rewrite!HasWord(line, 2, "cpuss-0")
<1>1. n \in Nat /\ Len(d) = n + 1 /\ d[n + 1] = line /\ \A k \in 1 .. n : d[k] = c[k]
  OBVIOUS
<1>2. ASSUME NEW j \in 1 .. n
      PROVE  Names(d, j, n + 1) <=> Names(c, j, n) /\ (Rewrite!Copied(line) \/ ~Rewrite!Header(line))
  <2>1. \A k \in j + 1 .. n + 1 : k = n + 1 \/ k \in j + 1 .. n
    BY <1>1
  <2>2. n + 1 \in j + 1 .. n + 1 /\ \A k \in j + 1 .. n : k \in j + 1 .. n + 1 /\ k \in 1 .. n
    BY <1>1
  <2> QED
    BY <1>1, <2>1, <2>2, Zenon DEF Names
<1>3. Names(d, n + 1, n + 1) <=> ~Rewrite!Copied(line) /\ Rewrite!HasWord(line, 2, "cpuss-0")
  <2>1. \A k \in (n + 1) + 1 .. n + 1 : FALSE
    BY <1>1
  <2> QED
    BY <1>1, <2>1, Zenon DEF Names
<1>4. \A j \in 1 .. n + 1 : j = n + 1 \/ j \in 1 .. n
  BY <1>1
<1>5. n + 1 \in 1 .. n + 1 /\ \A j \in 1 .. n : j \in 1 .. n + 1
  BY <1>1
<1>6. Reaches(d, n, n + 1) <=>
          Reaches(c, n, n) /\ (Rewrite!Copied(line) \/ ~Rewrite!Header(line))
  BY <1>2, Zenon DEF Reaches
<1>7. Reaches(d, n + 1, n + 1) <=>
          Reaches(d, n, n + 1) \/ Names(d, n + 1, n + 1)
  BY <1>4, <1>5, Zenon DEF Reaches
<1> QED
  BY <1>3, <1>6, <1>7

LEMMA RewriteStep ==
    ASSUME NEW W, ConfTypes(W), RewriteInv, NEW line \in ConfLines, Rewrite!Load(line)
    PROVE  RewriteInv'
<1> DEFINE n == Len(conf)
           Is(new, f) == backup' = Append(backup, new) /\ on' = f
<1>1. conf \in Seq(ConfLines) /\ n \in Nat /\ conf' = Append(conf, line) /\ Len(conf') = n + 1
  BY DEF RewriteInv, Rewrite!Load
<1>2. line.words \in Seq(W) /\ line.comment \in BOOLEAN /\ Thresholds \in Seq(W)
      /\ line = [comment |-> line.comment, words |-> line.words]
  BY DEF ConfTypes
<1>3. PICK S : backup \in Seq(S)
  BY DEF RewriteInv
<1> DEFINE named == Reaches(conf', n, n + 1)
<1>4. /\ named <=> on /\ (Rewrite!Copied(line) \/ ~Rewrite!Header(line))
      /\ Reaches(conf', n + 1, n + 1) <=>
            named \/ (~Rewrite!Copied(line) /\ Rewrite!HasWord(line, 2, "cpuss-0"))
  <2>1. Reaches(conf', n, n + 1) <=>
            Reaches(conf, n, n) /\ (Rewrite!Copied(line) \/ ~Rewrite!Header(line))
    BY <1>1, ReachesNext
  <2>2. Reaches(conf', n + 1, n + 1) <=>
            \/ Reaches(conf', n, n + 1)
            \/ ~Rewrite!Copied(line) /\ Rewrite!HasWord(line, 2, "cpuss-0")
    BY <1>1, ReachesNext
  <2> QED
    BY <2>1, <2>2 DEF RewriteInv
<1>5. \E new : /\ backup' = Append(backup, new)
               /\ new.words = Becomes(line, named)
               /\ on' = Reaches(conf', n + 1, n + 1)
  <2>1. CASE Rewrite!Copied(line)
    <3>1. ~(~line.comment /\ Rewrite!HasWord(line, 1, "thresholds"))
      BY <1>2, <2>1 DEF Rewrite!Copied, Rewrite!HasWord
    <3>2. backup' = Append(backup, line) /\ on' = on
      BY <2>1 DEF Rewrite!Load
    <3>3. on' = Reaches(conf', n + 1, n + 1)
      BY <1>4, <2>1, <3>2 DEF RewriteInv, Reaches
    <3> QED
      BY <3>1, <3>2, <3>3, Zenon DEF Becomes
  <2>2. CASE ~Rewrite!Copied(line) /\ on /\ ~Rewrite!Header(line)
    <3>1. backup' = Append(backup, Rewrite!Replaced(line)) /\ on' = TRUE
      BY <2>2 DEF Rewrite!Load
    <3>2. named
      BY <1>4, <2>2
    <3>3. on' = Reaches(conf', n + 1, n + 1)
      BY <1>4, <3>1, <3>2 DEF Reaches
    <3>4. Rewrite!Replaced(line).words = Becomes(line, named)
      <4>1. ~line.comment
        BY <1>2, <2>2 DEF Rewrite!Copied
      <4>2. CASE Len(line.words) > 1 /\ Rewrite!HasWord(line, 1, "thresholds")
        <5>1. line.words[1] = "thresholds"
          BY <4>2 DEF Rewrite!HasWord
        <5>2. Rewrite!Replaced(line).words = << line.words[1] >> \o Thresholds
          BY <1>2, <4>2 DEF Rewrite!Replaced
        <5> QED
          BY <3>2, <4>1, <4>2, <5>1, <5>2 DEF Becomes
      <4>3. CASE ~(Len(line.words) > 1 /\ Rewrite!HasWord(line, 1, "thresholds"))
        BY <4>3 DEF Rewrite!Replaced, Becomes
      <4> QED
        BY <4>2, <4>3
    <3> QED
      BY <3>1, <3>3, <3>4
  <2>3. CASE ~Rewrite!Copied(line) /\ ~(on /\ ~Rewrite!Header(line))
    <3>1. backup' = Append(backup, line) /\ on' = Rewrite!HasWord(line, 2, "cpuss-0")
      BY <2>3 DEF Rewrite!Load
    <3>2. ~named
      BY <1>4, <2>3
    <3>3. on' = Reaches(conf', n + 1, n + 1)
      BY <1>4, <2>3, <3>1, <3>2 DEF Reaches, Rewrite!HasWord
    <3> QED
      BY <3>1, <3>2, <3>3 DEF Becomes
  <2> QED
    BY <2>1, <2>2, <2>3
<1>6. PICK new : /\ backup' = Append(backup, new)
                 /\ new.words = Becomes(line, named)
                 /\ on' = Reaches(conf', n + 1, n + 1)
  BY <1>5
<1>7. /\ backup' \in Seq(S \cup {new}) /\ Len(backup') = n + 1 /\ backup'[n + 1] = new
      /\ \A i \in 1 .. n : backup'[i] = backup[i]
  <2>1. backup \in Seq(S \cup {new}) /\ Len(backup) = n
    BY <1>3 DEF RewriteInv
  <2> QED
    BY <1>6, <2>1
<1>8. \A i \in 1 .. n + 1 : backup'[i].words = Becomes(conf'[i], Reaches(conf', i - 1, i))
  <2>1. SUFFICES ASSUME NEW i \in 1 .. n + 1
                 PROVE  backup'[i].words = Becomes(conf'[i], Reaches(conf', i - 1, i))
    OBVIOUS
  <2>2. CASE i = n + 1
    <3>1. conf'[i] = line /\ i - 1 = n
      BY <1>1, <2>2
    <3> QED
      BY <1>6, <1>7, <2>2, <3>1
  <2>3. CASE i \in 1 .. n
    <3>1. i - 1 \in Nat /\ i \in Nat /\ i - 1 <= i /\ i <= Len(conf) /\ conf'[i] = conf[i]
      BY <1>1, <2>3
    <3>2. Reaches(conf', i - 1, i) <=> Reaches(conf, i - 1, i)
      BY <1>1, <3>1, ReachesBefore
    <3>3. backup[i].words = Becomes(conf[i], Reaches(conf, i - 1, i))
      BY <2>3 DEF RewriteInv
    <3> QED
      BY <1>7, <2>3, <3>1, <3>2, <3>3, Zenon DEF Becomes
  <2> QED
    BY <1>1, <2>2, <2>3
<1>9. on' \in BOOLEAN /\ conf' \in Seq(ConfLines)
  BY <1>1, <1>6 DEF Reaches
<1> QED
  BY <1>1, <1>6, <1>7, <1>8, <1>9 DEF RewriteInv

\* The copy differs from the file in the thresholds of the sensor, and in nothing else.
LEMMA Thresholding ==
    ASSUME NEW W, ConfTypes(W) PROVE Rewrite!Spec => []Rewrite!OnlyItsThresholds
<1>1. Rewrite!Init => RewriteInv
  <2> SUFFICES ASSUME Rewrite!Init PROVE RewriteInv
    OBVIOUS
  <2>1. conf \in Seq(ConfLines) /\ Len(conf) = 0 /\ backup \in Seq({}) /\ Len(backup) = 0 /\ on = FALSE
    BY DEF Rewrite!Init
  <2>2. ~Reaches(conf, Len(conf), Len(conf))
    BY <2>1 DEF Reaches
  <2>3. \E S : backup \in Seq(S)
    BY <2>1, Zenon
  <2>4. \A i \in 1 .. Len(conf) : FALSE
    BY <2>1
  <2> QED
    BY <2>1, <2>2, <2>3, <2>4, Zenon DEF RewriteInv
<1>2. RewriteInv /\ [Rewrite!Next]_(Rewrite!fvars) => RewriteInv'
  <2>1. RewriteInv /\ Rewrite!Next => RewriteInv'
    BY RewriteStep DEF Rewrite!Next
  <2>2. RewriteInv /\ UNCHANGED Rewrite!fvars => RewriteInv'
    BY DEF RewriteInv, Rewrite!fvars
  <2> QED
    BY <2>1, <2>2
<1>3. RewriteInv => Rewrite!OnlyItsThresholds
  <2> SUFFICES ASSUME RewriteInv, NEW i \in 1 .. Len(conf)
               PROVE  backup[i].words = Becomes(conf[i], Reaches(conf, i - 1, i))
    BY DEF Rewrite!OnlyItsThresholds, Becomes, Reaches, Names, RewriteInv
  <2> QED
    BY DEF RewriteInv
<1> QED
  BY <1>1, <1>2, <1>3, PTL DEF Rewrite!Spec

-----------------------------------------------------------------------------
(* The client of the time server.                                          *)

TimeNumbers ==
    /\ Word \in Nat \ {0} /\ Second \in Nat \ {0} /\ Zone \in Int /\ Times \subseteq Nat

Conversions == {"TIME_MSEC", "TIME_SECS", "TIME_JULIAN"}

TimeInv ==
    /\ stage \in {"idle", "connect", "send", "recv", "reply"}
    /\ ts_val \in Nat /\ server \in Nat
    /\ stage # "idle" => args.unit \in Conversions
    /\ stage \in {"connect", "send"} => answer = Time!NoAnswer
    /\ stage = "recv" =>
         /\ args.operation \in {"T_SET", "T_GET", "T_WNC_GET"} /\ to_send = Time!Request
         /\ answer # Time!NoAnswer =>
              /\ answer.value \in Nat /\ answer.fields \in 0 .. 5
              /\ args.operation = "T_SET" /\ answer.result = 0 => server = to_send.value
    /\ stage = "reply" =>
         /\ answer.result = 0 /\ answer.fields = 5 /\ answer.value \in Nat
         /\ args.operation = "T_SET" => server = Time!InMsec(args.unit, ts_val)
         /\ args.operation # "T_SET" => to_send.value = answer.value

LEMMA Quotients ==
    ASSUME NEW v \in Nat, NEW d \in Nat \ {0}
    PROVE  (v \div d) * d <= v /\ v < ((v \div d) + 1) * d
<1> DEFINE q == v \div d
           m == v % d
<1>1. q \in Int /\ m \in 0 .. d - 1 /\ v = d * q + m
  OBVIOUS
<1> HIDE DEF q, m
<1>2. (q + 1) * d = d * q + d /\ q * d = d * q
  BY <1>1
<1>3. q * d <= v /\ v < (q + 1) * d
  BY <1>1, <1>2
<1> QED
  BY <1>3 DEF q

LEMMA Milliseconds ==
    ASSUME TimeNumbers, NEW unit \in Conversions, NEW value \in Nat
    PROVE  Time!InMsec(unit, value) \in Nat
<1>1. \A a \in Int : a % Word \in Nat
  BY DEF TimeNumbers
<1>2. \A s \in Nat : s * Second \in Nat
  BY DEF TimeNumbers
<1>3. \A s \in Nat : Time!SEC_TO_MSEC(s) \in Nat
  BY <1>1, <1>2 DEF Time!SEC_TO_MSEC
<1>4. (value - Zone) % Word \in Nat
  BY <1>1 DEF TimeNumbers
<1> QED
  BY <1>3, <1>4 DEF Time!InMsec, Conversions

LEMMA Requests ==
    ASSUME TimeNumbers, args.unit \in Conversions, ts_val \in Nat,
           args.operation \in {"T_SET", "T_GET", "T_WNC_GET"}
    PROVE  /\ Time!Request.operation = args.operation /\ Time!Request.result = -1
           /\ Time!Request.value \in Nat
           /\ args.operation = "T_SET" => Time!Request.value = Time!InMsec(args.unit, ts_val)
           /\ DOMAIN Time!Request = {"base", "unit", "operation", "value", "result"}
<1>1. Time!InMsec(args.unit, ts_val) \in Nat
  BY Milliseconds
<1> QED
  BY <1>1 DEF Time!Request, Time!Record

LEMMA TextNumbers ==
    ASSUME TimeNumbers, NEW text \in Time!Texts PROVE Time!string_to_uint64(text) \in Nat
<1>1. text.number \in Nat /\ text.kind \in {"digits", "digits and more", "too many digits", "negative", "no number"}
  BY DEF Time!Texts, TimeNumbers
<1>2. \A a \in Int : a % Word \in Nat
  BY DEF TimeNumbers
<1>3. PICK n \in Nat : text.number = n
  BY <1>1, Zenon
<1>5. Word \in Nat /\ Word # 0
  BY DEF TimeNumbers
<1>6. Word - 1 \in Nat
  BY <1>5
<1>a. n % Word \in Nat
  BY <1>2
<1>4. text.number % Word \in Nat
  BY <1>3, <1>a, Zenon
<1> QED
  BY <1>1, <1>4, <1>6 DEF Time!string_to_uint64

LEMMA Started ==
    ASSUME TimeNumbers, TimeInv, NEW a, NEW value \in Nat, Time!Call(a, value),
           a.unit \in Time!Units
    PROVE  TimeInv'
<1>1. /\ ts_val' = value /\ args' = a /\ server' = server
      /\ stage' \in {"connect", "idle"} /\ (stage' = "connect" => Time!Valid(a)) /\ answer' = Time!NoAnswer
  BY DEF Time!Call
<1>2. stage' = "connect" => a.unit \in Conversions
  BY <1>1 DEF Time!Valid, Time!Units, Conversions
<1> QED
  BY <1>1, <1>2 DEF TimeInv

LEMMA TimeStep == ASSUME TimeNumbers, TimeInv, [Time!Next]_(Time!tvars) PROVE TimeInv'
<1>1. ASSUME NEW base \in {"ATS_TOD", "ATS_MAX"}, NEW unit \in Time!Units, NEW op \in Time!Operations,
             NEW value \in Times, Time!Call([base |-> base, unit |-> unit, operation |-> op], value)
      PROVE  TimeInv'
  <2>1. value \in Nat /\ [base |-> base, unit |-> unit, operation |-> op].unit \in Time!Units
    BY DEF TimeNumbers
  <2> QED
    BY <1>1, <2>1, Started
<1>2. ASSUME NEW option, NEW text \in Time!Texts \cup {Time!NoText}, option = "s" => text \in Time!Texts,
             Time!Main(option, text)
      PROVE  TimeInv'
  <2>1. PICK opt \in Time!Opt(option), junk \in Times :
           LET value == IF option = "s" THEN Time!string_to_uint64(text) ELSE junk IN
           \/ /\ opt \in {1, 3}
              /\ Time!Call([base |-> "ATS_TOD", unit |-> "TIME_MSEC",
                       operation |-> IF opt = 1 THEN "T_GET" ELSE "T_WNC_GET"], value)
           \/ /\ opt = 2
              /\ Time!Call([base |-> "ATS_USER", unit |-> "TIME_MSEC", operation |-> "T_SET"], value)
    BY <1>2 DEF Time!Main
  <2> DEFINE value == IF option = "s" THEN Time!string_to_uint64(text) ELSE junk
  <2>2. value \in Nat
    BY <1>2, TextNumbers DEF TimeNumbers
  <2>3. PICK base, op : Time!Call([base |-> base, unit |-> "TIME_MSEC", operation |-> op], value)
    BY <2>1
  <2>4. [base |-> base, unit |-> "TIME_MSEC", operation |-> op].unit \in Time!Units
    BY DEF Time!Units
  <2> HIDE DEF value
  <2> QED
    BY <2>2, <2>3, <2>4, Started
<1>3. CASE Time!Connect
  BY <1>3 DEF Time!Connect, Time!Return, TimeInv
<1>4. CASE Time!Send
  <2>1. /\ stage = "send" /\ stage' \in {"recv", "idle"}
        /\ UNCHANGED <<args, ts_val, server, answer>>
        /\ stage' = "recv" => to_send' = Time!Request /\ args.operation \in {"T_SET", "T_GET", "T_WNC_GET"}
    BY <1>4 DEF Time!Send, Time!Return
  <2>2. Time!Request' = Time!Request
    BY <2>1 DEF Time!Request, Time!InMsec
  <2> QED
    BY <2>1, <2>2 DEF TimeInv
<1>5. CASE \E accepts \in BOOLEAN, fields \in 0 .. Len(Time!Fields) : Time!Serve(accepts, fields)
  <2>1. PICK accepts \in BOOLEAN, fields \in 0 .. 5 : Time!Serve(accepts, fields)
    BY <1>5 DEF Time!Fields
  <2>2. /\ stage = "recv" /\ UNCHANGED <<stage, args, ts_val, to_send>>
        /\ server' = IF accepts /\ to_send.operation = "T_SET" THEN to_send.value ELSE server
        /\ answer' = [value  |-> IF to_send.operation = "T_SET" THEN to_send.value ELSE server,
                      result |-> IF accepts THEN 0 ELSE -22, fields |-> fields]
    BY <2>1 DEF Time!Serve, Time!EINVAL
  <2>3. to_send = Time!Request /\ args.operation \in {"T_SET", "T_GET", "T_WNC_GET"}
    BY <2>2 DEF TimeInv
  <2>4. to_send.operation = args.operation /\ to_send.value \in Nat
    BY <2>2, <2>3, Requests DEF TimeInv
  <2>5. server' \in Nat /\ answer'.value \in Nat /\ answer'.fields \in 0 .. 5
    BY <2>2, <2>4 DEF TimeInv
  <2>6. args.operation = "T_SET" /\ answer'.result = 0 => server' = to_send.value
    BY <2>2, <2>4
  <2>7. Time!Request' = Time!Request
    BY <2>2 DEF Time!Request, Time!InMsec
  <2> QED
    BY <2>2, <2>3, <2>5, <2>6, <2>7 DEF TimeInv
<1>6. CASE Time!Recv
  <2>1. /\ stage = "recv" /\ UNCHANGED <<args, ts_val, server, answer>> /\ stage' \in {"idle", "reply"}
        /\ stage' = "reply" => /\ answer # Time!NoAnswer /\ to_send' = Time!Received
                               /\ Time!Received.result = 0
    BY <1>6 DEF Time!Recv, Time!Return
  <2>2. /\ to_send = Time!Request /\ args.operation \in {"T_SET", "T_GET", "T_WNC_GET"}
        /\ args.unit \in Conversions /\ ts_val \in Nat
    BY <2>1 DEF TimeInv
  <2>3. /\ to_send.result = -1 /\ DOMAIN to_send = {"base", "unit", "operation", "value", "result"}
        /\ args.operation = "T_SET" => to_send.value = Time!InMsec(args.unit, ts_val)
    BY <2>2, Requests
  <2>4. ASSUME stage' = "reply"
        PROVE  /\ answer.result = 0 /\ answer.fields = 5 /\ answer.value \in Nat
               /\ args.operation = "T_SET" => server = Time!InMsec(args.unit, ts_val)
               /\ args.operation # "T_SET" => to_send'.value = answer.value
    <3>1. /\ answer.value \in Nat /\ answer.fields \in 0 .. 5
          /\ args.operation = "T_SET" /\ answer.result = 0 => server = to_send.value
      BY <2>1, <2>4 DEF TimeInv
    <3>2. /\ Time!Received.result = IF answer.fields >= 5 THEN answer.result ELSE to_send.result
          /\ Time!Received.value = IF answer.fields >= 4 THEN answer.value ELSE to_send.value
      BY <2>3 DEF Time!Received
    <3>3. answer.fields = 5 /\ answer.result = 0
      BY <2>1, <2>3, <2>4, <3>1, <3>2
    <3> QED
      BY <2>1, <2>3, <2>4, <3>1, <3>2, <3>3
  <2>5. stage' = "reply" /\ args'.operation = "T_SET" =>
            Time!InMsec(args.unit, ts_val)' = Time!InMsec(args.unit, ts_val)
    BY <2>1 DEF Time!InMsec
  <2> QED
    BY <2>1, <2>2, <2>4, <2>5 DEF TimeInv
<1>7. CASE Time!Reply
  <2>1. stage = "reply" /\ stage' = "idle" /\ UNCHANGED <<args, to_send, server, answer>>
    BY <1>7 DEF Time!Reply, Time!Return
  <2>2. ts_val' \in Nat
    <3>1. args.unit \in Conversions /\ ts_val \in Nat
      BY <2>1 DEF TimeInv
    <3>2. ts_val' = ts_val \/ (args.operation # "T_SET" /\ ts_val' = Time!FromMsec(args.unit, to_send.value))
      BY <1>7 DEF Time!Reply
    <3>3. args.operation # "T_SET" => to_send.value \in Nat
      BY <2>1 DEF TimeInv
    <3>4. \A v \in Nat : v \div Second \in Nat
      BY DEF TimeNumbers
    <3> QED
      BY <3>1, <3>2, <3>3, <3>4 DEF Time!FromMsec, Time!MSEC_TO_SEC
  <2> QED
    BY <2>1, <2>2 DEF TimeInv
<1>8. CASE Time!ServerTimePasses
  <2>1. stage = "idle" /\ server' = (server + 1) % Word /\ UNCHANGED <<stage, args, ts_val, to_send, answer>>
    BY <1>8 DEF Time!ServerTimePasses
  <2>2. server' \in Nat
    BY <2>1 DEF TimeInv, TimeNumbers
  <2> QED
    BY <2>1, <2>2 DEF TimeInv
<1>9. CASE UNCHANGED Time!tvars
  <2>1. UNCHANGED <<stage, args, ts_val, to_send, server, answer>>
    BY <1>9 DEF Time!tvars
  <2>2. Time!Request' = Time!Request /\ Time!InMsec(args.unit, ts_val)' = Time!InMsec(args.unit, ts_val)
    BY <2>1 DEF Time!Request, Time!InMsec
  <2> QED
    BY <2>1, <2>2 DEF TimeInv
<1> QED
  BY <1>1, <1>2, <1>3, <1>4, <1>5, <1>6, <1>7, <1>8, <1>9 DEF Time!Next

\* Only a reply ends a call with success.
LEMMA Told ==
    ASSUME TimeNumbers, TimeInv, [Time!Next]_(Time!tvars), stage # "idle", stage' = "idle", ret' = 0
    PROVE  /\ answer.result = 0 /\ answer.fields = Len(Time!Fields)
           /\ args.operation = "T_SET" => server = Time!InMsec(args.unit, ts_val)
           /\ args.operation # "T_SET" =>
                 /\ note' = answer.value
                 /\ args.unit = "TIME_MSEC" => ts_val' = answer.value
                 /\ args.unit # "TIME_MSEC" =>
                       ts_val' * Second <= answer.value /\ answer.value < (ts_val' + 1) * Second
<1>1. Time!Reply
  <2>1. ~(\E a, v : Time!Call(a, v))
    BY DEF Time!Call
  <2>2. ~(\E option, text : Time!Main(option, text))
    BY <2>1 DEF Time!Main
  <2>3. ~Time!Connect /\ ~Time!Send /\ ~Time!Recv
    BY DEF Time!Connect, Time!Send, Time!Recv, Time!Return, Time!EINVAL
  <2>4. ~Time!ServerTimePasses /\ ~(UNCHANGED Time!tvars)
    BY DEF Time!ServerTimePasses, Time!tvars
  <2>5. ~(\E accepts, fields : Time!Serve(accepts, fields))
    BY DEF Time!Serve
  <2> QED
    BY <2>1, <2>2, <2>3, <2>4, <2>5 DEF Time!Next
<1>2. /\ stage = "reply" /\ answer.result = 0 /\ answer.fields = 5 /\ answer.value \in Nat
      /\ args.operation = "T_SET" => server = Time!InMsec(args.unit, ts_val)
      /\ args.operation # "T_SET" => to_send.value = answer.value
      /\ args.unit \in Conversions
  BY <1>1 DEF Time!Reply, TimeInv
<1>3. ASSUME args.operation # "T_SET"
      PROVE  note' = answer.value /\ ts_val' = Time!FromMsec(args.unit, answer.value)
  BY <1>1, <1>2, <1>3 DEF Time!Reply, Time!Return, Time!EINVAL
<1>4. \A v \in Nat : (v \div Second) * Second <= v /\ v < ((v \div Second) + 1) * Second
  <2> SUFFICES ASSUME NEW v \in Nat
               PROVE  (v \div Second) * Second <= v /\ v < ((v \div Second) + 1) * Second
    OBVIOUS
  <2>1. Second \in Nat \ {0}
    BY DEF TimeNumbers
  <2> QED
    BY <2>1, Quotients
<1>5. args.operation # "T_SET" /\ args.unit = "TIME_MSEC" => ts_val' = answer.value
  BY <1>3 DEF Time!FromMsec
<1>6. args.operation # "T_SET" /\ args.unit # "TIME_MSEC" => ts_val' = answer.value \div Second
  BY <1>3 DEF Time!FromMsec, Time!MSEC_TO_SEC
<1>7. answer.fields = Len(Time!Fields)
  BY <1>2 DEF Time!Fields
<1> QED
  BY <1>2, <1>3, <1>4, <1>5, <1>6, <1>7

\* A call that returns 0 has told, or set, the server's time.
LEMMA TimeTold ==
    ASSUME TimeNumbers PROVE Time!Spec => Time!Truthful
<1>1. Time!Init => TimeInv
  BY DEF Time!Init, TimeInv
<1>2. TimeInv /\ [Time!Next]_(Time!tvars) => TimeInv'
  BY TimeStep
<1>3. TimeInv /\ [Time!Next]_(Time!tvars) =>
          [stage # "idle" /\ stage' = "idle" /\ ret' = 0 =>
              /\ answer.result = 0 /\ answer.fields = Len(Time!Fields)
              /\ args.operation = "T_SET" => server = Time!InMsec(args.unit, ts_val)
              /\ args.operation # "T_SET" =>
                    /\ note' = answer.value
                    /\ args.unit = "TIME_MSEC" => ts_val' = answer.value
                    /\ args.unit # "TIME_MSEC" =>
                          ts_val' * Second <= answer.value /\ answer.value < (ts_val' + 1) * Second]_(Time!tvars)
  BY Told
<1> QED
  BY <1>1, <1>2, <1>3, PTL DEF Time!Spec, Time!Truthful

-----------------------------------------------------------------------------
(* The clients of the modem's port.                                        *)

LEMMA Shift ==
    ASSUME NEW S, NEW a \in Seq(S), NEW b \in Seq(S), NEW c \in Seq(S)
    PROVE  /\ a \o b \in Seq(S) /\ (a \o b) \o c = a \o (b \o c)
           /\ << >> \o a = a /\ a \o << >> = a
<1>1. a \o b \in Seq(S)
  BY ONLY a \in Seq(S), b \in Seq(S), ConcatProperties
<1>2. (a \o b) \o c = a \o (b \o c)
  BY ONLY a \in Seq(S), b \in Seq(S), c \in Seq(S), ConcatAssociative
<1>3. << >> \o a = a /\ a \o << >> = a
  BY ONLY a \in Seq(S), ConcatEmptySeq
<1> QED
  BY <1>1, <1>2, <1>3

Left(a, b, c) == (a \o b) \o c
Right(a, b, c) == a \o (b \o c)

LEMMA Regroup ==
    ASSUME NEW S, NEW a \in Seq(S), NEW b \in Seq(S), NEW c \in Seq(S)
    PROVE  Left(a, b, c) = Right(a, b, c)
BY ConcatAssociative DEF Left, Right

LEMMA Halves ==
    ASSUME NEW S, NEW s \in Seq(S), NEW n \in 1 .. Len(s)
    PROVE  /\ SubSeq(s, 1, n) \in Seq(S) /\ SubSeq(s, n + 1, Len(s)) \in Seq(S)
           /\ SubSeq(s, 1, n) \o SubSeq(s, n + 1, Len(s)) = s
OBVIOUS

LEMMA FinalSuffix ==
    ASSUME NEW S, NEW p \in Seq(S), NEW m \in Seq(S), Port!Final(m) PROVE Port!Final(p \o m)
<1>1. PICK i \in 1 .. Len(m) - 1 : m[i] \in {"OK", "FAIL", "ERROR"} /\ m[i + 1] = "\r"
  BY DEF Port!Final
<1>2. /\ Len(p \o m) = Len(p) + Len(m) /\ Len(p) \in Nat /\ Len(m) \in Nat
      /\ \A j \in 1 .. Len(p) + Len(m) : (p \o m)[j] = IF j <= Len(p) THEN p[j] ELSE m[j - Len(p)]
  BY ConcatProperties
<1> DEFINE k == Len(p) + i
<1>3. k \in 1 .. Len(p \o m) - 1 /\ (p \o m)[k] = m[i] /\ (p \o m)[k + 1] = m[i + 1]
  BY <1>1, <1>2
<1> HIDE DEF k
<1> QED
  BY <1>1, <1>3 DEF Port!Final

LEMMA PrefixOf ==
    ASSUME NEW S, NEW p \in Seq(S), NEW u \in Seq(S) PROVE Port!IsPrefix(p, p \o u)
<1>1. /\ Len(p \o u) = Len(p) + Len(u) /\ Len(p) \in Nat /\ Len(u) \in Nat /\ p \o u \in Seq(S)
      /\ \A j \in 1 .. Len(p) + Len(u) : (p \o u)[j] = IF j <= Len(p) THEN p[j] ELSE u[j - Len(p)]
  BY ConcatProperties
<1>2. SubSeq(p, 1, Len(p)) = p
  OBVIOUS
<1>3. SubSeq(p \o u, 1, Len(p)) = p
  <2> DEFINE q == SubSeq(p \o u, 1, Len(p))
  <2>1. q \in Seq(S) /\ Len(q) = Len(p) /\ \A j \in 1 .. Len(p) : q[j] = (p \o u)[j]
    BY <1>1
  <2>2. \A j \in 1 .. Len(p) : q[j] = p[j]
    BY <1>1, <2>1
  <2> HIDE DEF q
  <2>3. q = p
    BY <2>1, <2>2
  <2> QED
    BY <2>3 DEF q
<1> QED
  BY <1>1, <1>2, <1>3 DEF Port!IsPrefix

PortTypes(S) ==
    /\ main \in [Clients -> {"start", "clear", "open", "send", "join", "0", "abort"}]
    /\ reader \in [Clients -> {"none", "open", "poll", "print", "test", "closed"}]
    /\ file \in Clients \cup {Port!NoFile}
    /\ mapped \in [Clients -> Clients \cup {Port!NoFile}]
    /\ memory \in [Clients -> Seq(S)] /\ printed \in [Clients -> Seq(S)]
    /\ port \in Seq(S) /\ owed \in Seq(S)
    /\ ended \subseteq Clients /\ alone \subseteq Clients

\* The two threads of a client.
Threads(c) ==
    /\ main[c] # "start" => mapped[c] \in Clients
    /\ main[c] \in {"start", "clear"} => reader[c] = "none" /\ printed[c] = << >>
    /\ main[c] \in {"0", "abort"} => reader[c] = "closed"
    /\ c \in ended => reader[c] = "closed"
    /\ c \in alone => main[c] # "start"

\* What the reader has taken and not printed yet.
Unread(c) == IF reader[c] = "print" THEN memory[mapped[c]] ELSE << >>

\* A client nobody disturbs: nobody else runs, nothing is on its way before it sends,
\* and from then on its answer is what it has printed, holds and has yet to get.
Undisturbed(c, S) ==
    /\ \A d \in Clients : d # c => ~Port!Running(d)
    /\ main[c] # "join" => /\ port = << >> /\ owed = << >> /\ printed[c] = << >> /\ c \notin ended
                           /\ reader[c] \in {"none", "open", "poll", "closed"}
    /\ main[c] = "join" => Replies[c] = printed[c] \o (Unread(c) \o (port \o owed))
    /\ reader[c] = "test" => \E p \in Seq(S) : printed[c] = p \o memory[mapped[c]]

Shown(c) == Port!IsPrefix(printed[c], Replies[c]) /\ Port!Final(printed[c])

PortInv(S) ==
    /\ PortTypes(S)
    /\ \A c \in Clients : Threads(c)
    /\ \A c \in alone : Port!Running(c) => Undisturbed(c, S)
    /\ \A c \in alone \cap ended : Shown(c)

LEMMA PortTypesKept ==
    ASSUME NEW S, Replies \in [Clients -> Seq(S)], PortTypes(S), \A c \in Clients : Threads(c),
           [Port!Next]_(Port!avars)
    PROVE  PortTypes(S)'
<1> USE DEF Port!Goes
<1>1. ASSUME NEW c \in Clients, Port!Map(c) PROVE PortTypes(S)'
  BY <1>1 DEF PortTypes, Port!Map
<1>2. ASSUME NEW c \in Clients, Port!Clear(c) PROVE PortTypes(S)'
  <2>1. mapped[c] \in Clients /\ << >> \in Seq(S)
    BY <1>2 DEF Threads, Port!Clear
  <2> QED
    BY <1>2, <2>1 DEF PortTypes, Port!Clear
<1>3. ASSUME NEW c \in Clients, Port!OpenPort(c) PROVE PortTypes(S)'
  BY <1>3 DEF PortTypes, Port!OpenPort
<1>4. ASSUME NEW c \in Clients, Port!Send(c) PROVE PortTypes(S)'
  <2>1. owed \o Replies[c] \in Seq(S)
    BY DEF PortTypes
  <2> QED
    BY <1>4, <2>1 DEF PortTypes, Port!Send
<1>5. ASSUME NEW c \in Clients, Port!Join(c) PROVE PortTypes(S)'
  BY <1>5 DEF PortTypes, Port!Join
<1>6. ASSUME NEW c \in Clients, Port!ReaderOpens(c) PROVE PortTypes(S)'
  BY <1>6 DEF PortTypes, Port!ReaderOpens
<1>7. ASSUME NEW c \in Clients, Port!Poll(c) PROVE PortTypes(S)'
  <2>1. reader' = [reader EXCEPT ![c] = "closed"] \/ reader' = [reader EXCEPT ![c] = "print"]
    BY <1>7 DEF Port!Poll
  <2>2. memory' = memory \/ memory' = [memory EXCEPT ![mapped[c]] = port]
    BY <1>7 DEF Port!Poll
  <2>3. port' = port \/ port' = << >>
    BY <1>7 DEF Port!Poll
  <2>4. UNCHANGED <<main, file, mapped, owed, printed, ended, alone>>
    BY <1>7 DEF Port!Poll
  <2>a. port \in Seq(S) /\ << >> \in Seq(S) /\ memory \in [Clients -> Seq(S)]
    BY DEF PortTypes
  <2>b. memory' \in [Clients -> Seq(S)]
    BY <2>2, <2>a
  <2>5. memory' \in [Clients -> Seq(S)] /\ port' \in Seq(S)
    BY <2>3, <2>a, <2>b
  <2> QED
    BY <2>1, <2>4, <2>5 DEF PortTypes
<1>8. ASSUME NEW c \in Clients, Port!PrintRead(c) PROVE PortTypes(S)'
  <2>1. mapped[c] \in Clients
    BY <1>8 DEF PortTypes, Threads, Port!PrintRead
  <2>2. printed[c] \o memory[mapped[c]] \in Seq(S)
    BY <2>1 DEF PortTypes
  <2> QED
    BY <1>8, <2>2 DEF PortTypes, Port!PrintRead
<1>9. ASSUME NEW c \in Clients, Port!TestRead(c) PROVE PortTypes(S)'
  BY <1>9 DEF PortTypes, Port!TestRead
<1>10. ASSUME NEW c \in Clients, Port!TenSeconds(c) PROVE PortTypes(S)'
  BY <1>10 DEF PortTypes, Port!TenSeconds
<1>11. ASSUME NEW n \in 1 .. Len(owed), Port!ModemSends(n) PROVE PortTypes(S)'
  <2>1. /\ SubSeq(owed, 1, n) \in Seq(S) /\ SubSeq(owed, n + 1, Len(owed)) \in Seq(S)
        /\ port \o SubSeq(owed, 1, n) \in Seq(S)
    BY Halves DEF PortTypes
  <2> QED
    BY <1>11, <2>1 DEF PortTypes, Port!ModemSends
<1>12. CASE UNCHANGED Port!avars
  BY <1>12 DEF PortTypes, Port!avars
<1> QED
  BY <1>1, <1>2, <1>3, <1>4, <1>5, <1>6, <1>7, <1>8, <1>9, <1>10, <1>11, <1>12 DEF Port!Next

LEMMA ThreadsKept ==
    ASSUME NEW S, PortTypes(S), PortTypes(S)', \A c \in Clients : Threads(c),
           [Port!Next]_(Port!avars), NEW d \in Clients
    PROVE  Threads(d)'
<1> USE DEF Port!Goes
<1>0. Threads(d)
  OBVIOUS
<1>1. ASSUME NEW c \in Clients, Port!Map(c) PROVE Threads(d)'
  <2>1. /\ main' = [main EXCEPT ![c] = "clear"] /\ main[c] = "start"
        /\ mapped' = [mapped EXCEPT ![c] = IF file = Port!NoFile THEN c ELSE file]
        /\ alone' \subseteq alone \cup {c}
        /\ UNCHANGED <<reader, printed, ended>>
    BY <1>1 DEF Port!Map
  <2> QED
    BY <1>0, <2>1 DEF PortTypes, Threads
<1>2. ASSUME NEW c \in Clients, Port!Clear(c) PROVE Threads(d)'
  BY <1>0, <1>2 DEF PortTypes, Threads, Port!Clear
<1>3. ASSUME NEW c \in Clients, Port!OpenPort(c) PROVE Threads(d)'
  BY <1>0, <1>3 DEF PortTypes, Threads, Port!OpenPort
<1>4. ASSUME NEW c \in Clients, Port!Send(c) PROVE Threads(d)'
  BY <1>0, <1>4 DEF PortTypes, Threads, Port!Send
<1>5. ASSUME NEW c \in Clients, Port!Join(c) PROVE Threads(d)'
  BY <1>0, <1>5 DEF PortTypes, Threads, Port!Join
<1>6. ASSUME NEW c \in Clients, Port!ReaderOpens(c) PROVE Threads(d)'
  BY <1>0, <1>6 DEF PortTypes, Threads, Port!ReaderOpens
<1>7. ASSUME NEW c \in Clients, Port!Poll(c) PROVE Threads(d)'
  <2>1. /\ UNCHANGED << main, mapped, printed, ended, alone >> /\ reader[c] = "poll"
        /\ reader' = [reader EXCEPT ![c] = "closed"] \/ reader' = [reader EXCEPT ![c] = "print"]
    BY <1>7 DEF Port!Poll
  <2>2. reader'[d] = reader[d] \/ (reader[d] = "poll" /\ reader'[d] \in {"closed", "print"})
    BY <2>1 DEF PortTypes
  <2> QED
    BY <1>0, <2>1, <2>2 DEF Threads
<1>8. ASSUME NEW c \in Clients, Port!PrintRead(c) PROVE Threads(d)'
  BY <1>0, <1>8 DEF PortTypes, Threads, Port!PrintRead
<1>9. ASSUME NEW c \in Clients, Port!TestRead(c) PROVE Threads(d)'
  BY <1>0, <1>9 DEF PortTypes, Threads, Port!TestRead
<1>10. ASSUME NEW c \in Clients, Port!TenSeconds(c) PROVE Threads(d)'
  BY <1>0, <1>10 DEF PortTypes, Threads, Port!TenSeconds
<1>11. ASSUME NEW n \in 1 .. Len(owed), Port!ModemSends(n) PROVE Threads(d)'
  BY <1>0, <1>11 DEF Threads, Port!ModemSends
<1>12. CASE UNCHANGED Port!avars
  BY <1>0, <1>12 DEF Threads, Port!avars
<1> QED
  BY <1>1, <1>2, <1>3, <1>4, <1>5, <1>6, <1>7, <1>8, <1>9, <1>10, <1>11, <1>12 DEF Port!Next

\* Whoever does something, but for its first step, runs.
LEMMA Acts ==
    ASSUME NEW S, PortTypes(S), NEW d \in Clients, Threads(d),
           \/ Port!Clear(d) \/ Port!OpenPort(d) \/ Port!Send(d) \/ Port!Join(d)
           \/ Port!ReaderOpens(d) \/ Port!Poll(d) \/ Port!PrintRead(d) \/ Port!TestRead(d)
           \/ Port!TenSeconds(d)
    PROVE  /\ Port!Running(d) /\ alone' \subseteq alone
           /\ \A c \in Clients : c # d => /\ main'[c] = main[c] /\ reader'[c] = reader[c]
                                          /\ printed'[c] = printed[c] /\ (c \in ended' => c \in ended)
<1>1. /\ main[d] \in {"clear", "open", "send", "join"} \/ reader[d] \in {"open", "poll", "print", "test"}
      /\ alone' \subseteq alone /\ ended' \subseteq ended \cup {d}
  BY DEF Port!Clear, Port!OpenPort, Port!Send, Port!Join, Port!ReaderOpens, Port!Poll,
         Port!PrintRead, Port!TestRead, Port!TenSeconds, Port!Goes
<1>2. Port!Running(d)
  BY <1>1 DEF Threads, Port!Running, PortTypes
<1>3. \A c \in Clients : c # d => main'[c] = main[c] /\ reader'[c] = reader[c] /\ printed'[c] = printed[c]
  <2>1. main' = main \/ \E x : main' = [main EXCEPT ![d] = x]
    BY DEF Port!Clear, Port!OpenPort, Port!Send, Port!Join, Port!ReaderOpens, Port!Poll,
           Port!PrintRead, Port!TestRead, Port!TenSeconds, Port!Goes
  <2>2. reader' = reader \/ \E x : reader' = [reader EXCEPT ![d] = x]
    BY DEF Port!Clear, Port!OpenPort, Port!Send, Port!Join, Port!ReaderOpens, Port!Poll,
           Port!PrintRead, Port!TestRead, Port!TenSeconds, Port!Goes
  <2>3. printed' = printed \/ \E x : printed' = [printed EXCEPT ![d] = x]
    BY DEF Port!Clear, Port!OpenPort, Port!Send, Port!Join, Port!ReaderOpens, Port!Poll,
           Port!PrintRead, Port!TestRead, Port!TenSeconds, Port!Goes
  <2> QED
    BY <2>1, <2>2, <2>3 DEF PortTypes
<1> QED
  BY <1>1, <1>2, <1>3

\* What a client does of itself.
LEMMA OwnStep ==
    ASSUME NEW S, Replies \in [Clients -> Seq(S)], PortTypes(S), PortTypes(S)', NEW c \in Clients,
           Threads(c), Undisturbed(c, S), c \in alone', Port!Running(c)', Port!Running(c),
           \/ Port!Clear(c) \/ Port!OpenPort(c) \/ Port!Send(c) \/ Port!Join(c)
           \/ Port!ReaderOpens(c) \/ Port!Poll(c) \/ Port!PrintRead(c) \/ Port!TestRead(c)
           \/ Port!TenSeconds(c)
    PROVE  Undisturbed(c, S)'
<1> USE DEF Port!Goes
<1>0. \A d \in Clients : d # c => ~Port!Running(d)'
  BY Acts DEF Port!Running, Undisturbed
<1>t. /\ printed[c] \in Seq(S) /\ port \in Seq(S) /\ owed \in Seq(S) /\ Replies[c] \in Seq(S)
      /\ port \o owed \in Seq(S)
  BY DEF PortTypes
<1>m. mapped[c] \in Clients /\ memory[mapped[c]] \in Seq(S)
  BY DEF PortTypes, Threads, Port!Running
<1>1. CASE Port!Clear(c)
  <2>1. /\ main[c] = "clear" /\ main'[c] = "open" /\ reader'[c] = "open"
        /\ UNCHANGED <<port, owed, printed, ended>>
    BY <1>1 DEF Port!Clear, PortTypes
  <2> QED
    BY <1>0, <2>1 DEF Undisturbed
<1>2. CASE Port!OpenPort(c)
  <2>1. /\ main[c] = "open" /\ main'[c] = "send" /\ reader' = reader
        /\ UNCHANGED <<port, owed, printed, ended, memory, mapped>>
    BY <1>2 DEF Port!OpenPort, PortTypes, Port!Running
  <2> QED
    BY <1>0, <2>1 DEF Undisturbed
<1>3. CASE Port!Send(c)
  <2>1. /\ main[c] = "send" /\ main'[c] = "join" /\ owed' = owed \o Replies[c]
        /\ UNCHANGED <<reader, port, printed, ended, memory, mapped>>
    BY <1>3 DEF Port!Send, PortTypes
  <2>2. port = << >> /\ owed = << >> /\ printed[c] = << >> /\ reader[c] \in {"none", "open", "poll", "closed"}
    BY <2>1 DEF Undisturbed
  <2>3. owed' = Replies[c]
    BY <1>t, <2>1, <2>2, Shift
  <2>4. Unread(c)' = << >>
    BY <2>1, <2>2 DEF Unread
  <2>5. Replies[c] = << >> \o (<< >> \o (<< >> \o Replies[c]))
    BY <1>t, Shift
  <2>6. Replies[c] = printed'[c] \o (Unread(c)' \o (port' \o owed'))
    BY <2>1, <2>2, <2>3, <2>4, <2>5, Zenon
  <2>7. reader'[c] # "test"
    BY <2>1, <2>2
  <2> QED
    BY <1>0, <2>1, <2>6, <2>7 DEF Undisturbed
<1>4. CASE Port!Join(c)
  BY <1>4 DEF Port!Join, PortTypes, Port!Running
<1>5. CASE Port!ReaderOpens(c)
  <2>1. /\ reader[c] = "open" /\ reader'[c] \in {"poll", "closed"}
        /\ UNCHANGED <<main, port, owed, printed, ended>>
    BY <1>5 DEF Port!ReaderOpens, PortTypes
  <2>2. Unread(c)' = Unread(c)
    BY <2>1 DEF Unread
  <2> QED
    BY <1>0, <2>1, <2>2 DEF Undisturbed
<1>6. CASE Port!Poll(c)
  <2>1. CASE late[c]
    <3>1. /\ reader[c] = "poll" /\ reader'[c] = "closed" /\ UNCHANGED <<main, port, owed, printed, ended>>
      BY <1>6, <2>1 DEF Port!Poll, PortTypes
    <3>2. Unread(c)' = Unread(c)
      BY <3>1 DEF Unread
    <3> QED
      BY <1>0, <3>1, <3>2 DEF Undisturbed
  <2>2. CASE ~late[c]
    <3>1. /\ reader[c] = "poll" /\ reader'[c] = "print" /\ port # << >> /\ port' = << >>
          /\ memory' = [memory EXCEPT ![mapped[c]] = port]
          /\ UNCHANGED <<main, mapped, owed, printed, ended>>
      BY <1>6, <2>2 DEF Port!Poll, PortTypes
    <3>2. main[c] = "join" /\ Replies[c] = printed[c] \o (Unread(c) \o (port \o owed))
      BY <3>1 DEF Undisturbed
    <3>3. Unread(c) = << >> /\ Unread(c)' = port
      BY <1>m, <3>1 DEF Unread, PortTypes
    <3>4. << >> \o (port \o owed) = port \o (<< >> \o owed)
      BY <1>t, Shift
    <3>5. Replies[c] = printed'[c] \o (Unread(c)' \o (port' \o owed'))
      BY <3>1, <3>2, <3>3, <3>4, Zenon
    <3> QED
      BY <1>0, <3>1, <3>2, <3>5 DEF Undisturbed
  <2> QED
    BY <2>1, <2>2
<1>7. CASE Port!PrintRead(c)
  <2>1. /\ reader[c] = "print" /\ reader'[c] = "test" /\ printed'[c] = printed[c] \o memory[mapped[c]]
        /\ UNCHANGED <<main, mapped, memory, port, owed, ended>>
    BY <1>7 DEF Port!PrintRead, PortTypes
  <2>2. main[c] = "join" /\ Replies[c] = printed[c] \o (Unread(c) \o (port \o owed))
    BY <2>1 DEF Undisturbed
  <2>3. Unread(c) = memory[mapped[c]] /\ Unread(c)' = << >>
    BY <2>1 DEF Unread
  <2> DEFINE mem == memory[mapped[c]]
             rest == port \o owed
  <2>4. (printed[c] \o mem) \o (<< >> \o rest) = printed[c] \o (mem \o rest)
    <3>1. mem \in Seq(S) /\ rest \in Seq(S) /\ printed[c] \in Seq(S)
      BY <1>t, <1>m
    <3> HIDE DEF mem, rest
    <3>2. << >> \o rest = rest
      BY <3>1, Shift
    <3>3. (printed[c] \o mem) \o rest = printed[c] \o (mem \o rest)
      <4>1. Left(printed[c], mem, rest) = Right(printed[c], mem, rest)
        BY <3>1, Regroup, Zenon
      <4> QED
        BY <4>1 DEF Left, Right
    <3> QED
      BY <3>2, <3>3, Zenon
  <2>5. Replies[c] = printed'[c] \o (Unread(c)' \o (port' \o owed'))
    BY <2>1, <2>2, <2>3, <2>4, Zenon
  <2>6. \E p \in Seq(S) : printed'[c] = p \o memory'[mapped'[c]]
    BY <1>t, <2>1
  <2> QED
    BY <1>0, <2>1, <2>2, <2>5, <2>6 DEF Undisturbed
<1>8. CASE Port!TestRead(c)
  <2>1. /\ reader[c] = "test" /\ reader'[c] \in {"closed", "poll"}
        /\ UNCHANGED <<main, port, owed, printed>>
    BY <1>8 DEF Port!TestRead, PortTypes
  <2>2. main[c] = "join" /\ Unread(c)' = Unread(c)
    BY <2>1 DEF Undisturbed, Unread
  <2> QED
    BY <1>0, <2>1, <2>2 DEF Undisturbed
<1>9. CASE Port!TenSeconds(c)
  <2>1. UNCHANGED <<main, reader, mapped, memory, port, owed, printed, ended>>
    BY <1>9 DEF Port!TenSeconds
  <2>2. Unread(c)' = Unread(c)
    BY <2>1 DEF Unread
  <2> QED
    BY <1>0, <2>1, <2>2 DEF Undisturbed
<1> QED
  BY <1>1, <1>2, <1>3, <1>4, <1>5, <1>6, <1>7, <1>8, <1>9

LEMMA UndisturbedKept ==
    ASSUME NEW S, Replies \in [Clients -> Seq(S)], PortInv(S), PortTypes(S)',
           [Port!Next]_(Port!avars), NEW c \in Clients, c \in alone', Port!Running(c)'
    PROVE  Undisturbed(c, S)'
<1>0. PortTypes(S) /\ (\A d \in Clients : Threads(d))
      /\ (c \in alone /\ Port!Running(c) => Undisturbed(c, S))
  BY DEF PortInv
<1>1. ASSUME NEW d \in Clients, Port!Map(d) PROVE Undisturbed(c, S)'
  <2>1. /\ main[d] = "start" /\ main' = [main EXCEPT ![d] = "clear"]
        /\ UNCHANGED <<reader, port, owed, printed, ended>>
        /\ alone' = IF \E e \in Clients : Port!Running(e) THEN {}
                    ELSE IF port = << >> /\ owed = << >> THEN alone \cup {d} ELSE alone
    BY <1>1 DEF Port!Map, Port!Goes
  <2>2. \A e \in Clients : ~Port!Running(e)
    BY <2>1
  <2>3. c = d
    BY <1>0, <2>1, <2>2 DEF Port!Running, PortTypes
  <2>4. port = << >> /\ owed = << >> /\ main'[c] = "clear" /\ reader[c] = "none" /\ printed[c] = << >>
        /\ c \notin ended
    BY <1>0, <2>1, <2>2, <2>3 DEF Threads, PortTypes
  <2>5. \A e \in Clients : e # c => ~Port!Running(e)'
    BY <1>0, <2>1, <2>2, <2>3 DEF Port!Running, PortTypes
  <2> QED
    BY <2>1, <2>4, <2>5 DEF Undisturbed
<1>2. ASSUME NEW d \in Clients,
             \/ Port!Clear(d) \/ Port!OpenPort(d) \/ Port!Send(d) \/ Port!Join(d)
             \/ Port!ReaderOpens(d) \/ Port!Poll(d) \/ Port!PrintRead(d) \/ Port!TestRead(d)
             \/ Port!TenSeconds(d)
      PROVE  Undisturbed(c, S)'
  <2>1. /\ Port!Running(d) /\ alone' \subseteq alone
        /\ \A e \in Clients : e # d => main'[e] = main[e]
    BY <1>0, <1>2, Acts
  <2>2. Port!Running(c)
    BY <2>1 DEF Port!Running
  <2>3. Undisturbed(c, S)
    BY <1>0, <2>1, <2>2
  <2>4. d = c
    BY <2>1, <2>3 DEF Undisturbed
  <2> QED
    BY <1>0, <1>2, <2>2, <2>3, <2>4, OwnStep
<1>3. ASSUME NEW n \in 1 .. Len(owed), Port!ModemSends(n) PROVE Undisturbed(c, S)'
  <2>1. /\ port' = port \o SubSeq(owed, 1, n) /\ owed' = SubSeq(owed, n + 1, Len(owed))
        /\ UNCHANGED <<main, reader, mapped, memory, printed, ended, alone>>
    BY <1>3 DEF Port!ModemSends
  <2>2. Undisturbed(c, S)
    BY <1>0, <2>1 DEF Port!Running
  <2>3. port \in Seq(S) /\ owed \in Seq(S)
    BY <1>0 DEF PortTypes
  <2>4. owed # << >>
    BY <1>3, <2>3
  <2>5. main[c] = "join"
    BY <2>2, <2>4 DEF Undisturbed
  <2> DEFINE a == SubSeq(owed, 1, n)
             b == SubSeq(owed, n + 1, Len(owed))
  <2>6. a \in Seq(S) /\ b \in Seq(S) /\ a \o b = owed
    BY <1>3, <2>3, Halves
  <2>7. port' \o owed' = port \o owed
    <3> HIDE DEF a, b
    <3>0. a \in Seq(S) /\ b \in Seq(S)
      BY <2>6
    <3>1. (port \o a) \o b = port \o (a \o b)
      <4>1. Left(port, a, b) = Right(port, a, b)
        BY <2>3, <3>0, Regroup, Zenon
      <4> QED
        BY <4>1 DEF Left, Right
    <3>2. port' = port \o a /\ owed' = b
      BY <2>1 DEF a, b
    <3> QED
      BY <2>6, <3>1, <3>2, Zenon
  <2>8. Unread(c)' = Unread(c)
    BY <2>1 DEF Unread
  <2>9. Replies[c] = printed'[c] \o (Unread(c)' \o (port' \o owed'))
    BY <2>1, <2>2, <2>5, <2>7, <2>8, Zenon DEF Undisturbed
  <2>10. \A d \in Clients : d # c => ~Port!Running(d)'
    BY <2>1, <2>2 DEF Undisturbed, Port!Running
  <2>11. reader'[c] = "test" => \E p \in Seq(S) : printed'[c] = p \o memory'[mapped'[c]]
    BY <2>1, <2>2 DEF Undisturbed
  <2>12. main'[c] = "join"
    BY <2>1, <2>5
  <2> QED
    BY <2>9, <2>10, <2>11, <2>12 DEF Undisturbed
<1>4. CASE UNCHANGED Port!avars
  <2>1. UNCHANGED <<main, reader, mapped, memory, port, owed, printed, ended, alone>>
    BY <1>4 DEF Port!avars
  <2>2. Undisturbed(c, S)
    BY <1>0, <2>1 DEF Port!Running
  <2>3. \A d \in Clients : d # c => ~Port!Running(d)'
    BY <2>1, <2>2 DEF Undisturbed, Port!Running
  <2> QED
    BY <2>1, <2>2, <2>3 DEF Undisturbed, Unread
<1> QED
  BY <1>1, <1>2, <1>3, <1>4 DEF Port!Next

LEMMA ShownKept ==
    ASSUME NEW S, Replies \in [Clients -> Seq(S)], PortInv(S),
           [Port!Next]_(Port!avars), NEW c \in Clients, c \in alone' \cap ended'
    PROVE  Shown(c)'
<1>0. PortTypes(S) /\ (\A d \in Clients : Threads(d))
      /\ (c \in alone /\ Port!Running(c) => Undisturbed(c, S))
      /\ (c \in alone \cap ended => Shown(c))
  BY DEF PortInv
<1>1. ASSUME printed'[c] = printed[c], c \in alone, c \in ended PROVE Shown(c)'
  BY <1>0, <1>1 DEF Shown
<1>2. ASSUME NEW d \in Clients, Port!Map(d) PROVE Shown(c)'
  <2>1. /\ main[d] = "start" /\ UNCHANGED <<printed, ended>> /\ alone' \subseteq alone \cup {d}
    BY <1>2 DEF Port!Map, Port!Goes
  <2>2. c # d
    BY <1>0, <2>1 DEF Threads
  <2> QED
    BY <1>1, <2>1, <2>2
<1>3. ASSUME NEW d \in Clients,
             \/ Port!Clear(d) \/ Port!OpenPort(d) \/ Port!Send(d) \/ Port!Join(d)
             \/ Port!ReaderOpens(d) \/ Port!Poll(d) \/ Port!PrintRead(d) \/ Port!TestRead(d)
             \/ Port!TenSeconds(d)
      PROVE  Shown(c)'
  <2>1. /\ Port!Running(d) /\ alone' \subseteq alone
        /\ \A e \in Clients : e # d => printed'[e] = printed[e] /\ (e \in ended' => e \in ended)
    BY <1>0, <1>3, Acts
  <2>2. CASE c # d
    BY <1>1, <2>1, <2>2
  <2>3. CASE c = d /\ c \in ended
    <3>1. reader[c] = "closed"
      BY <1>0, <2>3 DEF Threads
    <3>2. printed' = printed
      BY <1>3, <2>3, <3>1 DEF Port!Clear, Port!OpenPort, Port!Send, Port!Join, Port!ReaderOpens, Port!Poll,
           Port!PrintRead, Port!TestRead, Port!TenSeconds, Port!Goes
    <3> QED
      BY <1>1, <2>1, <2>3, <3>2
  <2>4. CASE c = d /\ c \notin ended
    <3>1. Port!TestRead(c)
      BY <1>3, <2>4 DEF Port!Clear, Port!OpenPort, Port!Send, Port!Join, Port!ReaderOpens, Port!Poll,
           Port!PrintRead, Port!TenSeconds, Port!Goes
    <3>2. reader[c] = "test" /\ printed' = printed /\ Port!Final(memory[mapped[c]])
      BY <2>4, <3>1 DEF Port!TestRead
    <3>3. Undisturbed(c, S) /\ c \in alone
      BY <1>0, <2>1, <2>4
    <3>4. /\ main[c] = "join" /\ Replies[c] = printed[c] \o (Unread(c) \o (port \o owed))
      BY <3>2, <3>3 DEF Undisturbed
    <3>5. mapped[c] \in Clients /\ memory[mapped[c]] \in Seq(S) /\ printed[c] \in Seq(S)
      BY <1>0, <3>4 DEF Threads, PortTypes
    <3>6. PICK p \in Seq(S) : printed[c] = p \o memory[mapped[c]]
      BY <3>2, <3>3 DEF Undisturbed
    <3>7. Port!Final(printed[c])
      <4>1. Port!Final(p \o memory[mapped[c]])
        BY <3>2, <3>5, FinalSuffix
      <4> QED
        BY <3>6, <4>1, Zenon
    <3>8. Unread(c) \o (port \o owed) \in Seq(S)
      <4>1. Unread(c) = << >> /\ port \in Seq(S) /\ owed \in Seq(S)
        BY <1>0, <3>2 DEF Unread, PortTypes
      <4>2. << >> \o (port \o owed) \in Seq(S)
        BY <4>1, Shift
      <4> QED
        BY <4>1, <4>2, Zenon
    <3>9. Port!IsPrefix(printed[c], Replies[c])
      <4>1. Port!IsPrefix(printed[c], printed[c] \o (Unread(c) \o (port \o owed)))
        BY <3>5, <3>8, PrefixOf
      <4> QED
        BY <3>4, <4>1, Zenon
    <3>10. Shown(c)
      BY <3>7, <3>9 DEF Shown
    <3> QED
      BY <3>2, <3>10 DEF Shown
  <2> QED
    BY <2>2, <2>3, <2>4
<1>4. CASE \E n \in 1 .. Len(owed) : Port!ModemSends(n)
  BY <1>1, <1>4 DEF Port!ModemSends
<1>5. CASE UNCHANGED Port!avars
  BY <1>1, <1>5 DEF Port!avars
<1> QED
  BY <1>2, <1>3, <1>4, <1>5 DEF Port!Next

\* A client that nothing disturbed shows its own answer, whole up to the result it
\* stopped at.
LEMMA AnswerShown ==
    ASSUME NEW S, Replies \in [Clients -> Seq(S)] PROVE Port!Spec => []Port!OwnAnswer
<1>1. Port!Init => PortInv(S)
  <2> SUFFICES ASSUME Port!Init PROVE PortInv(S)
    OBVIOUS
  <2>1. << >> \in Seq(S)
    OBVIOUS
  <2>2. PortTypes(S)
    BY <2>1 DEF Port!Init, PortTypes
  <2> QED
    BY <2>2 DEF Port!Init, PortInv, Threads
<1>2. PortInv(S) /\ [Port!Next]_(Port!avars) => PortInv(S)'
  <2> SUFFICES ASSUME PortInv(S), [Port!Next]_(Port!avars) PROVE PortInv(S)'
    OBVIOUS
  <2>1. PortTypes(S) /\ \A d \in Clients : Threads(d)
    BY DEF PortInv
  <2>2. PortTypes(S)'
    BY <2>1, PortTypesKept
  <2>3. (\A d \in Clients : Threads(d))'
    BY <2>1, <2>2, ThreadsKept
  <2>4. \A c \in alone' : c \in Clients
    BY <2>2 DEF PortTypes
  <2>5. (\A c \in alone : Port!Running(c) => Undisturbed(c, S))'
    BY <2>2, <2>4, UndisturbedKept
  <2>6. (\A c \in alone \cap ended : Shown(c))'
    BY <2>4, ShownKept
  <2> QED
    BY <2>2, <2>3, <2>5, <2>6 DEF PortInv
<1>3. PortInv(S) => Port!OwnAnswer
  BY DEF PortInv, Port!OwnAnswer, Shown
<1> QED
  BY <1>1, <1>2, <1>3, PTL DEF Port!Spec

-----------------------------------------------------------------------------
(* The console.                                                            *)

Asked == {"GET_IMSI", "GET_IMEI", "HANGUP", "ANSWER", "DIAL", "SEND_SMS",
          "SMS_ACKNOWLEDGE", "GET_CURRENT_CALLS", "VOICE_REGISTRATION_STATE"}

\* A request, with the entry of the table that it was looked up in.
Filled(r) ==
    /\ r.request \in Asked /\ r.pCI = Shell!find_command(r.request)
    /\ r.request = "SEND_SMS" => /\ r.typed \in Seq(Nat)
                                 /\ r.data = Shell!getSwappedNibbleBcdString(r.typed)

\* An answer that was printed is the first one to its request.
Correct(i) ==
    /\ responses[i][1] \in 1 .. Len(requests) /\ responses[i][1] \notin open
    /\ requests[responses[i][1]].pCI # << >>
    /\ responses[i][2] = requests[responses[i][1]].pCI[1][2]

ShellInv ==
    /\ \E S : requests \in Seq(S)
    /\ \E S : responses \in Seq(S)
    /\ open \subseteq 1 .. Len(requests)
    /\ \A i \in 1 .. Len(requests) : Filled(requests[i])
    /\ \A i \in 1 .. Len(responses) : Correct(i)
    /\ \A i, j \in 1 .. Len(responses) : i # j => responses[i][1] # responses[j][1]

\* The entries of the table.
LEMMA TheFirst == ASSUME NEW i \in 1 .. 5 PROVE Shell!Min({i}) = i
<1>1. \A x \in {i} : \A y \in {i} : x <= y
  OBVIOUS
<1> QED
  BY <1>1 DEF Shell!Min

LEMMA Entries ==
    /\ Shell!find_command("DIAL") = << << "DIAL", "responseDial" >> >>
    /\ Shell!find_command("GET_IMSI") = << << "GET_IMSI", "responseGetIMSI" >> >>
    /\ Shell!find_command("GET_IMEI") = << << "GET_IMEI", "responseGetIMEI" >> >>
    /\ Shell!find_command("SEND_SMS") = << << "SEND_SMS", "responseSendSMS" >> >>
    /\ \A q \in {"HANGUP", "ANSWER", "SMS_ACKNOWLEDGE", "GET_CURRENT_CALLS", "VOICE_REGISTRATION_STATE"} :
          Shell!find_command(q) = << >>
<1> DEFINE t == Shell!s_commands
           At(q) == {i \in 1 .. 5 : t[i][1] = q}
<1>1. /\ Len(t) = 5 /\ t[1] = <<"GET_SMSC_ADDRESS", "responseSmscAddress">> /\ t[2] = <<"DIAL", "responseDial">>
      /\ t[3] = <<"GET_IMSI", "responseGetIMSI">> /\ t[4] = <<"GET_IMEI", "responseGetIMEI">>
      /\ t[5] = <<"SEND_SMS", "responseSendSMS">>
  BY DEF Shell!s_commands
<1> HIDE DEF t
<1>2. /\ t[1][1] = "GET_SMSC_ADDRESS" /\ t[2][1] = "DIAL" /\ t[3][1] = "GET_IMSI"
      /\ t[4][1] = "GET_IMEI" /\ t[5][1] = "SEND_SMS"
  BY <1>1
<1>3. \A i \in 1 .. 5 : i \in {1, 2, 3, 4, 5}
  OBVIOUS
<1>4. At("DIAL") = {2} /\ At("GET_IMSI") = {3} /\ At("GET_IMEI") = {4} /\ At("SEND_SMS") = {5}
  BY <1>2, <1>3
<1>5. \A q \in {"HANGUP", "ANSWER", "SMS_ACKNOWLEDGE", "GET_CURRENT_CALLS", "VOICE_REGISTRATION_STATE"} :
          At(q) = {}
  BY <1>2, <1>3
<1>6. \A q : Shell!find_command(q) = IF At(q) = {} THEN << >> ELSE << t[Shell!Min(At(q))] >>
  BY <1>1 DEF Shell!find_command, t
<1> HIDE DEF At
<1>7. Shell!Min({2}) = 2 /\ Shell!Min({3}) = 3 /\ Shell!Min({4}) = 4 /\ Shell!Min({5}) = 5
  BY TheFirst
<1> QED
  BY <1>1, <1>4, <1>5, <1>6, <1>7

Handlers == {"getImsi", "getImei", "dial", "hangup", "answer", "sendSMS", "connectDataCall", "rilCommand"}

LEMMA MenuHandlers ==
    ASSUME debug \in BOOLEAN, NEW line, Shell!Named(line) # {}
    PROVE  Shell!Menu(debug)[Shell!Min(Shell!Named(line))][3] \in Handlers
<1> DEFINE m == Shell!Menu(debug)
           named == Shell!Named(line)
<1>1. named \subseteq 1 .. Len(m) /\ named # {}
  BY DEF Shell!Named
<1>2. \A i \in 1 .. Len(m) : m[i][3] \in Handlers
  <2>1. CASE debug
    BY <2>1 DEF Shell!Menu, Handlers
  <2>2. CASE ~debug
    <3>1. /\ Len(m) = 8 /\ m[1][3] = "getImsi" /\ m[2][3] = "getImei" /\ m[3][3] = "dial" /\ m[4][3] = "hangup"
          /\ m[5][3] = "answer" /\ m[6][3] = "sendSMS" /\ m[7][3] = "connectDataCall"
          /\ m[8][3] = "connectDataCall"
      BY <2>2 DEF Shell!Menu
    <3>2. \A i \in 1 .. 8 : i \in {1, 2, 3, 4, 5, 6, 7, 8}
      OBVIOUS
    <3> HIDE DEF m
    <3> QED
      BY <3>1, <3>2 DEF Handlers
  <2> QED
    BY <2>1, <2>2
<1>3. Shell!Min(named) \in named
  <2>1. named \subseteq Nat
    BY <1>1
  <2> HIDE DEF named
  <2>2. \E x \in named : \A y \in named : x <= y
    BY <1>1, <2>1, Least
  <2> QED
    BY <2>2 DEF Shell!Min
<1> HIDE DEF m, named
<1> QED
  BY <1>1, <1>2, <1>3 DEF m, named

LEMMA OneMore ==
    ASSUME ShellInv, NEW r, Filled(r), requests' = Append(requests, r),
           open' = open \cup {Len(requests) + 1}, responses' = responses
    PROVE  ShellInv'
<1>1. PICK S : requests \in Seq(S)
  BY DEF ShellInv
<1>2. /\ Len(requests) \in Nat /\ requests' \in Seq(S \cup {r}) /\ Len(requests') = Len(requests) + 1
      /\ requests'[Len(requests) + 1] = r /\ \A i \in 1 .. Len(requests) : requests'[i] = requests[i]
  <2>1. requests \in Seq(S \cup {r})
    BY <1>1
  <2> QED
    BY <2>1
<1>3. \A i \in 1 .. Len(requests') : Filled(requests'[i])
  BY <1>2 DEF ShellInv
<1>o. open \subseteq 1 .. Len(requests)
  BY DEF ShellInv
<1>4. open' \subseteq 1 .. Len(requests')
  <2>1. Len(requests) + 1 \in 1 .. Len(requests') /\ \A x \in 1 .. Len(requests) : x \in 1 .. Len(requests')
    BY <1>2
  <2> QED
    BY <1>o, <2>1, Zenon
<1>5. ASSUME NEW i \in 1 .. Len(responses) PROVE Correct(i)'
  <2>1. Correct(i)
    BY DEF ShellInv
  <2> QED
    BY <1>2, <2>1 DEF Correct
<1>6. \A i \in 1 .. Len(responses') : Correct(i)'
  BY ONLY responses' = responses, <1>5, Zenon
<1> QED
  BY <1>2, <1>3, <1>4, <1>6, Zenon DEF ShellInv

LEMMA NoMore ==
    ASSUME ShellInv, UNCHANGED <<requests, open, responses>> PROVE ShellInv'
BY DEF ShellInv, Correct

LEMMA Requested ==
    ASSUME ShellInv, responses' = responses, NEW q \in Asked, NEW data, NEW typed,
           q = "SEND_SMS" => /\ typed \in Seq(Nat) /\ data = Shell!getSwappedNibbleBcdString(typed),
           Shell!onRequest(q, data, typed)
    PROVE  ShellInv'
<1>1. CASE radio
  <2> DEFINE r == Shell!RequestInfo(q, data, typed)
  <2>1. Filled(r)
    BY DEF Filled, Shell!RequestInfo
  <2>2. requests' = Append(requests, r) /\ open' = open \cup {Len(requests) + 1}
    BY <1>1 DEF Shell!onRequest
  <2> HIDE DEF r
  <2> QED
    BY <2>1, <2>2, OneMore
<1>2. CASE ~radio
  BY <1>2, NoMore DEF Shell!onRequest
<1> QED
  BY <1>1, <1>2

LEMMA Answered ==
    ASSUME ShellInv, NEW t \in open, open' = open \ {t}, requests' = requests,
           requests[t].pCI # << >>,
           responses' = Append(responses, << t, requests[t].pCI[1][2] >>)
    PROVE  ShellInv'
<1> DEFINE r == << t, requests[t].pCI[1][2] >>
<1>1. PICK S : responses \in Seq(S)
  BY DEF ShellInv
<1>2. /\ Len(responses) \in Nat /\ responses' \in Seq(S \cup {r}) /\ Len(responses') = Len(responses) + 1
      /\ responses'[Len(responses) + 1] = r /\ \A i \in 1 .. Len(responses) : responses'[i] = responses[i]
  <2>1. responses \in Seq(S \cup {r}) /\ responses' = Append(responses, r)
    BY <1>1
  <2> HIDE DEF r
  <2> QED
    BY <2>1
<1>3. t \in 1 .. Len(requests) /\ r[1] = t /\ r[2] = requests[t].pCI[1][2]
  BY DEF ShellInv
<1> HIDE DEF r
<1>4. ASSUME NEW i \in 1 .. Len(responses) PROVE Correct(i)' /\ responses'[i][1] # t
  <2>1. Correct(i)
    BY DEF ShellInv
  <2> QED
    BY <1>2, <2>1 DEF Correct
<1>k. PICK k \in Nat : k = Len(responses) + 1
  BY <1>2
<1>5. Correct(k)'
  BY <1>2, <1>3, <1>k DEF Correct
<1>6. \A i \in 1 .. Len(responses') : i = k \/ i \in 1 .. Len(responses)
  BY <1>2, <1>k
<1>7. (\A i \in 1 .. Len(responses) : Correct(i))'
  BY <1>4, <1>5, <1>6, Zenon
<1>8. (\A i, j \in 1 .. Len(responses) : i # j => responses[i][1] # responses[j][1])'
  <2>1. \A i, j \in 1 .. Len(responses) : i # j => responses'[i][1] # responses'[j][1]
    BY <1>2 DEF ShellInv
  <2> QED
    <3>1. responses'[k][1] = t
      BY <1>2, <1>3, <1>k
    <3>2. \A i \in 1 .. Len(responses) : responses'[i][1] # t
      BY <1>4
    <3> SUFFICES ASSUME NEW i \in 1 .. Len(responses'), NEW j \in 1 .. Len(responses'), i # j
                 PROVE  responses'[i][1] # responses'[j][1]
      OBVIOUS
    <3>3. CASE i \in 1 .. Len(responses) /\ j \in 1 .. Len(responses)
      BY <2>1, <3>3
    <3>4. CASE i = k /\ j \in 1 .. Len(responses)
      BY <3>1, <3>2, <3>4
    <3>5. CASE j = k /\ i \in 1 .. Len(responses)
      BY <3>1, <3>2, <3>5
    <3> QED
      BY <1>6, <3>3, <3>4, <3>5
<1>9. (\E T : responses \in Seq(T))' /\ (\E T : requests \in Seq(T))'
  BY <1>2 DEF ShellInv
<1>10. (open \subseteq 1 .. Len(requests))' /\ (\A i \in 1 .. Len(requests) : Filled(requests[i]))'
  BY DEF ShellInv
<1> QED
  BY <1>7, <1>8, <1>9, <1>10 DEF ShellInv

LEMMA Parity == \A d \in Nat : d >= 1 /\ d % 2 # 1 => d >= 2 /\ (d - 1) % 2 = 1
OBVIOUS

\* Handing a number over to the network and back.
LEMMA Swapped ==
    ASSUME NEW text \in Seq(Nat), Len(text) = PduDigits, NEW data,
           data = Shell!getSwappedNibbleBcdString(text)
    PROVE  [d \in 1 .. PduDigits |-> data[IF d % 2 = 1 THEN d + 1 ELSE d - 1]] = text
<1> DEFINE n == Len(text)
           even == IF n % 2 = 1 THEN Append(text, 15) ELSE text
<1>1. n \in Nat /\ even \in Seq(Nat) /\ Len(even) = (IF n % 2 = 1 THEN n + 1 ELSE n)
      /\ \A d \in 1 .. n : even[d] = text[d]
  OBVIOUS
<1>2. data = [i \in 1 .. Len(even) |-> even[IF i % 2 = 1 THEN i + 1 ELSE i - 1]]
  BY DEF Shell!getSwappedNibbleBcdString
<1> HIDE DEF even
<1>3. ASSUME NEW d \in 1 .. n PROVE data[IF d % 2 = 1 THEN d + 1 ELSE d - 1] = text[d]
  <2>1. CASE d % 2 = 1
    <3>1. d + 1 \in 1 .. Len(even)
      <4> HIDE DEF n
      <4>1. CASE d = n
        <5>1. Len(even) = n + 1
          BY <1>1, <2>1, <4>1
        <5> QED
          BY <1>1, <4>1, <5>1
      <4>2. CASE d < n
        BY <1>1, <4>2
      <4> QED
        BY <1>1, <4>1, <4>2
    <3>2. (d + 1) % 2 # 1 /\ (d + 1) - 1 = d
      BY <2>1
    <3> QED
      BY <1>1, <1>2, <2>1, <3>1, <3>2
  <2>2. CASE d % 2 # 1
    <3>1. /\ d \in Nat /\ d >= 1 /\ d <= n
          /\ n \in Nat /\ Len(even) \in Nat /\ n <= Len(even)
      BY <1>1
    <3> HIDE DEF n
    <3>2. d >= 2 /\ (d - 1) % 2 = 1
      BY <2>2, <3>1, Parity
    <3>3. d - 1 \in 1 .. Len(even) /\ (d - 1) + 1 = d
      BY <3>1, <3>2
    <3>4. data[d - 1] = even[d]
      BY <1>2, <3>2, <3>3
    <3>5. d \in 1 .. n
      BY <3>1
    <3> QED
      BY <1>1, <2>2, <3>4, <3>5
  <2> QED
    BY <2>1, <2>2
<1>4. text = [d \in 1 .. n |-> text[d]]
  OBVIOUS
<1>5. \A d \in 1 .. PduDigits : data[IF d % 2 = 1 THEN d + 1 ELSE d - 1] = text[d]
  BY <1>3
<1> QED
  BY <1>4, <1>5, Zenon

LEMMA ShellStep ==
    ASSUME Numbers \subseteq Seq(Nat), debug \in BOOLEAN, ShellInv, [Shell!Next]_(Shell!cvars)
    PROVE  ShellInv'
<1>1. ASSUME NEW line \in Lines, Shell!mainLoop(line) PROVE ShellInv'
  <2>1. responses' = responses
    BY <1>1 DEF Shell!mainLoop
  <2>2. CASE UNCHANGED <<place, doing, requests, open>> \/ UNCHANGED <<doing, requests, open>>
    BY <2>1, <2>2, NoMore
  <2>3. CASE Shell!Named(line) # {} /\ Shell!Handle(Shell!Menu(debug)[Shell!Min(Shell!Named(line))][3])
    <3>1. PICK h \in Handlers : Shell!Handle(h)
      BY <2>3, MenuHandlers
    <3>2. CASE h \in {"getImsi", "getImei", "hangup", "answer"}
      <4>1. \E q \in {"GET_IMSI", "GET_IMEI", "HANGUP", "ANSWER"} : Shell!onRequest(q, << >>, << >>)
        BY <3>1, <3>2 DEF Shell!Handle
      <4> QED
        BY <2>1, <4>1, Requested DEF Asked
    <3>3. CASE h \in {"dial", "sendSMS", "connectDataCall", "rilCommand"}
      <4>1. UNCHANGED <<requests, open>>
        BY <3>1, <3>3 DEF Shell!Handle
      <4> QED
        BY <2>1, <4>1, NoMore
    <3> QED
      BY <3>2, <3>3 DEF Handlers
  <2> QED
    BY <1>1, <2>2, <2>3 DEF Shell!mainLoop
<1>2. ASSUME NEW number \in Numbers, Shell!Address(number) PROVE ShellInv'
  <2>1. responses' = responses /\ number \in Seq(Nat)
    BY <1>2 DEF Shell!Address
  <2>2. \/ Shell!onRequest("DIAL", number, number)
        \/ Shell!onRequest("SEND_SMS", Shell!getSwappedNibbleBcdString(number), number)
    BY <1>2 DEF Shell!Address
  <2> QED
    BY <2>1, <2>2, Requested DEF Asked
<1>3. ASSUME NEW t \in open, NEW response \in BOOLEAN, Shell!RIL_onRequestComplete(t, response)
      PROVE  ShellInv'
  <2>1. open' = open \ {t} /\ requests' = requests
    BY <1>3 DEF Shell!RIL_onRequestComplete
  <2>2. CASE responses' = responses
    BY <2>1, <2>2 DEF ShellInv, Correct
  <2>3. CASE requests[t].pCI # << >> /\ responses' = Append(responses, Shell!Printed(t, requests[t].pCI))
    BY <2>1, <2>3, Answered DEF Shell!Printed
  <2> QED
    BY <1>3, <2>2, <2>3 DEF Shell!RIL_onRequestComplete
<1>4. ASSUME NEW request \in {"SMS_ACKNOWLEDGE", "GET_CURRENT_CALLS", "VOICE_REGISTRATION_STATE"},
             Shell!RIL_onUnsolicitedResponse(request)
      PROVE  ShellInv'
  <2> DEFINE r == Shell!RequestInfo(request, << >>, << >>)
  <2>1. Filled(r)
    BY DEF Filled, Shell!RequestInfo, Asked
  <2>2. requests' = Append(requests, r) /\ open' = open \cup {Len(requests) + 1} /\ responses' = responses
    BY <1>4 DEF Shell!RIL_onUnsolicitedResponse
  <2> HIDE DEF r
  <2> QED
    BY <2>1, <2>2, OneMore
<1>5. CASE UNCHANGED Shell!cvars
  BY <1>5, NoMore DEF Shell!cvars
<1> QED
  BY <1>1, <1>2, <1>3, <1>4, <1>5 DEF Shell!Next

\* What was typed is what the radio is asked for, and each answer is printed once and
\* by the function of its own request.
LEMMA WorkAnswered ==
    ASSUME Numbers \subseteq Seq(Nat) PROVE Shell!Spec => []Shell!AnsweredAsAsked
<1> DEFINE Inv == debug \in BOOLEAN /\ ShellInv
<1>1. Shell!Init => Inv
  <2> SUFFICES ASSUME Shell!Init PROVE Inv
    OBVIOUS
  <2>1. requests \in Seq({}) /\ responses \in Seq({}) /\ Len(requests) = 0 /\ Len(responses) = 0 /\ open = {}
        /\ debug \in BOOLEAN
    BY DEF Shell!Init
  <2>2. \A i \in 1 .. 0 : FALSE
    OBVIOUS
  <2> QED
    BY <2>1, <2>2, Zenon DEF ShellInv
<1>2. Inv /\ [Shell!Next]_(Shell!cvars) => Inv'
  <2>1. [Shell!Next]_(Shell!cvars) => debug' = debug
    BY DEF Shell!Next, Shell!cvars, Shell!mainLoop, Shell!Address, Shell!RIL_onRequestComplete,
           Shell!RIL_onUnsolicitedResponse
  <2> QED
    BY <2>1, ShellStep
<1>3. Inv => Shell!AnsweredAsAsked
  <2> SUFFICES ASSUME Inv PROVE Shell!AnsweredAsAsked
    OBVIOUS
  <2>1. ASSUME NEW i \in 1 .. Len(responses)
        PROVE  /\ requests[responses[i][1]].request \in DOMAIN Shell!ResponseFunction
               /\ responses[i][2] = Shell!ResponseFunction[requests[responses[i][1]].request]
    <3>1. Correct(i) /\ Filled(requests[responses[i][1]])
      BY DEF ShellInv, Correct
    <3> DEFINE q == requests[responses[i][1]].request
    <3>2. q \in Asked /\ Shell!find_command(q) # << >> /\ responses[i][2] = Shell!find_command(q)[1][2]
      BY <3>1 DEF Correct, Filled
    <3> HIDE DEF q
    <3>3. q \in {"DIAL", "GET_IMSI", "GET_IMEI", "SEND_SMS"}
      BY <3>2, Entries DEF Asked
    <3>4. q \in DOMAIN Shell!ResponseFunction
      BY <3>3 DEF Shell!ResponseFunction
    <3>5. Shell!find_command(q)[1][2] = Shell!ResponseFunction[q]
      BY <3>3, Entries DEF Shell!ResponseFunction
    <3> QED
      BY <3>2, <3>4, <3>5 DEF q
  <2>2. ASSUME NEW i \in 1 .. Len(requests), requests[i].request = "SEND_SMS",
               Len(requests[i].typed) = PduDigits
        PROVE  [d \in 1 .. PduDigits |-> requests[i].data[IF d % 2 = 1 THEN d + 1 ELSE d - 1]] = requests[i].typed
    <3>1. requests[i].typed \in Seq(Nat)
          /\ requests[i].data = Shell!getSwappedNibbleBcdString(requests[i].typed)
      BY <2>2 DEF ShellInv, Filled
    <3> QED
      BY <2>2, <3>1, Swapped
  <2> QED
    BY <2>1, <2>2 DEF Shell!AnsweredAsAsked, ShellInv
<1> QED
  BY <1>1, <1>2, <1>3, PTL DEF Shell!Spec

-----------------------------------------------------------------------------
(* An open device.                                                         *)

\* A set of numbers that has 0 and with each number the next has them all.
LEMMA Induction ==
    ASSUME NEW S, 0 \in S, \A n \in Nat : n \in S => n + 1 \in S
    PROVE  Nat \subseteq S
<1> DEFINE T == Nat \ S
<1>1. SUFFICES ASSUME T # {} PROVE FALSE
  OBVIOUS
<1>2. PICK x \in T : \A y \in T : x <= y
  <2>1. PICK x \in T : \A y \in T : ~ (<<y, x>> \in OpToRel(<, Nat))
    BY <1>1, WFMin, NatLessThanWellFounded
  <2>2. \A y \in T : <<y, x>> \in OpToRel(<, Nat) <=> y < x
    BY DEF OpToRel
  <2>3. \A y \in T : ~ (y < x)
    BY <2>1, <2>2, Zenon
  <2>4. \A y \in T : x <= y
    BY <2>3
  <2> QED
    BY <2>4
<1>3. x - 1 \in Nat /\ x - 1 \notin T
  BY <1>2
<1> QED
  BY <1>2, <1>3

\* f begins with a and goes on, step by step, by the functions of h.
Runs(f, a, n, h) == f[0] = a /\ \A i \in 1 .. n : f[i] = h[i][f[i - 1]]

LEMMA Recursion ==
    ASSUME NEW S, NEW a \in S, NEW n \in Nat, NEW h \in [1 .. n -> [S -> S]]
    PROVE  \E f \in [0 .. n -> S] : Runs(f, a, n, h)
<1> DEFINE Steps(f, k) == f[0] = a /\ \A i \in 1 .. k : f[i] = h[i][f[i - 1]]
           G == {k \in Nat : k <= n => \E f \in [0 .. k -> S] : Steps(f, k)}
<1>1. 0 \in G
  <2>1. [i \in 0 .. 0 |-> a] \in [0 .. 0 -> S] /\ Steps([i \in 0 .. 0 |-> a], 0)
    OBVIOUS
  <2>2. \E f \in [0 .. 0 -> S] : Steps(f, 0)
    BY <2>1
  <2> QED
    BY <2>2
<1>2. ASSUME NEW k \in Nat, k \in G, k + 1 <= n
      PROVE  \E f \in [0 .. k + 1 -> S] : Steps(f, k + 1)
  <2>1. PICK f \in [0 .. k -> S] : Steps(f, k)
    <3> HIDE DEF Steps
    <3>1. k <= n
      BY <1>2
    <3> QED
      BY <1>2, <3>1
  <2> DEFINE t == [i \in 0 .. k + 1 |-> IF i = k + 1 THEN h[k + 1][f[k]] ELSE f[i]]
  <2>2. t \in [0 .. k + 1 -> S]
    <3>1. k + 1 \in 1 .. n /\ f[k] \in S
      BY <1>2, <2>1
    <3>2. h[k + 1] \in [S -> S]
      BY <3>1
    <3>3. h[k + 1][f[k]] \in S
      BY <3>1, <3>2
    <3> QED
      BY <2>1, <3>3
  <2>3. Steps(t, k + 1)
    BY <2>1
  <2> HIDE DEF t
  <2> QED
    BY <2>2, <2>3
<1>3. n \in G
  <2>1. ASSUME NEW k \in Nat, k \in G PROVE k + 1 \in G
    <3>1. k + 1 <= n => \E f \in [0 .. k + 1 -> S] : Steps(f, k + 1)
      BY <1>2, <2>1
    <3> HIDE DEF Steps
    <3> QED
      BY <3>1
  <2> HIDE DEF G
  <2> QED
    BY <1>1, <2>1, Induction
<1>4. PICK f \in [0 .. n -> S] : Steps(f, n)
  BY <1>3
<1> QED
  BY <1>4 DEF Runs

LEMMA Products == \A a, b, c \in Nat : a <= b => a * c <= b * c
OBVIOUS

Half == [pending : Nat, got : Seq(Nat)]

LEMMA TakeType ==
    ASSUME NEW s \in Half, NEW packet \in Nat, NEW len \in Nat
    PROVE  Handle!Take(s, packet, len) \in Half
<1>1. s.pending + packet \in Nat /\ s.got \in Seq(Nat)
  BY DEF Half
<1>2. Append(s.got, s.pending + packet) \in Seq(Nat)
  BY <1>1
<1> QED
  BY <1>1, <1>2 DEF Handle!Take, Half

LEMMA TakenIs ==
    ASSUME NEW s \in Half, NEW packets \in Seq(Nat), NEW len \in Nat
    PROVE  LET after == Handle!Taken(s, packets, len)
           IN  /\ after[0] = s
               /\ \A i \in 1 .. Len(packets) : after[i] = Handle!Take(after[i - 1], packets[i], len)
<1> DEFINE n == Len(packets)
           h == [i \in 1 .. n |-> [t \in Half |-> Handle!Take(t, packets[i], len)]]
           F(f) == [i \in 0 .. n |-> IF i = 0 THEN s ELSE Handle!Take(f[i - 1], packets[i], len)]
           after == Handle!Taken(s, packets, len)
<1>1. n \in Nat /\ \A i \in 1 .. n : packets[i] \in Nat
  OBVIOUS
<1>2. h \in [1 .. n -> [Half -> Half]]
  BY <1>1, TakeType
<1>3. PICK f \in [0 .. n -> Half] : Runs(f, s, n, h)
  <2> HIDE DEF n, h, F, after
  <2>1. n \in Nat
    BY <1>1
  <2> QED
    BY <1>2, <2>1, Recursion
<1>4. f = F(f)
  <2>1. \A i \in 0 .. n : i # 0 => i \in 1 .. n /\ i - 1 \in 0 .. n
    BY <1>1
  <2>2. \A i \in 0 .. n : i # 0 => f[i - 1] \in Half
    BY <1>3, <2>1
  <2>3. \A i \in 0 .. n : i # 0 => h[i][f[i - 1]] = Handle!Take(f[i - 1], packets[i], len)
    BY <2>1, <2>2
  <2>4. f[0] = s /\ \A i \in 0 .. n : i # 0 => f[i] = h[i][f[i - 1]]
    BY <1>3, <2>1 DEF Runs
  <2> HIDE DEF h, n
  <2>5. \A i \in 0 .. n : f[i] = IF i = 0 THEN s ELSE Handle!Take(f[i - 1], packets[i], len)
    BY <2>3, <2>4
  <2> QED
    BY <1>3, <2>5
<1>5. after = CHOOSE g : g = F(g)
  BY DEF Handle!Taken
<1>6. after = F(after)
  <2> HIDE DEF F, after
  <2>1. \E g : g = F(g)
    BY <1>4
  <2> QED
    BY <1>5, <2>1, ZenonT(30)
<1> HIDE DEF after
<1>7. after[0] = s /\ \A i \in 1 .. n : after[i] = Handle!Take(after[i - 1], packets[i], len)
  <2>1. n \in Nat
    BY <1>1
  <2> HIDE DEF n
  <2>2. 0 \in 0 .. n /\ \A i \in 1 .. n : i \in 0 .. n /\ i # 0
    BY ONLY <2>1
  <2> QED
    BY ONLY <1>6, <2>2 DEF F
<1> QED
  BY <1>7 DEF after

\* Packets of a write of len bytes: as many full ones as go into it, and what is left,
\* or nothing where the end has to be shown.
LEMMA Cut ==
    ASSUME NEW len \in Nat \ {0}, Packet \in Nat \ {0}, device.honours \/ ~device.zlp,
           NEW full, full = len \div Packet
    PROVE  LET packets == Handle!Packets(len, device.zlp)
           IN  /\ packets \in Seq(Nat) /\ full \in Nat
               /\ \A i \in 1 .. full : packets[i] = Packet
               /\ device.zlp => /\ Len(packets) = full + 1 /\ packets[full + 1] < Packet
                                /\ full * Packet + packets[full + 1] = len
               /\ ~device.zlp => \/ /\ Len(packets) = full + 1 /\ packets[full + 1] # 0
                                    /\ full * Packet + packets[full + 1] = len
                                 \/ Len(packets) = full /\ full > 0 /\ full * Packet = len
<1> DEFINE rem == len % Packet
           ones == [i \in 1 .. full |-> Packet]
           rest == IF rem # 0 THEN << rem >> ELSE IF device.zlp /\ device.honours THEN << 0 >> ELSE << >>
           packets == Handle!Packets(len, device.zlp)
<1>1. full \in Nat /\ rem \in Nat /\ rem < Packet /\ full * Packet + rem = len
  <2>1. rem \in 0 .. Packet - 1 /\ len = Packet * (len \div Packet) + rem /\ len \div Packet \in Int
    OBVIOUS
  <2>2. len \div Packet \in Nat
    BY <2>1
  <2> HIDE DEF rem
  <2> QED
    BY <2>1, <2>2
<1>2. packets = ones \o rest
  BY DEF Handle!Packets
<1>3. ones \in Seq(Nat) /\ Len(ones) = full /\ \A i \in 1 .. full : ones[i] = Packet
  BY <1>1
<1> HIDE DEF packets, ones, rem
<1>4. rest \in Seq(Nat) /\ Len(rest) \in {0, 1}
  BY <1>1
<1>5. /\ packets \in Seq(Nat) /\ Len(packets) = full + Len(rest)
      /\ \A i \in 1 .. full : packets[i] = Packet
      /\ Len(rest) = 1 => packets[full + 1] = rest[1]
  <2> HIDE DEF rest
  <2>1. /\ ones \o rest \in Seq(Nat) /\ Len(ones \o rest) = Len(ones) + Len(rest)
        /\ \A i \in 1 .. Len(ones) + Len(rest) :
              (ones \o rest)[i] = IF i <= Len(ones) THEN ones[i] ELSE rest[i - Len(ones)]
    BY <1>3, <1>4, ConcatProperties
  <2>2. \A i \in 1 .. full : i \in 1 .. Len(ones) + Len(rest) /\ i <= Len(ones)
    BY <1>1, <1>3, <1>4
  <2>3. Len(rest) = 1 => /\ full + 1 \in 1 .. Len(ones) + Len(rest) /\ ~(full + 1 <= Len(ones))
                         /\ full + 1 - Len(ones) = 1
    BY <1>1, <1>3
  <2> QED
    BY <1>2, <1>3, <2>1, <2>2, <2>3
<1>6. CASE rem # 0
  <2>1. rest = << rem >> /\ Len(rest) = 1 /\ rest[1] = rem
    BY <1>6
  <2> HIDE DEF rest
  <2> QED
    BY <1>1, <1>5, <1>6, <2>1 DEF packets
<1>7. CASE rem = 0 /\ device.zlp
  <2>1. rest = << 0 >> /\ Len(rest) = 1 /\ rest[1] = 0
    BY <1>7
  <2> HIDE DEF rest
  <2> QED
    BY <1>1, <1>5, <1>7, <2>1 DEF packets
<1>8. CASE rem = 0 /\ ~device.zlp
  <2>1. rest = << >> /\ Len(rest) = 0
    BY <1>8
  <2>2. full * Packet = len /\ full # 0
    BY <1>1, <1>8
  <2> HIDE DEF rest
  <2> QED
    BY <1>1, <1>5, <1>8, <2>1, <2>2 DEF packets
<1> QED
  BY <1>6, <1>7, <1>8

\* A module that is told where a write ends, or that knows, takes it for what it is.
LEMMA WholeWrite ==
    ASSUME NEW len \in Nat \ {0}, Packet \in Nat \ {0}, device.honours \/ ~device.zlp,
           device.zlp \in BOOLEAN, NEW g \in Seq(Nat)
    PROVE  LET packets == Handle!Packets(len, device.zlp)
               last == Handle!Taken([pending |-> 0, got |-> g], packets, len)[Len(packets)]
           IN  last.pending = 0 /\ last.got = Append(g, len)
<1> DEFINE packets == Handle!Packets(len, device.zlp)
           full == len \div Packet
           s == [pending |-> 0, got |-> g]
           after == Handle!Taken(s, packets, len)
           G == {k \in Nat : k <= full /\ k < Len(packets) => after[k] = [pending |-> k * Packet, got |-> g]}
<1>1. /\ packets \in Seq(Nat) /\ full \in Nat
      /\ \A i \in 1 .. full : packets[i] = Packet
      /\ device.zlp => /\ Len(packets) = full + 1 /\ packets[full + 1] < Packet
                       /\ full * Packet + packets[full + 1] = len
      /\ ~device.zlp => \/ /\ Len(packets) = full + 1 /\ packets[full + 1] # 0
                           /\ full * Packet + packets[full + 1] = len
                        \/ Len(packets) = full /\ full > 0 /\ full * Packet = len
  BY Cut
<1>2. s \in Half
  BY DEF Half
<1> HIDE DEF packets, full, s
<1>3. /\ after[0] = s
      /\ \A i \in 1 .. Len(packets) : after[i] = Handle!Take(after[i - 1], packets[i], len)
  BY <1>1, <1>2, TakenIs
<1> HIDE DEF after
<1>4. Len(packets) \in Nat /\ \A i \in 1 .. Len(packets) : packets[i] \in Nat
  BY <1>1
<1>5. 0 \in G
  BY <1>3 DEF s
<1>6. ASSUME NEW k \in Nat, k \in G PROVE k + 1 \in G
  <2> SUFFICES ASSUME k + 1 <= full, k + 1 < Len(packets)
               PROVE  after[k + 1] = [pending |-> (k + 1) * Packet, got |-> g]
    <3>1. k + 1 \in Nat
      OBVIOUS
    <3> QED
      BY <3>1, Zenon
  <2>1. after[k] = [pending |-> k * Packet, got |-> g]
    BY <1>1, <1>4, <1>6
  <2>2. k + 1 \in 1 .. Len(packets) /\ (k + 1) - 1 = k /\ k + 1 \in 1 .. full
    BY <1>1, <1>4
  <2>3. after[k + 1] = Handle!Take(after[k], Packet, len)
    BY <1>1, <1>3, <2>2
  <2>4. k * Packet + Packet = (k + 1) * Packet /\ k * Packet \in Nat
    OBVIOUS
  <2>5. ~device.zlp => (k + 1) * Packet # len
    <3> SUFFICES ASSUME ~device.zlp PROVE (k + 1) * Packet < len
      OBVIOUS
    <3>1. CASE Len(packets) = full + 1 /\ packets[full + 1] # 0 /\ full * Packet + packets[full + 1] = len
      <4>1. packets[full + 1] \in Nat
        BY <1>1, <1>4, <3>1
      <4>2. k + 1 \in Nat /\ full \in Nat /\ Packet \in Nat /\ k + 1 <= full
        BY <1>1
      <4>3. (k + 1) * Packet <= full * Packet
        BY <4>2, Products, Zenon
      <4> DEFINE a == (k + 1) * Packet
                 b == full * Packet
      <4>4. a \in Nat /\ b \in Nat /\ a <= b /\ b + packets[full + 1] = len
        BY <3>1, <4>2, <4>3
      <4>5. a \in Nat /\ b \in Nat /\ a <= b /\ b + packets[full + 1] = len => a < len
        <5> HIDE DEF a, b
        <5> QED
          BY <3>1, <4>1
      <4> QED
        BY <4>4, <4>5
    <3>2. CASE Len(packets) = full /\ full * Packet = len
      <4>1. k + 2 <= full
        BY <1>1, <3>2
      <4>2. (k + 2) * Packet <= full * Packet
        BY <1>1, <4>1, Products
      <4>3. (k + 2) * Packet = (k + 1) * Packet + Packet
        OBVIOUS
      <4> QED
        BY <1>1, <3>2, <4>2, <4>3
    <3> QED
      BY <1>1, <3>1, <3>2
  <2> DEFINE bytes == (k + 1) * Packet
  <2>6. [pending |-> k * Packet, got |-> g].pending + Packet = bytes
    BY <2>4
  <2> HIDE DEF bytes
  <2> QED
    BY <2>1, <2>3, <2>5, <2>6 DEF Handle!Take, bytes
<1>7. Nat \subseteq G
  <2> HIDE DEF G
  <2> QED
    BY <1>5, <1>6, Induction
<1> DEFINE last == Len(packets)
<1>8. last - 1 \in Nat /\ last \in 1 .. Len(packets) /\ last - 1 <= full
  BY <1>1, <1>4
<1>9. after[last - 1] = [pending |-> (last - 1) * Packet, got |-> g]
  BY <1>4, <1>7, <1>8
<1>10. after[last] = Handle!Take([pending |-> (last - 1) * Packet, got |-> g], packets[last], len)
  BY <1>3, <1>8, <1>9
<1>11. (last - 1) * Packet + packets[last] = len
  <2>1. CASE Len(packets) = full + 1
    <3>1. last - 1 = full
      BY <1>1, <2>1
    <3> QED
      BY <1>1, <2>1, <3>1
  <2>2. CASE Len(packets) = full
    <3>1. packets[last] = Packet /\ full * Packet = len /\ (full - 1) * Packet + Packet = full * Packet
      BY <1>1, <1>8, <2>2
    <3> QED
      BY <2>2, <3>1
  <2> QED
    BY <1>1, <2>1, <2>2
<1>12. device.zlp => packets[last] < Packet
  BY <1>1
<1> DEFINE most == (last - 1) * Packet
<1>13. [pending |-> most, got |-> g].pending + packets[last] = len
  BY <1>11
<1> HIDE DEF most
<1>14. after[last] = [pending |-> 0, got |-> Append(g, len)]
  BY <1>10, <1>12, <1>13 DEF Handle!Take, most
<1> QED
  BY <1>14 DEF after, packets, s

Words == {"log", "version", "switch"}

Types ==
    /\ device \in Handle!Devices /\ way \in {"none", "usbfs", "tty"}
    /\ step \in {"closed", "opening", "version", "read", "drain", "command", "echo", "writing", "done"}
    /\ way = "none" <=> step \in {"closed", "opening"}
    /\ count \in Nat /\ chatter \in Nat /\ chatter <= Chatter
    /\ queue \in Seq(Words) /\ inbox \in Seq(Words) /\ wrote \in Seq(Nat)

\* What the module has wrote, and what it may still send before another command.
Total == Len(queue) + Len(inbox) + chatter

\* The module has the command, or its answer is on the way, in time.
EchoComes ==
    \/ /\ inbox # << >> /\ inbox[Len(inbox)] = "switch"
       /\ count + Total <= Tries
    \/ /\ inbox = << >>
       /\ \E k \in 1 .. Len(queue) : queue[k] = "switch" /\ count + k <= Tries

Obeys ==
    /\ device.mode = "edl" => step \in {"closed", "opening", "writing"}
    /\ step \in {"read", "command"} => count = 0
    /\ device.mode = "normal" /\ ~device.faulty /\ way # "tty" =>
          /\ step \in {"closed", "opening", "version"} => Total <= Backlog + Chatter
          /\ step = "read" => Total <= Backlog + Chatter + 1
          /\ step = "drain" => Total + count <= Backlog + Chatter
          /\ step = "command" => Total < Tries
          /\ step = "echo" => EchoComes
          /\ step = "done" => result = "switched"

Arrives == device.honours \/ ~device.zlp => taken = wrote /\ pending = 0

HandleInv == Types /\ Obeys /\ Arrives

Bounds ==
    /\ Packet \in Nat \ {0} /\ Lengths \subseteq Nat \ {0}
    /\ Drain \in Nat /\ Tries \in Nat /\ Backlog \in Nat /\ Chatter \in Nat
    /\ Chatter < Tries /\ Backlog + Chatter < Drain + Tries

\* A read over usbfs takes the first transfer.
LEMMA OneRead ==
    ASSUME way = "usbfs", queue \in Seq(Words), NEW data, Handle!Receives(data)
    PROVE  \/ /\ queue # << >> /\ data = << queue[1] >> /\ queue' \in Seq(Words)
              /\ Len(queue') = Len(queue) - 1
              /\ \A i \in 1 .. Len(queue') : queue'[i] = queue[i + 1]
           \/ /\ queue = << >> /\ (inbox = << >> \/ device.faulty)
              /\ data = << >> /\ queue' = queue
<1>1. CASE queue # << >> /\ data \in Handle!Chunks /\ queue' = SubSeq(queue, Len(data) + 1, Len(queue))
  <2>1. PICK n \in 1 .. 1 : data = SubSeq(queue, 1, n)
    BY <1>1 DEF Handle!Chunks
  <2>2. Len(queue) \in Nat \ {0} /\ data = SubSeq(queue, 1, 1)
    BY <1>1, <2>1
  <2>3. data = << queue[1] >> /\ Len(data) = 1
    <3>1. /\ SubSeq(queue, 1, 1) \in Seq(Words) /\ Len(SubSeq(queue, 1, 1)) = 1
          /\ SubSeq(queue, 1, 1)[1] = queue[1]
      BY <2>2
    <3>2. << queue[1] >> \in Seq(Words) /\ Len(<< queue[1] >>) = 1 /\ << queue[1] >>[1] = queue[1]
      BY <2>2
    <3> DEFINE q == SubSeq(queue, 1, 1)
               t == << queue[1] >>
    <3>3. q = t
      <4>1. q \in Seq(Words) /\ t \in Seq(Words) /\ Len(q) = Len(t) /\ \A i \in 1 .. Len(q) : q[i] = t[i]
        BY <3>1, <3>2
      <4> HIDE DEF q, t
      <4> QED
        BY <4>1, SeqEqual
    <3> QED
      BY <2>2, <3>1, <3>3
  <2>4. queue' = SubSeq(queue, 2, Len(queue))
    BY <1>1, <2>3
  <2>5. /\ queue' \in Seq(Words) /\ Len(queue') = Len(queue) - 1
        /\ \A i \in 1 .. Len(queue') : queue'[i] = queue[i + 1]
    BY <2>2, <2>4
  <2> QED
    BY <1>1, <2>3, <2>5
<1>2. CASE Handle!Silent /\ data = << >> /\ queue' = queue
  BY <1>2 DEF Handle!Silent
<1> QED
  BY <1>1, <1>2 DEF Handle!Receives

LEMMA HandleInit == ASSUME Bounds, Handle!Init PROVE HandleInv
<1> USE DEF Handle!Init
<1>1. /\ device \in Handle!Devices /\ way = "none" /\ step = "closed" /\ count = 0
      /\ result = "none" /\ inbox = << >> /\ wrote = << >> /\ pending = 0 /\ taken = << >>
  OBVIOUS
<1>2. device.mode \in {"normal", "edl"}
  BY <1>1 DEF Handle!Devices
<1>3. \E n \in 0 .. Backlog : queue = [i \in 1 .. n |-> "log"]
  <2>1. CASE device.mode = "normal"
    BY <2>1
  <2>2. CASE device.mode = "edl"
    BY <2>2 DEF Bounds
  <2> QED
    BY <1>2, <2>1, <2>2
<1>4. queue \in Seq(Words) /\ Len(queue) <= Backlog /\ Len(queue) \in Nat
  <2>1. PICK n \in 0 .. Backlog : queue = [i \in 1 .. n |-> "log"]
    BY <1>3
  <2>2. n \in Nat /\ n <= Backlog
    BY <2>1 DEF Bounds
  <2> DEFINE q == [i \in 1 .. n |-> "log"]
  <2>3. q \in Seq(Words) /\ Len(q) = n
    BY <2>2 DEF Words
  <2> HIDE DEF q
  <2>4. queue = q
    BY <2>1 DEF q
  <2> QED
    BY <2>2, <2>3, <2>4
<1>5. chatter \in Nat /\ chatter <= Chatter
  BY <1>2 DEF Bounds
<1>6. Total <= Backlog + Chatter
  BY <1>1, <1>4, <1>5 DEF Total, Bounds
<1>7. wrote \in Seq(Nat) /\ inbox \in Seq(Words)
  BY <1>1
<1>8. Types
  BY <1>1, <1>4, <1>5, <1>7 DEF Types
<1>9. Obeys
  BY <1>1, <1>6 DEF Obeys
<1>10. Arrives
  BY <1>1 DEF Arrives
<1> QED
  BY <1>8, <1>9, <1>10 DEF HandleInv

LEMMA TypesKept == ASSUME Bounds, Types, [Handle!Next]_(Handle!hvars) PROVE Types'
<1>1. CASE Handle!DetachDriver \/ Handle!Claim \/ Handle!OpenTty
  BY <1>1 DEF Types, Handle!DetachDriver, Handle!Claim, Handle!OpenTty, Handle!Opened,
       Handle!TalkUnchanged, Handle!TransfersUnchanged
<1>2. CASE Handle!AskVersion
  <2>1. step' \in {"drain", "read"} /\ step = "version" /\ way' = way
    BY <1>2 DEF Handle!AskVersion, Handle!TalkStep
  <2>2. inbox' \in Seq(Words)
    <3>1. inbox' = Append(inbox, "version") \/ inbox' = inbox
      BY <1>2 DEF Handle!AskVersion, Handle!Sends
    <3>2. inbox \in Seq(Words)
      BY DEF Types
    <3>3. Append(inbox, "version") \in Seq(Words)
      BY <3>2 DEF Words
    <3> QED
      BY <3>1, <3>2, <3>3
  <2> QED
    BY <1>2, <2>1, <2>2 DEF Types, Handle!AskVersion, Handle!TalkStep, Handle!TransfersUnchanged
<1>r. ASSUME NEW data, Handle!Receives(data) PROVE queue' \in Seq(Words)
  <2>1. CASE Handle!Silent /\ data = << >> /\ queue' = queue
    BY <2>1 DEF Types
  <2>2. CASE queue # << >> /\ data \in Handle!Chunks /\ queue' = SubSeq(queue, Len(data) + 1, Len(queue))
    <3>1. Len(queue) \in Nat /\ queue \in Seq(Words)
      BY DEF Types
    <3>2. \E n \in 1 .. Len(queue) : data = SubSeq(queue, 1, n)
      BY <2>2, <3>1 DEF Handle!Chunks
    <3>3. Len(data) \in Nat
      BY <3>1, <3>2
    <3> QED
      BY <2>2, <3>1, <3>3
  <2> QED
    BY <1>r, <2>1, <2>2 DEF Handle!Receives
<1>3. CASE Handle!ReadVersion
  BY <1>3, <1>r DEF Types, Handle!ReadVersion, Handle!TalkStep, Handle!TransfersUnchanged
<1>4. CASE Handle!ReadAway
  <2>1. PICK data \in Handle!Received :
           /\ Handle!Receives(data)
           /\ IF data = << >> \/ count + 1 = Drain THEN step' = "command" /\ count' = 0
                                                  ELSE step' = "drain" /\ count' = count + 1
    BY <1>4 DEF Handle!ReadAway
  <2>2. step' \in {"command", "drain"} /\ count' \in Nat
    BY <2>1 DEF Types
  <2>3. queue' \in Seq(Words)
    BY <1>r, <2>1
  <2>4. step = "drain" /\ UNCHANGED <<device, way, chatter, inbox, wrote>>
    BY <1>4 DEF Handle!ReadAway, Handle!TalkStep, Handle!TransfersUnchanged
  <2>5. way # "none"
    BY <2>4 DEF Types
  <2> QED
    BY <2>2, <2>3, <2>4, <2>5 DEF Types
<1>5. CASE Handle!Command
  <2>1. inbox' = Append(inbox, "switch") \/ inbox' = inbox
    BY <1>5 DEF Handle!Command, Handle!Sends
  <2>2. inbox \in Seq(Words)
    BY DEF Types
  <2>3. Append(inbox, "switch") \in Seq(Words)
    BY <2>2 DEF Words
  <2>4. inbox' \in Seq(Words)
    BY <2>1, <2>2, <2>3
  <2>5. step = "command" /\ step' = "echo" /\ UNCHANGED <<device, way, count, queue, chatter, wrote>>
    BY <1>5 DEF Handle!Command, Handle!TalkStep, Handle!TransfersUnchanged
  <2> QED
    BY <2>4, <2>5 DEF Types
<1>6. CASE Handle!AwaitEcho
  <2>1. step' \in {"echo", "done"}
    <3>1. step = "echo"
      BY <1>6 DEF Handle!AwaitEcho, Handle!TalkStep
    <3>2. PICK data \in Handle!Received :
             CASE data = << "switch" >> -> result' = "switched" /\ step' = "done"
               [] data # << "switch" >> /\ (data = << >> \/ count + 1 = Tries) ->
                      result' = "unheard" /\ step' = "done"
               [] OTHER -> UNCHANGED <<result, step>>
      BY <1>6 DEF Handle!AwaitEcho
    <3> QED
      BY <3>1, <3>2
  <2> QED
    BY <1>6, <1>r, <2>1 DEF Types, Handle!AwaitEcho, Handle!TalkStep, Handle!TransfersUnchanged
<1>7. CASE Handle!Answer
  <2>1. inbox[1] \in Words /\ Tail(inbox) \in Seq(Words)
    BY <1>7 DEF Types, Handle!Answer
  <2>2. Append(queue, inbox[1]) \in Seq(Words)
    BY <2>1 DEF Types
  <2>3. /\ queue' = Append(queue, inbox[1]) /\ inbox' = Tail(inbox)
        /\ UNCHANGED <<device, way, step, count, chatter, wrote>>
    BY <1>7 DEF Handle!Answer, Handle!TransfersUnchanged
  <2>4. queue' \in Seq(Words) /\ inbox' \in Seq(Words)
    BY <2>1, <2>2, <2>3
  <2> QED
    BY <2>3, <2>4 DEF Types
<1>8. CASE Handle!Log
  <2>1. queue \in Seq(Words)
    BY DEF Types
  <2>2. Append(queue, "log") \in Seq(Words)
    BY <2>1 DEF Words
  <2>3. /\ step \notin {"closed", "opening", "done"} /\ chatter > 0
        /\ queue' = Append(queue, "log") /\ chatter' = chatter - 1
        /\ UNCHANGED <<device, way, step, count, inbox, wrote>>
    BY <1>8 DEF Handle!Log, Handle!TransfersUnchanged
  <2>4. queue' \in Seq(Words) /\ chatter' \in Nat /\ chatter' <= Chatter
    BY <2>2, <2>3 DEF Types, Bounds
  <2> QED
    BY <2>3, <2>4, ZenonT(30) DEF Types
<1>9. CASE \E len \in Lengths : Handle!Write(len)
  <2>1. PICK len \in Lengths : Handle!Write(len)
    BY <1>9
  <2>2. wrote' \in Seq(Nat)
    BY <2>1 DEF Types, Handle!Write, Bounds
  <2>3. UNCHANGED <<device, driver, way, step, count, queue, inbox, chatter>>
    BY <2>1 DEF Handle!Write, Handle!TalkUnchanged
  <2> QED
    BY <2>2, <2>3 DEF Types
<1>10. CASE UNCHANGED Handle!hvars
  BY <1>10 DEF Types, Handle!hvars
<1> QED
  BY <1>1, <1>2, <1>3, <1>4, <1>5, <1>6, <1>7, <1>8, <1>9, <1>10 DEF Handle!Next

LEMMA TotalIs ==
    ASSUME queue \in Seq(Words), inbox \in Seq(Words), chatter \in Nat
    PROVE  Len(queue) \in Nat /\ Len(inbox) \in Nat /\ Total \in Nat
BY DEF Total

\* What has been read over usbfs, and what is left.
LEMMA Less ==
    ASSUME way = "usbfs", Types, Types', UNCHANGED <<inbox, chatter>>,
           NEW data, Handle!Receives(data)
    PROVE  \/ /\ queue # << >> /\ data = << queue[1] >> /\ Total' = Total - 1
              /\ Len(queue') = Len(queue) - 1
              /\ \A i \in 1 .. Len(queue') : queue'[i] = queue[i + 1]
           \/ /\ queue = << >> /\ (inbox = << >> \/ device.faulty)
              /\ data = << >> /\ Total' = Total /\ queue' = queue
<1>1. queue \in Seq(Words) /\ inbox \in Seq(Words) /\ chatter \in Nat
  BY DEF Types
<1>2. Len(queue) \in Nat /\ Len(inbox) \in Nat /\ Len(queue') \in Nat
  BY DEF Types
<1>3. \/ /\ queue # << >> /\ data = << queue[1] >> /\ queue' \in Seq(Words)
         /\ Len(queue') = Len(queue) - 1
         /\ \A i \in 1 .. Len(queue') : queue'[i] = queue[i + 1]
      \/ /\ queue = << >> /\ (inbox = << >> \/ device.faulty)
         /\ data = << >> /\ queue' = queue
  BY <1>1, OneRead
<1>4. Len(queue') = Len(queue) - 1 => Total' = Total - 1
  BY <1>1, <1>2 DEF Total
<1>5. queue' = queue => Total' = Total
  BY DEF Total
<1> QED
  BY <1>3, <1>4, <1>5

\* A module that answers as it should and was not opened through a tty.
Talks == device.mode = "normal" /\ ~device.faulty /\ way # "tty"

LEMMA ObeysKept ==
    ASSUME Bounds, Types, Types', Obeys, [Handle!Next]_(Handle!hvars) PROVE Obeys'
<1>0. /\ queue \in Seq(Words) /\ inbox \in Seq(Words) /\ chatter \in Nat /\ count \in Nat
      /\ chatter <= Chatter /\ Tries \in Nat /\ Drain \in Nat /\ Backlog \in Nat /\ Chatter \in Nat
      /\ Chatter < Tries /\ Backlog + Chatter < Drain + Tries
      /\ Total \in Nat /\ Len(queue) \in Nat /\ Len(inbox) \in Nat
  BY TotalIs DEF Types, Bounds
<1>1. CASE Handle!DetachDriver \/ Handle!Claim \/ Handle!OpenTty
  <2>1. /\ step \in {"closed", "opening"} /\ step' \in {"opening", "closed", Handle!Opened}
        /\ device' = device
        /\ UNCHANGED <<count, result, queue, inbox, chatter>>
    BY <1>1 DEF Handle!DetachDriver, Handle!Claim, Handle!OpenTty, Handle!TalkUnchanged
  <2>2. way = "none"
    BY <2>1 DEF Types
  <2>3. Handle!Opened = IF device.mode = "normal" THEN "version" ELSE "writing"
    BY DEF Handle!Opened
  <2>4. Total' = Total
    BY <2>1 DEF Total
  <2>5. device.mode \in {"normal", "edl"}
    BY DEF Types, Handle!Devices
  <2> QED
    BY <2>1, <2>2, <2>3, <2>4, <2>5 DEF Obeys
<1>2. CASE Handle!AskVersion
  <2>1. /\ step = "version" /\ UNCHANGED <<device, way, queue, chatter>> /\ count' = 0
        /\ step' = IF inbox' = inbox THEN "drain" ELSE "read"
        /\ inbox' = Append(inbox, "version") \/ (device.faulty /\ inbox' = inbox)
    BY <1>2 DEF Handle!AskVersion, Handle!TalkStep, Handle!Sends
  <2>2. Len(Append(inbox, "version")) = Len(inbox) + 1 /\ Append(inbox, "version") # inbox
    BY <1>0
  <2>3. Talks => step' = "read" /\ Total' = Total + 1
    BY <1>0, <2>1, <2>2 DEF Talks, Total
  <2> QED
    BY <1>0, <2>1, <2>3 DEF Obeys, Talks
<1>3. CASE Handle!ReadVersion
  <2>1. PICK data \in Handle!Received : Handle!Receives(data)
    BY <1>3 DEF Handle!ReadVersion
  <2>2. step = "read" /\ step' = "drain" /\ UNCHANGED <<device, way, chatter, count, inbox>>
    BY <1>3 DEF Handle!ReadVersion, Handle!TalkStep
  <2>3. count = 0 /\ device.mode # "edl"
    BY <2>2 DEF Obeys
  <2>4. ASSUME Talks PROVE Total' + count' <= Backlog + Chatter
    <3>1. way = "usbfs" /\ Total <= Backlog + Chatter + 1
      BY <2>2, <2>4 DEF Talks, Obeys, Types
    <3>2. \/ Total' = Total - 1
          \/ queue = << >> /\ inbox = << >> /\ Total' = Total
      BY <2>1, <2>2, <2>4, <3>1, Less DEF Talks
    <3>3. queue = << >> /\ inbox = << >> => Total = chatter
      BY <1>0 DEF Total
    <3> QED
      BY <1>0, <2>2, <2>3, <3>1, <3>2, <3>3
  <2> QED
    BY <2>2, <2>3, <2>4 DEF Obeys, Talks
<1>4. CASE Handle!ReadAway
  <2>1. PICK data \in Handle!Received :
           /\ Handle!Receives(data)
           /\ IF data = << >> \/ count + 1 = Drain THEN step' = "command" /\ count' = 0
                                                  ELSE step' = "drain" /\ count' = count + 1
    BY <1>4 DEF Handle!ReadAway
  <2>2. step = "drain" /\ UNCHANGED <<device, way, chatter, inbox>>
    BY <1>4 DEF Handle!ReadAway, Handle!TalkStep
  <2>3. device.mode # "edl"
    BY <2>2 DEF Obeys
  <2>4. ASSUME Talks PROVE /\ step' = "drain" => Total' + count' <= Backlog + Chatter
                           /\ step' = "command" => Total' < Tries
    <3>1. way = "usbfs" /\ Total + count <= Backlog + Chatter
      BY <2>2, <2>4 DEF Talks, Obeys, Types
    <3>2. \/ data # << >> /\ Total' = Total - 1
          \/ data = << >> /\ queue = << >> /\ inbox = << >> /\ Total' = Total
      <4>1. << queue[1] >> # << >>
        OBVIOUS
      <4> QED
        BY <2>1, <2>2, <2>4, <3>1, <4>1, Less DEF Talks
    <3>3. queue = << >> /\ inbox = << >> => Total = chatter
      BY <1>0 DEF Total
    <3>4. CASE data = << >>
      BY <1>0, <2>1, <3>2, <3>3, <3>4
    <3>5. CASE data # << >>
      <4>1. CASE count + 1 = Drain
        BY <1>0, <2>1, <3>1, <3>2, <3>5, <4>1
      <4>2. CASE count + 1 # Drain
        BY <1>0, <2>1, <3>1, <3>2, <3>5, <4>2
      <4> QED
        BY <4>1, <4>2
    <3> QED
      BY <3>4, <3>5
  <2>5. step' \in {"command", "drain"} /\ (step' = "command" => count' = 0)
    BY <2>1
  <2> QED
    BY <2>2, <2>3, <2>4, <2>5 DEF Obeys, Talks
<1>5. CASE Handle!Command
  <2>1. /\ step = "command" /\ step' = "echo" /\ UNCHANGED <<device, way, chatter, count, queue>>
        /\ inbox' = Append(inbox, "switch") \/ (device.faulty /\ inbox' = inbox)
    BY <1>5 DEF Handle!Command, Handle!TalkStep, Handle!Sends
  <2>2. count = 0 /\ device.mode # "edl"
    BY <2>1 DEF Obeys
  <2>3. ASSUME Talks PROVE EchoComes'
    <3>1. Total < Tries /\ inbox' = Append(inbox, "switch")
      BY <2>1, <2>3 DEF Talks, Obeys
    <3>2. /\ Len(inbox') = Len(inbox) + 1 /\ inbox' # << >> /\ inbox'[Len(inbox')] = "switch"
      BY <1>0, <3>1
    <3>3. Total' = Total + 1
      BY <1>0, <2>1, <3>2 DEF Total
    <3> QED
      BY <1>0, <2>1, <2>2, <3>1, <3>2, <3>3 DEF EchoComes
  <2> QED
    BY <2>1, <2>2, <2>3 DEF Obeys, Talks
<1>6. CASE Handle!AwaitEcho
  <2>1. PICK data \in Handle!Received :
           /\ Handle!Receives(data)
           /\ CASE data = << "switch" >> -> result' = "switched" /\ step' = "done"
                [] data # << "switch" >> /\ (data = << >> \/ count + 1 = Tries) ->
                       result' = "unheard" /\ step' = "done"
                [] OTHER -> UNCHANGED <<result, step>>
    BY <1>6 DEF Handle!AwaitEcho
  <2>2. step = "echo" /\ UNCHANGED <<device, way, chatter, inbox>> /\ count' = count + 1
    BY <1>6 DEF Handle!AwaitEcho, Handle!TalkStep
  <2>3. device.mode # "edl" /\ step' \in {"echo", "done"}
    BY <2>1, <2>2 DEF Obeys
  <2>4. ASSUME Talks PROVE \/ step' = "done" /\ result' = "switched"
                           \/ step' = "echo" /\ EchoComes'
    <3>1. way = "usbfs" /\ EchoComes
      BY <2>2, <2>4 DEF Talks, Obeys, Types
    <3>2. queue # << >> \/ inbox # << >>
      BY <1>0, <3>1 DEF EchoComes
    <3>3. /\ queue # << >> /\ data = << queue[1] >> /\ Total' = Total - 1
          /\ Len(queue') = Len(queue) - 1
          /\ \A i \in 1 .. Len(queue') : queue'[i] = queue[i + 1]
      BY <2>1, <2>2, <2>4, <3>1, <3>2, Less DEF Talks
    <3>4. CASE queue[1] = "switch"
      BY <2>1, <3>3, <3>4
    <3>5. CASE queue[1] # "switch" /\ inbox # << >> /\ inbox[Len(inbox)] = "switch"
               /\ count + Total <= Tries
      <4>1. data # << "switch" >> /\ data # << >>
        BY <3>3, <3>5
      <4>2. count + 1 # Tries
        <5>1. Len(queue) # 0 /\ Len(inbox) # 0
          BY <1>0, <3>3, <3>5
        <5> QED
          BY <1>0, <3>5, <5>1 DEF Total
      <4>3. step' = step
        BY <2>1, <4>1, <4>2
      <4>4. count' + Total' <= Tries
        BY <1>0, <2>2, <3>3, <3>5
      <4> QED
        BY <2>2, <3>5, <4>3, <4>4 DEF EchoComes
    <3>6. CASE queue[1] # "switch" /\ inbox = << >>
               /\ \E k \in 1 .. Len(queue) : queue[k] = "switch" /\ count + k <= Tries
      <4>1. PICK k \in 1 .. Len(queue) : queue[k] = "switch" /\ count + k <= Tries
        BY <3>6
      <4>2. k \in Nat /\ k # 1 /\ k - 1 \in 1 .. Len(queue') /\ (k - 1) + 1 = k
        BY <1>0, <3>3, <3>6, <4>1
      <4>3. data # << "switch" >> /\ data # << >>
        BY <3>3, <3>6
      <4>4. count + 1 # Tries
        BY <1>0, <4>1, <4>2
      <4>5. step' = step
        BY <2>1, <4>3, <4>4
      <4>6. queue'[k - 1] = "switch" /\ count' + (k - 1) <= Tries
        BY <1>0, <2>2, <3>3, <4>1, <4>2
      <4>7. inbox' = << >>
        BY <2>2, <3>6
      <4> QED
        BY <2>2, <4>2, <4>5, <4>6, <4>7 DEF EchoComes
    <3> QED
      BY <3>1, <3>4, <3>5, <3>6 DEF EchoComes
  <2> QED
    BY <2>2, <2>3, <2>4 DEF Obeys, Talks
<1>7. CASE Handle!Answer
  <2>1. /\ inbox # << >> /\ queue' = Append(queue, inbox[1]) /\ inbox' = Tail(inbox)
        /\ UNCHANGED <<device, way, step, count, result, chatter>>
    BY <1>7 DEF Handle!Answer
  <2>2. /\ Len(queue') = Len(queue) + 1 /\ Len(inbox') = Len(inbox) - 1 /\ Len(inbox) # 0
        /\ inbox[1] \in Words
    BY <1>0, <2>1
  <2>3. Total' = Total
    BY <1>0, <2>1, <2>2 DEF Total
  <2>4. ASSUME EchoComes PROVE EchoComes'
    <3>1. inbox[Len(inbox)] = "switch" /\ count + Total <= Tries
      BY <2>1, <2>4 DEF EchoComes
    <3>2. CASE Len(inbox) = 1
      <4>1. inbox' = << >>
        BY <1>0, <2>1, <3>2
      <4>2. Len(queue') \in 1 .. Len(queue') /\ queue'[Len(queue')] = "switch"
        BY <1>0, <2>1, <2>2, <3>1, <3>2
      <4>3. count' + Len(queue') <= Tries
        BY <1>0, <2>1, <2>2, <3>1, <3>2 DEF Total
      <4> QED
        BY <4>1, <4>2, <4>3 DEF EchoComes
    <3>3. CASE Len(inbox) > 1
      <4>1. inbox' # << >> /\ inbox'[Len(inbox')] = inbox[Len(inbox)]
        BY <1>0, <2>1, <2>2, <3>3
      <4> QED
        BY <2>1, <2>3, <3>1, <4>1 DEF EchoComes
    <3> QED
      BY <1>0, <2>2, <3>2, <3>3
  <2> QED
    BY <2>1, <2>3, <2>4 DEF Obeys
<1>8. CASE Handle!Log
  <2>1. /\ step \notin {"closed", "opening", "done"} /\ chatter > 0
        /\ queue' = Append(queue, "log") /\ chatter' = chatter - 1
        /\ UNCHANGED <<device, way, step, count, result, inbox>>
    BY <1>8 DEF Handle!Log
  <2>2. Len(queue') = Len(queue) + 1 /\ \A k \in 1 .. Len(queue) : queue'[k] = queue[k]
    BY <1>0, <2>1
  <2>3. Total' = Total
    BY <1>0, <2>1, <2>2 DEF Total
  <2>4. ASSUME EchoComes PROVE EchoComes'
    <3>1. CASE inbox # << >> /\ inbox[Len(inbox)] = "switch" /\ count + Total <= Tries
      BY <2>1, <2>3, <3>1 DEF EchoComes
    <3>2. CASE inbox = << >> /\ \E k \in 1 .. Len(queue) : queue[k] = "switch" /\ count + k <= Tries
      <4>1. PICK k \in 1 .. Len(queue) : queue[k] = "switch" /\ count + k <= Tries
        BY <3>2
      <4>2. k \in 1 .. Len(queue') /\ queue'[k] = "switch" /\ count' + k <= Tries
        BY <1>0, <2>1, <2>2, <4>1
      <4> QED
        BY <2>1, <3>2, <4>2 DEF EchoComes
    <3> QED
      BY <2>4, <3>1, <3>2 DEF EchoComes
  <2> QED
    BY <2>1, <2>3, <2>4 DEF Obeys
<1>9. CASE \E len \in Lengths : Handle!Write(len)
  <2>1. step = "writing" /\ UNCHANGED <<device, way, step, count, result, queue, inbox, chatter>>
    BY <1>9 DEF Handle!Write, Handle!TalkUnchanged
  <2> QED
    BY <2>1 DEF Obeys
<1>10. CASE UNCHANGED Handle!hvars
  <2>1. UNCHANGED <<device, way, step, count, result, queue, inbox, chatter>>
    BY <1>10 DEF Handle!hvars
  <2>2. Total' = Total /\ (EchoComes' <=> EchoComes)
    BY <2>1 DEF Total, EchoComes
  <2> QED
    BY <2>1, <2>2 DEF Obeys
<1> QED
  BY <1>1, <1>2, <1>3, <1>4, <1>5, <1>6, <1>7, <1>8, <1>9, <1>10 DEF Handle!Next

LEMMA ArrivesKept ==
    ASSUME Bounds, Types, Arrives, [Handle!Next]_(Handle!hvars) PROVE Arrives'
<1>1. ASSUME NEW len \in Lengths, Handle!Write(len) PROVE Arrives'
  <2> SUFFICES ASSUME (device.honours \/ ~device.zlp)' PROVE (taken = wrote /\ pending = 0)'
    BY DEF Arrives
  <2>1. device' = device /\ wrote' = Append(wrote, len)
    BY <1>1 DEF Handle!Write
  <2>2. taken = wrote /\ pending = 0 /\ wrote \in Seq(Nat)
    BY <2>1 DEF Arrives, Types
  <2> DEFINE packets == Handle!Packets(len, device.zlp)
             last == Handle!Taken([pending |-> 0, got |-> wrote], packets, len)[Len(packets)]
  <2>3. pending' = last.pending /\ taken' = last.got
    BY <1>1, <2>2 DEF Handle!Write
  <2>4. len \in Nat \ {0} /\ Packet \in Nat \ {0} /\ device.zlp \in BOOLEAN
    BY DEF Bounds, Types, Handle!Devices
  <2>5. last.pending = 0 /\ last.got = Append(wrote, len)
    BY <2>1, <2>2, <2>4, WholeWrite
  <2> HIDE DEF last, packets
  <2> QED
    BY <2>1, <2>3, <2>5
<1>2. ASSUME UNCHANGED <<device, wrote, pending, taken>> PROVE Arrives'
  BY <1>2 DEF Arrives
<1>3. CASE Handle!DetachDriver \/ Handle!Claim \/ Handle!OpenTty \/ Handle!Answer \/ Handle!Log
  BY <1>2, <1>3 DEF Handle!DetachDriver, Handle!Claim, Handle!OpenTty, Handle!Answer, Handle!Log,
       Handle!TransfersUnchanged
<1>4. CASE Handle!AskVersion \/ Handle!ReadVersion \/ Handle!ReadAway \/ Handle!Command \/ Handle!AwaitEcho
  BY <1>2, <1>4 DEF Handle!AskVersion, Handle!ReadVersion, Handle!ReadAway, Handle!Command,
       Handle!AwaitEcho, Handle!TalkStep, Handle!TransfersUnchanged
<1>5. CASE UNCHANGED Handle!hvars
  BY <1>2, <1>5 DEF Handle!hvars
<1> QED
  BY <1>1, <1>3, <1>4, <1>5 DEF Handle!Next

LEMMA Switched ==
    ASSUME Bounds PROVE Handle!Spec => []Handle!Understood
<1>1. Handle!Init => HandleInv
  BY HandleInit
<1>2. HandleInv /\ [Handle!Next]_(Handle!hvars) => HandleInv'
  BY TypesKept, ObeysKept, ArrivesKept DEF HandleInv
<1>3. HandleInv => Handle!Understood
  <2> SUFFICES ASSUME HandleInv, way = "usbfs", ~device.faulty, step = "done"
               PROVE  result = "switched"
    BY DEF HandleInv, Arrives, Handle!Understood
  <2>1. device.mode = "normal"
    BY DEF HandleInv, Types, Obeys, Handle!Devices
  <2> QED
    BY <2>1 DEF HandleInv, Obeys
<1> QED
  BY <1>1, <1>2, <1>3, PTL DEF Handle!Spec

-----------------------------------------------------------------------------
(* The start of a logger.                                                  *)

Filter == "TELUX_LOG_COMPONENT_FILTER"
Numeral == DOMAIN Numerals
Configuration(L) == [exists : BOOLEAN, lines : Seq(L)]

\* A configuration file has comments and settings, and a filter consists of words; a
\* word begins with one number or with none.
LoggerFiles(L) ==
    /\ \A word \in Numeral : Numerals[word] = {} \/ \E n \in Nat : Numerals[word] = {n}
    /\ \A line \in L : Logger!Setting(line) /\ line.key = Filter => line.value \in Seq(Numeral)
    /\ Starts \subseteq [{"etc_app", "dir_app", "etc_tel", "dir_tel"} -> Configuration(L)]
    /\ Contents \subseteq Configuration(L)

\* What is logged has one of the levels that a message can have.
LoggerMessages ==
    \A m \in Messages : /\ m.level \in {"PERF", "ERROR", "WARNING", "INFO", "DEBUG"}
                        /\ m.empty \in BOOLEAN

\* Every word of the filter is a component's number.
Numbered(value) ==
    value \in Seq(Numeral) /\ \A j \in 1 .. Len(value) : Logger!stoi(value[j]) \cap (0 .. 63) # {}

LoggerInv(L) ==
    /\ files \in [{"etc_app", "dir_app", "etc_tel", "dir_tel"} -> Configuration(L)]
    /\ at \in 1 .. 5
    /\ \E S : answers \in Seq(S)
    /\ pc \in {"ask", "look", "read"} => Len(answers) < 7
    /\ pc = "up" => Len(answers) = 7
    /\ pc \in {"look", "read"} => settingsMap = << >>
    /\ settingsMap = << >> => \A i \in 1 .. Len(answers) : answers[i] = << >>
    /\ Logger!OneReading
    /\ Filter \in DOMAIN settingsMap => settingsMap[Filter] \in Seq(Numeral)
    /\ pc # "dead" /\ Len(answers) >= 3 => Numbered(answers[3])
    /\ pc # "up" => shown = Logger!Nothing

LEMMA Greatest ==
    ASSUME NEW n \in Nat, NEW T, T \subseteq 1 .. n, T # {} PROVE \E x \in T : \A y \in T : x >= y
<1> DEFINE B == {k \in Nat : n - k \in T}
<1>1. PICK t \in T : TRUE
  OBVIOUS
<1>2. n - t \in B
  BY <1>1
<1> HIDE DEF B
<1>3. PICK k \in B : \A j \in B : k <= j
  <2>1. B \subseteq Nat
    BY DEF B
  <2> QED
    BY <1>2, <2>1, Least
<1>4. k \in Nat /\ n - k \in T
  BY DEF B
<1>5. ASSUME NEW y \in T PROVE n - k >= y
  <2>1. n - y \in B
    BY DEF B
  <2> QED
    BY <1>3, <1>4, <2>1
<1> QED
  BY <1>4, <1>5

\* A filter that was read is one that a line has.
LEMMA ReadFilter ==
    ASSUME NEW L, LoggerFiles(L), NEW text \in Seq(L),
           Filter \in DOMAIN Logger!readSettingsFile(text)
    PROVE  Logger!readSettingsFile(text)[Filter] \in Seq(Numeral)
<1> DEFINE settings == {i \in DOMAIN text : Logger!Setting(text[i])}
           T == {i \in settings : text[i].key = Filter}
<1>1. /\ Filter \in {text[i].key : i \in settings}
      /\ Logger!readSettingsFile(text)[Filter] = text[Logger!Max(T)].value
  BY DEF Logger!readSettingsFile
<1>2. T # {} /\ T \subseteq 1 .. Len(text)
  BY <1>1
<1>3. \E x \in T : \A y \in T : x >= y
  <2>1. Len(text) \in Nat
    OBVIOUS
  <2> HIDE DEF T
  <2> QED
    BY <1>2, <2>1, Greatest
<1>4. Logger!Max(T) \in T
  BY <1>3 DEF Logger!Max
<1>5. text[Logger!Max(T)] \in L /\ Logger!Setting(text[Logger!Max(T)]) /\ text[Logger!Max(T)].key = Filter
  BY <1>4
<1> QED
  BY <1>1, <1>5 DEF LoggerFiles

LEMMA KeyNames ==
    /\ Len(Logger!Keys) = 7
    /\ \A i \in 1 .. 7 : Logger!Keys[i] = Filter <=> i = 3
    /\ \A i \in 1 .. 7 : Logger!Keys[i] = "MAX_LOG_FILE_SIZE" <=> i = 6
BY DEF Logger!Keys, Filter

\* An answer was asked for when nothing was known, or by what is known now.
LEMMA TakeKept ==
    ASSUME NEW L, LoggerInv(L), pc \in {"ask", "read"}, NEW map, Logger!Take(map),
           settingsMap = << >> \/ settingsMap = map, settingsMap' = map,
           Filter \in DOMAIN map => map[Filter] \in Seq(Numeral),
           files' = files, shown' = shown
    PROVE  LoggerInv(L)'
<1> DEFINE value == Logger!Answer(map)
           n == Len(answers)
<1>1. PICK S : answers \in Seq(S)
  BY DEF LoggerInv
<1>2. n \in Nat /\ n < 7 /\ answers' = Append(answers, value) /\ at' = 1
  BY <1>1 DEF LoggerInv, Logger!Take
<1>3. /\ answers' \in Seq(S \cup {value}) /\ Len(answers') = n + 1 /\ answers'[n + 1] = value
      /\ \A i \in 1 .. n : answers'[i] = answers[i]
  <2>1. answers \in Seq(S \cup {value})
    BY <1>1
  <2> HIDE DEF value
  <2> QED
    BY <1>2, <2>1
<1>4. value = IF Logger!Keys[n + 1] \in DOMAIN map THEN map[Logger!Keys[n + 1]] ELSE << >>
  BY DEF Logger!Answer, Logger!Unset
<1>5. pc' \in {"dead", "up", "ask"} /\ (pc' = "up" => n + 1 = 7) /\ (pc' = "ask" => n + 1 # 7)
      /\ (pc' # "dead" => ~Logger!Throws(Logger!Keys[n + 1], value))
  BY KeyNames, Zenon DEF Logger!Take
<1> HIDE DEF value
<1>6. map = << >> => value = << >>
  <2>1. DOMAIN << >> = {}
    OBVIOUS
  <2> QED
    BY <1>4, <2>1
<1>7. (settingsMap = << >> => \A i \in 1 .. Len(answers) : answers[i] = << >>)'
  <2> SUFFICES ASSUME map = << >>, NEW i \in 1 .. n + 1 PROVE answers'[i] = << >>
    BY <1>3
  <2>1. settingsMap = << >>
    OBVIOUS
  <2>2. \A j \in 1 .. n : answers[j] = << >>
    BY <2>1 DEF LoggerInv
  <2>3. i \in 1 .. n \/ i = n + 1
    BY <1>2
  <2> QED
    BY <1>3, <1>6, <2>2, <2>3
<1>8. Logger!OneReading'
  <2> SUFFICES ASSUME NEW i \in 1 .. n + 1
               PROVE  answers'[i] \in {<< >>, IF Logger!Keys[i] \in DOMAIN map THEN map[Logger!Keys[i]] ELSE << >>}
    BY <1>3 DEF Logger!OneReading, Logger!Unset
  <2>1. CASE i = n + 1
    BY <1>3, <1>4, <2>1
  <2>2. CASE i \in 1 .. n
    <3>1. CASE settingsMap = << >>
      BY <1>3, <2>2, <3>1 DEF LoggerInv
    <3>2. CASE settingsMap = map
      BY <1>3, <2>2, <3>2 DEF LoggerInv, Logger!OneReading, Logger!Unset
    <3> QED
      BY <3>1, <3>2
  <2> QED
    BY <1>2, <2>1, <2>2
<1>9. (pc # "dead" /\ Len(answers) >= 3 => Numbered(answers[3]))'
  <2> SUFFICES ASSUME pc' # "dead", n + 1 >= 3 PROVE Numbered(answers'[3])
    BY <1>3
  <2>1. CASE n + 1 = 3
    <3>1. Logger!Keys[n + 1] = Filter
      BY KeyNames, <2>1
    <3>2. value \in Seq(Numeral)
      <4>1. << >> \in Seq(Numeral)
        OBVIOUS
      <4> QED
        BY <1>4, <3>1, <4>1
    <3>3. ~Logger!Throws(Filter, value)
      BY <1>5, <3>1
    <3> QED
      BY <1>3, <2>1, <3>2, <3>3 DEF Numbered, Logger!Throws, Filter
  <2>2. CASE n + 1 # 3
    <3>1. n >= 3 /\ 3 \in 1 .. n
      BY <1>2, <2>2
    <3>2. answers'[3] = answers[3]
      BY <1>3, <3>1
    <3>3. Numbered(answers[3])
      BY <3>1 DEF LoggerInv
    <3> QED
      BY <3>2, <3>3
  <2> QED
    BY <2>1, <2>2
<1>10. (Filter \in DOMAIN settingsMap => settingsMap[Filter] \in Seq(Numeral))'
  OBVIOUS
<1>11. /\ (pc # "up" => shown = Logger!Nothing)'
       /\ (files \in [{"etc_app", "dir_app", "etc_tel", "dir_tel"} -> Configuration(L)])'
  BY DEF LoggerInv
<1>12. (\E T : answers \in Seq(T))'
  BY <1>3
<1>13. /\ (pc \in {"ask", "look", "read"} => Len(answers) < 7)' /\ (pc = "up" => Len(answers) = 7)'
       /\ (pc \in {"look", "read"} => settingsMap = << >>)'
  BY <1>2, <1>3, <1>5
<1> QED
  BY <1>2, <1>7, <1>8, <1>9, <1>10, <1>11, <1>12, <1>13 DEF LoggerInv

LEMMA LoggerStep == ASSUME NEW L, LoggerFiles(L), LoggerInv(L), [Logger!Next]_(Logger!lvars) PROVE LoggerInv(L)'
<1>1. CASE Logger!getValue
  <2>1. CASE settingsMap = << >>
    BY <1>1, <2>1 DEF Logger!getValue, LoggerInv, Logger!OneReading
  <2>2. CASE settingsMap # << >>
    <3>1. pc = "ask" /\ Logger!Take(settingsMap) /\ UNCHANGED <<files, settingsMap, shown>>
      BY <1>1, <2>2 DEF Logger!getValue
    <3>2. Filter \in DOMAIN settingsMap => settingsMap[Filter] \in Seq(Numeral)
      BY DEF LoggerInv
    <3> QED
      BY <3>1, <3>2, TakeKept
  <2> QED
    BY <2>1, <2>2
<1>2. CASE Logger!getConfigFilePath
  <2>1. pc = "look" /\ UNCHANGED <<files, settingsMap, answers, shown>>
        /\ ((pc' = "read" /\ at' = at) \/ (at <= 4 /\ at' = at + 1 /\ pc' = pc))
    BY <1>2 DEF Logger!getConfigFilePath, Logger!Paths, LoggerInv
  <2> QED
    BY <2>1 DEF LoggerInv, Logger!OneReading
<1>3. CASE Logger!Read
  <2> DEFINE found == IF at > Len(Logger!Paths) THEN Logger!NoFile ELSE files[Logger!Paths[at]]
             map == Logger!readSettingsFile(found.lines)
  <2>1. pc = "read" /\ settingsMap = << >> /\ settingsMap' = map /\ Logger!Take(map) /\ UNCHANGED <<files, shown>>
    BY <1>3 DEF Logger!Read, LoggerInv
  <2>2. found.lines \in Seq(L)
    <3>1. CASE at > 4
      BY <3>1 DEF Logger!Paths, Logger!NoFile
    <3>2. CASE at \in 1 .. 4
      <4>1. Logger!Paths[at] \in {"etc_app", "dir_app", "etc_tel", "dir_tel"} /\ Len(Logger!Paths) = 4
        BY <3>2 DEF Logger!Paths
      <4>2. files[Logger!Paths[at]] \in Configuration(L)
        BY <4>1 DEF LoggerInv
      <4> QED
        BY <3>2, <4>1, <4>2 DEF Configuration
    <3> QED
      BY <3>1, <3>2 DEF LoggerInv
  <2>3. Filter \in DOMAIN map => map[Filter] \in Seq(Numeral)
    BY <2>2, ReadFilter
  <2> HIDE DEF map
  <2> QED
    BY <2>1, <2>3, TakeKept
<1>4. ASSUME NEW path \in DOMAIN files, NEW content \in Contents, Logger!Configure(path, content) PROVE LoggerInv(L)'
  <2>1. files' = [files EXCEPT ![path] = content] /\ UNCHANGED <<settingsMap, pc, at, answers, shown>>
    BY <1>4 DEF Logger!Configure
  <2>2. content \in Configuration(L)
    BY DEF LoggerFiles
  <2> QED
    BY <2>1, <2>2 DEF LoggerInv, Logger!OneReading
<1>5. ASSUME NEW message \in Messages, Logger!logMessage(message) PROVE LoggerInv(L)'
  <2>1. pc = "up" /\ UNCHANGED <<files, settingsMap, pc, at, answers>>
    BY <1>5 DEF Logger!logMessage
  <2> QED
    BY <2>1 DEF LoggerInv, Logger!OneReading
<1>6. CASE UNCHANGED Logger!lvars
  BY <1>6 DEF LoggerInv, Logger!OneReading, Logger!lvars
<1> QED
  BY <1>1, <1>2, <1>3, <1>4, <1>5, <1>6 DEF Logger!Next

-----------------------------------------------------------------------------
(* What a message reaches.                                                 *)

MessageLevels == {"PERF", "ERROR", "WARNING", "INFO", "DEBUG"}

\* A word is the number of one component, or of none.
LEMMA OneNumber ==
    ASSUME NEW L, LoggerFiles(L), NEW word \in Numeral
    PROVE  \/ Logger!stoi(word) = {}
           \/ \E c \in Nat : Logger!stoi(word) = {c}
BY DEF LoggerFiles, Logger!stoi

LEMMA ThirdKey == Logger!Got(Filter) = answers[3]
<1>1. (CHOOSE i \in 1 .. Len(Logger!Keys) : Logger!Keys[i] = Filter) = 3
  <2>1. 3 \in 1 .. Len(Logger!Keys) /\ Logger!Keys[3] = Filter
    BY KeyNames
  <2>2. \A i \in 1 .. Len(Logger!Keys) : Logger!Keys[i] = Filter => i = 3
    BY KeyNames
  <2> QED
    BY <2>1, <2>2
<1> QED
  BY <1>1 DEF Logger!Got

\* A level is reached exactly by the messages that it prints.
LEMMA Reached ==
    ASSUME NEW key, NEW level \in MessageLevels
    PROVE  Logger!LogLevel(key) >= Logger!LevelNumber[level] <=> level \in Logger!Configured(key)
<1> DEFINE v == Logger!Got(key)[1]
<1>1. /\ Logger!LevelNumber["NONE"] = 1 /\ Logger!LevelNumber["PERF"] = 2 /\ Logger!LevelNumber["ERROR"] = 3
      /\ Logger!LevelNumber["WARNING"] = 4 /\ Logger!LevelNumber["INFO"] = 5 /\ Logger!LevelNumber["DEBUG"] = 6
      /\ DOMAIN Logger!LevelNumber = {"NONE", "PERF", "ERROR", "WARNING", "INFO", "DEBUG"}
  BY DEF Logger!LevelNumber
<1>2. /\ Logger!Prints["NONE"] = {} /\ Logger!Prints["PERF"] = {"PERF"} /\ Logger!Prints["ERROR"] = {"PERF", "ERROR"}
      /\ Logger!Prints["WARNING"] = {"PERF", "ERROR", "WARNING"}
      /\ Logger!Prints["INFO"] = {"PERF", "ERROR", "WARNING", "INFO"}
      /\ DOMAIN Logger!Prints = {"NONE", "PERF", "ERROR", "WARNING", "INFO"}
  BY DEF Logger!Prints
<1>3. Logger!LogLevel(key) = IF Logger!Got(key) = << >> THEN 5
                             ELSE IF v \in DOMAIN Logger!Prints THEN Logger!LevelNumber[v] ELSE 6
  BY <1>1, <1>2 DEF Logger!LogLevel, Logger!getLogLevel, Logger!Unset
<1>4. Logger!Configured(key) = IF Logger!Got(key) = << >> THEN Logger!Prints["INFO"]
                               ELSE IF v \in DOMAIN Logger!Prints THEN Logger!Prints[v]
                               ELSE DOMAIN Logger!LevelNumber
  BY DEF Logger!Configured, Logger!Unset
<1> HIDE DEF v
<1>5. CASE Logger!Got(key) = << >>
  BY <1>1, <1>2, <1>3, <1>4, <1>5 DEF MessageLevels
<1>6. CASE Logger!Got(key) # << >> /\ v \notin DOMAIN Logger!Prints
  BY <1>1, <1>2, <1>3, <1>4, <1>6 DEF MessageLevels
<1>7. CASE Logger!Got(key) # << >> /\ v \in DOMAIN Logger!Prints
  <2>1. v = "NONE" \/ v = "PERF" \/ v = "ERROR" \/ v = "WARNING" \/ v = "INFO"
    BY <1>2, <1>7
  <2>2. level = "DEBUG" \/ level = "PERF" \/ level = "ERROR" \/ level = "WARNING" \/ level = "INFO"
    BY DEF MessageLevels
  <2>3. Logger!LogLevel(key) = Logger!LevelNumber[v] /\ Logger!Configured(key) = Logger!Prints[v]
    BY <1>3, <1>4, <1>7
  <2> QED
    BY <1>1, <1>2, <2>1, <2>2, <2>3
<1> QED
  BY <1>5, <1>6, <1>7

\* A component is let through exactly when the filter names it, names 0 or there is none.
LEMMA LetThrough ==
    ASSUME NEW L, LoggerFiles(L), Numbered(answers[3]), NEW component
    PROVE  Logger!isComponentLogged(component) <=>
             \/ component = 0
             \/ \E j \in 1 .. Len(Logger!Got(Filter)) : Logger!stoi(Logger!Got(Filter)[j]) \subseteq {0, component}
<1> DEFINE words == answers[3]
<1>1. words \in Seq(Numeral) /\ Logger!Got(Filter) = words
  BY ThirdKey DEF Numbered
<1>2. ASSUME NEW j \in 1 .. Len(words) PROVE \E c : Logger!stoi(words[j]) = {c}
  <2>1. Logger!stoi(words[j]) # {}
    BY DEF Numbered
  <2>2. words[j] \in Numeral
    BY <1>1
  <2> QED
    BY <2>1, <2>2, OneNumber
<1>3. ASSUME NEW c PROVE c \in Logger!componentLogFilter <=> \E j \in 1 .. Len(words) : c \in Logger!stoi(words[j])
  BY <1>1 DEF Logger!componentLogFilter, Filter
<1> HIDE DEF words
<1>4. ASSUME NEW j \in 1 .. Len(words)
      PROVE  Logger!stoi(words[j]) \subseteq {0, component}
             <=> 0 \in Logger!stoi(words[j]) \/ component \in Logger!stoi(words[j])
  <2>1. PICK c : Logger!stoi(words[j]) = {c}
    BY <1>2
  <2> QED
    BY <2>1
<1> QED
  BY <1>1, <1>3, <1>4 DEF Logger!isComponentLogged

LEMMA Printed ==
    ASSUME NEW L, LoggerFiles(L), LoggerInv(L), pc = "up", NEW m, m.level \in MessageLevels, m.empty \in BOOLEAN,
           Logger!logMessage(m)
    PROVE  Logger!AsDocumented'
<1> DEFINE passes == /\ ~m.empty
                     /\ \/ m.component = 0
                        \/ \E j \in 1 .. Len(Logger!Got(Filter)) :
                               Logger!stoi(Logger!Got(Filter)[j]) \subseteq {0, m.component}
           toConsole == m.level \in Logger!Configured("CONSOLE_LOG_LEVEL")
           toFile == m.level \in Logger!Configured("FILE_LOG_LEVEL")
<1>1. Logger!isComponentLogged(m.component) /\ ~m.empty <=> passes
  <2>1. Len(answers) = 7 /\ pc # "dead"
    BY DEF LoggerInv
  <2>2. Len(answers) >= 3
    BY <2>1
  <2>3. Numbered(answers[3])
    BY <2>1, <2>2, Zenon DEF LoggerInv
  <2> QED
    BY <2>3, LetThrough
<1>2. /\ Logger!LogLevel("CONSOLE_LOG_LEVEL") >= Logger!LevelNumber[m.level] <=> toConsole
      /\ Logger!LogLevel("FILE_LOG_LEVEL") >= Logger!LevelNumber[m.level] <=> toFile
  BY Reached
<1>3. answers' = answers /\ Logger!Got("CONSOLE_LOG_LEVEL")' = Logger!Got("CONSOLE_LOG_LEVEL")
      /\ Logger!Got("FILE_LOG_LEVEL")' = Logger!Got("FILE_LOG_LEVEL") /\ Logger!Got(Filter)' = Logger!Got(Filter)
  BY DEF Logger!logMessage, Logger!Got
<1>4. /\ shown'.message = << m >>
      /\ shown'.console <=> passes /\ toConsole
      /\ shown'.file <=> passes /\ toFile
  <2>1. CASE Logger!isLoggingEnabled(m.level, m.component)
    <3>1. shown' = Logger!writeLogMessage(m)
      BY <2>1 DEF Logger!logMessage
    <3>2. Logger!isComponentLogged(m.component)
      BY <2>1 DEF Logger!isLoggingEnabled
    <3> QED
      BY <1>1, <1>2, <3>1, <3>2, Zenon DEF Logger!writeLogMessage
  <2>2. CASE ~Logger!isLoggingEnabled(m.level, m.component)
    <3>1. shown' = [Logger!Nothing EXCEPT !.message = << m >>]
      BY <2>2 DEF Logger!logMessage
    <3>2. shown'.message = << m >> /\ shown'.console = FALSE /\ shown'.file = FALSE
      BY <3>1 DEF Logger!Nothing
    <3> QED
      BY <1>1, <1>2, <2>2, <3>2, Zenon DEF Logger!isLoggingEnabled
  <2> QED
    BY <2>1, <2>2
<1>5. Logger!Configured("CONSOLE_LOG_LEVEL")' = Logger!Configured("CONSOLE_LOG_LEVEL")
      /\ Logger!Configured("FILE_LOG_LEVEL")' = Logger!Configured("FILE_LOG_LEVEL")
  BY <1>3 DEF Logger!Configured
<1> QED
  BY <1>3, <1>4, <1>5 DEF Logger!AsDocumented, Filter

\* A logger works with one reading of one file, and a message reaches the sinks that
\* this file lets it through to, for all files, changes of them and messages
\* (Settings.cpp, Log.hpp).
LEMMA ConfiguredOnce ==
    ASSUME NEW L, LoggerFiles(L), LoggerMessages
    PROVE  Logger!Spec => []Logger!AsConfigured
<1> DEFINE Both == LoggerInv(L) /\ Logger!AsDocumented
<1>1. Logger!Init => Both
  <2> SUFFICES ASSUME Logger!Init PROVE Both
    OBVIOUS
  <2>1. /\ files \in Starts /\ settingsMap = << >> /\ pc = "ask" /\ at = 1 /\ answers = << >>
        /\ shown = Logger!Nothing
    BY DEF Logger!Init
  <2>2. shown.message = << >>
    BY <2>1 DEF Logger!Nothing
  <2>3. DOMAIN << >> = {} /\ << >> \in Seq({}) /\ Len(<< >>) = 0
    OBVIOUS
  <2>4. LoggerInv(L)
    BY <2>1, <2>3 DEF LoggerInv, LoggerFiles, Logger!OneReading
  <2> QED
    BY <2>2, <2>4 DEF Logger!AsDocumented
<1>2. Both /\ [Logger!Next]_(Logger!lvars) => Both'
  <2> SUFFICES ASSUME Both, [Logger!Next]_(Logger!lvars) PROVE Both'
    OBVIOUS
  <2>1. LoggerInv(L)'
    BY LoggerStep
  <2>2. CASE \E m \in Messages : Logger!logMessage(m)
    <3>1. PICK m \in Messages : Logger!logMessage(m)
      BY <2>2
    <3>2. pc = "up" /\ m.level \in MessageLevels /\ m.empty \in BOOLEAN
      BY <3>1 DEF Logger!logMessage, LoggerMessages, MessageLevels
    <3> QED
      BY <2>1, <3>1, <3>2, Printed
  <2>3. CASE ~(\E m \in Messages : Logger!logMessage(m))
    <3>1. shown' = shown
      BY <2>3 DEF Logger!Next, Logger!lvars, Logger!getValue, Logger!getConfigFilePath, Logger!Read,
           Logger!Configure
    <3>2. CASE pc' # "up"
      <4>1. shown.message = << >>
        BY <2>1, <3>1, <3>2 DEF LoggerInv, Logger!Nothing
      <4> QED
        BY <2>1, <3>1, <4>1 DEF Logger!AsDocumented
    <3>3. CASE pc' = "up" /\ pc # "up"
      <4>1. shown.message = << >>
        BY <3>3 DEF LoggerInv, Logger!Nothing
      <4> QED
        BY <2>1, <3>1, <4>1 DEF Logger!AsDocumented
    <3>4. CASE pc' = "up" /\ pc = "up"
      <4>1. answers' = answers
        BY <2>3, <3>4 DEF Logger!Next, Logger!lvars, Logger!getValue, Logger!getConfigFilePath, Logger!Read,
             Logger!Configure
      <4> QED
        BY <2>1, <3>1, <4>1 DEF Logger!AsDocumented, Logger!Configured, Logger!Got
    <3> QED
      BY <3>2, <3>3, <3>4
  <2> QED
    BY <2>1, <2>2, <2>3
<1>3. Both => Logger!AsConfigured
  BY DEF LoggerInv, Logger!AsConfigured
<1> QED
  BY <1>1, <1>2, <1>3, PTL DEF Logger!Spec
-----------------------------------------------------------------------------
(* Each program, among the others, keeps what it promises: a step of       *)
(* another one leaves its variables as they are.                           *)

LEMMA RunsRewrite == ProgramsSpec => Rewrite!Spec
<1>1. ProgramsInit => Rewrite!Init
  BY DEF ProgramsInit
<1>2. [ProgramsNext]_<<program, vars, lvars, avars, tvars, cvars, hvars, fvars>> => [Rewrite!Next]_(Rewrite!fvars)
  BY DEF ProgramsNext, fvars, Rewrite!fvars
<1> QED
  BY <1>1, <1>2, PTL DEF ProgramsSpec, Rewrite!Spec

LEMMA RunsTime == ProgramsSpec => Time!Spec
<1>1. ProgramsInit => Time!Init
  BY DEF ProgramsInit
<1>2. [ProgramsNext]_<<program, vars, lvars, avars, tvars, cvars, hvars, fvars>> => [Time!Next]_(Time!tvars)
  BY DEF ProgramsNext, tvars, Time!tvars
<1> QED
  BY <1>1, <1>2, PTL DEF ProgramsSpec, Time!Spec

LEMMA RunsPort == ProgramsSpec => Port!Spec
<1>1. ProgramsInit => Port!Init
  BY DEF ProgramsInit
<1>2. [ProgramsNext]_<<program, vars, lvars, avars, tvars, cvars, hvars, fvars>> => [Port!Next]_(Port!avars)
  BY DEF ProgramsNext, avars, Port!avars
<1> QED
  BY <1>1, <1>2, PTL DEF ProgramsSpec, Port!Spec

LEMMA RunsShell == ProgramsSpec => Shell!Spec
<1>1. ProgramsInit => Shell!Init
  BY DEF ProgramsInit
<1>2. [ProgramsNext]_<<program, vars, lvars, avars, tvars, cvars, hvars, fvars>> => [Shell!Next]_(Shell!cvars)
  BY DEF ProgramsNext, cvars, Shell!cvars
<1> QED
  BY <1>1, <1>2, PTL DEF ProgramsSpec, Shell!Spec

LEMMA RunsHandle == ProgramsSpec => Handle!Spec
<1>1. ProgramsInit => Handle!Init
  BY DEF ProgramsInit
<1>2. [ProgramsNext]_<<program, vars, lvars, avars, tvars, cvars, hvars, fvars>> => [Handle!Next]_(Handle!hvars)
  BY DEF ProgramsNext, hvars, Handle!hvars
<1> QED
  BY <1>1, <1>2, PTL DEF ProgramsSpec, Handle!Spec

LEMMA RunsLogger == ProgramsSpec => Logger!Spec
<1>1. ProgramsInit => Logger!Init
  BY DEF ProgramsInit
<1>2. [ProgramsNext]_<<program, vars, lvars, avars, tvars, cvars, hvars, fvars>> => [Logger!Next]_(Logger!lvars)
  BY DEF ProgramsNext, lvars, Logger!lvars
<1> QED
  BY <1>1, <1>2, PTL DEF ProgramsSpec, Logger!Spec

\* The file that addTrip leaves differs from the one it read in the thresholds of the
\* sensor and in nothing else, for every file and sensor (config.cpp).
THEOREM RewritesItsThresholds ==
    ASSUME NEW W, ConfTypes(W) PROVE ProgramsSpec => []OnlyItsThresholds
  BY Thresholding, RunsRewrite, PTL DEF OnlyItsThresholds

\* A call that returns 0 has told, or set, the server's time, for every clock, unit and
\* width of the word that carries it (time_clientl.c).
THEOREM TellsTheTruth ==
    ASSUME TimeNumbers PROVE ProgramsSpec => Truthful
  BY TimeTold, RunsTime, PTL DEF Truthful

\* A client that nothing disturbs shows its own answer, whole up to the result it
\* stopped at, for every number of clients and every answer (atcmd.cpp).
THEOREM ShowsItsOwnAnswer ==
    ASSUME NEW S, Replies \in [Clients -> Seq(S)] PROVE ProgramsSpec => []OwnAnswer
  BY AnswerShown, RunsPort, PTL DEF OwnAnswer

\* What was typed is what the radio is asked for, and each answer is printed once and
\* by the function of its own request (DemoConsoleApp.cpp).
THEOREM AnswersWhatWasAsked ==
    ASSUME Numbers \subseteq Seq(Nat) PROVE ProgramsSpec => []AnsweredAsAsked
  BY WorkAnswered, RunsShell, PTL DEF AnsweredAsAsked

\* What the stages write arrives whole and in order, and a module that obeys the
\* command to switch is heard, for every packet size, length and number of writes; the
\* program reads more answers than there are logs before and after the command
\* (usb_linux.c, qfirehose.c).
THEOREM UnderstandsTheModule ==
    ASSUME Bounds PROVE ProgramsSpec => []Understood
  BY Switched, RunsHandle, PTL DEF Understood

\* A logger works with one reading of one file, and a message reaches the sinks that
\* this file lets it through to, for all files, changes of them and messages
\* (Settings.cpp, Log.hpp).
THEOREM LogsAsConfigured ==
    ASSUME NEW L, LoggerFiles(L), LoggerMessages PROVE ProgramsSpec => []AsConfigured
  BY ConfiguredOnce, RunsLogger, PTL DEF AsConfigured
=============================================================================
