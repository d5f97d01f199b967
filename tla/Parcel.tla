------------------------------- MODULE Parcel -------------------------------
(***************************************************************************)
(* The buffer of Parcel2.cpp, that requests and responses of the modem are *)
(* written to and read from: its size, capacity and position, how it grows *)
(* and what its operations touch.  An operator is a method: it returns the *)
(* parcel after the call with the status, or with what was read.           *)
(***************************************************************************)
EXTENDS Integers, Sequences

\* A byte that malloc left as it was.
Garbage == -1

initState ==
    [mData |-> << >>, allocated |-> FALSE, mDataSize |-> 0, mDataCapacity |-> 0,
     mDataPos |-> 0, wild |-> FALSE]

\* mData is a function of offsets; wild is set by an access outside of it.
Offsets(n) == 0 .. (n - 1)

Done(p, status) == [p |-> p, status |-> status]

pad_size(s) == ((s + 3) \div 4) * 4
dataSize(p) == IF p.mDataSize > p.mDataPos THEN p.mDataSize ELSE p.mDataPos
dataAvail(p) == dataSize(p) - p.mDataPos

-----------------------------------------------------------------------------
(* Memory; a request for more than the heap has left fails.                *)

Resized(p, n) ==
    [p EXCEPT !.mData = [i \in Offsets(n) |-> IF i < p.mDataCapacity THEN p.mData[i] ELSE Garbage],
              !.allocated = TRUE, !.mDataCapacity = n]

\* Mutant: the position stays.
RewoundSize(p) == [p EXCEPT !.mDataSize = 0]

Rewound(p) == [p EXCEPT !.mDataSize = 0, !.mDataPos = 0]

AtMost(n, limit) == IF n > limit THEN limit ELSE n
Clipped(p, desired) ==
    [p EXCEPT !.mDataSize = AtMost(p.mDataSize, desired), !.mDataPos = AtMost(p.mDataPos, desired)]

continueWrite(p, desired, heap) ==
    IF p.allocated /\ desired <= p.mDataCapacity THEN Done(Clipped(p, desired), "NO_ERROR")
    ELSE IF desired > heap THEN Done(p, "NO_MEMORY")
    ELSE IF p.allocated THEN Done(Resized(p, desired), "NO_ERROR")
    ELSE Done(Rewound(Resized(p, desired)), "NO_ERROR")

\* Mutant: what is to be written is not counted.
growDataSizeOnly(p, len, heap) ==
    LET newSize == (p.mDataSize * 3) \div 2 IN
    IF newSize <= p.mDataSize THEN Done(p, "NO_MEMORY") ELSE continueWrite(p, newSize, heap)

\* From the size and not from the position, although the position is where it is written.
growData(p, len, heap) ==
    LET newSize == ((p.mDataSize + len) * 3) \div 2 IN
    IF newSize <= p.mDataSize THEN Done(p, "NO_MEMORY") ELSE continueWrite(p, newSize, heap)

\* Both kinds of write make room, and go on without looking again.
Room(p, len, heap) ==
    IF p.mDataPos + len <= p.mDataCapacity THEN Done(p, "NO_ERROR") ELSE growData(p, len, heap)

\* realloc leaves the old block when it fails, which is enough if it is large enough;
\* for no bytes at all it gives the block back, and mData still points to it.
restartWrite(p, desired, heap) ==
    IF desired = 0 /\ p.allocated THEN Done([Rewound(p) EXCEPT !.wild = TRUE], "NO_ERROR")
    ELSE IF desired <= heap THEN Done(Rewound(Resized(p, desired)), "NO_ERROR")
    ELSE IF desired <= p.mDataCapacity THEN Done(Rewound(p), "NO_ERROR")
    ELSE Done(p, "NO_MEMORY")

Touch(p, from, len) ==
    [p EXCEPT !.wild = p.wild \/ (len > 0 /\ from + len > p.mDataCapacity)]

memcpy(p, to, bytes) ==
    [Touch(p, to, Len(bytes)) EXCEPT
        !.mData = [i \in Offsets(p.mDataCapacity) |->
                     IF i >= to /\ i < to + Len(bytes) THEN bytes[i - to + 1] ELSE p.mData[i]]]

Bytes(p, from, len) == [i \in 1 .. len |-> p.mData[from + i - 1]]

setDataSize(p, size, heap) ==
    LET r == continueWrite(p, size, heap) IN
    IF r.status = "NO_ERROR" THEN Done([r.p EXCEPT !.mDataSize = size], "NO_ERROR") ELSE r

setDataPosition(p, pos) == [p EXCEPT !.mDataPos = pos]

setDataCapacity(p, size, heap) ==
    IF size > p.mDataCapacity THEN continueWrite(p, size, heap) ELSE Done(p, "NO_ERROR")

setData(p, bytes, heap) ==
    LET r == restartWrite(p, Len(bytes), heap) IN
    IF r.status = "NO_ERROR" THEN Done([memcpy(r.p, 0, bytes) EXCEPT !.mDataSize = Len(bytes)], "NO_ERROR") ELSE r

-----------------------------------------------------------------------------
(* Writing.                                                                *)

finishWrite(p, len) ==
    LET pos == p.mDataPos + len IN
    [p EXCEPT !.mDataPos = pos, !.mDataSize = IF pos > p.mDataSize THEN pos ELSE p.mDataSize]

writeAligned(p, bytes, heap) ==
    LET r == Room(p, Len(bytes), heap) IN
    IF r.status # "NO_ERROR" THEN r
    ELSE Done(finishWrite(memcpy(r.p, r.p.mDataPos, bytes), Len(bytes)), "NO_ERROR")

\* writeInplace and the copy its callers make: the pad at the end is zero.
write(p, bytes, heap) ==
    LET padded == pad_size(Len(bytes))
        r      == Room(p, padded, heap)
    IN  IF r.status # "NO_ERROR" THEN r
        ELSE Done(finishWrite(memcpy(r.p, r.p.mDataPos, bytes \o [i \in 1 .. padded - Len(bytes) |-> 0]), padded), "NO_ERROR")

Int32(n) == << n % 256, (n \div 256) % 256, (n \div 65536) % 256, (n \div 16777216) % 256 >>

\* The length is written first, and stays if there is no memory for the rest.
writeString16(p, str, heap) ==
    LET r == writeAligned(p, Int32(Len(str) \div 2), heap) IN
    IF r.status # "NO_ERROR" THEN r ELSE write(r.p, str \o << 0, 0 >>, heap)

\* A null pointer.
writeNull16(p, heap) == writeAligned(p, Int32(-1), heap)

\* str is what from_bytes makes of the text; there is a copy of it for a while.  It does
\* not look at what writeString16 returns.
writeString8AsString16(p, str, heap) ==
    IF Len(str) > heap THEN Done(p, "NO_MEMORY")
    ELSE Done(writeString16(p, str, heap).p, "NO_ERROR")

writeCString(p, str, heap) == write(p, Append(str, 0), heap)

\* From another parcel, behind the position; the size grows by as much wherever that is.
appendFrom(p, q, offset, len, heap) ==
    CASE len = 0 -> Done(p, "NO_ERROR")
      [] len > 0 /\ offset + len > q.mDataSize -> Done(p, "BAD_VALUE")
      [] OTHER ->
            LET r == IF p.mDataSize + len > p.mDataCapacity THEN growData(p, len, heap) ELSE Done(p, "NO_ERROR") IN
            IF r.status # "NO_ERROR" THEN r
            ELSE Done([memcpy(r.p, r.p.mDataPos, Bytes(q, offset, len)) EXCEPT
                         !.mDataPos = r.p.mDataPos + len, !.mDataSize = r.p.mDataSize + len], "NO_ERROR")

-----------------------------------------------------------------------------
(* Reading: what was read, in a sequence that is empty when there was not enough. *)

Took(p, value) == [p |-> p, value |-> value]

readAligned(p, len) ==
    IF p.mDataPos + len <= p.mDataSize
    THEN Took([Touch(p, p.mDataPos, len) EXCEPT !.mDataPos = p.mDataPos + len], << Bytes(p, p.mDataPos, len) >>)
    ELSE Took(p, << >>)

\* read and readInplace
read(p, len) ==
    IF p.mDataPos + pad_size(len) <= p.mDataSize
    THEN Took([Touch(p, p.mDataPos, len) EXCEPT !.mDataPos = p.mDataPos + pad_size(len)], << Bytes(p, p.mDataPos, len) >>)
    ELSE Took(p, << >>)

\* A missing one is 0, and the upper half of the numbers is negative.
AsInt32(b) == b[1] + b[2] * 256 + b[3] * 65536 + (IF b[4] > 127 THEN b[4] - 256 ELSE b[4]) * 16777216
readInt32(p) ==
    LET r == readAligned(p, 4) IN Took(r.p, IF r.value = << >> THEN 0 ELSE AsInt32(r.value[1]))

\* A null string, and one that is cut short, is read as an empty one.
readString16(p) ==
    LET r == readInt32(p)
        s == read(r.p, (r.value + 1) * 2)
    IN  IF r.value < 0 THEN Took(r.p, << << >> >>)
        ELSE IF s.value = << >> THEN Took(s.p, << << >> >>)
        ELSE Took(s.p, << SubSeq(s.value[1], 1, r.value * 2) >>)

\* What is left is unsigned: behind the size it would be nearly all of memory.
readCString(p) ==
    LET nul == {i \in p.mDataPos .. (p.mDataSize - 1) : p.mData[i] = 0}
        eos == CHOOSE i \in nul : \A j \in nul : i <= j
        len == eos - p.mDataPos
    IN  CASE p.mDataPos > p.mDataSize -> Took([p EXCEPT !.wild = TRUE], << >>)
          [] p.mDataPos <= p.mDataSize /\ nul = {} -> Took(p, << >>)
          [] OTHER -> Took([p EXCEPT !.mDataPos = p.mDataPos + pad_size(len + 1)], << Bytes(p, p.mDataPos, len) >>)
=============================================================================
