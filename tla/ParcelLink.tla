----------------------------- MODULE ParcelLink -----------------------------
(***************************************************************************)
(* Two parcels in use: a client writes items to one, with a heap that may  *)
(* be short and a first item that is filled in later, and hands its bytes  *)
(* to the other, which is read item by item and used again for the next    *)
(* message.                                                                *)
(***************************************************************************)
EXTENDS Parcel

CONSTANTS
    Items,        \* what can be written: kind and bytes
    Heaps,        \* how much a request may ask for
    Sizes,        \* of the buffer that a client reserves
    MaxItems,     \* that are written, all messages together (a bound)
    MaxMessages,  \* (a bound)
    MaxFailures   \* requests that a short heap refuses (a bound)

Kinds == {"aligned", "raw", "cstring", "string16", "string8", "null16"}

\* More than this is refused as a number that was negative.
INT32_MAX == 2147483647

\* A C string has no zero in it, and the other strings are of units of two bytes.
ASSUME ParcelAssumption ==
    /\ MaxItems \in Nat /\ MaxMessages \in Nat /\ MaxFailures \in Nat
    /\ Heaps \subseteq Nat /\ Sizes \subseteq Nat
    /\ \A item \in Items : item.kind \in Kinds /\ item.bytes \in Seq(0 .. 255)
    /\ \A item \in Items : item.kind = "aligned" => Len(item.bytes) \in {4, 8}
    /\ \A item \in Items : item.kind = "raw" => item.bytes # << >>
    /\ \A item \in Items : item.kind = "cstring" => \A k \in 1 .. Len(item.bytes) : item.bytes[k] # 0
    /\ \A item \in Items : item.kind \in {"string16", "string8"} => Len(item.bytes) % 2 = 0
    /\ \A item \in Items : Len(item.bytes) + 4 <= INT32_MAX

VARIABLES
    out,       \* the parcel that is written
    in,        \* the parcel that is read
    packed,    \* the items of out
    sent,      \* the items of in
    got,       \* what was read
    lost,      \* an item was read as another: nobody knows what follows
    messages,
    written,
    failures
vars == <<out, in, packed, sent, got, lost, messages, written, failures>>

Init ==
    /\ out = initState /\ in = initState
    /\ packed = << >> /\ sent = << >> /\ got = << >>
    /\ lost = FALSE /\ messages = 0 /\ written = 0 /\ failures = 0

Marshal(p, item, heap) ==
    CASE item.kind = "aligned"  -> writeAligned(p, item.bytes, heap)
      [] item.kind = "raw"      -> write(p, item.bytes, heap)
      [] item.kind = "cstring"  -> writeCString(p, item.bytes, heap)
      [] item.kind = "string16" -> writeString16(p, item.bytes, heap)
      [] item.kind = "string8"  -> writeString8AsString16(p, item.bytes, heap)
      [] item.kind = "null16"   -> writeNull16(p, heap)

Unmarshal(p, item) ==
    CASE item.kind = "aligned" -> readAligned(p, Len(item.bytes))
      [] item.kind = "raw"     -> read(p, Len(item.bytes))
      [] item.kind = "cstring" -> readCString(p)
      [] OTHER                 -> readString16(p)

\* A null string comes back as an empty one.
Value(item) == IF item.kind = "null16" THEN << >> ELSE item.bytes

\* A client that was refused takes back what the call has left; writeString8AsString16
\* does not say that it was.
Write(item, heap) ==
    LET r == Marshal(out, item, heap) IN
    /\ messages < MaxMessages /\ written < MaxItems
    /\ written' = written + 1
    /\ item.kind = "string8" => writeString16(out, item.bytes, heap).status = "NO_ERROR"
    /\ IF r.status = "NO_ERROR"
       THEN out' = r.p /\ packed' = Append(packed, item) /\ UNCHANGED failures
       ELSE /\ failures < MaxFailures /\ failures' = failures + 1
            /\ out' = setDataSize(r.p, out.mDataSize, heap).p
            /\ UNCHANGED packed
    /\ UNCHANGED <<in, sent, got, lost, messages>>

Reserve(size, heap) ==
    LET r == setDataCapacity(out, size, heap) IN
    /\ messages < MaxMessages /\ packed = << >> /\ out.mDataCapacity < size
    /\ out' = r.p /\ failures' = IF r.status = "NO_ERROR" THEN failures ELSE failures + 1
    /\ failures' <= MaxFailures
    /\ UNCHANGED <<in, packed, sent, got, lost, messages, written>>

\* A place that was kept free in front is filled in at last.
FillIn(item, heap) ==
    LET end == dataSize(out)
        r   == writeAligned(setDataPosition(out, 0), item.bytes, heap)
    IN  /\ Len(packed) > 1 /\ packed[1].kind = "aligned" /\ item.kind = "aligned"
        /\ Len(item.bytes) = Len(packed[1].bytes) /\ item # packed[1]
        /\ out' = setDataPosition(r.p, end) /\ packed' = [packed EXCEPT ![1] = item]
        /\ UNCHANGED <<in, sent, got, lost, messages, written, failures>>

\* What was not read yet goes on to the other side.
Forward(heap) ==
    LET r == appendFrom(out, in, in.mDataPos, dataAvail(in), heap)
        rest == SubSeq(sent, Len(got) + 1, Len(sent))
    IN  /\ messages < MaxMessages /\ ~lost /\ dataAvail(in) > 0 /\ Len(packed) + Len(rest) <= MaxItems
        /\ out' = r.p
        /\ IF r.status = "NO_ERROR" THEN packed' = packed \o rest /\ UNCHANGED failures
           ELSE failures < MaxFailures /\ failures' = failures + 1 /\ UNCHANGED packed
        /\ UNCHANGED <<in, sent, got, lost, messages, written>>

\* The bytes reach the other parcel, and the first is emptied for the next message.
Send(heap) ==
    LET bytes == Bytes(out, 0, dataSize(out))
        r     == setData(in, bytes, heap)
    IN  /\ messages < MaxMessages /\ packed # << >>
        /\ messages' = messages + 1
        /\ out' = setDataSize(out, 0, heap).p /\ packed' = << >>
        /\ in' = r.p
        /\ IF r.status = "NO_ERROR"
           THEN sent' = packed /\ got' = << >> /\ lost' = FALSE /\ UNCHANGED failures
           ELSE failures < MaxFailures /\ failures' = failures + 1 /\ UNCHANGED <<sent, got, lost>>
        /\ UNCHANGED written

Read ==
    LET r == Unmarshal(in, sent[Len(got) + 1]) IN
    /\ ~lost /\ Len(got) < Len(sent)
    /\ in' = r.p /\ got' = Append(got, r.value)
    /\ UNCHANGED <<out, packed, sent, lost, messages, written, failures>>

\* A reader that expects something else, or more than there is.
Misread(item) ==
    /\ in' = Unmarshal(in, item).p /\ lost' = TRUE /\ got' = << >> /\ sent' = << >>
    /\ UNCHANGED <<out, packed, messages, written, failures>>

Next ==
    \/ \E item \in Items, heap \in Heaps : Write(item, heap) \/ FillIn(item, heap)
    \/ \E size \in Sizes, heap \in Heaps : Reserve(size, heap)
    \/ \E heap \in Heaps : Forward(heap) \/ Send(heap)
    \/ Read
    \/ \E item \in Items : Misread(item)

Spec == Init /\ [][Next]_vars

-----------------------------------------------------------------------------
\* No call reads or writes beyond the block of its parcel, whatever was written
\* and refused before, and whatever a reader takes the bytes for.
InBounds == ~out.wild /\ ~in.wild

\* What is read is what was written, in that order: pads, failures in the middle of
\* a string, an item filled in late and forwarded ones included; and nothing is left
\* over at the end.
ReadsBack ==
    /\ \A i \in 1 .. Len(got) : got[i] = << Value(sent[i]) >>
    /\ ~lost => (Len(got) = Len(sent) <=> dataAvail(in) = 0)
=============================================================================
