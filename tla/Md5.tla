--------------------------------- MODULE Md5 ---------------------------------
(***************************************************************************)
(* The check of a package against its md5.txt (md5.c): how a file is cut   *)
(* into blocks and closed with its length, and which packages pass.  What  *)
(* the 64 steps of body make of a block is left out: the sum of a file is   *)
(* the sequence of the blocks it is made from.                             *)
(***************************************************************************)
EXTENDS Integers, Sequences

CONSTANTS BlockLen,    \* bytes of a block, 64
          LengthLen,   \* bytes of the length that closes the last block, 8
          ReadLen      \* bytes read from a file at a time, 256

ASSUME Md5Assumption ==
    /\ LengthLen \in Nat \ {0} /\ BlockLen \in Nat /\ BlockLen > LengthLen
    /\ ReadLen \in Nat \ {0}

-----------------------------------------------------------------------------
\* memcpy(&buffer[at], s, Len(s))
Memcpy(buffer, at, s) ==
    [i \in 1 .. BlockLen |-> IF i > at /\ i <= at + Len(s) THEN s[i - at] ELSE buffer[i]]

\* Whole pieces of n bytes, and the rest.
Pieces(s, n) == [k \in 1 .. Len(s) \div n |-> SubSeq(s, (k - 1) * n + 1, k * n)]
Rest(s, n) == SubSeq(s, (Len(s) \div n) * n + 1, Len(s))

body(ctx, blocks) == [ctx EXCEPT !.sum = @ \o blocks]

md5_begin == [lo |-> 0, buffer |-> [i \in 1 .. BlockLen |-> 0], sum |-> << >>]

md5_hash(ctx, data) ==
    LET used == ctx.lo % BlockLen
        counted == [ctx EXCEPT !.lo = @ + Len(data)]
        available == IF used = 0 THEN 0 ELSE BlockLen - used
        filled == Memcpy(ctx.buffer, used, SubSeq(data, 1, available))
        full == IF used = 0 THEN counted
                ELSE body([counted EXCEPT !.buffer = filled], << filled >>)
        left == SubSeq(data, available + 1, Len(data))
    IN  IF used # 0 /\ Len(data) < available
        THEN [counted EXCEPT !.buffer = Memcpy(@, used, data)]
        ELSE [body(full, Pieces(left, BlockLen)) EXCEPT !.buffer = Memcpy(@, 0, Rest(left, BlockLen))]

\* The number of bits, lowest byte first.
LengthBytes(lo) == [i \in 1 .. LengthLen |-> ((8 * lo) \div (256 ^ (i - 1))) % 256]

Zeros(n) == [i \in 1 .. n |-> 0]

\* The sum: a block more if the mark leaves no room for the length.
md5_end(ctx) ==
    LET used == (ctx.lo % BlockLen) + 1
        marked == [ctx EXCEPT !.buffer = Memcpy(@, used - 1, << 128 >> \o Zeros(BlockLen - used))]
        room == IF BlockLen - used < LengthLen
                THEN [body(marked, << marked.buffer >>) EXCEPT !.buffer = Zeros(BlockLen)]
                ELSE marked
        last == Memcpy(room.buffer, BlockLen - LengthLen, LengthBytes(ctx.lo))
    IN  body(room, << last >>).sum

md5sum(file) ==
    LET reads == Pieces(file, ReadLen) \o
                 (IF Len(file) % ReadLen = 0 THEN << >> ELSE << Rest(file, ReadLen) >>)
        ctx[n \in 0 .. Len(reads)] == IF n = 0 THEN md5_begin ELSE md5_hash(ctx[n - 1], reads[n])
    IN  md5_end(ctx[Len(reads)])

-----------------------------------------------------------------------------
\* Mutant: the last file decides.
CheckLineLast(d, r, line) ==
    LET sum == IF line.file \in DOMAIN d.files THEN md5sum(d.files[line.file]) ELSE r.sum
    IN  IF line.kind # "file" THEN r
        ELSE [sum |-> sum, failed |-> sum # line.sum]

\* A line of md5.txt names a file and its sum, or is passed over.  A file that
\* cannot be read leaves the sum of the one before it in the buffer.
CheckLine(d, r, line) ==
    LET sum == IF line.file \in DOMAIN d.files THEN md5sum(d.files[line.file]) ELSE r.sum
    IN  IF line.kind # "file" THEN r
        ELSE [sum |-> sum, failed |-> r.failed \/ sum # line.sum]

\* A package without md5.txt passes: its list is empty.
md5_check(d) ==
    LET result[n \in 0 .. Len(d.list)] ==
            IF n = 0 THEN [sum |-> << >>, failed |-> FALSE]
            ELSE CheckLine(d, result[n - 1], d.list[n])
    IN  ~result[Len(d.list)].failed

-----------------------------------------------------------------------------
\* RFC 1321, 3.1 to 3.4: the file, a one bit, zeros and the length, in blocks.
Sum(file) ==
    LET zeros == BlockLen - 1 - ((Len(file) + LengthLen) % BlockLen)
    IN  Pieces(file \o << 128 >> \o Zeros(zeros) \o LengthBytes(Len(file)), BlockLen)

\* Every file that md5.txt names is there and is the one it was made for.
Intact(d) ==
    \A i \in DOMAIN d.list : d.list[i].kind = "file" =>
        /\ d.list[i].file \in DOMAIN d.files
        /\ Sum(d.files[d.list[i].file]) = d.list[i].sum
=============================================================================
