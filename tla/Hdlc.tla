--------------------------------- MODULE Hdlc ---------------------------------
(***************************************************************************)
(* The framing of the stream download protocol: a packet with its check    *)
(* sum (crc_16_l_calc, compute_reply_crc), escaped between two flags       *)
(* (send_packet), and what the host makes of the bytes it reads            *)
(* (remove_escape_hdlc_flag), which leaves the check sum and the flags     *)
(* behind the first ones where they are.                                   *)
(***************************************************************************)
EXTENDS Integers, SequencesExt

Flag == 126
Escape == 125

\* 0x20 ^ b
Flip(b) == IF (b \div 32) % 2 = 1 THEN b - 32 ELSE b + 32

Bits(b) == [i \in 1 .. 8 |-> (b \div 2 ^ (i - 1)) % 2]

\* One bit through the register of CRC_16_L_POLYNOMIAL, lowest bit first; the
\* table of the code holds what eight of them do to a byte.
Shift(crc, bit) ==
    LET out == (crc[1] + bit) % 2
    IN  [i \in 1 .. 16 |-> ((IF i = 16 THEN 0 ELSE crc[i + 1])
                             + (IF i \in {4, 11, 16} THEN out ELSE 0)) % 2]

Seed == [i \in 1 .. 16 |-> 1]
Crc(s) == FoldLeft(Shift, Seed, FlattenSeq([i \in DOMAIN s |-> Bits(s[i])]))

Octet(bits) == FoldRight(LAMBDA bit, value : 2 * value + bit, bits, 0)

\* The complement, low byte first.
CheckSum(s) ==
    LET crc == Crc(s)
        inverse == [i \in 1 .. 16 |-> 1 - crc[i]]
    IN  << Octet(SubSeq(inverse, 1, 8)), Octet(SubSeq(inverse, 9, 16)) >>

Escaped(s) ==
    FlattenSeq([i \in DOMAIN s |->
        IF s[i] \in {Flag, Escape} THEN << Escape, Flip(s[i]) >> ELSE << s[i] >>])

Frame(s) == << Flag >> \o Escaped(s \o CheckSum(s)) \o << Flag >>

\* The bytes behind the first flags: an escape is left out, what follows it is
\* flipped back, and nothing else is looked at.
Unframed(s) ==
    LET first == SelectInSeq(s, LAMBDA b : b # Flag)
        body == SubSeq(s, first, Len(s))
        kept == [i \in DOMAIN body |->
                    IF body[i] = Escape THEN -1
                    ELSE IF i > 1 /\ body[i - 1] = Escape THEN Flip(body[i]) ELSE body[i]]
    IN  IF first = 0 THEN << >> ELSE SelectSeq(kept, LAMBDA b : b >= 0)

\* What a receiver that looks at flag and check sum makes of a frame: the
\* packet, or nothing.
Checked(s) ==
    LET r == Unframed(s)
        p == SubSeq(r, 1, Len(r) - 3)
    IN  IF Len(r) > 3 /\ r = p \o CheckSum(p) \o << Flag >> THEN p ELSE << >>
=============================================================================
