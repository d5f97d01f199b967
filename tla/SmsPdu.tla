------------------------------- MODULE SmsPdu -------------------------------
(***************************************************************************)
(* The coding of short messages (SMS.cpp): a text is split into parts that *)
(* fit a message, each part is coded as a PDU of hexadecimal digits, and a *)
(* PDU that arrives is decoded.  A text is the bytes of its UTF-8, a       *)
(* number is its digits and whether it begins with '+', a user data header *)
(* is a sequence of elements.                                              *)
(***************************************************************************)
EXTENDS Utf

CONSTANTS
    BIT7UDL, BIT8UDL,  \* septets, and octets, in the user data of a message
    SignedChar         \* whether a char of the platform is signed

ASSUME SmsPduAssumption ==
    /\ BIT8UDL \in Nat \ {0} /\ BIT7UDL = (BIT8UDL * 8) \div 7
    /\ SignedChar \in BOOLEAN

BIT7 == 0
BIT8 == 1
UCS2 == 2

Total(f(_), s) == FoldLeft(LAMBDA n, x : n + f(x), 0, s)

-----------------------------------------------------------------------------
(* alphabet.h                                                              *)

Table(pairs) == [k \in {p[1] : p \in pairs} |-> (CHOOSE p \in pairs : p[1] = k)[2]]
map_get_value(map, key) == IF key \in DOMAIN map THEN map[key] ELSE -1

\* The characters of ASCII whose code differs, those behind the escape septet first.
Escaped == { <<12, 10>>, <<91, 60>>, <<92, 47>>, <<93, 62>>, <<94, 20>>, <<123, 40>>,
             <<124, 64>>, <<125, 41>>, <<126, 61>>, <<8364, 101>> }
Moved == { <<36, 2>>, <<64, 0>>, <<95, 17>>, <<160, 27>>, <<161, 64>>, <<163, 1>>, <<164, 36>>,
    <<165, 3>>, <<167, 95>>, <<191, 96>>, <<196, 91>>, <<197, 14>>, <<198, 28>>, <<201, 31>>,
    <<209, 93>>, <<214, 92>>, <<216, 11>>, <<220, 94>>, <<223, 30>>, <<224, 127>>, <<228, 123>>,
    <<229, 15>>, <<230, 29>>, <<231, 9>>, <<232, 4>>, <<233, 5>>, <<236, 7>>, <<241, 125>>,
    <<242, 8>>, <<246, 124>>, <<248, 12>>, <<249, 6>>, <<252, 126>>, <<915, 19>>, <<916, 16>>,
    <<920, 25>>, <<923, 20>>, <<926, 26>>, <<928, 22>>, <<931, 24>>, <<934, 18>>, <<936, 23>>, <<937, 21>> }
ESC == 27

UCS2ToBIT7  == Table(Moved \cup {<<p[1], ESC * 256 + p[2]>> : p \in Escaped})
BIT7ToUCS2  == Table({<<p[2], p[1]>> : p \in Moved})
BIT7EToUCS2 == Table({<<p[2], p[1]>> : p \in Escaped})

isBIT7Same(c) ==
    c \in (97 .. 122) \cup (65 .. 90) \cup (37 .. 63) \cup (32 .. 35) \cup {10, 13}

\* A char that is turned into a u_int16_t.
U16(byte) == IF SignedChar /\ byte > 127 THEN 65280 + byte ELSE byte

isGSMString(bytes) ==
    is_acsii(bytes) \/
    \A c \in Range(Whole(ConvertUTF8toUTF16(bytes, utf8len(bytes), TRUE))) :
        isBIT7Same(c) \/ map_get_value(UCS2ToBIT7, c) >= 0

-----------------------------------------------------------------------------
(* How much fits.                                                          *)

\* A header of so many octets takes the room of whole septets.
Septets(octets) == (octets * 8 + 6) \div 7
FillBits(UDHL)  == Septets(UDHL) * 7 - UDHL * 8

strlen(s) == IF 0 \in Range(s) THEN SelectInSeq(s, LAMBDA b : b = 0) - 1 ELSE Len(s)

\* Mutant: the octet that holds the length is not counted.
getUDHLShort(udhs) ==
    IF udhs = << >> THEN 0 ELSE Total(LAMBDA e : strlen(e.IED) + 2, udhs)

getUDHL(udhs) ==
    IF udhs = << >> THEN 0 ELSE 1 + Total(LAMBDA e : strlen(e.IED) + 2, udhs)

TakesTwo(byte) == map_get_value(UCS2ToBIT7, U16(byte)) > 255
SeptetsLength(bytes) == Len(bytes) + Total(LAMBDA b : IF TakesTwo(b) THEN 1 ELSE 0, bytes)

RECURSIVE SeptetsToChars(_, _)
\* How many of these chars fit: an escaped one is not torn apart.
SeptetsToChars(bytes, septets) ==
    IF bytes = << >> THEN 0
    ELSE LET n == IF TakesTwo(bytes[1]) THEN 2 ELSE 1 IN
         CASE n > septets -> 0 [] n = septets -> 1
           [] OTHER -> 1 + SeptetsToChars(Tail(bytes), septets - n)

RECURSIVE SplitBIT7(_, _)
SplitBIT7(bytes, room) ==
    IF bytes = << >> THEN << >>
    ELSE LET step == SeptetsToChars(bytes, room)
         IN  << SubSeq(bytes, 1, step) >> \o SplitBIT7(SubSeq(bytes, step + 1, Len(bytes)), room)

RECURSIVE SplitUCS2(_, _)
SplitUCS2(bytes, room) ==
    IF bytes = << >> THEN << >>
    ELSE LET step == utf8_get_size(bytes, room)
         IN  << SubSeq(bytes, 1, step) >> \o SplitUCS2(SubSeq(bytes, step + 1, Len(bytes)), room)

\* The header with the element that numbers the parts.
WithElement(UDHL, miei) == (IF UDHL = 0 THEN 1 ELSE UDHL) + (IF miei = 8 THEN 6 ELSE 5)

\* The parts of a text, none if there is no room for any.
UDCSplit(bytes, udhs, DCS, miei) ==
    LET room(UDHL) == IF DCS = BIT7 THEN BIT7UDL - Septets(UDHL) ELSE (BIT8UDL - UDHL) \div 2
        one  == room(getUDHL(udhs))
        many == room(WithElement(getUDHL(udhs), miei))
        size == IF DCS = BIT7 THEN SeptetsLength(bytes) ELSE utf8len(bytes)
    IN  CASE one < 1 /\ bytes # << >> -> << >>
          [] bytes = << >> \/ (one >= 1 /\ size <= one) -> << bytes >>
          [] OTHER -> IF many < 1 THEN << >>
                      ELSE IF DCS = BIT7 THEN SplitBIT7(bytes, many) ELSE SplitUCS2(bytes, many)

UpdateUDH(udhs, CSMMR, total, index, miei) ==
    << IF miei = 8 THEN [IEI |-> 8, IED |-> << CSMMR \div 256, CSMMR % 256, total, index >>]
                   ELSE [IEI |-> 0, IED |-> << CSMMR % 256, total, index >>] >> \o udhs

-----------------------------------------------------------------------------
(* Coding.                                                                 *)

Hex(n) == << n \div 16, n % 16 >>

\* "%02X" of a char: one that is negative has eight digits, of which the next byte
\* overwrites all but two.
HexChar(c) == IF SignedChar /\ c > 127 THEN << 15, 15 >> ELSE Hex(c)
HexChars(s) == FlattenSeq([i \in DOMAIN s |-> HexChar(s[i])])

\* Pairs of digits change places, the last of an odd number stays alone.
Swapped(digits) ==
    [i \in DOMAIN digits |-> IF i % 2 = 0 THEN digits[i - 1]
                             ELSE IF i = Len(digits) THEN digits[i] ELSE digits[i + 1]]

\* The length is that of the digits, and an odd number gets no filler.
DAEncoding(DA) ==
    IF DA.digits = << >> /\ ~DA.plus THEN << 0, 0, 8, 0 >>
    ELSE Hex(Len(DA.digits)) \o << IF DA.plus THEN 9 ELSE 8, 1 >> \o Swapped(DA.digits)

\* SMS-SUBMIT, with a validity of one octet; mSRR and mRD are never set.
PDUTypeEncoding(UDH) == Hex(IF UDH THEN 81 ELSE 17)
MREncoding == << 0, 0 >>
PIDEncoding == << 0, 0 >>
DCSEncoding(DCS) == IF DCS = BIT7 THEN << 0, 0 >> ELSE << 0, 8 >>
mVP == << 15, 15 >>

\* An unknown character is u_int16_t -1, which is not less than 0: two chars 0xFF.
BIT7Encoding(bytes) ==
    LET code(b) ==
          LET v == map_get_value(UCS2ToBIT7, U16(b)) % 65536 IN
          IF isBIT7Same(U16(b)) THEN << b >>
          ELSE IF v > 255 THEN << v \div 256, v % 256 >> ELSE << v >>
    IN  FlattenSeq([i \in DOMAIN bytes |-> code(bytes[i])])

\* Eight septets become seven octets, behind as many bits as make the header whole septets.
BIT7Pack(septets, UDHL) ==
    LET n == Len(septets)
        packed[i \in 0 .. n] ==
          IF i = 0 THEN [out |-> << >>, left |-> 0]
          ELSE LET before == packed[i - 1]
                   index  == (i + 7 - FillBits(UDHL)) % 8
               IN  IF index = 0 THEN [before EXCEPT !.left = septets[i]]
                   ELSE [out  |-> Append(before.out, (septets[i] * 2 ^ (8 - index) + before.left) % 256),
                         left |-> septets[i] \div 2 ^ index]
    IN  packed[n].out \o (IF (n * 7 + FillBits(UDHL)) % 8 # 0 THEN << packed[n].left >> ELSE << >>)

UDHEncoding(udhs) ==
    IF udhs = << >> THEN << >>
    ELSE LET IED == Last(udhs).IED IN
         Hex(Total(LAMBDA e : Len(e.IED) + 2, udhs)) \o
         FlattenSeq([i \in DOMAIN udhs |->
             HexChar(udhs[i].IEI) \o Hex(Len(udhs[i].IED)) \o HexChars(udhs[i].IED)])
         \o (IF SignedChar /\ IED # << >> /\ Last(IED) > 127
             THEN << 15, 15, 15, 15 >> \o Hex(Last(IED)) ELSE << >>)

\* The length of a body, in septets or octets, and its octets.
UDCEncoding(bytes, UDHL, DCS) ==
    LET septets == BIT7Encoding(bytes)
        words   == Whole(ConvertUTF8toUTF16(bytes, utf8len(bytes), TRUE))
    IN  IF DCS = BIT7 THEN [UDCL |-> Len(septets), body |-> BIT7Pack(septets, UDHL)]
        ELSE [UDCL |-> 2 * Len(words),
              body |-> FlattenSeq([i \in DOMAIN words |-> << words[i] \div 256, words[i] % 256 >>])]

\* The length of all is in septets or in octets, the header's included.
UDEncoding(bytes, udhs, DCS) ==
    LET UDHL == IF udhs = << >> THEN 0 ELSE 1 + Total(LAMBDA e : Len(e.IED) + 2, udhs)
        UDC  == UDCEncoding(bytes, UDHL, DCS)
    IN  Hex((IF DCS = BIT7 THEN Septets(UDHL) ELSE UDHL) + UDC.UDCL)
        \o UDHEncoding(udhs) \o FlattenSeq([i \in DOMAIN UDC.body |-> Hex(UDC.body[i])])

SoloPDUEncoding(DA, bytes, udhs, DCS) ==
    PDUTypeEncoding(udhs # << >>) \o MREncoding \o DAEncoding(DA) \o PIDEncoding
    \o DCSEncoding(DCS) \o mVP \o UDEncoding(bytes, udhs, DCS)

-----------------------------------------------------------------------------
(* Decoding; index is the place of a digit, from 1.                        *)

Octet(data, index) == data[index] * 16 + data[index + 1]

SCADecoding(data) ==
    LET len == Octet(data, 1)
        all == Swapped(SubSeq(data, 5, (len + 1) * 2))
    IN  IF len = 0 THEN [SCA |-> << >>, plus |-> FALSE, end |-> 3]
        ELSE [plus |-> Octet(data, 3) = 145, end |-> (len + 1) * 2 + 1,
              SCA  |-> IF Last(all) = 15 THEN Front(all) ELSE all]

OADecoding(data, index) ==
    LET len == Octet(data, index)
        odd == len % 2
        all == Swapped(SubSeq(data, index + 4, index + 3 + len + odd))
    IN  IF len = 0 THEN [OA |-> << >>, plus |-> FALSE, end |-> index + 2]
        ELSE [plus |-> Octet(data, index + 2) = 145, end |-> index + 4 + len + odd,
              OA   |-> IF odd = 1 THEN Front(all) ELSE all]

BCDDecoding(data, index) == data[index + 1] * 10 + data[index]
SCTSDecoding(data, index) == [k \in 1 .. 6 |-> BCDDecoding(data, index + 2 * k - 2)]

RECURSIVE Elements(_, _, _)
Elements(data, index, len) ==
    IF len <= 0 THEN << >>
    ELSE LET IEDL == Octet(data, index + 2) IN
         << [IEI |-> Octet(data, index),
             IED |-> [j \in 1 .. IEDL |-> Octet(data, index + 2 + 2 * j)]] >>
         \o Elements(data, index + 4 + 2 * IEDL, len - IEDL - 2)
UDHDecoding(data, index) == Elements(data, index + 2, Octet(data, index))

\* The septets that octets from index on hold, behind the fill bits.
BIT7Unpack(data, index, size, fill) ==
    LET n == (size * 7 + fill + 7) \div 8
        unpacked[i \in 0 .. n] ==
          IF i = 0 THEN [out |-> << >>, left |-> 0]
          ELSE LET before == unpacked[i - 1]
                   order  == (i + 6 - fill) % 7
                   value  == Octet(data, index + 2 * i - 2)
                   now    == IF i # 1 \/ fill = 0
                             THEN Append(before.out, (value * 2 ^ order + before.left) % 128)
                             ELSE before.out
                   left   == value \div 2 ^ (7 - order)
               IN  CASE order # 6 -> [out |-> now, left |-> left]
                     [] order = 6 /\ Len(now) = size -> [out |-> now, left |-> left]
                     [] OTHER -> [out |-> Append(now, left), left |-> 0]
    IN  unpacked[n].out

RECURSIVE BIT7Decoding(_)
\* "%c" of what is found: the low byte of a character, and 0xFF for an escape not in the table.
BIT7Decoding(septets) ==
    IF septets = << >> THEN << >>
    ELSE LET key  == Head(septets)
             rest == Tail(septets)
             escape == map_get_value(BIT7EToUCS2, Head(rest))
         IN  CASE isBIT7Same(key) -> << key >> \o BIT7Decoding(rest)
               [] key = ESC /\ rest # << >> -> << escape % 256 >> \o BIT7Decoding(Tail(rest))
               [] OTHER -> << IF map_get_value(BIT7ToUCS2, key) >= 0
                              THEN BIT7ToUCS2[key] % 256 ELSE 63 >> \o BIT7Decoding(rest)

UserDataDecoding(data, index, UDHI, DCS) ==
    LET UDL  == Octet(data, index)
        UDHL == IF UDHI THEN Octet(data, index + 2) + 1 ELSE 0
        from == index + 2 + 2 * UDHL
        word(i) == Octet(data, from + 4 * i - 4) * 256 + Octet(data, from + 4 * i - 2)
    IN  CASE DCS = UCS2 ->
               FlattenSeq([i \in 1 .. (UDL - UDHL) \div 2 |-> Whole(ConvertUTF32toUTF8(<< word(i) >>, 3, TRUE))])
          [] DCS = BIT7 ->
               BIT7Decoding(BIT7Unpack(data, from, UDL - Septets(UDHL), FillBits(UDHL)))
          [] OTHER -> [i \in 1 .. UDL - UDHL |-> Octet(data, from + 2 * i - 2)]

PDUDecoding(data) ==
    LET sca  == SCADecoding(data)
        type == Octet(data, sca.end)
        UDHI == (type \div 64) % 2 = 1
        oa   == OADecoding(data, sca.end + 2)
        DCS  == (Octet(data, oa.end + 2) \div 4) % 4
        ud   == oa.end + 4 + 14
    IN  [SCA  |-> [digits |-> sca.SCA, plus |-> sca.plus], OA |-> [digits |-> oa.OA, plus |-> oa.plus],
         MTI  |-> type % 4, SCTS |-> SCTSDecoding(data, oa.end + 4),
         UDH  |-> IF UDHI THEN UDHDecoding(data, ud + 2) ELSE << >>,
         UD   |-> UserDataDecoding(data, ud, UDHI, DCS)]
=============================================================================
