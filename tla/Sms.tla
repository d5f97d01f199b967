--------------------------------- MODULE Sms ---------------------------------
(***************************************************************************)
(* Texts on their way from one phone to another: coded by PDUEncoding or   *)
(* PDUDoEncoding, carried by a network that keeps no order, decoded by     *)
(* PDUDecoding and put together by the header that numbers the parts.      *)
(***************************************************************************)
EXTENDS SmsPdu

CONSTANTS
    Plans,      \* what is sent, a sequence of texts with their headers for each behaviour
    FirstRefs,  \* what mCSMMR may be when the first is sent
    MaxWide,    \* characters in a text that is sent as UCS2 (a bound)
    Scalars     \* code points to convert

Number    == [digits |-> << 0, 9, 3, 7, 5, 7, 5, 5, 6, 1 >>, plus |-> FALSE]
Sender    == [digits |-> << 8, 6, 1, 3, 9 >>, plus |-> TRUE]
Center    == [digits |-> << 8, 8, 9, 3, 6 >>, plus |-> TRUE]
TimeStamp == << 26, 12, 31, 23, 59, 8 >>

ASSUME SmsAssumption ==
    /\ FirstRefs \subseteq 0 .. 65535
    /\ \A plan \in Plans : \A k \in DOMAIN plan : \A i \in DOMAIN plan[k].text :
          plan[k].text[i] \in (1 .. 65535) \ Surrogates

VARIABLES
    todo,    \* texts, as code points, that are still to be sent
    mCSMMR,  \* the reference of the next long one
    sent,    \* what the receiver should read
    air,     \* PDUs under way
    inbox,   \* of the receiver: parts of texts that are not complete
    read     \* what is complete
vars == <<todo, mCSMMR, sent, air, inbox, read>>

UTF8(t) == FlattenSeq([i \in DOMAIN t |-> Put8(t[i])])
UTF16(t) == FlattenSeq([i \in DOMAIN t |-> Put16(t[i])])

Letter(bytes, h) ==
    [UD |-> bytes, UDH |-> h, OA |-> Sender, SCA |-> Center, SCTS |-> TimeStamp]

Init ==
    /\ todo \in Plans /\ mCSMMR \in FirstRefs
    /\ sent = {} /\ air = {} /\ inbox = {} /\ read = {}

\* The PDUs of a text: one, or the numbered parts of a long one.
PDUs(t, h, DCS, miei, CSMMR) ==
    LET parts == UDCSplit(UTF8(t), h, DCS, miei) IN
    [i \in DOMAIN parts |->
        SoloPDUEncoding(Number, parts[i],
            IF Len(parts) > 1 THEN UpdateUDH(h, CSMMR, Len(parts), i, miei) ELSE h, DCS)]

\* Mutant: the next long text takes the same reference.
NextSame(CSMMR) == CSMMR

NextCSMMR(CSMMR) == IF CSMMR + 1 > 65535 THEN 0 ELSE CSMMR + 1

\* A text that leaves no room is refused, NULL.
PDUDoEncoding(DCS, miei, CSMMR) ==
    LET t == Head(todo).text
        h == Head(todo).udhs
        pdus == PDUs(t, h, DCS, miei, CSMMR)
    IN  /\ todo' = Tail(todo)
        /\ air' = air \cup Range(pdus)
        /\ sent' = IF pdus = << >> THEN sent ELSE sent \cup {Letter(UTF8(t), h)}
        /\ mCSMMR' = IF Len(pdus) > 1 THEN NextCSMMR(CSMMR) ELSE CSMMR
        /\ UNCHANGED <<inbox, read>>

\* PDUEncoding begins with sms_init: the reference is 0 for every text, so that the
\* one before must have arrived.
Encode ==
    /\ todo # << >> /\ air = {}
    /\ PDUDoEncoding(IF isGSMString(UTF8(Head(todo).text)) THEN BIT7 ELSE UCS2, 0, 0)

\* A caller of PDUDoEncoding chooses the coding and the length of the reference
\* (mCSMIEI), and may have several texts under way.
EncodeNext(DCS, miei) ==
    /\ todo # << >>
    /\ IF DCS = BIT7 THEN isGSMString(UTF8(Head(todo).text)) ELSE Len(Head(todo).text) <= MaxWide
    /\ PDUDoEncoding(DCS, miei, mCSMMR)

-----------------------------------------------------------------------------
\* The service center reads SMS-SUBMIT and makes SMS-DELIVER of it: the number of
\* digits says where the address ends, in whole octets.
Filled(digits) == IF Len(digits) % 2 = 0 THEN digits ELSE Append(digits, 15)
Deliver(pdu) ==
    LET digits == Octet(pdu, 5)
        rest   == 9 + digits + (digits % 2)
        ud     == rest + 6
    IN  Hex(1 + (Len(Center.digits) + 1) \div 2) \o << 9, 1 >> \o Swapped(Filled(Center.digits))
        \o Hex(4 + (Octet(pdu, 1) \div 64) * 64)
        \o Hex(Len(Sender.digits)) \o << 9, 1 >> \o Swapped(Filled(Sender.digits))
        \o SubSeq(pdu, rest, rest + 3)
        \o FlattenSeq([k \in 1 .. 6 |-> << TimeStamp[k] % 10, TimeStamp[k] \div 10 >>]) \o << 8, 0 >>
        \o SubSeq(pdu, ud, Len(pdu))

\* The element that numbers a part: reference, total, index.
Element(part) ==
    LET E == {e \in Range(part.UDH) : e.IEI \in {0, 8}} IN
    IF E = {} THEN << << >>, 1, 1 >>
    ELSE LET IED == (CHOOSE e \in E : TRUE).IED
             n == Len(IED)
         IN  << SubSeq(IED, 1, n - 2), IED[n - 1], IED[n] >>
Siblings(part, parts) ==
    {q \in parts : Element(q)[1] = Element(part)[1] /\ Element(q)[2] = Element(part)[2]}
Assembled(parts) ==
    LET one == CHOOSE q \in parts : TRUE IN
    [UD  |-> FlattenSeq([i \in 1 .. Cardinality(parts) |-> (CHOOSE q \in parts : Element(q)[3] = i).UD]),
     UDH |-> SelectSeq(one.UDH, LAMBDA e : e.IEI \notin {0, 8}),
     OA  |-> one.OA, SCA |-> one.SCA, SCTS |-> one.SCTS]

Arrive(pdu) ==
    LET part  == PDUDecoding(Deliver(pdu))
        parts == Siblings(part, inbox \cup {part})
    IN  /\ air' = air \ {pdu}
        /\ IF {Element(q)[3] : q \in parts} = 1 .. Element(part)[2]
           THEN read' = read \cup {Assembled(parts)} /\ inbox' = inbox \ parts
           ELSE inbox' = inbox \cup {part} /\ UNCHANGED read
        /\ UNCHANGED <<todo, mCSMMR, sent>>

Done == todo = << >> /\ air = {} /\ UNCHANGED vars

Next ==
    \/ Encode
    \/ \E DCS \in {BIT7, UCS2}, miei \in {0, 8} : EncodeNext(DCS, miei)
    \/ \E pdu \in air : Arrive(pdu)
    \/ Done

Spec == Init /\ [][Next]_vars

-----------------------------------------------------------------------------
\* What arrives is what was sent: whatever the length of a text, wherever it is
\* split and in whatever order its parts come, escaped characters, headers and fill
\* bits included; two texts under way at once are not mixed up.
Delivered ==
    /\ read \subseteq sent
    /\ air = {} => inbox = {} /\ sent \subseteq read

\* No part is longer than a message may be, and each says how long it is.
FitsMessage ==
    \A pdu \in air :
        LET from   == 9 + Octet(pdu, 5) + 6
            octets == (Len(pdu) - from - 1) \div 2
        IN  /\ octets <= BIT8UDL
            /\ IF pdu[from - 3] = 8 THEN Octet(pdu, from) = octets
               ELSE (Octet(pdu, from) * 7 + 7) \div 8 = octets /\ Octet(pdu, from) <= BIT7UDL

\* Prefixes whose conversion has so much room.
Agrees(result, t, From(_), To(_), size) ==
    LET fit == {k \in 0 .. Len(t) : Len(To(SubSeq(t, 1, k))) <= size}
        n   == Max(fit)
    IN  /\ result.out = To(SubSeq(t, 1, n)) /\ result.at = Len(From(SubSeq(t, 1, n))) + 1
        /\ result.res = IF n = Len(t) THEN "ok" ELSE "targetExhausted"

UTF32(t) == t
RECURSIVE WellFormed(_)
WellFormed(s) ==
    s = << >> \/
    \E n \in 1 .. 4 :
        /\ n <= Len(s)
        /\ LET bits(k) == (IF k = 1 THEN s[1] % << 128, 32, 16, 8 >>[n] ELSE s[k] % 64) * 64 ^ (n - k)
               ch == bits(1) + (IF n > 1 THEN bits(2) ELSE 0) + (IF n > 2 THEN bits(3) ELSE 0)
                     + (IF n > 3 THEN bits(4) ELSE 0)
           IN  ch <= MaxLegal /\ ch \notin Surrogates /\ Put8(ch) = SubSeq(s, 1, n)
        /\ WellFormed(SubSeq(s, n + 1, Len(s)))

Edges == {0, 65, 127, 128, 143, 144, 159, 160, 191, 192, 193, 194, 223, 224, 237, 239, 240, 244, 245, 255}

\* utf.cpp: a conversion that has too little room stops between two characters, and
\* says where to go on; one of bytes that are not UTF-8 is refused, and no other.
\* One hole is left out by name: behind 0xED and 0xF4, isLegalUTF8 takes a second
\* byte below 0x80.
Converts ==
    sent = {} => \A c \in Scalars :
        LET t == << c, Head(todo).text[1] >> IN
        /\ \A size \in 0 .. 8 :
              /\ Agrees(ConvertUTF8toUTF16(UTF8(t), size, TRUE), t, UTF8, UTF16, size)
              /\ Agrees(ConvertUTF8toUTF32(UTF8(t), size, TRUE), t, UTF8, UTF32, size)
              /\ Agrees(ConvertUTF16toUTF8(UTF16(t), size, TRUE), t, UTF16, UTF8, size)
              /\ Agrees(ConvertUTF16toUTF32(UTF16(t), size, TRUE), t, UTF16, UTF32, size)
              /\ Agrees(ConvertUTF32toUTF8(t, size, TRUE), t, UTF32, UTF8, size)
              /\ Agrees(ConvertUTF32toUTF16(t, size, TRUE), t, UTF32, UTF16, size)
        /\ \A k \in DOMAIN UTF8(t), b \in Edges :
              LET s    == [UTF8(t) EXCEPT ![k] = b]
                  Hole == k > 1 /\ s[k - 1] \in {237, 244} /\ b < 128
              IN  Hole \/
              /\ WellFormed(s) <=> ConvertUTF8toUTF16(s, 8, TRUE).res = "ok"
              /\ WellFormed(s) <=> ConvertUTF8toUTF32(s, 8, TRUE).res = "ok"
=============================================================================
