-------------------------------- MODULE Utf --------------------------------
(***************************************************************************)
(* The conversions between UTF-8, UTF-16 and UTF-32 of utf.cpp, on         *)
(* sequences of bytes, of words and of code points.  Each converter is a   *)
(* loop over its source that stops at the first unit it cannot convert or  *)
(* has no room for; what it returns says how far it came.                  *)
(***************************************************************************)
EXTENDS Integers, SequencesExt

Surrogates == 55296 .. 57343
High       == 55296 .. 56319
Low        == 56320 .. 57343
MaxLegal   == 1114111
Replacement == 65533

\* What one turn of a loop finds: units consumed, units written; the loop goes
\* on unless it is stopped, and res is what the function returns so far.
Found(used, put)    == [used |-> used, put |-> put, res |-> "ok", stop |-> FALSE]
Stop(res)           == [used |-> 0, put |-> << >>, res |-> res, stop |-> TRUE]
Blame(used, put)    == [used |-> used, put |-> put, res |-> "sourceIllegal", stop |-> FALSE]

RECURSIVE Loop(_, _, _, _)
\* Turn(i, room) is the turn at place i with so many units of the target left.
Loop(s, room, Turn(_, _), sofar) ==
    IF sofar.at > Len(s) THEN sofar
    ELSE LET t == Turn(sofar.at, room - Len(sofar.out))
         IN  IF t.stop THEN [sofar EXCEPT !.res = t.res]
             ELSE Loop(s, room, Turn,
                       [at  |-> sofar.at + t.used, out |-> sofar.out \o t.put,
                        res |-> IF t.res = "ok" THEN sofar.res ELSE t.res])
Start == [at |-> 1, out |-> << >>, res |-> "ok"]

Fits(put, room, found) == IF Len(put) > room THEN Stop("targetExhausted") ELSE found

-----------------------------------------------------------------------------
(* Reading a character.                                                    *)

\* trailingBytesForUTF8
Trailing(b) ==
    CASE b < 192 -> 0 [] b \in 192 .. 223 -> 1 [] b \in 224 .. 239 -> 2
      [] b \in 240 .. 247 -> 3 [] b \in 248 .. 251 -> 4 [] OTHER -> 5

\* Mutant: longer forms than needed are let through.
SecondByteLong(first) ==
    CASE first = 237 -> 0 .. 159 [] first = 244 -> 0 .. 143 [] OTHER -> 128 .. 191

\* What an inner switch lets through: behind 0xED and 0xF4 it looks at the upper end alone.
SecondByte(first) ==
    CASE first = 224 -> 160 .. 191 [] first = 237 -> 0 .. 159
      [] first = 240 -> 144 .. 191 [] first = 244 -> 0 .. 143 [] OTHER -> 128 .. 191

isLegalUTF8(s) ==
    /\ Len(s) \in 1 .. 4
    /\ \A k \in 3 .. Len(s) : s[k] \in 128 .. 191
    /\ Len(s) >= 2 => s[2] \in SecondByte(s[1])
    /\ s[1] \notin 128 .. 193 /\ s[1] <= 244

OffsetsFromUTF8 == << 0, 12416, 925824, 63447168 >>
FromUTF8(s) == FoldLeft(LAMBDA ch, b : ch * 64 + b, 0, s) - OffsetsFromUTF8[Len(s)]

FromPair(high, low) == (high - 55296) * 1024 + (low - 56320) + 65536

\* One character of UTF-8: its code point, or why there is none.
Read8(s, i) ==
    LET more == Trailing(s[i]) IN
    IF i + more > Len(s) THEN [res |-> "sourceExhausted"]
    ELSE IF ~isLegalUTF8(SubSeq(s, i, i + more)) THEN [res |-> "sourceIllegal"]
    ELSE [res |-> "ok", ch |-> FromUTF8(SubSeq(s, i, i + more)), used |-> more + 1]

\* One of UTF-16: a surrogate that is alone is an error, or itself.
Read16(s, i, strict) ==
    LET alone == [res |-> IF strict THEN "sourceIllegal" ELSE "ok", ch |-> s[i], used |-> 1] IN
    IF s[i] \in High THEN
        IF i = Len(s) THEN [res |-> "sourceExhausted"]
        ELSE IF s[i + 1] \in Low THEN [res |-> "ok", ch |-> FromPair(s[i], s[i + 1]), used |-> 2]
        ELSE alone
    ELSE IF s[i] \in Low THEN alone
    ELSE [res |-> "ok", ch |-> s[i], used |-> 1]

(* Writing one.                                                            *)

BytesToWrite(ch) == IF ch < 128 THEN 1 ELSE IF ch < 2048 THEN 2 ELSE IF ch < 65536 THEN 3 ELSE 4
FirstByteMark == << 0, 192, 224, 240 >>

\* From the last byte to the first, six bits at a time.
Put8(ch) ==
    LET n == BytesToWrite(ch) IN
    [k \in 1 .. n |-> IF k = 1 THEN FirstByteMark[n] + ch \div 64 ^ (n - 1)
                      ELSE 128 + ((ch \div 64 ^ (n - k)) % 64)]

Put16(ch) ==
    IF ch <= 65535 THEN << ch >>
    ELSE << 55296 + ((ch - 65536) \div 1024), 56320 + ((ch - 65536) % 1024) >>

-----------------------------------------------------------------------------
(* The converters: source, units of room in the target, strict or lenient. *)

ConvertUTF32toUTF16(s, size, strict) ==
    LET Turn(i, room) ==
        CASE room = 0 -> Stop("targetExhausted")
          [] room > 0 /\ s[i] \in Surrogates ->
                IF strict THEN Stop("sourceIllegal") ELSE Found(1, << Replacement >>)
          [] room > 0 /\ s[i] > MaxLegal ->  \* strict goes on, without a replacement
                IF strict THEN Blame(1, << >>) ELSE Found(1, << Replacement >>)
          [] OTHER -> Fits(Put16(s[i]), room, Found(1, Put16(s[i])))
    IN  Loop(s, size, Turn, Start)

ConvertUTF16toUTF32(s, size, strict) ==
    LET Turn(i, room) ==
        LET c == Read16(s, i, strict) IN
        IF c.res # "ok" THEN Stop(c.res) ELSE Fits(<< c.ch >>, room, Found(c.used, << c.ch >>))
    IN  Loop(s, size, Turn, Start)

ConvertUTF16toUTF8(s, size, strict) ==
    LET Turn(i, room) ==
        LET c == Read16(s, i, strict) IN
        IF c.res # "ok" THEN Stop(c.res) ELSE Fits(Put8(c.ch), room, Found(c.used, Put8(c.ch)))
    IN  Loop(s, size, Turn, Start)

ConvertUTF8toUTF16(s, size, strict) ==
    LET Turn(i, room) ==
        LET c == Read8(s, i)
            bad == IF strict THEN Stop("sourceIllegal") ELSE Found(c.used, << Replacement >>)
        IN  CASE c.res # "ok" -> Stop(c.res)
              [] c.res = "ok" /\ room = 0 -> Stop("targetExhausted")
              [] c.res = "ok" /\ room > 0 /\ (c.ch \in Surrogates \/ c.ch > MaxLegal) -> bad
              [] OTHER -> Fits(Put16(c.ch), room, Found(c.used, Put16(c.ch)))
    IN  Loop(s, size, Turn, Start)

ConvertUTF32toUTF8(s, size, strict) ==
    LET Turn(i, room) ==
        CASE strict /\ s[i] \in Surrogates -> Stop("sourceIllegal")
          [] s[i] > MaxLegal -> Fits(Put8(Replacement), room, Blame(1, Put8(Replacement)))
          [] OTHER -> Fits(Put8(s[i]), room, Found(1, Put8(s[i])))
    IN  Loop(s, size, Turn, Start)

ConvertUTF8toUTF32(s, size, strict) ==
    LET Turn(i, room) ==
        LET c == Read8(s, i) IN
        CASE c.res # "ok" -> Stop(c.res)
          [] c.res = "ok" /\ room = 0 -> Stop("targetExhausted")
          [] c.res = "ok" /\ room > 0 /\ c.ch > MaxLegal -> Blame(c.used, << Replacement >>)
          [] c.res = "ok" /\ room > 0 /\ c.ch \in Surrogates ->
                IF strict THEN Stop("sourceIllegal") ELSE Found(c.used, << Replacement >>)
          [] OTHER -> Found(c.used, << c.ch >>)
    IN  Loop(s, size, Turn, Start)

\* utf8toutf16, utf32toutf8: nothing of a text that does not convert as a whole.
Whole(result) == IF result.res = "ok" THEN result.out ELSE << >>

-----------------------------------------------------------------------------
\* next_char looks at the first byte alone; it stands still at a byte that is not one.
CharBytes(b) == IF b \in 128 .. 191 \/ b > 247 THEN 0 ELSE Trailing(b) + 1

RECURSIVE utf8_get_size(_, _)
utf8_get_size(s, num) ==
    IF num = 0 \/ s = << >> THEN 0
    ELSE LET n == CharBytes(s[1]) IN n + utf8_get_size(SubSeq(s, n + 1, Len(s)), num - 1)

RECURSIVE utf8len(_)
utf8len(s) == IF s = << >> THEN 0 ELSE 1 + utf8len(SubSeq(s, CharBytes(s[1]) + 1, Len(s)))

is_acsii(s) == \A i \in DOMAIN s : s[i] < 128
=============================================================================
