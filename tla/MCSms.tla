------------------------------- MODULE MCSms -------------------------------
(* A message of 28 octets or 32 septets, a fifth of the real 140 and 160:  *)
(* 25 or 24 septets in a part, 11 or 10 characters of UCS2.                *)
EXTENDS Sms

\* Letters in turn, with escaped characters at some places.
Text(n, escaped) == [i \in 1 .. n |-> IF i \in escaped THEN 123 + 2 * (i % 2) ELSE 97 + (i % 26)]
\* Two and three bytes in turn.
Wide(n) == [i \in 1 .. n |-> IF i % 2 = 0 THEN 2000 + i ELSE 19968 + i]

Header(n) == << [IEI |-> 5, IED |-> [i \in 1 .. n |-> i]] >>
Item(t, h) == [text |-> t, udhs |-> h]

Lengths == (1 .. 9) \cup (23 .. 26) \cup (31 .. 33) \cup (47 .. 51) \cup (74 .. 76)
Escapes == {{}, {25}, {24, 50}, {32}, 1 .. 3}
MCPlans ==
    {<< Item(Text(n, e), << >>) >> : n \in Lengths, e \in Escapes}
    \cup {<< Item(Text(n, {20}), Header(k)) >> : n \in {1, 20, 30}, k \in 1 .. 8}
    \cup {<< Item(Wide(n), << >>) >> : n \in (9 .. 15) \cup (20 .. 23)}
    \cup {<< Item(Wide(n), Header(3)) >> : n \in {1, 7, 8, 11, 12}}
    \cup {<< Item(<< c, 65, c >>, << >>) >> : c \in {k \in 1 .. 127 : isBIT7Same(k) \/ k \in DOMAIN UCS2ToBIT7}}
    \cup {<< Item(<< c >>, << >>) >> : c \in {2047, 2048, 55295, 57344, 65533, 65535}}
    \cup {<< Item(Text(33, {}), << >>), Item(Text(50, {25}), << >>) >>,
          << Item(Wide(15), << >>), Item(Text(15, {2}), << >>) >>,
          << Item(Wide(15), << >>), Item(Text(33, {2}), << >>) >>}

MCScalars == {1, 127, 128, 2047, 2048, 55295, 57344, 65535, 65536, 1114111}
=============================================================================
