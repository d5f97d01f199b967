----------------------------- MODULE MCSahara -----------------------------
(* A programmer of three blocks, sent through a buffer of two.             *)
EXTENDS Sahara

R(o, l) == [off |-> o, len |-> l]

\* The header, the rest, or all of it at once; out of order; past the end.
MCRanges == { R(0, 1), R(1, 2), R(2, 1), R(0, 3), R(2, 2) }

\* A first hello that is late, by itself; without a kill; without what a later run
\* mistakes; and everything at once.
MCFaultSets ==
    { {"lateHello"}, FaultKinds \ {"kill"}, FaultKinds \ {"lateHello", "garbage"}, FaultKinds }
=============================================================================
