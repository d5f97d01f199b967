------------------------------ MODULE BytePipe ------------------------------
(* What a transport promises for one direction: what comes out is what went *)
(* in, in order, nothing twice and nothing left out, until it is cut; after *)
(* that it promises nothing.                                                *)
EXTENDS SequencesExt

VARIABLES sent, got, cut

vars == <<sent, got, cut>>

Init == sent = << >> /\ got = << >> /\ cut = FALSE

Send    == IsStrictPrefix(sent, sent') /\ UNCHANGED <<got, cut>>
Deliver == IsStrictPrefix(got, got') /\ IsPrefix(got', sent) /\ UNCHANGED <<sent, cut>>
Cut     == cut' /\ UNCHANGED <<sent, got>>
AfterCut == cut /\ cut'

Next == Send \/ Deliver \/ Cut \/ AfterCut

Spec == Init /\ [][Next]_vars
=============================================================================
