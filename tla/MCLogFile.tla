----------------------------- MODULE MCLogFile -----------------------------
(* Two processes with a thread each, or one with two.                      *)
EXTENDS LogFile, TLC

MCThreadsOf == ("p" :> {"p1", "p2"}) @@ ("q" :> {"q1"})
MCCrews == { {"p1", "q1"}, {"p1", "p2"} }
MCFaultSets == { {"kill"}, {"sem", "write"}, {"open"} }
=============================================================================
