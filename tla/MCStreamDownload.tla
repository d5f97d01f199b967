-------------------------- MODULE MCStreamDownload --------------------------
(* A link of transfers with refusals, and a stream without: where a read    *)
(* may swallow a refusal, TrueMeansWritten does not hold.                   *)
EXTENDS StreamDownload

MCFaultSets == { {"late", "nak", "unplug"}, {"stream", "late", "unplug"} }
=============================================================================
