----------------------------- MODULE MCFirehose -----------------------------
(* Small packages for Firehose: sector 0 is the boot loader, sectors 1 and *)
(* 2 hold a second image.                                                  *)
EXTENDS FirehoseInv, FirehosePackage, TLC

MCFaultSets == { {}, FaultKinds }

\* Sectors of four bytes.  "lost.bin" is not there.
MCFileSize == ("sbl.bin" :> 3 @@ "one.bin" :> 4 @@ "two.bin" :> 6 @@ "gpt_empty0.bin" :> 12)

Open == [tag |-> "<!--"]
Close == [tag |-> "-->"]
Text == [tag |-> "text"]
E(s, n) == [tag |-> "erase", attrs |->
    [start_sector |-> s, num_partition_sectors |-> n, SECTOR_SIZE_IN_BYTES |-> 4]]
Unsized(s, n) == [tag |-> "erase", attrs |-> [start_sector |-> s, num_partition_sectors |-> n]]
P(s, f) == [tag |-> "program", attrs |->
    [start_sector |-> s, filename |-> f, num_partition_sectors |-> 1, SECTOR_SIZE_IN_BYTES |-> 4]]
Patch(f) == [tag |-> "patch", attrs |-> [filename |-> f]]
Vendor == [tag |-> "erase", attrs |-> [vendor |-> "quectel"]]

MCPackages == {
    \* Nothing but comments and a blank line.
    << << << Open, E(0, 1), Close >>, << P(0, "") >> >> >>,
    \* The second image is missing.
    << << << P(0, "sbl.bin") >>, << P(1, "lost.bin") >> >> >>,
    \* The order of the vendor's xml, with every form of comment.
    << << << Text >>, << Open, E(2, 1), Close >>, << E(0, 1), Open, Text, Close >>,
          << Open, Text, Close, E(1, 1) >>, << P(0, "sbl.bin") >>,
          << Open >>, << P(2, "one.bin") >>, << Close >>, << P(1, "one.bin") >> >> >>,
    \* The wrong order.
    << << << P(1, "gpt_empty0.bin") >>, << E(1, 2) >>, << P(0, "sbl.bin") >>, << E(0, 1) >> >> >>,
    << << << Vendor >>, << Unsized(0, 3) >>, << P(0, "sbl.bin") >>, << P(1, "two.bin") >> >>,
       << << Patch("two.bin") >>, << Patch("DISK") >> >> >> }

\* Every form of line that Legible allows is among them.
ASSUME MCLegible == \A p \in MCPackages : Legible(p)

MCTokens == UNION {UNION {UNION {{p[i][j][k] : k \in DOMAIN p[i][j]} :
                                     j \in DOMAIN p[i]} : i \in DOMAIN p} : p \in MCPackages}
MCTables == {Parsed[p] : p \in MCPackages}
=============================================================================
