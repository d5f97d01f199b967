--------------------------- MODULE FirehoseTable ---------------------------
(***************************************************************************)
(* The command table of the firehose stage: what rawprogram*.xml and       *)
(* patch*.xml parse to (struct fh_cmd, fh_cmd_table of struct fh_data),    *)
(* and the sectors of the flash that its entries name.  Sectors stand for  *)
(* whole blocks of the flash: the code never looks inside one.             *)
(***************************************************************************)
EXTENDS Integers, Sequences

CONSTANTS Last,    \* the last sector of the flash
          Tables   \* the tables a firmware directory may parse to

Sectors == 0 .. Last

\* A line that carries the attribute vendor="quectel" is a "vendor" entry
\* whatever its tag is.
EntryTypes == {"erase", "program", "patch", "vendor"}

\* sized: SECTOR_SIZE_IN_BYTES is not 0.  num of a program entry is the number
\* of sectors of its image file, 0 when the file cannot be read.
Entry == [type : EntryTypes, start : Nat, num : Nat, sized : BOOLEAN]

ASSUME TableAssumption ==
    /\ Last \in Nat
    /\ Tables \subseteq Seq(Entry)
    /\ \A t \in Tables : \A i \in DOMAIN t :
          t[i].type = "program" => t[i].start + t[i].num <= Last + 1

Area(e) == {s \in Sectors : e.start <= s /\ s < e.start + e.num}

\* The sectors below max_num_partition_sectors, the largest end of an erase.
EraseSpan(t) ==
    {s \in Sectors : \E i \in DOMAIN t :
        t[i].type = "erase" /\ s < t[i].start + t[i].num}

\* What an erase of entry i clears when erase-all widens it.
EraseArea(t, i, all) ==
    IF all /\ t[i].start = 0 THEN EraseSpan(t) ELSE Area(t[i])

\* fh_fixup_program_cmd leaves 0 sectors where the image is missing; the
\* upgrade is then refused before the target is touched.
WellFormed(t) ==
    /\ t # << >>
    /\ \A i \in DOMAIN t : t[i].type = "program" => t[i].num > 0

IsProgram(e) == e.type = "program"
IsErase(e) == e.type = "erase"
IsSbl(e) == e.start = 0

\* The table has an erase of the boot loader that covers sector 0.
ErasesSbl(t, all) ==
    \E i \in DOMAIN t :
        IsErase(t[i]) /\ IsSbl(t[i]) /\ 0 \in EraseArea(t, i, all)

\* Every image is completely in flash f; every one but the boot loader is.
Written(t, f) ==
    \A i \in DOMAIN t :
        IsProgram(t[i]) => \A s \in Area(t[i]) : f[s] = "new"

OthersWritten(t, f) ==
    \A i \in DOMAIN t :
        IsProgram(t[i]) /\ ~IsSbl(t[i]) => \A s \in Area(t[i]) : f[s] = "new"

Untouched(f) == \A s \in Sectors : f[s] = "old"
=============================================================================
