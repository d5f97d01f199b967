------------------------------ MODULE Upgrade ------------------------------
(***************************************************************************)
(* What the firehose stage promises about the module's flash, whatever     *)
(* happens to the cable, the target or the host on the way: no protocol,   *)
(* no threads, no messages.                                                *)
(*                                                                         *)
(*   erase* --> write images* --> [nand: write the SBL] --> succeed        *)
(*                                                                         *)
(* On nand the boot loader (SBL, the images at sector 0) is erased before  *)
(* anything else is touched, when the table erases it, and is written only *)
(* when every other image is in place.  An upgrade cut short therefore     *)
(* leaves either the old software or a module without boot loader, which   *)
(* stays in emergency download mode and can be upgraded again.             *)
(***************************************************************************)
EXTENDS FirehoseTable

VARIABLES table,     \* the command table of this upgrade
          nand,      \* the storage is nand (first_earse_and_last_programm_SBL)
          eraseAll,  \* q_erase_all_before_download
          flash,     \* what each sector holds
          outcome    \* what the upgrade has reported

vars == <<table, nand, eraseAll, flash, outcome>>

Content == {"old", "erased", "new"}

Init ==
    /\ table \in Tables
    /\ nand \in BOOLEAN
    /\ eraseAll \in BOOLEAN
    /\ flash = [s \in Sectors |-> "old"]
    /\ outcome = "running"

EraseEntry(i) ==
    /\ IsErase(table[i])
    /\ \A s \in Sectors : flash[s] # "new"
    /\ nand /\ ErasesSbl(table, eraseAll) /\ ~IsSbl(table[i]) => flash[0] = "erased"
    /\ flash' = [s \in Sectors |->
          IF s \in EraseArea(table, i, eraseAll) THEN "erased" ELSE flash[s]]
    /\ UNCHANGED <<table, nand, eraseAll, outcome>>

WriteSector(i, s) ==
    /\ IsProgram(table[i])
    /\ s \in Area(table[i])
    /\ nand /\ ErasesSbl(table, eraseAll) => flash[0] # "old"
    /\ nand /\ IsSbl(table[i]) => OthersWritten(table, flash)
    /\ flash' = [flash EXCEPT ![s] = "new"]
    /\ UNCHANGED <<table, nand, eraseAll, outcome>>

Succeed ==
    /\ outcome = "running"
    /\ Written(table, flash)
    /\ outcome' = "done"
    /\ UNCHANGED <<table, nand, eraseAll, flash>>

Fail ==
    /\ outcome = "running"
    /\ outcome' = "failed"
    /\ UNCHANGED <<table, nand, eraseAll, flash>>

Next ==
    \/ \E i \in DOMAIN table :
          EraseEntry(i) \/ \E s \in Sectors : WriteSector(i, s)
    \/ Succeed
    \/ Fail

Spec == Init /\ [][Next]_vars
=============================================================================
