------------------------------ MODULE Progress ------------------------------
(***************************************************************************)
(* How the upgrader reports its progress (qfirehose.c, built with          *)
(* USE_IPC_FILE): a percentage, 0 at the start and -1 on an error, written *)
(* over the beginning of a file whenever it changes.                       *)
(***************************************************************************)
EXTENDS Integers, Sequences

VARIABLES
    all, transferred,   \* all_bytes_to_transfer, transfer_bytes
    lastPercent,        \* last_percent of update_transfer_bytes
    fd,                 \* ipcfd: "unopened", "open", or "closed" and never opened again
    text                \* what a reader of the file finds

progress == <<all, transferred, lastPercent, fd, text>>

Digit(d) == <<"0", "1", "2", "3", "4", "5", "6", "7", "8", "9">>[d + 1]

\* snprintf "%d" of a percentage.
Text(p) ==
    CASE p < 0           -> << "-", Digit(0 - p) >>
      [] p \in 0 .. 9    -> << Digit(p) >>
      [] p \in 10 .. 99  -> << Digit(p \div 10), Digit(p % 10) >>
      [] p \in 100 .. 999 ->
            << Digit(p \div 100), Digit((p \div 10) % 10), Digit(p % 10) >>

\* The new text over the old one, from the start of the file.
Over(new, old) == new \o SubSeq(old, Len(new) + 1, Len(old))

ProgressInit ==
    /\ all = 0 /\ transferred = 0
    /\ lastPercent = -1
    /\ fd = "unopened" /\ text = << >>

\* Mutant: the file stays open.
WriteFileKeepOpen(p) ==
    /\ fd' = "open"
    /\ text' = Over(Text(p), IF fd = "unopened" THEN << >> ELSE text)

\* update_progress_file.  100 and -1 close the file; the descriptor is kept, so
\* whatever is reported afterwards is written nowhere.
WriteFile(p) ==
    /\ fd' = IF p = 100 \/ p < 0 THEN "closed" ELSE "open"
    /\ text' = CASE fd = "unopened" -> Text(p)
                 [] fd = "open"     -> Over(Text(p), text)
                 [] fd = "closed"   -> text

\* What ends update_transfer_bytes: only a change is written.
Show(p) ==
    /\ lastPercent' = p
    /\ IF p = lastPercent THEN UNCHANGED <<fd, text>> ELSE WriteFile(p)

\* update_transfer_bytes(0), update_transfer_bytes(-1).
Report(p) == Show(p) /\ UNCHANGED <<all, transferred>>

\* set_transfer_allbytes.
SetAll(n) == all' = n /\ transferred' = 0 /\ UNCHANGED <<lastPercent, fd, text>>

\* Mutants: the percentage is rounded up; it is that of before the piece.
AddRoundsUp(n) ==
    /\ transferred' = transferred + n
    /\ Show((transferred' * 100 + all - 1) \div all)
    /\ UNCHANGED all

AddTooLate(n) ==
    /\ transferred' = transferred + n
    /\ Show((transferred * 100) \div all)
    /\ UNCHANGED all

\* update_transfer_bytes of the bytes of a piece of an image.
Add(n) ==
    /\ transferred' = transferred + n
    /\ Show((transferred' * 100) \div all)
    /\ UNCHANGED all
=============================================================================
