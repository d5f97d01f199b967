---------------------------- MODULE ThermalConfig -----------------------------
(***************************************************************************)
(* The rewriting of the thermal engine's configuration                     *)
(* (load_config/config.cpp): a copy of the file, line by line, in which    *)
(* the thresholds of one sensor are others.  A section begins with a line  *)
(* in brackets and names its sensor in one of its lines.                   *)
(***************************************************************************)
EXTENDS Integers, Sequences

CONSTANTS ConfLines,  \* what the lines may be: their words, and are they comments
          Thresholds, \* xxx, the new ones
          MaxConf     \* (a bound)

VARIABLES conf,    \* the lines that were read
          on,
          backup   \* the lines that were written
fvars == <<conf, on, backup>>

\* The copy is emptied before the first line is read.
Init == conf = << >> /\ on = FALSE /\ backup = << >>

Copied(line) == line.words = << >> \/ line.comment
Header(line) == line.words[1] = "["

\* split: the words of a line, as the spaces part them.
HasWord(line, n, w) == Len(line.words) >= n /\ line.words[n] = w

Replaced(line) ==
    IF Len(line.words) > 1 /\ HasWord(line, 1, "thresholds")
    THEN [line EXCEPT !.words = << @[1] >> \o Thresholds]
    ELSE line

\* Mutant: a section does not end.
LoadStaysOn(line) ==
    /\ Len(conf) < MaxConf /\ conf' = Append(conf, line)
    /\ IF Copied(line) THEN backup' = Append(backup, line) /\ on' = on
       ELSE IF on
       THEN backup' = Append(backup, Replaced(line)) /\ on' = TRUE
       ELSE backup' = Append(backup, line) /\ on' = HasWord(line, 2, "cpuss-0")

\* A turn of the loop: the flag is taken back by a header, and set by a line that
\* names the sensor.
Load(line) ==
    /\ Len(conf) < MaxConf /\ conf' = Append(conf, line)
    /\ IF Copied(line) THEN backup' = Append(backup, line) /\ on' = on
       ELSE IF on /\ ~Header(line)
       THEN backup' = Append(backup, Replaced(line)) /\ on' = TRUE
       ELSE backup' = Append(backup, line) /\ on' = HasWord(line, 2, "cpuss-0")

Next == \E line \in ConfLines : Load(line)

Spec == Init /\ [][Next]_fvars

-----------------------------------------------------------------------------
\* The copy has the lines of the file, but for the thresholds that stand behind the
\* sensor's name in its section: these are the new ones, and no others are, neither
\* those of the sections around it nor those in a comment.
OnlyItsThresholds ==
    /\ Len(backup) = Len(conf)
    /\ \A i \in 1 .. Len(conf) :
          LET named == \E j \in 1 .. i - 1 :
                          /\ ~Copied(conf[j]) /\ HasWord(conf[j], 2, "cpuss-0")
                          /\ \A k \in j + 1 .. i : Copied(conf[k]) \/ ~Header(conf[k])
          IN  backup[i].words =
                  IF named /\ ~conf[i].comment
                       /\ HasWord(conf[i], 1, "thresholds") /\ Len(conf[i].words) > 1
                  THEN << "thresholds" >> \o Thresholds ELSE conf[i].words
=============================================================================
