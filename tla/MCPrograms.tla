----------------------------- MODULE MCPrograms -----------------------------
(***************************************************************************)
(* One run checks what each of the programs promises.                      *)
(***************************************************************************)
EXTENDS Programs

\* Items of every kind.
Item(kind, bytes) == [kind |-> kind, bytes |-> bytes]
MCItems ==
    {Item("aligned", << 1, 0, 0, 0 >>), Item("aligned", << 0, 0, 0, 0 >>), Item("raw", << 3, 0, 1, 2, 3 >>),
     Item("cstring", << 2, 1, 3 >>), Item("string16", << 1, 0, 0, 2 >>),
     Item("string8", << 2, 0 >>), Item("null16", << >>)}

\* Configuration files: none, one of comments, two that differ in every setting, one
\* with values that are no numbers or too large, and one whose settings come late.
Is(key, value) == [kind |-> "setting", key |-> key, value |-> value]
Text(settings) == [exists |-> TRUE, lines |-> settings]
Absent == [exists |-> FALSE, lines |-> << >>]
MCNumerals ==
    [word \in {"0", "1", "2", "63", "64", "5", "5M", "x"} |->
        CASE word = "0" -> {0} [] word = "1" -> {1} [] word = "2" -> {2} [] word = "63" -> {63}
          [] word = "64" -> {64} [] word \in {"5", "5M"} -> {5} [] word = "x" -> {}]
Comment == Text(<< [kind |-> "comment"] >>)
Quiet == Text(<< Is("FILE_LOG_LEVEL", << "ERROR" >>), Is("CONSOLE_LOG_LEVEL", << "NONE" >>),
                 Is("TELUX_LOG_COMPONENT_FILTER", << "1", "63" >>) >>)
Loud == Text(<< [kind |-> "comment"], Is("FILE_LOG_LEVEL", << "INFO\r" >>),
                Is("CONSOLE_LOG_LEVEL", << "NONE" >>), Is("CONSOLE_LOG_LEVEL", << "PERF" >>),
                Is("TELUX_LOG_COMPONENT_FILTER", << "0" >>), Is("MAX_LOG_FILE_SIZE", << "5M" >>) >>)
NoNumber == Text(<< Is("TELUX_LOG_COMPONENT_FILTER", << >>), Is("MAX_LOG_FILE_SIZE", << "x" >>) >>)
TooLarge == Text(<< Is("TELUX_LOG_COMPONENT_FILTER", << "64" >>) >>)
Late == Text(<< Is("LOG_PREFIX_DATE_TIME", << "TRUE" >>), Is("FILE_LOG_LEVEL", << "WARNING" >>) >>)
Places == {"etc_app", "dir_app", "etc_tel", "dir_tel"}
MCStarts ==
    {f \in [Places -> {Absent, Comment, Quiet, Loud, NoNumber, TooLarge, Late}] :
        Cardinality({p \in Places : f[p] # Absent}) <= 1}
MCContents == {Absent, Comment, Quiet, Loud}
MCMessages ==
    [level : {"PERF", "ERROR", "WARNING", "INFO", "DEBUG"}, component : {0, 1, 2}, empty : {FALSE}]
        \cup {[level |-> "PERF", component |-> 1, empty |-> TRUE]}

MCReplies == [c \in Clients |-> IF c = "c1" THEN << "echo", "OK", "\r" >> ELSE << "ERROR", "\r" >>]

MCLines ==
    {<< >>, << "?" >>, << "q" >>, << "1" >>, << "2" >>, << "DIAL" >>, << "4" >>, << "5", "now" >>, << "5" >>,
     << "6" >>, << "8" >>, << "get", "imsi" >>}
MCNumbers == {<< >>, << 1, 2, 3, 4 >>, << 5 >>}

Words(comment, words) == [comment |-> comment, words |-> words]
MCConfLines ==
    {Words(FALSE, << "[" >>), Words(FALSE, << "[", "cpuss-0" >>), Words(FALSE, << "sensor", "cpuss-0" >>),
     Words(TRUE, << "sensor", "cpuss-0" >>), Words(FALSE, << "thresholds", "90000" >>),
     Words(FALSE, << "thresholds" >>), Words(FALSE, << >>)}

MCThresholds == << "90001", "100001" >>
=============================================================================
