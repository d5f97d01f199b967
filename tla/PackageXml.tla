------------------------------ MODULE PackageXml ------------------------------
(***************************************************************************)
(* The xml files of a firmware package and the command table they parse to *)
(* (fh_parse_xml_file, fh_parse_xml_line, fh_fixup_program_cmd).  A line   *)
(* is the sequence of its tokens: the ends of comments and the elements,   *)
(* each of the form <tag key="value" .../>, with its attributes by key.    *)
(***************************************************************************)
EXTENDS Integers, SequencesExt

CONSTANT FileSize   \* bytes of each image in the firmware directory, by name

Opens(t) == t.tag = "<!--"
Closes(t) == t.tag = "-->"
Tags == {"erase", "program", "patch"}
IsElement(t) == t.tag \in Tags
Has(l, P(_)) == SelectInSeq(l, P) # 0

-----------------------------------------------------------------------------
(* One element (fh_parse_xml_line).  Keys are looked for in all of the line *)
(* from the tag on, so that one that is absent is taken from the next       *)
(* element; what is not found is 0.                                         *)

Holder(l, key) == SelectInSeq(l, LAMBDA t : IsElement(t) /\ key \in DOMAIN t.attrs)
Value(l, key) == l[Holder(l, key)].attrs[key]
Number(l, key) == IF Holder(l, key) = 0 THEN 0 ELSE Value(l, key)

\* fh_fixup_program_cmd: the size in the xml is replaced by that of the file.
ImageSectors(file, sector) ==
    LET bytes == IF file \in DOMAIN FileSize THEN FileSize[file] ELSE 0
    IN  IF bytes = 0 THEN 0
        ELSE (bytes + sector - 1) \div sector - (IF file = "gpt_empty0.bin" THEN 1 ELSE 0)

Sized(l) == Number(l, "SECTOR_SIZE_IN_BYTES") # 0

\* The entry of a line, or none: blank program lines and patches of other files
\* than the disk are passed over.
EntriesOf(l) ==
    IF Holder(l, "vendor") # 0
    THEN << [type |-> "vendor", start |-> 0, num |-> 0, sized |-> FALSE] >>
    ELSE CASE l[1].tag = "erase" ->
                << [type |-> "erase", start |-> Number(l, "start_sector"),
                    num |-> Number(l, "num_partition_sectors"), sized |-> Sized(l)] >>
           [] l[1].tag = "program" ->
                IF Value(l, "filename") = "" THEN << >>
                ELSE << [type |-> "program", start |-> Number(l, "start_sector"),
                         num |-> ImageSectors(Value(l, "filename"), Value(l, "SECTOR_SIZE_IN_BYTES")),
                         sized |-> Sized(l)] >>
           [] l[1].tag = "patch" ->
                IF Holder(l, "filename") # 0 /\ Value(l, "filename") # "DISK" THEN << >>
                ELSE << [type |-> "patch", start |-> 0, num |-> 0, sized |-> FALSE] >>

-----------------------------------------------------------------------------
(* A file (fh_parse_xml_file).                                             *)

CommentAt(l) == SelectInSeq(l, Opens)
CommentEnd(l) == SelectInSubSeq(l, CommentAt(l), Len(l), Closes)
FirstElement(l) == SelectInSeq(l, IsElement)

\* What is left of a line: nothing if its first element ends in the comment,
\* or there is none.
Uncommented(l) ==
    IF ~Has(l, Opens) THEN l
    ELSE IF FirstElement(l) = 0 \/ FirstElement(l) \in CommentAt(l) .. CommentEnd(l) THEN << >>
    ELSE SubSeq(l, 1, CommentAt(l) - 1) \o SubSeq(l, CommentEnd(l) + 1, Len(l))

\* Mutant: the comments of a line are not looked at.
EntriesOfAll(l) ==
    LET i == SelectInSeq(l, IsElement)
    IN  IF i = 0 THEN << >> ELSE EntriesOf(SubSeq(l, i, Len(l)))

\* Of several elements in a line, one is parsed, and an erase first.
EntriesOfLine(l) ==
    LET at(tag) == SelectInSeq(Uncommented(l), LAMBDA t : t.tag = tag)
        i == IF at("erase") # 0 THEN at("erase")
             ELSE IF at("program") # 0 THEN at("program") ELSE at("patch")
    IN  IF i = 0 THEN << >> ELSE EntriesOf(SubSeq(Uncommented(l), i, Len(Uncommented(l))))

\* A comment that does not end in its line takes the next line with it, and
\* the lines after that one for as long as they begin comments and end none.
ReadLine(f, l) ==
    IF f.skip
    THEN [f EXCEPT !.skip = Has(l, Opens) /\ ~Has(l, Closes)]
    ELSE IF Has(l, Opens) /\ CommentEnd(l) = 0
    THEN [f EXCEPT !.skip = TRUE]
    ELSE [f EXCEPT !.table = @ \o EntriesOfLine(l)]

ParsedFile(file) ==
    LET read[n \in 0 .. Len(file)] ==
            IF n = 0 THEN [skip |-> FALSE, table |-> << >>] ELSE ReadLine(read[n - 1], file[n])
    IN  read[Len(file)].table

\* The table of a package: its rawprogram files, then its patch files.
Parsed(package) == FlattenSeq([i \in DOMAIN package |-> ParsedFile(package[i])])

-----------------------------------------------------------------------------
(* What the files say by the rules of xml, whatever their lines: a comment *)
(* ends at the first end of one, and all elements outside of them count.   *)

Token(f, t) ==
    CASE Opens(t) -> [f EXCEPT !.inside = TRUE]
      [] Closes(t) -> [f EXCEPT !.inside = FALSE]
      [] IsElement(t) /\ ~f.inside -> [f EXCEPT !.table = @ \o EntriesOf(<< t >>)]
      [] OTHER -> f

Line(f, l) ==
    LET read[i \in 0 .. Len(l)] == IF i = 0 THEN f ELSE Token(read[i - 1], l[i])
    IN  read[Len(l)]

\* What is known behind each line: whether a comment goes on, and the entries.
Meaning(file) ==
    LET read[n \in 0 .. Len(file)] ==
            IF n = 0 THEN [inside |-> FALSE, table |-> << >>] ELSE Line(read[n - 1], file[n])
    IN  read

Listed(file) == Meaning(file)[Len(file)].table
Meant(package) == FlattenSeq([i \in DOMAIN package |-> Listed(package[i])])

-----------------------------------------------------------------------------
(* Files that are read as they are meant, the forms that the comments of   *)
(* fh_parse_xml_file draw among them.                                      *)

Elements(l) == {i \in DOMAIN l : IsElement(l[i])}

\* Those outside of the comments that begin in the line.
Shown(l) ==
    {i \in Elements(l) : \A o \in 1 .. i : Opens(l[o]) => \E c \in o .. i : Closes(l[c])}

\* No element, or one that stands before all others: the stage parses one in a line,
\* and looks at the first to see whether it is commented out.  A line that a comment
\* begins in and does not end in is dropped as a whole.
ShowsFirst(l) ==
    /\ \A i \in Shown(l) : \A j \in Elements(l) : i <= j
    /\ Has(l, Opens) /\ ~Has(l, Closes) => Shown(l) = {}

\* In a comment that an earlier line began; behind the first of its lines the stage
\* reads on as if there were none.
HidesAll(l, first) ==
    /\ ~Has(l, Opens)
    /\ \A i \in Elements(l) : first /\ \A c \in DOMAIN l : Closes(l[c]) => i < c

Legible(file) ==
    \A n \in DOMAIN file :
        /\ \A i, j \in DOMAIN file[n] : Opens(file[n][i]) /\ Closes(file[n][j]) => i < j
        /\ IF Meaning(file)[n - 1].inside THEN HidesAll(file[n], Has(file[n - 1], Opens))
           ELSE ShowsFirst(file[n])
        /\ \A i \in Elements(file[n]) : file[n][i].tag = "program" =>
              {"filename", "SECTOR_SIZE_IN_BYTES"} \subseteq DOMAIN file[n][i].attrs
=============================================================================
