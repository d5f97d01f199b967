--------------------------- MODULE FirehosePackage ---------------------------
(* The firehose stage with the xml files that its table comes from.        *)
EXTENDS Firehose

CONSTANTS Tokens,    \* what a line may hold
          Packages,  \* firmware packages: sequences of xml files
          FileSize   \* bytes of their images

Xml == INSTANCE PackageXml

Parsed == [p \in Packages |-> Xml!Parsed(p)]
Meant == [p \in Packages |-> Xml!Meant(p)]

ASSUME PackageAssumption ==
    /\ \A f \in DOMAIN FileSize : FileSize[f] \in Nat
    /\ Packages \subseteq Seq(Seq(Seq(Tokens)))
    /\ Tables = {Parsed[p] : p \in Packages}

\* The stage reads the files of a package as they are meant.
Legible(package) == \A i \in DOMAIN package : Xml!Legible(package[i])

Touches(t, all) ==
    UNION {IF IsErase(t[i]) THEN EraseArea(t, i, all)
           ELSE IF IsProgram(t[i]) THEN Area(t[i]) ELSE {} : i \in DOMAIN t}

\* fh_parse_xml_file, "<!-- <erase case 3 /> -->": the stage erases and writes no
\* sector that the files of the package name only in comments, and success means
\* that every image they name outside of comments is in the flash.
AsListed ==
    \A p \in Packages : Parsed[p] = table =>
        /\ \A s \in Sectors : flash[s] # "old" => s \in Touches(Meant[p], eraseAll)
        /\ outcome = "done" => Written(Meant[p], flash)
=============================================================================
