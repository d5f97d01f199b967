---------------------------- MODULE FirehoseInv ----------------------------
(* The inductive invariant behind SblGuard: where the one outstanding      *)
(* command of the host is, and what the flash holds at each place.         *)
EXTENDS Firehose

Erases  == {"sblErase", "erase"}
Images  == {"program", "sblProgram"}
\* The phases before the first erase, and before the first image.
Before  == {"fixup", "drain", "configure"}
Early   == Before \cup {"sblErase", "vendor", "erase"}

\* A response is in the socket pair, in the reader's hands, or in the endpoint.
Queued   == \E i \in DOMAIN queue : queue[i] \in Responses
Arriving == \E i \in DOMAIN rx : rx[i] \in Responses
Answered == Queued \/ held \in Responses \/ Arriving

\* The answer r is under way.
UnderWay(r) ==
    \/ \E i \in DOMAIN queue : queue[i] = r
    \/ held = r
    \/ \E i \in DOMAIN rx : rx[i] = r

Acked == UnderWay("ack") \/ UnderWay("ackRaw")

\* At most one response is under way.
OneAnswer ==
    /\ \A i, j \in DOMAIN queue :
          queue[i] \in Responses /\ queue[j] \in Responses => i = j
    /\ \A i, j \in DOMAIN rx : rx[i] \in Responses /\ rx[j] \in Responses => i = j
    /\ Queued => held \notin Responses
    /\ Queued \/ held \in Responses => ~Arriving

\* Between commands nothing is outstanding; a command in the endpoint is the
\* one the main thread waits for.
Exchange ==
    /\ phase \in {"fixup", "drain", "finalDrain"} => step = "next"
    /\ step \in {"raw", "close"} => phase \in Images
    /\ step \in {"resend", "rewait"} => phase = "configure"
    /\ step # "next" /\ phase \in Passes => x \in DOMAIN table /\ Applies(Here)
    /\ step \in {"next", "resend"} => tx = NoCmd /\ ~Answered
    /\ tx.type = "none" => tx = NoCmd
    /\ tx.type \notin {"none", "data"} =>
          /\ step \in {"wait", "rewait"} /\ ~Answered /\ tmode = "cmd"
          /\ tx.type = "reset" => phase = "reset"
          /\ phase \in Erases <=> tx.type = "erase"
          /\ phase \in Images <=> tx.type = "program"
          /\ tx.type = "erase" => tx.sectors = EraseArea(table, x, eraseAll)
          /\ tx.type = "program" => tx.sectors = Area(Here)
    /\ tmode = "raw" => phase \in Images /\ step \in {"wait", "raw", "close"}
    /\ tmode = "refusing" => step \in {"raw", "close"}
    /\ tmode = "reset" => \/ phase = "reset" /\ step = "wait"
                          \/ phase = "finalDrain"

\* The image under way: what the host has still to send and what the target
\* still awaits are the same sectors, and the rest is written.
Image ==
    /\ tx.type = "data" =>
          /\ step \in {"raw", "close"}
          /\ tmode \in {"raw", "refusing"}
          /\ step = "raw" => unsent # {}
          /\ tmode = "raw" =>
                \E s \in Sectors :
                    /\ tx.sectors = {s} /\ todo = unsent \cup {s}
                    /\ \A r \in unsent : s < r
    /\ step = "raw" => tmode \in {"raw", "refusing"}
    /\ tmode = "raw" =>
          /\ todo \in SUBSET Area(Here)
          /\ \A s \in Area(Here) \ todo : flash[s] = "new"
          /\ step = "wait" => todo = Area(Here)
          /\ step = "raw" /\ tx = NoCmd /\ link => todo = unsent
          /\ step # "wait" => ~Answered
    /\ phase \in Images /\ Acked =>
          \/ step = "wait" /\ tmode = "raw"
          \/ step = "close" /\ tmode = "cmd" /\ \A s \in Area(Here) : flash[s] = "new"

\* What the flash holds at each phase of an upgrade of a nand module.
Stage ==
    /\ phase \in Before => x = 1
    /\ phase \in Early => \A s \in Sectors : flash[s] \in {"old", "erased"}
    /\ nand /\ phase \notin Early \cup {"program"} => OthersWritten(table, flash)
    /\ nand /\ phase = "program" =>
          /\ flash[0] # "new"
          /\ \A i \in DOMAIN table :
                i < x /\ IsProgram(table[i]) /\ ~IsSbl(table[i]) =>
                    \A s \in Area(table[i]) : flash[s] = "new"
    /\ nand /\ ErasesSbl(table, eraseAll) =>
          /\ flash[0] = "old" => Untouched(flash)
          /\ phase \in Before => Untouched(flash)
          /\ phase \notin Before \cup {"sblErase"} => flash[0] # "old"
          /\ phase = "sblErase" =>
                /\ \A i \in DOMAIN table :
                      i < x /\ IsErase(table[i]) /\ IsSbl(table[i])
                        /\ 0 \in EraseArea(table, i, eraseAll) => flash[0] # "old"
                /\ step = "wait" /\ Acked =>
                      (0 \in EraseArea(table, x, eraseAll) => flash[0] # "old")

IInv == TypeOK /\ OneAnswer /\ Exchange /\ Image /\ Stage

\* The pass that programs entry i, or erases it, has left it behind.
Programmed(i) ==
    IF nand /\ IsSbl(table[i])
    THEN phase \notin Early \cup Images \/ (phase = "sblProgram" /\ i < x)
    ELSE phase \notin Early \cup {"program"} \/ (phase = "program" /\ i < x)

Cleared(i) ==
    \/ phase \notin Early
    \/ phase = "erase" /\ (i < x \/ (i = x /\ step = "wait" /\ Acked))

\* Every entry that is behind has had its effect, and nothing has undone it.
Complete ==
    /\ outcome = "done" => phase = "finalDrain"
    /\ \A s \in Sectors : flash[s] # "wrong"
    /\ \A i \in DOMAIN table :
          /\ IsProgram(table[i]) /\ Programmed(i) =>
                \A s \in Area(table[i]) : flash[s] = "new"
          /\ IsErase(table[i]) /\ table[i].sized /\ ~eraseAll /\ Cleared(i) =>
                \A s \in Area(table[i]) : flash[s] \in {"erased", "new"}
=============================================================================
