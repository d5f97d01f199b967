----------------------------- MODULE AtCommand ------------------------------
(***************************************************************************)
(* Clients that each send one command to the modem's port and show what    *)
(* comes back (at/atcmd.cpp).  A client is two threads: main sends and     *)
(* waits, the reader polls the port, into a file that is mapped and that   *)
(* all clients share, as they share the port.  The modem answers in order  *)
(* and when it likes.                                                      *)
(***************************************************************************)
EXTENDS Integers, Sequences, SequencesExt

CONSTANTS
    Clients,    \* each runs once
    Answer,     \* of each client: the pieces of the answer to its command
    PortFaults  \* open_read, open_write: the port cannot be opened

NoFile == "none"

VARIABLES
    main,      \* of each client: start, clear, open, send, join; 0 or abort
    reader,    \* of each client: none, open, poll, print, test or closed
    late,      \* ten seconds have passed
    file,      \* /tmp/at_rx_tmp: who has made it, or NoFile
    mapped,    \* of each client: the file it has mapped
    memory,    \* of each file: what it holds
    port,      \* what the modem has sent and nobody has read
    owed,      \* what the modem has yet to send
    printed,   \* by each client
    ended,     \* clients whose reader has seen a final result
    alone      \* clients that nobody and nothing old can have disturbed
avars == <<main, reader, late, file, mapped, memory, port, owed, printed, ended, alone>>

Running(c) == main[c] \notin {"start", "0", "abort"}

\* strstr(shared_mem, "OK\r"): the result and the carriage return, in one read.
Final(text) == \E i \in 1 .. Len(text) - 1 : text[i] \in {"OK", "FAIL", "ERROR"} /\ text[i + 1] = "\r"

Init ==
    /\ main = [c \in Clients |-> "start"] /\ reader = [c \in Clients |-> "none"]
    /\ late = [c \in Clients |-> FALSE]
    /\ file = NoFile /\ mapped = [c \in Clients |-> NoFile] /\ memory = [c \in Clients |-> << >>]
    /\ port = << >> /\ owed = << >>
    /\ printed = [c \in Clients |-> << >>] /\ ended = {} /\ alone = {}

Goes(thread, c, place) == thread' = [thread EXCEPT ![c] = place]

-----------------------------------------------------------------------------
\* open(O_CREAT) and mmap: the file another client has made, or a new one.
Map(c) ==
    LET made == IF file = NoFile THEN c ELSE file IN
    /\ main[c] = "start" /\ Goes(main, c, "clear")
    /\ file' = made /\ mapped' = [mapped EXCEPT ![c] = made]
    /\ alone' = IF \E d \in Clients : Running(d) THEN {}
                ELSE IF port = << >> /\ owed = << >> THEN alone \cup {c} ELSE alone
    /\ UNCHANGED <<reader, late, memory, port, owed, printed, ended>>

\* memset, and the reader is started.
Clear(c) ==
    /\ main[c] = "clear" /\ Goes(main, c, "open") /\ Goes(reader, c, "open")
    /\ memory' = [memory EXCEPT ![mapped[c]] = << >>]
    /\ UNCHANGED <<late, file, mapped, port, owed, printed, ended, alone>>

\* A main that returns while its thread is joinable takes the process down.
OpenPort(c) ==
    /\ main[c] = "open"
    /\ \/ Goes(main, c, "send") /\ UNCHANGED reader
       \/ "open_write" \in PortFaults /\ Goes(main, c, "abort") /\ Goes(reader, c, "closed")
    /\ UNCHANGED <<late, file, mapped, memory, port, owed, printed, ended, alone>>

\* A reader that is not there yet may miss the start of the answer.
Send(c) ==
    /\ main[c] = "send" /\ Goes(main, c, "join")
    /\ owed' = owed \o Answer[c]
    /\ alone' = IF reader[c] = "open" THEN alone \ {c} ELSE alone
    /\ UNCHANGED <<reader, late, file, mapped, memory, port, printed, ended>>

\* main joins the reader and removes the name, whoever has made the file.
Join(c) ==
    /\ main[c] = "join" /\ reader[c] = "closed" /\ Goes(main, c, "0") /\ file' = NoFile
    /\ UNCHANGED <<reader, late, mapped, memory, port, owed, printed, ended, alone>>

-----------------------------------------------------------------------------
ReaderOpens(c) ==
    /\ reader[c] = "open"
    /\ \/ Goes(reader, c, "poll")
       \/ "open_read" \in PortFaults /\ Goes(reader, c, "closed")
    /\ UNCHANGED <<main, late, file, mapped, memory, port, owed, printed, ended, alone>>

\* The loop ends after ten seconds; until then it takes whatever there is.
Poll(c) ==
    /\ reader[c] = "poll"
    /\ \/ late[c] /\ Goes(reader, c, "closed") /\ UNCHANGED <<memory, port>>
       \/ /\ ~late[c] /\ port # << >> /\ port' = << >>
          /\ memory' = [memory EXCEPT ![mapped[c]] = port]
          /\ Goes(reader, c, "print")
    /\ UNCHANGED <<main, late, file, mapped, owed, printed, ended, alone>>

\* What is printed, and then looked at, is what the file holds by then.
PrintRead(c) ==
    /\ reader[c] = "print" /\ Goes(reader, c, "test")
    /\ printed' = [printed EXCEPT ![c] = @ \o memory[mapped[c]]]
    /\ UNCHANGED <<main, late, file, mapped, memory, port, owed, ended, alone>>

\* A bug: whatever has come is the answer.
TestReadAny(c) ==
    /\ reader[c] = "test"
    /\ Goes(reader, c, "closed") /\ ended' = ended \cup {c}
    /\ UNCHANGED <<main, late, file, mapped, memory, port, owed, printed, alone>>

TestRead(c) ==
    /\ reader[c] = "test"
    /\ IF Final(memory[mapped[c]])
       THEN Goes(reader, c, "closed") /\ ended' = ended \cup {c}
       ELSE Goes(reader, c, "poll") /\ UNCHANGED ended
    /\ UNCHANGED <<main, late, file, mapped, memory, port, owed, printed, alone>>

TenSeconds(c) ==
    /\ reader[c] \in {"poll", "print", "test"} /\ ~late[c]
    /\ late' = [late EXCEPT ![c] = TRUE]
    /\ UNCHANGED <<main, reader, file, mapped, memory, port, owed, printed, ended, alone>>

\* The modem: some of what it owes, or nothing ever.
ModemSends(n) ==
    /\ n <= Len(owed)
    /\ port' = port \o SubSeq(owed, 1, n) /\ owed' = SubSeq(owed, n + 1, Len(owed))
    /\ UNCHANGED <<main, reader, late, file, mapped, memory, printed, ended, alone>>

Next ==
    \/ \E c \in Clients :
           \/ Map(c) \/ Clear(c) \/ OpenPort(c) \/ Send(c) \/ Join(c)
           \/ ReaderOpens(c) \/ Poll(c) \/ PrintRead(c) \/ TestRead(c) \/ TenSeconds(c)
    \/ \E n \in 1 .. Len(owed) : ModemSends(n)

Spec == Init /\ [][Next]_avars

-----------------------------------------------------------------------------
\* A client that stopped at a final result has printed its own answer up to that
\* result, nothing of it twice and nothing left out, if no other client ran beside
\* it, nothing older was on its way and its reader was there when main sent.
OwnAnswer ==
    \A c \in alone \cap ended :
        /\ IsPrefix(printed[c], Answer[c])
        /\ Final(printed[c])
=============================================================================
