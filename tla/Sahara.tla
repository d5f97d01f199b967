------------------------------- MODULE Sahara -------------------------------
(***************************************************************************)
(* The sahara stage of the upgrader (sahara.c).  The boot ROM of a module  *)
(* in emergency download mode pulls the programmer image: it greets, asks  *)
(* for ranges of the file in an order of its own, says that it has all of  *)
(* them, and starts the image when the host agrees.                        *)
(*                                                                         *)
(*      host  --- out: hello response, image data, done, reset --->  ROM   *)
(*            <-- in: hello, read, end of image, done response ----        *)
(*                                                                         *)
(* A file is blocks 1 .. FileLen; block n is the number n.  Once the ROM   *)
(* has asked for data, everything it receives is data.                     *)
(***************************************************************************)
EXTENDS Integers, Sequences, SequencesExt

CONSTANTS FileLen,      \* blocks of the programmer image
          Buf,          \* blocks in Q_SAHARA_RAW_BUF_SZ
          Ranges,       \* what the ROM may ask for: records off, len
          MaxReads,     \* bound: read requests of one session of the ROM
          MaxRestarts,  \* bound: times the upgrader is killed and run again
          FaultSets     \* what may go wrong, a set of faults for each behaviour

Blocks == 1 .. FileLen

\* lateHello: the first hello is later than the host waits; late: so is anything
\* after it; beyond: the ROM wants what the file does not have; kill: the
\* upgrader is killed, or fails, and is run again.
FaultKinds == {"lateHello", "late", "short", "refuse", "garbage", "unplug", "beyond", "kill"}

ASSUME SaharaAssumption ==
    /\ FileLen \in Nat \ {0}
    /\ Buf \in Nat \ {0}
    /\ Ranges \subseteq [off : Nat, len : Nat \ {0}]
    /\ MaxReads \in Nat \ {0}
    /\ MaxRestarts \in Nat
    /\ FaultSets \subseteq SUBSET FaultKinds

VARIABLES
    known, last,      \* the ROM's image id is one of 13, 7, 21; it is the last image
    faults,           \* what may go wrong in this behaviour
    host, result,     \* sahara_start: place and return value
    req, fpos, sent,  \* request being served, file position, blocks counted as sent
    restarts,
    link, out, in,    \* cable, bulk OUT, bulk IN
    rom, need,        \* ROM: mode, positions it waits for
    mem, reads        \* ROM: what it has stored where, requests made

image   == <<known, last, faults>>
serving == <<req, fpos, sent>>
target  == <<rom, need, mem, reads>>
vars    == <<image, host, result, serving, restarts, link, out, in, target>>

-----------------------------------------------------------------------------
NoReq == [off |-> 0, len |-> 0]

\* Packets, by what the receiver reads of them.
Packet(c) == [cmd |-> c, req |-> NoReq, ok |-> TRUE]
Hello == Packet("hello")
Read(r) == [Packet("read") EXCEPT !.req = r]
EndImage(ok) == [Packet("end") EXCEPT !.ok = ok]
DoneResponse == Packet("doneResponse")
Garbage == Packet("garbage")
Unknown == Packet("unknown")

\* Bulk OUT carries blocks of the file and control packets; a control packet
\* that is stored as data is a block that is none of the file's.
Foreign == 0
Controls == {[cmd |-> c, block |-> Foreign] : c \in {"poke", "helloResponse", "done", "reset"}}
Data(b) == [cmd |-> "data", block |-> b]

\* sahara_tx_data of a control packet.
Tx(c) == out' = IF link THEN Append(out, [cmd |-> c, block |-> Foreign]) ELSE out

Running == result = "running"
Return(r) == result' = r /\ UNCHANGED host
Goto(h) == host' = h /\ UNCHANGED result

\* The positions a request names, in order.
Span(r) == [i \in 1 .. r.len |-> r.off + i]

-----------------------------------------------------------------------------
Init ==
    /\ known \in BOOLEAN /\ last \in BOOLEAN /\ faults \in FaultSets
    /\ host = "hello" /\ result = "running"
    /\ req = NoReq /\ fpos = 0 /\ sent = 0
    /\ restarts = 0
    /\ link = TRUE /\ out = << >> /\ in = << >>
    /\ rom \in {"reset", "greeted"}    \* greeted: somebody else took the hello
    /\ need = << >> /\ mem = << >> /\ reads = 0

-----------------------------------------------------------------------------
(* The host.                                                               *)

\* sahara_rx_data returns a packet.
Rx ==
    /\ Running /\ in # << >> /\ Head(in) # Garbage
    /\ in' = Tail(in)
    /\ UNCHANGED <<image, restarts, link, target>>

\* Nothing is on its way: no request is unanswered and the ROM waits, or it has
\* given way to the programmer.
Silent ==
    \/ ~link \/ rom = "started"
    \/ out = << >> /\ rom \in {"greeted", "raw", "ended", "refused"}

\* What is awaited is under way when the time is over: the first hello, which
\* has its own answer, the poke, or anything after it.
Late == IF host = "hello" THEN "lateHello" \in faults ELSE "late" \in faults

\* It returns 0: garbage, or nothing for five seconds.
RxFails ==
    /\ Running
    /\ \/ in # << >> /\ Head(in) = Garbage /\ in' = Tail(in)
       \/ in = << >> /\ (Silent \/ Late) /\ in' = in
    /\ UNCHANGED <<image, restarts, link, target>>

InHello == host \in {"hello", "helloAgain"}

AnswerHello ==
    /\ InHello /\ Rx
    /\ Head(in).cmd = "hello"
    /\ Tx("helloResponse")
    /\ IF link THEN Goto("command") ELSE Return("failed")
    /\ UNCHANGED serving

\* A target in the middle of something else is told to reset.
NotHello ==
    /\ InHello /\ Rx
    /\ Head(in).cmd # "hello"
    /\ Tx("reset")
    /\ Return("failed")
    /\ UNCHANGED serving

\* No hello: one byte wakes the target up, once.
Poke ==
    /\ host = "hello" /\ RxFails
    /\ Tx("poke")
    /\ Goto("helloAgain")
    /\ UNCHANGED serving

\* Mutant: the host waits once more.
GiveUpNever ==
    /\ host \in {"helloAgain", "command", "final"} /\ RxFails
    /\ UNCHANGED <<host, result, serving, out>>

GiveUp ==
    /\ host \in {"helloAgain", "command", "final"} /\ RxFails
    /\ Return("failed")
    /\ UNCHANGED <<serving, out>>

\* Mutant: the file is read on from where the last request left it.
StartTransferNoSeek ==
    /\ host = "command" /\ Rx
    /\ Head(in).cmd = "read"
    /\ req' = Head(in).req
    /\ fpos' = fpos
    /\ sent' = 0
    /\ Goto("transfer")
    /\ UNCHANGED out

\* start_image_transfer: seek, then the loop below.
StartTransfer ==
    /\ host = "command" /\ Rx
    /\ Head(in).cmd = "read"
    /\ req' = Head(in).req
    /\ fpos' = req'.off
    /\ sent' = 0
    /\ Goto("transfer")
    /\ UNCHANGED out

Chunk == LET left == req.len - sent IN IF left < Buf THEN left ELSE Buf

Transferring ==
    /\ Running /\ host = "transfer"
    /\ UNCHANGED <<image, restarts, link, in, target, req>>

\* One turn of the loop.  A write that moved part of the chunk is counted as
\* if it had moved all of it.
SendChunk ==
    /\ Transferring
    /\ fpos + Chunk <= FileLen /\ link
    /\ \E n \in 1 .. Chunk :
          /\ n = Chunk \/ "short" \in faults
          /\ out' = out \o [i \in 1 .. n |-> Data(fpos + i)]
    /\ fpos' = fpos + Chunk
    /\ sent' = sent + Chunk
    /\ Goto(IF sent' < req.len THEN "transfer" ELSE "command")

\* The file ends too early, or nothing could be written.  start_image_transfer
\* returns 0; sahara_start does not look and waits for the next command.
AbandonTransfer ==
    /\ Transferring
    /\ fpos + Chunk > FileLen \/ ~link \/ "short" \in faults
    /\ Goto("command")
    /\ UNCHANGED <<fpos, sent, out>>

\* Mutant: the done response is not awaited.
EndOfImageReturns ==
    /\ host = "command" /\ Rx
    /\ Head(in).cmd = "end"
    /\ IF Head(in).ok
       THEN Tx("done") /\ Return("done")
       ELSE Return("failed") /\ UNCHANGED out
    /\ UNCHANGED serving

EndOfImage ==
    /\ host = "command" /\ Rx
    /\ Head(in).cmd = "end"
    /\ IF Head(in).ok
       THEN Tx("done") /\ Goto("final")
       ELSE Return("failed") /\ UNCHANGED out
    /\ UNCHANGED serving

\* Mutants: a second hello is an unknown command; it is answered once more.
HelloAgainRejected ==
    /\ host = "command" /\ Rx
    /\ Head(in).cmd = "hello"
    /\ Tx("reset")
    /\ Return("failed")
    /\ UNCHANGED serving

HelloAgainAnswered ==
    /\ host = "command" /\ Rx
    /\ Head(in).cmd = "hello"
    /\ Tx("helloResponse")
    /\ UNCHANGED <<host, result, serving>>

HelloAgain ==
    /\ host = "command" /\ Rx
    /\ Head(in).cmd = "hello"
    /\ UNCHANGED <<host, result, serving, out>>

Unexpected ==
    /\ host = "command" /\ Rx
    /\ Head(in).cmd \in {"doneResponse", "unknown"}
    /\ Tx("reset")
    /\ Return("failed")
    /\ UNCHANGED serving

\* The last packet is taken for a done response whatever it is; what stands
\* where the status would be is neither 0 nor 1 in any other packet.
FinalPacket ==
    /\ host = "final" /\ Rx
    /\ Return(IF Head(in).cmd = "doneResponse" /\ (last \/ known) THEN "done" ELSE "failed")
    /\ UNCHANGED <<serving, out>>

-----------------------------------------------------------------------------
(* The boot ROM and the cable, modelled from how the host uses them.       *)

Rom == link /\ UNCHANGED <<image, host, result, serving, restarts, link>>

\* The ROM takes the next unit of bulk OUT.
Take == Rom /\ out # << >> /\ out' = Tail(out)

Greet ==
    /\ Rom /\ rom = "reset"
    /\ in' = Append(in, Hello)
    /\ rom' = "greeted" /\ need' = << >> /\ mem' = << >> /\ reads' = 0
    /\ UNCHANGED out

\* Anything but a hello response makes it greet again.
TakeGreeted ==
    /\ Take /\ rom = "greeted"
    /\ IF Head(out).cmd = "helloResponse"
       THEN rom' = "ask" /\ in' = in
       ELSE rom' = rom /\ in' = Append(in, Hello)
    /\ UNCHANGED <<need, mem, reads>>

\* Requests come in an order of the ROM's own; no position is asked for twice.
Ask ==
    /\ Rom /\ rom = "ask" /\ reads < MaxReads
    /\ \E r \in Ranges :
          /\ r.off + r.len <= FileLen \/ "beyond" \in faults
          /\ \A i \in 1 .. r.len : r.off + i \notin {p[1] : p \in Range(mem)}
          /\ in' = Append(in, Read(r))
          /\ need' = Span(r)
    /\ rom' = "raw" /\ reads' = reads + 1
    /\ UNCHANGED <<out, mem>>

Store ==
    /\ Take /\ rom = "raw"
    /\ mem' = Append(mem, <<Head(need), Head(out).block>>)
    /\ need' = Tail(need)
    /\ rom' = IF Len(need) = 1 THEN "ask" ELSE "raw"
    /\ UNCHANGED <<in, reads>>

Complete ==
    /\ Rom /\ rom = "ask" /\ reads > 0
    /\ \/ in' = Append(in, EndImage(TRUE)) /\ rom' = "ended"
       \/ "refuse" \in faults /\ in' = Append(in, EndImage(FALSE)) /\ rom' = "refused"
    /\ UNCHANGED <<out, need, mem, reads>>

TakeEnded ==
    /\ Take /\ rom = "ended"
    /\ CASE Head(out).cmd = "done"  -> rom' = "started" /\ in' = Append(in, DoneResponse)
         [] Head(out).cmd = "reset" -> rom' = "reset" /\ in' = in
         [] OTHER                   -> rom' = rom /\ in' = in
    /\ UNCHANGED <<need, mem, reads>>

\* A ROM that has refused an image takes a reset and nothing else.
TakeRefused ==
    /\ Take /\ rom = "refused"
    /\ rom' = IF Head(out).cmd = "reset" THEN "reset" ELSE rom
    /\ UNCHANGED <<in, need, mem, reads>>

\* A ROM that has been answered sends a packet of the wrong length or, when it
\* does not wait for data, one that has no place here (memory debug).
Corrupt ==
    /\ Rom /\ "garbage" \in faults /\ rom \notin {"reset", "greeted"}
    /\ in = << >>
    /\ \/ in' = Append(in, Garbage)
       \/ rom # "raw" /\ in' = Append(in, Unknown)
    /\ UNCHANGED <<out, target>>

Unplug ==
    /\ "unplug" \in faults /\ link
    /\ link' = FALSE /\ out' = << >> /\ in' = << >>
    /\ UNCHANGED <<image, host, result, serving, restarts, target>>

\* The upgrader is killed, or has failed, and is run again; what is under way
\* on the cable stays there.
Restart ==
    /\ "kill" \in faults
    /\ result # "done" /\ restarts < MaxRestarts
    /\ restarts' = restarts + 1
    /\ host' = "hello" /\ result' = "running"
    /\ req' = NoReq /\ fpos' = 0 /\ sent' = 0
    /\ UNCHANGED <<image, link, out, in, target>>

Returned == ~Running /\ UNCHANGED vars

-----------------------------------------------------------------------------
Host ==
    \/ AnswerHello \/ NotHello \/ Poke \/ GiveUp
    \/ StartTransfer \/ SendChunk \/ AbandonTransfer
    \/ EndOfImage \/ HelloAgain \/ Unexpected \/ FinalPacket

RomSteps ==
    \/ Greet \/ TakeGreeted \/ Ask \/ Store \/ Complete \/ TakeEnded \/ TakeRefused

Next == Host \/ RomSteps \/ Corrupt \/ Unplug \/ Restart \/ Returned

Spec == Init /\ [][Next]_vars

\* The host's calls return within their timeouts; the ROM goes on when it can
\* (a read of it always has an answer to wait for), and asks until it is done.
FairSpec == Spec /\ WF_vars(Host) /\ WF_vars(RomSteps)

-----------------------------------------------------------------------------
\* Every position of the image holds the block the file has there.
Exact == \A i \in DOMAIN mem : mem[i][2] = mem[i][1]

\* Not killed or failed and run again while hellos are late or packets are garbage: a
\* run after that may take a second hello of the ROM for the first.
Calm == "kill" \notin faults \/ faults \cap {"lateHello", "garbage"} = {}

\* What the module starts is the programmer, byte for byte: no part of it is
\* missing, moved by a short write, taken from the wrong place of the file, or
\* made of the bytes of a packet (start_image_transfer, and the test for a hello
\* that a run after an interrupted one begins with).
StartsExactImage == rom = "started" /\ Calm => Exact

\* sahara_main returns 0 only when the module has started the programmer:
\* the firehose stage that follows talks to nobody else.
DoneMeansStarted == result = "done" => rom = "started"

\* Unless an earlier run of the upgrader was interrupted (its last read is then
\* still waiting for data when the new one pokes), image data is on its way only
\* to a ROM that asked for it, and never more of it than it asked for: what
\* comes after is a packet to it.
DataOnDemand ==
    restarts = 0 /\ (\E i \in DOMAIN out : out[i] \notin Controls) =>
        rom = "raw" /\ Len(out) <= Len(need)

\* sahara_main returns, whatever the module and the cable do.
Ends == <>[](result # "running")

\* A module that wants what the file has gets it, even when its first hello
\* went to somebody else or was late, and it greets twice.
Succeeds == faults \subseteq {"lateHello"} /\ (last \/ known) ~> result = "done"

\* Every run ends, and well where the faults are those a run can get over.
Concludes == Ends /\ Succeeds
=============================================================================
