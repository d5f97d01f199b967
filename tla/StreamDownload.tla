--------------------------- MODULE StreamDownload ---------------------------
(***************************************************************************)
(* The stage for modules that are not in emergency download mode after     *)
(* sahara (stream_download_protocol.c): a programmer is running, takes one *)
(* command at a time, and is given a new boot loader, 0:SBL, so that it    *)
(* comes back in that mode.                                                *)
(*                                                                         *)
(*   hello -> security -> table [-> override -> flag] -> open -> write ... *)
(*         -> close -> reset                                               *)
(*                                                                         *)
(* The boot loader is Blocks pieces of a kilobyte, each standing as one    *)
(* byte in its packet.  What is on the cable are frames of bytes; over a   *)
(* tty or tcp they are a stream, that a read may take several of, or       *)
(* a part of one.                                                          *)
(***************************************************************************)
EXTENDS Hdlc

CONSTANTS Blocks,     \* packets that sbl1.mbn is sent in
          Reads,      \* times an answer is read for before a command has failed
          Retries,    \* retry_cnt of handle_write
          LogBudget,  \* bound: packets the target sends unasked
          FaultSets   \* what may go wrong, a set of faults for each behaviour

\* As many as fit the second byte of an address.
MaxBlocks == 64

ASSUME StreamAssumption ==
    /\ Blocks \in 1 .. MaxBlocks /\ Reads \in Nat \ {0} /\ Retries \in Nat \ {0}
    /\ LogBudget \in Nat
    /\ FaultSets \subseteq SUBSET {"late", "nak", "unplug", "stream"}

VARIABLES
    faults,              \* what may go wrong in this behaviour
    stage, waiting,      \* host: command, and whether it has been sent
    tries, retry,        \* reads left for this command, retry_cnt
    addr,                \* packet of the image being written
    result,
    link, out, in, logs, \* cable, commands, answers, packets sent unasked
    differs,             \* target: its partition table is not that of the package
    flag,                \* target: the download flag
    cells, closed        \* target: pieces of 0:SBL, and whether it was closed

host   == <<stage, waiting, tries, retry, addr, result>>
wire   == <<link, out, in, logs>>
target == <<differs, flag, cells, closed>>
vars   == <<faults, host, wire, target>>

Stages == <<"hello", "security", "table", "override", "flag",
            "open", "write", "close", "reset">>

Init ==
    /\ faults \in FaultSets
    /\ stage = "hello" /\ waiting = FALSE
    /\ tries = Reads /\ retry = Retries /\ addr = 1
    /\ result = "running"
    /\ link = TRUE /\ out = << >> /\ in = << >> /\ logs = 0
    /\ differs \in BOOLEAN
    /\ flag = FALSE
    /\ cells = [b \in 1 .. Blocks |-> 0] /\ closed = FALSE

Running == result = "running"

\* The commands, and of hostdl_packet.h what answers them.
Code(s) ==
    CASE s = "hello" -> 1  [] s = "security" -> 23 [] s \in {"table", "override"} -> 25
      [] s = "flag"  -> 96 [] s = "open"     -> 27 [] s = "write" -> 7
      [] s = "close" -> 21 [] s = "reset"    -> 11

ErrorRsp == 13
CmdLog == 14

-----------------------------------------------------------------------------
(* The host.                                                               *)

\* Mutant: the flag is not set again after an override.
FollowingNoFlag(s) ==
    CASE s = "hello"    -> "security"
      [] s = "security" -> "table"
      [] s \in {"table", "override"} -> "open"
      [] s = "flag"     -> "open"
      [] s = "open"     -> "write"
      [] s = "write"    -> "close"
      [] s = "close"    -> "reset"

Following(s) ==
    CASE s = "hello"    -> "security"
      [] s = "security" -> "table"
      [] s = "table"    -> "open"
      [] s = "override" -> "flag"
      [] s = "flag"     -> "open"
      [] s = "open"     -> "write"
      [] s = "write"    -> "close"
      [] s = "close"    -> "reset"

\* The data of packet a: the pointer to it is never moved.  A byte that has to
\* be escaped.
DataOf(a) == Flag

\* Address (a - 1) * 1024 in four bytes.
Address(a) == << 0, 4 * (a - 1), 0, 0 >>

\* compose_packet, without the contents of files and names.
Packet(s, a) ==
    << Code(s) >> \o CASE s = "write"    -> Append(Address(a), DataOf(a))
                       [] s = "table"    -> << 0 >>
                       [] s = "open"     -> << 14 >>
                       [] s \in {"security", "override", "flag"} -> << 1 >>
                       [] OTHER          -> << >>

Frames == [s \in ToSet(Stages) |-> [a \in 1 .. Blocks |-> Frame(Packet(s, a))]]

Enter(s) == stage' = s /\ waiting' = FALSE /\ tries' = Reads

\* send_packet.  Only handle_write looks at the result.
Send ==
    /\ Running /\ ~waiting /\ stage # "reset"
    /\ link
    /\ out' = Append(out, Frames[stage][addr])
    /\ waiting' = TRUE
    /\ UNCHANGED <<faults, stage, tries, retry, addr, result, link, in, logs, target>>

SendFails ==
    /\ Running /\ ~waiting /\ stage # "reset"
    /\ ~link
    /\ IF stage = "write"
       THEN result' = "false" /\ UNCHANGED waiting
       ELSE waiting' = TRUE /\ UNCHANGED result
    /\ UNCHANGED <<faults, stage, tries, retry, addr, wire, target>>

\* handle_reset awaits no answer.
Reset ==
    /\ Running /\ stage = "reset"
    /\ out' = IF link THEN Append(out, Frames[stage][addr]) ELSE out
    /\ result' = "true"
    /\ UNCHANGED <<faults, stage, waiting, tries, retry, addr, link, in, logs, target>>

\* What a command that failed leads to: a table that does not match is sent
\* again with override, and a flag that could not be set is passed over.
CommandFails ==
    CASE stage = "table" -> Enter("override") /\ UNCHANGED result
      [] stage = "flag"  -> Enter("open") /\ UNCHANGED result
      [] OTHER -> result' = "false" /\ UNCHANGED <<stage, waiting, tries>>

\* receive_packet: what is read until it ends with a flag counts as one packet,
\* however many frames it is; the handlers look at its first two bytes.
Received == Unframed(Head(in))

Receive ==
    /\ Running /\ waiting /\ in # << >>
    /\ \E n \in 1 .. (IF "stream" \in faults THEN Len(in) ELSE 1) :
          in' = SubSeq(in, n + 1, Len(in))
    /\ UNCHANGED <<faults, link, out, logs, target>>

\* Mutant: what is answered to close is not looked at.
RightToClose(p) == stage = "close" \/ p[1] = Code(stage) + 1

\* The answer to the command under way, with the status of those that have one;
\* 0x0E to flag counts as well ("Invalid command": the handler returns 2).
Right(p) ==
    \/ p[1] = Code(stage) + 1
       /\ (stage \in {"table", "override", "flag"} => p[2] = 0)
    \/ stage = "flag" /\ p[1] = CmdLog

\* Two handlers pass over 0x0D, without counting.
Passed(p) == stage \in {"hello", "open"} /\ p[1] = ErrorRsp

PassOver ==
    /\ Receive /\ Passed(Received)
    /\ UNCHANGED host

Answered ==
    /\ Receive /\ Right(Received)
    /\ IF stage = "write" /\ addr < Blocks
       THEN addr' = addr + 1 /\ Enter("write")
       ELSE addr' = addr /\ Enter(Following(stage))
    /\ UNCHANGED <<retry, result>>

Unanswered ==
    /\ stage # "write"
    /\ Receive /\ ~Right(Received)
    /\ ~Passed(Received)
    /\ CommandFails
    /\ UNCHANGED <<retry, addr>>

\* handle_write, retry_send_packet: the count is shared by all packets.
Retry ==
    /\ retry' = retry - 1
    /\ IF retry > 1
       THEN waiting' = FALSE /\ UNCHANGED result
       ELSE result' = "false" /\ UNCHANGED waiting

WriteAgain ==
    /\ stage = "write"
    /\ Receive /\ ~Right(Received)
    /\ Retry
    /\ UNCHANGED <<stage, tries, addr>>

\* receive_packet has found nothing for three seconds, or only the beginning of
\* a frame, which is forgotten: the rest of it will be taken for a packet.
Silent == ~link \/ out = << >>

TimedOut ==
    /\ Running /\ waiting
    /\ \/ in = << >> /\ (Silent \/ "late" \in faults) /\ in' = in
       \/ /\ in # << >> /\ {"late", "stream"} \subseteq faults
          /\ \E c \in 1 .. Len(Head(in)) - 2 :
                in' = << SubSeq(Head(in), c + 1, Len(Head(in))) >> \o Tail(in)
    /\ UNCHANGED <<faults, link, out, logs, target>>

\* Mutant: reads that find nothing are not counted.
ReadAgainUncounted ==
    /\ stage # "write" /\ TimedOut /\ tries > 1
    /\ UNCHANGED <<stage, waiting, tries, retry, addr, result>>

ReadAgain ==
    /\ stage # "write" /\ TimedOut /\ tries > 1
    /\ tries' = tries - 1
    /\ UNCHANGED <<stage, waiting, retry, addr, result>>

NoAnswer ==
    /\ stage # "write" /\ TimedOut /\ tries = 1
    /\ CommandFails
    /\ UNCHANGED <<retry, addr>>

WriteTimedOut ==
    /\ stage = "write" /\ TimedOut
    /\ Retry
    /\ UNCHANGED <<stage, tries, addr>>

-----------------------------------------------------------------------------
(* The programmer on the module, modelled from how the host uses it.       *)

\* What the loader takes a frame for: nothing, if its check sum is wrong.
Packets == [f \in {Frames[s][a] : s \in ToSet(Stages), a \in 1 .. Blocks} |-> Checked(f)]

Command == Packets[Head(out)]
Name == CHOOSE s \in ToSet(Stages) :
    IF Command[1] = Code("table") THEN s = (IF Command[2] = 1 THEN "override" ELSE "table")
    ELSE Code(s) = Command[1]

Take ==
    /\ link /\ out # << >> /\ Command # << >>
    /\ out' = Tail(out)
    /\ UNCHANGED <<faults, host, link, logs>>

\* A command is answered by the next code, with the address or a status of 0.
Answer(p) ==
    << p[1] + 1 >> \o (IF p[1] = Code("write") THEN SubSeq(p, 2, 5) ELSE << 0 >>)
Answers == [p \in {Packets[f] : f \in DOMAIN Packets} |-> Frame(Answer(p))]
Refusal == Frame(<< Code("table") + 1, 1 >>)
Unasked == [code \in {ErrorRsp, CmdLog} |-> Frame(<< code >>)]

\* What Hdlc comes to for these packets: a command arrives as it was sent, and of
\* an answer the host sees code and status.
ASSUME FramingAssumption ==
    /\ \A s \in ToSet(Stages), a \in 1 .. MaxBlocks :
          LET p == Packet(s, a)
              r == Unframed(Frame(Answer(p)))
          IN  Checked(Frame(p)) = p /\ r[1] = Code(s) + 1 /\ r[2] = 0
    /\ Unframed(Refusal)[1] = Code("table") + 1 /\ Unframed(Refusal)[2] = 1
    /\ \A code \in {ErrorRsp, CmdLog} : Unframed(Unasked[code])[1] = code

\* What a command does: hello sets the download flag, a table that overrides
\* the old one clears it.
Obey ==
    /\ Take
    /\ Name = "table" => ~differs
    /\ flag' = CASE Name \in {"hello", "flag"}     -> TRUE
                 [] Name \in {"override", "reset"} -> FALSE
                 [] OTHER                          -> flag
    /\ differs' = (differs /\ Name # "override")
    /\ cells' = IF Name = "write" THEN [cells EXCEPT ![Command[3] \div 4 + 1] = Command[6]]
                ELSE cells
    /\ closed' = (closed \/ Name = "close")
    /\ IF Name = "reset" THEN in' = in ELSE in' = Append(in, Answers[Command])

\* A status that is not success, or an error.  Setting the flag is not refused:
\* the loader knows the command.
Refuse ==
    /\ Take
    /\ \/ Name = "table" /\ differs /\ in' = Append(in, Refusal)
       \/ Name \notin {"flag", "reset"} /\ "nak" \in faults /\ in' = Append(in, Unasked[ErrorRsp])
    /\ UNCHANGED target

Log ==
    /\ link /\ logs < LogBudget
    /\ logs' = logs + 1
    /\ \E code \in {ErrorRsp, CmdLog} : in' = Append(in, Unasked[code])
    /\ UNCHANGED <<faults, host, link, out, target>>

Unplug ==
    /\ "unplug" \in faults /\ link
    /\ link' = FALSE /\ out' = << >> /\ in' = << >>
    /\ UNCHANGED <<faults, host, logs, target>>

-----------------------------------------------------------------------------
Returned == ~Running /\ UNCHANGED vars

Host ==
    \/ Send \/ SendFails \/ Reset \/ PassOver \/ Answered \/ Unanswered
    \/ WriteAgain \/ ReadAgain \/ NoAnswer \/ WriteTimedOut

Programmer == Obey \/ Refuse

Next == Host \/ Programmer \/ Log \/ Unplug \/ Returned

Spec == Init /\ [][Next]_vars

\* The host's reads have timeouts; the programmer executes what it is sent.
FairSpec == Spec /\ WF_vars(Host) /\ WF_vars(Programmer)

-----------------------------------------------------------------------------
Written == \A b \in 1 .. Blocks : cells[b] # 0
Touched == \E b \in 1 .. Blocks : cells[b] # 0

\* stream_download reports success only when every packet of the boot loader
\* has been executed and the partition closed: neither an answer that came
\* late nor one to a repeated packet stands for another packet.
TrueMeansWritten == result = "true" => Written /\ closed

\* stream_download, "hello packet will set dload flag in module, when upgrade
\* interrup, restart module, module will enter dm": while 0:SBL is neither the
\* old one nor complete, the flag is set.
FlagWhileUnsafe == Touched /\ ~closed => flag

\* stream_download returns: no answer, log, error or repetition keeps it for ever.
Ends == <>(result # "running")
=============================================================================
