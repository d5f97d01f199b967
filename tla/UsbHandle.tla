------------------------------ MODULE UsbHandle -------------------------------
(***************************************************************************)
(* A device that was found, from qusb_noblock_open on (usb_linux.c): it is *)
(* reached through its tty or, where there is none, through usbfs, where   *)
(* one call is one transfer.  A module in normal mode is asked for its     *)
(* version and told to switch to download mode (qfirehose.c,               *)
(* stream_download_protocol.c), amid the logs it sends; one in download    *)
(* mode is written to by the stages.                                       *)
(***************************************************************************)
EXTENDS Naturals, Sequences

CONSTANTS
    Packet,     \* wMaxPacketSize
    Lengths,    \* of what the stages write
    MaxWrites,  \* (a bound)
    Drain,      \* reads before the command, at most
    Tries,      \* reads after it, at most
    Backlog,    \* logs that wait when the device is opened (a bound)
    Chatter     \* logs that come later (a bound)

VARIABLES
    device,   \* the module and its machine
    driver,   \* a driver of the kernel has the interface
    way,      \* none, usbfs or tty
    step,     \* closed, opening, version, read, drain, command, echo, writing, done
    count,    \* rx_count
    version, result,  \* of detect_and_judge_module_version, switch_to_edl_mode
    queue,    \* transfers on their way to the host
    inbox,    \* commands the module has not answered
    chatter,  \* logs it has yet to send
    sent,     \* lengths of what the stages have written
    pending, got  \* the bytes of a transfer that is not over yet; those that are
hvars == <<device, driver, way, step, count, version, result, queue, inbox, chatter,
           sent, pending, got>>

\* mode; port: is there a tty; zlp: qusb_zlp_mode, which <configure> passes on to the
\* module; honours: the machine's controller sends the packets without data; faulty:
\* the module may take longer than the host waits, and a write may fail.
Devices ==
    [mode : {"normal", "edl"}, port : {"none", "denied", "ok"}, zlp : BOOLEAN,
     honours : BOOLEAN, faulty : BOOLEAN]

Init ==
    /\ device \in Devices /\ driver \in BOOLEAN
    /\ device.port # "none" => driver
    /\ device.mode = "edl" => ~device.faulty
    /\ device.mode = "normal" => device.zlp /\ device.honours
    /\ way = "none" /\ step = "closed" /\ count = 0
    /\ version = FALSE /\ result = "none"
    /\ queue \in IF device.mode = "normal" THEN {[i \in 1 .. n |-> "log"] : n \in 0 .. Backlog}
                                           ELSE {<< >>}
    /\ inbox = << >> /\ chatter = IF device.mode = "normal" THEN Chatter ELSE 0
    /\ sent = << >> /\ pending = 0 /\ got = << >>

TransfersUnchanged == UNCHANGED <<sent, pending, got>>
TalkUnchanged == UNCHANGED <<count, version, result, queue, inbox, chatter>>

-----------------------------------------------------------------------------
(* qusb_noblock_open.                                                      *)

UsesUsbfs == device.port # "ok" \/ device.mode = "edl"

Opened == IF device.mode = "normal" THEN "version" ELSE "writing"

\* usbfs_is_kernel_driver_alive, usbfs_detach_kernel_driver: it may not let go.
DetachDriver ==
    /\ step = "closed" /\ UsesUsbfs
    /\ driver' \in IF driver THEN BOOLEAN ELSE {FALSE}
    /\ step' = "opening"
    /\ UNCHANGED <<device, way>> /\ TalkUnchanged /\ TransfersUnchanged

\* A claimed interface can be used; on a warning about packets without data nobody
\* acts (detect_xhci_usb_zero_packet_bug_not_fix).
Claim ==
    /\ step = "opening"
    /\ IF driver THEN way' = "none" /\ step' = "closed" ELSE way' = "usbfs" /\ step' = Opened
    /\ UNCHANGED <<device, driver>> /\ TalkUnchanged /\ TransfersUnchanged

OpenTty ==
    /\ step = "closed" /\ ~UsesUsbfs
    /\ way' = "tty" /\ step' = Opened
    /\ UNCHANGED <<device, driver>> /\ TalkUnchanged /\ TransfersUnchanged

-----------------------------------------------------------------------------
(* The calls on the handle.                                                *)

\* usbfs_bulk_write: the packets of a transfer, and one without data for an end
\* that would not show.
Packets(len, need_zlp) ==
    [i \in 1 .. len \div Packet |-> Packet] \o
    (IF len % Packet # 0 THEN << len % Packet >>
     ELSE IF need_zlp /\ device.honours THEN << 0 >> ELSE << >>)

\* usbfs_bulk_read: a read of at most 512 bytes takes one transfer; from a tty it takes
\* all there is, or some of it (a transfer is not split).
Chunks ==
    LET most == IF way = "usbfs" /\ queue # << >> THEN 1 ELSE Len(queue)
    IN  {SubSeq(queue, 1, n) : n \in 1 .. most}

\* A read ends without a byte when the module has nothing to say for so long.
Silent == queue = << >> /\ (inbox = << >> \/ device.faulty)

\* qusb_noblock_read
Receives(data) ==
    \/ queue # << >> /\ data \in Chunks /\ queue' = SubSeq(queue, Len(data) + 1, Len(queue))
    \/ Silent /\ data = << >> /\ queue' = queue

Received == Chunks \cup {<< >>}

\* A write that fails, which returns 0 and no more: usbfs_bulk_write's -1 ends the
\* loop of qusb_noblock_write.
Sends(command) == inbox' = Append(inbox, command) \/ (device.faulty /\ inbox' = inbox)

-----------------------------------------------------------------------------
(* A module in normal mode.                                                *)

TalkStep(from) ==
    /\ step = from
    /\ UNCHANGED <<device, driver, way, chatter>> /\ TransfersUnchanged

\* retrieve_soft_revision: one answer, whatever comes first.
AskVersion ==
    /\ TalkStep("version") /\ Sends("version")
    /\ step' = IF inbox' = inbox THEN "drain" ELSE "read"
    /\ count' = 0
    /\ UNCHANGED <<version, result, queue>>

ReadVersion ==
    /\ TalkStep("read")
    /\ \E data \in Received :
          /\ Receives(data)
          /\ version' = (data # << >> /\ data[1] = "version")
    /\ step' = "drain"
    /\ UNCHANGED <<count, result, inbox>>

\* Mutant: a single read.
ReadAwayOnce ==
    /\ TalkStep("drain")
    /\ \E data \in Received : Receives(data)
    /\ step' = "command" /\ count' = 0
    /\ UNCHANGED <<version, result, inbox>>

\* switch_to_edl_mode: what waits is read away.
ReadAway ==
    /\ TalkStep("drain")
    /\ \E data \in Received :
          /\ Receives(data)
          /\ IF data = << >> \/ count + 1 = Drain THEN step' = "command" /\ count' = 0
                                                  ELSE step' = "drain" /\ count' = count + 1
    /\ UNCHANGED <<version, result, inbox>>

Command ==
    /\ TalkStep("command") /\ Sends("switch")
    /\ step' = "echo"
    /\ UNCHANGED <<count, version, result, queue>>

\* It has worked when a read brings the command back, and nothing else.
AwaitEcho ==
    /\ TalkStep("echo")
    /\ \E data \in Received :
          /\ Receives(data)
          /\ CASE data = << "switch" >> -> result' = "switched" /\ step' = "done"
               [] data # << "switch" >> /\ (data = << >> \/ count + 1 = Tries) ->
                      result' = "unheard" /\ step' = "done"
               [] OTHER -> UNCHANGED <<result, step>>
    /\ count' = count + 1
    /\ UNCHANGED <<version, inbox>>

\* The module answers a command by itself, in order, and logs in between.
Answer ==
    /\ inbox # << >>
    /\ queue' = Append(queue, inbox[1]) /\ inbox' = Tail(inbox)
    /\ UNCHANGED <<device, driver, way, step, count, version, result, chatter>>
    /\ TransfersUnchanged

Log ==
    /\ chatter > 0 /\ step \notin {"closed", "opening", "done"}
    /\ queue' = Append(queue, "log") /\ chatter' = chatter - 1
    /\ UNCHANGED <<device, driver, way, step, count, version, result, inbox>>
    /\ TransfersUnchanged

-----------------------------------------------------------------------------
(* A module in download mode.                                              *)

\* A module that was told of packets without data takes a short packet for the end
\* of a transfer; another counts the bytes that it expects, one write after another.
Take(state, packet, len) ==
    LET bytes == state.pending + packet IN
    IF (IF device.zlp THEN packet < Packet ELSE bytes = len \/ packet = 0)
    THEN [pending |-> 0, got |-> Append(state.got, bytes)]
    ELSE [pending |-> bytes, got |-> state.got]

\* What it makes of the packets of a write, one after another.
Taken(state, packets, len) ==
    LET after[i \in 0 .. Len(packets)] ==
            IF i = 0 THEN state ELSE Take(after[i - 1], packets[i], len)
    IN  after

\* A whole write, as the stages make them, with need_zlp as the option says.
Write(len) ==
    /\ step = "writing" /\ Len(sent) < MaxWrites
    /\ LET packets == Packets(len, device.zlp)
           last == Taken([pending |-> pending, got |-> got], packets, len)[Len(packets)]
       IN  pending' = last.pending /\ got' = last.got
    /\ sent' = Append(sent, len)
    /\ UNCHANGED <<device, driver, way, step>> /\ TalkUnchanged

Next ==
    \/ DetachDriver \/ Claim \/ OpenTty
    \/ AskVersion \/ ReadVersion \/ ReadAway \/ Command \/ AwaitEcho
    \/ Answer \/ Log
    \/ \E len \in Lengths : Write(len)

Spec == Init /\ [][Next]_hvars

-----------------------------------------------------------------------------
\* The two understand each other.  What the stages write arrives as it was written,
\* one transfer for one write, if the controller can say where a transfer ends or
\* is not asked to.  And a module that takes its time as it should is heard to
\* obey, over usbfs, in spite of what it logs and of an answer about its version
\* that nobody has waited for.
Understood ==
    /\ device.honours \/ ~device.zlp => got = sent /\ pending = 0
    /\ way = "usbfs" /\ ~device.faulty /\ step = "done" => result = "switched"
=============================================================================
