------------------------------- MODULE UsbTcp -------------------------------
(***************************************************************************)
(* The bridge between an upgrader and a module that hangs on another       *)
(* machine: usb2tcp.c is the server beside the module, usb_linux.c         *)
(* (qtcp_read, qtcp_write under qusb_noblock_read and _write) its client.  *)
(*                                                                         *)
(*   host --- c2s: header, body ---> server main ---- bulk OUT ---> module *)
(*   host <-- s2c: header, body ---- server main <- pair - reader <- IN -- *)
(*                                                                         *)
(* A unit of data is as long as a header.  Units are numbered as they are  *)
(* first sent, so that a sequence shows what was lost, moved or doubled.   *)
(***************************************************************************)
EXTENDS Integers, Sequences, SequencesExt

CONSTANTS
    InBudget,   \* bound: units the module sends
    Writes,     \* bound: the sizes of the writes of the host, in order
    Reads,      \* the calls of qusb_noblock_read: records max, min
    MaxIn,      \* units in MAX_USBFS_BULK_IN_SIZE
    TcpCap,     \* units a direction of the connection holds
    FaultSets   \* what may go wrong, a set of faults for each behaviour

\* stall: the network makes a wait of the host time out; idle: the module is
\* silent for thirty seconds; close: the host hangs up early.
FaultKinds == {"stall", "idle", "close"}

ASSUME UsbTcpAssumption ==
    /\ InBudget \in Nat
    /\ Writes \in Seq(Nat \ {0})
    /\ Reads \subseteq [max : Nat \ {0}, min : Nat \ {0}]
    /\ MaxIn \in Nat \ {0} /\ TcpCap \in Nat \ {0}
    /\ FaultSets \subseteq SUBSET FaultKinds

VARIABLES
    faults,
    devSent, inEp, devGot,       \* module: units sent, waiting in bulk IN, received
    reader, pair, woken,         \* server: reader thread, socket pair, wake-up byte
    main, ready, pbuf, expect,   \* server: place, descriptors poll returned, buffer,
                                 \*   units of a body still to come
    s2c, c2s, conn,              \* the connection: what is under way, and its state
    call, cur, tlvLen, want,     \* host reading: call, units read, length left of the
                                 \*   record, units this qtcp_read still wants
    hostGot, inCut,              \* what the host's caller was given; a read timed out
    wplace, wleft, wdone, wcalls,\* host writing: place, units left of the call, units
                                 \*   written of this record, calls made
    hostSent, outCut             \* units put on the connection; a write timed out

device == <<devSent, inEp, devGot>>
thread == <<reader, pair, woken>>
server == <<main, ready, pbuf, expect>>
net    == <<s2c, c2s, conn>>
hread  == <<call, cur, tlvLen, want, hostGot, inCut>>
hwrite == <<wplace, wleft, wdone, wcalls, hostSent, outCut>>
vars   == <<faults, device, thread, server, net, hread, hwrite>>

-----------------------------------------------------------------------------
\* TLV and the units of a stream.
Header(n) == [type |-> "tlv", n |-> n]
Unit(n)   == [type |-> "unit", n |-> n]
NoCall    == [max |-> 0, min |-> 0]

Least(a, b) == IF a < b THEN a ELSE b

Init ==
    /\ faults \in FaultSets
    /\ devSent = << >> /\ inEp = << >> /\ devGot = << >>
    /\ reader = "read" /\ pair = << >> /\ woken = FALSE
    /\ main = "poll" /\ ready = {} /\ pbuf = << >> /\ expect = 0
    /\ s2c = << >> /\ c2s = << >> /\ conn = "open"
    /\ call = NoCall /\ cur = 0 /\ tlvLen = 0 /\ want = 0
    /\ hostGot = << >> /\ inCut = FALSE
    /\ wplace = "idle" /\ wleft = 0 /\ wdone = 0 /\ wcalls = 0
    /\ hostSent = << >> /\ outCut = FALSE

DevSend ==
    /\ Len(devSent) < InBudget
    /\ devSent' = Append(devSent, Unit(Len(devSent) + 1))
    /\ inEp' = Append(inEp, Unit(Len(devSent) + 1))
    /\ UNCHANGED <<faults, devGot, thread, server, net, hread, hwrite>>

-----------------------------------------------------------------------------
(* usb_bulk_read_thread.                                                   *)

\* A bulk transfer of what there is, passed on in one write.
ReadUsb ==
    /\ reader = "read" /\ inEp # << >> /\ main # "gone"
    /\ \E n \in 1 .. Least(MaxIn, Len(inEp)) :
          pair' = pair \o SubSeq(inEp, 1, n) /\ inEp' = SubSeq(inEp, n + 1, Len(inEp))
    /\ reader' = "wait"
    /\ UNCHANGED <<faults, devSent, devGot, woken, server, net, hread, hwrite>>

\* Mutant: the thread does not wait until main has taken the data.
WakeAtOnce ==
    /\ reader = "wait"
    /\ reader' = "read" /\ woken' = FALSE
    /\ UNCHANGED <<faults, device, pair, server, net, hread, hwrite>>

\* read(fd, buf, 32): the byte main wrote.
Wake ==
    /\ reader = "wait" /\ woken
    /\ reader' = "read" /\ woken' = FALSE
    /\ UNCHANGED <<faults, device, pair, server, net, hread, hwrite>>

\* Mutant: only the module's silence ends the thread.
ReaderExitSilent ==
    /\ reader = "read" /\ inEp = << >> /\ "idle" \in faults
    /\ reader' = "gone"
    /\ UNCHANGED <<faults, device, pair, woken, server, net, hread, hwrite>>

\* Nothing for thirty seconds, or main has closed its end.
ReaderExit ==
    /\ \/ reader = "read" /\ inEp = << >> /\ "idle" \in faults
       \/ reader \in {"read", "wait"} /\ main = "gone" /\ ~woken
    /\ reader' = "gone"
    /\ UNCHANGED <<faults, device, pair, woken, server, net, hread, hwrite>>

-----------------------------------------------------------------------------
(* usb2tcp_main.                                                           *)

\* fin: the host has closed; reset: it has, with data unread; down: the server has.
Open == conn = "open"

Readable ==
    (IF pair # << >> THEN {"usb"} ELSE {}) \cup (IF c2s # << >> THEN {"client"} ELSE {})

\* poll; an error or a hang-up of either descriptor is looked at first.
Poll ==
    /\ main = "poll" /\ ready = {}
    /\ reader # "gone" /\ conn # "reset"
    /\ Readable # {}
    /\ ready' = Readable
    /\ UNCHANGED <<faults, device, thread, main, pbuf, expect, net, hread, hwrite>>

\* Also the end of file in the middle of a header or a body, and the signal a
\* write to a closed connection raises.
Hangup ==
    /\ \/ main = "poll" /\ ready = {} /\ (reader = "gone" \/ conn = "reset")
       \/ main = "poll" /\ ready \in {{}, {"client"}} /\ c2s = << >> /\ ~Open
       \/ main = "forward" /\ conn = "reset"
       \/ main = "body" /\ expect > 0 /\ c2s = << >> /\ ~Open
    /\ main' = "gone" /\ ready' = {}
    /\ conn' = IF Open THEN "down" ELSE conn
    /\ UNCHANGED <<faults, device, thread, pbuf, expect, s2c, c2s, hread, hwrite>>

\* Mutant: the thread is not woken.
FromUsbNoWake ==
    /\ main = "poll" /\ "usb" \in ready
    /\ pbuf' = << Header(Len(pair)) >> \o pair
    /\ pair' = << >>
    /\ ready' = ready \ {"usb"}
    /\ main' = "forward"
    /\ UNCHANGED <<faults, device, reader, woken, expect, net, hread, hwrite>>

\* The usb descriptor comes first: take what the thread has written, wake the
\* thread, and then send a header and the data.
FromUsb ==
    /\ main = "poll" /\ "usb" \in ready
    /\ pbuf' = << Header(Len(pair)) >> \o pair
    /\ pair' = << >> /\ woken' = TRUE
    /\ ready' = ready \ {"usb"}
    /\ main' = "forward"
    /\ UNCHANGED <<faults, device, reader, expect, net, hread, hwrite>>

\* noblock_full_write waits for room as long as it takes; the first write to a
\* host that has closed makes the connection a reset one.
Forward ==
    /\ main = "forward" /\ conn \in {"open", "fin"} /\ Len(s2c) < TcpCap
    /\ IF Open
       THEN s2c' = Append(s2c, Head(pbuf)) /\ UNCHANGED <<c2s, conn>>
       ELSE s2c' = s2c /\ conn' = "reset" /\ c2s' = << >>
    /\ pbuf' = Tail(pbuf)
    /\ main' = IF Len(pbuf) = 1 THEN "poll" ELSE "forward"
    /\ UNCHANGED <<faults, device, thread, ready, expect, hread, hwrite>>

\* A header; something that is none is thrown away.
FromClient ==
    /\ main = "poll" /\ ready = {"client"} /\ c2s # << >>
    /\ c2s' = Tail(c2s) /\ ready' = {}
    /\ IF Head(c2s).type = "tlv"
       THEN main' = "body" /\ expect' = Head(c2s).n
       ELSE UNCHANGED <<main, expect>>
    /\ UNCHANGED <<faults, device, thread, pbuf, s2c, conn, hread, hwrite>>

\* noblock_full_read of the body, whatever it is.
TakeBody ==
    /\ main = "body" /\ expect > 0 /\ c2s # << >>
    /\ pbuf' = Append(pbuf, Head(c2s))
    /\ c2s' = Tail(c2s)
    /\ expect' = expect - 1
    /\ UNCHANGED <<faults, device, thread, main, ready, s2c, conn, hread, hwrite>>

\* Mutant: the buffer is written once more.
ToUsbTwice ==
    /\ main = "body" /\ expect = 0
    /\ devGot' = devGot \o pbuf
    /\ \/ pbuf' = << >> /\ main' = "poll"
       \/ UNCHANGED <<pbuf, main>>
    /\ UNCHANGED <<faults, devSent, inEp, thread, ready, expect, net, hread, hwrite>>

ToUsb ==
    /\ main = "body" /\ expect = 0
    /\ devGot' = devGot \o pbuf
    /\ pbuf' = << >> /\ main' = "poll"
    /\ UNCHANGED <<faults, devSent, inEp, thread, ready, expect, net, hread, hwrite>>

-----------------------------------------------------------------------------
(* The host's side: qusb_noblock_read over qtcp_read.                      *)

ReadBegin ==
    /\ call = NoCall /\ Open
    /\ call' \in Reads
    /\ cur' = 0
    /\ UNCHANGED <<faults, device, thread, server, net, tlvLen, want, hostGot, inCut, hwrite>>

ReadUnchanged == UNCHANGED <<faults, device, thread, server, c2s, conn, call, hwrite>>

ReadReturns == call' = NoCall

\* Mutant: the rest of a record is forgotten.
FromRecordNew ==
    /\ call # NoCall /\ want = 0 /\ s2c # << >>
    /\ Head(s2c).type = "tlv"
    /\ s2c' = Tail(s2c)
    /\ want' = Least(call.max - cur, Head(s2c).n)
    /\ tlvLen' = 0
    /\ UNCHANGED <<cur, hostGot, inCut>> /\ ReadUnchanged

\* The header of the next record, or the rest of the last one: what this call
\* takes of it is counted off before it arrives.
FromRecord ==
    /\ call # NoCall /\ want = 0 /\ s2c # << >>
    /\ tlvLen > 0 \/ Head(s2c).type = "tlv"
    /\ LET left == IF tlvLen = 0 THEN Head(s2c).n ELSE tlvLen
       IN  /\ want' = Least(call.max - cur, left)
           /\ tlvLen' = left - want'
    /\ s2c' = IF tlvLen = 0 THEN Tail(s2c) ELSE s2c
    /\ UNCHANGED <<cur, hostGot, inCut>> /\ ReadUnchanged

\* A tag that does not match: qtcp_read returns 0, and the call what it has.
NoHeader ==
    /\ call # NoCall /\ want = 0 /\ s2c # << >>
    /\ tlvLen = 0 /\ Head(s2c).type # "tlv"
    /\ s2c' = Tail(s2c)
    /\ ReadReturns
    /\ UNCHANGED <<faults, device, thread, server, c2s, conn, cur, tlvLen, want,
                   hostGot, inCut, hwrite>>

TakeUnit ==
    /\ want > 0 /\ s2c # << >>
    /\ hostGot' = Append(hostGot, Head(s2c))
    /\ s2c' = Tail(s2c)
    /\ cur' = cur + 1
    /\ want' = want - 1
    /\ IF want = 1 /\ cur' >= call.min THEN ReadReturns ELSE call' = call
    /\ UNCHANGED <<faults, device, thread, server, c2s, conn, tlvLen, inCut, hwrite>>

\* poll_wait: no record within the time, or the rest of one is late.
ReadTimeout ==
    /\ call # NoCall /\ s2c = << >>
    /\ want = 0 \/ "stall" \in faults \/ ~Open
    /\ ReadReturns /\ want' = 0
    /\ inCut' = (inCut \/ want > 0)
    /\ UNCHANGED <<faults, device, thread, server, net, cur, tlvLen, hostGot, hwrite>>

-----------------------------------------------------------------------------
(* qusb_noblock_write over qtcp_write.                                     *)

WriteUnchanged ==
    UNCHANGED <<faults, device, thread, server, s2c, conn, hread>>

WriteBegin ==
    /\ wplace = "idle" /\ Open /\ wcalls < Len(Writes)
    /\ wcalls' = wcalls + 1
    /\ wleft' = Writes[wcalls + 1]
    /\ wplace' = "header"
    /\ UNCHANGED <<c2s, wdone, hostSent, outCut>> /\ WriteUnchanged

\* A header for all that is left of the call.
WriteHeader ==
    /\ wplace = "header" /\ Open /\ Len(c2s) < TcpCap
    /\ c2s' = Append(c2s, Header(wleft))
    /\ wdone' = 0
    /\ wplace' = "body"
    /\ UNCHANGED <<wleft, wcalls, hostSent, outCut>> /\ WriteUnchanged

WriteUnit ==
    /\ wplace = "body" /\ Open /\ Len(c2s) < TcpCap
    /\ hostSent' = Append(hostSent, Unit(Len(hostSent) + 1))
    /\ c2s' = Append(c2s, Unit(Len(hostSent) + 1))
    /\ wleft' = wleft - 1 /\ wdone' = wdone + 1
    /\ wplace' = IF wleft = 1 THEN "idle" ELSE "body"
    /\ UNCHANGED <<wcalls, outCut>> /\ WriteUnchanged

\* No room in time: qtcp_write returns what it has written of the record.  When
\* that is something, the rest of the call is sent under a header of its own,
\* which the server takes for data; when it is nothing, the call ends.
WriteTimeout ==
    /\ wplace \in {"header", "body"}
    /\ ~Open \/ ("stall" \in faults /\ Len(c2s) = TcpCap)
    /\ wplace' = IF wplace = "body" /\ wdone > 0 THEN "header" ELSE "idle"
    /\ wdone' = 0
    /\ outCut' = (outCut \/ wplace = "body")
    /\ UNCHANGED <<c2s, wleft, wcalls, hostSent>> /\ WriteUnchanged

\* The upgrader is done, or gives up: what it has not read makes the close a reset.
Close ==
    /\ "close" \in faults /\ Open
    /\ wplace = "idle" /\ call = NoCall
    /\ IF s2c = << >> THEN conn' = "fin" /\ c2s' = c2s ELSE conn' = "reset" /\ c2s' = << >>
    /\ UNCHANGED <<faults, device, thread, server, s2c, hread, hwrite>>

-----------------------------------------------------------------------------
Reader == ReadUsb \/ Wake \/ ReaderExit
Main   == Poll \/ Hangup \/ FromUsb \/ Forward \/ FromClient \/ TakeBody \/ ToUsb
HostReads  == ReadBegin \/ FromRecord \/ NoHeader \/ TakeUnit \/ ReadTimeout
HostWrites == WriteBegin \/ WriteHeader \/ WriteUnit \/ WriteTimeout

Ended == main = "gone" /\ UNCHANGED vars

Next == DevSend \/ Reader \/ Main \/ HostReads \/ HostWrites \/ Close \/ Ended

Spec == Init /\ [][Next]_vars

\* Threads and the module go on when they can, and a host that reads goes on reading.
FairSpec ==
    /\ Spec
    /\ WF_vars(DevSend) /\ WF_vars(Reader) /\ WF_vars(Main)
    /\ WF_vars(HostReads) /\ WF_vars(HostWrites)

-----------------------------------------------------------------------------
\* The reader thread waits to be woken: when the module is silent for half a
\* minute and the server hangs up, all it has taken from the module is sent.
NothingLeftBehind == conn = "down" => pair = << >> /\ pbuf = << >>

\* Each direction keeps what BytePipe promises, until a record is cut short by
\* a timeout.
In  == INSTANCE BytePipe WITH sent <- devSent, got <- hostGot, cut <- inCut
Out == INSTANCE BytePipe WITH sent <- hostSent, got <- devGot, cut <- outCut
Pipes == In!Spec /\ Out!Spec

\* With no fault everything arrives, on both sides: nobody waits for somebody
\* who waits for him, however full the connection is.
Delivered ==
    faults = {} ~> /\ Len(hostGot) = InBudget
                   /\ wcalls = Len(Writes) /\ wplace = "idle" /\ devGot = hostSent

\* Whichever side goes, the server and its thread end.
Released == conn # "open" ~> main = "gone" /\ reader = "gone"

\* Nobody waits for ever: what can be delivered is, and both threads end with the
\* connection.
NobodyWaits == Delivered /\ Released
=============================================================================
