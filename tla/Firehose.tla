------------------------------ MODULE Firehose ------------------------------
(***************************************************************************)
(* The firehose stage of the upgrader (firehose_protocol.c): the host's    *)
(* main thread, which walks the command table; its reader thread, which    *)
(* turns what the target sends into struct fh_cmd records on a socket      *)
(* pair; and the target, which executes one command at a time.             *)
(*                                                                         *)
(*              tx (bulk OUT, one transfer)                                *)
(*   main  ------------------------------------>  target                   *)
(*     ^                                            |                      *)
(*     | queue (socket pair)                        | rx (bulk IN)         *)
(*     +-------------  reader (held)  <-------------+                      *)
(***************************************************************************)
EXTENDS FirehoseTable

CONSTANTS RxCap,      \* documents the IN endpoint holds before the target blocks
          QCap,       \* records the socket pair holds before the reader blocks
          LogBudget,  \* bound: log documents a target sends
          FaultSets   \* what may go wrong, a set of faults for each behaviour

FaultKinds == {"nak", "garbage", "timeout", "unplug"}

ASSUME ChannelAssumption ==
    /\ RxCap \in Nat \ {0}
    /\ QCap \in Nat \ {0}
    /\ LogBudget \in Nat
    /\ FaultSets \subseteq SUBSET FaultKinds

VARIABLES
    table, nand, eraseAll,        \* the parsed table, the device type, option -e
    faults,                       \* what may go wrong in this behaviour
    phase, x, step, unsent,       \* main thread: pass, loop index, place in the
                                  \*   exchange, sectors of the image still to send
    outcome,                      \* what firehose_main has returned
    queue, held, rstate,          \* socket pair, record the reader builds, its place
    link, tx, rx,                 \* cable, bulk OUT, bulk IN
    tmode, todo, flash, logs,     \* target: mode, sectors awaited, flash, logs sent
    bootDrive                     \* target: setbootablestoragedrive was executed

option   == <<table, nand, eraseAll, faults>>
main     == <<phase, x, step, unsent, outcome>>
reader   == <<held, rstate>>
target   == <<tmode, todo, flash, logs, bootDrive>>
vars     == <<option, main, queue, reader, link, tx, rx, target>>

-----------------------------------------------------------------------------
(* Commands and answers.                                                   *)

Phases == {"fixup", "drain", "configure", "sblErase", "vendor", "erase",
           "program", "sblProgram", "patch", "setbootable", "reset", "finalDrain"}

Passes == {"sblErase", "vendor", "erase", "program", "sblProgram", "patch"}

\* "next": between commands; "wait" and "rewait": in fh_wait_response_cmd for
\* the first answer (rewait: to the repeated configure); "raw": in
\* fh_send_rawmode_image; "close": waiting for the answer that ends an image.
Steps == {"next", "wait", "resend", "rewait", "raw", "close"}

\* The answer to a command: value and rawmode of the response element;
\* nakPayload carries the MaxPayloadSizeToTargetInBytes the target supports.
Responses == {"ack", "ackRaw", "nak", "nakPayload"}
Docs == Responses \cup {"log", "garbage"}

None == "none"
NoCmd == [type |-> "none", sectors |-> {}]
CmdTypes == {"none", "configure", "reconfigure", "erase", "program", "patch", "vendor",
             "setbootable", "reset", "data"}
Cmd == [type : CmdTypes, sectors : SUBSET Sectors]

Here == table[x]

\* Mutants: the boot loader is written in its turn; it is not erased first.
AppliesSblInTurn(e) ==
    \/ phase = "sblErase" /\ IsErase(e) /\ IsSbl(e) /\ (nand \/ eraseAll)
    \/ phase = "vendor" /\ e.type = "vendor"
    \/ phase = "erase" /\ IsErase(e) /\ e.sized /\ ~eraseAll
    \/ phase = "program" /\ IsProgram(e)
    \/ phase = "patch" /\ e.type = "patch"

AppliesNoSblErase(e) ==
    \/ phase = "sblErase" /\ IsErase(e) /\ IsSbl(e) /\ eraseAll
    \/ phase = "vendor" /\ e.type = "vendor"
    \/ phase = "erase" /\ IsErase(e) /\ e.sized /\ ~eraseAll
    \/ phase = "program" /\ IsProgram(e) /\ ~(nand /\ IsSbl(e))
    \/ phase = "sblProgram" /\ IsProgram(e) /\ nand /\ IsSbl(e)
    \/ phase = "patch" /\ e.type = "patch"

\* The loop of each pass and the test that skips an entry in it.
Applies(e) ==
    \/ phase = "sblErase" /\ IsErase(e) /\ IsSbl(e) /\ (nand \/ eraseAll)
    \/ phase = "vendor" /\ e.type = "vendor"
    \/ phase = "erase" /\ IsErase(e) /\ e.sized /\ ~eraseAll
    \/ phase = "program" /\ IsProgram(e) /\ ~(nand /\ IsSbl(e))
    \/ phase = "sblProgram" /\ IsProgram(e) /\ nand /\ IsSbl(e)
    \/ phase = "patch" /\ e.type = "patch"

Following ==
    CASE phase = "fixup"       -> "drain"
      [] phase = "drain"       -> "configure"
      [] phase = "configure"   -> "sblErase"
      [] phase = "sblErase"    -> "vendor"
      [] phase = "vendor"      -> "erase"
      [] phase = "erase"       -> "program"
      [] phase = "program"     -> "sblProgram"
      [] phase = "sblProgram"  -> "patch"
      [] phase = "patch"       -> IF nand THEN "reset" ELSE "setbootable"
      [] phase = "setbootable" -> "reset"
      [] OTHER                 -> "finalDrain"

\* What fh_send_cmd writes for the place the main thread is at.
Command ==
    CASE phase \in {"sblErase", "erase"} ->
            [type |-> "erase", sectors |-> EraseArea(table, x, eraseAll)]
      [] phase \in {"program", "sblProgram"} ->
            [type |-> "program", sectors |-> Area(Here)]
      [] phase = "configure" ->
            [type |-> IF step = "resend" THEN "reconfigure" ELSE "configure", sectors |-> {}]
      [] phase \in {"vendor", "patch", "setbootable", "reset"} ->
            [type |-> phase, sectors |-> {}]
      [] OTHER -> NoCmd

Least(s, set) == s \in set /\ \A r \in set : s <= r

-----------------------------------------------------------------------------
Init ==
    /\ table \in Tables
    /\ nand \in BOOLEAN
    /\ eraseAll \in BOOLEAN
    /\ faults \in FaultSets
    /\ phase = "fixup" /\ x = 1 /\ step = "next" /\ unsent = {}
    /\ outcome = "running"
    /\ queue = << >> /\ held = None /\ rstate = "read"
    /\ link = TRUE /\ tx = NoCmd /\ rx = << >>
    /\ tmode = "cmd" /\ todo = {} /\ logs = 0 /\ bootDrive = FALSE
    /\ flash = [s \in Sectors |-> "old"]

Running == outcome = "running"

-----------------------------------------------------------------------------
(* The main thread.                                                        *)

\* firehose_main before it starts the reader: an empty table or a missing
\* image ends the upgrade.
Fixup ==
    /\ Running /\ phase = "fixup"
    /\ IF WellFormed(table)
       THEN phase' = Following /\ outcome' = outcome
       ELSE outcome' = "failed" /\ phase' = phase
    /\ UNCHANGED <<option, x, step, unsent, queue, reader, link, tx, rx, target>>

\* The polls that throw away whatever is queued, before configure and after
\* reset, until the target has been silent for a second.
Drain ==
    /\ Running /\ phase \in {"drain", "finalDrain"}
    /\ queue # << >>
    /\ queue' = Tail(queue)
    /\ UNCHANGED <<option, main, reader, link, tx, rx, target>>

DrainEnd ==
    /\ Running /\ phase \in {"drain", "finalDrain"}
    /\ queue = << >>
    /\ IF phase = "drain"
       THEN phase' = Following /\ outcome' = outcome
       ELSE outcome' = "done" /\ phase' = phase
    /\ UNCHANGED <<option, x, step, unsent, queue, reader, link, tx, rx, target>>

Skip ==
    /\ Running /\ step = "next" /\ phase \in Passes
    /\ x <= Len(table) /\ ~Applies(Here)
    /\ x' = x + 1
    /\ UNCHANGED <<option, phase, step, unsent, outcome, queue, reader, link, tx, rx, target>>

EndPass ==
    /\ Running /\ step = "next" /\ phase \in Passes
    /\ x > Len(table)
    /\ phase' = Following
    /\ x' = 1
    /\ UNCHANGED <<option, step, unsent, outcome, queue, reader, link, tx, rx, target>>

\* The place is one at which fh_send_cmd is called.
AtSend ==
    \/ step = "next" /\ phase \in Passes /\ x <= Len(table) /\ Applies(Here)
    \/ step = "next" /\ phase \in {"configure", "setbootable", "reset"}
    \/ step = "resend"

\* fh_send_cmd.  Its result is ignored: when the write fails the caller still
\* waits for the answer to a command the target never got.
Send ==
    /\ Running /\ AtSend
    /\ tx = NoCmd
    /\ tx' = IF link THEN Command ELSE NoCmd
    /\ step' = IF step = "resend" THEN "rewait" ELSE "wait"
    /\ UNCHANGED <<option, phase, x, unsent, outcome, queue, reader, link, rx, target>>

Waiting == step \in {"wait", "rewait", "close"}

\* fh_wait_response_cmd passes over logs.
PassLog ==
    /\ Running /\ Waiting
    /\ queue # << >> /\ Head(queue) = "log"
    /\ queue' = Tail(queue)
    /\ UNCHANGED <<option, main, reader, link, tx, rx, target>>

IsAck(r) == r \in {"ack", "ackRaw"}

\* Mutant: the value of the answer is not looked at.
FinishesOnAny(r) ==
    \/ phase \in {"program", "sblProgram"} /\ step = "close" /\ r \in Responses
    \/ phase \notin {"program", "sblProgram"}

\* The answer that lets the main thread leave the command behind it.
Finishes(r) ==
    \/ phase \in {"setbootable", "reset"}
    \/ phase \in {"program", "sblProgram"} /\ step = "close" /\ r = "ack"
    \/ phase \in {"configure", "vendor", "sblErase", "erase", "patch"} /\ IsAck(r)

\* Mutant: the image is sent whatever the target answered.
ContinuesOnAny(r) ==
    \/ phase = "configure" /\ step = "wait" /\ r = "nakPayload"
    \/ phase \in {"program", "sblProgram"} /\ step = "wait"

\* The answer that makes it go on with the same command.
Continues(r) ==
    \/ phase = "configure" /\ step = "wait" /\ r = "nakPayload"
    \/ phase \in {"program", "sblProgram"} /\ step = "wait" /\ r = "ackRaw"

TakeAnswer ==
    /\ Running /\ Waiting
    /\ queue # << >> /\ Head(queue) \in Responses
    /\ queue' = Tail(queue)
    /\ UNCHANGED <<option, reader, link, tx, rx, target>>

\* The command is done: the next entry of the pass, or the next phase.
Finish ==
    /\ TakeAnswer
    /\ Finishes(Head(queue))
    /\ step' = "next"
    /\ IF phase \in Passes
       THEN x' = x + 1 /\ phase' = phase
       ELSE x' = x /\ phase' = Following
    /\ UNCHANGED <<unsent, outcome>>

\* configure again with the target's payload size; or send the image.
Continue ==
    /\ TakeAnswer
    /\ Continues(Head(queue))
    /\ IF phase = "configure"
       THEN step' = "resend" /\ unsent' = unsent
       ELSE step' = "raw" /\ unsent' = Area(Here)
    /\ UNCHANGED <<phase, x, outcome>>

Refused ==
    /\ TakeAnswer
    /\ ~Finishes(Head(queue)) /\ ~Continues(Head(queue))
    /\ outcome' = "failed"
    /\ UNCHANGED <<phase, x, step, unsent>>

\* Mutants: a late answer makes the host repeat the command; it waits for ever.
TimeoutRepeats ==
    /\ Running /\ Waiting
    /\ queue = << >>
    /\ "timeout" \in faults
    /\ step' = "next"
    /\ UNCHANGED <<option, phase, x, outcome, unsent, queue, reader, link, tx, rx, target>>

TimeoutNever ==
    /\ Running /\ Waiting
    /\ queue = << >>
    /\ UNCHANGED vars

\* poll found nothing within the time the caller allows.
Timeout ==
    /\ Running /\ Waiting
    /\ queue = << >>
    /\ "timeout" \in faults
    /\ outcome' = "failed"
    /\ UNCHANGED <<option, phase, x, step, unsent, queue, reader, link, tx, rx, target>>

\* One turn of the loop of fh_send_rawmode_image.
SendChunk ==
    /\ Running /\ step = "raw"
    /\ link /\ tx = NoCmd
    /\ \E s \in unsent :
          /\ Least(s, unsent)
          /\ tx' = [type |-> "data", sectors |-> {s}]
          /\ unsent' = unsent \ {s}
          /\ step' = IF unsent = {s} THEN "close" ELSE "raw"
    /\ UNCHANGED <<option, phase, x, outcome, queue, reader, link, rx, target>>

\* A short write ends the image and the upgrade: the cable is gone, or the
\* target did not take the transfer within 15 seconds.
SendFails ==
    /\ Running /\ step = "raw"
    /\ ~link \/ (tx # NoCmd /\ "timeout" \in faults)
    /\ outcome' = "failed"
    /\ UNCHANGED <<option, phase, x, step, unsent, queue, reader, link, tx, rx, target>>

-----------------------------------------------------------------------------
(* The reader thread: _fh_recv_cmd turns one read of the IN endpoint into  *)
(* at most one record.  A read may return several documents; how many is   *)
(* the transport's choice.                                                 *)

\* Mutant: a log overwrites the response it follows.
ParseKeepsLast ==
    /\ Running /\ rstate \in {"read", "parse"}
    /\ rx # << >>
    /\ Head(rx) # "garbage"
    /\ held' = Head(rx)
    /\ rstate' = "parse"
    /\ rx' = Tail(rx)
    /\ UNCHANGED <<option, main, queue, link, tx, target>>

\* The next document of the read: the first one; or one after logs only; or
\* a response after a response, which overwrites it.
Parse ==
    /\ Running /\ rstate \in {"read", "parse"}
    /\ rx # << >>
    /\ Head(rx) # "garbage"
    /\ ~(Head(rx) = "log" /\ held \in Responses)
    /\ held' = Head(rx)
    /\ rstate' = "parse"
    /\ rx' = Tail(rx)
    /\ UNCHANGED <<option, main, queue, link, tx, target>>

\* A log behind a response ends the parse: the rest of the read is dropped.
DropLog ==
    /\ Running /\ rstate = "parse"
    /\ rx # << >> /\ Head(rx) = "log" /\ held \in Responses
    /\ rstate' = "drop"
    /\ rx' = Tail(rx)
    /\ UNCHANGED <<option, main, queue, held, link, tx, target>>

DropRest ==
    /\ Running /\ rstate = "drop"
    /\ rx # << >>
    /\ rx' = Tail(rx)
    /\ UNCHANGED <<option, main, queue, reader, link, tx, target>>

\* A document cut short or unknown, or a failed read: the thread returns, and
\* with it goes what it had parsed of this read.
ReaderExit ==
    /\ Running
    /\ \/ rstate \in {"read", "parse"} /\ rx # << >> /\ Head(rx) = "garbage"
       \/ rstate = "read" /\ ~link
    /\ rstate' = "exit"
    /\ held' = None
    /\ rx' = IF rx = << >> THEN rx ELSE Tail(rx)
    /\ UNCHANGED <<option, main, queue, link, tx, target>>

\* fh_recv_cmd_thread writes the record; the write blocks on a full socket.
Deliver ==
    /\ Running /\ rstate \in {"parse", "drop"}
    /\ Len(queue) < QCap
    /\ queue' = Append(queue, held)
    /\ held' = None
    /\ rstate' = "read"
    /\ UNCHANGED <<option, main, link, tx, rx, target>>

-----------------------------------------------------------------------------
(* The target and the cable, modelled from how the host uses them.  The    *)
(* target goes on with what it has received after the host has given up.   *)

Reply(r) ==
    /\ link /\ Len(rx) < RxCap
    /\ rx' = Append(rx, r)

TakeTransfer ==
    /\ tx # NoCmd
    /\ tx' = NoCmd
    /\ UNCHANGED <<option, main, queue, reader, link, logs>>

\* A command executed and acknowledged.
Obey ==
    /\ tmode \in {"cmd", "refusing"} /\ tx.type \notin {"none", "data"}
    /\ TakeTransfer
    /\ Reply(IF tx.type = "program" THEN "ackRaw" ELSE "ack")
    /\ flash' = [s \in Sectors |->
          IF tx.type = "erase" /\ s \in tx.sectors THEN "erased" ELSE flash[s]]
    /\ todo' = IF tx.type = "program" THEN tx.sectors ELSE todo
    /\ tmode' = CASE tx.type = "program" -> "raw"
                  [] tx.type = "reset"   -> "reset"
                  [] OTHER               -> "cmd"
    /\ bootDrive' = (bootDrive \/ tx.type = "setbootable")

\* A command refused; a first configure may always be, for its payload size.
Refuse ==
    /\ tmode \in {"cmd", "refusing"} /\ tx.type \notin {"none", "data"}
    /\ TakeTransfer
    /\ \/ "nak" \in faults /\ Reply("nak")
       \/ tx.type = "configure" /\ Reply("nakPayload")
    /\ UNCHANGED <<tmode, todo, flash, bootDrive>>

\* A transfer received in raw mode is written to the next sector awaited,
\* whatever it holds; the last one ends raw mode.
Write ==
    /\ tmode = "raw"
    /\ TakeTransfer
    /\ \E s \in todo :
          /\ Least(s, todo)
          /\ flash' = [flash EXCEPT ![s] =
                IF tx = [type |-> "data", sectors |-> {s}] THEN "new" ELSE "wrong"]
          /\ todo' = todo \ {s}
          /\ IF todo = {s}
             THEN Reply("ack") /\ tmode' = "cmd"
             ELSE UNCHANGED <<rx, tmode>>
    /\ UNCHANGED bootDrive

\* A write error: the target leaves raw mode and drops what is still sent.
WriteError ==
    /\ tmode = "raw" /\ "nak" \in faults
    /\ TakeTransfer
    /\ Reply("nak")
    /\ tmode' = "refusing"
    /\ todo' = {}
    /\ UNCHANGED <<flash, bootDrive>>

DropData ==
    /\ tmode = "refusing" /\ tx.type = "data"
    /\ TakeTransfer
    /\ UNCHANGED <<rx, tmode, todo, flash, bootDrive>>

Log ==
    /\ logs < LogBudget
    /\ Reply("log")
    /\ logs' = logs + 1
    /\ UNCHANGED <<option, main, queue, reader, link, tx, tmode, todo, flash, bootDrive>>

\* A document the transport split, or one the host does not know.
Garbage ==
    /\ "garbage" \in faults
    /\ logs < LogBudget
    /\ Reply("garbage")
    /\ logs' = logs + 1
    /\ UNCHANGED <<option, main, queue, reader, link, tx, tmode, todo, flash, bootDrive>>

Unplug ==
    /\ "unplug" \in faults /\ link
    /\ link' = FALSE
    /\ tx' = NoCmd
    /\ rx' = << >>
    /\ UNCHANGED <<option, main, queue, reader, target>>

-----------------------------------------------------------------------------
\* firehose_main has returned: nothing more is asked of anyone.
Returned == ~Running /\ UNCHANGED vars

Main ==
    \/ Fixup \/ Drain \/ DrainEnd \/ Skip \/ EndPass \/ Send
    \/ PassLog \/ Finish \/ Continue \/ Refused \/ SendChunk \/ SendFails

Reader == Parse \/ DropLog \/ DropRest \/ ReaderExit \/ Deliver

Executes == Obey \/ Refuse \/ Write \/ WriteError \/ DropData

Next ==
    \/ Main \/ Timeout
    \/ Reader
    \/ Executes \/ Log \/ Garbage \/ Unplug
    \/ Returned

Spec == Init /\ [][Next]_vars

\* Both threads run when they can, a poll ends when its time is over, and the
\* target executes what it was sent.  Nothing makes it send logs.
FairSpec ==
    /\ Spec
    /\ WF_vars(Main)
    /\ WF_vars(Timeout)
    /\ WF_vars(Reader)
    /\ WF_vars(Executes)

-----------------------------------------------------------------------------
TypeOK ==
    /\ table \in Tables /\ nand \in BOOLEAN /\ eraseAll \in BOOLEAN
    /\ faults \in FaultSets
    /\ phase \in Phases /\ x \in Nat \ {0} /\ step \in Steps
    /\ unsent \in SUBSET Sectors
    /\ outcome \in {"running", "failed", "done"}
    /\ queue \in Seq(Responses \cup {"log"})
    /\ held \in Responses \cup {"log", None}
    /\ rstate \in {"read", "parse", "drop", "exit"}
    /\ held # None <=> rstate \in {"parse", "drop"}
    /\ link \in BOOLEAN
    /\ tx \in Cmd
    /\ rx \in Seq(Docs)
    /\ tmode \in {"cmd", "raw", "refusing", "reset"}
    /\ todo \in SUBSET Sectors
    /\ flash \in [Sectors -> {"old", "erased", "new", "wrong"}]
    /\ logs \in Nat
    /\ bootDrive \in BOOLEAN

Up == INSTANCE Upgrade

\* ReleaseNote V1.2.4: "first erase SBL, last program SBL".  On nand, with a
\* table that erases the boot loader, the flash never holds the old boot
\* loader next to a sector already erased or written, and never the new one
\* next to an image that is not completely there: whenever the upgrade is cut
\* short, the module cannot boot into a mixture.
SblGuard ==
    nand /\ ErasesSbl(table, eraseAll) =>
        /\ flash[0] = "old" => Untouched(flash)
        /\ flash[0] = "new" => OthersWritten(table, flash)

\* fh_process_program: image data leaves the host only for a target that
\* waits for exactly that sector, unless it has just refused the image.
\* (A command would be written into the flash; data would be parsed as XML.)
DataWhereAwaited ==
    tx.type = "data" =>
        \/ tmode = "raw" /\ \A s \in tx.sectors : Least(s, todo)
        \/ tmode = "refusing"

\* The answer the main thread finds belongs to the command it waits for: a
\* response still under way means the target is done with everything the host
\* has sent, so no later command can be taken for answered.
AnswerMatches ==
    (\E i \in DOMAIN queue : queue[i] \in Responses) \/ held \in Responses =>
        /\ Running => phase \notin {"drain", "finalDrain"} /\ step # "next"
        /\ tx.type \in {"none", "data"}
        /\ tx.type = "data" => tmode = "refusing"

\* firehose_main returns 0, or the target resets, only when every image of the
\* table is completely in the flash and, without -e, every area that an erase
\* entry names was erased first.
CompleteWhenReset ==
    tmode = "reset" \/ outcome = "done" =>
        /\ Written(table, flash)
        /\ ~eraseAll => \A i \in DOMAIN table :
              IsErase(table[i]) /\ table[i].sized =>
                  \A s \in Area(table[i]) : flash[s] \in {"erased", "new"}

\* Every upgrade ends, whatever the target and the cable do.
Ends == <>(outcome # "running")

\* A target that answers everything, however its logs and answers fall into
\* reads, is always upgraded: no answer is lost, nobody waits for ever.
Succeeds == WellFormed(table) /\ faults = {} ~> outcome = "done"

\* Every upgrade ends, and well where nothing goes wrong.
Concludes == Ends /\ Succeeds

\* The stage as a whole keeps what Upgrade promises.
Implements == Up!Spec
=============================================================================
