-------------------------- MODULE FirehoseProofs ---------------------------
(***************************************************************************)
(* Proofs about Firehose for every table, every capacity of the channels,  *)
(* every number of logs and every set of faults: its inductive invariant,  *)
(* that it implements Upgrade, and that it reports success only for a      *)
(* complete flash.                                                         *)
(***************************************************************************)
EXTENDS FirehoseInv, FirehosePackage, SequenceTheorems, NaturalsInduction, WellFoundedInduction,
        TLAPS

\* What fh_send_cmd writes is a command.
LEMMA CommandType ==
    ASSUME TypeOK PROVE Command \in Cmd
<1>1. Area(Here) \in SUBSET Sectors
  BY DEF Area
<1>2. EraseArea(table, x, eraseAll) \in SUBSET Sectors
  BY DEF EraseArea, EraseSpan, Area
<1>3. QED
  BY <1>1, <1>2 DEF Command, Cmd, CmdTypes, NoCmd, TypeOK, Phases

\* Every phase is followed by a phase.
LEMMA FollowingType == Following \in Phases
  BY DEF Following, Phases

\* A sequence that is not empty is its head and the rest.
LEMMA HeadTail ==
    ASSUME NEW S, NEW s \in Seq(S), s # << >>
    PROVE  /\ Head(s) \in S
           /\ Tail(s) \in Seq(S)
           /\ Len(s) \in Nat \ {0}
           /\ Head(s) = s[1]
           /\ Len(Tail(s)) = Len(s) - 1
           /\ \A i \in 1 .. Len(s) - 1 : Tail(s)[i] = s[i + 1]
  OBVIOUS

\* A response or a log is put into the endpoint.
LEMMA ReplyType ==
    ASSUME TypeOK, NEW r \in Docs, Reply(r) PROVE rx' \in Seq(Docs)
  BY DEF TypeOK, Reply

\* Every step of the program keeps every variable within its type.
LEMMA TypeStep == TypeOK /\ [Next]_vars => TypeOK'
<1> SUFFICES ASSUME TypeOK, [Next]_vars PROVE TypeOK'
  OBVIOUS
<1> USE DEF TypeOK, Docs, Responses, None
<1>1. CASE Fixup
  BY <1>1, FollowingType DEF Fixup, option, reader, target
<1>2. CASE Drain
  BY <1>2, HeadTail DEF Drain, option, main, reader, target
<1>3. CASE DrainEnd
  BY <1>3, FollowingType DEF DrainEnd, option, reader, target
<1>4. CASE Skip
  BY <1>4 DEF Skip, option, reader, target
<1>5. CASE EndPass
  BY <1>5, FollowingType DEF EndPass, option, reader, target
<1>6. CASE Send
  <2>1. tx' \in Cmd
    BY <1>6, CommandType DEF Send, NoCmd, Cmd, CmdTypes
  <2>2. step' \in Steps
    BY <1>6 DEF Send, Steps
  <2>3. QED
    BY <1>6, <2>1, <2>2 DEF Send, option, reader, target
<1>7. CASE PassLog
  BY <1>7, HeadTail DEF PassLog, option, main, reader, target
<1>8. CASE Finish
  BY <1>8, HeadTail, FollowingType DEF Finish, TakeAnswer, option, reader, target, Steps
<1>9. CASE Continue
  <2>1. unsent' \in SUBSET Sectors
    BY <1>9 DEF Continue, Area
  <2>2. QED
    BY <1>9, <2>1, HeadTail DEF Continue, TakeAnswer, option, reader, target, Steps
<1>10. CASE Refused
  BY <1>10, HeadTail DEF Refused, TakeAnswer, option, reader, target
<1>11. CASE SendChunk
  <2>1. tx' \in Cmd
    BY <1>11 DEF SendChunk, Cmd, CmdTypes
  <2>2. QED
    BY <1>11, <2>1 DEF SendChunk, option, reader, target, Steps
<1>12. CASE SendFails
  BY <1>12 DEF SendFails, option, reader, target
<1>13. CASE Timeout
  BY <1>13 DEF Timeout, option, reader, target
<1>14. CASE Parse
  BY <1>14, HeadTail DEF Parse, option, main, target
<1>15. CASE DropLog
  BY <1>15, HeadTail DEF DropLog, option, main, target
<1>16. CASE DropRest
  BY <1>16, HeadTail DEF DropRest, option, main, reader, target
<1>17. CASE ReaderExit
  BY <1>17, HeadTail DEF ReaderExit, option, main, target
<1>18. CASE Deliver
  BY <1>18 DEF Deliver, option, main, target
<1>19. CASE Obey
  <2>1. rx' \in Seq(Docs)
    BY <1>19, ReplyType DEF Obey
  <2>2. todo' \in SUBSET Sectors
    BY <1>19 DEF Obey, Cmd
  <2>3. flash' \in [Sectors -> {"old", "erased", "new", "wrong"}]
    BY <1>19 DEF Obey
  <2>4. tmode' \in {"cmd", "raw", "refusing", "reset"} /\ bootDrive' \in BOOLEAN
    BY <1>19 DEF Obey
  <2>5. QED
    BY <1>19, <2>1, <2>2, <2>3, <2>4 DEF Obey, TakeTransfer, NoCmd, Cmd, CmdTypes, option, main, reader
<1>20. CASE Refuse
  <2>1. rx' \in Seq(Docs)
    BY <1>20, ReplyType DEF Refuse
  <2>2. QED
    BY <1>20, <2>1 DEF Refuse, TakeTransfer, NoCmd, Cmd, CmdTypes, option, main, reader
<1>21. CASE Write
  <2>1. rx' \in Seq(Docs)
    BY <1>21, ReplyType DEF Write
  <2>2. flash' \in [Sectors -> {"old", "erased", "new", "wrong"}]
    BY <1>21 DEF Write
  <2>3. todo' \in SUBSET Sectors /\ tmode' \in {"cmd", "raw", "refusing", "reset"}
    BY <1>21 DEF Write
  <2>4. QED
    BY <1>21, <2>1, <2>2, <2>3 DEF Write, TakeTransfer, NoCmd, Cmd, CmdTypes, option, main, reader
<1>22. CASE WriteError
  <2>1. rx' \in Seq(Docs)
    BY <1>22, ReplyType DEF WriteError
  <2>2. QED
    BY <1>22, <2>1 DEF WriteError, TakeTransfer, NoCmd, Cmd, CmdTypes, option, main, reader
<1>23. CASE DropData
  BY <1>23 DEF DropData, TakeTransfer, NoCmd, Cmd, CmdTypes, option, main, reader
<1>24. CASE Log
  <2>1. rx' \in Seq(Docs)
    BY <1>24, ReplyType DEF Log
  <2>2. QED
    BY <1>24, <2>1 DEF Log, option, main, reader
<1>25. CASE Garbage
  <2>1. rx' \in Seq(Docs)
    BY <1>25, ReplyType DEF Garbage
  <2>2. QED
    BY <1>25, <2>1 DEF Garbage, option, main, reader
<1>26. CASE Unplug
  <2>1. link' \in BOOLEAN
    BY <1>26, Zenon DEF Unplug
  <2>2. tx' \in Cmd /\ rx' \in Seq(Docs)
    BY <1>26 DEF Unplug, NoCmd, Cmd, CmdTypes
  <2>3. QED
    BY <1>26, <2>1, <2>2 DEF Unplug, option, main, reader, target
<1>27. CASE Returned \/ UNCHANGED vars
  BY <1>27 DEF Returned, vars, option, main, reader, target
<1>28. QED
  BY <1>1, <1>2, <1>3, <1>4, <1>5, <1>6, <1>7, <1>8, <1>9, <1>10, <1>11, <1>12, <1>13, <1>14, <1>15,
     <1>16, <1>17, <1>18, <1>19, <1>20, <1>21, <1>22, <1>23, <1>24, <1>25, <1>26, <1>27
     DEF Next, Main, Reader, Executes

\* The program starts within the types.
LEMMA TypeInit == Init => TypeOK
<1> SUFFICES ASSUME Init PROVE TypeOK
  OBVIOUS
<1>1. link \in BOOLEAN /\ bootDrive \in BOOLEAN
  BY Zenon DEF Init
<1>2. tx \in Cmd /\ rx \in Seq(Docs) /\ queue \in Seq(Responses \cup {"log"})
  BY DEF Init, Cmd, CmdTypes, NoCmd
<1>3. QED
  BY <1>1, <1>2 DEF Init, TypeOK, Phases, Steps, None

\* Every variable of the firehose stage stays within its type, whatever the
\* target, the cable and the threads do (firehose_main and fh_recv_cmd_thread).
THEOREM TypeCorrect == Spec => []TypeOK
<1>1. Init => TypeOK
  BY TypeInit
<1>2. TypeOK /\ [Next]_vars => TypeOK'
  BY TypeStep
<1>3. QED
  BY <1>1, <1>2, PTL DEF Spec

-----------------------------------------------------------------------------
(* The answers under way.                                                  *)

LEMMA AnsweredIs ==
    /\ Answered <=> \E r \in Responses : UnderWay(r)
    /\ Answered' <=> \E r \in Responses : UnderWay(r)'
  BY DEF Answered, Queued, Arriving, UnderWay

\* No answer is under way that was not before.
NoNewAnswer == \A r \in Responses : UnderWay(r)' => UnderWay(r)

\* The main thread takes a record from the socket pair.
LEMMA TakeRecord ==
    ASSUME TypeOK, OneAnswer, queue # << >>, queue' = Tail(queue), UNCHANGED <<held, rx>>
    PROVE  /\ OneAnswer' /\ NoNewAnswer
           /\ Head(queue) \in Responses => ~Answered' /\ UnderWay(Head(queue))
<1>1. /\ Len(queue) \in Nat \ {0} /\ Head(queue) = queue[1]
      /\ DOMAIN queue = 1 .. Len(queue)
      /\ DOMAIN queue' = 1 .. Len(queue) - 1
      /\ \A i \in 1 .. Len(queue) - 1 : queue'[i] = queue[i + 1]
  BY HeadTail DEF TypeOK
<1>2. \A i \in DOMAIN queue' : i + 1 \in DOMAIN queue /\ queue'[i] = queue[i + 1]
  BY <1>1
<1>3. Queued' => Queued
  BY <1>2 DEF Queued
<1>4. OneAnswer'
  <2>1. \A i, j \in DOMAIN queue' :
           queue'[i] \in Responses /\ queue'[j] \in Responses => i = j
    BY <1>1, <1>2 DEF OneAnswer
  <2>2. QED
    BY <1>3, <2>1 DEF OneAnswer, Arriving
<1>5. NoNewAnswer
  BY <1>2 DEF NoNewAnswer, UnderWay
<1>6. ASSUME Head(queue) \in Responses
      PROVE  ~Answered' /\ UnderWay(Head(queue))
  <2>1. 1 \in DOMAIN queue /\ queue[1] \in Responses
    BY <1>1, <1>6
  <2>2. ~Queued'
    BY <1>1, <1>2, <2>1 DEF Queued, OneAnswer
  <2>3. Queued
    BY <2>1 DEF Queued
  <2>4. QED
    BY <1>1, <2>1, <2>2, <2>3 DEF Answered, OneAnswer, Arriving, UnderWay
<1>7. QED
  BY <1>4, <1>5, <1>6

\* The reader, or the end of the cable, moves answers on or loses them.
LEMMA ReaderMoves ==
    ASSUME TypeOK, OneAnswer, Reader \/ Unplug
    PROVE  OneAnswer' /\ NoNewAnswer
<1>0. /\ rx # << >> => /\ Len(rx) \in Nat \ {0} /\ Head(rx) = rx[1]
                        /\ DOMAIN rx = 1 .. Len(rx)
                        /\ DOMAIN Tail(rx) = 1 .. Len(rx) - 1
                        /\ \A i \in 1 .. Len(rx) - 1 : Tail(rx)[i] = rx[i + 1]
  BY HeadTail DEF TypeOK
<1>t. ASSUME rx # << >>, rx' = Tail(rx), UNCHANGED queue,
             held' \notin Responses \/ held' = held \/ held' = Head(rx)
      PROVE  OneAnswer' /\ NoNewAnswer
  <2>1. \A i \in DOMAIN rx' : i + 1 \in DOMAIN rx /\ i + 1 # 1 /\ rx'[i] = rx[i + 1]
    BY <1>0, <1>t
  <2>2. 1 \in DOMAIN rx /\ Head(rx) = rx[1]
    BY <1>0, <1>t
  <2>3. Arriving' => Arriving
    BY <2>1 DEF Arriving
  <2>4. Head(rx) \in Responses => Arriving /\ ~Arriving'
    BY <2>1, <2>2 DEF Arriving, OneAnswer
  <2>5. \A i, j \in DOMAIN rx' : rx'[i] \in Responses /\ rx'[j] \in Responses => i = j
    <3>1. SUFFICES ASSUME NEW i \in DOMAIN rx', NEW j \in DOMAIN rx',
                          rx'[i] \in Responses, rx'[j] \in Responses
                   PROVE  i = j
      OBVIOUS
    <3>2. i \in Nat /\ j \in Nat
      BY <1>0, <1>t
    <3>3. i + 1 = j + 1
      BY <2>1, <3>1 DEF OneAnswer
    <3>4. QED
      BY <3>2, <3>3
  <2>6. OneAnswer'
    BY <1>t, <2>3, <2>4, <2>5 DEF OneAnswer, Queued
  <2>7. NoNewAnswer
    BY <1>t, <2>1, <2>2 DEF NoNewAnswer, UnderWay
  <2>8. QED
    BY <2>6, <2>7
<1>1. CASE Parse
  BY <1>1, <1>t DEF Parse
<1>2. CASE DropLog
  BY <1>2, <1>t DEF DropLog
<1>3. CASE DropRest
  BY <1>3, <1>t DEF DropRest, reader
<1>4. CASE ReaderExit
  <2>1. CASE rx # << >>
    BY <1>4, <2>1, <1>t DEF ReaderExit, None, Responses
  <2>2. CASE rx = << >>
    BY <1>4, <2>2 DEF ReaderExit, None, Responses, OneAnswer, NoNewAnswer, UnderWay, Queued, Arriving
  <2>3. QED
    BY <2>1, <2>2
<1>5. CASE Deliver
  <2>1. /\ DOMAIN queue' = 1 .. Len(queue) + 1 /\ DOMAIN queue = 1 .. Len(queue)
        /\ Len(queue) \in Nat
        /\ queue'[Len(queue) + 1] = held
        /\ \A i \in DOMAIN queue : queue'[i] = queue[i]
    BY <1>5 DEF Deliver, TypeOK, None, Responses
  <2>2. held' \notin Responses /\ rx' = rx
    BY <1>5 DEF Deliver, None, Responses
  <2>3. Queued' => Queued \/ held \in Responses
    BY <2>1 DEF Queued
  <2>4. \A i, j \in DOMAIN queue' :
           queue'[i] \in Responses /\ queue'[j] \in Responses => i = j
    BY <2>1 DEF OneAnswer, Queued
  <2>5. OneAnswer'
    BY <2>2, <2>3, <2>4 DEF OneAnswer, Arriving
  <2>6. NoNewAnswer
    BY <2>1, <2>2 DEF NoNewAnswer, UnderWay
  <2>7. QED
    BY <2>5, <2>6
<1>6. CASE Unplug
  BY <1>6 DEF Unplug, reader, OneAnswer, NoNewAnswer, UnderWay, Queued, Arriving
<1>7. QED
  BY <1>1, <1>2, <1>3, <1>4, <1>5, <1>6 DEF Reader

\* The target sends a document.
LEMMA Replies ==
    ASSUME TypeOK, OneAnswer, NEW r \in Docs, Reply(r), UNCHANGED <<queue, held>>
    PROVE  /\ r \notin Responses => OneAnswer' /\ NoNewAnswer
           /\ ~Answered => OneAnswer' /\ \A q \in Responses : UnderWay(q)' => q = r
<1>1. /\ DOMAIN rx' = 1 .. Len(rx) + 1 /\ DOMAIN rx = 1 .. Len(rx)
      /\ Len(rx) \in Nat
      /\ rx'[Len(rx) + 1] = r
      /\ \A i \in DOMAIN rx : rx'[i] = rx[i]
  BY DEF Reply, TypeOK
<1>2. \A i \in DOMAIN rx' : i \in DOMAIN rx \/ i = Len(rx) + 1
  BY <1>1
<1>3. ASSUME r \notin Responses PROVE OneAnswer' /\ NoNewAnswer
  <2>1. Arriving' => Arriving
    BY <1>1, <1>2, <1>3 DEF Arriving
  <2>2. \A i, j \in DOMAIN rx' : rx'[i] \in Responses /\ rx'[j] \in Responses => i = j
    BY <1>1, <1>2, <1>3 DEF OneAnswer
  <2>3. QED
    BY <1>1, <1>2, <1>3, <2>1, <2>2 DEF OneAnswer, NoNewAnswer, UnderWay, Queued
<1>4. ASSUME ~Answered
      PROVE  OneAnswer' /\ \A q \in Responses : UnderWay(q)' => q = r
  <2>1. \A i, j \in DOMAIN rx' : rx'[i] \in Responses /\ rx'[j] \in Responses => i = j
    BY <1>1, <1>2, <1>4 DEF Answered, Arriving
  <2>2. QED
    BY <1>1, <1>2, <1>4, <2>1 DEF OneAnswer, Answered, UnderWay, Queued, Arriving
<1>5. QED
  BY <1>3, <1>4

-----------------------------------------------------------------------------
(* The steps that leave the exchange where it is.                          *)

LEMMA AckedShrinks ==
    ASSUME NoNewAnswer
    PROVE  /\ Answered' => Answered
           /\ Acked' => Acked
  BY AnsweredIs DEF NoNewAnswer, Acked, Responses

\* Answers move or get lost; the host and the target stay where they are.
LEMMA PathStep ==
    ASSUME IInv, NoNewAnswer,
           UNCHANGED <<option, phase, x, step, unsent, link, tx, tmode, todo, flash>>
    PROVE  Exchange' /\ Image' /\ Stage'
<1> USE AckedShrinks DEF IInv, option
<1>1. Exchange'
  BY DEF Exchange, Here, Applies
<1>2. Image'
  BY DEF Image, Here
<1>3. Stage'
  BY DEF Stage, ErasesSbl, Untouched, OthersWritten
<1>4. QED
  BY <1>1, <1>2, <1>3

\* The cable is pulled: what was in the endpoints is gone.
LEMMA UnplugStep ==
    ASSUME IInv, Unplug PROVE Exchange' /\ Image' /\ Stage'
<1>1. NoNewAnswer
  BY ReaderMoves DEF IInv
<1> USE <1>1, AckedShrinks DEF IInv, Unplug, option, main, target, NoCmd
<1>2. Exchange'
  BY DEF Exchange, Here, Applies
<1>3. Image'
  BY DEF Image, Here
<1>4. Stage'
  BY DEF Stage, ErasesSbl, Untouched, OthersWritten
<1>5. QED
  BY <1>2, <1>3, <1>4

-----------------------------------------------------------------------------
(* The steps of the main thread.                                           *)

\* A step that ends between commands, with nothing outstanding.
LEMMA AdvanceStep ==
    ASSUME IInv, step' = "next", tx = NoCmd, ~Answered',
           tmode = "cmd" \/ (tmode = "reset" /\ phase' = "finalDrain"),
           UNCHANGED <<unsent, link, tx, tmode, todo, flash>>
    PROVE  Exchange' /\ Image'
<1> USE DEF IInv, NoCmd
<1>1. Exchange'
  BY DEF Exchange
<1>2. ~Acked'
  BY AnsweredIs DEF Acked, Responses
<1>3. Image'
  BY <1>2 DEF Image
<1>4. QED
  BY <1>1, <1>3

\* Between commands the target is idle, unless the upgrade is over.
LEMMA Idle ==
    ASSUME IInv, step = "next", phase # "finalDrain"
    PROVE  tx = NoCmd /\ ~Answered /\ tmode = "cmd"
  BY DEF IInv, Exchange, TypeOK

LEMMA EntryFields ==
    ASSUME NEW t \in Tables, NEW i \in DOMAIN t
    PROVE  t[i].start \in Nat /\ t[i].num \in Nat
<1>1. t \in Seq(Entry)
  BY TableAssumption
<1>2. t[i] \in Entry
  BY <1>1
<1>3. QED
  BY <1>2 DEF Entry

\* The sectors of a boot loader entry begin with sector 0.
LEMMA SblArea ==
    ASSUME NEW t \in Tables, NEW i \in DOMAIN t, NEW all \in BOOLEAN, IsSbl(t[i])
    PROVE  EraseArea(t, i, all) # {} => 0 \in EraseArea(t, i, all)
<1>1. t \in Seq(Entry) /\ Last \in Nat
  BY TableAssumption
<1>2. \A k \in DOMAIN t : t[k].start \in Nat /\ t[k].num \in Nat
  BY EntryFields
<1>3. ASSUME NEW s \in Sectors, NEW k \in DOMAIN t, s < t[k].start + t[k].num
      PROVE  0 < t[k].start + t[k].num
  BY <1>1, <1>2, <1>3 DEF Sectors
<1>4. 0 \in Sectors
  BY <1>1 DEF Sectors
<1>5. CASE all
  BY <1>3, <1>4, <1>5 DEF EraseArea, EraseSpan, IsSbl
<1>6. CASE ~all
  BY <1>2, <1>3, <1>4, <1>6 DEF EraseArea, Area, IsSbl
<1>7. QED
  BY <1>5, <1>6

\* An image that does not start at sector 0 leaves sector 0 alone.
LEMMA OtherArea ==
    ASSUME NEW t \in Tables, NEW i \in DOMAIN t, ~IsSbl(t[i])
    PROVE  0 \notin Area(t[i])
  BY EntryFields DEF Area, IsSbl

LEMMA FixupStep ==
    ASSUME IInv, Fixup PROVE Exchange' /\ Image' /\ Stage'
<1>1. NoNewAnswer
  BY DEF Fixup, reader, NoNewAnswer, UnderWay
<1>2. CASE ~WellFormed(table)
  BY <1>1, <1>2, PathStep DEF Fixup, target
<1>3. CASE WellFormed(table)
  <2>1. phase = "fixup" /\ phase' = "drain" /\ step = "next" /\ step' = "next"
    BY <1>3 DEF Fixup, Following, IInv, Exchange
  <2>2. ~Answered'
    BY <1>1, <2>1, Idle, AckedShrinks
  <2>3. Exchange' /\ Image'
    <3>1. tx = NoCmd /\ tmode = "cmd"
      BY <2>1, Idle
    <3>2. UNCHANGED <<unsent, link, tx, tmode, todo, flash>>
      BY DEF Fixup, target
    <3>3. QED
      BY <2>1, <2>2, <3>1, <3>2, AdvanceStep
  <2>4. Stage'
    BY <2>1 DEF Fixup, target, option, IInv, Stage, Early, Before, ErasesSbl, Untouched, OthersWritten
  <2>5. QED
    BY <2>3, <2>4
<1>4. QED
  BY <1>2, <1>3

LEMMA DrainEndStep ==
    ASSUME IInv, DrainEnd PROVE Exchange' /\ Image' /\ Stage'
<1>1. NoNewAnswer
  BY DEF DrainEnd, reader, NoNewAnswer, UnderWay
<1>2. CASE phase # "drain"
  BY <1>1, <1>2, PathStep DEF DrainEnd, target
<1>3. CASE phase = "drain"
  <2>1. phase' = "configure" /\ step = "next" /\ step' = "next"
    BY <1>3 DEF DrainEnd, Following, IInv, Exchange
  <2>2. ~Answered'
    BY <1>1, <1>3, <2>1, Idle, AckedShrinks
  <2>3. Exchange' /\ Image'
    <3>1. tx = NoCmd /\ tmode = "cmd"
      BY <1>3, <2>1, Idle
    <3>2. UNCHANGED <<unsent, link, tx, tmode, todo, flash>>
      BY DEF DrainEnd, target
    <3>3. QED
      BY <2>1, <2>2, <3>1, <3>2, AdvanceStep
  <2>4. Stage'
    BY <1>3, <2>1 DEF DrainEnd, target, option, IInv, Stage, Early, Before, ErasesSbl, Untouched, OthersWritten
  <2>5. QED
    BY <2>3, <2>4
<1>4. QED
  BY <1>2, <1>3

LEMMA SkipStep ==
    ASSUME IInv, Skip PROVE Exchange' /\ Image' /\ Stage'
<1>1. /\ step = "next" /\ step' = "next" /\ phase \in Passes /\ phase' = phase
      /\ x \in DOMAIN table /\ x' = x + 1 /\ ~Applies(Here)
  <2>1. table \in Seq(Entry) /\ x \in Nat \ {0}
    BY TableAssumption DEF IInv, TypeOK
  <2>2. QED
    BY <2>1 DEF Skip
<1>2. ~Answered'
  BY <1>1, Idle DEF Skip, reader, Passes, Answered, Queued, Arriving
<1>3. Exchange' /\ Image'
  <2>1. tx = NoCmd /\ tmode = "cmd"
    BY <1>1, Idle DEF Passes
  <2>2. UNCHANGED <<unsent, link, tx, tmode, todo, flash>>
    BY DEF Skip, target
  <2>3. QED
    BY <1>1, <1>2, <2>1, <2>2, AdvanceStep
<1>4. \A i \in DOMAIN table : i < x' <=> i < x \/ i = x
  <2>1. table \in Seq(Entry) /\ x \in Nat
    BY TableAssumption DEF IInv, TypeOK
  <2>2. QED
    BY <2>1, <1>1
<1>5. Stage'
  <2>1. UNCHANGED <<table, nand, eraseAll, flash, phase, step>>
    BY DEF Skip, option, target
  <2>2. nand /\ phase = "program" => ~(IsProgram(table[x]) /\ ~IsSbl(table[x]))
    BY <1>1 DEF Applies, Here
  <2>3. nand /\ phase = "sblErase" => ~(IsErase(table[x]) /\ IsSbl(table[x]))
    BY <1>1 DEF Applies, Here
  <2>4. phase \notin Before /\ Stage
    BY <1>1 DEF Passes, Before, IInv
  <2>5. QED
    BY <1>1, <1>4, <2>1, <2>2, <2>3, <2>4
    DEF Stage, ErasesSbl, Untouched, OthersWritten
<1>6. QED
  BY <1>3, <1>5

LEMMA EndPassStep ==
    ASSUME IInv, EndPass PROVE Exchange' /\ Image' /\ Stage'
<1>1. /\ step = "next" /\ step' = "next" /\ phase \in Passes
      /\ phase' = Following /\ x' = 1
  BY DEF EndPass
<1>2. ~Answered'
  BY <1>1, Idle DEF EndPass, reader, Passes, Answered, Queued, Arriving
<1>3. Exchange' /\ Image'
  <2>1. tx = NoCmd /\ tmode = "cmd"
    BY <1>1, Idle DEF Passes
  <2>2. UNCHANGED <<unsent, link, tx, tmode, todo, flash>>
    BY DEF EndPass, target
  <2>3. QED
    BY <1>1, <1>2, <2>1, <2>2, AdvanceStep
<1>4. \A i \in DOMAIN table : i < x /\ ~(i < 1)
  <2>1. table \in Seq(Entry) /\ x \in Nat
    BY TableAssumption DEF IInv, TypeOK
  <2>2. QED
    BY <2>1 DEF EndPass
<1>5. UNCHANGED <<table, nand, eraseAll, flash, step>>
  BY DEF EndPass, option, target
<1>6. nand \in BOOLEAN /\ 0 \in Sectors
  BY TableAssumption DEF IInv, TypeOK, Sectors
<1>7. Stage'
  <2>s. Stage
    BY DEF IInv
  <2>a. ASSUME phase = "sblErase", nand, ErasesSbl(table, eraseAll) PROVE flash[0] # "old"
    <3>1. PICK i \in DOMAIN table :
             IsErase(table[i]) /\ IsSbl(table[i]) /\ 0 \in EraseArea(table, i, eraseAll)
      BY <2>a DEF ErasesSbl
    <3>2. i < x
      BY <1>4
    <3>3. QED
      BY <2>a, <2>s, <3>1, <3>2 DEF Stage
  <2>b. ASSUME phase = "program", nand PROVE OthersWritten(table, flash)
    <3>1. SUFFICES ASSUME NEW i \in DOMAIN table, IsProgram(table[i]), ~IsSbl(table[i])
                   PROVE  \A s \in Area(table[i]) : flash[s] = "new"
      BY DEF OthersWritten
    <3>2. i < x
      BY <1>4
    <3>3. QED
      BY <2>b, <2>s, <3>1, <3>2 DEF Stage
  <2> USE <1>1, <1>5, <1>6, <2>s, <2>a, <2>b DEF Following, Stage, Early, Before, ErasesSbl, Untouched, OthersWritten
  <2>1. CASE phase = "sblErase"
    BY <2>1
  <2>2. CASE phase = "vendor"
    BY <2>2
  <2>3. CASE phase = "erase"
    <3>1. flash[0] # "new"
      BY <2>3, <2>s
    <3>2. \A i \in DOMAIN table : ~(i < 1)
      BY <1>4
    <3>3. QED
      BY <2>3, <3>1, <3>2
  <2>4. CASE phase = "program"
    BY <2>4
  <2>5. CASE phase = "sblProgram"
    BY <2>5
  <2>6. CASE phase = "patch"
    BY <2>6
  <2>7. QED
    BY <2>1, <2>2, <2>3, <2>4, <2>5, <2>6 DEF Passes
<1>8. QED
  BY <1>3, <1>7

LEMMA SendStep ==
    ASSUME IInv, Send PROVE Exchange' /\ Image' /\ Stage'
<1>1. /\ tx = NoCmd /\ ~Answered /\ ~Answered' /\ tmode = "cmd"
      /\ step \in {"next", "resend"}
      /\ step = "resend" => phase = "configure" /\ step' = "rewait"
      /\ step = "next" => step' = "wait"
  <2>1. step \in {"next", "resend"} /\ phase # "finalDrain"
    BY DEF Send, AtSend, Passes, IInv, Exchange
  <2>2. ~Answered /\ tmode = "cmd"
    BY <2>1 DEF IInv, Exchange, TypeOK
  <2>3. QED
    BY <2>1, <2>2 DEF Send, IInv, Exchange, reader, Answered, Queued, Arriving
<1>2. UNCHANGED <<table, nand, eraseAll, phase, x, unsent, link, tmode, todo, flash>>
  BY DEF Send, option, target
<1>3. ~Acked /\ ~Acked'
  BY <1>1, AnsweredIs DEF Acked, Responses
<1>4. phase \in Passes => x \in DOMAIN table /\ Applies(Here)
  <2>1. table \in Seq(Entry) /\ x \in Nat \ {0}
    BY TableAssumption DEF IInv, TypeOK
  <2>2. QED
    BY <1>1, <2>1 DEF Send, AtSend, Passes
<1>5. phase \notin {"fixup", "drain", "finalDrain"}
  BY <1>1 DEF Send, AtSend, Passes
<1>6. \/ tx' = NoCmd
      \/ /\ tx'.type \notin {"none", "data"}
         /\ tx'.type = "reset" => phase = "reset"
         /\ phase \in Erases <=> tx'.type = "erase"
         /\ phase \in Images <=> tx'.type = "program"
         /\ tx'.type = "erase" => tx'.sectors = EraseArea(table, x, eraseAll)
         /\ tx'.type = "program" => tx'.sectors = Area(Here)
  <2>1. tx' = NoCmd \/ tx' = Command
    BY DEF Send
  <2>2. phase \in Phases
    BY DEF IInv, TypeOK
  <2>3. QED
    BY <1>1, <1>5, <2>1, <2>2 DEF Command, Phases, Erases, Images
<1>7. Exchange'
  <2>1. phase \in Passes => (Applies(Here))'
    BY <1>2, <1>4 DEF Applies, Here
  <2>2. /\ step' = "rewait" => phase = "configure"
        /\ step' \notin {"next", "resend", "raw", "close"}
    BY <1>1
  <2>3. tx'.type = "none" => tx' = NoCmd
    BY <1>6
  <2>4. NoCmd.type = "none"
    BY DEF NoCmd
  <2>5. tx'.type \notin {"none", "data"} =>
          /\ tx'.type = "reset" => phase = "reset"
          /\ phase \in Erases <=> tx'.type = "erase"
          /\ phase \in Images <=> tx'.type = "program"
          /\ tx'.type = "erase" => tx'.sectors = EraseArea(table, x, eraseAll)
          /\ tx'.type = "program" => tx'.sectors = Area(Here)
    BY <1>6, <2>4
  <2>6. QED
    BY <1>1, <1>2, <1>4, <1>5, <2>1, <2>2, <2>3, <2>5 DEF Exchange, Here
<1>8. Image'
  BY <1>1, <1>2, <1>3, <1>6 DEF IInv, Image, NoCmd
<1>9. Stage'
  BY <1>2, <1>3 DEF IInv, Stage, ErasesSbl, Untouched, OthersWritten
<1>10. QED
  BY <1>7, <1>8, <1>9

LEMMA FinishStep ==
    ASSUME IInv, Finish PROVE Exchange' /\ Image' /\ Stage'
<1>1. ~Answered' /\ UnderWay(Head(queue)) /\ Head(queue) \in Responses
  BY TakeRecord DEF Finish, TakeAnswer, reader, IInv
<1>2. Answered
  BY <1>1, AnsweredIs
<1>3. /\ step' = "next" /\ step \in {"wait", "rewait", "close"}
      /\ UNCHANGED <<table, nand, eraseAll, unsent, link, tx, tmode, todo, flash>>
  BY DEF Finish, TakeAnswer, Waiting, option, target
<1>4. phase \in Images => Acked /\ step = "close"
  BY <1>1 DEF Finish, Finishes, Images, Acked
<1>5. tmode # "raw"
  BY <1>2, <1>3, <1>4 DEF IInv, Image, Exchange
<1>6. tx = NoCmd
  BY <1>2, <1>3, <1>4, <1>5 DEF IInv, Image, Exchange
<1>7. phase \in Passes => x \in DOMAIN table /\ Applies(Here) /\ x' = x + 1 /\ phase' = phase
  BY <1>3 DEF IInv, Exchange, Finish
<1>8. tmode = "cmd" \/ (tmode = "reset" /\ phase' = "finalDrain")
  <2>1. tmode # "refusing"
    BY <1>1, <1>4 DEF IInv, Image, Exchange, Acked
  <2>2. CASE tmode = "reset"
    BY <1>3, <2>2 DEF IInv, Exchange, Finish, Following, Passes
  <2>3. QED
    BY <1>5, <2>1, <2>2 DEF IInv, TypeOK
<1>9. Exchange' /\ Image'
  BY <1>1, <1>3, <1>6, <1>8, AdvanceStep DEF option
<1>10. Stage'
  <2>s. Stage
    BY DEF IInv
  <2>1. CASE phase \in Passes
    <3>1. \A i \in DOMAIN table : i < x' <=> i < x \/ i = x
      <4>1. table \in Seq(Entry) /\ x \in Nat
        BY TableAssumption DEF IInv, TypeOK
      <4>2. QED
        BY <1>7, <2>1, <4>1
    <3>2. phase = "program" => \A s \in Area(table[x]) : flash[s] = "new"
      BY <1>3, <1>4 DEF IInv, Image, Images, Here
    <3>3. phase = "sblErase" => step = "wait" /\ Acked
      <4>1. phase = "sblErase" => step = "wait"
        BY <1>3 DEF IInv, Exchange, Images
      <4>2. phase = "sblErase" => IsAck(Head(queue))
        BY DEF Finish, Finishes
      <4>3. QED
        BY <1>1, <4>1, <4>2 DEF IsAck, Acked
    <3>4. phase' = phase /\ step' # "wait" /\ phase \notin Before
      BY <1>3, <1>7, <2>1 DEF Passes, Before
    <3>5. QED
      BY <1>3, <2>s, <3>1, <3>2, <3>3, <3>4
      DEF Stage, ErasesSbl, Untouched, OthersWritten
  <2>2. CASE phase = "configure"
    <3>1. x' = x /\ phase' = "sblErase" /\ step' # "wait" /\ x = 1
      BY <1>3, <2>2, <2>s DEF Finish, Following, Passes, Stage, Before
    <3>2. \A i \in DOMAIN table : ~(i < x')
      <4>1. table \in Seq(Entry)
        BY TableAssumption DEF IInv, TypeOK
      <4>2. QED
        BY <3>1, <4>1
    <3>3. QED
      BY <1>3, <2>s, <2>2, <3>1, <3>2
      DEF Stage, Early, Before, ErasesSbl, Untouched, OthersWritten
  <2>3. CASE phase \notin Passes \cup {"configure"}
    <3>1. phase \in {"setbootable", "reset"} /\ x' = x /\ phase' \in {"reset", "finalDrain"}
      BY <2>3 DEF Finish, Finishes, Following, Passes
    <3>2. QED
      BY <1>3, <2>s, <2>3, <3>1
      DEF Stage, Early, Before, ErasesSbl, Untouched, OthersWritten
  <2>4. QED
    BY <2>1, <2>2, <2>3
<1>11. QED
  BY <1>9, <1>10

LEMMA ContinueStep ==
    ASSUME IInv, Continue PROVE Exchange' /\ Image' /\ Stage'
<1>1. ~Answered' /\ Answered
  BY TakeRecord, AnsweredIs DEF Continue, TakeAnswer, reader, IInv
<1>2. ~Acked'
  BY <1>1, AnsweredIs DEF Acked, Responses
<1>3. /\ step = "wait"
      /\ UNCHANGED <<table, nand, eraseAll, phase, x, link, tx, tmode, todo, flash>>
  BY DEF Continue, Continues, TakeAnswer, option, target
<1>4. phase \in Images => tmode = "raw" /\ unsent' = Area(Here) /\ step' = "raw"
  <2>1. phase \in Images => Acked
    <3>1. phase \in Images => Head(queue) = "ackRaw"
      BY DEF Continue, Continues, Images
    <3>2. QED
      BY <3>1, TakeRecord DEF Acked, Continue, TakeAnswer, reader, IInv
  <2>2. QED
    BY <1>3, <2>1 DEF Continue, IInv, Image, Images
<1>5. phase \notin Images => phase = "configure" /\ step' = "resend"
  BY DEF Continue, Continues, Images
<1>6. tx = NoCmd
  BY <1>1, <1>3 DEF IInv, Exchange, Image
<1>7. tmode # "refusing" /\ (phase = "configure" => tmode = "cmd")
  BY <1>3 DEF IInv, Exchange, TypeOK, Images
<1>8. Exchange'
  BY <1>1, <1>3, <1>4, <1>5, <1>6, <1>7
  DEF IInv, Exchange, NoCmd, Here, Applies, Images, Erases, Passes
<1>9. Image'
  BY <1>1, <1>2, <1>3, <1>4, <1>5, <1>6, <1>7 DEF IInv, Image, NoCmd, Here
<1>10. Stage'
  BY <1>2, <1>3 DEF IInv, Stage, ErasesSbl, Untouched, OthersWritten
<1>11. QED
  BY <1>8, <1>9, <1>10

LEMMA SendChunkStep ==
    ASSUME IInv, SendChunk PROVE Exchange' /\ Image' /\ Stage'
<1>1. PICK s \in unsent :
         /\ Least(s, unsent)
         /\ tx' = [type |-> "data", sectors |-> {s}]
         /\ unsent' = unsent \ {s}
         /\ step' = IF unsent = {s} THEN "close" ELSE "raw"
  BY DEF SendChunk
<1>2. /\ step = "raw" /\ tx = NoCmd /\ link
      /\ UNCHANGED <<table, nand, eraseAll, phase, x, link, tmode, todo, flash, queue, held, rx>>
  BY DEF SendChunk, option, target, reader
<1>3. /\ Answered' <=> Answered
      /\ Acked' <=> Acked
  BY <1>2 DEF Answered, Acked, UnderWay, Queued, Arriving
<1>4. phase \in Images /\ tmode \in {"raw", "refusing"} /\ ~Acked
  BY <1>2 DEF IInv, Exchange, Image
<1>5. Exchange'
  BY <1>1, <1>2, <1>3, <1>4 DEF IInv, Exchange, Here, Applies
<1>6. tmode = "raw" => /\ s \in Sectors /\ todo = unsent' \cup {s}
                       /\ \A r \in unsent' : s < r
  <2>1. unsent \in SUBSET Sectors /\ s \in Sectors
    BY DEF IInv, TypeOK
  <2>2. \A r \in unsent' : s < r
    <3>1. SUFFICES ASSUME NEW r \in unsent' PROVE s < r
      OBVIOUS
    <3>2. r \in Sectors /\ s <= r /\ r # s
      BY <1>1, <2>1 DEF Least
    <3>3. r \in Int /\ s \in Int
      BY <2>1, <3>2, TableAssumption DEF Sectors
    <3>4. QED
      BY <3>2, <3>3
  <2>3. tmode = "raw" => todo = unsent
    BY <1>2 DEF IInv, Image
  <2>4. QED
    BY <1>1, <2>1, <2>2, <2>3
<1>7. Image'
  BY <1>1, <1>2, <1>3, <1>4, <1>6 DEF IInv, Image, NoCmd, Here
<1>8. Stage'
  BY <1>1, <1>2, <1>3, <1>4 DEF IInv, Stage, ErasesSbl, Untouched, OthersWritten
<1>9. QED
  BY <1>5, <1>7, <1>8

-----------------------------------------------------------------------------
(* The steps of the target.                                                *)

\* What a target in mode "cmd" with a command finds, and what it answers.
LEMMA CommandAt ==
    ASSUME IInv, tx.type \notin {"none", "data"}
    PROVE  /\ step \in {"wait", "rewait"} /\ ~Answered /\ tmode = "cmd"
           /\ phase \in Images => step = "wait"
           /\ phase \in Erases => step = "wait"
           /\ phase \notin {"fixup", "drain", "finalDrain"}
           /\ tx.type = "reset" => phase = "reset" /\ step = "wait"
           /\ phase \in Erases <=> tx.type = "erase"
           /\ phase \in Images <=> tx.type = "program"
           /\ tx.type = "erase" => tx.sectors = EraseArea(table, x, eraseAll)
           /\ tx.type = "program" => tx.sectors = Area(Here)
  BY DEF IInv, Exchange, Images, Erases

LEMMA ObeyStep ==
    ASSUME IInv, Obey PROVE OneAnswer' /\ Exchange' /\ Image' /\ Stage'
<1>c. /\ step \in {"wait", "rewait"} /\ ~Answered
      /\ phase \in Images => step = "wait"
      /\ phase \in Erases => step = "wait"
      /\ tx.type = "reset" => phase = "reset" /\ step = "wait"
      /\ phase \in Erases <=> tx.type = "erase"
      /\ phase \in Images <=> tx.type = "program"
      /\ tx.type = "erase" => tx.sectors = EraseArea(table, x, eraseAll)
      /\ tx.type = "program" => tx.sectors = Area(Here)
      /\ phase \notin {"fixup", "drain", "finalDrain"}
  BY CommandAt DEF Obey
<1>1. OneAnswer' /\ \A q \in Responses :
         UnderWay(q)' => q = IF tx.type = "program" THEN "ackRaw" ELSE "ack"
  <2>1. UNCHANGED <<queue, held>>
    BY DEF Obey, TakeTransfer, reader
  <2>2. CASE tx.type = "program"
    <3>1. Reply("ackRaw") /\ "ackRaw" \in Docs
      BY <2>2 DEF Obey, Docs, Responses
    <3>2. QED
      BY <1>c, <2>1, <2>2, <3>1, Replies DEF IInv
  <2>3. CASE tx.type # "program"
    <3>1. Reply("ack") /\ "ack" \in Docs
      BY <2>3 DEF Obey, Docs, Responses
    <3>2. QED
      BY <1>c, <2>1, <2>3, <3>1, Replies DEF IInv
  <2>4. QED
    BY <2>2, <2>3
<1>2. /\ tx' = NoCmd
      /\ UNCHANGED <<table, nand, eraseAll, phase, x, step, unsent, link>>
  BY DEF Obey, TakeTransfer, option, main
<1>3. Exchange'
  <2>1. tmode' = "raw" => phase \in Images /\ step = "wait"
    BY <1>c DEF Obey
  <2>2. tmode' = "reset" => phase = "reset" /\ step = "wait"
    BY <1>c DEF Obey
  <2>3. tmode' # "refusing"
    BY DEF Obey
  <2>4. QED
    BY <1>c, <1>2, <2>1, <2>2, <2>3 DEF IInv, Exchange, Here, Applies, NoCmd
<1>4. Image'
  <2>1. tmode' = "raw" => todo' = Area(Here) /\ step = "wait"
    BY <1>c DEF Obey
  <2>2. phase \in Images => tmode' = "raw" /\ step = "wait"
    BY <1>c DEF Obey
  <2>3. QED
    BY <1>c, <1>2, <2>1, <2>2 DEF Image, NoCmd, Here
<1>t. Stage /\ flash \in [Sectors -> {"old", "erased", "new", "wrong"}]
      /\ 0 \in Sectors
  BY TableAssumption DEF IInv, TypeOK, Sectors
<1>5. CASE tx.type # "erase"
  <2>1. flash' = flash
    BY <1>5, <1>t DEF Obey
  <2>2. phase \notin Erases
    BY <1>5, <1>c
  <2>3. QED
    BY <1>1, <1>2, <1>3, <1>4, <1>t, <2>1, <2>2
    DEF Stage, Erases, ErasesSbl, Untouched, OthersWritten
<1>6. CASE tx.type = "erase"
  <2>1. flash' = [s \in Sectors |->
            IF s \in EraseArea(table, x, eraseAll) THEN "erased" ELSE flash[s]]
    BY <1>c, <1>6 DEF Obey
  <2>2. phase \in {"sblErase", "erase"} /\ step = "wait"
    BY <1>c, <1>6 DEF Erases
  <2>3. \A s \in Sectors : flash'[s] = "erased" \/ flash'[s] = flash[s]
    BY <2>1
  <2>4. 0 \in EraseArea(table, x, eraseAll) => flash'[0] = "erased"
    BY <1>t, <2>1
  <2>5. phase = "sblErase" /\ flash'[0] = "old" => flash' = flash
    <3>1. SUFFICES ASSUME phase = "sblErase", flash'[0] = "old" PROVE flash' = flash
      OBVIOUS
    <3>2. x \in DOMAIN table /\ IsSbl(table[x])
      BY <2>2, <3>1 DEF IInv, Exchange, Passes, Applies, Here
    <3>3. table \in Tables /\ eraseAll \in BOOLEAN
      BY DEF IInv, TypeOK
    <3>4. EraseArea(table, x, eraseAll) = {}
      BY <2>4, <3>1, <3>2, <3>3, SblArea
    <3>5. QED
      BY <1>t, <2>1, <3>4
  <2>6. Stage'
    BY <1>2, <1>t, <2>2, <2>3, <2>4, <2>5
    DEF Stage, Early, Before, ErasesSbl, Untouched, OthersWritten
  <2>7. QED
    BY <1>1, <1>3, <1>4, <2>6
<1>7. QED
  BY <1>5, <1>6

LEMMA RefuseStep ==
    ASSUME IInv, Refuse PROVE OneAnswer' /\ Exchange' /\ Image' /\ Stage'
<1>c. /\ step \in {"wait", "rewait"} /\ ~Answered /\ tmode = "cmd"
      /\ phase \notin {"fixup", "drain", "finalDrain"}
  BY CommandAt DEF Refuse
<1>1. OneAnswer' /\ ~Acked'
  <2>1. PICK r \in {"nak", "nakPayload"} : Reply(r)
    BY DEF Refuse
  <2>2. r \in Docs
    BY DEF Docs, Responses
  <2>3. OneAnswer' /\ \A q \in Responses : UnderWay(q)' => q = r
    BY <1>c, <2>1, <2>2, Replies DEF Refuse, TakeTransfer, reader, IInv
  <2>4. QED
    BY <2>3 DEF Acked, Responses
<1>2. /\ tx' = NoCmd
      /\ UNCHANGED <<table, nand, eraseAll, phase, x, step, unsent, link, tmode, todo, flash>>
  BY DEF Refuse, TakeTransfer, option, main
<1>3. Exchange'
  BY <1>c, <1>2 DEF IInv, Exchange, Here, Applies, NoCmd
<1>4. Image'
  BY <1>c, <1>1, <1>2 DEF Image, NoCmd
<1>5. Stage'
  BY <1>1, <1>2 DEF IInv, Stage, ErasesSbl, Untouched, OthersWritten
<1>6. QED
  BY <1>1, <1>3, <1>4, <1>5

\* A transfer that meets a target in raw mode is the data of the next sector.
LEMMA DataAt ==
    ASSUME IInv, tmode = "raw", tx # NoCmd
    PROVE  /\ phase \in Images /\ step \in {"raw", "close"} /\ ~Answered
           /\ step = "raw" => unsent # {}
           /\ \E s \in Sectors :
                 /\ tx = [type |-> "data", sectors |-> {s}]
                 /\ todo = unsent \cup {s} /\ s \notin unsent
                 /\ Least(s, todo)
                 /\ s \in Area(Here)
<1>1. tx.type = "data"
  BY DEF IInv, Exchange
<1>2. /\ phase \in Images /\ step \in {"raw", "close"} /\ ~Answered
      /\ step = "raw" => unsent # {}
  BY <1>1 DEF IInv, Image, Exchange
<1>3. PICK s \in Sectors :
         /\ tx.sectors = {s} /\ todo = unsent \cup {s}
         /\ \A r \in unsent : s < r
  BY <1>1 DEF IInv, Image
<1>4. \A r \in Sectors : r \in Int
  BY TableAssumption DEF Sectors
<1>5. s \notin unsent /\ Least(s, todo)
  <2>1. \A r \in unsent : r \in Int
    BY <1>4 DEF IInv, TypeOK
  <2>2. s \in Int
    BY <1>4
  <2>3. QED
    BY <1>3, <2>1, <2>2 DEF Least
<1>6. tx = [type |-> "data", sectors |-> {s}]
  BY <1>1, <1>3 DEF IInv, TypeOK, Cmd
<1>7. s \in Area(Here)
  BY <1>3 DEF IInv, Image
<1>8. QED
  BY <1>2, <1>3, <1>5, <1>6, <1>7

LEMMA WriteStep ==
    ASSUME IInv, Write PROVE OneAnswer' /\ Exchange' /\ Image' /\ Stage'
<1>1. /\ phase \in Images /\ step \in {"raw", "close"} /\ ~Answered
      /\ step = "raw" => unsent # {}
  BY DataAt DEF Write, TakeTransfer
<1>2. PICK s \in Sectors :
         /\ tx = [type |-> "data", sectors |-> {s}]
         /\ todo = unsent \cup {s} /\ s \notin unsent
         /\ Least(s, todo)
         /\ s \in Area(Here)
  BY DataAt DEF Write, TakeTransfer
<1>3. PICK q \in todo :
         /\ Least(q, todo)
         /\ flash' = [flash EXCEPT ![q] =
                IF tx = [type |-> "data", sectors |-> {q}] THEN "new" ELSE "wrong"]
         /\ todo' = todo \ {q}
         /\ IF todo = {q}
            THEN Reply("ack") /\ tmode' = "cmd"
            ELSE UNCHANGED <<rx, tmode>>
  BY DEF Write
<1>4. q = s
  <2>1. \A r \in Sectors : r \in Int
    BY TableAssumption DEF Sectors
  <2>2. q \in Sectors
    BY DEF IInv, TypeOK
  <2>3. q <= s /\ s <= q
    BY <1>2, <1>3 DEF Least
  <2>4. QED
    BY <2>1, <2>2, <2>3
<1>5. /\ flash' = [flash EXCEPT ![s] = "new"]
      /\ todo' = unsent
      /\ tmode = "raw"
      /\ todo = {s} => Reply("ack") /\ tmode' = "cmd"
      /\ todo # {s} => UNCHANGED <<rx, tmode>>
  <2>1. flash' = [flash EXCEPT ![s] = "new"]
    BY <1>2, <1>3, <1>4
  <2>2. todo' = unsent
    BY <1>2, <1>3, <1>4
  <2>3. /\ todo = {s} => Reply("ack") /\ tmode' = "cmd"
        /\ todo # {s} => UNCHANGED <<rx, tmode>>
    BY <1>3, <1>4
  <2>4. QED
    BY <2>1, <2>2, <2>3 DEF Write
<1>6. /\ tx' = NoCmd
      /\ UNCHANGED <<table, nand, eraseAll, phase, x, step, unsent, link, queue, held>>
  BY DEF Write, TakeTransfer, option, main, reader
<1>7. flash \in [Sectors -> {"old", "erased", "new", "wrong"}] /\ 0 \in Sectors
  BY TableAssumption DEF IInv, TypeOK, Sectors
<1>8. /\ flash'[s] = "new"
      /\ \A r \in Sectors : r # s => flash'[r] = flash[r]
  BY <1>5, <1>7
<1>9. \A r \in Area(Here) \ todo' : flash'[r] = "new"
  <2>1. \A r \in Area(Here) \ todo : flash[r] = "new"
    BY <1>5 DEF IInv, Image
  <2>2. Area(Here) \subseteq Sectors
    BY DEF Area
  <2>3. QED
    BY <1>2, <1>5, <1>8, <2>1, <2>2
<1>10. ASSUME todo = {s} PROVE OneAnswer' /\ Exchange' /\ Image'
  <2>1. unsent = {} /\ step = "close"
    BY <1>1, <1>2, <1>10
  <2>2. OneAnswer'
    BY <1>1, <1>5, <1>6, <1>10, Replies DEF IInv, Docs, Responses
  <2>3. Exchange'
    BY <1>1, <1>5, <1>6, <1>10, <2>1 DEF IInv, Exchange, Here, Applies, NoCmd
  <2>4. Image'
    <3>1. tmode' = "cmd" /\ todo' = {} /\ tx'.type # "data"
      BY <1>5, <1>6, <1>10, <2>1 DEF NoCmd
    <3>2. \A r \in Area(Here) : flash'[r] = "new"
      BY <1>9, <3>1
    <3>3. QED
      BY <1>6, <2>1, <3>1, <3>2 DEF Image, Here
  <2>5. QED
    BY <2>2, <2>3, <2>4
<1>11. ASSUME todo # {s} PROVE OneAnswer' /\ Exchange' /\ Image'
  <2>1. ~Answered' /\ OneAnswer'
    BY <1>1, <1>5, <1>6, <1>11 DEF IInv, OneAnswer, Answered, Queued, Arriving
  <2>2. ~Acked'
    BY <2>1, AnsweredIs DEF Acked, Responses
  <2>3. Exchange'
    BY <1>1, <1>5, <1>6, <1>11, <2>1 DEF IInv, Exchange, Here, Applies, NoCmd
  <2>4. todo' \in SUBSET Area(Here)
    BY <1>2, <1>5 DEF IInv, Image
  <2>5. Image'
    BY <1>1, <1>5, <1>6, <1>9, <1>11, <2>1, <2>2, <2>4 DEF Image, NoCmd, Here
  <2>6. QED
    BY <2>1, <2>3, <2>5
<1>12. Stage'
  <2>1. \A r \in Sectors : flash[r] = "new" => flash'[r] = "new"
    BY <1>8
  <2>2. OthersWritten(table, flash) => OthersWritten(table, flash')
    BY <2>1 DEF OthersWritten, Area
  <2>3. flash[0] # "old" => flash'[0] # "old"
    BY <1>7, <1>8
  <2>4. nand /\ phase = "program" => flash'[0] = flash[0]
    <3>1. SUFFICES ASSUME nand, phase = "program" PROVE flash'[0] = flash[0]
      OBVIOUS
    <3>2. x \in DOMAIN table /\ table \in Tables /\ ~IsSbl(table[x])
      BY <1>1, <3>1 DEF IInv, TypeOK, Exchange, Passes, Applies, Here
    <3>3. s # 0
      BY <1>2, <3>2, OtherArea DEF Here
    <3>4. QED
      BY <1>7, <1>8, <3>3
  <2>5. \A i \in DOMAIN table : \A r \in Area(table[i]) : flash[r] = "new" => flash'[r] = "new"
    BY <2>1 DEF Area
  <2>6. phase \in {"program", "sblProgram"} /\ Stage
    BY <1>1 DEF Images, IInv
  <2>7. ErasesSbl(table, eraseAll)' <=> ErasesSbl(table, eraseAll)
    BY <1>6 DEF ErasesSbl
  <2>8. (OthersWritten(table, flash))' <=> OthersWritten(table, flash')
    BY <1>6 DEF OthersWritten
  <2>9. QED
    BY <1>6, <2>2, <2>3, <2>4, <2>5, <2>6, <2>7, <2>8 DEF Stage, Early, Before
<1>13. QED
  BY <1>10, <1>11, <1>12

LEMMA WriteErrorStep ==
    ASSUME IInv, WriteError PROVE OneAnswer' /\ Exchange' /\ Image' /\ Stage'
<1>1. phase \in Images /\ step \in {"raw", "close"} /\ ~Answered
  BY DataAt DEF WriteError, TakeTransfer
<1>2. /\ tx' = NoCmd /\ tmode' = "refusing"
      /\ UNCHANGED <<table, nand, eraseAll, phase, x, step, unsent, link, flash, queue, held>>
  BY DEF WriteError, TakeTransfer, option, main, reader
<1>3. OneAnswer' /\ \A q \in Responses : UnderWay(q)' => q = "nak"
  BY <1>1, <1>2, Replies DEF WriteError, IInv, Docs, Responses
<1>4. ~Acked'
  BY <1>3 DEF Acked, Responses
<1>5. Exchange'
  BY <1>1, <1>2 DEF IInv, Exchange, Here, Applies, NoCmd
<1>6. Image'
  BY <1>1, <1>2, <1>4 DEF Image, NoCmd
<1>7. Stage'
  BY <1>2, <1>4 DEF IInv, Stage, ErasesSbl, Untouched, OthersWritten
<1>8. QED
  BY <1>3, <1>5, <1>6, <1>7

LEMMA DropDataStep ==
    ASSUME IInv, DropData PROVE OneAnswer' /\ Exchange' /\ Image' /\ Stage'
<1>1. step \in {"raw", "close"} /\ tmode = "refusing"
  BY DEF DropData, IInv, Exchange
<1>2. /\ tx' = NoCmd
      /\ UNCHANGED <<table, nand, eraseAll, phase, x, step, unsent, link, flash, tmode, todo,
                     queue, held, rx>>
  BY DEF DropData, TakeTransfer, option, main, reader
<1>3. OneAnswer' /\ (Answered' <=> Answered) /\ (Acked' <=> Acked)
  BY <1>2 DEF IInv, OneAnswer, Answered, Acked, UnderWay, Queued, Arriving
<1>4. Exchange'
  BY <1>1, <1>2, <1>3 DEF IInv, Exchange, Here, Applies, NoCmd
<1>5. Image'
  BY <1>1, <1>2, <1>3 DEF IInv, Image, NoCmd, Here
<1>6. Stage'
  BY <1>2, <1>3 DEF IInv, Stage, ErasesSbl, Untouched, OthersWritten
<1>7. QED
  BY <1>3, <1>4, <1>5, <1>6

-----------------------------------------------------------------------------
(* The invariant.                                                          *)

LEMMA IInvInit == Init => IInv
<1> SUFFICES ASSUME Init PROVE IInv
  OBVIOUS
<1>1. TypeOK
  BY TypeInit
<1>2. ~Answered /\ ~Acked
  BY DEF Init, Answered, Acked, UnderWay, Queued, Arriving, None, Responses
<1>3. OneAnswer
  BY DEF Init, OneAnswer, Queued, Arriving
<1>4. Exchange
  BY <1>2 DEF Init, Exchange, NoCmd, Images, Passes
<1>5. Image
  BY <1>2 DEF Init, Image, NoCmd, Images
<1>6. Stage
  <2>1. \A s \in Sectors : flash[s] = "old"
    BY DEF Init
  <2>2. 0 \in Sectors
    BY TableAssumption DEF Sectors
  <2>3. phase = "fixup" /\ x = 1
    BY DEF Init
  <2>4. QED
    BY <2>1, <2>2, <2>3 DEF Stage, Early, Before, Untouched
<1>7. QED
  BY <1>1, <1>3, <1>4, <1>5, <1>6 DEF IInv

\* Where nothing of the exchange moves, OneAnswer and the rest stay.
LEMMA StillStep ==
    ASSUME IInv,
           UNCHANGED <<option, phase, x, step, unsent, link, tx, tmode, todo, flash, queue, held, rx>>
    PROVE  OneAnswer' /\ Exchange' /\ Image' /\ Stage'
<1>1. NoNewAnswer
  BY DEF NoNewAnswer, UnderWay
<1>2. OneAnswer'
  BY DEF IInv, OneAnswer, Queued, Arriving
<1>3. QED
  BY <1>1, <1>2, PathStep

\* A step of the main thread that leaves the socket pair as it is.
LEMMA SameAnswers ==
    ASSUME OneAnswer, UNCHANGED <<queue, held, rx>> PROVE OneAnswer'
  BY DEF OneAnswer, Queued, Arriving

\* Every step of the program keeps the invariant.
LEMMA IInvStep == IInv /\ [Next]_vars => IInv'
<1> SUFFICES ASSUME IInv, [Next]_vars PROVE OneAnswer' /\ Exchange' /\ Image' /\ Stage'
  BY TypeStep DEF IInv
<1>o. TypeOK /\ OneAnswer
  BY DEF IInv
<1>1. CASE Fixup
  BY <1>1, <1>o, FixupStep, SameAnswers DEF Fixup, reader
<1>2. CASE Drain
  <2>1. OneAnswer' /\ NoNewAnswer
    BY <1>2, <1>o, TakeRecord DEF Drain, reader
  <2>2. QED
    BY <1>2, <2>1, PathStep DEF Drain, main, target
<1>3. CASE DrainEnd
  BY <1>3, <1>o, DrainEndStep, SameAnswers DEF DrainEnd, reader
<1>4. CASE Skip
  BY <1>4, <1>o, SkipStep, SameAnswers DEF Skip, reader
<1>5. CASE EndPass
  BY <1>5, <1>o, EndPassStep, SameAnswers DEF EndPass, reader
<1>6. CASE Send
  BY <1>6, <1>o, SendStep, SameAnswers DEF Send, reader
<1>7. CASE PassLog
  <2>1. OneAnswer' /\ NoNewAnswer
    BY <1>7, <1>o, TakeRecord DEF PassLog, reader
  <2>2. QED
    BY <1>7, <2>1, PathStep DEF PassLog, main, target
<1>8. CASE Finish
  <2>1. OneAnswer'
    BY <1>8, <1>o, TakeRecord DEF Finish, TakeAnswer, reader
  <2>2. QED
    BY <1>8, <2>1, FinishStep
<1>9. CASE Continue
  <2>1. OneAnswer'
    BY <1>9, <1>o, TakeRecord DEF Continue, TakeAnswer, reader
  <2>2. QED
    BY <1>9, <2>1, ContinueStep
<1>10. CASE Refused
  <2>1. OneAnswer' /\ NoNewAnswer
    BY <1>10, <1>o, TakeRecord DEF Refused, TakeAnswer, reader
  <2>2. QED
    BY <1>10, <2>1, PathStep DEF Refused, TakeAnswer, target
<1>11. CASE SendChunk
  BY <1>11, <1>o, SendChunkStep, SameAnswers DEF SendChunk, reader
<1>12. CASE SendFails \/ Timeout
  BY <1>12, StillStep DEF SendFails, Timeout, reader, target
<1>13. CASE Reader
  <2>1. OneAnswer' /\ NoNewAnswer
    BY <1>13, <1>o, ReaderMoves
  <2>2. UNCHANGED <<option, phase, x, step, unsent, link, tx, tmode, todo, flash>>
    BY <1>13 DEF Reader, Parse, DropLog, DropRest, ReaderExit, Deliver, main, target
  <2>3. QED
    BY <2>1, <2>2, PathStep
<1>14. CASE Executes
  BY <1>14, ObeyStep, RefuseStep, WriteStep, WriteErrorStep, DropDataStep DEF Executes
<1>15. CASE Log \/ Garbage
  <2>1. PICK r \in {"log", "garbage"} : Reply(r)
    BY <1>15 DEF Log, Garbage
  <2>2. r \in Docs /\ r \notin Responses
    BY DEF Docs, Responses
  <2>3. UNCHANGED <<option, phase, x, step, unsent, link, tx, tmode, todo, flash, queue, held>>
    BY <1>15 DEF Log, Garbage, Reply, main, reader
  <2>4. OneAnswer' /\ NoNewAnswer
    BY <1>o, <2>1, <2>2, <2>3, Replies
  <2>5. QED
    BY <2>3, <2>4, PathStep
<1>16. CASE Unplug
  BY <1>16, <1>o, UnplugStep, ReaderMoves
<1>17. CASE Returned \/ UNCHANGED vars
  BY <1>17, StillStep DEF Returned, vars, main, reader, target
<1>18. QED
  BY <1>1, <1>2, <1>3, <1>4, <1>5, <1>6, <1>7, <1>8, <1>9, <1>10, <1>11, <1>12, <1>13, <1>14, <1>15,
     <1>16, <1>17 DEF Next, Main

\* The exchange of commands and answers, the image under way and the contents
\* of the flash fit together at every moment (firehose_main, fh_process_program).
THEOREM InvariantHolds == Spec => []IInv
<1>1. QED
  BY IInvInit, IInvStep, PTL DEF Spec

\* "First erase SBL, last program SBL" (firehose_main): on nand, whatever fails
\* and whenever, the flash never holds a boot loader next to a mixture.
THEOREM SblSafe == Spec => []SblGuard
<1>1. IInv => SblGuard
  <2> SUFFICES ASSUME IInv, nand, ErasesSbl(table, eraseAll)
               PROVE  /\ flash[0] = "old" => Untouched(flash)
                      /\ flash[0] = "new" => OthersWritten(table, flash)
    BY DEF SblGuard
  <2>1. Stage /\ 0 \in Sectors
    BY TableAssumption DEF IInv, Sectors
  <2>2. flash[0] = "old" => Untouched(flash)
    BY <2>1 DEF Stage
  <2>3. flash[0] = "new" => phase \notin Early \cup {"program"}
    BY <2>1 DEF Stage
  <2>4. QED
    BY <2>1, <2>2, <2>3 DEF Stage
<1>2. QED
  BY <1>1, InvariantHolds, PTL

\* fh_process_program: no transfer of an image reaches a target that does not
\* await exactly that sector, unless the target has just refused the image.
THEOREM DataSafe == Spec => []DataWhereAwaited
<1>1. IInv => DataWhereAwaited
  <2> SUFFICES ASSUME IInv, tx.type = "data", tmode # "refusing"
               PROVE  tmode = "raw" /\ \A s \in tx.sectors : Least(s, todo)
    BY DEF DataWhereAwaited
  <2>1. tmode = "raw" /\ tx # NoCmd
    BY DEF IInv, Image, NoCmd
  <2>2. QED
    BY <2>1, DataAt
<1>2. QED
  BY <1>1, InvariantHolds, PTL

\* fh_wait_response_cmd: an answer the main thread finds is never the answer to
\* another command than the one it waits for.
THEOREM AnswerSafe == Spec => []AnswerMatches
<1>1. IInv => AnswerMatches
  <2> SUFFICES ASSUME IInv, Queued \/ held \in Responses
               PROVE  /\ phase \notin {"drain", "finalDrain"} /\ step # "next"
                      /\ tx.type \in {"none", "data"}
                      /\ tx.type = "data" => tmode = "refusing"
    BY DEF AnswerMatches, Queued
  <2>1. Answered
    BY DEF Answered
  <2>2. step # "next" /\ phase \notin {"drain", "finalDrain"} /\ tx.type \in {"none", "data"}
    BY <2>1 DEF IInv, Exchange
  <2>3. tx.type = "data" => tmode = "refusing"
    BY <2>1 DEF IInv, Image
  <2>4. QED
    BY <2>2, <2>3
<1>2. QED
  BY <1>1, InvariantHolds, PTL


-----------------------------------------------------------------------------
(* What a step does to the flash, and to the place of the main thread.     *)

StillHost == UNCHANGED <<option, main>>

\* The erase that the host waits for is executed; a sector of the image is written.
Erased ==
    /\ phase \in Erases /\ step = "wait" /\ x \in DOMAIN table /\ Applies(Here)
    /\ flash' = [s \in Sectors |->
          IF s \in EraseArea(table, x, eraseAll) THEN "erased" ELSE flash[s]]
    /\ StillHost

Wrote ==
    /\ phase \in Images /\ x \in DOMAIN table /\ Applies(Here)
    /\ \E s \in Area(Here) : flash' = [flash EXCEPT ![s] = "new"]
    /\ StillHost

\* The target changes the flash in no other way.
LEMMA ObeyFlash ==
    ASSUME IInv, Obey PROVE (flash' = flash /\ phase \notin Erases) \/ Erased
<1>1. CASE tx.type = "erase"
  <2>1. /\ phase \in Erases /\ step = "wait"
        /\ tx.sectors = EraseArea(table, x, eraseAll)
    BY <1>1, CommandAt DEF Obey
  <2>2. x \in DOMAIN table /\ Applies(Here)
    BY <2>1 DEF IInv, Exchange, Erases, Passes
  <2>3. flash' = [s \in Sectors |->
            IF s \in EraseArea(table, x, eraseAll) THEN "erased" ELSE flash[s]]
    BY <1>1, <2>1 DEF Obey
  <2>4. QED
    BY <2>1, <2>2, <2>3 DEF Erased, StillHost, Obey, TakeTransfer
<1>2. CASE tx.type # "erase"
  BY <1>2, CommandAt DEF Obey, IInv, TypeOK
<1>3. QED
  BY <1>1, <1>2

LEMMA WriteFlash ==
    ASSUME IInv, Write PROVE Wrote
<1>1. PICK s \in Sectors :
         /\ tx = [type |-> "data", sectors |-> {s}]
         /\ Least(s, todo) /\ s \in Area(Here)
  BY DataAt DEF Write, TakeTransfer
<1>2. phase \in Images /\ step \in {"raw", "close"}
  BY DataAt DEF Write, TakeTransfer
<1>3. PICK q \in todo :
         /\ Least(q, todo)
         /\ flash' = [flash EXCEPT ![q] =
                IF tx = [type |-> "data", sectors |-> {q}] THEN "new" ELSE "wrong"]
  BY DEF Write
<1>4. q = s
  <2>1. q \in Sectors /\ s \in Sectors
    BY DEF IInv, TypeOK
  <2>i. q \in Int /\ s \in Int
    BY <2>1, TableAssumption DEF Sectors
  <2>2. q <= s /\ s <= q
    BY <1>1, <1>3 DEF Least
  <2>3. QED
    BY <2>i, <2>2
<1>5. flash' = [flash EXCEPT ![s] = "new"]
  BY <1>1, <1>3, <1>4
<1>6. x \in DOMAIN table /\ Applies(Here)
  BY <1>2 DEF IInv, Exchange, Images, Passes
<1>7. QED
  BY <1>1, <1>2, <1>5, <1>6 DEF Wrote, StillHost, Write, TakeTransfer

LEMMA FlashMoves ==
    ASSUME IInv, [Next]_vars PROVE flash' = flash \/ Erased \/ Wrote
<1>1. CASE Main \/ Timeout \/ Reader \/ Log \/ Garbage \/ Unplug \/ Returned \/ UNCHANGED vars
  BY <1>1 DEF Main, Fixup, Drain, DrainEnd, Skip, EndPass, Send, PassLog, Finish, Continue,
     Refused, TakeAnswer, SendChunk, SendFails, Timeout, Reader, Parse, DropLog, DropRest,
     ReaderExit, Deliver, Log, Garbage, Unplug, Returned, vars, target
<1>2. CASE Refuse \/ WriteError \/ DropData
  BY <1>2 DEF Refuse, WriteError, DropData
<1>3. QED
  BY <1>1, <1>2, ObeyFlash, WriteFlash DEF Next, Executes

\* The main thread stays where it is, or fails.
Stays == UNCHANGED <<phase, x>> /\ outcome' \in {outcome, "failed"}

\* It leaves an entry behind, or a pass, or a phase without a pass; or is done.
LeavesEntry ==
    /\ phase \in Passes /\ x \in DOMAIN table /\ x' = x + 1 /\ step' = "next"
    /\ UNCHANGED <<phase, outcome, flash>>
    /\ \/ ~Applies(Here)
       \/ /\ phase \in Images => \A s \in Area(Here) : flash[s] = "new"
          /\ phase = "erase" => step = "wait" /\ Acked

LeavesPass ==
    /\ phase \in Passes /\ \A i \in DOMAIN table : i < x
    /\ phase' = Following /\ x' = 1 /\ step' = "next"
    /\ UNCHANGED <<outcome, flash>>

LeavesPhase ==
    /\ phase \notin Passes \cup {"finalDrain"} /\ phase' = Following
    /\ UNCHANGED <<x, outcome, flash>>

Succeeded ==
    /\ phase = "finalDrain" /\ outcome = "running" /\ outcome' = "done"
    /\ UNCHANGED <<phase, x, flash>>

LEMMA FinishMoves ==
    ASSUME IInv, Finish PROVE LeavesEntry \/ LeavesPhase
<1>1. Head(queue) \in Responses /\ UnderWay(Head(queue)) /\ ~Answered'
  BY TakeRecord DEF Finish, TakeAnswer, reader, IInv
<1>2. Answered
  BY <1>1, AnsweredIs
<1>3. step \in {"wait", "rewait", "close"} /\ UNCHANGED <<flash, outcome>>
  BY DEF Finish, TakeAnswer, Waiting, target
<1>4. CASE phase \in Passes
  <2>1. x \in DOMAIN table /\ Applies(Here) /\ x' = x + 1 /\ phase' = phase
    BY <1>3, <1>4 DEF IInv, Exchange, Finish
  <2>2. phase \in Images => Acked /\ step = "close"
    BY <1>1 DEF Finish, Finishes, Images, Acked
  <2>3. phase \in Images => \A s \in Area(Here) : flash[s] = "new"
    BY <2>2 DEF IInv, Image
  <2>4. phase = "erase" => step = "wait" /\ Acked
    <3>1. phase = "erase" => step = "wait"
      BY <1>3 DEF IInv, Exchange, Images
    <3>2. phase = "erase" => IsAck(Head(queue))
      BY DEF Finish, Finishes
    <3>3. QED
      BY <1>1, <3>1, <3>2 DEF IsAck, Acked
  <2>5. QED
    BY <1>3, <1>4, <2>1, <2>3, <2>4 DEF LeavesEntry, Finish
<1>5. CASE phase \notin Passes
  <2>1. phase # "finalDrain"
    BY <1>3 DEF IInv, Exchange
  <2>2. QED
    BY <1>3, <1>5, <2>1 DEF LeavesPhase, Finish
<1>6. QED
  BY <1>4, <1>5

LEMMA MainMoves ==
    ASSUME IInv, [Next]_vars
    PROVE  /\ UNCHANGED option
           /\ Stays \/ LeavesEntry \/ LeavesPass \/ LeavesPhase \/ Succeeded
<1>t. table \in Seq(Entry) /\ x \in Nat \ {0}
  BY TableAssumption DEF IInv, TypeOK
<1>1. CASE Fixup
  BY <1>1 DEF Fixup, Stays, LeavesPhase, Passes, target
<1>2. CASE DrainEnd
  BY <1>2 DEF DrainEnd, Running, LeavesPhase, Succeeded, Passes, target
<1>3. CASE Skip
  <2>1. x \in DOMAIN table
    BY <1>t, <1>3 DEF Skip
  <2>2. QED
    BY <1>3, <2>1 DEF Skip, LeavesEntry, target
<1>4. CASE EndPass
  <2>1. \A i \in DOMAIN table : i < x
    BY <1>t, <1>4 DEF EndPass
  <2>2. QED
    BY <1>4, <2>1 DEF EndPass, LeavesPass, target
<1>5. CASE Finish
  BY <1>5, FinishMoves DEF Finish, TakeAnswer
<1>6. CASE Drain \/ Send \/ PassLog \/ Continue \/ Refused \/ SendChunk \/ SendFails \/ Timeout
  BY <1>6 DEF Drain, Send, PassLog, Continue, Refused, TakeAnswer, SendChunk, SendFails, Timeout,
     Stays, main
<1>7. CASE Reader
  BY <1>7 DEF Reader, Parse, DropLog, DropRest, ReaderExit, Deliver, Stays, main
<1>8. CASE Executes
  BY <1>8 DEF Executes, Obey, Refuse, Write, WriteError, DropData, TakeTransfer, Stays, main
<1>9. CASE Log \/ Garbage \/ Unplug \/ Returned \/ UNCHANGED vars
  BY <1>9 DEF Log, Garbage, Unplug, Returned, vars, Stays, main
<1>10. QED
  BY <1>1, <1>2, <1>3, <1>4, <1>5, <1>6, <1>7, <1>8, <1>9 DEF Next, Main

\* The answer of an erase is under way only when the area is erased.
LEMMA AckedMoves ==
    ASSUME IInv, [Next]_vars, phase = "erase", step' = "wait", Acked'
    PROVE  (step = "wait" /\ Acked) \/ Erased
<1>o. TypeOK /\ OneAnswer /\ Exchange /\ Image
  BY DEF IInv
<1>p. phase \notin Images /\ phase \in Erases
  BY DEF Images, Erases
<1>k. ASSUME NoNewAnswer, step' = step PROVE step = "wait" /\ Acked
  BY <1>k, AckedShrinks
<1>1. CASE Fixup \/ Drain \/ DrainEnd \/ Skip \/ EndPass \/ Finish \/ Continue \/ SendChunk
  BY <1>1, <1>o, <1>p DEF Fixup, Drain, DrainEnd, Skip, EndPass, Finish, Continue, Continues,
     SendChunk, Exchange, Images
<1>2. CASE Send
  <2>1. ~Answered /\ UNCHANGED <<queue, held, rx>>
    BY <1>2, <1>o DEF Send, AtSend, Exchange, reader
  <2>2. ~Acked
    BY <2>1, AnsweredIs DEF Acked, Responses
  <2>3. QED
    BY <2>1, <2>2 DEF Acked, UnderWay
<1>3. CASE PassLog \/ Refused
  BY <1>3, <1>o, <1>k, TakeRecord DEF PassLog, Refused, TakeAnswer, reader, main
<1>4. CASE SendFails \/ Timeout \/ Returned \/ UNCHANGED vars
  BY <1>4 DEF SendFails, Timeout, Returned, vars, reader, main, Acked, UnderWay
<1>5. CASE Reader \/ Unplug
  <2>1. step' = step
    BY <1>5 DEF Reader, Parse, DropLog, DropRest, ReaderExit, Deliver, Unplug, main
  <2>2. QED
    BY <1>5, <1>o, <1>k, <2>1, ReaderMoves
<1>6. CASE Log \/ Garbage
  <2>1. PICK r \in {"log", "garbage"} : Reply(r)
    BY <1>6 DEF Log, Garbage
  <2>2. UNCHANGED <<queue, held>> /\ step' = step
    BY <1>6 DEF Log, Garbage, reader, main
  <2>3. QED
    BY <1>o, <1>k, <2>1, <2>2, Replies DEF Docs, Responses
<1>7. CASE Obey
  BY <1>7, <1>p, ObeyFlash
<1>8. CASE Refuse
  <2>1. PICK r \in {"nak", "nakPayload"} : Reply(r)
    BY <1>8 DEF Refuse
  <2>2. ~Answered /\ UNCHANGED <<queue, held>>
    BY <1>8, CommandAt DEF Refuse, TakeTransfer, reader
  <2>3. \A q \in Responses : UnderWay(q)' => q = r
    BY <1>o, <2>1, <2>2, Replies DEF Docs, Responses
  <2>4. QED
    BY <2>1, <2>3 DEF Acked, Responses
<1>9. CASE Write \/ WriteError \/ DropData
  BY <1>9, <1>o, <1>p DEF Write, WriteError, DropData, Exchange
<1>10. QED
  BY <1>1, <1>2, <1>3, <1>4, <1>5, <1>6, <1>7, <1>8, <1>9 DEF Next, Main, Executes

-----------------------------------------------------------------------------
(* Entries that are behind have had their effect.                          *)

\* What a step leaves in the flash, sector by sector.
LEMMA FlashKept ==
    ASSUME IInv, Complete, [Next]_vars
    PROVE  /\ \A s \in Sectors : flash'[s] # "wrong"
           /\ \A s \in Sectors : flash[s] = "erased" => flash'[s] \in {"erased", "new"}
           /\ phase \notin Early => \A s \in Sectors : flash[s] = "new" => flash'[s] = "new"
<1>t. flash \in [Sectors -> {"old", "erased", "new", "wrong"}]
  BY DEF IInv, TypeOK
<1>1. CASE flash' = flash
  BY <1>1 DEF Complete
<1>2. CASE Erased
  BY <1>2 DEF Erased, Erases, Early, Complete
<1>3. CASE Wrote
  <2>1. PICK s \in Area(Here) : flash' = [flash EXCEPT ![s] = "new"]
    BY <1>3 DEF Wrote
  <2>2. QED
    BY <1>t, <2>1 DEF Complete
<1>4. QED
  BY <1>1, <1>2, <1>3, FlashMoves

LEMMA CompleteStep ==
    ASSUME IInv, Complete, [Next]_vars PROVE Complete'
<1>k. /\ \A s \in Sectors : flash'[s] # "wrong"
      /\ \A s \in Sectors : flash[s] = "erased" => flash'[s] \in {"erased", "new"}
      /\ phase \notin Early => \A s \in Sectors : flash[s] = "new" => flash'[s] = "new"
  BY FlashKept
<1>o. UNCHANGED <<table, nand, eraseAll>>
  BY MainMoves DEF option
<1>t. table \in Seq(Entry) /\ x \in Nat \ {0} /\ outcome \in {"running", "failed", "done"}
  BY TableAssumption DEF IInv, TypeOK
<1>a. \A i \in DOMAIN table : Area(table[i]) \subseteq Sectors /\ i \in Nat \ {0}
  BY <1>t DEF Area
<1>w. outcome' = "done" => phase' = "finalDrain"
  BY MainMoves DEF Complete, Stays, LeavesEntry, LeavesPass, LeavesPhase, Succeeded, Passes
<1>m. Stays \/ LeavesEntry \/ LeavesPass \/ LeavesPhase \/ Succeeded
  BY MainMoves
<1>p. phase \in Phases
  BY DEF IInv, TypeOK
<1> USE DEF Early, Before, Images
<1>1. ASSUME NEW i \in DOMAIN table, IsProgram(table[i]), Programmed(i)'
      PROVE  \A s \in Area(table[i]) : flash'[s] = "new"
  <2>1. CASE Programmed(i)
    <3>1. phase \notin Early /\ \A s \in Area(table[i]) : flash[s] = "new"
      BY <1>1, <2>1 DEF Programmed, Complete
    <3>2. QED
      BY <1>a, <1>k, <3>1
  <2>2. ASSUME ~Programmed(i)
        PROVE  LeavesEntry /\ i = x /\ phase \in Images /\ Applies(Here)
    <3>1. CASE Stays \/ Succeeded
      BY <1>1, <1>o, <2>2, <3>1 DEF Stays, Succeeded, Programmed
    <3>2. CASE LeavesEntry
      <4>1. i < x' <=> i < x \/ i = x
        BY <1>a, <1>t, <3>2 DEF LeavesEntry
      <4>2. QED
        BY <1>1, <1>o, <2>2, <3>2, <4>1 DEF LeavesEntry, Programmed, Applies, Here
    <3>3. CASE LeavesPass
      <4>1. i < x /\ ~(i < 1)
        BY <1>a, <3>3 DEF LeavesPass
      <4>2. QED
        BY <1>1, <1>o, <2>2, <3>3, <4>1 DEF LeavesPass, Programmed, Following, Passes
    <3>4. CASE LeavesPhase
      BY <1>1, <1>o, <1>p, <2>2, <3>4 DEF LeavesPhase, Programmed, Following, Passes, Phases
    <3>5. QED
      BY <1>m, <3>1, <3>2, <3>3, <3>4
  <2>3. ~Programmed(i) => \A s \in Area(table[i]) : flash'[s] = "new"
    BY <2>2 DEF LeavesEntry, Here
  <2>4. QED
    BY <2>1, <2>3
<1>2. ASSUME NEW i \in DOMAIN table, IsErase(table[i]), table[i].sized, ~eraseAll, Cleared(i)'
      PROVE  \A s \in Area(table[i]) : flash'[s] \in {"erased", "new"}
  <2>1. CASE Cleared(i)
    <3>1. \A s \in Area(table[i]) : flash[s] \in {"erased", "new"}
      BY <1>2, <2>1 DEF Complete
    <3>2. phase \in Early => \A s \in Area(table[i]) : flash[s] # "new"
      BY <1>a DEF IInv, Stage
    <3>3. QED
      BY <1>a, <1>k, <3>1, <3>2
  <2>2. ASSUME ~Cleared(i) PROVE Erased /\ i = x
    <3>1. CASE Stays \/ Succeeded
      <4>1. phase = "erase" /\ i = x /\ step' = "wait" /\ Acked'
        BY <1>2, <2>2, <3>1 DEF Stays, Succeeded, Cleared
      <4>2. QED
        BY <2>2, <4>1, AckedMoves DEF Cleared
    <3>2. CASE LeavesEntry
      <4>1. i < x' <=> i < x \/ i = x
        BY <1>a, <1>t, <3>2 DEF LeavesEntry
      <4>2. QED
        BY <1>2, <2>2, <3>2, <4>1 DEF LeavesEntry, Cleared, Applies, Here
    <3>3. CASE LeavesPass
      <4>1. i < x /\ ~(i < 1)
        BY <1>a, <3>3 DEF LeavesPass
      <4>2. QED
        BY <1>2, <2>2, <3>3, <4>1 DEF LeavesPass, Cleared, Following, Passes
    <3>4. CASE LeavesPhase
      BY <1>2, <1>p, <2>2, <3>4 DEF LeavesPhase, Cleared, Following, Passes, Phases
    <3>5. QED
      BY <1>m, <3>1, <3>2, <3>3, <3>4
  <2>3. ASSUME Erased, i = x PROVE \A s \in Area(table[i]) : flash'[s] = "erased"
    <3>1. EraseArea(table, x, eraseAll) = Area(table[i])
      BY <1>2, <2>3 DEF EraseArea
    <3>2. QED
      BY <1>a, <2>3, <3>1 DEF Erased
  <2>4. QED
    BY <2>1, <2>2, <2>3
<1>3. QED
  BY <1>k, <1>o, <1>w, <1>1, <1>2 DEF Complete

LEMMA CompleteInit == Init => Complete
<1> SUFFICES ASSUME Init PROVE Complete
  OBVIOUS
<1>1. table \in Seq(Entry) /\ phase = "fixup" /\ outcome = "running"
  BY TableAssumption DEF Init
<1>2. \A s \in Sectors : flash[s] = "old"
  BY DEF Init
<1>3. QED
  BY <1>1, <1>2 DEF Complete, Programmed, Cleared, Early, Before, Images

\* What is behind the main thread has been written and erased, at every moment
\* (the loops of firehose_main).
THEOREM CompleteHolds == Spec => [](IInv /\ Complete)
<1>1. Init => IInv /\ Complete
  BY IInvInit, CompleteInit
<1>2. IInv /\ Complete /\ [Next]_vars => (IInv /\ Complete)'
  BY IInvStep, CompleteStep
<1>3. QED
  BY <1>1, <1>2, PTL DEF Spec

LEMMA AllWritten ==
    ASSUME IInv, Complete, phase \in {"reset", "finalDrain"}
    PROVE  /\ Written(table, flash)
           /\ ~eraseAll => \A i \in DOMAIN table :
                 IsErase(table[i]) /\ table[i].sized =>
                     \A s \in Area(table[i]) : flash[s] \in {"erased", "new"}
  BY DEF Complete, Programmed, Cleared, Early, Before, Images, Written

\* firehose_main returns 0, and the target resets, only with every image of the
\* table in the flash and every area erased that an entry names.
THEOREM CompleteSafe == Spec => []CompleteWhenReset
<1>1. IInv /\ Complete => CompleteWhenReset
  <2> SUFFICES ASSUME IInv, Complete, tmode = "reset" \/ outcome = "done"
               PROVE  phase \in {"reset", "finalDrain"}
    BY AllWritten DEF CompleteWhenReset
  <2>1. QED
    BY DEF IInv, Exchange, Complete
<1>2. QED
  BY <1>1, CompleteHolds, PTL

-----------------------------------------------------------------------------
(* The refinement.                                                         *)

\* Upgrade reads the table as Firehose does.
LEMMA SameSectors == Up!Sectors = Sectors
  BY DEF Up!Sectors, Sectors

LEMMA SameEntries ==
    ASSUME NEW e PROVE /\ Up!IsErase(e) <=> IsErase(e)
                       /\ Up!IsProgram(e) <=> IsProgram(e)
                       /\ Up!IsSbl(e) <=> IsSbl(e)
                       /\ Up!Area(e) = Area(e)
  BY SameSectors
  DEF Up!IsErase, IsErase, Up!IsProgram, IsProgram, Up!IsSbl, IsSbl, Up!Area, Area

LEMMA SameArea ==
    ASSUME NEW t, NEW i, NEW all PROVE Up!EraseArea(t, i, all) = EraseArea(t, i, all)
<1>1. Up!EraseSpan(t) = EraseSpan(t)
  BY SameSectors DEF Up!EraseSpan, EraseSpan
<1>2. QED
  BY <1>1, SameEntries DEF Up!EraseArea, EraseArea

LEMMA SameTable ==
    /\ Up!ErasesSbl(table, eraseAll) <=> ErasesSbl(table, eraseAll)
    /\ Up!Written(table, flash) <=> Written(table, flash)
    /\ Up!OthersWritten(table, flash) <=> OthersWritten(table, flash)
  BY SameEntries, SameArea
  DEF Up!ErasesSbl, ErasesSbl, Up!Written, Written, Up!OthersWritten, OthersWritten

\* An erase that is executed is one that Upgrade allows.
LEMMA EraseAllowed ==
    ASSUME IInv, Erased PROVE Up!EraseEntry(x)
<1>1. x \in DOMAIN table /\ IsErase(table[x])
  BY DEF Erased, Erases, Applies, Here
<1>2. \A s \in Sectors : flash[s] \in {"old", "erased"}
  BY DEF Erased, Erases, Early, IInv, Stage
<1>3. ASSUME nand, ErasesSbl(table, eraseAll), ~IsSbl(table[x]) PROVE flash[0] = "erased"
  <2>1. phase = "erase"
    BY <1>3 DEF Erased, Erases, Applies, Here
  <2>2. flash[0] # "old"
    BY <1>3, <2>1 DEF IInv, Stage, Before
  <2>3. 0 \in Sectors
    BY TableAssumption DEF Sectors
  <2>4. QED
    BY <1>2, <2>2, <2>3
<1>4. QED
  BY <1>1, <1>2, <1>3, SameSectors, SameEntries, SameArea, SameTable DEF Up!EraseEntry, Erased, StillHost, option, main

\* And so is a sector that is written.
LEMMA WriteAllowed ==
    ASSUME IInv, Wrote PROVE \E s \in Sectors : Up!WriteSector(x, s)
<1>1. PICK s \in Area(Here) : flash' = [flash EXCEPT ![s] = "new"]
  BY DEF Wrote
<1>2. s \in Sectors /\ IsProgram(table[x])
  BY DEF Wrote, Images, Applies, Here, Area
<1>3. nand /\ ErasesSbl(table, eraseAll) => flash[0] # "old"
  BY DEF Wrote, Images, Before, IInv, Stage
<1>4. nand /\ IsSbl(table[x]) => OthersWritten(table, flash)
  BY DEF Wrote, Images, Applies, Here, Early, Before, IInv, Stage
<1>5. Up!WriteSector(x, s)
  BY <1>1, <1>2, <1>3, <1>4, SameEntries, SameTable DEF Up!WriteSector, Wrote, StillHost, option, main, Here
<1>6. QED
  BY <1>2, <1>5

LEMMA OutcomeMoves ==
    ASSUME IInv, [Next]_vars
    PROVE  \/ outcome' = outcome
           \/ outcome = "running" /\ outcome' = "failed" /\ flash' = flash
           \/ Succeeded
<1>1. CASE Main \/ Timeout
  BY <1>1 DEF Main, Fixup, Drain, DrainEnd, Skip, EndPass, Send, PassLog, Finish, Continue,
     Refused, TakeAnswer, SendChunk, SendFails, Timeout, Running, Succeeded, main, target
<1>2. CASE Reader \/ Log \/ Garbage \/ Unplug \/ Returned \/ UNCHANGED vars
  BY <1>2 DEF Reader, Parse, DropLog, DropRest, ReaderExit, Deliver, Log, Garbage, Unplug,
     Returned, vars, main
<1>3. CASE Executes
  BY <1>3 DEF Executes, Obey, Refuse, Write, WriteError, DropData, TakeTransfer, main
<1>4. QED
  BY <1>1, <1>2, <1>3 DEF Next

LEMMA StepRefines ==
    ASSUME IInv, Complete, [Next]_vars PROVE [Up!Next]_(Up!vars)
<1>1. UNCHANGED <<table, nand, eraseAll>>
  BY MainMoves DEF option
<1>2. CASE Erased
  <2>1. x \in DOMAIN table
    BY <1>2 DEF Erased
  <2>2. QED
    BY <1>2, <2>1, EraseAllowed DEF Up!Next
<1>3. CASE Wrote
  <2>1. x \in DOMAIN table
    BY <1>3 DEF Wrote
  <2>2. QED
    BY <1>3, <2>1, WriteAllowed, SameSectors DEF Up!Next
<1>4. CASE flash' = flash /\ outcome' = outcome
  BY <1>1, <1>4 DEF Up!vars
<1>5. CASE outcome = "running" /\ outcome' = "failed" /\ flash' = flash
  BY <1>1, <1>5 DEF Up!Next, Up!Fail
<1>6. CASE Succeeded
  <2>1. Written(table, flash)
    BY <1>6, AllWritten DEF Succeeded
  <2>2. QED
    BY <1>1, <1>6, <2>1, SameTable DEF Up!Next, Up!Succeed, Succeeded
<1>7. QED
  BY <1>2, <1>3, <1>4, <1>5, <1>6, FlashMoves, OutcomeMoves

\* The firehose stage implements Upgrade: whatever the threads, the target and the
\* cable do, the flash sees erases, then images, then the boot loader, and success
\* last (firehose_main with everything below it).
THEOREM Refines == Spec => Implements
<1>1. Init => Up!Init
  BY SameSectors DEF Init, Up!Init
<1>2. IInv /\ Complete /\ [Next]_vars => [Up!Next]_(Up!vars)
  BY StepRefines
<1>3. QED
  BY <1>1, <1>2, CompleteHolds, PTL DEF Spec, Implements, Up!Spec
-----------------------------------------------------------------------------
(* Lines of xml: what the stage looks for in one.                          *)

LEMMA MinIs ==
    ASSUME NEW S \in SUBSET Nat, S # {}
    PROVE  Xml!Min(S) \in S /\ \A y \in S : Xml!Min(S) <= y
<1> DEFINE R == {ss \in Nat \X Nat : ss[1] < ss[2]}
<1>1. IsWellFoundedOn(R, Nat)
  BY ONLY NatLessThanWellFounded DEF OpToRel
<1> HIDE DEF R
<1>2. PICK m \in S : \A y \in S : ~ (<<y, m>> \in R)
  BY <1>1, WFMin
<1>3. \A y \in S : ~ (y < m)
  BY <1>2 DEF R
<1>4. \A y \in S : m <= y
  <2>1. m \in Nat /\ \A y \in S : y \in Nat
    OBVIOUS
  <2> QED
    BY <1>3, <2>1
<1> QED
  BY <1>4 DEF Xml!Min

\* A place that is the first of a set of places, or 0 when the set is empty.
FirstOf(k, S) == (k = 0 /\ S = {}) \/ (k \in S /\ \A j \in S : k <= j)

LEMMA FirstIs ==
    ASSUME NEW S \in SUBSET (Nat \ {0})
    PROVE  FirstOf(IF S # {} THEN Xml!Min(S) ELSE 0, S)
BY MinIs DEF FirstOf

OpensIn(l)  == {i \in 1 .. Len(l) : Xml!Opens(l[i])}
ClosesIn(l) == {i \in 1 .. Len(l) : Xml!Closes(l[i])}
ElementsIn(l) == {i \in 1 .. Len(l) : Xml!IsElement(l[i])}

LEMMA Finds ==
    ASSUME NEW T, NEW l \in Seq(T)
    PROVE  /\ FirstOf(Xml!CommentAt(l), OpensIn(l))
           /\ FirstOf(Xml!FirstElement(l), ElementsIn(l))
           /\ Xml!Has(l, Xml!Opens) <=> OpensIn(l) # {}
           /\ Xml!Has(l, Xml!Closes) <=> ClosesIn(l) # {}
           /\ Xml!Elements(l) = ElementsIn(l)
<1>1. /\ OpensIn(l) \in SUBSET (Nat \ {0}) /\ ClosesIn(l) \in SUBSET (Nat \ {0})
      /\ ElementsIn(l) \in SUBSET (Nat \ {0})
  BY DEF OpensIn, ClosesIn, ElementsIn
<1>2. Xml!CommentAt(l) = IF OpensIn(l) # {} THEN Xml!Min(OpensIn(l)) ELSE 0
  BY DEF Xml!CommentAt, Xml!SelectInSeq, OpensIn
<1>3. Xml!FirstElement(l) = IF ElementsIn(l) # {} THEN Xml!Min(ElementsIn(l)) ELSE 0
  BY DEF Xml!FirstElement, Xml!SelectInSeq, ElementsIn
<1>4. Xml!Has(l, Xml!Opens) <=> (IF OpensIn(l) # {} THEN Xml!Min(OpensIn(l)) ELSE 0) # 0
  BY DEF Xml!Has, Xml!SelectInSeq, OpensIn
<1>5. Xml!Has(l, Xml!Closes) <=> (IF ClosesIn(l) # {} THEN Xml!Min(ClosesIn(l)) ELSE 0) # 0
  BY DEF Xml!Has, Xml!SelectInSeq, ClosesIn
<1>6. DOMAIN l = 1 .. Len(l)
  OBVIOUS
<1>7. Xml!Elements(l) = ElementsIn(l)
  BY <1>6 DEF Xml!Elements, ElementsIn
<1>8. /\ FirstOf(IF OpensIn(l) # {} THEN Xml!Min(OpensIn(l)) ELSE 0, OpensIn(l))
      /\ FirstOf(IF ElementsIn(l) # {} THEN Xml!Min(ElementsIn(l)) ELSE 0, ElementsIn(l))
      /\ FirstOf(IF ClosesIn(l) # {} THEN Xml!Min(ClosesIn(l)) ELSE 0, ClosesIn(l))
  BY <1>1, FirstIs
<1>9. Xml!Has(l, Xml!Opens) <=> OpensIn(l) # {}
  BY <1>1, <1>4, <1>8 DEF FirstOf
<1>10. Xml!Has(l, Xml!Closes) <=> ClosesIn(l) # {}
  BY <1>1, <1>5, <1>8 DEF FirstOf
<1> QED
  BY <1>2, <1>3, <1>7, <1>8, <1>9, <1>10

LEMMA EndFound ==
    ASSUME NEW T, NEW l \in Seq(T), Xml!CommentAt(l) \in Nat \ {0}
    PROVE  FirstOf(Xml!CommentEnd(l), {i \in ClosesIn(l) : Xml!CommentAt(l) <= i})
<1> DEFINE S == {i \in Xml!CommentAt(l) .. Len(l) : Xml!Closes(l[i])}
<1>1. S = {i \in ClosesIn(l) : Xml!CommentAt(l) <= i}
  BY DEF ClosesIn
<1>2. S \in SUBSET (Nat \ {0})
  OBVIOUS
<1>3. Xml!CommentEnd(l) = IF S # {} THEN Xml!Min(S) ELSE 0
  BY DEF Xml!CommentEnd, Xml!SelectInSubSeq
<1> HIDE DEF S
<1> QED
  BY <1>1, <1>2, <1>3, FirstIs

-----------------------------------------------------------------------------
\* A program element says which file it is, and in which sectors.
Filled(t) == t.tag = "program" => {"filename", "SECTOR_SIZE_IN_BYTES"} \subseteq DOMAIN t.attrs

\* A line from its only element on.
Begins(u, t) ==
    /\ Len(u) >= 1 /\ u[1] = t /\ Xml!IsElement(t)
    /\ \A k \in 2 .. Len(u) : ~Xml!IsElement(u[k])

LEMMA HolderIs ==
    ASSUME NEW T, NEW u \in Seq(T), NEW t, Begins(u, t), NEW key
    PROVE  Xml!Holder(u, key) = IF key \in DOMAIN t.attrs THEN 1 ELSE 0
<1> DEFINE S == {i \in 1 .. Len(u) : Xml!IsElement(u[i]) /\ key \in DOMAIN u[i].attrs}
<1>1. Xml!Holder(u, key) = IF S # {} THEN Xml!Min(S) ELSE 0
  BY DEF Xml!Holder, Xml!SelectInSeq
<1>2. S = IF key \in DOMAIN t.attrs THEN {1} ELSE {}
  BY DEF Begins
<1> HIDE DEF S
<1>3. Xml!Min({1}) = 1
  <2>1. {1} \in SUBSET Nat /\ {1} # {}
    OBVIOUS
  <2>2. Xml!Min({1}) \in {1}
    BY <2>1, MinIs, Zenon
  <2> QED
    BY <2>2
<1> QED
  BY <1>1, <1>2, <1>3

\* The entry of a line, tag by tag.
LEMMA VendorEntry ==
    ASSUME NEW l, Xml!Holder(l, "vendor") # 0
    PROVE  Xml!EntriesOf(l) =
              << [type |-> "vendor", start |-> 0, num |-> 0, sized |-> FALSE] >>
BY DEF Xml!EntriesOf

LEMMA EraseEntry ==
    ASSUME NEW l, Xml!Holder(l, "vendor") = 0, l[1].tag = "erase"
    PROVE  Xml!EntriesOf(l) =
              << [type |-> "erase", start |-> Xml!Number(l, "start_sector"),
                  num |-> Xml!Number(l, "num_partition_sectors"), sized |-> Xml!Sized(l)] >>
BY DEF Xml!EntriesOf

LEMMA ProgramEntry ==
    ASSUME NEW l, Xml!Holder(l, "vendor") = 0, l[1].tag = "program"
    PROVE  Xml!EntriesOf(l) =
              IF Xml!Value(l, "filename") = "" THEN << >>
              ELSE << [type |-> "program", start |-> Xml!Number(l, "start_sector"),
                       num |-> Xml!ImageSectors(Xml!Value(l, "filename"),
                                                Xml!Value(l, "SECTOR_SIZE_IN_BYTES")),
                       sized |-> Xml!Sized(l)] >>
BY DEF Xml!EntriesOf

LEMMA PatchEntry ==
    ASSUME NEW l, Xml!Holder(l, "vendor") = 0, l[1].tag = "patch"
    PROVE  Xml!EntriesOf(l) =
              IF Xml!Holder(l, "filename") # 0 /\ Xml!Value(l, "filename") # "DISK" THEN << >>
              ELSE << [type |-> "patch", start |-> 0, num |-> 0, sized |-> FALSE] >>
BY DEF Xml!EntriesOf

\* The attributes of one element are not taken for those of another.
LEMMA SoleEntries ==
    ASSUME NEW T, NEW u \in Seq(T), NEW t \in T, Begins(u, t), Filled(t)
    PROVE  Xml!EntriesOf(u) = Xml!EntriesOf(<< t >>)
<1> DEFINE w == << t >>
<1>1. w \in Seq(T) /\ Begins(w, t) /\ w[1] = t
  BY DEF Begins
<1> SUFFICES Xml!EntriesOf(u) = Xml!EntriesOf(w)
  OBVIOUS
<1> HIDE DEF w
<1>2. \A key : Xml!Holder(u, key) = Xml!Holder(w, key)
  BY <1>1, HolderIs, Zenon
<1>3. \A key : Xml!Holder(w, key) = 0 \/ (Xml!Holder(w, key) = 1 /\ key \in DOMAIN t.attrs)
  BY <1>1, HolderIs
<1>k. \A key : key \in DOMAIN t.attrs => Xml!Holder(w, key) = 1
  BY <1>1, HolderIs
<1>4. u[1] = w[1]
  BY <1>1 DEF Begins
<1>5. \A key : Xml!Holder(w, key) # 0 => Xml!Value(u, key) = Xml!Value(w, key)
  BY <1>2, <1>3, <1>4 DEF Xml!Value
<1>6. \A key : Xml!Number(u, key) = Xml!Number(w, key)
  BY <1>2, <1>5 DEF Xml!Number
<1>7. Xml!Number(u, "SECTOR_SIZE_IN_BYTES") = Xml!Number(w, "SECTOR_SIZE_IN_BYTES")
  BY <1>6
<1>8. Xml!Sized(u) = Xml!Sized(w)
  BY <1>7, Zenon DEF Xml!Sized
<1>9. u[1].tag = t.tag /\ w[1].tag = t.tag
  BY <1>1, <1>4
<1>10. CASE Xml!Holder(w, "vendor") # 0
  BY <1>2, <1>10, VendorEntry
<1>11. CASE Xml!Holder(w, "vendor") = 0 /\ t.tag = "erase"
  BY <1>2, <1>6, <1>8, <1>9, <1>11, EraseEntry, Zenon
<1>12. CASE Xml!Holder(w, "vendor") = 0 /\ t.tag = "program"
  <2>1. /\ Xml!Value(u, "filename") = Xml!Value(w, "filename")
        /\ Xml!Value(u, "SECTOR_SIZE_IN_BYTES") = Xml!Value(w, "SECTOR_SIZE_IN_BYTES")
    BY <1>5, <1>k, <1>12 DEF Filled
  <2> QED
    BY <1>2, <1>6, <1>8, <1>9, <1>12, <2>1, ProgramEntry, Zenon
<1>13. CASE Xml!Holder(w, "vendor") = 0 /\ t.tag = "patch"
  <2>1. Xml!Holder(u, "filename") = Xml!Holder(w, "filename")
    BY <1>2
  <2>2. /\ Xml!Holder(u, "vendor") = 0 /\ u[1].tag = "patch"
        /\ Xml!Holder(w, "vendor") = 0 /\ w[1].tag = "patch"
    BY <1>2, <1>9, <1>13
  <2>3. Xml!Holder(w, "filename") # 0 => Xml!Value(u, "filename") = Xml!Value(w, "filename")
    BY <1>5
  <2>4. /\ Xml!EntriesOf(u) =
              IF Xml!Holder(u, "filename") # 0 /\ Xml!Value(u, "filename") # "DISK" THEN << >>
              ELSE << [type |-> "patch", start |-> 0, num |-> 0, sized |-> FALSE] >>
        /\ Xml!EntriesOf(w) =
              IF Xml!Holder(w, "filename") # 0 /\ Xml!Value(w, "filename") # "DISK" THEN << >>
              ELSE << [type |-> "patch", start |-> 0, num |-> 0, sized |-> FALSE] >>
    BY <2>2, PatchEntry, Zenon
  <2> QED
    BY <2>1, <2>3, <2>4
<1>14. t.tag \in {"erase", "program", "patch"}
  BY DEF Begins, Xml!IsElement, Xml!Tags
<1> QED
  BY <1>10, <1>11, <1>12, <1>13, <1>14
-----------------------------------------------------------------------------
(* What the stage makes of a line that does not begin in a comment.        *)

\* Every comment of the line begins before the first one ends.
Ordered(l) == \A i \in OpensIn(l), j \in ClosesIn(l) : i < j

ShownIn(l) ==
    {i \in ElementsIn(l) : \A o \in 1 .. i : Xml!Opens(l[o]) => \E c \in o .. i : Xml!Closes(l[c])}

\* The one element shown, or 0.
ShownIs(l, e) ==
    /\ (e = 0 /\ ShownIn(l) = {}) \/ (e \in ElementsIn(l) /\ ShownIn(l) = {e})
    /\ \A j \in ElementsIn(l) : e <= j

LEMMA Apart ==
    ASSUME NEW l, NEW i, Xml!IsElement(l[i])
    PROVE  ~Xml!Opens(l[i]) /\ ~Xml!Closes(l[i])
BY DEF Xml!IsElement, Xml!Tags, Xml!Opens, Xml!Closes

LEMMA Marked == ASSUME NEW l, NEW i, Xml!Opens(l[i]) PROVE ~Xml!Closes(l[i])
BY DEF Xml!Opens, Xml!Closes

\* The elements shown are those that do not stand in the part that is cut out.
LEMMA ShownOutside ==
    ASSUME NEW T, NEW l \in Seq(T), Ordered(l), OpensIn(l) # {}, ClosesIn(l) # {}
    PROVE  /\ Xml!CommentAt(l) \in 1 .. Len(l) /\ Xml!CommentEnd(l) \in 1 .. Len(l)
           /\ Xml!CommentAt(l) < Xml!CommentEnd(l)
           /\ \A j \in ElementsIn(l) :
                 j \in ShownIn(l) <=> j \notin Xml!CommentAt(l) .. Xml!CommentEnd(l)
<1> DEFINE a == Xml!CommentAt(l)
           b == Xml!CommentEnd(l)
<1>1. a \in OpensIn(l) /\ \A o \in OpensIn(l) : a <= o
  BY Finds DEF FirstOf
<1>2. a \in 1 .. Len(l) /\ Xml!Opens(l[a])
  BY <1>1 DEF OpensIn
<1>3. FirstOf(b, {i \in ClosesIn(l) : a <= i})
  BY <1>2, EndFound
<1>4. \A c \in ClosesIn(l) : c \in 1 .. Len(l) /\ a < c
  BY <1>1 DEF Ordered, ClosesIn
<1> HIDE DEF a, b
<1>5. b \in ClosesIn(l) /\ \A c \in ClosesIn(l) : b <= c
  BY <1>2, <1>3, <1>4 DEF FirstOf
<1>6. b \in 1 .. Len(l) /\ Xml!Closes(l[b]) /\ a < b
  BY <1>4, <1>5 DEF ClosesIn
<1>7. ASSUME NEW j \in ElementsIn(l) PROVE j \in ShownIn(l) <=> j \notin a .. b
  <2>1. j \in 1 .. Len(l) /\ Xml!IsElement(l[j]) /\ j # b
    BY <1>6, Apart DEF ElementsIn
  <2>2. ASSUME j \in a .. b PROVE j \notin ShownIn(l)
    <3>1. ASSUME NEW c \in a .. j, Xml!Closes(l[c]) PROVE FALSE
      <4>1. c \in ClosesIn(l)
        BY <1>2, <2>1, <3>1 DEF ClosesIn
      <4> QED
        BY <1>2, <1>5, <1>6, <2>1, <2>2, <4>1
    <3>2. a \in 1 .. j
      BY <1>2, <2>1, <2>2
    <3> QED
      BY <1>2, <3>1, <3>2 DEF ShownIn
  <2>3. ASSUME j < a PROVE j \in ShownIn(l)
    <3>1. ASSUME NEW o \in 1 .. j, Xml!Opens(l[o]) PROVE FALSE
      <4>1. o \in OpensIn(l)
        BY <2>1, <3>1 DEF OpensIn
      <4> QED
        BY <1>1, <1>2, <2>1, <2>3, <4>1
    <3> QED
      BY <3>1 DEF ShownIn
  <2>4. ASSUME b < j PROVE j \in ShownIn(l)
    <3>1. ASSUME NEW o \in 1 .. j, Xml!Opens(l[o]) PROVE b \in o .. j
      <4>1. o \in OpensIn(l)
        BY <2>1, <3>1 DEF OpensIn
      <4>2. o < b
        BY <1>5, <4>1 DEF Ordered
      <4> QED
        BY <1>6, <2>1, <2>4, <4>2
    <3> QED
      BY <1>6, <3>1 DEF ShownIn
  <2>5. j \in a .. b \/ j < a \/ b < j
    BY <1>2, <1>6, <2>1
  <2> QED
    BY <1>2, <1>6, <2>1, <2>2, <2>3, <2>4, <2>5
<1> QED
  BY <1>2, <1>6, <1>7 DEF a, b

\* The search of EntriesOfLine.
Place(u, tag) == Xml!SelectInSeq(u, LAMBDA t : t.tag = tag)
Chosen(u) ==
    LET i == IF Place(u, "erase") # 0 THEN Place(u, "erase")
             ELSE IF Place(u, "program") # 0 THEN Place(u, "program") ELSE Place(u, "patch")
    IN  IF i = 0 THEN << >> ELSE Xml!EntriesOf(SubSeq(u, i, Len(u)))

LEMMA Searches == ASSUME NEW l PROVE Xml!EntriesOfLine(l) = Chosen(Xml!Uncommented(l))
BY DEF Xml!EntriesOfLine, Chosen, Place

LEMMA PlaceIs ==
    ASSUME NEW T, NEW u \in Seq(T), NEW tag \in {"erase", "program", "patch"}
    PROVE  FirstOf(Place(u, tag), {i \in ElementsIn(u) : u[i].tag = tag})
<1> DEFINE S == {i \in 1 .. Len(u) : u[i].tag = tag}
<1>1. S = {i \in ElementsIn(u) : u[i].tag = tag}
  BY DEF ElementsIn, Xml!IsElement, Xml!Tags
<1>2. S \in SUBSET (Nat \ {0})
  OBVIOUS
<1>3. Place(u, tag) = IF S # {} THEN Xml!Min(S) ELSE 0
  BY DEF Place, Xml!SelectInSeq
<1> HIDE DEF S
<1> QED
  BY <1>1, <1>2, <1>3, FirstIs

LEMMA NoneFound ==
    ASSUME NEW T, NEW u \in Seq(T), ElementsIn(u) = {} PROVE Chosen(u) = << >>
<1>1. \A tag \in {"erase", "program", "patch"} : Place(u, tag) = 0
  BY PlaceIs DEF FirstOf
<1> QED
  BY <1>1 DEF Chosen

LEMMA OneFound ==
    ASSUME NEW T, NEW u \in Seq(T), NEW q, ElementsIn(u) = {q}, Filled(u[q])
    PROVE  Chosen(u) = Xml!EntriesOf(<< u[q] >>)
<1> DEFINE t == u[q]
           v == SubSeq(u, q, Len(u))
<1>1. q \in 1 .. Len(u) /\ Xml!IsElement(t) /\ t \in T
  BY DEF ElementsIn
<1>2. t.tag \in {"erase", "program", "patch"}
  BY <1>1 DEF Xml!IsElement, Xml!Tags
<1>3. \A tag \in {"erase", "program", "patch"} : Place(u, tag) = IF t.tag = tag THEN q ELSE 0
  BY PlaceIs DEF FirstOf
<1>4. Chosen(u) = Xml!EntriesOf(v)
  <2> HIDE DEF v
  <2>1. q # 0
    BY <1>1
  <2>2. CASE t.tag = "erase"
    BY <1>3, <2>1, <2>2 DEF Chosen, v
  <2>3. CASE t.tag = "program"
    BY <1>3, <2>1, <2>3 DEF Chosen, v
  <2>4. CASE t.tag = "patch"
    BY <1>3, <2>1, <2>4 DEF Chosen, v
  <2> QED
    BY <1>2, <2>2, <2>3, <2>4
<1>5. v \in Seq(T) /\ Len(v) = Len(u) - q + 1 /\ \A k \in 1 .. Len(v) : v[k] = u[q + k - 1]
  BY <1>1
<1>6. \A i \in 1 .. Len(u) : Xml!IsElement(u[i]) => i = q
  BY DEF ElementsIn
<1> HIDE DEF v
<1>7. Begins(v, t)
  <2>1. Len(v) >= 1 /\ v[1] = t
    BY <1>1, <1>5
  <2>2. ASSUME NEW k \in 2 .. Len(v) PROVE ~Xml!IsElement(v[k])
    <3>1. v[k] = u[q + k - 1] /\ q + k - 1 \in 1 .. Len(u) /\ q + k - 1 # q
      BY <1>1, <1>5
    <3> QED
      BY <1>6, <3>1
  <2> QED
    BY <1>1, <2>1, <2>2 DEF Begins
<1> HIDE DEF t
<1>8. Xml!EntriesOf(v) = Xml!EntriesOf(<< t >>)
  <2>1. Filled(t)
    BY DEF t
  <2> QED
    BY <1>1, <1>5, <1>7, <2>1, SoleEntries
<1> QED
  BY <1>4, <1>8 DEF t

\* A sequence without its part from a to b.
LeftOf(T, l, a, b, u) ==
    /\ u \in Seq(T)
    /\ Len(u) = (a - 1) + (Len(l) - b)
    /\ \A k \in 1 .. Len(u) : u[k] = IF k < a THEN l[k] ELSE l[k + (b - a) + 1]

LEMMA CutOut ==
    ASSUME NEW T, NEW l \in Seq(T), NEW a \in 1 .. Len(l), NEW b \in 1 .. Len(l), a < b
    PROVE  LeftOf(T, l, a, b, SubSeq(l, 1, a - 1) \o SubSeq(l, b + 1, Len(l)))
<1> DEFINE s == SubSeq(l, 1, a - 1)
           r == SubSeq(l, b + 1, Len(l))
           u == s \o r
<1>1. s \in Seq(T) /\ Len(s) = a - 1 /\ \A k \in 1 .. a - 1 : s[k] = l[k]
  OBVIOUS
<1>2. r \in Seq(T) /\ Len(r) = Len(l) - b /\ \A k \in 1 .. Len(l) - b : r[k] = l[b + k]
  OBVIOUS
<1> HIDE DEF s, r
<1>4. /\ u \in Seq(T) /\ Len(u) = Len(s) + Len(r)
      /\ \A k \in 1 .. Len(s) : u[k] = s[k]
      /\ \A k \in 1 .. Len(r) : u[Len(s) + k] = r[k]
  <2>1. s \in Seq(T) /\ r \in Seq(T)
    BY <1>1, <1>2
  <2>2. /\ s \o r \in Seq(T) /\ Len(s \o r) = Len(s) + Len(r)
    BY <2>1
  <2>3. \A k \in 1 .. Len(s) + Len(r) : (s \o r)[k] = IF k <= Len(s) THEN s[k] ELSE r[k - Len(s)]
    BY <2>1
  <2>4. Len(s) \in Nat /\ Len(r) \in Nat
    BY <2>1
  <2>5. \A k \in 1 .. Len(s) : (s \o r)[k] = s[k]
    BY <2>3, <2>4
  <2>6. ASSUME NEW k \in 1 .. Len(r) PROVE (s \o r)[Len(s) + k] = r[k]
    <3>1. /\ Len(s) + k \in 1 .. Len(s) + Len(r) /\ ~(Len(s) + k <= Len(s))
          /\ (Len(s) + k) - Len(s) = k
      BY <2>4
    <3> QED
      BY <2>3, <3>1
  <2> QED
    BY <2>2, <2>5, <2>6
<1> HIDE DEF u
<1>5. Len(u) = (a - 1) + (Len(l) - b)
  BY <1>1, <1>2, <1>4
<1>6. ASSUME NEW k \in 1 .. Len(u), k < a PROVE u[k] = l[k]
  <2>1. k \in 1 .. a - 1
    BY <1>5, <1>6
  <2> QED
    BY <1>1, <1>4, <2>1
<1>7. ASSUME NEW k \in 1 .. Len(u), ~(k < a) PROVE u[k] = l[k + (b - a) + 1]
  <2>1. PICK m \in 1 .. Len(l) - b : k = Len(s) + m
    <3>1. k - (a - 1) \in 1 .. Len(l) - b /\ k = Len(s) + (k - (a - 1))
      <4>1. Len(s) = a - 1 /\ Len(l) \in Nat
        BY <1>1
      <4> QED
        BY ONLY <4>1, <1>5, <1>7, a \in 1 .. Len(l), b \in 1 .. Len(l)
    <3> QED
      BY <3>1
  <2>2. b + m = k + (b - a) + 1
    BY <1>1, <1>5, <2>1
  <2>3. u[k] = r[m] /\ r[m] = l[b + m]
    BY <1>2, <1>4, <2>1
  <2> QED
    BY <2>2, <2>3
<1>8. LeftOf(T, l, a, b, u)
  BY <1>4, <1>5, <1>6, <1>7 DEF LeftOf
<1> QED
  BY <1>8 DEF u, s, r

\* The stage finds the element that is shown, if there is one, and no other.
LEMMA LineEntries ==
    ASSUME NEW T, NEW l \in Seq(T), Ordered(l), NEW e, ShownIs(l, e),
           \A i \in ElementsIn(l) : Filled(l[i]),
           OpensIn(l) = {} \/ ClosesIn(l) # {}
    PROVE  Xml!EntriesOfLine(l) = IF e = 0 THEN << >> ELSE Xml!EntriesOf(<< l[e] >>)
<1> DEFINE u == Xml!Uncommented(l)
           a == Xml!CommentAt(l)
           b == Xml!CommentEnd(l)
           fe == Xml!FirstElement(l)
<1>0. /\ FirstOf(fe, ElementsIn(l)) /\ (Xml!Has(l, Xml!Opens) <=> OpensIn(l) # {})
  BY Finds
<1>n. \A i \in ElementsIn(l) : i \in 1 .. Len(l) /\ i # 0
  BY DEF ElementsIn
<1>1. CASE OpensIn(l) = {}
  <2>1. u = l
    BY <1>0, <1>1 DEF Xml!Uncommented
  <2>2. ShownIn(l) = ElementsIn(l)
    BY <1>1 DEF ShownIn, OpensIn, ElementsIn
  <2>3. CASE e = 0
    <3>1. ElementsIn(l) = {}
      BY <1>n, <2>2, <2>3 DEF ShownIs
    <3> QED
      BY <2>1, <2>3, <3>1, NoneFound, Searches
  <2>4. CASE e # 0
    <3>1. ElementsIn(l) = {e}
      BY <2>2, <2>4 DEF ShownIs
    <3> QED
      BY <2>1, <2>4, <3>1, OneFound, Searches
  <2> QED
    BY <2>3, <2>4
<1>2. CASE OpensIn(l) # {}
  <2>0. ClosesIn(l) # {}
    BY <1>2
  <2>1. /\ a \in 1 .. Len(l) /\ b \in 1 .. Len(l) /\ a < b
        /\ \A j \in ElementsIn(l) : j \in ShownIn(l) <=> j \notin a .. b
    BY <1>2, <2>0, ShownOutside
  <2>2. u = IF fe = 0 \/ fe \in a .. b THEN << >>
            ELSE SubSeq(l, 1, a - 1) \o SubSeq(l, b + 1, Len(l))
    BY <1>0, <1>2 DEF Xml!Uncommented
  <2> HIDE DEF u, a, b, fe
  <2>3. CASE e = 0
    <3>1. ShownIn(l) = {}
      BY <1>n, <2>3 DEF ShownIs
    <3>2. fe = 0 \/ fe \in a .. b
      BY <1>0, <2>1, <3>1 DEF FirstOf
    <3>3. u = << >> /\ << >> \in Seq(T) /\ ElementsIn(<< >>) = {}
      BY <2>2, <3>2 DEF ElementsIn
    <3> QED
      BY <2>3, <3>3, NoneFound, Searches DEF u
  <2>4. CASE e # 0
    <3>1. e \in ElementsIn(l) /\ ShownIn(l) = {e} /\ e \notin a .. b
      BY <2>1, <2>4 DEF ShownIs
    <3>2. fe = e
      <4>1. fe \in ElementsIn(l) /\ fe <= e /\ e <= fe
        BY <1>0, <3>1 DEF FirstOf, ShownIs
      <4> QED
        BY <1>n, <3>1, <4>1
    <3>3. u = SubSeq(l, 1, a - 1) \o SubSeq(l, b + 1, Len(l))
      BY <2>2, <2>4, <3>1, <3>2
    <3>4. /\ u \in Seq(T)
          /\ Len(u) = (a - 1) + (Len(l) - b)
          /\ \A k \in 1 .. Len(u) : u[k] = IF k < a THEN l[k] ELSE l[k + (b - a) + 1]
      <4>1. LeftOf(T, l, a, b, u)
        BY <2>1, <3>3, CutOut, Zenon
      <4> QED
        BY <4>1, Zenon DEF LeftOf
    <3> DEFINE q == IF e < a THEN e ELSE e - (b - a) - 1
    <3>5. q \in 1 .. Len(u) /\ u[q] = l[e]
      <4>1. CASE e < a
        <5>1. q = e /\ e \in Nat \ {0} /\ Len(u) \in Nat
          BY <1>n, <3>1, <3>4, <4>1
        <5>2. e <= Len(u)
          BY <2>1, <3>4, <4>1, <5>1
        <5>3. e \in 1 .. Len(u)
          BY <5>1, <5>2
        <5> QED
          BY <3>4, <4>1, <5>1, <5>3
      <4>2. CASE ~(e < a)
        <5>1. b < e
          BY <1>n, <2>1, <3>1, <4>2
        <5>2. q \in 1 .. Len(u) /\ ~(q < a) /\ q + (b - a) + 1 = e
          BY <1>n, <2>1, <3>1, <3>4, <4>2, <5>1
        <5> QED
          BY <3>4, <5>2
      <4> QED
        BY <4>1, <4>2
    <3>6. ASSUME NEW k \in 1 .. Len(u), Xml!IsElement(u[k]) PROVE k = q
      <4> DEFINE j == IF k < a THEN k ELSE k + (b - a) + 1
      <4>1. j \in 1 .. Len(l) /\ u[k] = l[j] /\ j \notin a .. b
        BY <2>1, <3>4, <3>6
      <4> HIDE DEF j
      <4>2. j = e
        BY <2>1, <3>1, <3>6, <4>1 DEF ElementsIn
      <4> QED
        BY <2>1, <3>4, <4>2 DEF j
    <3> HIDE DEF q
    <3>7. ElementsIn(u) = {q}
      <4>1. Xml!IsElement(u[q])
        BY <3>1, <3>5 DEF ElementsIn
      <4> QED
        BY <3>5, <3>6, <4>1 DEF ElementsIn
    <3>8. Chosen(u) = Xml!EntriesOf(<< u[q] >>)
      BY <3>1, <3>4, <3>5, <3>7, OneFound
    <3> QED
      BY <2>4, <3>5, <3>8, Searches DEF u
  <2> QED
    BY <2>3, <2>4
<1> QED
  BY <1>1, <1>2
-----------------------------------------------------------------------------
(* Reading from the left: the tokens of a line and the lines of a file, by *)
(* the rules of xml and by those of the stage.                             *)

LEMMA Induction ==
    ASSUME NEW S, 0 \in S, \A n \in Nat : n \in S => n + 1 \in S
    PROVE  Nat \subseteq S
<1> DEFINE T == Nat \ S
<1>1. SUFFICES ASSUME T # {} PROVE FALSE
  OBVIOUS
<1>2. PICK m \in T : \A y \in T : m <= y
  <2>1. T \in SUBSET Nat
    OBVIOUS
  <2> HIDE DEF T
  <2> QED
    BY <1>1, <2>1, MinIs
<1>3. m - 1 \in Nat /\ m - 1 \notin T
  BY <1>2
<1> QED
  BY <1>2, <1>3

Reading(how, f, t) ==
    IF how = "tokens" THEN Xml!Token(f, t)
    ELSE IF how = "lines" THEN Xml!Line(f, t) ELSE Xml!ReadLine(f, t)

Reads(how, from, s, n, g) ==
    g = [k \in 0 .. n |-> IF k = 0 THEN from ELSE Reading(how, g[k - 1], s[k])]

LEMMA ReadsExist == \A how, from, s : \A n \in Nat : \E g : Reads(how, from, s, n, g)
<1> SUFFICES ASSUME NEW how, NEW from, NEW s
             PROVE  \A n \in Nat : \E g : Reads(how, from, s, n, g)
  OBVIOUS
<1> DEFINE G == {n \in Nat : \E g : Reads(how, from, s, n, g)}
<1>1. 0 \in G
  <2>1. Reads(how, from, s, 0, [k \in 0 .. 0 |-> from])
    BY DEF Reads
  <2> QED
    BY <2>1
<1>2. \A n \in Nat : n \in G => n + 1 \in G
  <2> SUFFICES ASSUME NEW n \in Nat, NEW f, Reads(how, from, s, n, f)
               PROVE  \E g : Reads(how, from, s, n + 1, g)
    OBVIOUS
  <2> DEFINE g == [k \in 0 .. n + 1 |-> IF k = n + 1 THEN Reading(how, f[n], s[n + 1]) ELSE f[k]]
  <2>1. f[0] = from /\ \A k \in 1 .. n : f[k] = Reading(how, f[k - 1], s[k])
    BY DEF Reads
  <2>2. ASSUME NEW k \in 0 .. n + 1
        PROVE  g[k] = IF k = 0 THEN from ELSE Reading(how, g[k - 1], s[k])
    <3>1. CASE k = 0
      BY <2>1, <3>1
    <3>2. CASE k \in 1 .. n
      <4>1. g[k] = f[k] /\ g[k - 1] = f[k - 1] /\ k # 0
        BY <3>2
      <4> QED
        BY <2>1, <3>2, <4>1
    <3>3. CASE k = n + 1
      <4>1. g[k] = Reading(how, f[n], s[n + 1]) /\ g[k - 1] = f[n] /\ k # 0
        BY <3>3
      <4> QED
        BY <3>3, <4>1
    <3> QED
      BY <3>1, <3>2, <3>3
  <2>3. g = [k \in 0 .. n + 1 |-> g[k]]
    OBVIOUS
  <2> HIDE DEF g
  <2>4. Reads(how, from, s, n + 1, g)
    BY <2>2, <2>3 DEF Reads
  <2> QED
    BY <2>4
<1>3. Nat \subseteq G
  <2> HIDE DEF G
  <2> QED
    BY <1>1, <1>2, Induction
<1> QED
  BY <1>3

\* One step after the other.
Follows(how, from, s, n, g) ==
    /\ DOMAIN g = 0 .. n
    /\ g[0] = from
    /\ \A k \in 1 .. n : g[k] = Reading(how, g[k - 1], s[k])

LEMMA ReadsSteps ==
    ASSUME NEW how, NEW from, NEW s, NEW n \in Nat, NEW g, Reads(how, from, s, n, g)
    PROVE  Follows(how, from, s, n, g)
BY DEF Reads, Follows

LEMMA TokensOfLine ==
    ASSUME NEW f, NEW l, Len(l) \in Nat
    PROVE  \E g : Follows("tokens", f, l, Len(l), g) /\ Xml!Line(f, l) = g[Len(l)]
<1> DEFINE n == Len(l)
           g == CHOOSE r : r = [i \in 0 .. n |-> IF i = 0 THEN f ELSE Xml!Token(r[i - 1], l[i])]
<1>1. \A r : Reads("tokens", f, l, n, r) <=>
             r = [i \in 0 .. n |-> IF i = 0 THEN f ELSE Xml!Token(r[i - 1], l[i])]
  BY Zenon DEF Reads, Reading
<1>2. \E r : r = [i \in 0 .. n |-> IF i = 0 THEN f ELSE Xml!Token(r[i - 1], l[i])]
  BY <1>1, ReadsExist
<1>3. g = [i \in 0 .. n |-> IF i = 0 THEN f ELSE Xml!Token(g[i - 1], l[i])]
  <2> HIDE DEF n
  <2> QED
    BY <1>2, Zenon
<1>4. Xml!Line(f, l) = g[n]
  BY Zenon DEF Xml!Line
<1> HIDE DEF g
<1>5. Follows("tokens", f, l, n, g)
  BY <1>1, <1>3, ReadsSteps
<1> QED
  BY <1>4, <1>5, Zenon

LEMMA LinesMeant ==
    ASSUME NEW file, Len(file) \in Nat
    PROVE  Follows("lines", [inside |-> FALSE, table |-> << >>], file, Len(file), Xml!Meaning(file))
<1> DEFINE n == Len(file)
           f == [inside |-> FALSE, table |-> << >>]
           g == CHOOSE r : r = [k \in 0 .. n |-> IF k = 0 THEN f ELSE Xml!Line(r[k - 1], file[k])]
<1>1. \A r : Reads("lines", f, file, n, r) <=>
             r = [k \in 0 .. n |-> IF k = 0 THEN f ELSE Xml!Line(r[k - 1], file[k])]
  <2> HIDE DEF f
  <2> QED
    BY DEF Reads, Reading
<1>2. \E r : r = [k \in 0 .. n |-> IF k = 0 THEN f ELSE Xml!Line(r[k - 1], file[k])]
  BY <1>1, ReadsExist
<1>3. g = [k \in 0 .. n |-> IF k = 0 THEN f ELSE Xml!Line(g[k - 1], file[k])]
  <2> HIDE DEF n, f
  <2> QED
    BY <1>2, Zenon
<1>4. Xml!Meaning(file) = g
  BY Zenon DEF Xml!Meaning
<1> HIDE DEF g
<1>5. Follows("lines", f, file, n, g)
  BY <1>1, <1>3, ReadsSteps
<1> QED
  BY <1>4, <1>5

LEMMA LinesRead ==
    ASSUME NEW file, Len(file) \in Nat
    PROVE  \E g : /\ Follows("stage", [skip |-> FALSE, table |-> << >>], file, Len(file), g)
                  /\ Xml!ParsedFile(file) = g[Len(file)].table
<1> DEFINE n == Len(file)
           f == [skip |-> FALSE, table |-> << >>]
           g == CHOOSE r : r = [k \in 0 .. n |->
                                   IF k = 0 THEN f ELSE Xml!ReadLine(r[k - 1], file[k])]
<1>1. \A r : Reads("stage", f, file, n, r) <=>
             r = [k \in 0 .. n |-> IF k = 0 THEN f ELSE Xml!ReadLine(r[k - 1], file[k])]
  <2> HIDE DEF f
  <2> QED
    BY DEF Reads, Reading
<1>2. \E r : r = [k \in 0 .. n |-> IF k = 0 THEN f ELSE Xml!ReadLine(r[k - 1], file[k])]
  BY <1>1, ReadsExist
<1>3. g = [k \in 0 .. n |-> IF k = 0 THEN f ELSE Xml!ReadLine(g[k - 1], file[k])]
  <2> HIDE DEF n, f
  <2> QED
    BY <1>2, Zenon
<1>4. Xml!ParsedFile(file) = g[n].table
  BY Zenon DEF Xml!ParsedFile
<1> HIDE DEF g
<1>5. Follows("stage", f, file, n, g)
  BY <1>1, <1>3, ReadsSteps
<1> QED
  BY <1>4, <1>5
-----------------------------------------------------------------------------
(* One line.                                                               *)

\* What is known by the rules of xml, and by the stage.
St(b, s) == [inside |-> b, table |-> s]
Sk(b, s) == [skip |-> b, table |-> s]

AsSeq(s) == \E V : s \in Seq(V)

LEMMA Extended ==
    ASSUME NEW s, NEW r, AsSeq(s), AsSeq(r)
    PROVE  AsSeq(s \o r) /\ s \o << >> = s
<1>1. PICK V : s \in Seq(V)
  BY DEF AsSeq
<1>2. PICK W : r \in Seq(W)
  BY DEF AsSeq
<1>3. s \in Seq(V \cup W) /\ r \in Seq(V \cup W)
  BY <1>1, <1>2
<1>4. s \o r \in Seq(V \cup W)
  BY <1>3
<1>5. s \o << >> = s
  BY <1>1
<1> QED
  BY <1>4, <1>5 DEF AsSeq

LEMMA Single == ASSUME NEW e PROVE AsSeq(<< e >>) /\ AsSeq(<< >>)
<1>1. << e >> \in Seq({e}) /\ << >> \in Seq({e})
  OBVIOUS
<1> QED
  BY <1>1 DEF AsSeq

LEMMA EntriesAre == ASSUME NEW t, Xml!IsElement(t) PROVE AsSeq(Xml!EntriesOf(<< t >>))
<1> DEFINE w == << t >>
<1>1. w[1].tag \in {"erase", "program", "patch"}
  BY DEF Xml!IsElement, Xml!Tags
<1> SUFFICES AsSeq(Xml!EntriesOf(w))
  OBVIOUS
<1> HIDE DEF w
<1>2. CASE Xml!Holder(w, "vendor") # 0
  BY <1>2, VendorEntry, Single
<1>3. CASE Xml!Holder(w, "vendor") = 0 /\ w[1].tag = "erase"
  BY <1>3, EraseEntry, Single
<1>4. CASE Xml!Holder(w, "vendor") = 0 /\ w[1].tag = "program"
  <2>1. CASE Xml!Value(w, "filename") = ""
    BY <1>4, <2>1, ProgramEntry, Single
  <2>2. CASE Xml!Value(w, "filename") # ""
    <3> DEFINE r == [type |-> "program", start |-> Xml!Number(w, "start_sector"),
                     num |-> Xml!ImageSectors(Xml!Value(w, "filename"),
                                              Xml!Value(w, "SECTOR_SIZE_IN_BYTES")),
                     sized |-> Xml!Sized(w)]
    <3>1. Xml!EntriesOf(w) = << r >>
      BY <1>4, <2>2, ProgramEntry, Zenon
    <3> HIDE DEF r
    <3> QED
      BY <3>1, Single
  <2> QED
    BY <2>1, <2>2
<1>5. CASE Xml!Holder(w, "vendor") = 0 /\ w[1].tag = "patch"
  BY <1>5, PatchEntry, Single
<1> QED
  BY <1>1, <1>2, <1>3, <1>4, <1>5

LEMMA Fields ==
    \A b, s : /\ St(b, s).inside = b /\ St(b, s).table = s
              /\ Sk(b, s).skip = b /\ Sk(b, s).table = s
BY DEF St, Sk

Turns(b, s, c, r) ==
    /\ [St(b, s) EXCEPT !.inside = c] = St(c, s)
    /\ [St(b, s) EXCEPT !.table = @ \o r] = St(b, s \o r)
    /\ [Sk(b, s) EXCEPT !.skip = c] = Sk(c, s)
    /\ [Sk(b, s) EXCEPT !.table = @ \o r] = Sk(b, s \o r)

LEMMA Turned == \A b, s, c, r : Turns(b, s, c, r)
<1> TAKE b, s, c, r
<1>1. ASSUME NEW f \in [inside : {b}, table : {s}], NEW d
      PROVE  /\ [f EXCEPT !.inside = d] = [inside |-> d, table |-> f.table]
             /\ [f EXCEPT !.table = d] = [inside |-> f.inside, table |-> d]
  OBVIOUS
<1>2. ASSUME NEW f \in [skip : {b}, table : {s}], NEW d
      PROVE  /\ [f EXCEPT !.skip = d] = [skip |-> d, table |-> f.table]
             /\ [f EXCEPT !.table = d] = [skip |-> f.skip, table |-> d]
  OBVIOUS
<1>3. /\ St(b, s) \in [inside : {b}, table : {s}] /\ St(b, s).inside = b /\ St(b, s).table = s
      /\ Sk(b, s) \in [skip : {b}, table : {s}] /\ Sk(b, s).skip = b /\ Sk(b, s).table = s
  BY DEF St, Sk
<1>4. /\ [St(b, s) EXCEPT !.inside = c] = [inside |-> c, table |-> s]
      /\ [St(b, s) EXCEPT !.table = s \o r] = [inside |-> b, table |-> s \o r]
      /\ [Sk(b, s) EXCEPT !.skip = c] = [skip |-> c, table |-> s]
      /\ [Sk(b, s) EXCEPT !.table = s \o r] = [skip |-> b, table |-> s \o r]
  <2>1. /\ [St(b, s) EXCEPT !.inside = c] = [inside |-> c, table |-> St(b, s).table]
        /\ [St(b, s) EXCEPT !.table = s \o r] = [inside |-> St(b, s).inside, table |-> s \o r]
    BY <1>1, <1>3, Zenon
  <2>2. /\ [Sk(b, s) EXCEPT !.skip = c] = [skip |-> c, table |-> Sk(b, s).table]
        /\ [Sk(b, s) EXCEPT !.table = s \o r] = [skip |-> Sk(b, s).skip, table |-> s \o r]
    BY <1>2, <1>3, Zenon
  <2> QED
    BY <1>3, <2>1, <2>2, Zenon
<1>5. /\ [St(b, s) EXCEPT !.table = @ \o r] = [St(b, s) EXCEPT !.table = s \o r]
      /\ [Sk(b, s) EXCEPT !.table = @ \o r] = [Sk(b, s) EXCEPT !.table = s \o r]
  BY <1>3
<1> QED
  BY <1>4, <1>5, Zenon DEF Turns, St, Sk

LEMMA TokenRead ==
    ASSUME NEW b \in BOOLEAN, NEW s, NEW t
    PROVE  /\ Xml!Opens(t) => Xml!Token(St(b, s), t) = St(TRUE, s)
           /\ Xml!Closes(t) => Xml!Token(St(b, s), t) = St(FALSE, s)
           /\ ~Xml!Opens(t) /\ ~Xml!Closes(t) /\ (~Xml!IsElement(t) \/ b) =>
                 Xml!Token(St(b, s), t) = St(b, s)
           /\ Xml!IsElement(t) /\ ~b =>
                 Xml!Token(St(b, s), t) = St(b, s \o Xml!EntriesOf(<< t >>))
<1> DEFINE r == Xml!EntriesOf(<< t >>)
<1>0. Xml!Token(St(b, s), t) =
         CASE Xml!Opens(t) -> [St(b, s) EXCEPT !.inside = TRUE]
           [] Xml!Closes(t) -> [St(b, s) EXCEPT !.inside = FALSE]
           [] Xml!IsElement(t) /\ ~b -> St(b, s \o r)
           [] OTHER -> St(b, s)
  <2> HIDE DEF r
  <2>0. St(b, s).inside = b
    BY Zenon DEF St
  <2>1. [St(b, s) EXCEPT !.table = @ \o r] = St(b, s \o r)
    <3>1. Turns(b, s, b, r)
      BY Turned, Zenon
    <3> QED
      BY <3>1, Zenon DEF Turns
  <2>2. Xml!Token(St(b, s), t) =
         CASE Xml!Opens(t) -> [St(b, s) EXCEPT !.inside = TRUE]
           [] Xml!Closes(t) -> [St(b, s) EXCEPT !.inside = FALSE]
           [] Xml!IsElement(t) /\ ~St(b, s).inside -> [St(b, s) EXCEPT !.table = @ \o r]
           [] OTHER -> St(b, s)
    BY Zenon DEF Xml!Token, r
  <2> QED
    BY <2>0, <2>1, <2>2, Zenon
<1> HIDE DEF r
<1>1. [St(b, s) EXCEPT !.inside = TRUE] = St(TRUE, s) /\ [St(b, s) EXCEPT !.inside = FALSE] = St(FALSE, s)
  <2>1. Turns(b, s, TRUE, s) /\ Turns(b, s, FALSE, s)
    BY Turned, Zenon
  <2> QED
    BY <2>1, Zenon DEF Turns
<1>2. /\ Xml!Opens(t) => ~Xml!Closes(t) /\ ~Xml!IsElement(t)
      /\ Xml!Closes(t) => ~Xml!IsElement(t)
  BY DEF Xml!Opens, Xml!Closes, Xml!IsElement, Xml!Tags
<1>3. /\ Xml!Opens(t) => Xml!Token(St(b, s), t) = St(TRUE, s)
      /\ Xml!Closes(t) => Xml!Token(St(b, s), t) = St(FALSE, s)
      /\ ~Xml!Opens(t) /\ ~Xml!Closes(t) /\ (~Xml!IsElement(t) \/ b) =>
            Xml!Token(St(b, s), t) = St(b, s)
      /\ Xml!IsElement(t) /\ ~b => Xml!Token(St(b, s), t) = St(b, s \o r)
  BY <1>0, <1>1, <1>2
<1> QED
  BY <1>3 DEF r

\* The place is in a comment that began in the line.
Within(l, i) ==
    (\E o \in 1 .. i : Xml!Opens(l[o])) /\ \A c \in 1 .. i : ~Xml!Closes(l[c])

LEMMA ShownNot ==
    ASSUME NEW T, NEW l \in Seq(T), Ordered(l), NEW i \in ElementsIn(l)
    PROVE  i \in ShownIn(l) <=> ~Within(l, i - 1)
<1>1. i \in 1 .. Len(l) /\ ~Xml!Opens(l[i]) /\ ~Xml!Closes(l[i])
  BY Apart DEF ElementsIn
<1>2. ASSUME i \in ShownIn(l), Within(l, i - 1) PROVE FALSE
  <2>1. PICK o \in 1 .. i - 1 : Xml!Opens(l[o])
    BY <1>2 DEF Within
  <2>2. PICK c \in o .. i : Xml!Closes(l[c])
    BY <1>1, <1>2, <2>1 DEF ShownIn
  <2>3. c \in 1 .. i - 1
    BY <1>1, <2>1, <2>2
  <2> QED
    BY <1>2, <2>2, <2>3 DEF Within
<1>3. ASSUME ~Within(l, i - 1) PROVE i \in ShownIn(l)
  <2>1. ASSUME NEW o \in 1 .. i, Xml!Opens(l[o]) PROVE \E c \in o .. i : Xml!Closes(l[c])
    <3>1. o \in 1 .. i - 1
      BY <1>1, <2>1
    <3>2. PICK c \in 1 .. i - 1 : Xml!Closes(l[c])
      BY <1>3, <2>1, <3>1 DEF Within
    <3>3. o \in OpensIn(l) /\ c \in ClosesIn(l)
      BY <1>1, <2>1, <3>1, <3>2 DEF OpensIn, ClosesIn
    <3>4. c \in o .. i
      BY <1>1, <3>1, <3>2, <3>3 DEF Ordered
    <3> QED
      BY <3>2, <3>4
  <2> QED
    BY <2>1 DEF ShownIn
<1> QED
  BY <1>2, <1>3

LEMMA LineOutside ==
    ASSUME NEW T, NEW l \in Seq(T), Ordered(l), NEW e, ShownIs(l, e), NEW s
    PROVE  Xml!Line(St(FALSE, s), l) =
              St(IF OpensIn(l) # {} /\ ClosesIn(l) = {} THEN TRUE ELSE FALSE,
                 IF e = 0 THEN s ELSE s \o Xml!EntriesOf(<< l[e] >>))
<1> DEFINE n == Len(l)
           Tb(i) == IF e # 0 /\ e <= i THEN s \o Xml!EntriesOf(<< l[e] >>) ELSE s
<1>1. PICK g : Follows("tokens", St(FALSE, s), l, n, g) /\ Xml!Line(St(FALSE, s), l) = g[n]
  <2>1. Len(l) \in Nat
    OBVIOUS
  <2> QED
    BY <2>1, TokensOfLine, Zenon
<1>2. g[0] = St(FALSE, s) /\ \A i \in 1 .. n : g[i] = Xml!Token(g[i - 1], l[i])
  BY <1>1 DEF Follows, Reading
<1>e. n \in Nat /\ e \in Nat
  BY DEF ShownIs, ElementsIn
<1> DEFINE K(i) == \/ Within(l, i) /\ g[i] = St(TRUE, Tb(i))
                   \/ ~Within(l, i) /\ g[i] = St(FALSE, Tb(i))
           G == {i \in Nat : i <= n => K(i)}
<1>3. K(0)
  <2>1. ~Within(l, 0) /\ Tb(0) = s
    BY <1>e DEF Within
  <2> HIDE DEF Tb
  <2> QED
    BY <1>2, <2>1, Zenon
<1>4. ASSUME NEW i \in Nat, i <= n => K(i), i + 1 <= n PROVE K(i + 1)
  <2>1. i + 1 \in 1 .. n /\ i <= n /\ (i + 1) - 1 = i
    BY <1>e, <1>4
  <2>k. K(i)
    BY <1>4, <2>1, Zenon
  <2>2. g[i + 1] = Xml!Token(g[i], l[i + 1])
    BY <1>2, <2>1
  <2> DEFINE t == l[i + 1]
  <2>3. CASE Xml!Opens(t)
    <3>1. ~Xml!Closes(t) /\ ~Xml!IsElement(t)
      BY <2>3 DEF Xml!Opens, Xml!Closes, Xml!IsElement, Xml!Tags
    <3>2. Tb(i + 1) = Tb(i)
      <4>1. e # i + 1
        BY <1>e, <2>1, <3>1 DEF ShownIs, ElementsIn
      <4> QED
        BY <1>e, <4>1
    <3>3. Within(l, i + 1)
      <4>1. ASSUME NEW c \in 1 .. i + 1, Xml!Closes(l[c]) PROVE FALSE
        <5>1. c \in ClosesIn(l) /\ i + 1 \in OpensIn(l)
          BY <1>e, <2>1, <2>3, <4>1 DEF ClosesIn, OpensIn
        <5> QED
          BY <4>1, <5>1 DEF Ordered
      <4>2. i + 1 \in 1 .. i + 1
        OBVIOUS
      <4> QED
        BY <2>3, <4>1, <4>2 DEF Within
    <3> HIDE DEF Tb
    <3>4. g[i + 1] = St(TRUE, Tb(i))
      BY <2>1, <2>k, <2>2, <2>3, TokenRead
    <3> QED
      BY <3>2, <3>3, <3>4
  <2>4. CASE Xml!Closes(t)
    <3>1. ~Xml!IsElement(t)
      BY <2>4 DEF Xml!Closes, Xml!IsElement, Xml!Tags
    <3>2. Tb(i + 1) = Tb(i)
      <4>1. e # i + 1
        BY <1>e, <2>1, <3>1 DEF ShownIs, ElementsIn
      <4> QED
        BY <1>e, <4>1
    <3>3. ~Within(l, i + 1)
      <4>1. i + 1 \in 1 .. i + 1
        OBVIOUS
      <4> QED
        BY <2>4, <4>1 DEF Within
    <3> HIDE DEF Tb
    <3>4. g[i + 1] = St(FALSE, Tb(i))
      BY <2>1, <2>k, <2>2, <2>4, TokenRead
    <3> QED
      BY <3>2, <3>3, <3>4
  <2>5. CASE ~Xml!Opens(t) /\ ~Xml!Closes(t)
    <3>1. Within(l, i + 1) <=> Within(l, i)
      <4>1. \A c \in 1 .. i + 1 : c \in 1 .. i \/ c = i + 1
        OBVIOUS
      <4>2. \A c \in 1 .. i : c \in 1 .. i + 1
        OBVIOUS
      <4> QED
        BY <2>5, <4>1, <4>2, Zenon DEF Within
    <3>2. CASE ~Xml!IsElement(t) \/ Within(l, i)
      <4>1. Tb(i + 1) = Tb(i)
        <5>1. ASSUME e = i + 1 PROVE FALSE
          <6>1. e \in ElementsIn(l) /\ e \in ShownIn(l)
            BY <1>e, <5>1 DEF ShownIs
          <6>2. Xml!IsElement(t)
            BY <5>1, <6>1 DEF ElementsIn
          <6>3. ~Within(l, i)
            BY <2>1, <5>1, <6>1, ShownNot
          <6> QED
            BY <3>2, <6>2, <6>3
        <5> QED
          BY <1>e, <5>1
      <4> HIDE DEF Tb, t
      <4>2. g[i + 1] = g[i]
        <5>1. CASE Within(l, i)
          BY <2>1, <2>k, <2>2, <2>5, <5>1, TokenRead DEF t
        <5>2. CASE ~Within(l, i)
          BY <2>1, <2>k, <2>2, <2>5, <3>2, <5>2, TokenRead DEF t
        <5> QED
          BY <5>1, <5>2
      <4> QED
        BY <2>k, <3>1, <4>1, <4>2
    <3>3. CASE Xml!IsElement(t) /\ ~Within(l, i)
      <4>1. i + 1 \in ElementsIn(l)
        BY <2>1, <3>3 DEF ElementsIn
      <4>2. e = i + 1
        <5>1. i + 1 \in ShownIn(l)
          BY <2>1, <3>3, <4>1, ShownNot
        <5> QED
          BY <5>1 DEF ShownIs
      <4>3. Tb(i) = s /\ Tb(i + 1) = s \o Xml!EntriesOf(<< t >>)
        BY <1>e, <4>2
      <4> HIDE DEF Tb, t
      <4>4. g[i] = St(FALSE, s)
        BY <2>k, <3>3, <4>3
      <4>5. g[i + 1] = St(FALSE, s \o Xml!EntriesOf(<< t >>))
        BY <2>2, <3>3, <4>4, TokenRead DEF t
      <4> QED
        BY <3>1, <3>3, <4>3, <4>5
    <3> QED
      BY <3>2, <3>3
  <2> QED
    BY <2>3, <2>4, <2>5
<1>5. K(n)
  <2> HIDE DEF K
  <2>0. 0 \in G
    BY <1>3
  <2>1. \A i \in Nat : i \in G => i + 1 \in G
    BY <1>4
  <2> HIDE DEF G
  <2>2. n \in G
    BY <1>e, <2>0, <2>1, Induction
  <2> QED
    BY <1>e, <2>2 DEF G
<1>6. Within(l, n) <=> OpensIn(l) # {} /\ ClosesIn(l) = {}
  BY DEF Within, OpensIn, ClosesIn
<1>7. Tb(n) = IF e = 0 THEN s ELSE s \o Xml!EntriesOf(<< l[e] >>)
  <2>1. e <= n
    BY <1>e DEF ShownIs, ElementsIn
  <2> QED
    BY <1>e, <2>1
<1> HIDE DEF Tb
<1> QED
  BY <1>1, <1>5, <1>6, <1>7

LEMMA LineInside ==
    ASSUME NEW T, NEW l \in Seq(T), OpensIn(l) = {}, NEW s,
           \A i \in ElementsIn(l) : \A c \in ClosesIn(l) : i < c
    PROVE  Xml!Line(St(TRUE, s), l) = St(IF ClosesIn(l) = {} THEN TRUE ELSE FALSE, s)
<1> DEFINE n == Len(l)
<1>1. PICK g : Follows("tokens", St(TRUE, s), l, n, g) /\ Xml!Line(St(TRUE, s), l) = g[n]
  <2>1. Len(l) \in Nat
    OBVIOUS
  <2> QED
    BY <2>1, TokensOfLine, Zenon
<1>2. g[0] = St(TRUE, s) /\ \A i \in 1 .. n : g[i] = Xml!Token(g[i - 1], l[i])
  BY <1>1 DEF Follows, Reading
<1>e. n \in Nat
  OBVIOUS
<1> DEFINE Over(i) == \E c \in 1 .. i : Xml!Closes(l[c])
           K(i) == (~Over(i) /\ g[i] = St(TRUE, s)) \/ (Over(i) /\ g[i] = St(FALSE, s))
           G == {i \in Nat : i <= n => K(i)}
<1>3. K(0)
  <2>1. ~Over(0)
    OBVIOUS
  <2> HIDE DEF Over
  <2> QED
    BY <1>2, <2>1, Zenon
<1>4. ASSUME NEW i \in Nat, i <= n => K(i), i + 1 <= n PROVE K(i + 1)
  <2>1. i + 1 \in 1 .. n /\ i <= n /\ (i + 1) - 1 = i
    BY <1>e, <1>4
  <2>k. K(i)
    BY <1>4, <2>1, Zenon
  <2>2. g[i + 1] = Xml!Token(g[i], l[i + 1])
    BY <1>2, <2>1
  <2> DEFINE t == l[i + 1]
  <2>3. ~Xml!Opens(t)
    BY <2>1 DEF OpensIn
  <2>4. CASE Xml!Closes(t)
    <3>1. g[i + 1] = St(FALSE, s)
      <4>1. CASE g[i] = St(TRUE, s)
        BY <2>2, <2>4, <4>1, TokenRead
      <4>2. CASE g[i] = St(FALSE, s)
        BY <2>2, <2>4, <4>2, TokenRead
      <4> QED
        BY <2>k, <4>1, <4>2
    <3>2. i + 1 \in 1 .. i + 1
      OBVIOUS
    <3>3. Over(i + 1)
      BY <2>4, <3>2
    <3> QED
      BY <3>1, <3>3
  <2>5. CASE ~Xml!Closes(t)
    <3>1. Over(i + 1) <=> Over(i)
      <4>1. \A c \in 1 .. i + 1 : c \in 1 .. i \/ c = i + 1
        OBVIOUS
      <4>2. \A c \in 1 .. i : c \in 1 .. i + 1
        OBVIOUS
      <4> QED
        BY <2>5, <4>1, <4>2, Zenon
    <3>2. Xml!IsElement(t) => ~Over(i)
      <4> SUFFICES ASSUME Xml!IsElement(t), NEW c \in 1 .. i, Xml!Closes(l[c]) PROVE FALSE
        OBVIOUS
      <4>1. i + 1 \in ElementsIn(l) /\ c \in ClosesIn(l)
        BY <1>e, <2>1 DEF ElementsIn, ClosesIn
      <4>2. i + 1 < c
        BY <4>1
      <4> QED
        BY <4>2
    <3> HIDE DEF Over, t
    <3>3. g[i + 1] = g[i]
      <4>1. CASE ~Over(i)
        BY <2>1, <2>k, <2>2, <2>3, <2>5, <4>1, TokenRead DEF t
      <4>2. CASE Over(i)
        BY <2>1, <2>k, <2>2, <2>3, <2>5, <3>2, <4>2, TokenRead DEF t
      <4> QED
        BY <4>1, <4>2
    <3> QED
      BY <2>k, <3>1, <3>3
  <2> QED
    BY <2>4, <2>5
<1>5. K(n)
  <2> HIDE DEF K
  <2>0. 0 \in G
    BY <1>3
  <2>1. \A i \in Nat : i \in G => i + 1 \in G
    BY <1>4
  <2> HIDE DEF G
  <2>2. n \in G
    BY <1>e, <2>0, <2>1, Induction
  <2> QED
    BY <1>e, <2>2 DEF G
<1>6. Over(n) <=> ClosesIn(l) # {}
  BY DEF ClosesIn
<1> HIDE DEF Over
<1> QED
  BY <1>1, <1>5, <1>6
\* The stage, line by line: a line passed over, one that opens a comment, one read.
LEMMA LineRead ==
    ASSUME NEW T, NEW l \in Seq(T), NEW s
    PROVE  /\ OpensIn(l) = {} => Xml!ReadLine(Sk(TRUE, s), l) = Sk(FALSE, s)
           /\ OpensIn(l) # {} /\ Xml!CommentEnd(l) = 0 =>
                 Xml!ReadLine(Sk(FALSE, s), l) = Sk(TRUE, s)
           /\ ~(OpensIn(l) # {} /\ Xml!CommentEnd(l) = 0) =>
                 Xml!ReadLine(Sk(FALSE, s), l) = Sk(FALSE, s \o Xml!EntriesOfLine(l))
<1> DEFINE r == Xml!EntriesOfLine(l)
<1>1. Xml!Has(l, Xml!Opens) <=> OpensIn(l) # {}
  BY Finds
<1>2. Sk(TRUE, s).skip /\ ~Sk(FALSE, s).skip
  BY Zenon DEF Sk
<1> HIDE DEF r
<1>3. /\ [Sk(TRUE, s) EXCEPT !.skip = FALSE] = Sk(FALSE, s)
      /\ [Sk(FALSE, s) EXCEPT !.skip = TRUE] = Sk(TRUE, s)
      /\ [Sk(FALSE, s) EXCEPT !.table = @ \o r] = Sk(FALSE, s \o r)
  <2>1. Turns(TRUE, s, FALSE, r) /\ Turns(FALSE, s, TRUE, r)
    BY Turned, Zenon
  <2> QED
    BY <2>1, Zenon DEF Turns
<1>4. ASSUME OpensIn(l) = {} PROVE Xml!ReadLine(Sk(TRUE, s), l) = Sk(FALSE, s)
  <2>1. (Xml!Has(l, Xml!Opens) /\ ~Xml!Has(l, Xml!Closes)) = FALSE
    BY <1>1, <1>4
  <2>2. Xml!ReadLine(Sk(TRUE, s), l) =
           [Sk(TRUE, s) EXCEPT !.skip = Xml!Has(l, Xml!Opens) /\ ~Xml!Has(l, Xml!Closes)]
    BY <1>2, Zenon DEF Xml!ReadLine
  <2> QED
    BY <1>3, <2>1, <2>2, Zenon
<1>5. ASSUME OpensIn(l) # {}, Xml!CommentEnd(l) = 0
      PROVE  Xml!ReadLine(Sk(FALSE, s), l) = Sk(TRUE, s)
  <2>1. Xml!Has(l, Xml!Opens)
    BY <1>1, <1>5
  <2> QED
    BY <1>2, <1>3, <1>5, <2>1, Zenon DEF Xml!ReadLine
<1>6. ASSUME ~(OpensIn(l) # {} /\ Xml!CommentEnd(l) = 0)
      PROVE  Xml!ReadLine(Sk(FALSE, s), l) = Sk(FALSE, s \o r)
  <2>1. ~(Xml!Has(l, Xml!Opens) /\ Xml!CommentEnd(l) = 0)
    BY <1>1, <1>6
  <2>2. Xml!ReadLine(Sk(FALSE, s), l) = [Sk(FALSE, s) EXCEPT !.table = @ \o r]
    BY <1>2, <2>1, Zenon DEF Xml!ReadLine, r
  <2> QED
    BY <1>3, <2>2, Zenon
<1> QED
  BY <1>4, <1>5, <1>6 DEF r

\* What is known behind a line, on both sides, when neither has lost the other.
Agree(m, h, l) ==
    \E s : /\ AsSeq(s)
           /\ \/ m = St(FALSE, s) /\ h = Sk(FALSE, s)
              \/ m = St(TRUE, s) /\ OpensIn(l) # {} /\ h = Sk(TRUE, s)
              \/ m = St(TRUE, s) /\ OpensIn(l) = {} /\ h = Sk(FALSE, s)

LEMMA AgreeOutside ==
    ASSUME NEW T, NEW l \in Seq(T), Ordered(l), Xml!ShowsFirst(l), NEW s, AsSeq(s),
           \A i \in ElementsIn(l) : Filled(l[i])
    PROVE  Agree(Xml!Line(St(FALSE, s), l), Xml!ReadLine(Sk(FALSE, s), l), l)
<1>1. /\ Xml!Has(l, Xml!Opens) <=> OpensIn(l) # {}
      /\ Xml!Has(l, Xml!Closes) <=> ClosesIn(l) # {}
      /\ Xml!Elements(l) = ElementsIn(l)
      /\ FirstOf(Xml!CommentAt(l), OpensIn(l))
  BY Finds
<1>2. Xml!Shown(l) = ShownIn(l)
  BY <1>1, Zenon DEF Xml!Shown, ShownIn
<1>3. /\ \A i \in ShownIn(l) : \A j \in ElementsIn(l) : i <= j
      /\ OpensIn(l) # {} /\ ClosesIn(l) = {} => ShownIn(l) = {}
  BY <1>1, <1>2, Zenon DEF Xml!ShowsFirst
<1>4. PICK e : ShownIs(l, e)
  <2>1. CASE ShownIn(l) = {}
    <3>1. ShownIs(l, 0)
      BY <2>1 DEF ShownIs, ElementsIn
    <3> QED
      BY <3>1
  <2>2. CASE ShownIn(l) # {}
    <3>1. PICK e \in ShownIn(l) : TRUE
      BY <2>2
    <3>2. ShownIn(l) \subseteq ElementsIn(l) /\ ElementsIn(l) \subseteq Nat
      BY DEF ShownIn, ElementsIn
    <3>3. ASSUME NEW i \in ShownIn(l) PROVE i = e
      <4>1. i <= e /\ e <= i
        BY <1>3, <3>1, <3>2
      <4> QED
        BY <3>1, <3>2, <4>1
    <3>4. ShownIs(l, e)
      BY <1>3, <3>1, <3>2, <3>3 DEF ShownIs
    <3> QED
      BY <3>4
  <2> QED
    BY <2>1, <2>2
<1> DEFINE t == IF e = 0 THEN s ELSE s \o Xml!EntriesOf(<< l[e] >>)
<1>5. AsSeq(t)
  <2>1. CASE e = 0
    BY <2>1
  <2>2. CASE e # 0
    <3>1. Xml!IsElement(l[e])
      BY <1>4, <2>2 DEF ShownIs, ElementsIn
    <3> QED
      BY <2>2, <3>1, EntriesAre, Extended
  <2> QED
    BY <2>1, <2>2
<1>6. Xml!Line(St(FALSE, s), l) = St(IF OpensIn(l) # {} /\ ClosesIn(l) = {} THEN TRUE ELSE FALSE, t)
  BY <1>4, LineOutside, Zenon
<1>7. CASE OpensIn(l) # {} /\ ClosesIn(l) = {}
  <2>1. ShownIn(l) = {} /\ e = 0
    BY <1>3, <1>4, <1>7 DEF ShownIs
  <2>2. t = s
    BY <2>1
  <2>3. Xml!CommentAt(l) \in Nat \ {0}
    BY <1>1, <1>7 DEF FirstOf, OpensIn
  <2>4. FirstOf(Xml!CommentEnd(l), {i \in ClosesIn(l) : Xml!CommentAt(l) <= i})
    BY <2>3, EndFound
  <2>5. Xml!CommentEnd(l) = 0
    BY <1>7, <2>4 DEF FirstOf
  <2>6. Xml!ReadLine(Sk(FALSE, s), l) = Sk(TRUE, s)
    BY <1>7, <2>5, LineRead
  <2>7. Xml!Line(St(FALSE, s), l) = St(TRUE, s)
    BY <1>6, <1>7, <2>2, Zenon
  <2> QED
    BY <1>7, <2>6, <2>7, Zenon DEF Agree
<1>8. CASE ~(OpensIn(l) # {} /\ ClosesIn(l) = {})
  <2>1. ~(OpensIn(l) # {} /\ Xml!CommentEnd(l) = 0)
    BY <1>8, ShownOutside
  <2>2. Xml!ReadLine(Sk(FALSE, s), l) = Sk(FALSE, s \o Xml!EntriesOfLine(l))
    BY <2>1, LineRead
  <2>3. Xml!EntriesOfLine(l) = IF e = 0 THEN << >> ELSE Xml!EntriesOf(<< l[e] >>)
    BY <1>4, <1>8, LineEntries
  <2>4. s \o << >> = s
    BY Extended
  <2>5. s \o Xml!EntriesOfLine(l) = t
    BY <2>3, <2>4
  <2> HIDE DEF t
  <2>6. Xml!Line(St(FALSE, s), l) = St(FALSE, t)
    BY <1>6, <1>8, Zenon
  <2> QED
    BY <1>5, <2>2, <2>5, <2>6, Zenon DEF Agree
<1> QED
  BY <1>7, <1>8

LEMMA AgreeInside ==
    ASSUME NEW T, NEW l \in Seq(T), NEW first \in BOOLEAN, Xml!HidesAll(l, first), NEW s, AsSeq(s),
           NEW h, \/ first /\ h = Sk(TRUE, s)
                  \/ ~first /\ h = Sk(FALSE, s)
    PROVE  Agree(Xml!Line(St(TRUE, s), l), Xml!ReadLine(h, l), l)
<1>1. /\ Xml!Has(l, Xml!Opens) <=> OpensIn(l) # {}
      /\ Xml!Elements(l) = ElementsIn(l)
  BY Finds
<1>2. OpensIn(l) = {} /\ \A i \in ElementsIn(l) : first
  BY <1>1, Zenon DEF Xml!HidesAll
<1>3. \A i \in ElementsIn(l) : \A c \in ClosesIn(l) : i < c
  <2>1. \A i \in ElementsIn(l) : \A c \in DOMAIN l : Xml!Closes(l[c]) => i < c
    BY <1>1, Zenon DEF Xml!HidesAll
  <2>2. DOMAIN l = 1 .. Len(l)
    OBVIOUS
  <2> QED
    BY <2>1, <2>2 DEF ClosesIn
<1>4. Xml!Line(St(TRUE, s), l) = St(IF ClosesIn(l) = {} THEN TRUE ELSE FALSE, s)
  BY <1>2, <1>3, LineInside
<1>5. Xml!ReadLine(h, l) = Sk(FALSE, s)
  <2>1. CASE first
    <3>1. h = Sk(TRUE, s)
      BY <2>1
    <3> QED
      BY <1>2, <3>1, LineRead
  <2>2. CASE ~first
    <3>1. ElementsIn(l) = {} /\ h = Sk(FALSE, s)
      BY <1>2, <2>2
    <3>2. Xml!ReadLine(h, l) = Sk(FALSE, s \o Xml!EntriesOfLine(l))
      BY <1>2, <3>1, LineRead
    <3>3. Xml!Uncommented(l) = l
      BY <1>1, <1>2, Zenon DEF Xml!Uncommented
    <3>4. Xml!EntriesOfLine(l) = << >>
      BY <3>1, <3>3, NoneFound, Searches
    <3>5. s \o << >> = s
      BY Extended
    <3> QED
      BY <3>2, <3>4, <3>5
  <2> QED
    BY <2>1, <2>2
<1>6. CASE ClosesIn(l) = {}
  BY <1>2, <1>4, <1>5, <1>6, Zenon DEF Agree
<1>7. CASE ClosesIn(l) # {}
  BY <1>4, <1>5, <1>7, Zenon DEF Agree
<1> QED
  BY <1>6, <1>7

-----------------------------------------------------------------------------
\* A legible file is read as it is meant.
LEMMA FileRead ==
    ASSUME NEW T, NEW file \in Seq(Seq(T)), Xml!Legible(file)
    PROVE  Xml!ParsedFile(file) = Xml!Listed(file)
<1> DEFINE N == Len(file)
           m == Xml!Meaning(file)
<1>1. N \in Nat /\ DOMAIN file = 1 .. N /\ \A n \in 1 .. N : file[n] \in Seq(T)
  OBVIOUS
<1>2. Follows("lines", St(FALSE, << >>), file, N, m)
  BY <1>1, LinesMeant DEF St
<1>3. PICK h : /\ Follows("stage", Sk(FALSE, << >>), file, N, h)
               /\ Xml!ParsedFile(file) = h[N].table
  BY <1>1, LinesRead DEF Sk
<1>4. /\ m[0] = St(FALSE, << >>) /\ h[0] = Sk(FALSE, << >>)
      /\ \A n \in 1 .. N : m[n] = Xml!Line(m[n - 1], file[n])
  BY <1>2, <1>3 DEF Follows, Reading
<1>5. \A n \in 1 .. N : h[n] = Xml!ReadLine(h[n - 1], file[n])
  BY <1>3 DEF Follows, Reading
<1>l. \A n \in 1 .. N :
        /\ \A i, j \in DOMAIN file[n] : Xml!Opens(file[n][i]) /\ Xml!Closes(file[n][j]) => i < j
        /\ IF m[n - 1].inside THEN Xml!HidesAll(file[n], Xml!Has(file[n - 1], Xml!Opens))
           ELSE Xml!ShowsFirst(file[n])
        /\ \A i \in Xml!Elements(file[n]) : Filled(file[n][i])
  BY <1>1, Zenon DEF Xml!Legible, Filled
<1> HIDE DEF m
<1> DEFINE K(n) == \/ /\ \E s : AsSeq(s) /\ m[n] = St(FALSE, s) /\ h[n] = Sk(FALSE, s)
                   \/ n > 0 /\ Agree(m[n], h[n], file[n])
           G == {n \in Nat : n <= N => K(n)}
<1>6. K(0)
  BY <1>4, Single, Zenon
<1>7. ASSUME NEW n \in Nat, n <= N => K(n), n + 1 <= N PROVE K(n + 1)
  <2>1. n + 1 \in 1 .. N /\ n <= N /\ (n + 1) - 1 = n /\ n + 1 > 0
    BY <1>1, <1>7
  <2>2. K(n)
    BY <1>7, <2>1, Zenon
  <2> DEFINE l == file[n + 1]
  <2>3. l \in Seq(T) /\ m[n + 1] = Xml!Line(m[n], l) /\ h[n + 1] = Xml!ReadLine(h[n], l)
    BY <1>1, <1>4, <1>5, <2>1
  <2>4. /\ \A i, j \in DOMAIN l : Xml!Opens(l[i]) /\ Xml!Closes(l[j]) => i < j
        /\ IF m[n].inside THEN Xml!HidesAll(l, Xml!Has(file[n], Xml!Opens)) ELSE Xml!ShowsFirst(l)
        /\ \A i \in Xml!Elements(l) : Filled(l[i])
    BY <1>l, <2>1
  <2> HIDE DEF l
  <2>5. Ordered(l)
    <3>1. DOMAIN l = 1 .. Len(l)
      BY <2>3
    <3> QED
      BY <2>4, <3>1 DEF Ordered, OpensIn, ClosesIn
  <2>6. \A i \in ElementsIn(l) : Filled(l[i])
    BY <2>3, <2>4, Finds
  <2>7. Agree(m[n + 1], h[n + 1], l)
    <3>1. CASE \E s : AsSeq(s) /\ m[n] = St(FALSE, s) /\ h[n] = Sk(FALSE, s)
      <4>1. PICK s : AsSeq(s) /\ m[n] = St(FALSE, s) /\ h[n] = Sk(FALSE, s)
        BY <3>1
      <4>2. ~m[n].inside
        BY <4>1, Fields, Zenon
      <4>3. Xml!ShowsFirst(l)
        BY <2>4, <4>2
      <4> QED
        BY <2>3, <2>5, <2>6, <4>1, <4>3, AgreeOutside
    <3>2. CASE /\ n > 0
               /\ \E s : /\ AsSeq(s) /\ m[n] = St(TRUE, s)
                         /\ \/ OpensIn(file[n]) # {} /\ h[n] = Sk(TRUE, s)
                            \/ OpensIn(file[n]) = {} /\ h[n] = Sk(FALSE, s)
      <4>1. PICK s : /\ AsSeq(s) /\ m[n] = St(TRUE, s)
                     /\ \/ OpensIn(file[n]) # {} /\ h[n] = Sk(TRUE, s)
                        \/ OpensIn(file[n]) = {} /\ h[n] = Sk(FALSE, s)
        BY <3>2
      <4>2. m[n].inside
        BY <4>1, Fields, Zenon
      <4>3. n \in 1 .. N /\ file[n] \in Seq(T)
        BY <1>1, <2>1, <3>2
      <4> DEFINE first == Xml!Has(file[n], Xml!Opens)
      <4>4. first <=> OpensIn(file[n]) # {}
        BY <4>3, Finds
      <4>5. Xml!HidesAll(l, first)
        BY <2>4, <4>2
      <4>6. first \in BOOLEAN
        BY DEF Xml!Has
      <4> HIDE DEF first
      <4>7. \/ first /\ h[n] = Sk(TRUE, s)
            \/ ~first /\ h[n] = Sk(FALSE, s)
        BY <4>1, <4>4
      <4> QED
        BY <2>3, <4>1, <4>5, <4>6, <4>7, AgreeInside, Zenon
    <3> QED
      BY <2>2, <3>1, <3>2, Zenon DEF Agree
  <2> QED
    BY <2>1, <2>7 DEF l
<1>8. K(N)
  <2> HIDE DEF K
  <2>0. 0 \in G
    BY <1>6
  <2>1. \A n \in Nat : n \in G => n + 1 \in G
    BY <1>7
  <2> HIDE DEF G
  <2>2. N \in G
    BY <1>1, <2>0, <2>1, Induction
  <2> QED
    BY <1>1, <2>2 DEF G
<1>9. m[N].table = h[N].table
  <2>1. PICK b, k, s : m[N] = St(b, s) /\ h[N] = Sk(k, s)
    BY <1>8, Zenon DEF Agree
  <2>2. St(b, s).table = s /\ Sk(k, s).table = s
    BY Fields, Zenon
  <2> QED
    BY <2>1, <2>2
<1>10. Xml!Listed(file) = m[N].table
  BY Zenon DEF Xml!Listed, m
<1> QED
  BY <1>3, <1>9, <1>10

LEMMA PackageRead ==
    ASSUME NEW p \in Packages, Legible(p)
    PROVE  Parsed[p] = Meant[p]
<1>1. p \in Seq(Seq(Seq(Tokens)))
  BY PackageAssumption
<1>2. \A i \in DOMAIN p : p[i] \in Seq(Seq(Tokens)) /\ Xml!Legible(p[i])
  BY <1>1 DEF Legible
<1>3. \A i \in DOMAIN p : Xml!ParsedFile(p[i]) = Xml!Listed(p[i])
  BY <1>2, FileRead
<1>4. [i \in DOMAIN p |-> Xml!ParsedFile(p[i])] = [i \in DOMAIN p |-> Xml!Listed(p[i])]
  BY <1>3
<1>5. Xml!Parsed(p) = Xml!Meant(p)
  BY <1>4, Zenon DEF Xml!Parsed, Xml!Meant
<1> QED
  BY <1>5 DEF Parsed, Meant
-----------------------------------------------------------------------------
(* From the flash back to the xml.                                         *)

\* A sector that no longer holds what it did is one of the table's.
Named == \A s \in Sectors : flash[s] # "old" => s \in Touches(table, eraseAll)

LEMMA TouchedBy ==
    ASSUME NEW i \in DOMAIN table, NEW s,
           \/ IsErase(table[i]) /\ s \in EraseArea(table, i, eraseAll)
           \/ IsProgram(table[i]) /\ s \in Area(table[i])
    PROVE  s \in Touches(table, eraseAll)
<1>1. ~(IsErase(table[i]) /\ IsProgram(table[i]))
  BY DEF IsErase, IsProgram
<1>2. QED
  BY <1>1 DEF Touches

LEMMA NamedStep ==
    ASSUME IInv, [Next]_vars, Named PROVE Named'
<1>1. UNCHANGED <<table, eraseAll>>
  BY MainMoves DEF option
<1>2. flash \in [Sectors -> {"old", "erased", "new", "wrong"}]
  BY DEF IInv, TypeOK
<1>3. CASE flash' = flash
  BY <1>1, <1>3 DEF Named
<1>4. CASE Erased
  <2>1. x \in DOMAIN table /\ IsErase(table[x])
    BY <1>4 DEF Erased, Erases, Applies, Here
  <2>2. \A s \in EraseArea(table, x, eraseAll) : s \in Touches(table, eraseAll)
    BY <2>1, TouchedBy
  <2>3. \A s \in Sectors : flash'[s] = flash[s] \/ s \in EraseArea(table, x, eraseAll)
    BY <1>2, <1>4 DEF Erased
  <2>4. QED
    BY <1>1, <2>2, <2>3 DEF Named
<1>5. CASE Wrote
  <2>1. x \in DOMAIN table /\ IsProgram(table[x])
    BY <1>5 DEF Wrote, Images, Applies, Here
  <2>2. PICK r \in Area(table[x]) : flash' = [flash EXCEPT ![r] = "new"]
    BY <1>5 DEF Wrote, Here
  <2>3. r \in Touches(table, eraseAll)
    BY <2>1, <2>2, TouchedBy
  <2>4. \A s \in Sectors : flash'[s] = flash[s] \/ s = r
    BY <1>2, <2>2
  <2>5. QED
    BY <1>1, <2>3, <2>4 DEF Named
<1>6. QED
  BY <1>3, <1>4, <1>5, FlashMoves

\* Whatever the cable and the target do, the stage erases and writes what the files
\* of a package name outside of comments and nothing else, and success means that it
\* wrote all of their images: fh_parse_xml_file reads every legible package as xml
\* does, in which each comment, each line and each attribute is where it looks for it.
THEOREM ListedSafe ==
    ASSUME \A p \in Packages : Legible(p) PROVE Spec => []AsListed
<1>1. Init => Named
  BY DEF Init, Named
<1>2. IInv /\ Named /\ [Next]_vars => Named'
  BY NamedStep
<1>3. Named /\ CompleteWhenReset => AsListed
  <2> SUFFICES ASSUME Named, CompleteWhenReset, NEW p \in Packages, Parsed[p] = table
               PROVE  /\ \A s \in Sectors : flash[s] # "old" => s \in Touches(Meant[p], eraseAll)
                      /\ outcome = "done" => Written(Meant[p], flash)
    BY DEF AsListed
  <2>1. Meant[p] = table
    BY PackageRead
  <2>2. QED
    BY <2>1 DEF Named, CompleteWhenReset
<1>4. QED
  BY <1>1, <1>2, <1>3, InvariantHolds, CompleteSafe, PTL DEF Spec
=============================================================================
