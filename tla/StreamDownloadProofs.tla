------------------------ MODULE StreamDownloadProofs ------------------------
(***************************************************************************)
(* What the stream download stage promises, for every size of the boot     *)
(* loader, number of reads and of retries, and of packets sent unasked: it *)
(* reports success only for a complete boot loader, and the download flag  *)
(* is set while it is incomplete.  Left out are streams that are late, in  *)
(* which the rest of a frame may look like any answer.                     *)
(***************************************************************************)
EXTENDS StreamDownload, SequenceTheorems, TLAPS

Whole == ~({"late", "stream"} \subseteq faults)

-----------------------------------------------------------------------------
(* Frames.                                                                 *)

Place(s) ==
    CASE s = "hello" -> 1 [] s = "security" -> 2 [] s = "table" -> 3
      [] s = "override" -> 4 [] s = "flag" -> 5 [] s = "open" -> 6
      [] s = "write" -> 7 [] s = "close" -> 8 [] s = "reset" -> 9

Is(f, s) == \E a \in 1 .. Blocks : f = Frames[s][a]
AnswerTo(s, a) == Answers[Packet(s, a)]

Commands == {Frames[s][a] : s \in ToSet(Stages), a \in 1 .. Blocks}
Replies ==
    {AnswerTo(s, a) : s \in ToSet(Stages), a \in 1 .. Blocks}
        \cup {Refusal, Unasked[ErrorRsp], Unasked[CmdLog]}

First(f) == Unframed(f)[1]

LEMMA StagesAre ==
    ToSet(Stages) = {"hello", "security", "table", "override", "flag",
                     "open", "write", "close", "reset"}
<1>1. DOMAIN Stages = 1 .. 9
  BY DEF Stages
<1>2. /\ Stages[1] = "hello" /\ Stages[2] = "security" /\ Stages[3] = "table"
      /\ Stages[4] = "override" /\ Stages[5] = "flag" /\ Stages[6] = "open"
      /\ Stages[7] = "write" /\ Stages[8] = "close" /\ Stages[9] = "reset"
  BY DEF Stages
<1>3. \A i \in 1 .. 9 : i \in {1, 2, 3, 4, 5, 6, 7, 8, 9}
  OBVIOUS
<1>4. QED
  BY <1>1, <1>2, <1>3 DEF ToSet

LEMMA HeadOfConcat ==
    ASSUME NEW c \in Int, NEW r \in Seq(Int)
    PROVE  /\ << c >> \o r # << >> /\ (<< c >> \o r)[1] = c
           /\ \A i \in 1 .. Len(r) : (<< c >> \o r)[i + 1] = r[i]
<1>1. << c >> \in Seq(Int) /\ Len(<< c >>) = 1 /\ << c >>[1] = c
  OBVIOUS
<1>2. << c >> \o r \in Seq(Int) /\ Len(<< c >> \o r) = 1 + Len(r)
  BY <1>1, ConcatProperties
<1>3. Len(r) \in Nat
  OBVIOUS
<1>4. \A i \in 1 .. 1 + Len(r) :
          (<< c >> \o r)[i] = IF i <= 1 THEN << c >>[i] ELSE r[i - 1]
  BY <1>1, ConcatProperties
<1>5. QED
  BY <1>1, <1>2, <1>3, <1>4

LEMMA FifthAppended ==
    ASSUME NEW v \in Seq(Int), NEW e \in Int
    PROVE  Len(v) = 4 =>
               /\ Append(v, e) \in Seq(Int) /\ Len(Append(v, e)) = 5
               /\ Append(v, e)[2] = v[2] /\ Append(v, e)[5] = e
<1>1. /\ Append(v, e) \in Seq(Int) /\ Len(Append(v, e)) = Len(v) + 1
      /\ Append(v, e)[Len(v) + 1] = e
      /\ \A i \in 1 .. Len(v) : Append(v, e)[i] = v[i]
  BY AppendProperties
<1>2. Len(v) = 4 => 2 \in 1 .. Len(v) /\ Len(v) + 1 = 5
  OBVIOUS
<1>3. QED
  BY <1>1, <1>2

LEMMA PacketIs ==
    ASSUME NEW s \in ToSet(Stages), NEW a \in 1 .. Blocks
    PROVE  /\ Packet(s, a)[1] = Code(s) /\ Packet(s, a) # << >>
           /\ s = "write" => Packet(s, a)[3] = 4 * (a - 1) /\ Packet(s, a)[6] = Flag
           /\ s = "table" => Packet(s, a)[2] = 0
           /\ s = "override" => Packet(s, a)[2] = 1
<1> DEFINE rest == CASE s = "write"    -> Append(Address(a), DataOf(a))
                     [] s = "table"    -> << 0 >>
                     [] s = "open"     -> << 14 >>
                     [] s \in {"security", "override", "flag"} -> << 1 >>
                     [] OTHER          -> << >>
<1>1. Packet(s, a) = << Code(s) >> \o rest
  BY DEF Packet
<1>2. Code(s) \in Int
  BY StagesAre DEF Code
<1>3. 4 * (a - 1) \in Int /\ Flag \in Int
  BY StreamAssumption DEF Flag
<1>4. s = "write" => rest = Append(<< 0, 4 * (a - 1), 0, 0 >>, Flag)
  BY DEF Address, DataOf
<1>5. s = "write" => rest \in Seq(Int) /\ Len(rest) = 5 /\ rest[2] = 4 * (a - 1) /\ rest[5] = Flag
  <2> DEFINE v == << 0, 4 * (a - 1), 0, 0 >>
  <2>1. v \in Seq(Int) /\ Len(v) = 4 /\ v[2] = 4 * (a - 1)
    BY <1>3
  <2>2. s = "write" => rest = Append(v, Flag)
    BY <1>4
  <2> HIDE DEF v, rest
  <2>3. /\ Append(v, Flag) \in Seq(Int) /\ Len(Append(v, Flag)) = 5
        /\ Append(v, Flag)[2] = v[2] /\ Append(v, Flag)[5] = Flag
    BY <1>3, <2>1, FifthAppended
  <2>4. QED
    BY <2>1, <2>2, <2>3
<1>6. s = "table" => rest = << 0 >>
  OBVIOUS
<1>7. s = "override" => rest = << 1 >>
  OBVIOUS
<1>8. rest \in Seq(Int)
  BY <1>5, StagesAre
<1> HIDE DEF rest
<1>9. /\ << Code(s) >> \o rest # << >> /\ (<< Code(s) >> \o rest)[1] = Code(s)
      /\ \A i \in 1 .. Len(rest) : (<< Code(s) >> \o rest)[i + 1] = rest[i]
  BY <1>2, <1>8, HeadOfConcat
<1>10. s = "write" => Packet(s, a)[3] = rest[2] /\ Packet(s, a)[6] = rest[5]
  <2>1. Len(rest) = 5 => 2 \in 1 .. Len(rest) /\ 5 \in 1 .. Len(rest) /\ 2 + 1 = 3 /\ 5 + 1 = 6
    OBVIOUS
  <2>2. QED
    BY <1>1, <1>5, <1>9, <2>1
<1>11. s \in {"table", "override"} => Packet(s, a)[2] = rest[1]
  BY <1>1, <1>2, <1>6, <1>7
<1>12. s = "table" => rest[1] = 0
  BY <1>6
<1>13. s = "override" => rest[1] = 1
  BY <1>7
<1>14. QED
  BY <1>1, <1>5, <1>9, <1>10, <1>11, <1>12, <1>13

LEMMA FramesAre ==
    ASSUME NEW s \in ToSet(Stages), NEW a \in 1 .. Blocks
    PROVE  /\ Frames[s][a] = Frame(Packet(s, a)) /\ Frames[s][a] \in Commands
           /\ Packets[Frames[s][a]] = Packet(s, a)
           /\ First(AnswerTo(s, a)) = Code(s) + 1 /\ Unframed(AnswerTo(s, a))[2] = 0
<1>1. a \in 1 .. MaxBlocks
  BY StreamAssumption DEF MaxBlocks
<1>2. Frames[s][a] = Frame(Packet(s, a))
  BY DEF Frames
<1>3. Packets[Frames[s][a]] = Checked(Frames[s][a]) /\ Frames[s][a] \in DOMAIN Packets
  BY <1>2 DEF Packets
<1>4. Checked(Frames[s][a]) = Packet(s, a)
  BY <1>1, <1>2, FramingAssumption
<1>5. AnswerTo(s, a) = Frame(Answer(Packet(s, a)))
  BY <1>3, <1>4 DEF AnswerTo, Answers
<1>6. Unframed(Frame(Answer(Packet(s, a))))[1] = Code(s) + 1
      /\ Unframed(Frame(Answer(Packet(s, a))))[2] = 0
  BY <1>1, FramingAssumption
<1>7. QED
  BY <1>2, <1>3, <1>4, <1>5, <1>6 DEF Commands, First

\* A command that arrives is the one that was sent.
LEMMA CommandIs ==
    ASSUME NEW s \in ToSet(Stages), NEW a \in 1 .. Blocks, Head(out) = Frames[s][a]
    PROVE  Command = Packet(s, a) /\ Name = s /\ Command # << >>
<1>1. Command = Packet(s, a) /\ Command # << >> /\ Command[1] = Code(s)
  BY FramesAre, PacketIs DEF Command
<1>2. \A t \in ToSet(Stages) :
        (IF Command[1] = Code("table")
         THEN t = (IF Command[2] = 1 THEN "override" ELSE "table")
         ELSE Code(t) = Command[1]) <=> t = s
  <2>1. CASE s \in {"table", "override"}
    <3>1. Command[1] = Code("table")
      BY <1>1, <2>1 DEF Code
    <3>2. s = IF Command[2] = 1 THEN "override" ELSE "table"
      BY <1>1, <2>1, PacketIs
    <3>3. QED
      BY <3>1, <3>2
  <2>2. CASE s \notin {"table", "override"}
    <3>1. Code(s) # Code("table") /\ \A t \in ToSet(Stages) : Code(t) = Code(s) => t = s
      BY <2>2, StagesAre DEF Code
    <3>2. QED
      BY <1>1, <3>1
  <2>3. QED
    BY <2>1, <2>2
<1>3. QED
  BY <1>1, <1>2 DEF Name

\* A command stands for one stage, and a write for one packet.
LEMMA FramesDiffer ==
    ASSUME NEW s \in ToSet(Stages), NEW a \in 1 .. Blocks,
           NEW t \in ToSet(Stages), NEW b \in 1 .. Blocks, Frames[s][a] = Frames[t][b]
    PROVE  s = t /\ (s = "write" => a = b)
<1>1. Packet(s, a) = Packet(t, b)
  BY FramesAre
<1>2. Code(s) = Code(t)
  BY <1>1, PacketIs
<1>3. s = t \/ {s, t} = {"table", "override"}
  BY <1>2, StagesAre DEF Code
<1>4. s = t
  <2>1. s = "table" => t # "override"
    BY <1>1, PacketIs
  <2>2. s = "override" => t # "table"
    BY <1>1, PacketIs
  <2>3. QED
    BY <1>3, <2>1, <2>2
<1>5. s = "write" => 4 * (a - 1) = 4 * (b - 1)
  BY <1>1, <1>4, PacketIs
<1>6. QED
  BY <1>4, <1>5, StreamAssumption

-----------------------------------------------------------------------------
(* The invariant.                                                          *)

StageOf(f) == CHOOSE s \in ToSet(Stages) : Is(f, s)
At(f) == Place(StageOf(f))

TypeOK ==
    /\ faults \in FaultSets
    /\ stage \in ToSet(Stages) /\ waiting \in BOOLEAN /\ addr \in 1 .. Blocks
    /\ result \in {"running", "false", "true"}
    /\ link \in BOOLEAN /\ out \in Seq(Commands) /\ in \in Seq(Replies)
    /\ flag \in BOOLEAN /\ differs \in BOOLEAN /\ closed \in BOOLEAN
    /\ cells \in [1 .. Blocks -> {0, Flag}]
    /\ result = "true" => stage = "reset"
    /\ stage = "reset" => ~waiting
    /\ ~link => in = << >> /\ out = << >>
    /\ Place(stage) < 7 => addr = 1

\* Commands are on the way in the order in which they were sent.
Ordered ==
    \A i \in 1 .. Len(out) :
        /\ At(out[i]) <= Place(stage)
        /\ \A j \in 1 .. i : At(out[j]) <= At(out[i])

OnItsWay(s) == \E i \in 1 .. Len(out) : StageOf(out[i]) = s
WriteOnItsWay(b) == \E i \in 1 .. Len(out) : out[i] = Frames["write"][b]

\* The partition is closed once the host has said so, and never unawares; it goes
\* on to reset when it has been.
ClosedInv ==
    /\ \A i \in 1 .. Len(in) : First(in[i]) = Code("close") + 1 => closed
    /\ stage = "reset" \/ OnItsWay("reset") => closed
    /\ OnItsWay("close") \/ closed => (stage = "close" /\ waiting) \/ stage = "reset"

\* From the answer to hello the flag is set, until a table overrides the old one;
\* then it is set again before the first write is executed.
FlagInv ==
    /\ \A i \in 1 .. Len(in) :
           First(in[i]) = Code("hello") + 1 /\ Place(stage) <= 3 => flag
    /\ Place(stage) \in 2 .. 3 => flag
    /\ link /\ (Place(stage) >= 6 \/ (stage = "flag" /\ waiting)) =>
           /\ OnItsWay("override") => OnItsWay("flag")
           /\ flag \/ closed \/ OnItsWay("flag")
    /\ Touched => /\ Place(stage) >= 7
                  /\ \A i \in 1 .. Len(out) : At(out[i]) >= 7
                  /\ flag \/ closed

\* Without refusals what has been sent is executed, or will be.
ExecInv ==
    "nak" \notin faults =>
        /\ closed => Written
        /\ link /\ Place(stage) >= 7 =>
               \A b \in 1 .. Blocks :
                   b < addr \/ (b = addr /\ waiting) \/ Place(stage) >= 8
                       => cells[b] # 0 \/ WriteOnItsWay(b)

\* Commands on their way and answers not yet read: each stands for one read.
Outstanding == Len(in) + Len(out)

\* Nothing is on the cable but what the write under way is answered with.
Exact ==
    /\ \A b \in 1 .. Blocks : b < addr => cells[b] # 0
    /\ ~waiting => Outstanding = 0
    /\ waiting => \/ in = << >> /\ out = << Frames["write"][addr] >>
                  \/ out = << >> /\ Len(in) = 1
                     /\ (First(in[1]) = Code("write") + 1 => cells[addr] # 0)

\* There is more on the cable than that.  As every read takes one and every
\* command adds one, it stays so, until close reads what is not its answer.
Behind ==
    \/ ~waiting /\ Outstanding > 0
    \/ waiting /\ Outstanding > 1

NextIsNotClose ==
    /\ in # << >> => First(in[1]) # Code("close") + 1
    /\ in = << >> /\ out # << >> => StageOf(out[1]) # "close"

WriteInv ==
    "stream" \notin faults =>
        /\ Running /\ link /\ stage = "write" => Exact \/ Behind
        /\ Running /\ link /\ stage = "close" => Written \/ (Behind /\ (waiting => NextIsNotClose))
        /\ stage = "reset" => Written

IInv == TypeOK /\ Ordered /\ ClosedInv /\ FlagInv /\ ExecInv /\ WriteInv

-----------------------------------------------------------------------------
(* What the parts of a step come to.                                       *)

LEMMA PlacesAre ==
    /\ Place("hello") = 1 /\ Place("security") = 2 /\ Place("table") = 3
    /\ Place("override") = 4 /\ Place("flag") = 5 /\ Place("open") = 6
    /\ Place("write") = 7 /\ Place("close") = 8 /\ Place("reset") = 9
    /\ \A s \in ToSet(Stages) : Place(s) \in 1 .. 9
  BY StagesAre DEF Place

LEMMA FollowingIs ==
    ASSUME NEW s \in ToSet(Stages), s # "reset"
    PROVE  /\ Following(s) \in ToSet(Stages) /\ Following(s) # s
           /\ Place(s) <= Place(Following(s))
           /\ Place(Following(s)) < 7 => Place(s) < 7
<1>1. /\ Following("hello") = "security" /\ Following("security") = "table"
      /\ Following("table") = "open" /\ Following("override") = "flag"
      /\ Following("flag") = "open" /\ Following("open") = "write"
      /\ Following("write") = "close" /\ Following("close") = "reset"
  BY DEF Following
<1>2. s \in {"hello", "security", "table", "override", "flag", "open", "write", "close"}
  BY StagesAre
<1>3. QED
  BY <1>1, <1>2, StagesAre, PlacesAre

LEMMA StageIs ==
    ASSUME NEW s \in ToSet(Stages), NEW a \in 1 .. Blocks
    PROVE  StageOf(Frames[s][a]) = s
<1>1. \A t \in ToSet(Stages) : Is(Frames[s][a], t) <=> t = s
  BY FramesDiffer DEF Is
<1>2. QED
  BY <1>1 DEF StageOf

LEMMA CommandsAre ==
    ASSUME NEW f \in Commands
    PROVE  StageOf(f) \in ToSet(Stages) /\ \E a \in 1 .. Blocks : f = Frames[StageOf(f)][a]
<1>1. PICK s \in ToSet(Stages), a \in 1 .. Blocks : f = Frames[s][a]
  BY DEF Commands
<1>2. StageOf(f) = s
  BY <1>1, StageIs
<1>3. QED
  BY <1>1, <1>2

LEMMA TailIs ==
    ASSUME NEW S, NEW q \in Seq(S), q # << >>
    PROVE  /\ Tail(q) \in Seq(S) /\ Len(Tail(q)) = Len(q) - 1 /\ Head(q) = q[1] /\ q[1] \in S
           /\ Len(q) \in Nat \ {0} /\ Len(Tail(q)) \in Nat
           /\ \A i \in 1 .. Len(Tail(q)) : Tail(q)[i] = q[i + 1] /\ i + 1 \in 1 .. Len(q)
  OBVIOUS

\* The host has read n answers, and nothing else has changed but the host.
Heard(n) ==
    /\ Running /\ waiting /\ stage # "reset"
    /\ n \in 0 .. Len(in) /\ ("stream" \notin faults => n <= 1)
    /\ in' \in Seq(Replies) /\ Len(in') = Len(in) - n /\ (n = 0 => in' = in)
    /\ \A i \in 1 .. Len(in') : in'[i] = in[i + n]
    /\ n >= 1 => link
    /\ UNCHANGED <<faults, link, out, target>>

Stays(n) ==
    /\ Heard(n) /\ UNCHANGED <<stage, waiting, addr>>
    /\ result' \in {"running", "false"}
    /\ result' = "running" => stage # "write" /\ (stage = "close" => n = 0)

Repeats(n) ==
    /\ Heard(n) /\ stage = "write"
    /\ waiting' = FALSE /\ UNCHANGED <<stage, addr, result>>

NextWrite(n) ==
    /\ Heard(n) /\ n >= 1 /\ stage = "write" /\ First(in[1]) = Code("write") + 1
    /\ addr < Blocks /\ addr' = addr + 1
    /\ waiting' = FALSE /\ UNCHANGED <<stage, result>>

GoesOn(n) ==
    /\ Heard(n) /\ n >= 1 /\ (stage # "flag" => First(in[1]) = Code(stage) + 1)
    /\ stage = "write" => addr = Blocks
    /\ stage' = Following(stage) /\ waiting' = FALSE /\ UNCHANGED <<addr, result>>

Passes(n) ==
    /\ Heard(n)
    /\ \/ stage = "table" /\ stage' = "override"
       \/ stage = "flag" /\ stage' = "open"
    /\ waiting' = FALSE /\ UNCHANGED <<addr, result>>

LEMMA ReceiveIs ==
    ASSUME TypeOK, Receive
    PROVE  \E n \in 1 .. Len(in) : Heard(n) /\ link /\ in # << >>
<1>1. in \in Seq(Replies) /\ in # << >> /\ link /\ Len(in) \in Nat
  BY DEF TypeOK, Receive
<1>2. PICK n \in 1 .. (IF "stream" \in faults THEN Len(in) ELSE 1) :
          in' = SubSeq(in, n + 1, Len(in))
  BY DEF Receive
<1>3. n \in 1 .. Len(in) /\ ("stream" \notin faults => n <= 1)
  BY <1>1, <1>2
<1>4. n + 1 \in 1 .. Len(in) + 1 /\ n \in Nat
  BY <1>1, <1>3
<1>5. in' \in Seq(Replies) /\ Len(in') = Len(in) - n
  <2>1. SubSeq(in, n + 1, Len(in)) \in Seq(Replies)
        /\ Len(SubSeq(in, n + 1, Len(in))) = Len(in) - n
    BY <1>1, <1>3, <1>4
  <2>2. QED
    BY <1>2, <2>1
<1>6. \A i \in 1 .. Len(in') : in'[i] = in[i + n]
  BY <1>1, <1>2, <1>3, <1>5
<1>7. Running /\ waiting /\ stage # "reset" /\ UNCHANGED <<faults, link, out, target>>
  BY DEF Receive, TypeOK
<1>8. QED
  BY <1>1, <1>3, <1>5, <1>6, <1>7 DEF Heard

LEMMA TimedOutIs ==
    ASSUME TypeOK, Whole, TimedOut
    PROVE  Heard(0)
<1>1. in' = in /\ in = << >>
  BY DEF TimedOut, Whole
<1>2. in \in Seq(Replies) /\ Len(in) = 0
  BY <1>1 DEF TypeOK
<1>3. Running /\ waiting /\ stage # "reset" /\ UNCHANGED <<faults, link, out, target>>
  BY DEF TimedOut, TypeOK
<1>4. in' \in Seq(Replies) /\ Len(in') = Len(in) - 0 /\ 0 \in 0 .. Len(in)
  BY <1>1, <1>2
<1>5. \A i \in 1 .. Len(in') : in'[i] = in[i + 0]
  BY <1>1, <1>2
<1>6. QED
  BY <1>1, <1>3, <1>4, <1>5 DEF Heard

LEMMA FailsIs ==
    ASSUME TypeOK, NEW n, Heard(n), CommandFails, UNCHANGED addr, stage # "write"
    PROVE  Stays(n) \/ Passes(n)
<1>1. CASE stage = "table"
  BY <1>1 DEF CommandFails, Enter, Passes
<1>2. CASE stage = "flag"
  BY <1>2 DEF CommandFails, Enter, Passes
<1>3. CASE stage \notin {"table", "flag"}
  BY <1>3 DEF CommandFails, Stays
<1>4. QED
  BY <1>1, <1>2, <1>3

LEMMA RetryIs ==
    ASSUME TypeOK, NEW n, Heard(n), Retry, UNCHANGED <<stage, addr>>, stage = "write"
    PROVE  Stays(n) \/ Repeats(n)
  BY DEF Retry, Stays, Repeats, Heard

\* Every step in which the host listens is one of five.
Listens ==
    PassOver \/ Answered \/ Unanswered \/ WriteAgain \/ ReadAgain \/ NoAnswer \/ WriteTimedOut

LEMMA ListensIs ==
    ASSUME TypeOK, Whole, Listens
    PROVE  \E n \in 0 .. Len(in) :
               Stays(n) \/ Repeats(n) \/ NextWrite(n) \/ GoesOn(n) \/ Passes(n)
<1> Len(in) \in Nat
  BY DEF TypeOK
<1>1. CASE PassOver
  <2>1. PICK n \in 1 .. Len(in) : Heard(n)
    BY <1>1, ReceiveIs DEF PassOver
  <2>2. stage \in {"hello", "open"} /\ UNCHANGED <<stage, waiting, addr, result>>
    BY <1>1 DEF PassOver, Passed, host
  <2>3. Stays(n)
    BY <2>1, <2>2 DEF Stays, TypeOK, Heard, Running
  <2>4. QED
    BY <2>1, <2>3
<1>2. CASE Answered
  <2>1. PICK n \in 1 .. Len(in) : Heard(n) /\ in # << >>
    BY <1>2, ReceiveIs DEF Answered
  <2>2. stage # "flag" => First(in[1]) = Code(stage) + 1
    <3>1. Received = Unframed(in[1])
      BY <2>1 DEF Received, TypeOK
    <3>2. QED
      BY <1>2, <3>1 DEF Answered, Right, First
  <2>3. CASE stage = "write" /\ addr < Blocks
    <3>1. NextWrite(n)
      BY <1>2, <2>1, <2>2, <2>3 DEF Answered, Enter, NextWrite
    <3>2. QED
      BY <2>1, <3>1
  <2>4. CASE ~(stage = "write" /\ addr < Blocks)
    <3>1. stage = "write" => addr = Blocks
      BY <2>4, StreamAssumption DEF TypeOK
    <3>2. GoesOn(n)
      BY <1>2, <2>1, <2>2, <2>4, <3>1 DEF Answered, Enter, GoesOn
    <3>3. QED
      BY <2>1, <3>2
  <2>5. QED
    BY <2>3, <2>4
<1>3. CASE Unanswered
  <2>1. PICK n \in 1 .. Len(in) : Heard(n)
    BY <1>3, ReceiveIs DEF Unanswered
  <2>2. Stays(n) \/ Passes(n)
    <3>1. stage = "close" /\ result' = "running" => FALSE
      BY <1>3 DEF Unanswered, CommandFails
    <3>2. QED
      BY <1>3, <2>1, <3>1, FailsIs DEF Unanswered
  <2>3. QED
    BY <2>1, <2>2
<1>4. CASE WriteAgain
  <2>1. PICK n \in 1 .. Len(in) : Heard(n)
    BY <1>4, ReceiveIs DEF WriteAgain
  <2>2. Stays(n) \/ Repeats(n)
    BY <1>4, <2>1, RetryIs DEF WriteAgain
  <2>3. QED
    BY <2>1, <2>2
<1>5. CASE ReadAgain
  <2>1. Heard(0)
    BY <1>5, TimedOutIs DEF ReadAgain
  <2>2. Stays(0)
    BY <1>5, <2>1 DEF ReadAgain, Stays, Heard, Running
  <2>3. QED
    BY <2>2
<1>6. CASE NoAnswer
  <2>1. Heard(0)
    BY <1>6, TimedOutIs DEF NoAnswer
  <2>2. Stays(0) \/ Passes(0)
    BY <1>6, <2>1, FailsIs DEF NoAnswer
  <2>3. QED
    BY <2>2
<1>7. CASE WriteTimedOut
  <2>1. Heard(0)
    BY <1>7, TimedOutIs DEF WriteTimedOut
  <2>2. Stays(0) \/ Repeats(0)
    BY <1>7, <2>1, RetryIs DEF WriteTimedOut
  <2>3. QED
    BY <2>2
<1>8. QED
  BY <1>1, <1>2, <1>3, <1>4, <1>5, <1>6, <1>7 DEF Listens

Hears(n) == Stays(n) \/ Repeats(n) \/ NextWrite(n) \/ GoesOn(n) \/ Passes(n)

\* The host never goes back.
LEMMA HearsIs ==
    ASSUME TypeOK, NEW n, Hears(n)
    PROVE  /\ Heard(n)
           /\ stage' \in ToSet(Stages) /\ waiting' \in BOOLEAN /\ addr' \in 1 .. Blocks
           /\ Place(stage) <= Place(stage')
           /\ stage' # stage => ~waiting' /\ addr' = addr
           /\ waiting' => stage' = stage /\ addr' = addr
           /\ stage' = "reset" => ~waiting'
           /\ result' \in {"running", "false"}
           /\ Place(stage') < 7 => addr' = 1
<1>1. Heard(n)
  BY DEF Hears, Stays, Repeats, NextWrite, GoesOn, Passes
<1>2. stage \in ToSet(Stages) /\ waiting = TRUE /\ stage # "reset" /\ result = "running"
      /\ addr \in 1 .. Blocks /\ (Place(stage) < 7 => addr = 1)
  BY <1>1 DEF TypeOK, Heard, Running
<1> Place(stage) \in Int
  BY <1>2, PlacesAre
<1>3. CASE Stays(n)
  <2>1. stage' = stage /\ waiting' = waiting /\ addr' = addr /\ result' \in {"running", "false"}
    BY <1>3 DEF Stays
  <2>2. waiting' \in BOOLEAN /\ Place(stage) <= Place(stage') /\ addr' \in 1 .. Blocks
    BY <1>2, <2>1
  <2>3. QED
    BY <1>1, <1>2, <2>1, <2>2
<1>4. CASE Repeats(n)
  <2>1. stage' = stage /\ waiting' = FALSE /\ addr' = addr /\ result' = result
    BY <1>4 DEF Repeats
  <2>2. Place(stage) <= Place(stage') /\ addr' \in 1 .. Blocks /\ stage' \in ToSet(Stages)
    BY <1>2, <2>1
  <2>3. QED
    BY <1>1, <1>2, <2>1, <2>2
<1>5. CASE NextWrite(n)
  <2>1. stage' = stage /\ waiting' = FALSE /\ addr' = addr + 1 /\ result' = result
        /\ stage = "write" /\ addr < Blocks
    BY <1>5 DEF NextWrite
  <2>2. addr' \in 1 .. Blocks /\ Place(stage) <= Place(stage')
    BY <1>2, <2>1, StreamAssumption DEF MaxBlocks
  <2>3. Place(stage') = 7 /\ stage' \in ToSet(Stages) /\ ~waiting' /\ waiting' \in BOOLEAN
    BY <1>2, <2>1, PlacesAre
  <2>4. QED
    BY <1>1, <1>2, <2>1, <2>2, <2>3
<1>6. CASE GoesOn(n)
  <2>1. /\ stage' \in ToSet(Stages) /\ stage' # stage /\ Place(stage) <= Place(stage')
        /\ Place(stage') < 7 => Place(stage) < 7
    BY <1>2, <1>6, FollowingIs DEF GoesOn
  <2>2. waiting' = FALSE /\ addr' = addr /\ result' = result
    BY <1>6 DEF GoesOn
  <2>3. QED
    BY <1>1, <1>2, <2>1, <2>2
<1>7. CASE Passes(n)
  <2>1. /\ (stage = "table" /\ stage' = "override") \/ (stage = "flag" /\ stage' = "open")
        /\ waiting' = FALSE /\ addr' = addr /\ result' = result
    BY <1>7 DEF Passes
  <2>2. stage' \in ToSet(Stages) /\ Place(stage) <= Place(stage') /\ Place(stage) < 7
        /\ stage' # "reset"
    BY <2>1, PlacesAre, StagesAre
  <2>3. QED
    BY <1>1, <1>2, <2>1, <2>2
<1>8. QED
  BY <1>3, <1>4, <1>5, <1>6, <1>7 DEF Hears

LEMMA HearsType ==
    ASSUME TypeOK, NEW n, Hears(n)
    PROVE  TypeOK'
<1>1. Heard(n)
  BY HearsIs
<1>2. in' \in Seq(Replies) /\ (~link => in' = << >>)
  <2>1. in \in Seq(Replies) /\ (~link => in = << >>)
    BY DEF TypeOK
  <2>2. ~link => in' = in
    BY <1>1, <2>1 DEF Heard
  <2>3. QED
    BY <1>1, <2>1, <2>2 DEF Heard
<1>3. UNCHANGED <<faults, link, out, flag, differs, cells, closed>>
  BY <1>1 DEF Heard, target
<1>4. QED
  BY <1>2, <1>3, HearsIs DEF TypeOK

\* What is read was there before.
LEMMA HeardBefore ==
    ASSUME TypeOK, NEW n, Heard(n), NEW i \in 1 .. Len(in')
    PROVE  \E j \in 1 .. Len(in) : in'[i] = in[j]
<1>1. Len(in) \in Nat /\ Len(in') = Len(in) - n /\ n \in 0 .. Len(in) /\ in'[i] = in[i + n]
  BY DEF TypeOK, Heard
<1>2. i + n \in 1 .. Len(in)
  BY <1>1
<1>3. QED
  BY <1>1, <1>2

LEMMA HearsOrdered ==
    ASSUME TypeOK, Ordered, NEW n, Hears(n)
    PROVE  Ordered'
<1>1. out' = out /\ Place(stage) <= Place(stage') /\ stage' \in ToSet(Stages)
      /\ stage \in ToSet(Stages) /\ out \in Seq(Commands)
  BY HearsIs DEF Heard, TypeOK
<1>2. Place(stage) \in Int /\ Place(stage') \in Int
  BY <1>1, PlacesAre
<1>3. \A i \in 1 .. Len(out) : At(out[i]) \in Int
  BY <1>1, CommandsAre, PlacesAre DEF At
<1>4. \A i \in 1 .. Len(out) : At(out[i]) <= Place(stage')
  BY <1>1, <1>2, <1>3 DEF Ordered
<1>5. QED
  BY <1>1, <1>4 DEF Ordered

LEMMA HearsClosed ==
    ASSUME TypeOK, ClosedInv, NEW n, Hears(n)
    PROVE  ClosedInv'
<1>1. Heard(n) /\ out' = out /\ closed' = closed
  BY HearsIs DEF Heard, target
<1>2. \A i \in 1 .. Len(in') : First(in'[i]) = Code("close") + 1 => closed'
  BY <1>1, HeardBefore DEF ClosedInv
<1>3. \A s : OnItsWay(s)' <=> OnItsWay(s)
  BY <1>1 DEF OnItsWay
<1>4. stage' = "reset" => closed'
  <2>1. SUFFICES ASSUME stage' = "reset"
                 PROVE  closed'
    OBVIOUS
  <2>2. stage # "reset"
    BY <1>1 DEF Heard
  <2>3. GoesOn(n)
    BY <2>1, <2>2 DEF Hears, Stays, Repeats, NextWrite, Passes
  <2>4. stage = "close" /\ n >= 1 /\ First(in[1]) = Code("close") + 1
    <3>1. stage \in ToSet(Stages)
      BY DEF TypeOK
    <3>2. stage = "close"
      BY <2>1, <2>2, <2>3, <3>1, StagesAre DEF GoesOn, Following
    <3>3. QED
      BY <2>3, <3>2 DEF GoesOn
  <2>5. 1 \in 1 .. Len(in)
    BY <1>1, <2>4 DEF Heard, TypeOK
  <2>6. QED
    BY <1>1, <2>4, <2>5 DEF ClosedInv
<1>5. stage = "close" /\ waiting => (stage' = "close" /\ waiting') \/ stage' = "reset"
      \/ Stays(n)
  BY DEF Hears, Repeats, NextWrite, GoesOn, Passes, Following
<1>6. Stays(n) => UNCHANGED <<stage, waiting>>
  BY DEF Stays
<1>7. (stage = "close" /\ waiting) \/ stage = "reset" =>
          (stage' = "close" /\ waiting') \/ stage' = "reset"
  BY <1>1, <1>5, <1>6 DEF Heard
<1>8. QED
  BY <1>1, <1>2, <1>3, <1>4, <1>7 DEF ClosedInv

LEMMA HearsFlag ==
    ASSUME TypeOK, Ordered, FlagInv, NEW n, Hears(n)
    PROVE  FlagInv'
<1>1. Heard(n) /\ out' = out /\ closed' = closed /\ flag' = flag /\ link' = link /\ cells' = cells
      /\ stage # "reset" /\ waiting
  BY HearsIs DEF Heard, target
<1>2. /\ Place(stage) <= Place(stage') /\ Place(stage) \in Int /\ Place(stage') \in Int
      /\ stage \in ToSet(Stages)
  BY HearsIs, PlacesAre DEF TypeOK
<1>3. /\ \A s : OnItsWay(s)' <=> OnItsWay(s)
      /\ Touched' <=> Touched
  BY <1>1 DEF OnItsWay, Touched
<1>4. \A i \in 1 .. Len(in') :
          First(in'[i]) = Code("hello") + 1 /\ Place(stage') <= 3 => flag'
  BY <1>1, <1>2, HeardBefore DEF FlagInv
<1>5. Place(stage') \in 2 .. 3 => flag'
  <2>1. SUFFICES ASSUME Place(stage') \in 2 .. 3, Place(stage) \notin 2 .. 3
                 PROVE  flag
    BY <1>1 DEF FlagInv
  <2>2. stage' # stage
    BY <2>1
  <2>3. GoesOn(n)
    BY <2>1, <2>2, PlacesAre DEF Hears, Stays, Repeats, NextWrite, Passes
  <2>4. stage = "hello"
    BY <1>1, <1>2, <2>1, <2>3, PlacesAre, StagesAre DEF GoesOn, Following
  <2>5. First(in[1]) = Code("hello") + 1 /\ 1 \in 1 .. Len(in)
    BY <1>1, <2>3, <2>4 DEF GoesOn, Heard, TypeOK
  <2>6. QED
    BY <2>4, <2>5, PlacesAre DEF FlagInv
<1>6. link' /\ (Place(stage') >= 6 \/ (stage' = "flag" /\ waiting')) =>
          /\ OnItsWay("override") => OnItsWay("flag")
          /\ flag \/ closed \/ OnItsWay("flag")
  <2>1. SUFFICES ASSUME link, Place(stage') >= 6 \/ (stage' = "flag" /\ waiting'),
                        ~(Place(stage) >= 6 \/ (stage = "flag" /\ waiting))
                 PROVE  /\ OnItsWay("override") => OnItsWay("flag")
                        /\ flag \/ closed \/ OnItsWay("flag")
    BY <1>1 DEF FlagInv
  <2>2. Place(stage) < 6 /\ stage # "flag" /\ stage' # stage /\ ~waiting'
    <3>1. stage' = stage => FALSE
      BY <1>1, <2>1
    <3>2. QED
      BY <1>1, <1>2, <2>1, <3>1, HearsIs
  <2>3. Place(stage') >= 6
    BY <2>1, <2>2
  <2>4. stage = "table"
    <3>1. CASE GoesOn(n)
      BY <1>2, <2>2, <2>3, <3>1, PlacesAre, StagesAre DEF GoesOn, Following
    <3>2. CASE ~GoesOn(n)
      BY <2>2, <2>3, <3>2, PlacesAre DEF Hears, Stays, Repeats, NextWrite, Passes
    <3>3. QED
      BY <3>1, <3>2
  <2>5. flag
    BY <2>4, PlacesAre DEF FlagInv
  <2>6. ~OnItsWay("override")
    BY <2>4, PlacesAre DEF Ordered, OnItsWay, At
  <2>7. QED
    BY <2>5, <2>6
<1>7. Touched => /\ Place(stage') >= 7
                 /\ \A i \in 1 .. Len(out) : At(out[i]) >= 7
                 /\ flag \/ closed
  BY <1>2 DEF FlagInv
<1>8. QED
  BY <1>1, <1>3, <1>4, <1>5, <1>6, <1>7 DEF FlagInv

LEMMA HearsExec ==
    ASSUME TypeOK, ExecInv, NEW n, Hears(n)
    PROVE  ExecInv'
<1>1. Heard(n) /\ out' = out /\ closed' = closed /\ link' = link /\ cells' = cells /\ faults' = faults
      /\ stage # "reset" /\ waiting
  BY HearsIs DEF Heard, target
<1>2. /\ Place(stage) <= Place(stage') /\ Place(stage) \in Int /\ Place(stage') \in Int
      /\ stage \in ToSet(Stages) /\ addr \in 1 .. Blocks /\ Blocks \in Nat
      /\ addr' \in 1 .. Blocks
  BY HearsIs, PlacesAre, StreamAssumption DEF TypeOK, MaxBlocks
<1>3. \A b : WriteOnItsWay(b)' <=> WriteOnItsWay(b)
  BY <1>1 DEF WriteOnItsWay
<1>4. Written' <=> Written
  BY <1>1 DEF Written
<1>5. ASSUME NEW b \in 1 .. Blocks, Place(stage') >= 7,
             b < addr' \/ (b = addr' /\ waiting') \/ Place(stage') >= 8
      PROVE  Place(stage) >= 7 /\ (b < addr \/ (b = addr /\ waiting) \/ Place(stage) >= 8)
  <2>1. CASE Stays(n)
    BY <1>1, <1>5, <2>1 DEF Stays
  <2>2. CASE Repeats(n)
    BY <1>1, <1>5, <2>2 DEF Repeats
  <2>3. CASE NextWrite(n)
    BY <1>1, <1>2, <1>5, <2>3, PlacesAre DEF NextWrite
  <2>4. CASE GoesOn(n)
    <3>1. stage \in {"open", "write", "close"}
      BY <1>1, <1>2, <1>5, <2>4, PlacesAre, StagesAre DEF GoesOn, Following
    <3>2. CASE stage = "open"
      <4>1. stage' = "write" /\ addr' = 1 /\ ~waiting'
        BY <2>4, <3>2, PlacesAre, HearsIs DEF GoesOn, Following, TypeOK
      <4>2. QED
        BY <1>5, <4>1, PlacesAre
    <3>3. CASE stage = "write"
      BY <1>1, <1>2, <2>4, <3>3, PlacesAre DEF GoesOn
    <3>4. CASE stage = "close"
      BY <3>4, PlacesAre
    <3>5. QED
      BY <3>1, <3>2, <3>3, <3>4
  <2>5. CASE Passes(n)
    BY <1>5, <2>5, PlacesAre DEF Passes
  <2>6. QED
    BY <2>1, <2>2, <2>3, <2>4, <2>5 DEF Hears
<1>6. QED
  BY <1>1, <1>3, <1>4, <1>5 DEF ExecInv

LEMMA HearsWrite ==
    ASSUME TypeOK, WriteInv, ClosedInv, NEW n, Hears(n)
    PROVE  WriteInv'
<1>1. Heard(n) /\ out' = out /\ closed' = closed /\ link' = link /\ cells' = cells /\ faults' = faults
      /\ stage # "reset" /\ waiting /\ Running
  BY HearsIs DEF Heard, target
<1>2. SUFFICES ASSUME "stream" \notin faults
               PROVE  /\ Running' /\ link /\ stage' = "write" => (Exact \/ Behind)'
                      /\ Running' /\ link /\ stage' = "close" =>
                             Written \/ (Behind' /\ (waiting' => NextIsNotClose'))
                      /\ stage' = "reset" => Written
  <2>1. Written' <=> Written
    BY <1>1 DEF Written
  <2>2. QED
    BY <1>1, <1>2, <2>1 DEF WriteInv
<1>3. /\ Len(in) \in Nat /\ Len(out) \in Nat /\ n \in 0 .. 1 /\ n <= Len(in)
      /\ Len(in') = Len(in) - n /\ in' \in Seq(Replies) /\ out \in Seq(Commands)
      /\ addr \in 1 .. Blocks /\ Blocks \in Nat /\ stage \in ToSet(Stages)
  BY <1>1, <1>2, StreamAssumption DEF Heard, TypeOK, MaxBlocks
<1>4. Outstanding' = Outstanding - n /\ Outstanding \in Nat /\ Outstanding' \in Nat
  BY <1>1, <1>3 DEF Outstanding
<1>5. Exact => Outstanding = 1
  <2>1. Exact => (in = << >> /\ out = << Frames["write"][addr] >>)
                 \/ (out = << >> /\ Len(in) = 1)
    BY <1>1 DEF Exact
  <2>2. Len(<< >>) = 0 /\ Len(<< Frames["write"][addr] >>) = 1
    OBVIOUS
  <2>3. CASE in = << >> /\ out = << Frames["write"][addr] >>
    BY <2>2, <2>3 DEF Outstanding
  <2>4. CASE out = << >> /\ Len(in) = 1
    BY <2>2, <2>4 DEF Outstanding
  <2>5. QED
    BY <2>1, <2>3, <2>4
<1>6. Behind /\ waiting /\ ~waiting' => Behind'
  BY <1>3, <1>4 DEF Behind
<1>7. CASE Stays(n)
  <2>1. Running' /\ stage' = "close" => UNCHANGED <<stage, waiting, in>>
    <3>1. Running' /\ stage' = "close" => n = 0
      BY <1>7 DEF Stays, Running
    <3>2. n = 0 => in' = in
      BY <1>1 DEF Heard
    <3>3. QED
      BY <1>7, <3>1, <3>2 DEF Stays
  <2>2. UNCHANGED <<waiting, in, out>> => (Behind' <=> Behind) /\ (NextIsNotClose' <=> NextIsNotClose)
    BY DEF Behind, NextIsNotClose, Outstanding
  <2>3. QED
    BY <1>1, <1>2, <1>7, <2>1, <2>2 DEF Stays, WriteInv, Running
<1>8. CASE Repeats(n)
  <2>1. link => Exact' \/ Behind'
    <3>1. SUFFICES ASSUME link
                   PROVE  Exact' \/ Behind'
      OBVIOUS
    <3>2. Exact \/ Behind
      BY <1>1, <1>2, <1>8, <3>1 DEF WriteInv, Repeats
    <3>3. CASE Behind
      BY <1>1, <1>6, <1>8, <3>3 DEF Repeats
    <3>4. CASE Exact
      <4>1. Behind' \/ Outstanding' = 0
        BY <1>3, <1>4, <1>5, <1>8, <3>4 DEF Behind, Repeats
      <4>2. Outstanding' = 0 => Exact'
        BY <1>1, <1>8, <3>4 DEF Exact, Repeats
      <4>3. QED
        BY <4>1, <4>2
    <3>5. QED
      BY <3>2, <3>3, <3>4
  <2>2. QED
    BY <1>8, <2>1 DEF Repeats
<1>9. ASSUME link, stage = "write", Exact, n >= 1, First(in[1]) = Code("write") + 1
      PROVE  Outstanding' = 0 /\ \A b \in 1 .. Blocks : b <= addr => cells[b] # 0
  <2>1. out = << >> /\ Len(in) = 1 /\ cells[addr] # 0
    BY <1>1, <1>3, <1>9 DEF Exact
  <2>2. Outstanding' = 0
    BY <1>3, <1>4, <1>9, <2>1 DEF Outstanding
  <2>3. QED
    BY <1>3, <1>9, <2>1, <2>2 DEF Exact
<1>10. CASE NextWrite(n)
  <2>1. link /\ (Exact \/ Behind)
    BY <1>1, <1>2, <1>10 DEF WriteInv, NextWrite, Heard
  <2>2. CASE Behind
    BY <1>1, <1>6, <1>10, <2>2 DEF NextWrite
  <2>3. CASE Exact
    <3>1. Outstanding' = 0 /\ \A b \in 1 .. Blocks : b < addr' => cells[b] # 0
      BY <1>3, <1>9, <1>10, <2>1, <2>3 DEF NextWrite
    <3>2. Exact'
      BY <1>1, <1>10, <3>1 DEF Exact, NextWrite
    <3>3. QED
      BY <1>10, <3>2 DEF NextWrite
  <2>4. QED
    BY <1>10, <2>1, <2>2, <2>3 DEF NextWrite
<1>11. CASE GoesOn(n)
  <2>1. link /\ waiting' = FALSE /\ n >= 1 /\ stage' = Following(stage)
    BY <1>11 DEF GoesOn, Heard
  <2>2. ASSUME stage' = "write"
        PROVE  Exact' \/ Behind'
    <3>1. stage = "open"
      BY <1>1, <1>3, <2>1, <2>2, StagesAre DEF Following
    <3>2. addr' = 1
      BY <1>11, <3>1, PlacesAre DEF GoesOn, TypeOK
    <3>3. Outstanding' = 0 => Exact'
      BY <2>1, <3>2 DEF Exact
    <3>4. Outstanding' # 0 => Behind'
      BY <1>3, <1>4, <2>1 DEF Behind
    <3>5. QED
      BY <3>3, <3>4
  <2>3. ASSUME stage' = "close"
        PROVE  Written \/ Behind'
    <3>1. stage = "write"
      BY <1>1, <1>3, <2>1, <2>3, StagesAre DEF Following
    <3>2. addr = Blocks /\ First(in[1]) = Code("write") + 1
      BY <1>11, <3>1 DEF GoesOn
    <3>3. Exact \/ Behind
      BY <1>1, <1>2, <2>1, <3>1 DEF WriteInv
    <3>4. CASE Behind
      BY <1>1, <1>6, <2>1, <3>4
    <3>5. CASE Exact
      BY <1>3, <1>9, <2>1, <3>1, <3>2, <3>5 DEF Written
    <3>6. QED
      BY <3>3, <3>4, <3>5
  <2>4. ASSUME stage' = "reset"
        PROVE  Written
    <3>1. stage = "close"
      BY <1>1, <1>3, <2>1, <2>4, StagesAre DEF Following
    <3>2. in # << >> /\ First(in[1]) = Code("close") + 1
      BY <1>3, <1>11, <2>1, <3>1 DEF GoesOn
    <3>3. ~NextIsNotClose
      BY <3>2 DEF NextIsNotClose
    <3>4. QED
      BY <1>1, <1>2, <2>1, <3>1, <3>3 DEF WriteInv
  <2>5. QED
    BY <2>1, <2>2, <2>3, <2>4
<1>12. CASE Passes(n)
  BY <1>12 DEF Passes
<1>13. QED
  BY <1>7, <1>8, <1>10, <1>11, <1>12 DEF Hears

-----------------------------------------------------------------------------
(* What the cable carries.                                                 *)

Sent == out' = Append(out, Frames[stage][addr])

LEMMA SentIs ==
    ASSUME TypeOK, Sent
    PROVE  /\ out' \in Seq(Commands) /\ Len(out') = Len(out) + 1 /\ out' # << >>
           /\ \A i \in 1 .. Len(out') :
                  \/ i \in 1 .. Len(out) /\ out'[i] = out[i]
                  \/ i = Len(out) + 1 /\ out'[i] = Frames[stage][addr]
           /\ out # << >> => out'[1] = out[1]
           /\ out = << >> => out' = << Frames[stage][addr] >>
           /\ \A s \in ToSet(Stages) : OnItsWay(s)' <=> OnItsWay(s) \/ s = stage
           /\ \A b \in 1 .. Blocks :
                  WriteOnItsWay(b) \/ (stage = "write" /\ b = addr) => WriteOnItsWay(b)'
<1> DEFINE f == Frames[stage][addr]
<1>1. out \in Seq(Commands) /\ stage \in ToSet(Stages) /\ addr \in 1 .. Blocks
      /\ Len(out) \in Nat /\ out' = Append(out, f)
  BY DEF TypeOK, Sent
<1>2. f \in Commands /\ StageOf(f) = stage
  BY <1>1, FramesAre, StageIs
<1> HIDE DEF f
<1>3. /\ out' \in Seq(Commands) /\ Len(out') = Len(out) + 1 /\ out' # << >>
      /\ \A i \in 1 .. Len(out) : out'[i] = out[i]
      /\ out'[Len(out) + 1] = f
  BY <1>1, <1>2, AppendProperties
<1>4. \A i \in 1 .. Len(out') :
          (i \in 1 .. Len(out) /\ out'[i] = out[i]) \/ (i = Len(out) + 1 /\ out'[i] = f)
  BY <1>1, <1>3
<1>5. out # << >> => out'[1] = out[1]
  BY <1>1, <1>3
<1>6. out = << >> => out' = << f >>
  BY <1>1
<1>7. Len(out) + 1 \in 1 .. Len(out') /\ \A i \in 1 .. Len(out) : i \in 1 .. Len(out')
  BY <1>1, <1>3
<1>8. ASSUME NEW s \in ToSet(Stages)
      PROVE  OnItsWay(s)' <=> OnItsWay(s) \/ s = stage
  BY <1>2, <1>3, <1>4, <1>7 DEF OnItsWay
<1>9. ASSUME NEW b \in 1 .. Blocks, WriteOnItsWay(b) \/ (stage = "write" /\ b = addr)
      PROVE  WriteOnItsWay(b)'
  <2>1. CASE WriteOnItsWay(b)
    BY <1>3, <1>7, <2>1 DEF WriteOnItsWay
  <2>2. CASE stage = "write" /\ b = addr
    BY <1>3, <1>7, <2>2 DEF WriteOnItsWay, f
  <2>3. QED
    BY <1>9, <2>1, <2>2
<1>10. QED
  BY <1>3, <1>4, <1>5, <1>6, <1>8, <1>9 DEF f

LEMMA SentOrdered ==
    ASSUME TypeOK, Ordered, Sent, stage' = stage
    PROVE  Ordered'
<1>1. /\ stage \in ToSet(Stages) /\ addr \in 1 .. Blocks /\ out \in Seq(Commands)
      /\ Len(out) \in Nat
  BY DEF TypeOK
<1>2. Place(stage) \in Int /\ \A i \in 1 .. Len(out) : At(out[i]) \in Int
  BY <1>1, PlacesAre, CommandsAre DEF At
<1>3. At(Frames[stage][addr]) = Place(stage)
  BY <1>1, StageIs DEF At
<1>4. /\ Len(out') = Len(out) + 1
      /\ \A i \in 1 .. Len(out') :
             \/ i \in 1 .. Len(out) /\ out'[i] = out[i]
             \/ i = Len(out) + 1 /\ out'[i] = Frames[stage][addr]
  BY SentIs
<1>5. \A i \in 1 .. Len(out') : At(out'[i]) <= Place(stage)
  BY <1>2, <1>3, <1>4 DEF Ordered
<1>6. ASSUME NEW i \in 1 .. Len(out'), NEW j \in 1 .. i
      PROVE  At(out'[j]) <= At(out'[i])
  <2>1. CASE i \in 1 .. Len(out)
    <3>1. j \in 1 .. Len(out) /\ out'[i] = out[i] /\ out'[j] = out[j]
      BY <1>1, <1>4, <2>1
    <3>2. QED
      BY <2>1, <3>1 DEF Ordered
  <2>2. CASE i = Len(out) + 1
    <3>1. out'[i] = Frames[stage][addr]
      BY <1>1, <1>4, <2>2
    <3>2. j \in 1 .. Len(out')
      BY <1>1, <1>4
    <3>3. QED
      BY <1>3, <1>5, <3>1, <3>2
  <2>3. QED
    BY <1>1, <1>4, <2>1, <2>2
<1>7. QED
  BY <1>5, <1>6 DEF Ordered

LEMMA ArrivesIs ==
    ASSUME TypeOK, NEW r \in Replies, in' = Append(in, r)
    PROVE  /\ in' \in Seq(Replies) /\ Len(in') = Len(in) + 1 /\ in' # << >>
           /\ \A i \in 1 .. Len(in') : (i \in 1 .. Len(in) /\ in'[i] = in[i]) \/ in'[i] = r
           /\ in # << >> => in'[1] = in[1]
           /\ in = << >> => in'[1] = r
<1>1. in \in Seq(Replies) /\ Len(in) \in Nat
  BY DEF TypeOK
<1>2. /\ in' \in Seq(Replies) /\ Len(in') = Len(in) + 1 /\ in' # << >>
      /\ \A i \in 1 .. Len(in) : in'[i] = in[i]
      /\ in'[Len(in) + 1] = r
  BY <1>1, AppendProperties
<1>3. \A i \in 1 .. Len(in') : (i \in 1 .. Len(in) /\ in'[i] = in[i]) \/ in'[i] = r
  BY <1>1, <1>2
<1>4. in # << >> => in'[1] = in[1]
  BY <1>1, <1>2
<1>5. in = << >> => in'[1] = r
  BY <1>1, <1>2
<1>6. QED
  BY <1>2, <1>3, <1>4, <1>5

LEMMA TakenIs ==
    ASSUME TypeOK, out # << >>, out' = Tail(out)
    PROVE  /\ out' \in Seq(Commands) /\ Len(out') = Len(out) - 1
           /\ Len(out) \in Nat \ {0} /\ out[1] \in Commands
           /\ \A i \in 1 .. Len(out') : i + 1 \in 1 .. Len(out) /\ out'[i] = out[i + 1]
           /\ \A s : OnItsWay(s) <=> OnItsWay(s)' \/ s = StageOf(out[1])
           /\ \A b : WriteOnItsWay(b) => WriteOnItsWay(b)' \/ out[1] = Frames["write"][b]
<1>1. out \in Seq(Commands)
  BY DEF TypeOK
<1>2. /\ out' \in Seq(Commands) /\ Len(out') = Len(out) - 1 /\ out[1] \in Commands
      /\ Len(out) \in Nat \ {0}
      /\ \A i \in 1 .. Len(out') : out'[i] = out[i + 1] /\ i + 1 \in 1 .. Len(out)
  BY <1>1, TailIs
<1>3. \A i \in 1 .. Len(out) : i = 1 \/ (i - 1 \in 1 .. Len(out') /\ out'[i - 1] = out[i])
  BY <1>2
<1>4. ASSUME NEW s
      PROVE  OnItsWay(s) <=> OnItsWay(s)' \/ s = StageOf(out[1])
  <2>1. OnItsWay(s) => OnItsWay(s)' \/ s = StageOf(out[1])
    BY <1>3 DEF OnItsWay
  <2>2. OnItsWay(s)' => OnItsWay(s)
    BY <1>2 DEF OnItsWay
  <2>3. 1 \in 1 .. Len(out)
    BY <1>2
  <2>4. s = StageOf(out[1]) => OnItsWay(s)
    BY <2>3 DEF OnItsWay
  <2>5. QED
    BY <2>1, <2>2, <2>4
<1>5. ASSUME NEW b, WriteOnItsWay(b)
      PROVE  WriteOnItsWay(b)' \/ out[1] = Frames["write"][b]
  BY <1>3, <1>5 DEF WriteOnItsWay
<1>6. QED
  BY <1>2, <1>4, <1>5

LEMMA TakenOrdered ==
    ASSUME TypeOK, Ordered, out # << >>, out' = Tail(out), stage' = stage
    PROVE  Ordered' /\ \A i \in 1 .. Len(out') : At(out[1]) <= At(out'[i])
<1>1. /\ Len(out') = Len(out) - 1 /\ Len(out) \in Nat \ {0}
      /\ \A i \in 1 .. Len(out') : i + 1 \in 1 .. Len(out) /\ out'[i] = out[i + 1]
  BY TakenIs
<1>2. ASSUME NEW i \in 1 .. Len(out')
      PROVE  At(out'[i]) <= Place(stage)
  BY <1>1 DEF Ordered
<1>3. ASSUME NEW i \in 1 .. Len(out'), NEW j \in 1 .. i
      PROVE  At(out'[j]) <= At(out'[i])
  <2>1. j \in 1 .. Len(out') /\ j + 1 \in 1 .. i + 1 /\ i + 1 \in 1 .. Len(out)
    BY <1>1
  <2>2. At(out[j + 1]) <= At(out[i + 1])
    BY <2>1 DEF Ordered
  <2>3. QED
    BY <1>1, <2>1, <2>2
<1>4. ASSUME NEW i \in 1 .. Len(out')
      PROVE  At(out[1]) <= At(out'[i])
  <2>1. i + 1 \in 1 .. Len(out) /\ 1 \in 1 .. i + 1
    BY <1>1
  <2>2. QED
    BY <1>1, <2>1 DEF Ordered
<1>5. QED
  BY <1>2, <1>3, <1>4 DEF Ordered

\* The loader has executed command s, of packet a if it is a write.
Obeyed(s, a) ==
    /\ link /\ out # << >> /\ out[1] = Frames[s][a] /\ out' = Tail(out)
    /\ UNCHANGED <<faults, host, link>>
    /\ s = "reset" => in' = in
    /\ s # "reset" => in' = Append(in, AnswerTo(s, a))
    /\ s \in {"hello", "flag"} => flag'
    /\ s \notin {"hello", "flag", "override", "reset"} => flag' = flag
    /\ s = "close" => closed'
    /\ s # "close" => closed' = closed
    /\ cells' = IF s = "write" THEN [cells EXCEPT ![a] = Flag] ELSE cells
    /\ flag' \in BOOLEAN /\ differs' \in BOOLEAN /\ closed' \in BOOLEAN

LEMMA HeadIs ==
    ASSUME TypeOK, out # << >>
    PROVE  \E s \in ToSet(Stages), a \in 1 .. Blocks :
               out[1] = Frames[s][a] /\ Name = s /\ Command = Packet(s, a)
<1>1. Head(out) = out[1] /\ out[1] \in Commands
  <2>1. out \in Seq(Commands)
    BY DEF TypeOK
  <2>2. QED
    BY <2>1, TailIs
<1>2. PICK s \in ToSet(Stages), a \in 1 .. Blocks : out[1] = Frames[s][a]
  BY <1>1, CommandsAre
<1>3. QED
  BY <1>1, <1>2, CommandIs

LEMMA ObeyIs ==
    ASSUME TypeOK, Obey
    PROVE  \E s \in ToSet(Stages), a \in 1 .. Blocks : Obeyed(s, a)
<1>1. link /\ out # << >> /\ out' = Tail(out) /\ UNCHANGED <<faults, host, link>>
  BY DEF Obey, Take
<1>2. PICK s \in ToSet(Stages), a \in 1 .. Blocks :
          out[1] = Frames[s][a] /\ Name = s /\ Command = Packet(s, a)
  BY <1>1, HeadIs
<1>3. /\ s = "reset" => in' = in
      /\ s # "reset" => in' = Append(in, AnswerTo(s, a))
  BY <1>2 DEF Obey, AnswerTo
<1>4. /\ s \in {"hello", "flag"} => flag' = TRUE
      /\ s \in {"override", "reset"} => flag' = FALSE
      /\ s \notin {"hello", "flag", "override", "reset"} => flag' = flag
  BY <1>2 DEF Obey
<1>5. flag' \in BOOLEAN
  BY <1>4 DEF TypeOK
<1>6. closed' = (closed \/ s = "close") /\ differs' = (differs /\ s # "override")
  BY <1>2, Zenon DEF Obey
<1>7. closed' \in BOOLEAN /\ differs' \in BOOLEAN
  BY <1>6, Zenon
<1>8. /\ s = "close" => closed'
      /\ s # "close" => closed' = closed
  BY <1>6, Zenon DEF TypeOK
<1>9. cells' = IF s = "write" THEN [cells EXCEPT ![a] = Flag] ELSE cells
  <2>1. s = "write" => Command[3] \div 4 + 1 = a /\ Command[6] = Flag
    <3>1. s = "write" => Command[3] = 4 * (a - 1) /\ Command[6] = Flag
      BY <1>2, PacketIs
    <3>2. (4 * (a - 1)) \div 4 = a - 1
      OBVIOUS
    <3>3. QED
      BY <3>1, <3>2
  <2>2. QED
    BY <1>2, <2>1 DEF Obey
<1>10. QED
  BY <1>1, <1>2, <1>3, <1>4, <1>5, <1>7, <1>8, <1>9 DEF Obeyed

-----------------------------------------------------------------------------
(* The steps of the host that send.                                        *)

LEMMA SendKeeps ==
    ASSUME IInv, Send
    PROVE  IInv'
<1>1. /\ Running /\ ~waiting /\ stage # "reset" /\ link /\ Sent
      /\ waiting' = TRUE /\ stage' = stage /\ addr' = addr /\ result' = result
      /\ in' = in /\ UNCHANGED <<faults, link, flag, differs, cells, closed>>
  BY DEF Send, Sent, target
<1>2. TypeOK /\ Ordered /\ ClosedInv /\ FlagInv /\ ExecInv /\ WriteInv
  BY DEF IInv
<1>3. /\ out' \in Seq(Commands) /\ Len(out') = Len(out) + 1 /\ out' # << >>
      /\ \A i \in 1 .. Len(out') :
             \/ i \in 1 .. Len(out) /\ out'[i] = out[i]
             \/ i = Len(out) + 1 /\ out'[i] = Frames[stage][addr]
      /\ out # << >> => out'[1] = out[1]
      /\ out = << >> => out' = << Frames[stage][addr] >>
      /\ \A s \in ToSet(Stages) : OnItsWay(s)' <=> OnItsWay(s) \/ s = stage
      /\ \A b \in 1 .. Blocks :
             WriteOnItsWay(b) \/ (stage = "write" /\ b = addr) => WriteOnItsWay(b)'
  BY <1>1, <1>2, SentIs
<1>4. /\ stage \in ToSet(Stages) /\ addr \in 1 .. Blocks /\ Len(out) \in Nat /\ Len(in) \in Nat
      /\ in \in Seq(Replies) /\ out \in Seq(Commands) /\ Place(stage) \in Int
      /\ {"override", "flag", "close", "reset"} \subseteq ToSet(Stages)
  BY <1>2, PlacesAre, StagesAre DEF TypeOK
<1>5. TypeOK'
  BY <1>1, <1>2, <1>3 DEF TypeOK
<1>6. Ordered'
  BY <1>1, <1>2, SentOrdered
<1>7. ClosedInv'
  <2>1. ~OnItsWay("close") /\ ~closed
    BY <1>1, <1>2 DEF ClosedInv
  <2>2. ~OnItsWay("reset")'
    BY <1>1, <1>2, <1>3, <1>4, <2>1 DEF ClosedInv
  <2>3. OnItsWay("close")' => stage = "close"
    BY <1>3, <1>4, <2>1
  <2>4. QED
    BY <1>1, <1>2, <2>1, <2>2, <2>3 DEF ClosedInv
<1>8. FlagInv'
  <2>1. link' /\ (Place(stage') >= 6 \/ (stage' = "flag" /\ waiting')) =>
           /\ OnItsWay("override")' => OnItsWay("flag")'
           /\ flag' \/ closed' \/ OnItsWay("flag")'
    <3>1. CASE stage = "flag"
      BY <1>3, <1>4, <3>1
    <3>2. CASE Place(stage) >= 6
      BY <1>1, <1>2, <1>3, <1>4, <3>2, PlacesAre DEF FlagInv
    <3>3. QED
      BY <1>1, <3>1, <3>2
  <2>2. Touched' <=> Touched
    BY <1>1 DEF Touched
  <2>3. Touched => \A i \in 1 .. Len(out') : At(out'[i]) >= 7
    BY <1>2, <1>3, <1>4, StageIs DEF FlagInv, At
  <2>4. QED
    BY <1>1, <1>2, <2>1, <2>2, <2>3 DEF FlagInv
<1>9. ExecInv'
  <2>1. Written' <=> Written
    BY <1>1 DEF Written
  <2>2. ASSUME "nak" \notin faults, Place(stage) >= 7, NEW b \in 1 .. Blocks,
               b < addr \/ b = addr \/ Place(stage) >= 8
        PROVE  cells[b] # 0 \/ WriteOnItsWay(b)'
    <3>1. CASE b < addr \/ Place(stage) >= 8
      BY <1>1, <1>2, <1>3, <2>2, <3>1 DEF ExecInv
    <3>2. CASE b = addr /\ ~(Place(stage) >= 8)
      <4>1. stage = "write"
        BY <1>4, <2>2, <3>2, StagesAre, PlacesAre
      <4>2. QED
        BY <1>3, <3>2, <4>1
    <3>3. QED
      BY <2>2, <3>1, <3>2
  <2>3. QED
    BY <1>1, <1>2, <2>1, <2>2 DEF ExecInv
<1>10. WriteInv'
  <2>1. SUFFICES ASSUME "stream" \notin faults
                 PROVE  /\ Running' /\ stage = "write" => (Exact \/ Behind)'
                        /\ Running' /\ stage = "close" =>
                               Written \/ (Behind' /\ NextIsNotClose')
                        /\ stage = "reset" => Written
    <3>1. Written' <=> Written
      BY <1>1 DEF Written
    <3>2. QED
      BY <1>1, <2>1, <3>1 DEF WriteInv
  <2>2. Outstanding' = Outstanding + 1 /\ Outstanding \in Nat
    BY <1>1, <1>3, <1>4 DEF Outstanding
  <2>3. Behind => Behind'
    BY <1>1, <2>2 DEF Behind
  <2>4. ASSUME stage = "write", Exact
        PROVE  Exact'
    <3>1. Len(in) = 0 /\ Len(out) = 0
      BY <1>1, <1>4, <2>4 DEF Exact, Outstanding
    <3>2. in = << >> /\ out' = << Frames["write"][addr] >>
      BY <1>3, <1>4, <2>4, <3>1
    <3>3. QED
      BY <1>1, <2>4, <3>2 DEF Exact
  <2>5. ASSUME stage = "close", Behind
        PROVE  NextIsNotClose'
    <3>1. ~OnItsWay("close") /\ ~closed
      BY <1>1, <1>2 DEF ClosedInv
    <3>2. in # << >> => First(in[1]) # Code("close") + 1
      BY <1>2, <1>4, <3>1 DEF ClosedInv
    <3>3. in = << >> => out'[1] = out[1] /\ StageOf(out[1]) # "close"
      <4>1. in = << >> => Len(out) > 0
        BY <1>1, <1>4, <2>5 DEF Behind, Outstanding
      <4>2. in = << >> => out # << >> /\ 1 \in 1 .. Len(out)
        BY <1>4, <4>1
      <4>3. QED
        BY <1>3, <3>1, <4>2 DEF OnItsWay
    <3>4. QED
      BY <1>1, <3>2, <3>3 DEF NextIsNotClose
  <2>6. QED
    BY <1>1, <1>2, <2>1, <2>3, <2>4, <2>5 DEF WriteInv, Running
<1>11. QED
  BY <1>5, <1>6, <1>7, <1>8, <1>9, <1>10 DEF IInv

LEMMA SendFailsKeeps ==
    ASSUME IInv, SendFails
    PROVE  IInv'
<1>1. /\ Running /\ ~waiting /\ stage # "reset" /\ ~link
      /\ stage' = stage /\ addr' = addr
      /\ out' = out /\ in' = in /\ UNCHANGED <<faults, link, flag, differs, cells, closed>>
  BY DEF SendFails, wire, target
<1>2. TypeOK /\ Ordered /\ ClosedInv /\ FlagInv /\ ExecInv /\ WriteInv
  BY DEF IInv
<1>3. waiting' \in BOOLEAN /\ result' \in {"running", "false"}
  BY <1>1, <1>2 DEF SendFails, TypeOK, Running
<1>4. TypeOK'
  BY <1>1, <1>2, <1>3 DEF TypeOK
<1>5. Ordered' /\ ClosedInv'
  <2>1. \A s : OnItsWay(s)' <=> OnItsWay(s)
    BY <1>1 DEF OnItsWay
  <2>2. QED
    BY <1>1, <1>2, <2>1 DEF Ordered, ClosedInv
<1>6. (Touched' <=> Touched) /\ (Written' <=> Written)
  BY <1>1 DEF Touched, Written
<1>7. FlagInv'
  BY <1>1, <1>2, <1>6 DEF FlagInv
<1>8. ExecInv' /\ WriteInv'
  BY <1>1, <1>2, <1>6 DEF ExecInv, WriteInv
<1>9. QED
  BY <1>4, <1>5, <1>7, <1>8 DEF IInv

LEMMA ResetKeeps ==
    ASSUME IInv, Reset
    PROVE  IInv'
<1>1. /\ stage = "reset" /\ stage' = stage /\ waiting' = waiting /\ addr' = addr
      /\ result' = "true" /\ in' = in /\ UNCHANGED <<faults, link, flag, differs, cells, closed>>
      /\ (link /\ Sent) \/ (~link /\ out' = out)
  BY DEF Reset, Sent, target
<1>2. TypeOK /\ Ordered /\ ClosedInv /\ FlagInv /\ ExecInv /\ WriteInv
  BY DEF IInv
<1>3. (Touched' <=> Touched) /\ (Written' <=> Written)
  BY <1>1 DEF Touched, Written
<1>4. closed /\ (Place(stage) = 9)
  BY <1>1, <1>2, PlacesAre DEF ClosedInv
<1>5. WriteInv'
  BY <1>1, <1>2, <1>3 DEF WriteInv
<1>6. CASE ~link
  <2>1. \A s : OnItsWay(s)' <=> OnItsWay(s)
    BY <1>1, <1>6 DEF OnItsWay
  <2>2. TypeOK' /\ Ordered' /\ ClosedInv'
    BY <1>1, <1>2, <1>6, <2>1 DEF TypeOK, Ordered, ClosedInv
  <2>3. FlagInv' /\ ExecInv'
    BY <1>1, <1>2, <1>3, <1>6 DEF FlagInv, ExecInv
  <2>4. QED
    BY <1>5, <2>2, <2>3 DEF IInv
<1>7. CASE link
  <2>1. /\ out' \in Seq(Commands) /\ Len(out') = Len(out) + 1
        /\ \A i \in 1 .. Len(out') :
               \/ i \in 1 .. Len(out) /\ out'[i] = out[i]
               \/ i = Len(out) + 1 /\ out'[i] = Frames[stage][addr]
        /\ \A s \in ToSet(Stages) : OnItsWay(s)' <=> OnItsWay(s) \/ s = stage
        /\ \A b \in 1 .. Blocks : WriteOnItsWay(b) => WriteOnItsWay(b)'
    BY <1>1, <1>2, <1>7, SentIs
  <2>2. TypeOK'
    BY <1>1, <1>2, <2>1 DEF TypeOK
  <2>3. Ordered'
    BY <1>1, <1>2, <1>7, SentOrdered
  <2>4. ClosedInv'
    BY <1>1, <1>2, <1>4 DEF ClosedInv
  <2>5. FlagInv'
    <3>1. OnItsWay("override")' => OnItsWay("override")
      BY <1>1, <2>1, StagesAre
    <3>2. OnItsWay("flag") => OnItsWay("flag")'
      BY <2>1, StagesAre
    <3>3. \A i \in 1 .. Len(out') : At(out'[i]) >= 7 \/ (i \in 1 .. Len(out) /\ out'[i] = out[i])
      BY <1>1, <1>2, <1>4, <2>1, StageIs DEF At, TypeOK
    <3>4. Touched => \A i \in 1 .. Len(out') : At(out'[i]) >= 7
      BY <1>2, <3>3 DEF FlagInv
    <3>5. QED
      BY <1>1, <1>2, <1>3, <1>4, <1>7, <3>1, <3>2, <3>4 DEF FlagInv
  <2>6. ExecInv'
    BY <1>1, <1>2, <1>3, <2>1 DEF ExecInv
  <2>7. QED
    BY <1>5, <2>2, <2>3, <2>4, <2>5, <2>6 DEF IInv
<1>8. QED
  BY <1>6, <1>7 DEF IInv, TypeOK

LEMMA ListensKeeps ==
    ASSUME IInv, Whole, Listens
    PROVE  IInv'
<1>1. TypeOK /\ Ordered /\ ClosedInv /\ FlagInv /\ ExecInv /\ WriteInv
  BY DEF IInv
<1>2. PICK n \in 0 .. Len(in) : Hears(n)
  BY <1>1, ListensIs DEF Hears
<1>3. QED
  BY <1>1, <1>2, HearsType, HearsOrdered, HearsClosed, HearsFlag, HearsExec, HearsWrite DEF IInv

-----------------------------------------------------------------------------
(* The steps of the loader, and of the cable.                              *)

LEMMA RepliesTyped ==
    /\ \A s \in ToSet(Stages), a \in 1 .. Blocks : AnswerTo(s, a) \in Replies
    /\ Refusal \in Replies /\ \A code \in {ErrorRsp, CmdLog} : Unasked[code] \in Replies
    /\ \A r \in {Refusal, Unasked[ErrorRsp], Unasked[CmdLog]}, s \in {"hello", "write", "close"} :
           First(r) # Code(s) + 1
    /\ \A s \in ToSet(Stages), t \in {"hello", "write", "close"}, a \in 1 .. Blocks :
           First(AnswerTo(s, a)) = Code(t) + 1 => s = t
<1>1. /\ \A s \in ToSet(Stages), a \in 1 .. Blocks : AnswerTo(s, a) \in Replies
      /\ Refusal \in Replies /\ \A code \in {ErrorRsp, CmdLog} : Unasked[code] \in Replies
  BY DEF Replies
<1>2. First(Refusal) = 26 /\ First(Unasked[ErrorRsp]) = 13 /\ First(Unasked[CmdLog]) = 14
  BY FramingAssumption DEF First, Code, ErrorRsp, CmdLog
<1>3. Code("hello") = 1 /\ Code("write") = 7 /\ Code("close") = 21
  BY DEF Code
<1>4. \A s \in ToSet(Stages), a \in 1 .. Blocks : First(AnswerTo(s, a)) = Code(s) + 1
  BY FramesAre
<1>5. \A s \in ToSet(Stages), t \in {"hello", "write", "close"} :
          Code(s) + 1 = Code(t) + 1 => s = t
  BY StagesAre DEF Code
<1>6. QED
  BY <1>1, <1>2, <1>3, <1>4, <1>5

LEMMA ObeyKeeps ==
    ASSUME IInv, Obey
    PROVE  IInv'
<1>1. PICK s \in ToSet(Stages), a \in 1 .. Blocks : Obeyed(s, a)
  BY ObeyIs DEF IInv
<1>2. TypeOK /\ Ordered /\ ClosedInv /\ FlagInv /\ ExecInv /\ WriteInv
  BY DEF IInv
<1>3. /\ link /\ out # << >> /\ out[1] = Frames[s][a] /\ out' = Tail(out)
      /\ stage' = stage /\ waiting' = waiting /\ addr' = addr /\ result' = result
      /\ faults' = faults /\ link' = link
  BY <1>1 DEF Obeyed, host
<1>4. /\ out' \in Seq(Commands) /\ Len(out') = Len(out) - 1
      /\ Len(out) \in Nat \ {0} /\ out[1] \in Commands
      /\ \A i \in 1 .. Len(out') : i + 1 \in 1 .. Len(out) /\ out'[i] = out[i + 1]
      /\ \A t : OnItsWay(t) <=> OnItsWay(t)' \/ t = StageOf(out[1])
      /\ \A b : WriteOnItsWay(b) => WriteOnItsWay(b)' \/ out[1] = Frames["write"][b]
  BY <1>2, <1>3, TakenIs
<1>5. StageOf(out[1]) = s
  BY <1>3, StageIs
<1>6. /\ stage \in ToSet(Stages) /\ addr \in 1 .. Blocks /\ Len(in) \in Nat
      /\ in \in Seq(Replies) /\ Place(stage) \in Int /\ Place(s) \in 1 .. 9
      /\ out \in Seq(Commands) /\ waiting \in BOOLEAN /\ cells \in [1 .. Blocks -> {0, Flag}]
      /\ flag \in BOOLEAN /\ closed \in BOOLEAN
  BY <1>2, PlacesAre DEF TypeOK
<1>7. /\ in' \in Seq(Replies)
      /\ s # "reset" => /\ Len(in') = Len(in) + 1 /\ in' # << >>
                        /\ in # << >> => in'[1] = in[1]
                        /\ in = << >> => in'[1] = AnswerTo(s, a)
      /\ \A i \in 1 .. Len(in') :
             (i \in 1 .. Len(in) /\ in'[i] = in[i]) \/ (s # "reset" /\ in'[i] = AnswerTo(s, a))
  <2>1. CASE s = "reset"
    BY <1>1, <1>6, <2>1 DEF Obeyed
  <2>2. CASE s # "reset"
    <3>1. in' = Append(in, AnswerTo(s, a)) /\ AnswerTo(s, a) \in Replies
      BY <1>1, <2>2, RepliesTyped DEF Obeyed
    <3>2. QED
      BY <1>2, <2>2, <3>1, ArrivesIs
  <2>3. QED
    BY <2>1, <2>2
<1>8. cells' \in [1 .. Blocks -> {0, Flag}]
      /\ \A b \in 1 .. Blocks : cells'[b] = IF s = "write" /\ b = a THEN Flag ELSE cells[b]
  BY <1>1, <1>6 DEF Obeyed
<1>9. flag' \in BOOLEAN /\ differs' \in BOOLEAN /\ closed' \in BOOLEAN
  BY <1>1 DEF Obeyed
<1>10. TypeOK'
  BY <1>2, <1>3, <1>4, <1>7, <1>8, <1>9 DEF TypeOK
<1>11. Ordered' /\ \A i \in 1 .. Len(out') : At(out[1]) <= At(out'[i])
  BY <1>2, <1>3, TakenOrdered
<1>12. At(out[1]) = Place(s) /\ Place(s) <= Place(stage)
  <2>1. 1 \in 1 .. Len(out)
    BY <1>4
  <2>2. QED
    BY <1>2, <1>5, <2>1 DEF At, Ordered
<1>13. \A t \in ToSet(Stages) : Place(t) < Place(s) => ~OnItsWay(t)'
  <2>1. SUFFICES ASSUME NEW t \in ToSet(Stages), Place(t) < Place(s), OnItsWay(t)'
                 PROVE  FALSE
    OBVIOUS
  <2>2. PICK i \in 1 .. Len(out') : StageOf(out'[i]) = t
    BY <2>1 DEF OnItsWay
  <2>3. Place(s) <= Place(t)
    BY <1>11, <1>12, <2>2 DEF At
  <2>4. Place(t) \in Int /\ Place(s) \in Int
    BY <2>1, PlacesAre
  <2>5. QED
    BY <2>1, <2>3, <2>4
<1>14. /\ closed => closed'
       /\ closed' => closed \/ s = "close"
  BY <1>1, <1>6, <1>9 DEF Obeyed
<1>15. Flag # 0 /\ \A b \in 1 .. Blocks : cells[b] # 0 => cells'[b] # 0
  BY <1>8 DEF Flag
<1>16. Written => Written'
  BY <1>15 DEF Written
<1>17. ClosedInv'
  <2>1. ASSUME NEW i \in 1 .. Len(in'), First(in'[i]) = Code("close") + 1
        PROVE  closed'
    <3>1. CASE i \in 1 .. Len(in) /\ in'[i] = in[i]
      BY <1>2, <1>14, <2>1, <3>1 DEF ClosedInv
    <3>2. CASE in'[i] = AnswerTo(s, a)
      <4>1. s = "close"
        BY <2>1, <3>2, RepliesTyped
      <4>2. QED
        BY <1>1, <4>1 DEF Obeyed
    <3>3. QED
      BY <1>7, <3>1, <3>2
  <2>2. stage' = "reset" \/ OnItsWay("reset")' => closed'
    BY <1>2, <1>3, <1>4, <1>14 DEF ClosedInv
  <2>3. OnItsWay("close")' \/ closed' => (stage = "close" /\ waiting) \/ stage = "reset"
    BY <1>2, <1>4, <1>5, <1>14 DEF ClosedInv
  <2>4. QED
    BY <1>3, <2>1, <2>2, <2>3 DEF ClosedInv
<1>18. s = "reset" => stage = "reset"
  <2>1. \A t \in ToSet(Stages) : Place(t) = 9 => t = "reset"
    BY StagesAre, PlacesAre
  <2>2. s = "reset" => Place(stage) >= 9 /\ Place(stage) \in 1 .. 9
    BY <1>6, <1>12, PlacesAre
  <2>3. QED
    BY <1>6, <2>1, <2>2
<1>19. FlagInv'
  <2>1. \A i \in 1 .. Len(in') :
            First(in'[i]) = Code("hello") + 1 /\ Place(stage) <= 3 => flag'
    <3>1. SUFFICES ASSUME NEW i \in 1 .. Len(in'), First(in'[i]) = Code("hello") + 1,
                          Place(stage) <= 3
                   PROVE  flag'
      OBVIOUS
    <3>2. s \notin {"override", "reset"}
      BY <1>6, <1>12, <3>1, PlacesAre
    <3>3. CASE i \in 1 .. Len(in) /\ in'[i] = in[i]
      <4>1. flag
        BY <1>2, <3>1, <3>3 DEF FlagInv
      <4>2. QED
        BY <1>1, <1>6, <3>2, <4>1 DEF Obeyed
    <3>4. CASE in'[i] = AnswerTo(s, a)
      <4>1. s = "hello"
        BY <3>1, <3>4, RepliesTyped
      <4>2. QED
        BY <1>1, <4>1 DEF Obeyed
    <3>5. QED
      BY <1>7, <3>3, <3>4
  <2>2. Place(stage) \in 2 .. 3 => flag'
    <3>1. SUFFICES ASSUME Place(stage) \in 2 .. 3
                   PROVE  flag'
      OBVIOUS
    <3>2. s \notin {"override", "reset"}
      BY <1>6, <1>12, <3>1, PlacesAre
    <3>3. flag
      BY <1>2, <3>1 DEF FlagInv
    <3>4. QED
      BY <1>1, <1>6, <3>2, <3>3 DEF Obeyed
  <2>3. Place(stage) >= 6 \/ (stage = "flag" /\ waiting) =>
            /\ OnItsWay("override")' => OnItsWay("flag")'
            /\ flag' \/ closed' \/ OnItsWay("flag")'
    <3>1. SUFFICES ASSUME Place(stage) >= 6 \/ (stage = "flag" /\ waiting)
                   PROVE  /\ OnItsWay("override")' => OnItsWay("flag")'
                          /\ flag' \/ closed' \/ OnItsWay("flag")'
      OBVIOUS
    <3>2. /\ OnItsWay("override") => OnItsWay("flag")
          /\ flag \/ closed \/ OnItsWay("flag")
      BY <1>2, <1>3, <3>1 DEF FlagInv
    <3>3. CASE s = "flag"
      <4>1. ~OnItsWay("override")'
        BY <1>13, <3>3, PlacesAre, StagesAre
      <4>2. flag'
        BY <1>1, <3>3 DEF Obeyed
      <4>3. QED
        BY <4>1, <4>2
    <3>4. CASE s = "override"
      <4>1. OnItsWay("flag")'
        BY <1>4, <1>5, <3>2, <3>4
      <4>2. QED
        BY <4>1
    <3>5. CASE s = "reset"
      <4>1. closed'
        BY <1>2, <1>4, <1>5, <1>14, <3>5 DEF ClosedInv
      <4>2. ~OnItsWay("override")'
        BY <1>13, <3>5, PlacesAre, StagesAre
      <4>3. QED
        BY <4>1, <4>2
    <3>6. CASE s \notin {"flag", "override", "reset"}
      <4>1. flag => flag'
        BY <1>1, <1>6, <3>6 DEF Obeyed
      <4>2. OnItsWay("flag")' <=> OnItsWay("flag")
        BY <1>4, <1>5, <3>6
      <4>3. OnItsWay("override")' => OnItsWay("override")
        BY <1>4
      <4>4. QED
        BY <1>14, <3>2, <4>1, <4>2, <4>3
    <3>7. QED
      BY <3>3, <3>4, <3>5, <3>6
  <2>4. ASSUME Touched'
        PROVE  /\ Place(stage) >= 7
               /\ \A i \in 1 .. Len(out') : At(out'[i]) >= 7
               /\ flag' \/ closed'
    <3>1. CASE Touched
      <4>1. /\ Place(stage) >= 7
            /\ flag \/ closed
            /\ \A i \in 1 .. Len(out) : At(out[i]) >= 7
        BY <1>2, <3>1 DEF FlagInv
      <4>2. \A i \in 1 .. Len(out') : At(out'[i]) >= 7
        BY <1>4, <4>1
      <4>3. Place(s) >= 7
        <5>1. 1 \in 1 .. Len(out)
          BY <1>4
        <5>2. QED
          BY <1>12, <4>1, <5>1
      <4>4. flag' \/ closed'
        <5>1. s # "override" /\ s # "hello" /\ s # "flag"
          BY <4>3, PlacesAre
        <5>2. s = "reset" => closed'
          BY <1>2, <1>4, <1>5, <1>14 DEF ClosedInv
        <5>3. s # "reset" /\ flag => flag'
          BY <1>1, <1>6, <5>1 DEF Obeyed
        <5>4. QED
          BY <1>14, <4>1, <5>2, <5>3
      <4>5. QED
        BY <4>1, <4>2, <4>4
    <3>2. CASE ~Touched
      <4>1. s = "write"
        BY <1>8, <2>4, <3>2 DEF Touched
      <4>2. Place(stage) >= 7
        BY <1>6, <1>12, <4>1, PlacesAre
      <4>3. \A i \in 1 .. Len(out') : At(out'[i]) >= 7
        BY <1>11, <1>12, <4>1, PlacesAre
      <4>4. ~OnItsWay("flag")'
        BY <1>13, <4>1, PlacesAre, StagesAre
      <4>5. ~OnItsWay("flag")
        BY <1>4, <1>5, <4>1, <4>4
      <4>6. flag \/ closed
        BY <1>2, <1>3, <1>6, <4>2, <4>5 DEF FlagInv
      <4>7. flag => flag'
        BY <1>1, <1>6, <4>1 DEF Obeyed
      <4>8. QED
        BY <1>14, <4>2, <4>3, <4>6, <4>7
    <3>3. QED
      BY <3>1, <3>2
  <2>5. QED
    BY <1>3, <2>1, <2>2, <2>3, <2>4 DEF FlagInv
<1>20. ExecInv'
  <2>1. SUFFICES ASSUME "nak" \notin faults
                 PROVE  /\ closed' => Written'
                        /\ Place(stage) >= 7 =>
                               \A b \in 1 .. Blocks :
                                   b < addr \/ (b = addr /\ waiting) \/ Place(stage) >= 8
                                       => cells'[b] # 0 \/ WriteOnItsWay(b)'
    BY <1>3, <2>1 DEF ExecInv
  <2>2. ASSUME NEW b \in 1 .. Blocks, cells[b] # 0 \/ WriteOnItsWay(b)
        PROVE  cells'[b] # 0 \/ WriteOnItsWay(b)'
    <3>1. CASE cells[b] # 0
      BY <1>15, <3>1
    <3>2. CASE WriteOnItsWay(b) /\ ~WriteOnItsWay(b)'
      <4>1. Frames[s][a] = Frames["write"][b] /\ "write" \in ToSet(Stages)
        BY <1>3, <1>4, <3>2, StagesAre
      <4>2. s = "write" /\ a = b
        BY <4>1, FramesDiffer
      <4>3. QED
        BY <1>8, <1>15, <4>2
    <3>3. QED
      BY <2>2, <3>1, <3>2
  <2>3. closed' => Written'
    <3>1. CASE closed
      BY <1>2, <1>16, <2>1, <3>1 DEF ExecInv
    <3>2. CASE s = "close"
      <4>1. Place(stage) >= 8
        BY <1>6, <1>12, <3>2, PlacesAre
      <4>2. \A b \in 1 .. Blocks : cells[b] # 0 \/ WriteOnItsWay(b)
        BY <1>2, <1>3, <1>6, <2>1, <4>1 DEF ExecInv
      <4>3. ~OnItsWay("write")'
        BY <1>13, <3>2, PlacesAre, StagesAre
      <4>4. \A b \in 1 .. Blocks : ~WriteOnItsWay(b)'
        BY <4>3, StageIs, StagesAre DEF WriteOnItsWay, OnItsWay
      <4>5. QED
        BY <2>2, <4>2, <4>4 DEF Written
    <3>3. QED
      BY <1>14, <3>1, <3>2
  <2>4. QED
    BY <1>2, <1>3, <2>1, <2>2, <2>3 DEF ExecInv
<1>21. WriteInv'
  <2>1. SUFFICES ASSUME "stream" \notin faults
                 PROVE  /\ Running /\ stage = "write" => Exact' \/ Behind'
                        /\ Running /\ stage = "close" =>
                               Written' \/ (Behind' /\ (waiting => NextIsNotClose'))
                        /\ stage = "reset" => Written'
    <3>1. Running' <=> Running
      BY <1>3 DEF Running
    <3>2. QED
      BY <1>3, <2>1, <3>1 DEF WriteInv
  <2>2. s = "reset" => stage = "reset"
    BY <1>18
  <2>3. s # "reset" => Outstanding' = Outstanding
    <3>1. Len(in) \in Int /\ Len(out) \in Int /\ Len(out') = Len(out) - 1
      BY <1>4, <1>6
    <3>2. s # "reset" => Len(in') = Len(in) + 1
      BY <1>7
    <3>3. QED
      BY <3>1, <3>2 DEF Outstanding
  <2>4. s # "reset" /\ Behind => Behind'
    BY <1>3, <2>3 DEF Behind
  <2>5. ASSUME stage = "write", Exact
        PROVE  Exact'
    <3>1. s # "reset" /\ \A b \in 1 .. Blocks : b < addr => cells'[b] # 0
      BY <1>15, <2>2, <2>5 DEF Exact
    <3>2. CASE ~waiting
      BY <1>3, <2>3, <2>5, <3>1, <3>2 DEF Exact
    <3>3. CASE waiting
      <4>1. in = << >> /\ out = << Frames["write"][addr] >>
        BY <1>3, <2>5, <3>3 DEF Exact
      <4>2. out[1] = Frames["write"][addr] /\ Len(out) = 1 /\ Len(in) = 0
        BY <4>1
      <4>3. s = "write" /\ a = addr
        <5>1. Frames[s][a] = Frames["write"][addr] /\ "write" \in ToSet(Stages)
          BY <1>3, <4>2, StagesAre
        <5>2. QED
          BY <1>6, <5>1, FramesDiffer
      <4>4. cells'[addr] # 0
        BY <1>6, <1>8, <1>15, <4>3
      <4>5. out' = << >> /\ Len(in') = 1
        BY <1>3, <1>4, <1>7, <3>1, <4>1, <4>2
      <4>6. QED
        BY <1>3, <3>1, <3>3, <4>4, <4>5 DEF Exact
    <3>4. QED
      BY <3>2, <3>3
  <2>6. s # "reset" /\ waiting /\ NextIsNotClose => NextIsNotClose'
    <3>1. SUFFICES ASSUME s # "reset", NextIsNotClose
                   PROVE  NextIsNotClose'
      OBVIOUS
    <3>2. CASE in # << >>
      BY <1>7, <3>1, <3>2 DEF NextIsNotClose
    <3>3. CASE in = << >>
      <4>1. s # "close"
        BY <1>3, <1>5, <3>1, <3>3 DEF NextIsNotClose
      <4>2. First(in'[1]) # Code("close") + 1
        BY <1>7, <3>1, <3>3, <4>1, RepliesTyped
      <4>3. QED
        BY <1>7, <3>1, <4>2 DEF NextIsNotClose
    <3>4. QED
      BY <3>2, <3>3
  <2>7. QED
    BY <1>2, <1>3, <1>16, <2>1, <2>2, <2>4, <2>5, <2>6 DEF WriteInv
<1>22. QED
  BY <1>10, <1>11, <1>17, <1>19, <1>20, <1>21 DEF IInv

\* An answer that is not that to hello, to a write or to close arrives.
Unrelated(r) ==
    r \in Replies /\ \A s \in {"hello", "write", "close"} : First(r) # Code(s) + 1

LEMMA RefuseKeeps ==
    ASSUME IInv, Refuse
    PROVE  IInv'
<1>1. /\ link /\ out # << >> /\ out' = Tail(out)
      /\ stage' = stage /\ waiting' = waiting /\ addr' = addr /\ result' = result
      /\ UNCHANGED <<faults, link, flag, differs, cells, closed>>
  BY DEF Refuse, Take, host, target
<1>2. TypeOK /\ Ordered /\ ClosedInv /\ FlagInv /\ ExecInv /\ WriteInv
  BY DEF IInv
<1>3. PICK s \in ToSet(Stages), a \in 1 .. Blocks : out[1] = Frames[s][a] /\ Name = s
  BY <1>1, <1>2, HeadIs
<1>4. PICK r : in' = Append(in, r) /\ Unrelated(r)
  BY RepliesTyped DEF Refuse, Unrelated
<1>5. s \notin {"flag", "reset"} /\ (s = "table" \/ "nak" \in faults)
  BY <1>3 DEF Refuse
<1>6. StageOf(out[1]) = s
  BY <1>3, StageIs
<1>7. /\ out' \in Seq(Commands) /\ Len(out') = Len(out) - 1 /\ Len(out) \in Nat \ {0}
      /\ \A i \in 1 .. Len(out') : i + 1 \in 1 .. Len(out) /\ out'[i] = out[i + 1]
      /\ \A t : OnItsWay(t) <=> OnItsWay(t)' \/ t = s
      /\ \A b : WriteOnItsWay(b) => WriteOnItsWay(b)' \/ out[1] = Frames["write"][b]
  BY <1>1, <1>2, <1>6, TakenIs
<1>8. /\ in' \in Seq(Replies) /\ Len(in') = Len(in) + 1 /\ in' # << >>
      /\ \A i \in 1 .. Len(in') : (i \in 1 .. Len(in) /\ in'[i] = in[i]) \/ in'[i] = r
      /\ in # << >> => in'[1] = in[1]
      /\ in = << >> => in'[1] = r
  BY <1>2, <1>4, ArrivesIs DEF Unrelated
<1>9. TypeOK'
  BY <1>1, <1>2, <1>7, <1>8 DEF TypeOK
<1>10. Ordered'
  BY <1>1, <1>2, TakenOrdered
<1>11. (Touched' <=> Touched) /\ (Written' <=> Written)
  BY <1>1 DEF Touched, Written
<1>12. ClosedInv'
  <2>1. ASSUME NEW i \in 1 .. Len(in'), First(in'[i]) = Code("close") + 1
        PROVE  closed
    BY <1>2, <1>4, <1>8, <2>1 DEF ClosedInv, Unrelated
  <2>2. QED
    BY <1>1, <1>2, <1>7, <2>1 DEF ClosedInv
<1>13. FlagInv'
  <2>1. ASSUME NEW i \in 1 .. Len(in'), First(in'[i]) = Code("hello") + 1, Place(stage) <= 3
        PROVE  flag
    BY <1>2, <1>4, <1>8, <2>1 DEF FlagInv, Unrelated
  <2>2. OnItsWay("flag")' <=> OnItsWay("flag")
    BY <1>5, <1>7
  <2>3. Touched => \A i \in 1 .. Len(out') : At(out'[i]) >= 7
    BY <1>2, <1>7 DEF FlagInv
  <2>4. QED
    BY <1>1, <1>2, <1>7, <1>11, <2>1, <2>2, <2>3 DEF FlagInv
<1>14. ExecInv'
  <2>1. ASSUME "nak" \notin faults, NEW b \in 1 .. Blocks, WriteOnItsWay(b)
        PROVE  WriteOnItsWay(b)'
    <3>1. Frames[s][a] # Frames["write"][b]
      BY <1>5, <2>1, FramesDiffer, StagesAre
    <3>2. QED
      BY <1>3, <1>7, <2>1, <3>1
  <2>2. QED
    BY <1>1, <1>2, <1>11, <2>1 DEF ExecInv
<1>15. WriteInv'
  <2>1. /\ Len(in) \in Nat /\ addr \in 1 .. Blocks /\ waiting \in BOOLEAN
        /\ (Running' <=> Running)
    BY <1>1, <1>2 DEF TypeOK, Running
  <2>2. Outstanding' = Outstanding
    BY <1>7, <1>8, <2>1 DEF Outstanding
  <2>3. Behind' <=> Behind
    BY <1>1, <2>2 DEF Behind
  <2>4. ASSUME Exact
        PROVE  Exact'
    <3>1. CASE ~waiting
      BY <1>1, <2>2, <2>4, <3>1 DEF Exact
    <3>2. CASE waiting
      <4>1. in = << >> /\ out = << Frames["write"][addr] >>
        BY <1>1, <2>4, <3>2 DEF Exact
      <4>2. Len(out) = 1 /\ Len(in) = 0
        BY <4>1
      <4>3. out' = << >> /\ Len(in') = 1 /\ in'[1] = r
        BY <1>1, <1>7, <1>8, <4>1, <4>2
      <4>4. QED
        BY <1>1, <1>4, <2>4, <3>2, <4>3 DEF Exact, Unrelated
    <3>3. QED
      BY <3>1, <3>2
  <2>5. NextIsNotClose => NextIsNotClose'
    BY <1>4, <1>8 DEF NextIsNotClose, Unrelated
  <2>6. QED
    BY <1>1, <1>2, <1>11, <2>1, <2>3, <2>4, <2>5 DEF WriteInv
<1>16. QED
  BY <1>9, <1>10, <1>12, <1>13, <1>14, <1>15 DEF IInv

LEMMA LogKeeps ==
    ASSUME IInv, Log
    PROVE  IInv'
<1>1. /\ link /\ out' = out
      /\ stage' = stage /\ waiting' = waiting /\ addr' = addr /\ result' = result
      /\ UNCHANGED <<faults, link, flag, differs, cells, closed>>
  BY DEF Log, host, target
<1>2. TypeOK /\ Ordered /\ ClosedInv /\ FlagInv /\ ExecInv /\ WriteInv
  BY DEF IInv
<1>3. PICK r : in' = Append(in, r) /\ Unrelated(r)
  BY RepliesTyped DEF Log, Unrelated
<1>4. /\ in' \in Seq(Replies) /\ Len(in') = Len(in) + 1 /\ in' # << >>
      /\ \A i \in 1 .. Len(in') : (i \in 1 .. Len(in) /\ in'[i] = in[i]) \/ in'[i] = r
      /\ in # << >> => in'[1] = in[1]
      /\ in = << >> => in'[1] = r
  BY <1>2, <1>3, ArrivesIs DEF Unrelated
<1>5. TypeOK'
  BY <1>1, <1>2, <1>4 DEF TypeOK
<1>6. /\ \A s : OnItsWay(s)' <=> OnItsWay(s)
      /\ \A b : WriteOnItsWay(b)' <=> WriteOnItsWay(b)
  BY <1>1 DEF OnItsWay, WriteOnItsWay
<1>7. (Touched' <=> Touched) /\ (Written' <=> Written)
  BY <1>1 DEF Touched, Written
<1>8. Ordered'
  BY <1>1, <1>2 DEF Ordered
<1>9. ClosedInv'
  BY <1>1, <1>2, <1>3, <1>4, <1>6 DEF ClosedInv, Unrelated
<1>10. FlagInv'
  <2>1. ASSUME NEW i \in 1 .. Len(in'), First(in'[i]) = Code("hello") + 1, Place(stage) <= 3
        PROVE  flag
    BY <1>2, <1>3, <1>4, <2>1 DEF FlagInv, Unrelated
  <2>2. QED
    BY <1>1, <1>2, <1>6, <1>7, <2>1 DEF FlagInv
<1>11. ExecInv'
  BY <1>1, <1>2, <1>6, <1>7 DEF ExecInv
<1>12. WriteInv'
  <2>1. /\ Len(in) \in Nat /\ Len(out) \in Nat /\ waiting \in BOOLEAN /\ (Running' <=> Running)
    BY <1>1, <1>2 DEF TypeOK, Running
  <2>2. Outstanding' = Outstanding + 1 /\ Outstanding \in Nat
    BY <1>1, <1>4, <2>1 DEF Outstanding
  <2>3. Behind => Behind'
    BY <1>1, <2>2 DEF Behind
  <2>4. ASSUME Exact
        PROVE  Behind'
    <3>1. CASE ~waiting
      BY <1>1, <2>2, <3>1 DEF Behind
    <3>2. CASE waiting
      <4>1. (in = << >> /\ out = << Frames["write"][addr] >>) \/ (out = << >> /\ Len(in) = 1)
        BY <2>4, <3>2 DEF Exact
      <4>2. Len(<< >>) = 0 /\ Len(<< Frames["write"][addr] >>) = 1
        OBVIOUS
      <4>3. Outstanding >= 1
        <5>1. CASE in = << >> /\ out = << Frames["write"][addr] >>
          BY <4>2, <5>1 DEF Outstanding
        <5>2. CASE out = << >> /\ Len(in) = 1
          BY <4>2, <5>2 DEF Outstanding
        <5>3. QED
          BY <4>1, <5>1, <5>2
      <4>4. QED
        BY <1>1, <2>2, <3>2, <4>3 DEF Behind
    <3>3. QED
      BY <3>1, <3>2
  <2>5. NextIsNotClose => NextIsNotClose'
    BY <1>3, <1>4 DEF NextIsNotClose, Unrelated
  <2>6. QED
    BY <1>1, <1>2, <1>7, <2>1, <2>3, <2>4, <2>5 DEF WriteInv
<1>13. QED
  BY <1>5, <1>8, <1>9, <1>10, <1>11, <1>12 DEF IInv

LEMMA UnplugKeeps ==
    ASSUME IInv, Unplug
    PROVE  IInv'
<1>1. /\ link' = FALSE /\ out' = << >> /\ in' = << >>
      /\ stage' = stage /\ waiting' = waiting /\ addr' = addr /\ result' = result
      /\ UNCHANGED <<faults, flag, differs, cells, closed>>
  BY DEF Unplug, host, target
<1>2. TypeOK /\ Ordered /\ ClosedInv /\ FlagInv /\ ExecInv /\ WriteInv
  BY DEF IInv
<1>3. TypeOK'
  <2>1. link' \in BOOLEAN
    BY <1>1, Zenon
  <2>2. out' \in Seq(Commands) /\ in' \in Seq(Replies)
    <3>1. << >> \in Seq(Commands) /\ << >> \in Seq(Replies)
      OBVIOUS
    <3>2. QED
      BY <1>1, <3>1
  <2>3. QED
    BY <1>1, <1>2, <2>1, <2>2 DEF TypeOK
<1>4. Len(out') = 0 /\ Len(in') = 0 /\ \A s : ~OnItsWay(s)'
  BY <1>1 DEF OnItsWay
<1>5. (Touched' <=> Touched) /\ (Written' <=> Written)
  BY <1>1 DEF Touched, Written
<1>6. Ordered' /\ ClosedInv'
  BY <1>1, <1>2, <1>4 DEF Ordered, ClosedInv
<1>7. FlagInv'
  BY <1>1, <1>2, <1>4, <1>5 DEF FlagInv
<1>8. ExecInv' /\ WriteInv'
  BY <1>1, <1>2, <1>5 DEF ExecInv, WriteInv
<1>9. QED
  BY <1>3, <1>6, <1>7, <1>8 DEF IInv

LEMMA StutterKeeps ==
    ASSUME IInv, UNCHANGED vars
    PROVE  IInv'
<1>1. /\ faults' = faults /\ stage' = stage /\ waiting' = waiting /\ addr' = addr
      /\ result' = result /\ link' = link /\ out' = out /\ in' = in /\ flag' = flag
      /\ differs' = differs /\ cells' = cells /\ closed' = closed
  BY DEF vars, host, wire, target
<1>2. TypeOK' /\ Ordered' /\ (ClosedInv' <=> ClosedInv)
  BY <1>1 DEF IInv, TypeOK, Ordered, ClosedInv, OnItsWay
<1>3. FlagInv' <=> FlagInv
  BY <1>1 DEF FlagInv, OnItsWay, Touched
<1>4. ExecInv' <=> ExecInv
  BY <1>1 DEF ExecInv, WriteOnItsWay, Written
<1>5. WriteInv' <=> WriteInv
  BY <1>1 DEF WriteInv, Exact, Behind, Outstanding, NextIsNotClose, Running, Written
<1>6. QED
  BY <1>2, <1>3, <1>4, <1>5 DEF IInv

-----------------------------------------------------------------------------
(* The theorems.                                                           *)

LEMMA InitIs == Init => IInv
<1> SUFFICES ASSUME Init
             PROVE  IInv
  OBVIOUS
<1>1. /\ stage = "hello" /\ waiting = FALSE /\ addr = 1 /\ result = "running" /\ link = TRUE
      /\ out = << >> /\ in = << >> /\ flag = FALSE /\ closed = FALSE
      /\ \A b \in 1 .. Blocks : cells[b] = 0
  BY DEF Init
<1>2. TypeOK
  <2>1. stage \in ToSet(Stages) /\ addr \in 1 .. Blocks
    BY <1>1, StagesAre, StreamAssumption DEF MaxBlocks
  <2>2. out \in Seq(Commands) /\ in \in Seq(Replies)
    BY <1>1
  <2>3. cells \in [1 .. Blocks -> {0, Flag}] /\ faults \in FaultSets /\ differs \in BOOLEAN
    BY DEF Init
  <2>4. QED
    BY <1>1, <2>1, <2>2, <2>3 DEF TypeOK
<1>3. Len(in) = 0 /\ Len(out) = 0 /\ Place(stage) = 1 /\ ~Touched
  BY <1>1, PlacesAre DEF Touched
<1>4. \A s : ~OnItsWay(s)
  BY <1>3 DEF OnItsWay
<1>5. Ordered /\ ClosedInv
  BY <1>1, <1>3, <1>4 DEF Ordered, ClosedInv
<1>6. FlagInv
  BY <1>1, <1>3 DEF FlagInv
<1>7. ExecInv /\ WriteInv
  BY <1>1, <1>3 DEF ExecInv, WriteInv
<1>8. QED
  BY <1>2, <1>5, <1>6, <1>7 DEF IInv

LEMMA NextKeeps ==
    ASSUME IInv, Whole, [Next]_vars
    PROVE  IInv'
<1>1. CASE UNCHANGED vars
  BY <1>1, StutterKeeps
<1>2. CASE Host
  BY <1>2, SendKeeps, SendFailsKeeps, ResetKeeps, ListensKeeps DEF Host, Listens
<1>3. CASE Programmer
  BY <1>3, ObeyKeeps, RefuseKeeps DEF Programmer
<1>4. CASE Log
  BY <1>4, LogKeeps
<1>5. CASE Unplug
  BY <1>5, UnplugKeeps
<1>6. QED
  BY <1>1, <1>2, <1>3, <1>4, <1>5 DEF Next, Returned

LEMMA WholeStays ==
    ASSUME [Next]_vars
    PROVE  faults' = faults
  BY DEF Next, vars, Host, Programmer, Returned, Send, SendFails, Reset, PassOver, Answered,
         Unanswered, WriteAgain, ReadAgain, NoAnswer, WriteTimedOut, Receive, TimedOut,
         Obey, Refuse, Take, Log, Unplug

\* However many packets, reads, retries and packets sent unasked there are, and
\* unless a stream is late, commands arrive in order, are executed once, and
\* what stands in the way of a write is noticed at close.
THEOREM Invariant == Spec => [](Whole => IInv)
<1>1. Init => (Whole => IInv)
  BY InitIs
<1>2. (Whole => IInv) /\ [Next]_vars => (Whole => IInv)'
  <2>1. SUFFICES ASSUME Whole => IInv, [Next]_vars, Whole'
                 PROVE  IInv'
    OBVIOUS
  <2>2. Whole
    BY <2>1, WholeStays DEF Whole
  <2>3. QED
    BY <2>1, <2>2, NextKeeps
<1>3. QED
  BY <1>1, <1>2, PTL DEF Spec

\* While 0:SBL is neither the old one nor complete the download flag is set,
\* whatever is refused, late or unplugged.
THEOREM AlwaysRecoverable == Spec => [](Whole => FlagWhileUnsafe)
<1>1. IInv => FlagWhileUnsafe
  BY DEF IInv, FlagInv, FlagWhileUnsafe
<1>2. QED
  BY <1>1, Invariant, PTL

\* Success is reported only for a boot loader of which every packet has been
\* executed, and that has been closed; but a stream of which one read may take
\* several answers must not carry refusals.
THEOREM SuccessIsComplete ==
    Spec => [](Whole /\ ~({"nak", "stream"} \subseteq faults) => TrueMeansWritten)
<1>1. IInv /\ ~({"nak", "stream"} \subseteq faults) => TrueMeansWritten
  <2>1. SUFFICES ASSUME IInv, result = "true", "nak" \notin faults \/ "stream" \notin faults
                 PROVE  Written /\ closed
    BY DEF TrueMeansWritten
  <2>2. stage = "reset" /\ closed
    BY <2>1 DEF IInv, TypeOK, ClosedInv
  <2>3. Written
    BY <2>1, <2>2 DEF IInv, ExecInv, WriteInv
  <2>4. QED
    BY <2>2, <2>3
<1>2. QED
  BY <1>1, Invariant, PTL
=============================================================================
