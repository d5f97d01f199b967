---------------------------- MODULE SaharaProofs ----------------------------
(***************************************************************************)
(* Proofs about Sahara, for every file, buffer, number of restarts and set *)
(* of faults.                                                              *)
(*                                                                         *)
(* That the image is exact rests on two things.  While a run is past the   *)
(* hello, what the ROM has stored, what is on its way and what the loop    *)
(* still has to send make up what was asked for, or the ROM is left        *)
(* waiting for ever (Session).  And a run gets past the hello only with a  *)
(* ROM that is at the beginning: in a first run because it has sent        *)
(* nothing else (Beginning), in a later one because a ROM that is not      *)
(* pushed has a single packet under way, in one direction or the other     *)
(* (SinglePacket).                                                         *)
(***************************************************************************)
EXTENDS Sahara, SequenceTheorems, TLAPS

InPacket == [cmd : {"hello", "read", "end", "doneResponse", "garbage", "unknown"},
             req : Ranges \cup {NoReq}, ok : BOOLEAN]

\* A done response under way says that the programmer has been started, and
\* nothing stops it again: neither a reset nor the packets of another run.
StartedInv ==
    /\ in \in Seq(InPacket)
    /\ \A i \in 1 .. Len(in) : in[i].cmd = "doneResponse" => rom = "started"
    /\ result = "done" => rom = "started"

LEMMA InitStarted == Init => StartedInv
BY DEF Init, StartedInv

\* Taking the first packet leaves the others where the invariant has them.
LEMMA TakeFirst ==
    ASSUME StartedInv, in # << >>, in' = Tail(in), rom' = rom
    PROVE  /\ Head(in) \in InPacket
           /\ Head(in).cmd = "doneResponse" => rom = "started"
           /\ in' \in Seq(InPacket)
           /\ \A i \in 1 .. Len(in') : in'[i].cmd = "doneResponse" => rom' = "started"
BY DEF StartedInv

\* A packet that is no done response may be added at any time.
LEMMA AddPacket ==
    ASSUME StartedInv, NEW p \in InPacket, in' = Append(in, p),
           p.cmd = "doneResponse" => rom' = "started",
           rom = "started" => rom' = "started"
    PROVE  /\ in' \in Seq(InPacket)
           /\ \A i \in 1 .. Len(in') : in'[i].cmd = "doneResponse" => rom' = "started"
BY DEF StartedInv

LEMMA PacketTypes ==
    /\ Hello \in InPacket
    /\ DoneResponse \in InPacket
    /\ Garbage \in InPacket /\ Unknown \in InPacket
    /\ \A r \in Ranges : Read(r) \in InPacket /\ Read(r).cmd = "read"
    /\ \A b \in BOOLEAN : EndImage(b) \in InPacket /\ EndImage(b).cmd = "end"
    /\ Hello.cmd = "hello" /\ DoneResponse.cmd = "doneResponse" /\ Garbage.cmd = "garbage"
    /\ Unknown.cmd = "unknown"
BY DEF InPacket, Hello, DoneResponse, Garbage, Unknown, Read, EndImage, Packet

LEMMA HostStarted == StartedInv /\ Host => StartedInv'
<1> SUFFICES ASSUME StartedInv, Host PROVE StartedInv'
  OBVIOUS
<1>1. ASSUME Rx PROVE in # << >> /\ in' = Tail(in) /\ rom' = rom /\ result = "running"
  BY <1>1 DEF Rx, target, Running
<1>2. ASSUME RxFails
      PROVE  rom' = rom /\ ((in # << >> /\ in' = Tail(in)) \/ in' = in)
  BY <1>2 DEF RxFails, target
<1>3. CASE AnswerHello \/ NotHello \/ StartTransfer \/ EndOfImage \/ HelloAgain \/ Unexpected
  <2>1. Rx /\ result' # "done"
    BY <1>1, <1>3 DEF AnswerHello, NotHello, StartTransfer, EndOfImage, HelloAgain,
                      Unexpected, Goto, Return
  <2> QED
    BY <1>1, <2>1, TakeFirst DEF StartedInv
<1>4. CASE FinalPacket
  <2>1. Rx /\ (result' = "done" => Head(in).cmd = "doneResponse")
    BY <1>4 DEF FinalPacket, Return
  <2> QED
    BY <1>1, <2>1, TakeFirst DEF StartedInv
<1>5. CASE Poke \/ GiveUp
  <2>1. RxFails /\ result' # "done"
    BY <1>5 DEF Poke, GiveUp, Goto, Return, RxFails, Running
  <2> QED
    BY <1>2, <2>1, TakeFirst DEF StartedInv
<1>6. CASE SendChunk \/ AbandonTransfer
  BY <1>6 DEF SendChunk, AbandonTransfer, Transferring, Goto, target, StartedInv
<1> QED
  BY <1>3, <1>4, <1>5, <1>6 DEF Host

LEMMA RomStarted == StartedInv /\ RomSteps => StartedInv'
<1> SUFFICES ASSUME StartedInv, RomSteps PROVE StartedInv'
  OBVIOUS
<1>1. ASSUME Rom PROVE result' = result
  BY <1>1 DEF Rom
<1>2. CASE Greet
  <2>1. in' = Append(in, Hello) /\ rom = "reset" /\ Rom
    BY <1>2 DEF Greet
  <2> QED
    BY <1>1, <2>1, AddPacket, PacketTypes DEF StartedInv
<1>3. CASE TakeGreeted
  <2>1. Rom /\ rom = "greeted" /\ (in' = in \/ in' = Append(in, Hello))
    BY <1>3 DEF TakeGreeted, Take
  <2> QED
    BY <1>1, <2>1, AddPacket, PacketTypes DEF StartedInv
<1>4. CASE Ask
  <2>1. PICK r \in Ranges : in' = Append(in, Read(r))
    BY <1>4 DEF Ask
  <2>2. Rom /\ rom = "ask"
    BY <1>4 DEF Ask
  <2> QED
    BY <1>1, <2>1, <2>2, AddPacket, PacketTypes DEF StartedInv
<1>5. CASE Store
  BY <1>1, <1>5 DEF Store, Take, StartedInv
<1>6. CASE Complete
  <2>1. Rom /\ rom = "ask" /\ \E b \in BOOLEAN : in' = Append(in, EndImage(b))
    BY <1>6 DEF Complete
  <2> QED
    BY <1>1, <2>1, AddPacket, PacketTypes DEF StartedInv
<1>7. CASE TakeEnded
  <2>1. /\ Rom /\ rom = "ended"
        /\ in' = in \/ (in' = Append(in, DoneResponse) /\ rom' = "started")
    BY <1>7 DEF TakeEnded, Take
  <2> QED
    BY <1>1, <2>1, AddPacket, PacketTypes DEF StartedInv
<1>8. CASE TakeRefused
  BY <1>1, <1>8 DEF TakeRefused, Take, StartedInv
<1> QED
  BY <1>2, <1>3, <1>4, <1>5, <1>6, <1>7, <1>8 DEF RomSteps

LEMMA NextStarted == StartedInv /\ [Next]_vars => StartedInv'
<1> SUFFICES ASSUME StartedInv, [Next]_vars PROVE StartedInv'
  OBVIOUS
<1>1. CASE Corrupt
  <2>1. Rom /\ rom' = rom /\ result' = result
    BY <1>1 DEF Corrupt, Rom, target
  <2>2. in' = Append(in, Garbage) \/ in' = Append(in, Unknown)
    BY <1>1 DEF Corrupt
  <2> QED
    BY <2>1, <2>2, AddPacket, PacketTypes DEF StartedInv
<1>2. CASE Unplug
  BY <1>2 DEF Unplug, target, StartedInv
<1>3. CASE Restart
  BY <1>3 DEF Restart, target, StartedInv
<1>4. CASE UNCHANGED vars
  BY <1>4 DEF vars, target, StartedInv
<1> QED
  BY <1>1, <1>2, <1>3, <1>4, HostStarted, RomStarted DEF Next, Returned

\* Whatever is lost, late, refused, pulled or killed, sahara_main reports success
\* only to a module that runs the programmer.
THEOREM DoneOnlyWhenStarted == Spec => []DoneMeansStarted
<1>1. StartedInv => DoneMeansStarted
  BY DEF StartedInv, DoneMeansStarted
<1> QED
  BY <1>1, InitStarted, NextStarted, PTL DEF Spec

-----------------------------------------------------------------------------
(* What the ROM stores.                                                    *)

OutPacket == Controls \cup {Data(b) : b \in Nat}
Poked == [cmd |-> "poke", block |-> Foreign]
Answered == [cmd |-> "helloResponse", block |-> Foreign]
Agreed == [cmd |-> "done", block |-> Foreign]
Resetting == [cmd |-> "reset", block |-> Foreign]

TypeOK ==
    /\ in \in Seq(InPacket) /\ out \in Seq(OutPacket)
    /\ \A i \in 1 .. Len(in) : in[i].cmd = "read" => in[i].req \in Ranges
    /\ need \in Seq(Nat) /\ mem \in Seq(Nat \X Int)
    /\ req \in Ranges \cup {NoReq} /\ fpos \in Nat /\ sent \in Nat
    /\ host \in {"hello", "helloAgain", "command", "transfer", "final"}
    /\ rom \in {"reset", "greeted", "ask", "raw", "ended", "refused", "started"}
    /\ link \in BOOLEAN
    /\ host = "transfer" => req \in Ranges /\ sent < req.len
    /\ rom = "raw" => need # << >>

\* Packets that the ROM sends but once for each thing it does.
Bulk(p) == p.cmd \in {"read", "end"}
NoBulk == \A i \in 1 .. Len(in) : ~Bulk(in[i])
OneBulk(p) == \E k \in 1 .. Len(in) :
    in[k] = p /\ \A i \in (1 .. Len(in)) \ {k} : ~Bulk(in[i])

\* What the loop has still to send.
Left == IF host = "transfer" THEN req.len - sent ELSE 0

Requested == \E r \in Ranges : /\ host = "command" /\ OneBulk(Read(r)) /\ need = Span(r)
                               /\ out = << >> /\ Exact
Served == /\ NoBulk /\ Exact /\ Len(need) = Len(out) + Left
          /\ \A i \in 1 .. Len(out) : out[i] = Data(need[i])
          /\ \A j \in 1 .. Left : need[Len(out) + j] = fpos + j
Starved == NoBulk /\ Len(out) + Left < Len(need)

\* A run past the hello.
InSession == Running /\ host \in {"command", "transfer", "final"}
Session ==
    /\ rom # "reset"
    /\ rom = "greeted" =>
          /\ host = "command" /\ NoBulk
          /\ \E n \in Nat : Len(out) = n + 1 /\ out[n + 1] = Answered
                            /\ \A i \in 1 .. n : out[i] = Poked
    /\ rom = "ask" => host = "command" /\ NoBulk /\ out = << >> /\ Exact
    /\ rom = "raw" => host # "final" /\ (Requested \/ Served \/ Starved)
    /\ rom = "ended" => \/ host = "command" /\ OneBulk(EndImage(TRUE)) /\ out = << >> /\ Exact
                        \/ host = "final" /\ NoBulk /\ out = << Agreed >>
    /\ rom = "refused" => host = "command" /\ OneBulk(EndImage(FALSE)) /\ out = << >>
    /\ rom = "started" => host = "final" /\ NoBulk

\* A first run before the hello.
Beginning ==
    /\ rom \in {"reset", "greeted"} /\ (rom = "reset" => in = << >>)
    /\ \A i \in 1 .. Len(in) : in[i] = Hello
    /\ \A i \in 1 .. Len(out) : out[i] = Poked

\* A ROM that is spoken to in turn.
SinglePacket ==
    /\ rom \in {"reset", "ask"} => in = << >> /\ out = << >>
    /\ rom = "greeted" => \/ in \in {<< >>, << Hello >>} /\ out = << >>
                          \/ in = << >> /\ out \in {<< Poked >>, << Answered >>}
    /\ rom = "raw" => \/ in = << >> /\ Len(out) <= Len(need)
                      \/ \E r \in Ranges : in = << Read(r) >> /\ out = << >>
    /\ rom = "ended" => \/ in \in {<< >>, << EndImage(TRUE) >>} /\ out = << >>
                        \/ in = << >> /\ out \in {<< Poked >>, << Agreed >>, << Resetting >>}
    /\ rom = "refused" => \/ in \in {<< >>, << EndImage(FALSE) >>} /\ out = << >>
                          \/ in = << >> /\ out \in {<< Poked >>, << Resetting >>}
    /\ rom = "started" => in \in {<< >>, << DoneResponse >>}

\* The host agrees to the end of an image that is exact, and to nothing else.
AgreedInv == (\E i \in 1 .. Len(out) : out[i] = Agreed) =>
    rom = "started" \/ (rom = "ended" /\ out = << Agreed >> /\ Exact)

ExactInv ==
    /\ rom = "greeted" => mem = << >>
    /\ StartsExactImage
    /\ Calm /\ link =>
          /\ AgreedInv
          /\ InSession => Session
          /\ "kill" \notin faults /\ Running /\ InHello => Beginning
          /\ "kill" \in faults => SinglePacket

-----------------------------------------------------------------------------
(* Types.                                                                  *)

LEMMA TailOf ==
    ASSUME NEW S, NEW s \in Seq(S), s # << >>
    PROVE  /\ Tail(s) \in Seq(S) /\ Len(Tail(s)) = Len(s) - 1 /\ Len(s) \in Nat \ {0}
           /\ \A i \in 1 .. Len(s) - 1 : Tail(s)[i] = s[i + 1]
           /\ Head(s) = s[1] /\ Head(s) \in S
OBVIOUS

LEMMA AppendOf ==
    ASSUME NEW S, NEW s \in Seq(S), NEW x \in S
    PROVE  /\ Append(s, x) \in Seq(S) /\ Len(Append(s, x)) = Len(s) + 1 /\ Len(s) \in Nat
           /\ \A i \in 1 .. Len(s) : Append(s, x)[i] = s[i]
           /\ Append(s, x)[Len(s) + 1] = x
OBVIOUS

LEMMA OutTypes ==
    /\ \A c \in {"poke", "helloResponse", "done", "reset"} :
          [cmd |-> c, block |-> Foreign] \in OutPacket
    /\ \A b \in Nat : Data(b) \in OutPacket
    /\ \A p \in OutPacket : p.block \in Int
<1>1. \A b \in Nat : Data(b) \in OutPacket /\ Data(b).block \in Int
  <2>1. \A b \in Nat : Data(b) \in OutPacket
    BY DEF OutPacket
  <2>2. \A b \in Nat : Data(b).block \in Int
    BY DEF Data
  <2> QED
    BY <2>1, <2>2
<1>2. ASSUME NEW c \in {"poke", "helloResponse", "done", "reset"}
      PROVE  [cmd |-> c, block |-> Foreign] \in OutPacket
  BY DEF OutPacket, Controls
<1>3. \A p \in Controls : p.block \in Int
  BY DEF Controls, Foreign
<1> QED
  BY <1>1, <1>2, <1>3 DEF OutPacket

\* The variables that are not packets.
LEMMA Steady ==
    ASSUME [Next]_vars
    PROVE  faults' = faults /\ (link' => link)
<1> USE DEF image, vars
<1>1. Host => faults' = faults /\ link' = link
  BY DEF Host, AnswerHello, NotHello, Poke, GiveUp, StartTransfer, SendChunk, AbandonTransfer,
         EndOfImage, HelloAgain, Unexpected, FinalPacket, Rx, RxFails, Transferring
<1>2. RomSteps \/ Corrupt => faults' = faults /\ link' = link
  BY DEF RomSteps, Corrupt, Greet, TakeGreeted, Ask, Store, Complete, TakeEnded, TakeRefused, Take, Rom
<1>3. Unplug \/ Restart \/ Returned \/ UNCHANGED vars => faults' = faults /\ (link' => link)
  BY DEF Unplug, Restart, Returned
<1> QED
  BY <1>1, <1>2, <1>3 DEF Next

LEMMA TxType ==
    ASSUME out \in Seq(OutPacket), NEW c \in {"poke", "helloResponse", "done", "reset"}, Tx(c)
    PROVE  out' \in Seq(OutPacket)
BY OutTypes DEF Tx

LEMMA ChunkType ==
    ASSUME TypeOK, host = "transfer"
    PROVE  /\ Chunk \in Nat \ {0} /\ Chunk <= req.len - sent
           /\ req.off \in Nat /\ req.len \in Nat
BY SaharaAssumption DEF TypeOK, Chunk, SaharaAssumption

LEMMA SpanType ==
    ASSUME NEW r \in Ranges
    PROVE  /\ Span(r) \in Seq(Nat) /\ Len(Span(r)) = r.len /\ r.len \in Nat \ {0} /\ r.off \in Nat
           /\ \A i \in 1 .. r.len : Span(r)[i] = r.off + i
<1>1. r.len \in Nat \ {0} /\ r.off \in Nat
  BY SaharaAssumption DEF SaharaAssumption
<1>2. \A i \in 1 .. r.len : r.off + i \in Nat
  BY <1>1
<1>3. Span(r) \in [1 .. r.len -> Nat]
  BY <1>2 DEF Span
<1>4. Span(r) \in Seq(Nat) /\ Len(Span(r)) = r.len
  BY <1>1, <1>3, IsASeq, LenProperties
<1> QED
  BY <1>1, <1>4 DEF Span

LEMMA InType ==
    ASSUME TypeOK, \/ in' = in
                   \/ in # << >> /\ in' = Tail(in)
                   \/ in' = << >>
                   \/ \E p \in InPacket : /\ in' = Append(in, p)
                                          /\ p.cmd = "read" => p.req \in Ranges
    PROVE  in' \in Seq(InPacket) /\ \A i \in 1 .. Len(in') : in'[i].cmd = "read" => in'[i].req \in Ranges
<1>0. CASE in' = << >>
  <2>1. Len(in') = 0 /\ in' \in Seq(InPacket)
    BY <1>0
  <2> QED
    BY <2>1
<1>1. CASE in' = in
  BY <1>1 DEF TypeOK
<1>2. CASE in # << >> /\ in' = Tail(in)
  BY <1>2, TailOf DEF TypeOK
<1>3. ASSUME NEW p \in InPacket, in' = Append(in, p), p.cmd = "read" => p.req \in Ranges
      PROVE  /\ in' \in Seq(InPacket)
             /\ \A i \in 1 .. Len(in') : in'[i].cmd = "read" => in'[i].req \in Ranges
  BY <1>3, AppendOf DEF TypeOK
<1> QED
  BY <1>0, <1>1, <1>2, <1>3

LEMMA TypeHost == TypeOK /\ Host => TypeOK'
<1> SUFFICES ASSUME TypeOK, Host PROVE TypeOK'
  OBVIOUS
<1> USE DEF image, serving, target, Goto, Return
<1>r. ASSUME Rx PROVE /\ in # << >> /\ in' = Tail(in) /\ UNCHANGED <<image, restarts, link, target>>
                      /\ Head(in).cmd = "read" => Head(in).req \in Ranges
  BY <1>r, TailOf DEF Rx, TypeOK
<1>f. ASSUME RxFails
      PROVE  (in' = in \/ (in # << >> /\ in' = Tail(in))) /\ UNCHANGED <<image, restarts, link, target>>
  BY <1>f DEF RxFails
<1>1. CASE AnswerHello \/ NotHello \/ EndOfImage \/ HelloAgain \/ Unexpected \/ FinalPacket
  <2>1. Rx /\ UNCHANGED serving
    BY <1>1 DEF AnswerHello, NotHello, EndOfImage, HelloAgain, Unexpected, FinalPacket
  <2>2. out' \in Seq(OutPacket)
    BY <1>1, TxType DEF AnswerHello, NotHello, EndOfImage, HelloAgain, Unexpected, FinalPacket, TypeOK
  <2>3. host' \in {"command", "final", host} /\ (host' = "transfer" => host = "transfer")
    BY <1>1 DEF AnswerHello, NotHello, EndOfImage, HelloAgain, Unexpected, FinalPacket
  <2>4. UNCHANGED <<target, link>> /\ in # << >> /\ in' = Tail(in)
    BY <2>1, <1>r
  <2> QED
    BY <2>1, <2>2, <2>3, <2>4, InType DEF TypeOK
<1>2. CASE Poke \/ GiveUp
  <2>1. RxFails /\ UNCHANGED serving
    BY <1>2 DEF Poke, GiveUp
  <2>2. out' \in Seq(OutPacket)
    BY <1>2, TxType DEF Poke, GiveUp, TypeOK
  <2>3. host' \in {"helloAgain", host} /\ (host' = "transfer" => host = "transfer")
    BY <1>2 DEF Poke, GiveUp
  <2>4. UNCHANGED <<target, link>> /\ (in' = in \/ (in # << >> /\ in' = Tail(in)))
    BY <2>1, <1>f
  <2> QED
    BY <2>1, <2>2, <2>3, <2>4, InType DEF TypeOK
<1>3. CASE StartTransfer
  <2>1. Rx /\ req' = Head(in).req /\ fpos' = req'.off /\ sent' = 0 /\ host' = "transfer" /\ out' = out
        /\ Head(in).cmd = "read"
    BY <1>3 DEF StartTransfer
  <2>2. req' \in Ranges /\ UNCHANGED <<target, link>> /\ in # << >> /\ in' = Tail(in)
    BY <2>1, <1>r
  <2>3. fpos' \in Nat /\ sent' < req'.len
    BY <2>1, <2>2, SaharaAssumption DEF SaharaAssumption
  <2> QED
    BY <2>1, <2>2, <2>3, InType DEF TypeOK
<1>4. CASE SendChunk
  <2>0. host = "transfer" /\ UNCHANGED <<image, link, in, target, req>>
    BY <1>4 DEF SendChunk, Transferring
  <2>1. PICK n \in 1 .. Chunk : out' = out \o [i \in 1 .. n |-> Data(fpos + i)]
    BY <1>4 DEF SendChunk
  <2>2. [i \in 1 .. n |-> Data(fpos + i)] \in Seq(OutPacket)
    BY <2>0, <2>1, ChunkType, OutTypes DEF TypeOK
  <2>3. out' \in Seq(OutPacket)
    BY <2>1, <2>2 DEF TypeOK
  <2>4. fpos' = fpos + Chunk /\ sent' = sent + Chunk
        /\ host' = IF sent' < req.len THEN "transfer" ELSE "command"
    BY <1>4 DEF SendChunk
  <2>5. fpos' \in Nat /\ sent' \in Nat
    BY <2>0, <2>4, ChunkType, SMTT(30) DEF TypeOK
  <2> QED
    BY <2>0, <2>3, <2>4, <2>5, InType DEF TypeOK
<1>5. CASE AbandonTransfer
  BY <1>5 DEF AbandonTransfer, Transferring, TypeOK
<1> QED
  BY <1>1, <1>2, <1>3, <1>4, <1>5 DEF Host

LEMMA TypeRom == TypeOK /\ (RomSteps \/ Corrupt) => TypeOK'
<1> SUFFICES ASSUME TypeOK, RomSteps \/ Corrupt PROVE TypeOK'
  OBVIOUS
<1> USE DEF image, serving, target
<1>0. Rom
  BY DEF RomSteps, Corrupt, Greet, TakeGreeted, Ask, Store, Complete, TakeEnded, TakeRefused, Take
<1>1. CASE Greet
  BY <1>0, <1>1, InType, PacketTypes DEF Greet, Rom, TypeOK
<1>2. CASE TakeGreeted
  <2>1. out' \in Seq(OutPacket)
    BY <1>2, TailOf DEF TakeGreeted, Take, TypeOK
  <2>2. in' = in \/ in' = Append(in, Hello)
    BY <1>2 DEF TakeGreeted
  <2> QED
    BY <1>0, <1>2, <2>1, <2>2, InType, PacketTypes DEF TakeGreeted, Rom, TypeOK
<1>3. CASE Ask
  <2>1. PICK r \in Ranges : in' = Append(in, Read(r)) /\ need' = Span(r)
    BY <1>3 DEF Ask
  <2>2. Read(r).req = r /\ Read(r) \in InPacket
    BY PacketTypes DEF Read, Packet
  <2>3. need' \in Seq(Nat) /\ need' # << >>
    <3>1. Span(r) \in Seq(Nat) /\ Len(Span(r)) = r.len
      BY SpanType
    <3> QED
      BY <2>1, <3>1, SaharaAssumption DEF SaharaAssumption
  <2> QED
    BY <1>0, <1>3, <2>1, <2>2, <2>3, InType DEF Ask, Rom, TypeOK
<1>4. CASE Store
  <2>1. out' \in Seq(OutPacket) /\ Head(out).block \in Int
    BY <1>4, TailOf, OutTypes DEF Store, Take, TypeOK
  <2>2. need' \in Seq(Nat) /\ Head(need) \in Nat /\ (Len(need) # 1 => need' # << >>)
    <3>1. need \in Seq(Nat) /\ need # << >> /\ need' = Tail(need)
      BY <1>4 DEF Store, TypeOK
    <3>2. Tail(need) \in Seq(Nat) /\ Head(need) \in Nat /\ Len(Tail(need)) = Len(need) - 1
          /\ Len(need) \in Nat
      BY <3>1, TailOf
    <3> QED
      BY <3>1, <3>2, SMTT(30)
  <2>3. mem' \in Seq(Nat \X Int)
    BY <1>4, <2>1, <2>2, SMTT(30) DEF Store, TypeOK
  <2> QED
    BY <1>0, <1>4, <2>1, <2>2, <2>3, InType DEF Store, Rom, TypeOK
<1>5. CASE Complete
  <2>1. \E b \in BOOLEAN : in' = Append(in, EndImage(b))
    BY <1>5 DEF Complete
  <2> QED
    BY <1>0, <1>5, <2>1, InType, PacketTypes DEF Complete, Rom, TypeOK
<1>6. CASE TakeEnded
  <2>1. out' \in Seq(OutPacket)
    BY <1>6, TailOf DEF TakeEnded, Take, TypeOK
  <2>2. in' = in \/ in' = Append(in, DoneResponse)
    BY <1>6 DEF TakeEnded
  <2>3. rom' \in {"started", "reset", "ended"}
    BY <1>6 DEF TakeEnded, Take
  <2> QED
    BY <1>0, <1>6, <2>1, <2>2, <2>3, InType, PacketTypes DEF TakeEnded, Rom, TypeOK
<1>7. CASE TakeRefused
  <2>1. out' \in Seq(OutPacket)
    BY <1>7, TailOf DEF TakeRefused, Take, TypeOK
  <2> QED
    BY <1>0, <1>7, <2>1, InType DEF TakeRefused, Rom, TypeOK
<1>8. CASE Corrupt
  <2>1. in' = Append(in, Garbage) \/ in' = Append(in, Unknown)
    BY <1>8 DEF Corrupt
  <2> QED
    BY <1>0, <1>8, <2>1, InType, PacketTypes DEF Corrupt, Rom, TypeOK
<1> QED
  BY <1>1, <1>2, <1>3, <1>4, <1>5, <1>6, <1>7, <1>8 DEF RomSteps

LEMMA TypeStep == TypeOK /\ [Next]_vars => TypeOK'
<1> SUFFICES ASSUME TypeOK, [Next]_vars PROVE TypeOK'
  OBVIOUS
<1>1. CASE Unplug
  <2>1. in' = << >> /\ out' = << >> /\ UNCHANGED <<host, serving, target>> /\ link' \in BOOLEAN
    BY <1>1 DEF Unplug
  <2>2. out' \in Seq(OutPacket)
    BY <2>1
  <2> QED
    BY <2>1, <2>2, InType DEF TypeOK, serving, target
<1>2. CASE Restart
  BY <1>2 DEF Restart, TypeOK, target
<1>3. CASE UNCHANGED vars
  BY <1>3 DEF vars, serving, target, TypeOK
<1> QED
  BY <1>1, <1>2, <1>3, TypeHost, TypeRom DEF Next, Returned

-----------------------------------------------------------------------------
(* Packets under way.                                                      *)

LEMMA BulkTail ==
    ASSUME TypeOK, in # << >>, in' = Tail(in)
    PROVE  /\ NoBulk => ~Bulk(Head(in)) /\ NoBulk'
           /\ \A p \in InPacket : Bulk(p) /\ OneBulk(p) =>
                 IF Bulk(Head(in)) THEN Head(in) = p /\ NoBulk' ELSE OneBulk(p)'
<1>t. /\ in' \in Seq(InPacket) /\ Len(in') = Len(in) - 1 /\ Len(in) \in Nat \ {0}
      /\ \A i \in 1 .. Len(in) - 1 : in'[i] = in[i + 1]
      /\ Head(in) = in[1]
  BY TailOf DEF TypeOK
<1>1. NoBulk => ~Bulk(Head(in)) /\ NoBulk'
  BY <1>t DEF NoBulk
<1>2. ASSUME NEW p \in InPacket, Bulk(p), OneBulk(p)
      PROVE  IF Bulk(Head(in)) THEN Head(in) = p /\ NoBulk' ELSE OneBulk(p)'
  <2>1. PICK k \in 1 .. Len(in) : in[k] = p /\ \A i \in (1 .. Len(in)) \ {k} : ~Bulk(in[i])
    BY <1>2 DEF OneBulk
  <2>2. CASE Bulk(Head(in))
    <3>1. k = 1
      BY <1>t, <2>1, <2>2
    <3>2. NoBulk'
      BY <1>t, <2>1, <3>1 DEF NoBulk
    <3> QED
      BY <1>t, <2>1, <2>2, <3>1, <3>2
  <2>3. CASE ~Bulk(Head(in))
    <3>1. k # 1
      BY <1>2, <1>t, <2>1, <2>3
    <3>2. k - 1 \in 1 .. Len(in') /\ in'[k - 1] = p
      BY <1>t, <2>1, <3>1
    <3>3. \A i \in (1 .. Len(in')) \ {k - 1} : ~Bulk(in'[i])
      BY <1>t, <2>1, <3>1
    <3> QED
      BY <2>3, <3>2, <3>3 DEF OneBulk
  <2> QED
    BY <2>2, <2>3
<1> QED
  BY <1>1, <1>2

LEMMA BulkAdd ==
    ASSUME TypeOK, NEW q \in InPacket, in' = Append(in, q)
    PROVE  /\ NoBulk => IF Bulk(q) THEN OneBulk(q)' ELSE NoBulk'
           /\ \A p \in InPacket : OneBulk(p) /\ ~Bulk(q) => OneBulk(p)'
<1>t. /\ in' \in Seq(InPacket) /\ Len(in') = Len(in) + 1 /\ Len(in) \in Nat
      /\ \A i \in 1 .. Len(in) : in'[i] = in[i]
      /\ in'[Len(in) + 1] = q
  BY AppendOf DEF TypeOK
<1>1. ASSUME NoBulk, Bulk(q) PROVE OneBulk(q)'
  <2>1. \A i \in (1 .. Len(in')) \ {Len(in) + 1} : ~Bulk(in'[i])
    BY <1>t, <1>1 DEF NoBulk
  <2>2. Len(in) + 1 \in 1 .. Len(in')
    BY <1>t
  <2> QED
    BY <1>t, <2>1, <2>2 DEF OneBulk
<1>2. ASSUME NoBulk, ~Bulk(q) PROVE NoBulk'
  BY <1>t, <1>2 DEF NoBulk
<1>3. ASSUME NEW p \in InPacket, OneBulk(p), ~Bulk(q) PROVE OneBulk(p)'
  <2>1. PICK k \in 1 .. Len(in) : in[k] = p /\ \A i \in (1 .. Len(in)) \ {k} : ~Bulk(in[i])
    BY <1>3 DEF OneBulk
  <2>2. k \in 1 .. Len(in') /\ in'[k] = p
    BY <1>t, <2>1
  <2>3. \A i \in (1 .. Len(in')) \ {k} : ~Bulk(in'[i])
    BY <1>t, <1>3, <2>1
  <2> QED
    BY <2>2, <2>3 DEF OneBulk
<1> QED
  BY <1>1, <1>2, <1>3

LEMMA OutKinds ==
    /\ \A p \in OutPacket : /\ p.cmd = "done" <=> p = Agreed
                            /\ p.cmd = "helloResponse" <=> p = Answered
                            /\ p.cmd = "poke" <=> p = Poked
                            /\ p.cmd = "reset" <=> p = Resetting
    /\ \A b \in Nat : Data(b).cmd = "data" /\ Data(b).block = b
    /\ {Agreed, Answered, Poked, Resetting} \subseteq OutPacket
<1>1. \A b \in Nat : Data(b).cmd = "data" /\ Data(b).block = b
  BY DEF Data
<1>2. ASSUME NEW p \in Controls
      PROVE  /\ p.cmd = "done" <=> p = Agreed
             /\ p.cmd = "helloResponse" <=> p = Answered
             /\ p.cmd = "poke" <=> p = Poked
             /\ p.cmd = "reset" <=> p = Resetting
  BY DEF Controls, Agreed, Answered, Poked, Resetting
<1>3. Agreed.cmd = "done" /\ Answered.cmd = "helloResponse" /\ Poked.cmd = "poke" /\ Resetting.cmd = "reset"
  BY DEF Agreed, Answered, Poked, Resetting
<1>4. {Agreed, Answered, Poked, Resetting} \subseteq OutPacket
  BY OutTypes DEF Agreed, Answered, Poked, Resetting
<1>5. \A p \in OutPacket : p \in Controls \/ \E b \in Nat : p = Data(b)
  BY DEF OutPacket
<1>6. ASSUME NEW p \in OutPacket
      PROVE  /\ p.cmd = "done" <=> p = Agreed
             /\ p.cmd = "helloResponse" <=> p = Answered
             /\ p.cmd = "poke" <=> p = Poked
             /\ p.cmd = "reset" <=> p = Resetting
  <2>1. CASE p \in Controls
    BY <1>2, <2>1
  <2>2. CASE \E b \in Nat : p = Data(b)
    <3>1. p.cmd = "data"
      BY <1>1, <2>2
    <3> QED
      BY <1>3, <3>1
  <2> QED
    BY <1>5, <2>1, <2>2
<1> QED
  BY <1>1, <1>4, <1>6

-----------------------------------------------------------------------------
(* The session: what the host does.                                        *)

LEMMA HelloTaken ==
    ASSUME TypeOK, SinglePacket, in # << >>, Head(in).cmd = "hello"
    PROVE  rom = "greeted" /\ in = << Hello >> /\ out = << >>
<1>1. \A p : in = << p >> => Head(in) = p
  OBVIOUS
<1>2. \A r \in Ranges : in # << Read(r) >>
  BY <1>1, PacketTypes
<1>3. in # << EndImage(TRUE) >> /\ in # << EndImage(FALSE) >> /\ in # << DoneResponse >>
  BY <1>1, PacketTypes
<1>4. rom \notin {"reset", "ask"}
  BY DEF SinglePacket
<1>5. rom \notin {"ended", "refused", "started"}
  BY <1>3 DEF SinglePacket
<1>6. rom # "raw"
  BY <1>2 DEF SinglePacket
<1> QED
  BY <1>4, <1>5, <1>6 DEF SinglePacket, TypeOK

LEMMA AnswerSession ==
    ASSUME TypeOK, link, AnswerHello, Beginning \/ SinglePacket
    PROVE  Session'
<1>1. /\ Running /\ in # << >> /\ in' = Tail(in) /\ UNCHANGED <<faults, target>>
      /\ Head(in).cmd = "hello" /\ out' = Append(out, Answered)
      /\ host' = "command" /\ host \in {"hello", "helloAgain"}
  BY DEF AnswerHello, InHello, Rx, Tx, Goto, image, Answered
<1>2. rom = "greeted" /\ (\A i \in 1 .. Len(in) : in[i] = Hello) /\ \A i \in 1 .. Len(out) : out[i] = Poked
  <2>1. CASE SinglePacket
    <3>1. rom = "greeted" /\ in = << Hello >> /\ out = << >>
      BY <1>1, <2>1, HelloTaken
    <3> QED
      BY <3>1
  <2>2. CASE Beginning
    BY <1>1, <2>2 DEF Beginning
  <2> QED
    BY <2>1, <2>2
<1>3. NoBulk
  BY <1>2, PacketTypes DEF NoBulk, Bulk
<1>4. NoBulk'
  BY <1>1, <1>3, BulkTail
<1>5. Len(out) \in Nat /\ Len(out') = Len(out) + 1 /\ out'[Len(out) + 1] = Answered
      /\ \A i \in 1 .. Len(out) : out'[i] = out[i]
  BY <1>1, AppendOf, OutKinds DEF TypeOK
<1>6. rom' = "greeted"
  BY <1>1, <1>2 DEF target
<1> QED
  BY <1>1, <1>2, <1>4, <1>5, <1>6 DEF Session

LEMMA TransferSession ==
    ASSUME TypeOK, Session, StartTransfer
    PROVE  Session'
<1>1. /\ in # << >> /\ in' = Tail(in) /\ UNCHANGED target /\ out' = out
      /\ Head(in).cmd = "read" /\ req' = Head(in).req /\ fpos' = req'.off /\ sent' = 0
      /\ host' = "transfer" /\ host = "command"
  BY DEF StartTransfer, Rx, Goto
<1>2. Bulk(Head(in)) /\ (\A r \in Ranges : Bulk(Read(r)) /\ Read(r).req = r) /\ \A b \in BOOLEAN : Bulk(EndImage(b))
  BY <1>1, PacketTypes DEF Bulk, Read, Packet
<1>3. ~NoBulk
  BY <1>1, <1>2, BulkTail
<1>4. \A b \in BOOLEAN : ~OneBulk(EndImage(b))
  BY <1>1, <1>2, BulkTail, PacketTypes
<1>5. rom = "raw" /\ Requested
  BY <1>1, <1>3, <1>4 DEF Session, Served, Starved, TypeOK
<1>6. PICK r \in Ranges : OneBulk(Read(r)) /\ need = Span(r) /\ out = << >> /\ Exact
  BY <1>5 DEF Requested
<1>7. Head(in) = Read(r) /\ NoBulk'
  BY <1>1, <1>2, <1>6, BulkTail, PacketTypes
<1>8. req' = r /\ Left' = r.len - 0
  BY <1>1, <1>2, <1>7 DEF Left
<1>9. /\ need \in Seq(Nat) /\ Len(need) = r.len /\ r.len \in Nat \ {0} /\ r.off \in Nat
      /\ \A i \in 1 .. r.len : need[i] = r.off + i
  BY <1>6, SpanType
<1>10. Served'
  BY <1>1, <1>6, <1>7, <1>8, <1>9 DEF Served, Exact, target
<1> QED
  BY <1>1, <1>5, <1>10 DEF Session, target

LEMMA ChunkSession ==
    ASSUME TypeOK, Session, SendChunk
    PROVE  Session'
<1>1. /\ host = "transfer" /\ UNCHANGED <<in, target, req>>
      /\ fpos' = fpos + Chunk /\ sent' = sent + Chunk
      /\ host' = IF sent' < req.len THEN "transfer" ELSE "command"
  BY DEF SendChunk, Transferring, Goto
<1>2. PICK n \in 1 .. Chunk : out' = out \o [i \in 1 .. n |-> Data(fpos + i)]
  BY DEF SendChunk
<1>3. /\ Chunk \in Nat \ {0} /\ Chunk <= req.len - sent /\ req.len \in Nat /\ sent \in Nat
      /\ fpos \in Nat
  BY <1>1, ChunkType DEF TypeOK
<1>4. Left = req.len - sent /\ Left' = Left - Chunk /\ Left \in Nat
  BY <1>1, <1>3 DEF Left
<1>5. /\ Len(out) \in Nat /\ Len(out') = Len(out) + n
      /\ \A i \in 1 .. Len(out) : out'[i] = out[i]
      /\ \A i \in 1 .. n : out'[Len(out) + i] = Data(fpos + i)
  <2>1. [i \in 1 .. n |-> Data(fpos + i)] \in Seq(OutPacket)
    BY <1>2, <1>3, OutTypes
  <2>2. Len([i \in 1 .. n |-> Data(fpos + i)]) = n
    BY <1>2, <1>3
  <2> QED
    BY <1>2, <2>1, <2>2 DEF TypeOK
<1>6. rom = "raw" /\ (Served \/ Starved)
  BY <1>1 DEF Session, Requested, TypeOK
<1>7. host' # "final" /\ NoBulk' /\ rom' = "raw"
  BY <1>1, <1>6 DEF Served, Starved, NoBulk, target
<1>8. Len(need) \in Nat
  BY DEF TypeOK
<1>9. CASE Starved \/ n # Chunk
  <2>0. Len(out) + Left <= Len(need)
    BY <1>4, <1>5, <1>6, <1>8 DEF Served, Starved
  <2>s. n # Chunk \/ Len(out) + Left < Len(need)
    BY <1>9 DEF Starved
  <2>n. n \in Nat /\ n <= Chunk /\ (n # Chunk => n < Chunk)
    BY <1>3
  <2>a. Len(out') + Left' = Len(out) + n + (Left - Chunk)
    BY <1>4, <1>5
  <2>b. Len(out') + Left' < Len(need)
    <3> HIDE DEF Left, Chunk
    <3>1. CASE Len(out) + Left < Len(need)
      BY <1>3, <1>4, <1>5, <1>8, <2>0, <2>n, <2>a, <3>1, SMTT(30)
    <3>2. CASE n # Chunk
      BY <1>3, <1>4, <1>5, <1>8, <2>0, <2>n, <2>a, <3>2, SMTT(30)
    <3> QED
      BY <2>s, <3>1, <3>2
  <2>1. Starved'
    BY <1>1, <1>7, <2>b DEF Starved, target
  <2> QED
    BY <1>7, <2>1 DEF Session
<1>10. CASE Served /\ n = Chunk
  <2>1. Len(need') = Len(out') + Left'
    BY <1>1, <1>3, <1>4, <1>5, <1>10 DEF Served, target
  <2>2. ASSUME NEW i \in 1 .. Len(out') PROVE out'[i] = Data(need'[i])
    <3>1. CASE i <= Len(out)
      BY <1>1, <1>5, <1>10, <3>1 DEF Served, target
    <3>2. CASE i > Len(out)
      <4>1. i - Len(out) \in 1 .. n /\ i - Len(out) \in 1 .. Left
        BY <1>3, <1>4, <1>5, <1>10, <3>2
      <4>2. out'[Len(out) + (i - Len(out))] = Data(fpos + (i - Len(out)))
        BY <1>5, <4>1
      <4>3. need[Len(out) + (i - Len(out))] = fpos + (i - Len(out))
        BY <1>10, <4>1 DEF Served
      <4>4. Len(out) + (i - Len(out)) = i
        BY <1>5
      <4> QED
        BY <1>1, <4>2, <4>3, <4>4 DEF target
    <3> QED
      BY <1>5, <3>1, <3>2
  <2>3. ASSUME NEW j \in 1 .. Left' PROVE need'[Len(out') + j] = fpos' + j
    <3>1. Chunk + j \in 1 .. Left
      BY <1>3, <1>4
    <3>2. need[Len(out) + (Chunk + j)] = fpos + (Chunk + j)
      BY <1>10, <3>1 DEF Served
    <3>3. Len(out') + j = Len(out) + (Chunk + j) /\ fpos' + j = fpos + (Chunk + j)
      BY <1>1, <1>3, <1>4, <1>5, <1>10
    <3> QED
      BY <1>1, <3>2, <3>3 DEF target
  <2>4. Exact'
    BY <1>1, <1>10 DEF Served, Exact, target
  <2> QED
    BY <1>7, <2>1, <2>2, <2>3, <2>4 DEF Session, Served
<1> QED
  BY <1>6, <1>9, <1>10

LEMMA AbandonSession ==
    ASSUME TypeOK, Session, AbandonTransfer
    PROVE  Session'
<1>1. host = "transfer" /\ host' = "command" /\ UNCHANGED <<in, target, req, fpos, sent, out>>
  BY DEF AbandonTransfer, Transferring, Goto
<1>2. Left \in Nat \ {0} /\ Left' = 0 /\ Len(out) \in Nat /\ Len(need) \in Nat
  <2>1. req.len \in Nat /\ sent \in Nat /\ sent < req.len
    BY <1>1, ChunkType DEF TypeOK
  <2>2. Left = req.len - sent /\ Left' = 0
    BY <1>1 DEF Left
  <2> QED
    BY <2>1, <2>2 DEF TypeOK
<1>3. rom = "raw" /\ (Served \/ Starved)
  BY <1>1 DEF Session, Requested, TypeOK
<1>4. Starved'
  BY <1>1, <1>2, <1>3 DEF Served, Starved, NoBulk, target
<1> QED
  BY <1>1, <1>3, <1>4 DEF Session, target

LEMMA EndSession ==
    ASSUME TypeOK, Session, link, EndOfImage, InSession'
    PROVE  Session' /\ Exact /\ rom = "ended" /\ out' = << Agreed >>
<1>1. /\ in # << >> /\ in' = Tail(in) /\ UNCHANGED target
      /\ Head(in).cmd = "end" /\ host = "command"
  BY DEF EndOfImage, Rx
<1>2. Head(in).ok /\ out' = Append(out, Agreed) /\ host' = "final"
  BY DEF EndOfImage, Tx, Agreed, InSession, Running, Return, Goto
<1>3. Bulk(Head(in)) /\ (\A r \in Ranges : Bulk(Read(r)) /\ Read(r).cmd = "read")
      /\ \A b \in BOOLEAN : Bulk(EndImage(b)) /\ EndImage(b).ok = b
  BY <1>1, PacketTypes DEF Bulk, EndImage, Packet
<1>4. ~NoBulk /\ (\A r \in Ranges : ~OneBulk(Read(r))) /\ ~OneBulk(EndImage(FALSE))
  BY <1>1, <1>2, <1>3, BulkTail, PacketTypes
<1>5. rom = "ended" /\ OneBulk(EndImage(TRUE)) /\ out = << >> /\ Exact
  BY <1>1, <1>4 DEF Session, Served, Starved, Requested, TypeOK
<1>6. NoBulk'
  BY <1>1, <1>3, <1>5, BulkTail, PacketTypes
<1>7. out' = << Agreed >>
  BY <1>2, <1>5
<1> QED
  BY <1>1, <1>2, <1>5, <1>6, <1>7 DEF Session, target

\* A packet that says nothing of the image is taken and forgotten.
LEMMA ForgetSession ==
    ASSUME TypeOK, Session, in # << >>, in' = Tail(in), ~Bulk(Head(in)),
           UNCHANGED <<host, serving, out, target>>
    PROVE  Session'
<1> USE DEF serving, target
<1>1. NoBulk => NoBulk'
  BY BulkTail
<1>2. \A p \in InPacket : Bulk(p) /\ OneBulk(p) => OneBulk(p)'
  BY BulkTail
<1>3. (\A r \in Ranges : Read(r) \in InPacket /\ Bulk(Read(r)))
      /\ \A b \in BOOLEAN : EndImage(b) \in InPacket /\ Bulk(EndImage(b))
  BY PacketTypes DEF Bulk
<1>4. (\A r \in Ranges : OneBulk(Read(r)) => OneBulk(Read(r))')
      /\ \A b \in BOOLEAN : OneBulk(EndImage(b)) => OneBulk(EndImage(b))'
  BY <1>2, <1>3
<1>5. Exact => Exact'
  BY DEF Exact
<1>6. (Requested => Requested') /\ (Served => Served') /\ (Starved => Starved')
  BY <1>1, <1>4, <1>5 DEF Requested, Served, Starved, Left
<1> QED
  BY <1>1, <1>4, <1>5, <1>6 DEF Session

LEMMA HostSession ==
    ASSUME TypeOK, link, Host, InSession', InSession => Session,
           AnswerHello => Beginning \/ SinglePacket
    PROVE  Session'
<1>1. CASE AnswerHello
  BY <1>1, AnswerSession
<1>2. CASE NotHello \/ Poke \/ GiveUp \/ Unexpected \/ FinalPacket
  BY <1>2 DEF NotHello, Poke, GiveUp, Unexpected, FinalPacket, Return, Goto, InSession, Running
<1>3. CASE StartTransfer \/ EndOfImage \/ HelloAgain \/ SendChunk \/ AbandonTransfer
  <2>1. InSession
    BY <1>3 DEF StartTransfer, EndOfImage, HelloAgain, SendChunk, AbandonTransfer, Rx, Transferring,
                InSession
  <2>2. Session
    BY <2>1
  <2>3. CASE HelloAgain
    <3>1. /\ in # << >> /\ in' = Tail(in) /\ ~Bulk(Head(in))
          /\ UNCHANGED <<host, serving, out, target>>
      BY <2>3 DEF HelloAgain, Rx, Bulk
    <3> QED
      BY <2>2, <3>1, ForgetSession
  <2> QED
    BY <1>3, <2>2, <2>3, TransferSession, EndSession, ChunkSession, AbandonSession
<1> QED
  BY <1>1, <1>2, <1>3 DEF Host

-----------------------------------------------------------------------------
(* The session: what the ROM does.                                         *)

LEMMA GreetedSession ==
    ASSUME TypeOK, Session, rom = "greeted" => mem = << >>, TakeGreeted
    PROVE  Session'
<1>1. /\ rom = "greeted" /\ out # << >> /\ out' = Tail(out) /\ UNCHANGED <<host, mem>> /\ mem = << >>
      /\ IF Head(out).cmd = "helloResponse" THEN rom' = "ask" /\ in' = in
         ELSE rom' = "greeted" /\ in' = Append(in, Hello)
  BY DEF TakeGreeted, Take, Rom
<1>2. PICK n \in Nat : /\ Len(out) = n + 1 /\ out[n + 1] = Answered
                       /\ \A i \in 1 .. n : out[i] = Poked
  BY <1>1 DEF Session
<1>3. host = "command" /\ NoBulk
  BY <1>1 DEF Session
<1>t. /\ out' \in Seq(OutPacket) /\ Len(out') = n /\ Head(out) = out[1]
      /\ \A i \in 1 .. n : out'[i] = out[i + 1]
  BY <1>1, <1>2, TailOf DEF TypeOK
<1>4. CASE n = 0
  <2>1. Head(out).cmd = "helloResponse"
    BY <1>2, <1>4, <1>t DEF Answered
  <2>2. out' = << >> /\ NoBulk' /\ Exact'
    BY <1>1, <1>3, <1>4, <1>t, <2>1 DEF NoBulk, Exact
  <2> QED
    BY <1>1, <1>3, <2>1, <2>2 DEF Session
<1>5. CASE n # 0
  <2>1. Head(out).cmd # "helloResponse"
    BY <1>2, <1>5, <1>t DEF Poked
  <2>2. NoBulk'
    BY <1>1, <1>3, <2>1, BulkAdd, PacketTypes DEF Bulk
  <2>3. n - 1 \in Nat /\ Len(out') = (n - 1) + 1 /\ out'[(n - 1) + 1] = Answered
    BY <1>2, <1>5, <1>t
  <2>4. \A i \in 1 .. n - 1 : out'[i] = Poked
    BY <1>2, <1>5, <1>t
  <2> QED
    BY <1>1, <1>3, <2>1, <2>2, <2>3, <2>4 DEF Session
<1> QED
  BY <1>4, <1>5

LEMMA AskSession ==
    ASSUME TypeOK, Session, Ask
    PROVE  Session'
<1>1. PICK r \in Ranges : in' = Append(in, Read(r)) /\ need' = Span(r)
  BY DEF Ask
<1>2. rom = "ask" /\ rom' = "raw" /\ UNCHANGED <<host, out, mem>>
  BY DEF Ask, Rom
<1>3. host = "command" /\ NoBulk /\ out = << >> /\ Exact
  BY <1>2 DEF Session
<1>4. OneBulk(Read(r))'
  BY <1>1, <1>3, BulkAdd, PacketTypes DEF Bulk
<1>5. Exact'
  BY <1>2, <1>3 DEF Exact
<1> QED
  BY <1>1, <1>2, <1>3, <1>4, <1>5 DEF Session, Requested

LEMMA StoreSession ==
    ASSUME TypeOK, Session, InSession, Store
    PROVE  Session'
<1>1. /\ rom = "raw" /\ out # << >> /\ out' = Tail(out) /\ need' = Tail(need)
      /\ mem' = Append(mem, <<Head(need), Head(out).block>>) /\ rom' = IF Len(need) = 1 THEN "ask" ELSE "raw"
      /\ UNCHANGED <<host, in, serving>>
  BY DEF Store, Take, Rom
<1>2. host \in {"command", "transfer"} /\ (Served \/ Starved)
  BY <1>1 DEF Session, Requested, InSession
<1>o. /\ out' \in Seq(OutPacket) /\ Len(out') = Len(out) - 1 /\ Len(out) \in Nat \ {0}
      /\ Head(out) = out[1] /\ \A i \in 1 .. Len(out) - 1 : out'[i] = out[i + 1]
  BY <1>1, TailOf DEF TypeOK
<1>n. /\ need' \in Seq(Nat) /\ Len(need') = Len(need) - 1 /\ Len(need) \in Nat \ {0}
      /\ Head(need) = need[1] /\ \A i \in 1 .. Len(need) - 1 : need'[i] = need[i + 1]
      /\ Head(need) \in Nat
  <2>1. need \in Seq(Nat) /\ need # << >>
    BY <1>1 DEF TypeOK
  <2> QED
    BY <1>1, <2>1, TailOf
<1>l. Left' = Left /\ Left \in Nat /\ (host = "transfer" => Left > 0)
  <2>1. CASE host = "transfer"
    <3>1. req.len \in Nat /\ sent \in Nat /\ sent < req.len
      BY <2>1, ChunkType DEF TypeOK
    <3> QED
      BY <1>1, <2>1, <3>1 DEF Left, serving
  <2>2. CASE host # "transfer"
    BY <1>1, <2>2 DEF Left
  <2> QED
    BY <2>1, <2>2
<1>b. NoBulk /\ NoBulk'
  BY <1>1, <1>2 DEF Served, Starved, NoBulk
<1>3. CASE Starved
  <2>0. Len(out) + Left < Len(need)
    BY <1>3 DEF Starved
  <2>a. Left \in Int /\ Left >= 0 /\ Left' = Left
    BY <1>l
  <2>b. Len(out') = Len(out) - 1 /\ Len(out) \in Int /\ Len(out) >= 1
    BY <1>o
  <2>c. Len(need') = Len(need) - 1 /\ Len(need) \in Int
    BY <1>n
  <2>1. Len(need) # 1 /\ Len(out') + Left' < Len(need')
    BY <2>0, <2>a, <2>b, <2>c
  <2>2. Starved' /\ rom' = "raw"
    BY <1>1, <1>b, <2>1 DEF Starved
  <2> QED
    BY <1>1, <1>2, <2>2 DEF Session
<1>4. CASE Served
  <2>1. Head(out).block = Head(need)
    <3>1. out[1] = Data(need[1])
      BY <1>4, <1>o DEF Served
    <3> QED
      BY <1>o, <1>n, <3>1, OutKinds
  <2>2. Exact'
    <3>1. mem \in Seq(Nat \X Int) /\ <<Head(need), Head(out).block>> \in Nat \X Int
      BY <1>n, <2>1 DEF TypeOK
    <3>2. /\ mem' \in Seq(Nat \X Int) /\ Len(mem') = Len(mem) + 1 /\ Len(mem) \in Nat
          /\ \A i \in 1 .. Len(mem) : mem'[i] = mem[i]
          /\ mem'[Len(mem) + 1] = <<Head(need), Head(out).block>>
      BY <1>1, <3>1, AppendOf
    <3>3. \A i \in 1 .. Len(mem) : mem[i][2] = mem[i][1]
      BY <1>4, <3>1 DEF Served, Exact
    <3>4. ASSUME NEW i \in 1 .. Len(mem') PROVE mem'[i][2] = mem'[i][1]
      <4>1. CASE i \in 1 .. Len(mem)
        BY <3>2, <3>3, <4>1
      <4>2. CASE i \notin 1 .. Len(mem)
        <5>1. i = Len(mem) + 1
          BY <3>2, <4>2
        <5>2. mem'[i] = <<Head(need), Head(out).block>>
          BY <3>2, <5>1
        <5> QED
          BY <2>1, <5>2
      <4> QED
        BY <4>1, <4>2
    <3> QED
      BY <3>2, <3>4 DEF Exact
  <2>3. Len(need) = Len(out) + Left
    BY <1>4 DEF Served
  <2>4. CASE Len(need) = 1
    <3>a. Left \in Int /\ Left >= 0
      BY <1>l
    <3>b. Len(out) \in Int /\ Len(out) >= 1 /\ Len(out') = Len(out) - 1
      BY <1>o
    <3>c. Len(out) + Left = 1
      BY <2>3, <2>4
    <3>d. ~(Left > 0)
      BY <3>a, <3>b, <3>c
    <3>e. Len(out) = 1
      BY <3>a, <3>b, <3>c
    <3>f. Len(out') = 0
      BY <3>b, <3>e
    <3>1. Len(out') = 0 /\ host = "command"
      BY <1>2, <1>l, <3>d, <3>f
    <3>2. out' = << >>
      BY <1>o, <3>1
    <3> QED
      BY <1>1, <1>b, <2>2, <2>4, <3>1, <3>2 DEF Session
  <2>5. CASE Len(need) # 1
    <3>1. Len(need') = Len(out') + Left'
      BY <1>o, <1>n, <1>l, <2>3
    <3>2. ASSUME NEW i \in 1 .. Len(out') PROVE out'[i] = Data(need'[i])
      <4>1. i + 1 \in 1 .. Len(out) /\ i \in 1 .. Len(need) - 1 /\ i \in 1 .. Len(out) - 1
        BY <1>o, <1>n, <1>l, <2>3
      <4>2. out[i + 1] = Data(need[i + 1])
        BY <1>4, <4>1 DEF Served
      <4> QED
        BY <1>o, <1>n, <4>1, <4>2
    <3>3. ASSUME NEW j \in 1 .. Left' PROVE need'[Len(out') + j] = fpos' + j
      <4>1. Len(out') + j \in 1 .. Len(need) - 1 /\ (Len(out') + j) + 1 = Len(out) + j
        BY <1>o, <1>n, <1>l, <2>3
      <4>2. need[Len(out) + j] = fpos + j
        BY <1>4, <1>l DEF Served
      <4>3. need'[Len(out') + j] = need[(Len(out') + j) + 1]
        BY <1>n, <4>1
      <4> QED
        BY <1>1, <4>1, <4>2, <4>3 DEF serving
    <3>4. Served'
      BY <1>b, <2>2, <3>1, <3>2, <3>3 DEF Served
    <3> QED
      BY <1>1, <1>2, <2>5, <3>4 DEF Session
  <2> QED
    BY <2>4, <2>5
<1> QED
  BY <1>2, <1>3, <1>4

LEMMA CompleteSession ==
    ASSUME TypeOK, Session, Complete
    PROVE  Session'
<1>1. /\ rom = "ask" /\ UNCHANGED <<host, out, mem>>
      /\ \/ in' = Append(in, EndImage(TRUE)) /\ rom' = "ended"
         \/ in' = Append(in, EndImage(FALSE)) /\ rom' = "refused"
  BY DEF Complete, Rom
<1>2. host = "command" /\ NoBulk /\ out = << >> /\ Exact
  BY <1>1 DEF Session
<1>3. \A b \in BOOLEAN : in' = Append(in, EndImage(b)) => OneBulk(EndImage(b))'
  BY <1>2, BulkAdd, PacketTypes DEF Bulk
<1>4. Exact'
  BY <1>1, <1>2 DEF Exact
<1> QED
  BY <1>1, <1>2, <1>3, <1>4 DEF Session

LEMMA EndedSession ==
    ASSUME TypeOK, Session, TakeEnded
    PROVE  Session'
<1>1. rom = "ended" /\ out # << >> /\ UNCHANGED host
  BY DEF TakeEnded, Take, Rom
<1>2. host = "final" /\ NoBulk /\ out = << Agreed >>
  BY <1>1 DEF Session
<1>3. Head(out).cmd = "done"
  BY <1>2 DEF Agreed
<1>4. rom' = "started" /\ in' = Append(in, DoneResponse)
  BY <1>3 DEF TakeEnded
<1>5. NoBulk'
  BY <1>2, <1>4, BulkAdd, PacketTypes DEF Bulk
<1> QED
  BY <1>1, <1>2, <1>4, <1>5 DEF Session

\* A packet that has no place here.
LEMMA CorruptSession ==
    ASSUME TypeOK, Session, Corrupt
    PROVE  Session'
<1> USE DEF serving, target
<1>1. /\ rom \notin {"reset", "greeted"} /\ UNCHANGED <<host, serving, out, target>>
  BY DEF Corrupt, Rom
<1>2. PICK q \in InPacket : in' = Append(in, q) /\ ~Bulk(q)
  BY PacketTypes DEF Corrupt, Bulk
<1>3. NoBulk => NoBulk'
  BY <1>2, BulkAdd
<1>4. (\A r \in Ranges : OneBulk(Read(r)) => OneBulk(Read(r))')
      /\ \A b \in BOOLEAN : OneBulk(EndImage(b)) => OneBulk(EndImage(b))'
  BY <1>2, BulkAdd, PacketTypes
<1>5. Exact => Exact'
  BY <1>1 DEF Exact
<1>6. (Requested => Requested') /\ (Served => Served') /\ (Starved => Starved')
  BY <1>1, <1>3, <1>4, <1>5 DEF Requested, Served, Starved, Left
<1> QED
  BY <1>1, <1>3, <1>4, <1>5, <1>6 DEF Session

LEMMA RomSession ==
    ASSUME TypeOK, RomSteps \/ Corrupt, InSession', InSession => Session,
           rom = "greeted" => mem = << >>
    PROVE  Session'
<1>1. InSession
  BY DEF RomSteps, Corrupt, Greet, TakeGreeted, Ask, Store, Complete, TakeEnded, TakeRefused, Take,
         Rom, InSession, Running
<1>2. Session
  BY <1>1
<1>3. CASE Greet \/ TakeRefused
  BY <1>2, <1>3 DEF Greet, TakeRefused, Take, Session
<1> QED
  BY <1>1, <1>2, <1>3, GreetedSession, AskSession, StoreSession, CompleteSession, EndedSession,
     CorruptSession DEF RomSteps

-----------------------------------------------------------------------------
(* A first run before the hello.                                           *)

LEMMA BeginningStep ==
    ASSUME TypeOK, link, Host \/ RomSteps \/ Corrupt, Running /\ InHello => Beginning,
           Running', InHello'
    PROVE  Beginning'
<1> USE DEF InHello
<1>1. CASE Host
  <2>1. Poke
    BY <1>1 DEF Host, AnswerHello, NotHello, Poke, GiveUp, StartTransfer, SendChunk, AbandonTransfer,
         EndOfImage, HelloAgain, Unexpected, FinalPacket, Rx, RxFails, Transferring, Return, Goto, Running
  <2>2. /\ host = "hello" /\ Running /\ out' = Append(out, Poked) /\ rom' = rom
        /\ in' = in \/ (in # << >> /\ in' = Tail(in))
    BY <2>1 DEF Poke, RxFails, Tx, Poked, target
  <2>3. Beginning
    BY <2>2
  <2>4. /\ \A i \in 1 .. Len(in') : in'[i] = Hello
        /\ in = << >> => in' = << >>
    <3>1. CASE in' = in
      BY <2>3, <3>1 DEF Beginning
    <3>2. CASE in # << >> /\ in' = Tail(in)
      BY <2>3, <3>2, TailOf DEF Beginning, TypeOK
    <3> QED
      BY <2>2, <3>1, <3>2
  <2>5. \A i \in 1 .. Len(out') : out'[i] = Poked
    BY <2>2, <2>3, AppendOf, OutKinds DEF Beginning, TypeOK
  <2> QED
    BY <2>2, <2>3, <2>4, <2>5 DEF Beginning
<1>2. CASE RomSteps \/ Corrupt
  <2>1. Running /\ host \in {"hello", "helloAgain"} /\ Beginning
    BY <1>2 DEF RomSteps, Corrupt, Greet, TakeGreeted, Ask, Store, Complete, TakeEnded, TakeRefused,
                Take, Rom, Running
  <2>2. Greet \/ TakeGreeted
    BY <1>2, <2>1 DEF RomSteps, Corrupt, Ask, Store, Complete, TakeEnded, TakeRefused, Beginning
  <2>3. CASE Greet
    <3>1. in' = Append(in, Hello) /\ rom' = "greeted" /\ out' = out
      BY <2>3 DEF Greet
    <3> QED
      BY <2>1, <3>1, AppendOf, PacketTypes DEF Beginning, TypeOK
  <2>4. CASE TakeGreeted
    <3>1. rom = "greeted" /\ out # << >> /\ out' = Tail(out)
      BY <2>4 DEF TakeGreeted, Take
    <3>2. /\ Head(out) = out[1] /\ Len(out) \in Nat \ {0} /\ Len(out') = Len(out) - 1
          /\ \A i \in 1 .. Len(out) - 1 : out'[i] = out[i + 1]
      BY <3>1, TailOf DEF TypeOK
    <3>3. Head(out).cmd = "poke"
      BY <2>1, <3>2 DEF Beginning, Poked
    <3>4. rom' = "greeted" /\ in' = Append(in, Hello)
      BY <2>4, <3>1, <3>3 DEF TakeGreeted
    <3>5. \A i \in 1 .. Len(in') : in'[i] = Hello
      BY <2>1, <3>4, AppendOf, PacketTypes DEF Beginning, TypeOK
    <3>6. \A i \in 1 .. Len(out') : out'[i] = Poked
      BY <2>1, <3>2 DEF Beginning
    <3> QED
      BY <3>4, <3>5, <3>6 DEF Beginning
  <2> QED
    BY <2>2, <2>3, <2>4
<1> QED
  BY <1>1, <1>2

-----------------------------------------------------------------------------
(* One packet at a time.                                                   *)

LEMMA Single ==
    ASSUME NEW p, NEW s, s = << p >>
    PROVE  s # << >> /\ Head(s) = p /\ Tail(s) = << >> /\ Len(s) = 1
OBVIOUS

\* What may be under way to the host.
LEMMA InKinds ==
    ASSUME TypeOK, SinglePacket, in # << >>
    PROVE  /\ Tail(in) = << >> /\ (out = << >> \/ rom = "started") /\ rom \notin {"reset", "ask"}
           /\ Head(in).cmd \in {"hello", "read", "end", "doneResponse"}
           /\ rom = "greeted" => Head(in).cmd = "hello"
           /\ Head(in).cmd = "doneResponse" => rom = "started"
<1>1. \E p \in {Hello, EndImage(TRUE), EndImage(FALSE), DoneResponse} \cup {Read(r) : r \in Ranges} :
         /\ in = << p >> /\ (rom = "greeted" => p = Hello) /\ (p = DoneResponse => rom = "started")
         /\ out = << >> \/ rom = "started"
  <2>1. CASE rom = "raw"
    <3>1. PICK r \in Ranges : in = << Read(r) >> /\ out = << >>
      BY <2>1 DEF SinglePacket
    <3>2. Read(r) # DoneResponse
      BY PacketTypes
    <3> QED
      BY <2>1, <3>1, <3>2
  <2>2. CASE rom \in {"greeted", "ended", "refused", "started"}
    <3>1. Hello # DoneResponse /\ EndImage(TRUE) # DoneResponse /\ EndImage(FALSE) # DoneResponse
      BY PacketTypes
    <3> QED
      BY <2>2, <3>1 DEF SinglePacket
  <2> QED
    BY <2>1, <2>2 DEF SinglePacket, TypeOK
<1>2. PICK p \in {Hello, EndImage(TRUE), EndImage(FALSE), DoneResponse} \cup {Read(r) : r \in Ranges} :
         /\ in = << p >> /\ (rom = "greeted" => p = Hello) /\ (p = DoneResponse => rom = "started")
         /\ out = << >> \/ rom = "started"
  BY <1>1
<1>3. Head(in) = p /\ Tail(in) = << >>
  BY <1>2, Single
<1>4. p.cmd \in {"hello", "read", "end", "doneResponse"} /\ (p.cmd = "doneResponse" => p = DoneResponse)
      /\ Hello.cmd = "hello"
  BY PacketTypes
<1>5. rom \notin {"reset", "ask"}
  BY DEF SinglePacket
<1> QED
  BY <1>2, <1>3, <1>4, <1>5

LEMMA TakeIn ==
    ASSUME TypeOK, SinglePacket, in # << >>, in' = Tail(in), UNCHANGED <<out, target>>
    PROVE  SinglePacket'
<1>1. in' = << >> /\ (out' = << >> \/ rom' = "started") /\ rom' \notin {"reset", "ask"}
  BY InKinds DEF target
<1>2. Len(<< >>) = 0 /\ Len(need') \in Nat
  BY DEF TypeOK, target
<1>3. out' = << >> => Len(out') <= Len(need')
  BY <1>2
<1> QED
  BY <1>1, <1>3 DEF SinglePacket

LEMMA SendOut ==
    ASSUME TypeOK, SinglePacket, in' = << >>, UNCHANGED target, NEW c \in {"poke", "reset"},
           out = << >> \/ rom = "started", out' = Append(out, [cmd |-> c, block |-> Foreign]),
           rom \in {"raw", "ended", "refused", "started"} \/ (rom = "greeted" /\ c = "poke")
    PROVE  SinglePacket'
<1>1. CASE rom = "started"
  BY <1>1 DEF SinglePacket, target
<1>2. CASE rom # "started"
  <2>1. out' \in {<< Poked >>, << Resetting >>} /\ (rom = "greeted" => out' = << Poked >>)
    <3>0. \A x : Append(<< >>, x) = << x >>
      OBVIOUS
    <3>1. out' = << [cmd |-> c, block |-> Foreign] >>
      BY <1>2, <3>0
    <3>2. [cmd |-> c, block |-> Foreign] \in {Poked, Resetting} /\ (c = "poke" => [cmd |-> c, block |-> Foreign] = Poked)
      BY DEF Poked, Resetting
    <3> QED
      BY <1>2, <3>1, <3>2
  <2>2. Len(out') = 1
    BY <2>1
  <2>3. rom = "raw" => Len(need) \in Nat \ {0}
    BY DEF TypeOK
  <2> QED
    BY <1>2, <2>1, <2>2, <2>3 DEF SinglePacket, target
<1> QED
  BY <1>1, <1>2

LEMMA SinglePacketHost ==
    ASSUME TypeOK, ExactInv, Calm, link, "kill" \in faults, Host
    PROVE  SinglePacket'
<1>0. SinglePacket /\ "lateHello" \notin faults /\ (InSession => Session)
  BY DEF ExactInv, Calm
<1>r. ASSUME Rx PROVE in # << >> /\ in' = Tail(in) /\ UNCHANGED target /\ Running
  BY <1>r DEF Rx
<1>1. CASE AnswerHello
  <2>1. /\ in # << >> /\ in' = Tail(in) /\ UNCHANGED target /\ Head(in).cmd = "hello"
        /\ out' = Append(out, Answered)
    BY <1>1, <1>r DEF AnswerHello, Tx, Answered
  <2>2. rom = "greeted" /\ out = << >> /\ in' = << >>
    BY <1>0, <2>1, HelloTaken, Single
  <2> QED
    BY <2>1, <2>2 DEF SinglePacket, target
<1>2. CASE NotHello \/ Unexpected
  <2>1. /\ in # << >> /\ in' = Tail(in) /\ UNCHANGED target /\ Head(in).cmd # "hello"
        /\ out' = Append(out, [cmd |-> "reset", block |-> Foreign])
    BY <1>2, <1>r DEF NotHello, Unexpected, Tx
  <2>2. in' = << >> /\ (out = << >> \/ rom = "started") /\ rom \notin {"reset", "ask", "greeted"}
    BY <1>0, <2>1, InKinds
  <2> QED
    BY <1>0, <2>1, <2>2, SendOut DEF TypeOK
<1>3. CASE Poke
  <2>1. in # << >> => Head(in) # Garbage
    <3>1. Garbage.cmd = "garbage"
      BY PacketTypes
    <3>2. in # << >> => Head(in).cmd \in {"hello", "read", "end", "doneResponse"}
      BY <1>0, InKinds
    <3> QED
      BY <3>1, <3>2
  <2>2. in = << >> /\ in' = in /\ Silent /\ UNCHANGED target /\ out' = Append(out, [cmd |-> "poke", block |-> Foreign])
    BY <1>0, <1>3, <2>1 DEF Poke, RxFails, Late, Tx
  <2> QED
    BY <1>0, <2>2, SendOut DEF Silent
<1>4. CASE GiveUp
  <2>1. UNCHANGED <<out, target>> /\ (in' = in \/ (in # << >> /\ in' = Tail(in)))
    BY <1>4 DEF GiveUp, RxFails
  <2>2. CASE in' = in
    BY <1>0, <2>1, <2>2 DEF SinglePacket, target
  <2> QED
    BY <1>0, <2>1, <2>2, TakeIn
<1>5. CASE StartTransfer \/ HelloAgain \/ FinalPacket
  <2>1. Rx /\ UNCHANGED out
    BY <1>5 DEF StartTransfer, HelloAgain, FinalPacket
  <2> QED
    BY <1>0, <1>r, <2>1, TakeIn
<1>6. CASE EndOfImage
  <2>1. Rx
    BY <1>6 DEF EndOfImage
  <2>2. CASE Head(in).ok
    <3>1. InSession /\ InSession'
      BY <1>6, <2>1, <2>2 DEF EndOfImage, InSession, Goto, Rx, Running
    <3>2. rom = "ended" /\ out' = << Agreed >> /\ in' = << >> /\ UNCHANGED target
      BY <1>0, <1>6, <1>r, <2>1, <3>1, EndSession, InKinds
    <3> QED
      BY <3>2 DEF SinglePacket, target
  <2>3. CASE ~Head(in).ok
    BY <1>0, <1>6, <1>r, <2>1, <2>3, TakeIn DEF EndOfImage
  <2> QED
    BY <2>2, <2>3
<1>7. CASE SendChunk
  <2>1. /\ Running /\ host = "transfer" /\ UNCHANGED <<in, target>>
    BY <1>7 DEF SendChunk, Transferring
  <2>2. Session /\ rom = "raw" /\ (Served \/ Starved)
    BY <1>0, <2>1 DEF InSession, Session, Requested, TypeOK
  <2>3. NoBulk
    BY <2>2 DEF Served, Starved
  <2>4. in = << >>
    <3>1. ASSUME NEW r \in Ranges, in = << Read(r) >> PROVE FALSE
      <4>1. in[1] = Read(r) /\ 1 \in 1 .. Len(in) /\ Bulk(Read(r))
        BY <3>1, PacketTypes DEF Bulk
      <4> QED
        BY <2>3, <4>1 DEF NoBulk
    <3> QED
      BY <1>0, <2>2, <3>1 DEF SinglePacket
  <2>5. Len(out) + (req.len - sent) <= Len(need)
    <3>1. Left = req.len - sent
      BY <2>1 DEF Left
    <3>2. Len(out) \in Nat /\ Len(need) \in Nat /\ Left \in Int
      BY <2>1, <3>1, ChunkType DEF TypeOK
    <3>3. Len(out) + Left <= Len(need)
      BY <2>2, <3>2 DEF Served, Starved
    <3> QED
      BY <3>1, <3>3
  <2>6. PICK n \in 1 .. Chunk : out' = out \o [i \in 1 .. n |-> Data(fpos + i)]
    BY <1>7 DEF SendChunk
  <2>7. /\ Chunk \in Nat \ {0} /\ Chunk <= req.len - sent /\ req.len \in Nat /\ sent \in Nat
        /\ fpos \in Nat
    BY <2>1, ChunkType DEF TypeOK
  <2>8. Len(out) \in Nat /\ Len(out') = Len(out) + n
    <3>1. [i \in 1 .. n |-> Data(fpos + i)] \in Seq(OutPacket)
      BY <2>6, <2>7, OutTypes
    <3>2. Len([i \in 1 .. n |-> Data(fpos + i)]) = n
      BY <2>6, <2>7
    <3> QED
      BY <2>6, <3>1, <3>2 DEF TypeOK
  <2>9. Len(out') <= Len(need)
    <3>1. Len(need) \in Int /\ n \in Int /\ n <= Chunk /\ Chunk \in Int
      BY <2>6, <2>7 DEF TypeOK
    <3> QED
      BY <2>5, <2>7, <2>8, <3>1
  <2> QED
    BY <2>1, <2>2, <2>4, <2>9 DEF SinglePacket, target
<1>8. CASE AbandonTransfer
  BY <1>0, <1>8 DEF AbandonTransfer, Transferring, SinglePacket, target
<1> QED
  BY <1>1, <1>2, <1>3, <1>4, <1>5, <1>6, <1>7, <1>8 DEF Host

LEMMA SinglePacketRom ==
    ASSUME TypeOK, ExactInv, Calm, link, "kill" \in faults, RomSteps \/ Corrupt
    PROVE  SinglePacket'
<1>0. SinglePacket /\ "garbage" \notin faults
  BY DEF ExactInv, Calm
<1>a. \A x : Append(<< >>, x) = << x >>
  OBVIOUS
<1>1. CASE Greet
  BY <1>0, <1>1, <1>a DEF Greet, SinglePacket
<1>2. CASE TakeGreeted
  <2>1. rom = "greeted" /\ out # << >> /\ out' = Tail(out) /\ in = << >>
    BY <1>0, <1>2 DEF TakeGreeted, Take, SinglePacket
  <2>2. out' = << >> /\ Head(out) \in {Poked, Answered}
    BY <1>0, <2>1, Single DEF SinglePacket
  <2>3. Poked.cmd # "helloResponse" /\ Answered.cmd = "helloResponse"
    BY DEF Poked, Answered
  <2>4. \/ rom' = "ask" /\ in' = << >>
        \/ rom' = "greeted" /\ in' = << Hello >>
    BY <1>2, <1>a, <2>1, <2>2, <2>3 DEF TakeGreeted
  <2> QED
    BY <2>2, <2>4 DEF SinglePacket
<1>3. CASE Ask
  <2>1. PICK r \in Ranges : in' = Append(in, Read(r))
    BY <1>3 DEF Ask
  <2>2. rom = "ask" /\ rom' = "raw" /\ out' = out
    BY <1>3 DEF Ask
  <2>3. in' = << Read(r) >> /\ out' = << >>
    BY <1>0, <1>a, <2>1, <2>2 DEF SinglePacket
  <2> QED
    BY <2>2, <2>3 DEF SinglePacket
<1>4. CASE Store
  <2>1. /\ rom = "raw" /\ out # << >> /\ out' = Tail(out) /\ need' = Tail(need) /\ in' = in
        /\ rom' = IF Len(need) = 1 THEN "ask" ELSE "raw"
    BY <1>4 DEF Store, Take
  <2>2. in = << >> /\ Len(out) <= Len(need)
    BY <1>0, <2>1 DEF SinglePacket
  <2>3. Len(out') = Len(out) - 1 /\ Len(out) \in Nat \ {0} /\ out' \in Seq(OutPacket)
    BY <2>1, TailOf DEF TypeOK
  <2>4. Len(need') = Len(need) - 1 /\ Len(need) \in Nat \ {0}
    <3>1. need \in Seq(Nat) /\ need # << >>
      BY <2>1 DEF TypeOK
    <3> QED
      BY <2>1, <3>1, TailOf
  <2>5. Len(need) = 1 => out' = << >>
    BY <2>2, <2>3
  <2>6. Len(out') <= Len(need')
    BY <2>2, <2>3, <2>4
  <2> QED
    BY <2>1, <2>2, <2>5, <2>6 DEF SinglePacket
<1>5. CASE Complete
  <2>1. /\ rom = "ask" /\ out' = out
        /\ \/ in' = Append(in, EndImage(TRUE)) /\ rom' = "ended"
           \/ in' = Append(in, EndImage(FALSE)) /\ rom' = "refused"
    BY <1>5 DEF Complete
  <2> QED
    BY <1>0, <1>a, <2>1 DEF SinglePacket
<1>6. CASE TakeEnded
  <2>1. rom = "ended" /\ out # << >> /\ out' = Tail(out)
    BY <1>6 DEF TakeEnded, Take
  <2>2. in = << >> /\ out \in {<< Poked >>, << Agreed >>, << Resetting >>}
    BY <1>0, <2>1 DEF SinglePacket
  <2>3. out' = << >>
    BY <2>1, <2>2, Single
  <2>4. \/ rom' = "started" /\ in' = << DoneResponse >>
        \/ rom' \in {"reset", "ended"} /\ in' = << >>
    BY <1>6, <1>a, <2>1, <2>2 DEF TakeEnded
  <2> QED
    BY <2>3, <2>4 DEF SinglePacket
<1>7. CASE TakeRefused
  <2>1. rom = "refused" /\ out # << >> /\ out' = Tail(out) /\ in' = in /\ rom' \in {"refused", "reset"}
    BY <1>7 DEF TakeRefused, Take
  <2>2. in = << >> /\ out \in {<< Poked >>, << Resetting >>}
    BY <1>0, <2>1 DEF SinglePacket
  <2>3. out' = << >>
    BY <2>1, <2>2, Single
  <2> QED
    BY <2>1, <2>2, <2>3 DEF SinglePacket
<1>8. CASE Corrupt
  BY <1>0, <1>8 DEF Corrupt
<1> QED
  BY <1>1, <1>2, <1>3, <1>4, <1>5, <1>6, <1>7, <1>8 DEF RomSteps

-----------------------------------------------------------------------------
(* The agreement, and what has started.                                    *)

AgreedOut == \E i \in 1 .. Len(out) : out[i] = Agreed

\* While a done is under way to a ROM that waits for it, nothing else is sent.
LEMMA NothingAfterDone ==
    ASSUME TypeOK, ExactInv, Calm, link, rom = "ended", out = << Agreed >>
    PROVE  ~(AnswerHello \/ NotHello \/ Poke \/ Unexpected \/ EndOfImage \/ SendChunk)
<1>1. out # << >>
  BY Single
<1>2. CASE AnswerHello \/ NotHello \/ Poke
  <2>1. Running /\ host \in {"hello", "helloAgain"}
    BY <1>2 DEF AnswerHello, NotHello, Poke, InHello, Rx, RxFails
  <2>2. CASE "kill" \notin faults
    BY <2>1, <2>2 DEF ExactInv, InHello, Beginning
  <2>3. CASE "kill" \in faults
    <3>1. SinglePacket /\ "lateHello" \notin faults
      BY <2>3 DEF ExactInv, Calm
    <3>2. in = << >>
      BY <1>1, <3>1 DEF SinglePacket
    <3>3. ~Silent
      BY <1>1 DEF Silent
    <3> QED
      BY <1>2, <3>1, <3>2, <3>3 DEF AnswerHello, NotHello, Poke, Rx, RxFails, Late
  <2> QED
    BY <2>2, <2>3
<1>3. CASE Unexpected \/ EndOfImage \/ SendChunk
  <2>1. InSession /\ host # "final"
    BY <1>3 DEF Unexpected, EndOfImage, SendChunk, Transferring, Rx, InSession
  <2> QED
    BY <1>1, <2>1 DEF ExactInv, Session
<1> QED
  BY <1>2, <1>3

LEMMA AgreedHost ==
    ASSUME TypeOK, ExactInv, Calm, link, Host
    PROVE  AgreedInv'
<1>0. AgreedInv
  BY DEF ExactInv
<1>t. UNCHANGED target
  BY DEF Host, AnswerHello, NotHello, Poke, GiveUp, StartTransfer, SendChunk, AbandonTransfer,
         EndOfImage, HelloAgain, Unexpected, FinalPacket, Rx, RxFails, Transferring
<1>1. CASE out' = out
  BY <1>0, <1>1, <1>t DEF AgreedInv, Exact, target
<1>2. CASE AnswerHello \/ NotHello \/ Poke \/ Unexpected
  <2>1. PICK c \in {"poke", "helloResponse", "reset"} : out' = Append(out, [cmd |-> c, block |-> Foreign])
    BY <1>2 DEF AnswerHello, NotHello, Poke, Unexpected, Tx
  <2>2. [cmd |-> c, block |-> Foreign] # Agreed /\ [cmd |-> c, block |-> Foreign] \in OutPacket
    BY OutTypes DEF Agreed
  <2>3. AgreedOut' => AgreedOut
    BY <2>1, <2>2, AppendOf DEF AgreedOut, TypeOK
  <2>4. AgreedOut => rom = "started"
    BY <1>0, <1>2, NothingAfterDone DEF AgreedInv, AgreedOut
  <2> QED
    BY <1>t, <2>3, <2>4 DEF AgreedInv, AgreedOut, target
<1>3. CASE EndOfImage /\ out' # out
  <2>1. InSession /\ InSession'
    BY <1>3 DEF EndOfImage, InSession, Goto, Rx, Running
  <2>2. Exact /\ rom = "ended" /\ out' = << Agreed >>
    BY <1>3, <2>1, EndSession DEF ExactInv
  <2> QED
    BY <1>t, <2>2 DEF AgreedInv, Exact, target
<1>4. CASE SendChunk
  <2>1. Running /\ host = "transfer"
    BY <1>4 DEF SendChunk, Transferring
  <2>2. rom = "raw"
    BY <2>1 DEF ExactInv, InSession, Session, TypeOK
  <2>3. PICK n \in 1 .. Chunk : out' = out \o [i \in 1 .. n |-> Data(fpos + i)]
    BY <1>4 DEF SendChunk
  <2>4. Chunk \in Nat /\ fpos \in Nat
    BY <2>1, ChunkType DEF TypeOK
  <2>5. \A i \in 1 .. n : Data(fpos + i) # Agreed
    BY <2>3, <2>4, OutKinds DEF Agreed
  <2>6. [i \in 1 .. n |-> Data(fpos + i)] \in Seq(OutPacket)
    BY <2>3, <2>4, OutTypes
  <2>7. /\ Len(out) \in Nat /\ Len(out') = Len(out) + n
        /\ \A i \in 1 .. Len(out) : out'[i] = out[i]
        /\ \A i \in 1 .. n : out'[Len(out) + i] = Data(fpos + i)
    <3>1. Len([i \in 1 .. n |-> Data(fpos + i)]) = n
      BY <2>3, <2>4
    <3> QED
      BY <2>3, <2>6, <3>1, SMTT(30) DEF TypeOK
  <2>8. ASSUME NEW i \in 1 .. Len(out'), out'[i] = Agreed PROVE i \in 1 .. Len(out)
    <3>1. CASE i > Len(out)
      <4>1. i - Len(out) \in 1 .. n /\ Len(out) + (i - Len(out)) = i
        BY <2>3, <2>7, <3>1
      <4> QED
        BY <2>5, <2>7, <2>8, <4>1
    <3>2. CASE i <= Len(out)
      BY <2>7, <3>2
    <3> QED
      BY <2>7, <3>1, <3>2
  <2>9. ~AgreedOut
    BY <1>0, <2>2 DEF AgreedInv, AgreedOut
  <2>10. ~AgreedOut'
    BY <2>7, <2>8, <2>9 DEF AgreedOut
  <2> QED
    BY <2>10 DEF AgreedInv, AgreedOut
<1> QED
  BY <1>1, <1>2, <1>3, <1>4 DEF Host, GiveUp, StartTransfer, AbandonTransfer, HelloAgain, FinalPacket

\* What the ROM takes was under way.
LEMMA AgreedTaken ==
    ASSUME TypeOK, out # << >>, out' = Tail(out), AgreedOut'
    PROVE  AgreedOut
<1>1. /\ Len(out') = Len(out) - 1 /\ Len(out) \in Nat
      /\ \A i \in 1 .. Len(out) - 1 : out'[i] = out[i + 1]
  BY TailOf DEF TypeOK
<1>2. PICK i \in 1 .. Len(out') : out'[i] = Agreed
  BY DEF AgreedOut
<1>3. i + 1 \in 1 .. Len(out) /\ out[i + 1] = Agreed
  BY <1>1, <1>2
<1> QED
  BY <1>3 DEF AgreedOut

LEMMA AgreedRom ==
    ASSUME TypeOK, ExactInv, Calm, link, RomSteps \/ Corrupt
    PROVE  AgreedInv' /\ (rom' = "started" => Exact')
<1>0. AgreedInv /\ (rom = "started" => Exact)
  BY DEF ExactInv, StartsExactImage
<1>1. CASE Greet \/ Ask \/ Complete
  <2>1. rom \in {"reset", "ask"} /\ out' = out /\ rom' # "started"
    BY <1>1 DEF Greet, Ask, Complete
  <2> QED
    BY <1>0, <2>1 DEF AgreedInv
<1>2. CASE TakeGreeted \/ Store \/ TakeRefused
  <2>1. rom \notin {"ended", "started"} /\ out # << >> /\ out' = Tail(out) /\ rom' # "started"
    BY <1>2 DEF TakeGreeted, Store, TakeRefused, Take
  <2>2. ~AgreedOut'
    BY <1>0, <2>1, AgreedTaken DEF AgreedInv, AgreedOut
  <2> QED
    BY <2>1, <2>2 DEF AgreedInv, AgreedOut
<1>3. CASE TakeEnded
  <2>1. rom = "ended" /\ out # << >> /\ out' = Tail(out) /\ mem' = mem
    BY <1>3 DEF TakeEnded, Take
  <2>2. CASE AgreedOut
    <3>1. out = << Agreed >> /\ Exact
      BY <1>0, <2>1, <2>2 DEF AgreedInv, AgreedOut
    <3>2. out' = << >>
      BY <2>1, <3>1, Single
    <3>3. ~AgreedOut'
      BY <3>2 DEF AgreedOut
    <3> QED
      BY <2>1, <3>1, <3>3 DEF AgreedInv, AgreedOut, Exact
  <2>3. CASE ~AgreedOut
    <3>1. ~AgreedOut'
      BY <2>1, <2>3, AgreedTaken
    <3>2. Head(out).cmd # "done"
      <4>1. Head(out) = out[1] /\ Head(out) \in OutPacket /\ 1 \in 1 .. Len(out)
        BY <2>1, TailOf DEF TypeOK
      <4> QED
        BY <2>3, <4>1, OutKinds DEF AgreedOut
    <3>3. rom' # "started"
      BY <1>3, <2>1, <3>2 DEF TakeEnded
    <3> QED
      BY <3>1, <3>3 DEF AgreedInv, AgreedOut
  <2> QED
    BY <2>2, <2>3
<1>4. CASE Corrupt
  BY <1>0, <1>4 DEF Corrupt, AgreedInv, Exact, target
<1> QED
  BY <1>1, <1>2, <1>3, <1>4 DEF RomSteps

-----------------------------------------------------------------------------
LEMMA InitExact == Init => TypeOK /\ ExactInv
<1> SUFFICES ASSUME Init PROVE TypeOK /\ ExactInv
  OBVIOUS
<1>1. Len(in) = 0 /\ Len(out) = 0
  BY DEF Init
<1>2. TypeOK
  BY <1>1 DEF Init, TypeOK
<1>3. AgreedInv /\ Beginning /\ SinglePacket
  BY <1>1 DEF Init, AgreedInv, Beginning, SinglePacket
<1>4. ~InSession
  BY DEF Init, InSession
<1> QED
  BY <1>2, <1>3, <1>4 DEF ExactInv, StartsExactImage, Init

LEMMA ExactStep ==
    ASSUME TypeOK, ExactInv, [Next]_vars
    PROVE  ExactInv'
<1>0. faults' = faults /\ (link' => link) /\ (Calm' <=> Calm)
  BY Steady DEF Calm
<1>1. CASE Host
  <2>1. UNCHANGED target /\ link' = link
    BY <1>1 DEF Host, AnswerHello, NotHello, Poke, GiveUp, StartTransfer, SendChunk, AbandonTransfer,
         EndOfImage, HelloAgain, Unexpected, FinalPacket, Rx, RxFails, Transferring
  <2>2. (rom' = "greeted" => mem' = << >>) /\ StartsExactImage'
    BY <1>0, <2>1 DEF ExactInv, StartsExactImage, Exact, target
  <2>3. ASSUME Calm, link
        PROVE  /\ AgreedInv'
               /\ InSession' => Session'
               /\ "kill" \notin faults /\ Running' /\ InHello' => Beginning'
               /\ "kill" \in faults => SinglePacket'
    <3>1. AnswerHello => Beginning \/ SinglePacket
      BY <2>3 DEF AnswerHello, Rx, ExactInv
    <3>2. (InSession => Session) /\ ("kill" \notin faults /\ Running /\ InHello => Beginning)
      BY <2>3 DEF ExactInv
    <3> QED
      BY <1>1, <2>3, <3>1, <3>2, AgreedHost, HostSession, BeginningStep, SinglePacketHost
  <2> QED
    BY <1>0, <2>2, <2>3 DEF ExactInv
<1>2. CASE RomSteps \/ Corrupt
  <2>1. link
    BY <1>2 DEF RomSteps, Corrupt, Greet, TakeGreeted, Ask, Store, Complete, TakeEnded, TakeRefused,
                Take, Rom
  <2>2. rom' = "greeted" => mem' = << >>
    BY <1>2 DEF RomSteps, Corrupt, Greet, TakeGreeted, Ask, Store, Complete, TakeEnded, TakeRefused,
                Take, ExactInv, target
  <2>3. StartsExactImage'
    BY <1>0, <1>2, <2>1, AgreedRom DEF StartsExactImage
  <2>4. ASSUME Calm
        PROVE  /\ AgreedInv'
               /\ InSession' => Session'
               /\ "kill" \notin faults /\ Running' /\ InHello' => Beginning'
               /\ "kill" \in faults => SinglePacket'
    <3>1. /\ InSession => Session
          /\ "kill" \notin faults /\ Running /\ InHello => Beginning
          /\ rom = "greeted" => mem = << >>
      BY <2>1, <2>4 DEF ExactInv
    <3> QED
      BY <1>2, <2>1, <2>4, <3>1, AgreedRom, RomSession, BeginningStep, SinglePacketRom
  <2> QED
    BY <1>0, <2>2, <2>3, <2>4 DEF ExactInv
<1>3. CASE Unplug
  <2>1. ~link' /\ UNCHANGED target
    BY <1>3 DEF Unplug
  <2> QED
    BY <1>0, <2>1 DEF ExactInv, StartsExactImage, Exact, target
<1>4. CASE Restart
  <2>1. /\ "kill" \in faults /\ host' = "hello" /\ UNCHANGED <<link, out, in, target>>
    BY <1>4 DEF Restart
  <2>2. ~InSession'
    BY <2>1 DEF InSession
  <2>3. (AgreedInv => AgreedInv') /\ (SinglePacket => SinglePacket')
    BY <2>1 DEF AgreedInv, SinglePacket, Exact, target
  <2> QED
    BY <1>0, <2>1, <2>2, <2>3 DEF ExactInv, StartsExactImage, Exact, target
<1>5. CASE UNCHANGED vars
  <2> USE <1>5 DEF vars, image, serving, target
  <2>1. (AgreedInv => AgreedInv') /\ (SinglePacket => SinglePacket') /\ (Beginning => Beginning')
    BY DEF AgreedInv, SinglePacket, Beginning, Exact
  <2>2. InSession' = InSession /\ NoBulk' = NoBulk /\ Exact' = Exact /\ Left' = Left
    BY DEF InSession, Running, NoBulk, Exact, Left
  <2>3. \A p : OneBulk(p) => OneBulk(p)'
    BY DEF OneBulk
  <2>4. Session => Session'
    BY <2>2, <2>3 DEF Session, Requested, Served, Starved
  <2> QED
    BY <1>0, <2>1, <2>2, <2>4 DEF ExactInv, StartsExactImage, Running, InHello
<1> QED
  BY <1>1, <1>2, <1>3, <1>4, <1>5 DEF Next, Returned

\* Whatever is late, refused, cut off or written in part, and however often the
\* upgrader is killed and run again on the way: what a module starts is the image
\* of the file, block for block.
THEOREM ExactImage == Spec => []StartsExactImage
<1>1. TypeOK /\ ExactInv /\ [Next]_vars => (TypeOK /\ ExactInv)'
  BY TypeStep, ExactStep
<1>2. ExactInv => StartsExactImage
  BY DEF ExactInv
<1> QED
  BY <1>1, <1>2, InitExact, PTL DEF Spec

-----------------------------------------------------------------------------
(* Data goes only to a ROM that waits for it.                              *)

\* A packet that has no place here comes alone: behind it there may be others.
UnknownFirst == \A i \in 2 .. Len(in) : in[i].cmd # "unknown"

\* Of a first run, whatever is late, lost or garbage.  A ROM that has been served
\* has sent nothing the host would answer with a reset in the middle of the data.
FirstInv ==
    /\ restarts \in Nat
    /\ ~link => out = << >>
    /\ UnknownFirst
    /\ restarts = 0 /\ link =>
          /\ InSession => Session
          /\ Running /\ InHello => Beginning
          /\ InSession /\ rom = "raw" /\ NoBulk /\ in # << >> => in[1].cmd # "unknown"
    /\ DataOnDemand

\* Nothing under way to the ROM is data.
NoData == \A i \in 1 .. Len(out) : out[i] \in Controls
OnDemand == rom = "raw" /\ Len(out) <= Len(need)

LEMMA DemandIs ==
    ASSUME TypeOK, DataOnDemand, restarts = 0
    PROVE  NoData \/ OnDemand
<1>1. DOMAIN out = 1 .. Len(out)
  BY DEF TypeOK
<1>2. NoData <=> ~ \E i \in DOMAIN out : out[i] \notin Controls
  BY <1>1 DEF NoData
<1> QED
  BY <1>2 DEF DataOnDemand, OnDemand

LEMMA DemandNext ==
    ASSUME TypeOK', restarts' = 0 => NoData' \/ OnDemand'
    PROVE  DataOnDemand'
<1>1. DOMAIN out' = 1 .. Len(out')
  BY DEF TypeOK
<1>2. NoData' => ~ \E i \in DOMAIN out' : out'[i] \notin Controls
  BY <1>1 DEF NoData
<1> QED
  BY <1>2 DEF DataOnDemand, OnDemand

LEMMA ControlAdded ==
    ASSUME TypeOK, NoData, NEW c \in {"poke", "helloResponse", "done", "reset"}, Tx(c)
    PROVE  NoData'
<1> DEFINE p == [cmd |-> c, block |-> Foreign]
<1>1. p \in Controls /\ p \in OutPacket
  BY OutTypes DEF Controls
<1>2. out' = out \/ out' = Append(out, p)
  BY DEF Tx
<1>3. CASE out' = out
  BY <1>3 DEF NoData
<1>4. CASE out' = Append(out, p)
  <2> HIDE DEF p
  <2>1. /\ Len(out') = Len(out) + 1 /\ Len(out) \in Nat
        /\ \A i \in 1 .. Len(out) : out'[i] = out[i]
        /\ out'[Len(out) + 1] = p
    BY <1>1, <1>4, AppendOf DEF TypeOK
  <2> QED
    BY <1>1, <2>1 DEF NoData
<1> QED
  BY <1>2, <1>3, <1>4

LEMMA NoDataTaken ==
    ASSUME TypeOK, NoData, out # << >>, out' = Tail(out)
    PROVE  NoData'
<1>1. /\ Len(out') = Len(out) - 1 /\ Len(out) \in Nat
      /\ \A i \in 1 .. Len(out) - 1 : out'[i] = out[i + 1]
  BY TailOf DEF TypeOK
<1> QED
  BY <1>1 DEF NoData

LEMMA UnknownTaken ==
    ASSUME TypeOK, UnknownFirst, in # << >>, in' = Tail(in)
    PROVE  \A i \in 1 .. Len(in') : in'[i].cmd # "unknown"
<1>1. /\ Len(in') = Len(in) - 1 /\ Len(in) \in Nat
      /\ \A i \in 1 .. Len(in) - 1 : in'[i] = in[i + 1]
  BY TailOf DEF TypeOK
<1> QED
  BY <1>1 DEF UnknownFirst

LEMMA UnknownAdded ==
    ASSUME TypeOK, UnknownFirst, NEW p \in InPacket, in' = Append(in, p),
           p.cmd # "unknown" \/ in = << >>
    PROVE  UnknownFirst'
<1>1. /\ Len(in') = Len(in) + 1 /\ Len(in) \in Nat
      /\ \A i \in 1 .. Len(in) : in'[i] = in[i]
      /\ in'[Len(in) + 1] = p
  BY AppendOf DEF TypeOK
<1>2. CASE in = << >>
  BY <1>1, <1>2 DEF UnknownFirst
<1>3. CASE p.cmd # "unknown"
  <2>1. ASSUME NEW i \in 2 .. Len(in') PROVE in'[i].cmd # "unknown"
    <3>1. CASE i \in 2 .. Len(in)
      BY <1>1, <3>1 DEF UnknownFirst
    <3>2. CASE i \notin 2 .. Len(in)
      <4>1. i = Len(in) + 1
        BY <1>1, <3>2
      <4> QED
        BY <1>1, <1>3, <4>1
    <3> QED
      BY <3>1, <3>2
  <2> QED
    BY <2>1 DEF UnknownFirst
<1> QED
  BY <1>2, <1>3

\* The host takes packets, one at a time and none of the ROM's variables.
LEMMA HostTakes ==
    ASSUME Host
    PROVE  /\ UNCHANGED target /\ restarts' = restarts /\ link' = link /\ Running
           /\ in' = in \/ (in # << >> /\ in' = Tail(in))
BY DEF Host, AnswerHello, NotHello, Poke, GiveUp, StartTransfer, SendChunk, AbandonTransfer,
       EndOfImage, HelloAgain, Unexpected, FinalPacket, Rx, RxFails, Transferring

LEMMA RomGives ==
    ASSUME RomSteps \/ Corrupt
    PROVE  /\ UNCHANGED <<host, result, serving, restarts>> /\ link /\ link' = link
           /\ \/ in' = in
              \/ \E p \in InPacket : /\ in' = Append(in, p)
                                     /\ p.cmd # "unknown" \/ (Corrupt /\ in = << >>)
<1>1. UNCHANGED <<host, result, serving, restarts>> /\ link /\ link' = link
  BY DEF RomSteps, Corrupt, Greet, TakeGreeted, Ask, Store, Complete, TakeEnded, TakeRefused,
         Take, Rom
<1>2. CASE Greet \/ TakeGreeted
  BY <1>1, <1>2, PacketTypes DEF Greet, TakeGreeted
<1>3. CASE Ask
  BY <1>1, <1>3, PacketTypes DEF Ask
<1>4. CASE Store \/ TakeRefused
  BY <1>1, <1>4 DEF Store, TakeRefused
<1>5. CASE Complete
  BY <1>1, <1>5, PacketTypes DEF Complete
<1>6. CASE TakeEnded
  BY <1>1, <1>6, PacketTypes DEF TakeEnded
<1>7. CASE Corrupt
  BY <1>1, <1>7, PacketTypes DEF Corrupt
<1> QED
  BY <1>1, <1>2, <1>3, <1>4, <1>5, <1>6, <1>7 DEF RomSteps

LEMMA UnknownStep ==
    ASSUME TypeOK, UnknownFirst, [Next]_vars
    PROVE  UnknownFirst'
<1>1. CASE Host
  <2>1. CASE in' = in
    BY <2>1 DEF UnknownFirst
  <2>2. CASE in # << >> /\ in' = Tail(in)
    <3>1. \A i \in 1 .. Len(in') : in'[i].cmd # "unknown"
      BY <2>2, UnknownTaken
    <3> QED
      BY <3>1 DEF UnknownFirst
  <2> QED
    BY <1>1, <2>1, <2>2, HostTakes
<1>2. CASE RomSteps \/ Corrupt
  <2>1. CASE in' = in
    BY <2>1 DEF UnknownFirst
  <2>2. ASSUME NEW p \in InPacket, in' = Append(in, p), p.cmd # "unknown" \/ in = << >>
        PROVE  UnknownFirst'
    BY <2>2, UnknownAdded
  <2> QED
    BY <1>2, <2>1, <2>2, RomGives
<1>3. CASE Unplug
  BY <1>3 DEF Unplug, UnknownFirst
<1>4. CASE Restart \/ UNCHANGED vars
  BY <1>4 DEF Restart, vars, UnknownFirst
<1> QED
  BY <1>1, <1>2, <1>3, <1>4 DEF Next, Returned

\* A session of the host with a ROM that waits for data takes nothing it answers.
LEMMA SessionQuiet ==
    ASSUME TypeOK, Session, rom = "raw", in # << >>, Head(in).cmd = "end"
    PROVE  FALSE
<1>1. Bulk(Head(in)) /\ \A r \in Ranges : Bulk(Read(r)) /\ Read(r).cmd = "read" /\ Read(r) \in InPacket
  BY PacketTypes DEF Bulk
<1>2. in = << >> \/ (Head(in) = in[1] /\ 1 \in 1 .. Len(in))
  BY TailOf DEF TypeOK
<1>3. ~NoBulk
  BY <1>1, <1>2 DEF NoBulk
<1>4. PICK r \in Ranges : OneBulk(Read(r))
  BY <1>3 DEF Session, Served, Starved, Requested
<1>5. PICK k \in 1 .. Len(in) : in[k] = Read(r) /\ \A i \in (1 .. Len(in)) \ {k} : ~Bulk(in[i])
  BY <1>4 DEF OneBulk
<1>6. k = 1
  BY <1>1, <1>2, <1>5
<1> QED
  BY <1>1, <1>2, <1>5, <1>6

LEMMA DemandHost ==
    ASSUME TypeOK, StartedInv, FirstInv, restarts = 0, link, Host
    PROVE  NoData' \/ OnDemand'
<1>0. /\ NoData \/ OnDemand
      /\ InSession => Session
      /\ Running /\ InHello => Beginning
      /\ InSession /\ rom = "raw" /\ NoBulk /\ in # << >> => in[1].cmd # "unknown"
  BY DemandIs DEF FirstInv
<1>1. UNCHANGED target /\ Running
  BY HostTakes
<1>2. CASE out' = out
  BY <1>0, <1>1, <1>2 DEF NoData, OnDemand, target
<1>3. CASE AnswerHello \/ NotHello \/ Poke
  <2>1. Beginning
    BY <1>0, <1>1, <1>3 DEF AnswerHello, NotHello, Poke, InHello
  <2>2. NoData
    BY <2>1 DEF Beginning, NoData, Poked, Controls
  <2>3. Tx("helloResponse") \/ Tx("reset") \/ Tx("poke")
    BY <1>3 DEF AnswerHello, NotHello, Poke
  <2> QED
    BY <2>2, <2>3, ControlAdded
<1>4. CASE EndOfImage /\ out' # out
  <2>1. InSession /\ in # << >> /\ Head(in).cmd = "end" /\ Tx("done")
    BY <1>4 DEF EndOfImage, Rx, InSession
  <2>2. rom # "raw"
    BY <1>0, <2>1, SessionQuiet
  <2> QED
    BY <1>0, <2>1, <2>2, ControlAdded DEF OnDemand
<1>5. CASE Unexpected
  <2>1. /\ InSession /\ host = "command" /\ in # << >> /\ Tx("reset")
        /\ Head(in).cmd \in {"doneResponse", "unknown"} /\ Head(in) = in[1] /\ 1 \in 1 .. Len(in)
    BY <1>5, TailOf DEF Unexpected, Rx, InSession, TypeOK
  <2>2. CASE rom = "raw"
    <3>1. Head(in).cmd = "unknown"
      BY <2>1, <2>2 DEF StartedInv
    <3>2. Requested
      BY <1>0, <2>1, <2>2, <3>1 DEF Session, Served, Starved
    <3>3. NoData
      BY <3>2 DEF Requested, NoData
    <3> QED
      BY <2>1, <3>3, ControlAdded
  <2>3. CASE rom # "raw"
    BY <1>0, <2>1, <2>3, ControlAdded DEF OnDemand
  <2> QED
    BY <2>2, <2>3
<1>6. CASE SendChunk
  <2>1. host = "transfer" /\ InSession
    BY <1>1, <1>6 DEF SendChunk, Transferring, InSession
  <2>2. rom = "raw" /\ (Served \/ Starved)
    BY <1>0, <2>1 DEF Session, Requested, TypeOK
  <2>3. PICK n \in 1 .. Chunk : out' = out \o [i \in 1 .. n |-> Data(fpos + i)]
    BY <1>6 DEF SendChunk
  <2>4. /\ Chunk \in Nat \ {0} /\ Chunk <= req.len - sent /\ req.len \in Nat /\ sent \in Nat
        /\ fpos \in Nat /\ Left = req.len - sent
    BY <2>1, ChunkType DEF TypeOK, Left
  <2>5. Len(out) \in Nat /\ Len(out') = Len(out) + n
    <3>1. [i \in 1 .. n |-> Data(fpos + i)] \in Seq(OutPacket)
      BY <2>3, <2>4, OutTypes
    <3>2. Len([i \in 1 .. n |-> Data(fpos + i)]) = n
      BY <2>3, <2>4
    <3> QED
      BY <2>3, <3>1, <3>2 DEF TypeOK
  <2>6. Len(need) \in Nat
    BY DEF TypeOK
  <2>7. Len(out) + Left <= Len(need)
    <3>1. Left \in Int
      BY <2>4
    <3> QED
      BY <2>2, <2>5, <2>6, <3>1 DEF Served, Starved
  <2>8. n \in Nat /\ n <= Left
    <3> HIDE DEF Left, Chunk
    <3> QED
      BY <2>3, <2>4
  <2>9. Len(out') <= Len(need)
    <3> HIDE DEF Left
    <3> QED
      BY <2>4, <2>5, <2>6, <2>7, <2>8
  <2> QED
    BY <1>1, <2>2, <2>9 DEF OnDemand, target
<1> QED
  BY <1>2, <1>3, <1>4, <1>5, <1>6 DEF Host, GiveUp, StartTransfer, AbandonTransfer, EndOfImage,
     HelloAgain, FinalPacket

\* The ROM takes data while it waits for it, and has taken all when it goes on.
LEMMA DemandRom ==
    ASSUME TypeOK, NoData \/ OnDemand, RomSteps \/ Corrupt
    PROVE  NoData' \/ OnDemand'
<1>1. CASE Store
  <2>1. /\ rom = "raw" /\ out # << >> /\ out' = Tail(out) /\ need' = Tail(need)
        /\ rom' = IF Len(need) = 1 THEN "ask" ELSE "raw"
    BY <1>1 DEF Store, Take
  <2>2. CASE NoData
    BY <2>1, <2>2, NoDataTaken
  <2>3. CASE OnDemand
    <3>1. Len(out') = Len(out) - 1 /\ Len(out) \in Nat \ {0}
      BY <2>1, TailOf DEF TypeOK
    <3>2. Len(need') = Len(need) - 1 /\ Len(need) \in Nat \ {0}
      <4>1. need \in Seq(Nat) /\ need # << >>
        BY <2>1 DEF TypeOK
      <4> QED
        BY <2>1, <4>1, TailOf
    <3>3. Len(out') <= Len(need') /\ (Len(need) = 1 => Len(out') = 0)
      BY <2>3, <3>1, <3>2 DEF OnDemand
    <3> QED
      BY <2>1, <3>3 DEF OnDemand, NoData
  <2> QED
    BY <2>2, <2>3
<1>2. CASE Greet \/ Ask \/ Complete
  <2>1. rom # "raw" /\ out' = out
    BY <1>2 DEF Greet, Ask, Complete
  <2> QED
    BY <2>1 DEF OnDemand, NoData
<1>3. CASE TakeGreeted \/ TakeEnded \/ TakeRefused
  <2>1. rom # "raw" /\ out # << >> /\ out' = Tail(out)
    BY <1>3 DEF TakeGreeted, TakeEnded, TakeRefused, Take
  <2> QED
    BY <2>1, NoDataTaken DEF OnDemand
<1>4. CASE Corrupt
  BY <1>4 DEF Corrupt, target, OnDemand, NoData
<1> QED
  BY <1>1, <1>2, <1>3, <1>4 DEF RomSteps

\* The packets that come while the ROM waits, once it has been understood.
LEMMA QuietStep ==
    ASSUME TypeOK, FirstInv, restarts = 0, link, Host \/ RomSteps \/ Corrupt,
           InSession', rom' = "raw", NoBulk', in' # << >>
    PROVE  in'[1].cmd # "unknown"
<1>0. /\ UnknownFirst /\ (InSession => Session) /\ (Running /\ InHello => Beginning)
      /\ InSession /\ rom = "raw" /\ NoBulk /\ in # << >> => in[1].cmd # "unknown"
  BY DEF FirstInv
<1>l. 1 \in 1 .. Len(in')
  <2>1. in' \in Seq(InPacket)
    BY TypeStep DEF TypeOK, Next
  <2> QED
    BY <2>1
<1>1. CASE Host
  <2>1. rom = "raw" /\ Running
    BY <1>1, HostTakes DEF target
  <2>2. CASE in # << >> /\ in' = Tail(in)
    BY <1>0, <1>l, <2>2, UnknownTaken
  <2>3. CASE in' = in
    <3>1. NoBulk
      BY <2>3 DEF NoBulk
    <3>2. InSession
      <4>1. ~InHello
        BY <1>0, <2>1 DEF Beginning
      <4> QED
        BY <2>1, <4>1 DEF InSession, InHello, TypeOK
    <3> QED
      BY <1>0, <2>1, <2>3, <3>1, <3>2
  <2> QED
    BY <1>1, <2>2, <2>3, HostTakes
<1>2. CASE RomSteps \/ Corrupt
  <2>1. InSession
    BY <1>2, RomGives DEF InSession, Running
  <2>2. CASE Ask
    <3>1. PICK r \in Ranges : in' = Append(in, Read(r))
      BY <2>2 DEF Ask
    <3>2. Len(in) + 1 \in 1 .. Len(in') /\ in'[Len(in) + 1] = Read(r) /\ Bulk(Read(r))
      BY <3>1, AppendOf, PacketTypes DEF TypeOK, Bulk
    <3> QED
      BY <3>2 DEF NoBulk
  <2>3. CASE Store
    BY <1>0, <2>1, <2>3 DEF Store, NoBulk
  <2>4. CASE Corrupt
    <3>1. rom = "raw" /\ in = << >> /\ in' = Append(in, Garbage)
      BY <2>4 DEF Corrupt, target
    <3>2. in'[1] = Garbage
      BY <3>1
    <3> QED
      BY <3>2, PacketTypes
  <2>5. CASE Greet \/ TakeGreeted \/ Complete \/ TakeEnded \/ TakeRefused
    BY <2>5 DEF Greet, TakeGreeted, Complete, TakeEnded, TakeRefused, Take
  <2> QED
    BY <1>2, <2>2, <2>3, <2>4, <2>5 DEF RomSteps
<1> QED
  BY <1>1, <1>2

LEMMA InitFirst == Init => FirstInv
<1> SUFFICES ASSUME Init PROVE FirstInv
  OBVIOUS
<1>1. Len(in) = 0 /\ Len(out) = 0
  BY DEF Init
<1>2. UnknownFirst /\ Beginning /\ ~InSession /\ DataOnDemand
  BY <1>1 DEF Init, UnknownFirst, Beginning, InSession, DataOnDemand
<1> QED
  BY <1>2 DEF FirstInv, Init

LEMMA FirstStep ==
    ASSUME TypeOK, StartedInv, ExactInv, FirstInv, [Next]_vars
    PROVE  FirstInv'
<1>0. TypeOK' /\ UnknownFirst'
  BY TypeStep, UnknownStep DEF FirstInv
<1>1. CASE Host
  <2>1. UNCHANGED target /\ restarts' = restarts /\ link' = link
    BY <1>1, HostTakes
  <2>2. ASSUME ~link PROVE out' = << >>
    BY <1>1, <2>2 DEF FirstInv, Host, AnswerHello, NotHello, Poke, GiveUp, StartTransfer, SendChunk,
       AbandonTransfer, EndOfImage, HelloAgain, Unexpected, FinalPacket, Tx
  <2>3. ASSUME restarts = 0, link
        PROVE  /\ InSession' => Session'
               /\ Running' /\ InHello' => Beginning'
               /\ InSession' /\ rom' = "raw" /\ NoBulk' /\ in' # << >> => in'[1].cmd # "unknown"
               /\ NoData' \/ OnDemand'
    <3>1. (InSession => Session) /\ (Running /\ InHello => Beginning)
      BY <2>3 DEF FirstInv
    <3>2. AnswerHello => Beginning
      BY <3>1 DEF AnswerHello, Rx
    <3> QED
      BY <1>1, <2>3, <3>1, <3>2, HostSession, BeginningStep, QuietStep, DemandHost
  <2>4. ~link => NoData'
    BY <2>2 DEF NoData
  <2>5. DataOnDemand'
    <3>1. restarts' = 0 => NoData' \/ OnDemand'
      BY <2>1, <2>3, <2>4
    <3> QED
      BY <1>0, <3>1, DemandNext
  <2> QED
    BY <1>0, <2>1, <2>2, <2>3, <2>5 DEF FirstInv
<1>2. CASE RomSteps \/ Corrupt
  <2>1. UNCHANGED <<host, result, restarts>> /\ link /\ link' = link
    BY <1>2, RomGives
  <2>2. ASSUME restarts = 0
        PROVE  /\ InSession' => Session'
               /\ Running' /\ InHello' => Beginning'
               /\ InSession' /\ rom' = "raw" /\ NoBulk' /\ in' # << >> => in'[1].cmd # "unknown"
    <3>1. (InSession => Session) /\ (Running /\ InHello => Beginning)
      BY <2>1, <2>2 DEF FirstInv
    <3>2. rom = "greeted" => mem = << >>
      BY DEF ExactInv
    <3> QED
      BY <1>2, <2>1, <2>2, <3>1, <3>2, RomSession, BeginningStep, QuietStep
  <2>3. DataOnDemand'
    <3>1. restarts' = 0 => NoData' \/ OnDemand'
      BY <1>2, <2>1, DemandIs, DemandRom DEF FirstInv
    <3> QED
      BY <1>0, <3>1, DemandNext
  <2> QED
    BY <1>0, <2>1, <2>2, <2>3 DEF FirstInv
<1>3. CASE Unplug
  <2>1. ~link' /\ out' = << >> /\ restarts' = restarts
    BY <1>3 DEF Unplug
  <2>2. DataOnDemand'
    BY <2>1 DEF DataOnDemand
  <2> QED
    BY <1>0, <2>1, <2>2 DEF FirstInv
<1>4. CASE Restart
  <2>1. restarts' = restarts + 1 /\ UNCHANGED <<link, out>>
    BY <1>4 DEF Restart
  <2>2. restarts' \in Nat /\ restarts' # 0
    BY <2>1 DEF FirstInv
  <2>3. DataOnDemand'
    BY <2>2 DEF DataOnDemand
  <2> QED
    BY <1>0, <2>1, <2>2, <2>3 DEF FirstInv
<1>5. CASE UNCHANGED vars
  <2> USE <1>5 DEF vars, image, serving, target
  <2>1. DataOnDemand' /\ (Beginning => Beginning') /\ (UnknownFirst => UnknownFirst')
    BY DEF DataOnDemand, Beginning, UnknownFirst, FirstInv
  <2>2. InSession' = InSession /\ NoBulk' = NoBulk /\ Exact' = Exact /\ Left' = Left
    BY DEF InSession, Running, NoBulk, Exact, Left
  <2>3. \A p : OneBulk(p) => OneBulk(p)'
    BY DEF OneBulk
  <2>4. Session => Session'
    BY <2>2, <2>3 DEF Session, Requested, Served, Starved
  <2> QED
    BY <1>0, <2>1, <2>2, <2>4 DEF FirstInv, Running, InHello
<1> QED
  BY <1>1, <1>2, <1>3, <1>4, <1>5 DEF Next, Returned

\* In a run that follows no other, whatever the ROM, the cable and the clock do:
\* image data is under way only to a ROM that waits for it, and no more of it.
THEOREM DataWhenAsked == Spec => []DataOnDemand
<1>1. Init => TypeOK /\ StartedInv /\ ExactInv /\ FirstInv
  BY InitExact, InitStarted, InitFirst
<1>2. TypeOK /\ StartedInv /\ ExactInv /\ FirstInv /\ [Next]_vars
        => (TypeOK /\ StartedInv /\ ExactInv /\ FirstInv)'
  BY TypeStep, NextStarted, ExactStep, FirstStep
<1>3. FirstInv => DataOnDemand
  BY DEF FirstInv
<1> QED
  BY <1>1, <1>2, <1>3, PTL DEF Spec

=============================================================================
