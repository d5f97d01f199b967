----------------------------- MODULE TimeClient -----------------------------
(***************************************************************************)
(* The client of the time server (timer_client/time_clientl.c): the        *)
(* options of a run, and time_genoff_operation, which sends one request    *)
(* over a local stream socket and takes one recv for the whole answer.     *)
(* The server may refuse, or go away after any part of the answer.  Times  *)
(* are words of Word values, and a second has Second milliseconds.         *)
(***************************************************************************)
EXTENDS Integers, Sequences

CONSTANTS
    Word,       \* 2^64 in the program
    Second,     \* 1000 in the program
    LastTime,   \* the latest second that gmtime_r can express
    Zone,       \* seconds that local time is ahead of UTC
    Times,      \* what may be set, and what an uninitialised word may hold
    MaxCalls    \* (a bound)

Fields == << "base", "unit", "operation", "value", "result" >>
Units == {"TIME_STAMP", "TIME_MSEC", "TIME_SECS", "TIME_JULIAN", "TIME_20MS_FRAME"}
Operations == {"T_SET", "T_GET", "T_IS_SET", "T_WNC_GET"}
EINVAL == -22
None == -1

VARIABLES
    pc,       \* idle, connect, send, recv or reply
    args,     \* pargs: base, unit and operation
    ts_val,   \* *pargs->ts_val, the caller's
    to_send,  \* the record that is sent, and that the answer is read over
    ret,      \* what the last call returned
    note,     \* /tmp/ats_msec
    server,   \* the server's time, in milliseconds
    answer,   \* the server's answer to this call, and how many fields of it came
    calls
tvars == <<pc, args, ts_val, to_send, ret, note, server, answer, calls>>

NoAnswer == [value |-> None, result |-> None, fields |-> 0]
\* A bug: the record is sent with the result of success.
RecordZero(op, value) ==
    [base |-> "ATS", unit |-> "TIME_MSEC", operation |-> op, value |-> value, result |-> 0]

Record(op, value) ==
    [base |-> "ATS", unit |-> "TIME_MSEC", operation |-> op, value |-> value, result |-> -1]

Init ==
    /\ pc = "idle" /\ ts_val = 0 /\ server = 0 /\ calls = 0
    /\ args = [base |-> "ATS_TOD", unit |-> "TIME_MSEC", operation |-> "T_GET"]
    /\ to_send = Record("T_GET", 0) /\ ret = 0 /\ note = None /\ answer = NoAnswer

SEC_TO_MSEC(s) == (s * Second) % Word
MSEC_TO_SEC(s) == s \div Second

\* What may follow the option s.
Texts == [kind : {"digits", "digits and more", "too many digits", "negative", "no number"},
          number : Times]
NoText == [kind |-> "no number", number |-> 0]

\* What a text stands for, whatever string_to_uint64 says about it: signed texts are 0,
\* so is one that is no number, digits count up to the first other character.
string_to_uint64(text) ==
    CASE text.kind \in {"digits", "digits and more"} -> text.number % Word
      [] text.kind = "too many digits" -> Word - 1
      [] text.kind \in {"negative", "no number"} -> 0

-----------------------------------------------------------------------------
\* time_genoff_operation is called; its checks come first.
Valid(a) ==
    /\ a.base # "ATS_MAX" /\ a.unit \notin {"TIME_STAMP", "TIME_20MS_FRAME"}
    /\ a.operation \in Operations

Call(a, value) ==
    /\ pc = "idle" /\ calls < MaxCalls /\ calls' = calls + 1
    /\ args' = a /\ ts_val' = value /\ answer' = NoAnswer
    /\ IF Valid(a) THEN pc' = "connect" /\ UNCHANGED ret ELSE pc' = "idle" /\ ret' = EINVAL
    /\ UNCHANGED <<to_send, note, server>>

\* The options of a run; the last of g, s and m counts.  Without one, opt is not
\* initialised, and neither is what would be set.
Opt(option) ==
    CASE option = "g" -> {1} [] option = "s" -> {2} [] option = "m" -> {3} [] OTHER -> 0 .. 3

Main(option, text) ==
    \E opt \in Opt(option), junk \in Times :
        LET value == IF option = "s" THEN string_to_uint64(text) ELSE junk IN
        \/ /\ opt \in {1, 3}
           /\ Call([base |-> "ATS_TOD", unit |-> "TIME_MSEC",
                    operation |-> IF opt = 1 THEN "T_GET" ELSE "T_WNC_GET"], value)
        \/ /\ opt = 2
           /\ Call([base |-> "ATS_USER", unit |-> "TIME_MSEC", operation |-> "T_SET"], value)

Return(value) == pc' = "idle" /\ ret' = value

\* socket and connect: the server may not be there.
Connect ==
    /\ pc = "connect"
    /\ (pc' = "send" /\ UNCHANGED ret) \/ Return(EINVAL)
    /\ UNCHANGED <<args, ts_val, to_send, note, server, answer, calls>>

\* mktime takes the caller's calendar for local time.
InMsec(unit, value) ==
    CASE unit = "TIME_MSEC"   -> value
      [] unit = "TIME_SECS"   -> SEC_TO_MSEC(value)
      [] unit = "TIME_JULIAN" -> SEC_TO_MSEC((value - Zone) % Word)

Request ==
    IF args.operation = "T_SET" THEN Record("T_SET", InMsec(args.unit, ts_val))
    ELSE Record(args.operation, 0)

Send ==
    /\ pc = "send"
    /\ IF args.operation \in {"T_SET", "T_GET", "T_WNC_GET"}
       THEN /\ to_send' = Request
            /\ (pc' = "recv" /\ UNCHANGED ret) \/ Return(EINVAL)
       ELSE Return(EINVAL) /\ UNCHANGED to_send
    /\ UNCHANGED <<args, ts_val, note, server, answer, calls>>

\* The server sets its time or tells it, or refuses either.
Serve(accepts, fields) ==
    /\ pc = "recv" /\ answer = NoAnswer
    /\ server' = IF accepts /\ to_send.operation = "T_SET" THEN to_send.value ELSE server
    /\ answer' = [value  |-> IF to_send.operation = "T_SET" THEN to_send.value ELSE server,
                  result |-> IF accepts THEN 0 ELSE EINVAL, fields |-> fields]
    /\ UNCHANGED <<pc, args, ts_val, to_send, ret, note, calls>>

ServerTimePasses ==
    /\ pc = "idle" /\ server' = (server + 1) % Word
    /\ UNCHANGED <<pc, args, ts_val, to_send, ret, note, answer, calls>>

\* One recv: the fields that came replace those of the request, the others stay.
Received ==
    [to_send EXCEPT !.value  = IF answer.fields >= 4 THEN answer.value ELSE @,
                    !.result = IF answer.fields >= 5 THEN answer.result ELSE @]

\* gmtime_r leaves nothing to copy for a second it cannot express.
Expressible(unit, msec) == unit = "TIME_JULIAN" => MSEC_TO_SEC(msec) <= LastTime

FromMsec(unit, msec) == IF unit = "TIME_MSEC" THEN msec ELSE MSEC_TO_SEC(msec)

Recv ==
    /\ pc = "recv"
    /\ \/ /\ answer # NoAnswer /\ to_send' = Received
          /\ IF Received.result # 0 THEN Return(EINVAL) ELSE pc' = "reply" /\ UNCHANGED ret
       \/ answer = NoAnswer /\ Return(EINVAL) /\ UNCHANGED to_send
    /\ UNCHANGED <<args, ts_val, note, server, answer, calls>>

\* A time that was told is noted for the shell before it is converted.
Reply ==
    /\ pc = "reply"
    /\ IF args.operation = "T_SET"
       THEN Return(0) /\ UNCHANGED <<ts_val, note>>
       ELSE /\ note' = to_send.value
            /\ IF Expressible(args.unit, to_send.value)
               THEN Return(0) /\ ts_val' = FromMsec(args.unit, to_send.value)
               ELSE Return(EINVAL) /\ UNCHANGED ts_val
    /\ UNCHANGED <<args, to_send, server, answer, calls>>

Next ==
    \/ \E base \in {"ATS_TOD", "ATS_MAX"}, unit \in Units, op \in Operations, value \in Times :
           Call([base |-> base, unit |-> unit, operation |-> op], value)
    \/ \E option \in {"g", "m", "d"} : Main(option, NoText)
    \/ \E text \in Texts : Main("s", text)
    \/ Connect \/ Send \/ Recv \/ Reply
    \/ \E accepts \in BOOLEAN, fields \in 0 .. Len(Fields) : Serve(accepts, fields)
    \/ ServerTimePasses

Spec == Init /\ [][Next]_tvars

-----------------------------------------------------------------------------
\* A call that returns 0 has had a whole answer, and the server's consent: the time
\* it gives is the one the server told, in the unit asked for, and the time it has
\* set is the server's until the server's clock moves on; what /tmp/ats_msec says
\* after a get is that time as well, whatever part of an answer came before.
Truthful ==
    [][pc # "idle" /\ pc' = "idle" /\ ret' = 0 =>
          /\ answer.result = 0 /\ answer.fields = Len(Fields)
          /\ args.operation = "T_SET" => server = InMsec(args.unit, ts_val)
          /\ args.operation # "T_SET" =>
                /\ note' = answer.value
                /\ args.unit = "TIME_MSEC" => ts_val' = answer.value
                /\ args.unit # "TIME_MSEC" =>
                      ts_val' * Second <= answer.value /\ answer.value < (ts_val' + 1) * Second]_tvars
=============================================================================
