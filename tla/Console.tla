------------------------------ MODULE Console -------------------------------
(***************************************************************************)
(* The console application (ConsoleApp.cpp, DemoConsoleApp.cpp,            *)
(* commands.h): a loop that reads lines and runs the command of a menu     *)
(* that a line names, and the radio interface that the commands send       *)
(* requests to.  The radio answers from a thread of its own, in any order, *)
(* and makes requests of its own when it has news.  main does not load a   *)
(* radio as it stands (the calls are there as a comment): a run has one,   *)
(* or it has none.                                                         *)
(***************************************************************************)
EXTENDS Integers, Sequences, SequencesExt

CONSTANTS
    Lines,      \* what may be typed at the prompt: words
    Numbers,    \* what may be typed when an address is asked for: digits
    PduDigits,  \* digits of an address, by the header that sendSMS writes
    MaxLines,   \* (a bound)
    MaxNews     \* that the radio has (a bound)

None == "none"

\* The menu: identifier, name in lower case, handler.
Menu(debug) ==
    IF debug THEN << <<"1", "ril_command", "rilCommand">> >>
    ELSE << <<"1", "get imsi", "getImsi">>, <<"2", "get imei", "getImei">>, <<"3", "dial", "dial">>,
            <<"4", "hangup", "hangup">>, <<"5", "answer", "answer">>, <<"6", "send sms", "sendSMS">>,
            <<"7", "connect datacall", "connectDataCall">>,
            <<"8", "disconnect datacall", "connectDataCall">> >>

\* s_commands: the requests that have a response function.
s_commands ==
    << <<"GET_SMSC_ADDRESS", "responseSmscAddress">>, <<"DIAL", "responseDial">>,
       <<"GET_IMSI", "responseGetIMSI">>, <<"GET_IMEI", "responseGetIMEI">>,
       <<"SEND_SMS", "responseSendSMS">> >>

VARIABLES
    debug,      \* g_debug
    radio,      \* s_callbacks is filled in
    place,      \* prompt, address, out or crashed
    doing,      \* the handler that asks for an address
    lines,      \* typed so far
    news,
    requests,   \* RequestInfos, with what was passed along and the line it came from
    open,       \* the requests that the radio has not answered
    responses   \* printed: the request that was answered, and the function
cvars == <<debug, radio, place, doing, lines, news, requests, open, responses>>

Init ==
    /\ debug \in BOOLEAN /\ radio \in BOOLEAN
    /\ place = "prompt" /\ doing = None /\ lines = 0 /\ news = 0
    /\ requests = << >> /\ open = {} /\ responses = << >>

-----------------------------------------------------------------------------
\* The first entry of that request, or no entry.
find_command(request) ==
    LET found == {i \in 1 .. Len(s_commands) : s_commands[i][1] = request}
    IN  IF found = {} THEN << >> ELSE << s_commands[Min(found)] >>

RequestInfo(request, data, typed) ==
    [request |-> request, pCI |-> find_command(request), data |-> data, typed |-> typed]

\* onRequest: a call through a null pointer, where there is no radio.
onRequest(request, data, typed) ==
    IF radio
    THEN /\ requests' = Append(requests, RequestInfo(request, data, typed))
         /\ open' = open \cup {Len(requests) + 1} /\ place' = "prompt"
    ELSE place' = "crashed" /\ UNCHANGED <<requests, open>>

\* Two digits change places, and a last one is filled up; F is fifteen.
getSwappedNibbleBcdString(text) ==
    LET even == IF Len(text) % 2 = 1 THEN Append(text, 15) ELSE text
    IN  [i \in 1 .. Len(even) |-> even[IF i % 2 = 1 THEN i + 1 ELSE i - 1]]

tolower(word) == IF word = "DIAL" THEN "dial" ELSE word

\* The commands of the menu that a line names, by their identifier or their name; a
\* name of two words is never met, for only the first word of a line is compared,
\* and no command takes arguments.
Named(line) ==
    {i \in 1 .. Len(Menu(debug)) :
        tolower(line[1]) \in {Menu(debug)[i][1], Menu(debug)[i][2]} /\ Len(line) = 1}

Handle(handler) ==
    CASE handler = "getImsi" -> onRequest("GET_IMSI", << >>, << >>) /\ UNCHANGED doing
      [] handler = "getImei" -> onRequest("GET_IMEI", << >>, << >>) /\ UNCHANGED doing
      [] handler = "hangup"  -> onRequest("HANGUP", << >>, << >>) /\ UNCHANGED doing
      [] handler = "answer"  -> onRequest("ANSWER", << >>, << >>) /\ UNCHANGED doing
      [] handler \in {"dial", "sendSMS"} ->
             place' = "address" /\ doing' = handler /\ UNCHANGED <<requests, open>>
      [] handler \in {"connectDataCall", "rilCommand"} -> UNCHANGED <<place, doing, requests, open>>

mainLoop(line) ==
    /\ place = "prompt" /\ lines < MaxLines /\ lines' = lines + 1
    /\ IF line # << >> /\ line[1] \in {"0", "exit", "q", "quit", "back"}
       THEN place' = "out" /\ UNCHANGED <<doing, requests, open>>
       ELSE IF line = << >> \/ line[1] \in {"?", "help", "h"} \/ Named(line) = {}
       THEN UNCHANGED <<place, doing, requests, open>>
       ELSE Handle(Menu(debug)[Min(Named(line))][3])
    /\ UNCHANGED <<debug, radio, news, responses>>

\* dial and sendSMS take the next line for an address, whatever it is.
Address(number) ==
    /\ place = "address" /\ lines' = lines + 1
    /\ IF doing = "dial" THEN onRequest("DIAL", number, number)
       ELSE onRequest("SEND_SMS", getSwappedNibbleBcdString(number), number)
    /\ doing' = None
    /\ UNCHANGED <<debug, radio, news, responses>>

-----------------------------------------------------------------------------
Up == radio /\ place \in {"prompt", "address"}

\* The response functions: each prints, under its own name, what the radio has
\* answered.
Printed(t, pCI) == << t, pCI[1][2] >>

\* A bug: the function of the request that was made last.
RIL_onLastRequestComplete(t, response) ==
    /\ Up /\ t \in open /\ open' = open \ {t}
    /\ IF ~response THEN UNCHANGED <<place, responses>>
       ELSE IF Last(requests).pCI = << >> THEN place' = "crashed" /\ UNCHANGED responses
       ELSE /\ responses' = Append(responses, Printed(t, Last(requests).pCI))
            /\ UNCHANGED place
    /\ UNCHANGED <<debug, radio, doing, lines, news, requests>>

\* RIL_onRequestComplete: no response, nothing to print; a request that is not in the
\* table has no entry to look the function up in.
RIL_onRequestComplete(t, response) ==
    /\ Up /\ t \in open /\ open' = open \ {t}
    /\ IF ~response THEN UNCHANGED <<place, responses>>
       ELSE IF requests[t].pCI = << >> THEN place' = "crashed" /\ UNCHANGED responses
       ELSE /\ responses' = Append(responses, Printed(t, requests[t].pCI))
            /\ UNCHANGED place
    /\ UNCHANGED <<debug, radio, doing, lines, news, requests>>

\* News from the radio: a message on the SIM, a call, the network.
RIL_onUnsolicitedResponse(request) ==
    /\ Up /\ news < MaxNews /\ news' = news + 1
    /\ requests' = Append(requests, RequestInfo(request, << >>, << >>))
    /\ open' = open \cup {Len(requests) + 1}
    /\ UNCHANGED <<debug, radio, place, doing, lines, responses>>

Next ==
    \/ \E line \in Lines : mainLoop(line)
    \/ \E number \in Numbers : Address(number)
    \/ \E t \in open, response \in BOOLEAN : RIL_onRequestComplete(t, response)
    \/ \E request \in {"SMS_ACKNOWLEDGE", "GET_CURRENT_CALLS", "VOICE_REGISTRATION_STATE"} :
           RIL_onUnsolicitedResponse(request)

Spec == Init /\ [][Next]_cvars

-----------------------------------------------------------------------------
ResponseFunction ==
    [DIAL |-> "responseDial", GET_IMSI |-> "responseGetIMSI", GET_IMEI |-> "responseGetIMEI",
     SEND_SMS |-> "responseSendSMS"]

\* The radio is asked for what was typed, and what it answers is printed once, by the
\* function of the request that it answers, in whatever order it answers and whatever
\* requests came in between.  For a message that is: the network reads as many digits
\* out of the PDU as its header says, the two of a byte the other way round, and they
\* are the number that was typed, if that has as many.
AnsweredAsAsked ==
    /\ \A i \in 1 .. Len(responses) :
           /\ requests[responses[i][1]].request \in DOMAIN ResponseFunction
           /\ responses[i][2] = ResponseFunction[requests[responses[i][1]].request]
    /\ \A i, j \in 1 .. Len(responses) : i # j => responses[i][1] # responses[j][1]
    /\ \A i \in 1 .. Len(requests) :
           LET r == requests[i] IN
           r.request = "SEND_SMS" /\ Len(r.typed) = PduDigits =>
               [d \in 1 .. PduDigits |-> r.data[IF d % 2 = 1 THEN d + 1 ELSE d - 1]] = r.typed
=============================================================================
