------------------------------ MODULE Programs ------------------------------
(***************************************************************************)
(* The small programs and the parts of the common library, side by side:   *)
(* `program` is the one that runs, chosen at the start, and the others     *)
(* stay as they begin.                                                     *)
(***************************************************************************)
EXTENDS ParcelLink, FiniteSets

CONSTANTS
    Starts, Contents, Messages, Numerals, MaxChanges,           \* of a logger
    Clients, Replies, PortFaults,                               \* of the modem's port
    Word, Second, LastTime, Zone, Times, MaxCalls,              \* of the time client
    Lines, Numbers, PduDigits, MaxLines, MaxNews,               \* of the console
    Packet, Lengths, MaxWrites, Drain, Tries, Backlog, Chatter, \* of a device
    ConfLines, Thresholds, MaxConf                  \* of the thermal configuration

VARIABLES
    program,
    files, changes, settingsMap, pc, at, answers, shown,
    main, reader, late, file, mapped, memory, port, owed, printed, ended, alone,
    stage, args, ts_val, to_send, ret, note, server, answer, calls,
    debug, radio, place, doing, lines, news, requests, open, responses,
    device, driver, way, step, count, version, result, queue, inbox, chatter, wrote, pending, taken,
    conf, on, backup

Logger == INSTANCE LoggerSettings WITH got <- answers
Port == INSTANCE AtCommand WITH Answer <- Replies
Time == INSTANCE TimeClient WITH pc <- stage
Shell == INSTANCE Console
Handle == INSTANCE UsbHandle WITH sent <- wrote, got <- taken
Rewrite == INSTANCE ThermalConfig

lvars == <<files, changes, settingsMap, pc, at, answers, shown>>
avars == <<main, reader, late, file, mapped, memory, port, owed, printed, ended, alone>>
tvars == <<stage, args, ts_val, to_send, ret, note, server, answer, calls>>
cvars == <<debug, radio, place, doing, lines, news, requests, open, responses>>
hvars == <<device, driver, way, step, count, version, result, queue, inbox, chatter,
           wrote, pending, taken>>
fvars == <<conf, on, backup>>

Unplugged == [mode |-> "edl", port |-> "none", zlp |-> FALSE, honours |-> FALSE, faulty |-> FALSE]

\* A program that does not run has one beginning.
ProgramsInit ==
    /\ program \in {"parcel", "logger", "port", "time", "console", "device", "config"}
    /\ Init /\ Logger!Init /\ Port!Init /\ Time!Init /\ Shell!Init /\ Handle!Init
    /\ Rewrite!Init
    /\ program # "logger" => \A p \in DOMAIN files : files[p] = Logger!NoFile
    /\ program # "console" => ~debug /\ ~radio
    /\ program # "device" => device = Unplugged /\ ~driver /\ queue = << >>

ProgramsNext ==
    /\ UNCHANGED program
    /\ \/ program = "parcel" /\ Next /\ UNCHANGED <<lvars, avars, tvars, cvars, hvars, fvars>>
       \/ program = "logger" /\ Logger!Next /\ UNCHANGED <<vars, avars, tvars, cvars, hvars, fvars>>
       \/ program = "port" /\ Port!Next /\ UNCHANGED <<vars, lvars, tvars, cvars, hvars, fvars>>
       \/ program = "time" /\ Time!Next /\ UNCHANGED <<vars, lvars, avars, cvars, hvars, fvars>>
       \/ program = "console" /\ Shell!Next /\ UNCHANGED <<vars, lvars, avars, tvars, hvars, fvars>>
       \/ program = "device" /\ Handle!Next /\ UNCHANGED <<vars, lvars, avars, tvars, cvars, fvars>>
       \/ program = "config" /\ Rewrite!Next /\ UNCHANGED <<vars, lvars, avars, tvars, cvars, hvars>>

ProgramsSpec == ProgramsInit /\ [][ProgramsNext]_<<program, vars, lvars, avars, tvars, cvars, hvars, fvars>>

-----------------------------------------------------------------------------
\* A logger works with one reading of one file, and a message reaches the sinks that
\* this file lets it through to (Settings.cpp, Log.hpp; see LoggerSettings).
AsConfigured == Logger!AsConfigured
\* An undisturbed client shows its own answer (atcmd.cpp; see AtCommand).
OwnAnswer == Port!OwnAnswer
\* A call of the time client that says so has succeeded (time_clientl.c; see
\* TimeClient).
Truthful == Time!Truthful
\* The radio is asked for what was typed, and its answers are printed as such
\* (DemoConsoleApp.cpp; see Console).
AnsweredAsAsked == Shell!AnsweredAsAsked
\* Host and module understand each other's transfers (usb_linux.c, qfirehose.c; see
\* UsbHandle).
Understood == Handle!Understood
\* Of a thermal configuration only the thresholds of one sensor change (config.cpp;
\* see ThermalConfig).
OnlyItsThresholds == Rewrite!OnlyItsThresholds
=============================================================================
