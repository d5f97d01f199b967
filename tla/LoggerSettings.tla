--------------------------- MODULE LoggerSettings ---------------------------
(***************************************************************************)
(* The start of a logger and what it lets through (Logger.cpp: init,       *)
(* isLoggingEnabled, writeLogMessage; Settings.cpp).  The logger asks for  *)
(* its settings one by one; the first question reads a configuration file, *)
(* and so does each further one while no setting is known, so that a file  *)
(* that somebody writes meanwhile is read between two of them.             *)
(***************************************************************************)
EXTENDS Integers, Sequences, SequencesExt, FiniteSets

CONSTANTS
    Starts,      \* the configuration files there may be at first
    Contents,    \* what one of them may become later
    Messages,    \* what is logged: level and component
    Numerals,    \* of each word: its number, if it begins with digits
    MaxChanges   \* of configuration files while the logger starts (a bound)

\* /etc/<app>.conf, <app>.conf where the program is, then tel.conf in the same places.
Paths == << "etc_app", "dir_app", "etc_tel", "dir_tel" >>
NoFile == [exists |-> FALSE, lines |-> << >>]
File(lines) == [exists |-> TRUE, lines |-> lines]

Keys == << "FILE_LOG_LEVEL", "CONSOLE_LOG_LEVEL", "TELUX_LOG_COMPONENT_FILTER", "LOG_FILE_PATH",
           "LOG_FILE_NAME", "MAX_LOG_FILE_SIZE", "LOG_PREFIX_DATE_TIME" >>

VARIABLES
    files,      \* of each path: whether there is one, and its lines
    changes,
    settingsMap,
    pc,         \* ask, look, read; up or dead
    at,         \* the next path to look at, or the one to read
    got,        \* the answers, in the order of Keys
    shown       \* the last message: where it was printed
lvars == <<files, changes, settingsMap, pc, at, got, shown>>

\* A value is what splitString makes of it, its words; one without a word is empty.
Unset == << >>
Nothing == [console |-> FALSE, file |-> FALSE, message |-> << >>]

Init ==
    /\ files \in Starts /\ changes = 0
    /\ settingsMap = << >> /\ pc = "ask" /\ at = 1 /\ got = << >> /\ shown = Nothing

-----------------------------------------------------------------------------
\* A line is a comment, a key that nothing follows (not even a space) or a setting;
\* spaces around a key and a value are dropped, other blanks behind a value stay.
Setting(line) == line.kind = "setting"

\* The last setting of a key counts.
readSettingsFile(lines) ==
    LET settings == {i \in DOMAIN lines : Setting(lines[i])}
        last(key) == Max({i \in settings : lines[i].key = key})
    IN  [key \in {lines[i].key : i \in settings} |-> lines[last(key)].value]

Answer(map) ==
    LET key == Keys[Len(got) + 1] IN IF key \in DOMAIN map THEN map[key] ELSE Unset

\* Digits, whatever follows them; no digits, no number.
stoi(word) == Numerals[word]

\* stoi or bitset::set throws: nobody catches it.
Throws(key, value) ==
    \/ /\ key = "TELUX_LOG_COMPONENT_FILTER"
       /\ \E i \in 1 .. Len(value) : stoi(value[i]) \cap (0 .. 63) = {}
    \/ key = "MAX_LOG_FILE_SIZE" /\ value # Unset /\ stoi(value[1]) = {}

\* getValue returns, and the logger takes what it got.
Take(map) ==
    LET value == Answer(map) IN
    /\ got' = Append(got, value) /\ at' = 1
    /\ pc' = IF Throws(Keys[Len(got) + 1], value) THEN "dead"
             ELSE IF Len(got) + 1 = Len(Keys) THEN "up" ELSE "ask"

\* A bug: the file is read again for every question.
getValueAnew ==
    /\ pc = "ask" /\ pc' = "look" /\ at' = 1
    /\ UNCHANGED <<files, changes, settingsMap, got, shown>>

getValue ==
    /\ pc = "ask"
    /\ IF settingsMap = << >> THEN pc' = "look" /\ at' = 1 /\ UNCHANGED got ELSE Take(settingsMap)
    /\ UNCHANGED <<files, changes, settingsMap, shown>>

\* fileExists, path by path; behind the last one the name is empty.
getConfigFilePath ==
    /\ pc = "look"
    /\ IF at > Len(Paths) \/ files[Paths[at]].exists
       THEN pc' = "read" /\ UNCHANGED at
       ELSE at' = at + 1 /\ UNCHANGED pc
    /\ UNCHANGED <<files, changes, settingsMap, got, shown>>

\* The file that was found may be gone when it is opened.
Read ==
    LET file == IF at > Len(Paths) THEN NoFile ELSE files[Paths[at]]
        map  == readSettingsFile(file.lines)
    IN  /\ pc = "read"
        /\ settingsMap' = map /\ Take(map)
        /\ UNCHANGED <<files, changes, shown>>

\* Somebody writes, replaces or removes a configuration file.
Configure(path, content) ==
    /\ changes < MaxChanges /\ changes' = changes + 1
    /\ pc \notin {"up", "dead"} /\ content # files[path]
    /\ files' = [files EXCEPT ![path] = content]
    /\ UNCHANGED <<settingsMap, pc, at, got, shown>>

-----------------------------------------------------------------------------
Got(key) == got[CHOOSE i \in 1 .. Len(Keys) : Keys[i] = key]

\* enum class LogLevel.
LevelNumber ==
    [NONE |-> 1, PERF |-> 2, ERROR |-> 3, WARNING |-> 4, INFO |-> 5, DEBUG |-> 6]

getLogLevel(value) ==
    IF value[1] \in {"PERF", "ERROR", "WARNING", "INFO", "NONE"} THEN LevelNumber[value[1]]
    ELSE LevelNumber.DEBUG

LogLevel(key) == IF Got(key) = Unset THEN LevelNumber.INFO ELSE getLogLevel(Got(key))

componentLogFilter ==
    UNION {stoi(Got("TELUX_LOG_COMPONENT_FILTER")[i]) :
               i \in 1 .. Len(Got("TELUX_LOG_COMPONENT_FILTER"))}

isComponentLogged(component) ==
    0 \in componentLogFilter \/ component \in componentLogFilter \/ component = 0

isLoggingEnabled(level, component) ==
    /\ \/ LogLevel("CONSOLE_LOG_LEVEL") >= LevelNumber[level]
       \/ LogLevel("FILE_LOG_LEVEL") >= LevelNumber[level]
    /\ isComponentLogged(component)

\* A bug: the file's own level is not looked at again.
writeLogMessageToFile(message) ==
    [console |-> ~message.empty /\ LogLevel("CONSOLE_LOG_LEVEL") >= LevelNumber[message.level],
     file    |-> ~message.empty, message |-> << message >>]

\* A message goes to each sink that its level reaches; one without text to none.
writeLogMessage(message) ==
    [console |-> ~message.empty /\ LogLevel("CONSOLE_LOG_LEVEL") >= LevelNumber[message.level],
     file    |-> ~message.empty /\ LogLevel("FILE_LOG_LEVEL") >= LevelNumber[message.level],
     message |-> << message >>]

logMessage(message) ==
    /\ pc = "up"
    /\ shown' = IF isLoggingEnabled(message.level, message.component) THEN writeLogMessage(message)
                ELSE [Nothing EXCEPT !.message = << message >>]
    /\ UNCHANGED <<files, changes, settingsMap, pc, at, got>>

Next ==
    \/ getValue \/ getConfigFilePath \/ Read
    \/ \E path \in DOMAIN files, content \in Contents : Configure(path, content)
    \/ \E message \in Messages : logMessage(message)

Spec == Init /\ [][Next]_lvars

-----------------------------------------------------------------------------
\* What the logger works with comes from one reading of one file, whatever is
\* written, replaced or removed while it starts: each answer it got is that of the
\* settings it knows in the end, or none (Settings.cpp, getValue).
OneReading ==
    \A i \in 1 .. Len(got) :
        got[i] \in {Unset, IF Keys[i] \in DOMAIN settingsMap THEN settingsMap[Keys[i]] ELSE Unset}

\* Log.hpp, enum LogLevel: what each level prints.
Prints ==
    [NONE    |-> {}, PERF |-> {"PERF"}, ERROR |-> {"PERF", "ERROR"},
     WARNING |-> {"PERF", "ERROR", "WARNING"}, INFO |-> {"PERF", "ERROR", "WARNING", "INFO"}]
Configured(key) ==
    IF Got(key) = Unset THEN Prints.INFO
    ELSE IF Got(key)[1] \in DOMAIN Prints THEN Prints[Got(key)[1]] ELSE DOMAIN LevelNumber

\* A message reaches the console, and the file, exactly when the level configured for
\* that sink prints messages of its kind and the filter names its component, names 0
\* or the message has none; what the other sink lets through does not matter.
AsDocumented ==
    \A i \in 1 .. Len(shown.message) :
        LET m == shown.message[i]
            passes == /\ ~m.empty
                      /\ \/ m.component = 0
                         \/ \E j \in 1 .. Len(Got("TELUX_LOG_COMPONENT_FILTER")) :
                                stoi(Got("TELUX_LOG_COMPONENT_FILTER")[j]) \subseteq {0, m.component}
        IN  /\ shown.console <=> passes /\ m.level \in Configured("CONSOLE_LOG_LEVEL")
            /\ shown.file    <=> passes /\ m.level \in Configured("FILE_LOG_LEVEL")

\* Both: a logger works with one reading of one file, and a message reaches the sinks
\* that this file lets it through to.
AsConfigured == OneReading /\ AsDocumented
=============================================================================
