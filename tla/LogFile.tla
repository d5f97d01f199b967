------------------------------- MODULE LogFile -------------------------------
(***************************************************************************)
(* The log file that the processes of a system share, and its one backup   *)
(* (Logger.cpp: initFileLogging, writeToFile, backupLogFile,               *)
(* reopenLogFile).  Nothing but a named semaphore, tried and never waited  *)
(* for, orders the processes; a mutex of the process orders its threads.   *)
(* Sizes stop at MaxSize + 1, "larger than allowed", and the inode numbers *)
(* of files that are gone are given out again, so that the processes may   *)
(* log for ever.                                                           *)
(***************************************************************************)
EXTENDS Integers, FiniteSets

CONSTANTS
    Procs,      \* the processes
    ThreadsOf,  \* the threads of each
    MaxSize,    \* logFileMaxSize_, in messages
    Inodes,     \* the inode numbers of the file system
    Crews,      \* the threads that log, a set of them for each behaviour
    FaultSets   \* what may go wrong, a set of faults for each behaviour

\* kill: a process is killed, once, at any step; open, write, sem: the call of that name fails.
\* killed: that has happened.
FaultKinds == {"kill", "open", "write", "sem", "killed"}
Threads == UNION {ThreadsOf[p] : p \in Procs}
NoThread == "none"

ASSUME LogFileAssumption ==
    /\ IsFiniteSet(Procs) /\ IsFiniteSet(Inodes)
    /\ \A p, q \in Procs : p # q => ThreadsOf[p] \cap ThreadsOf[q] = {}
    /\ NoThread \notin Threads
    /\ MaxSize \in Nat /\ Crews \subseteq SUBSET Threads
    /\ Inodes \subseteq Nat \ {0} /\ Cardinality(Inodes) >= Cardinality(Procs) + 2
    /\ FaultSets \subseteq SUBSET FaultKinds

NoFile == 0

VARIABLES
    crew, faults,
    log, backup,            \* the files of the two names, or NoFile
    size, sem,              \* messages in the log; the semaphore telLog
    proc,                   \* of each process: dead, naming (file open, not yet stat'ed) or up
    stream, good,           \* logFileStream_: the file it is open on, and its state
    inodeNumber, hasSem,    \* inodeNumber_; changeLogFileSem_ # SEM_FAILED
    mutex,                  \* logFileMutex_: the thread that holds it
    pc, st, changed,        \* of each thread: place, st.st_ino, logFileChanged
    seen,                   \* files that were the log since the call began
    slipped                 \* processes whose last reopen named another file than it opened

disk    == <<log, backup, size>>
logger  == <<stream, good, inodeNumber>>
thread  == <<pc, st, changed>>
world   == <<crew, faults>>
vars == <<world, disk, sem, proc, logger, hasSem, mutex, thread, seen, slipped>>

Places == {"idle", "trywait", "look", "remove", "rename", "post", "compare",
           "lock", "open", "stat", "write"}
Holding == {"look", "remove", "rename", "post"}

Owner(t) == CHOOSE p \in Procs : t \in ThreadsOf[p]
Full == log # NoFile /\ size > MaxSize

\* The file system gives a new file a number that no file has.
Used == {log, backup} \cup {stream[p] : p \in Procs}
NewInode == CHOOSE i \in Inodes : i \notin Used

Init ==
    /\ crew \in Crews /\ faults \in FaultSets
    /\ log = NoFile /\ backup = NoFile /\ size = 0 /\ sem = 1
    /\ proc = [p \in Procs |-> "dead"] /\ stream = [p \in Procs |-> NoFile]
    /\ good = [p \in Procs |-> TRUE] /\ inodeNumber = [p \in Procs |-> 0]
    /\ hasSem = [p \in Procs |-> FALSE] /\ mutex = [p \in Procs |-> NoThread]
    /\ pc = [t \in Threads |-> "idle"] /\ st = [t \in Threads |-> 0]
    /\ changed = [t \in Threads |-> FALSE] /\ seen = [t \in Threads |-> {}]
    /\ slipped = {}

-----------------------------------------------------------------------------
\* logFileStream_.open(name, app): the file of that name, a new one if there is none.
OpenLog(p) ==
    \/ /\ log # NoFile
       /\ stream' = [stream EXCEPT ![p] = log] /\ good' = [good EXCEPT ![p] = TRUE]
       /\ UNCHANGED <<disk, seen>>
    \/ /\ log = NoFile
       /\ log' = NewInode /\ size' = 0
       /\ stream' = [stream EXCEPT ![p] = NewInode]
       /\ seen' = [t \in Threads |->
                     IF pc[t] = "idle" THEN seen[t] ELSE seen[t] \cup {NewInode}]
       /\ good' = [good EXCEPT ![p] = TRUE]
       /\ UNCHANGED backup

OpenFails(p) ==
    /\ "open" \in faults
    /\ stream' = [stream EXCEPT ![p] = NoFile] /\ good' = [good EXCEPT ![p] = FALSE]
    /\ UNCHANGED <<disk, seen>>

\* The first message of a process constructs its logger.  A file that cannot be
\* opened leaves it without a semaphore for good.
Start(p) ==
    /\ proc[p] = "dead" /\ ThreadsOf[p] \cap crew # {}
    /\ \/ OpenLog(p) /\ proc' = [proc EXCEPT ![p] = "naming"]
       \/ OpenFails(p) /\ proc' = [proc EXCEPT ![p] = "up"]
    /\ UNCHANGED <<world, sem, inodeNumber, hasSem, mutex, thread, slipped>>

\* stat(logFile), then sem_open.
StartNamed(p) ==
    /\ proc[p] = "naming"
    /\ inodeNumber' = [inodeNumber EXCEPT ![p] = log]
    /\ slipped' = IF log = stream[p] THEN slipped ELSE slipped \cup {p}
    /\ hasSem' \in {[hasSem EXCEPT ![p] = b] : b \in {TRUE} \cup {FALSE : f \in faults \cap {"sem"}}}
    /\ proc' = [proc EXCEPT ![p] = "up"]
    /\ UNCHANGED <<world, disk, sem, stream, good, mutex, thread, seen>>

\* SIGKILL: the stream is closed with the process, the semaphore stays as it is.
Kill(p) ==
    LET Gone(f, value) == [t \in Threads |-> IF t \in ThreadsOf[p] THEN value ELSE f[t]] IN
    /\ "kill" \in faults /\ proc[p] # "dead" /\ faults' = {"killed"}
    /\ proc' = [proc EXCEPT ![p] = "dead"]
    /\ stream' = [stream EXCEPT ![p] = NoFile] /\ good' = [good EXCEPT ![p] = TRUE]
    /\ inodeNumber' = [inodeNumber EXCEPT ![p] = 0]
    /\ hasSem' = [hasSem EXCEPT ![p] = FALSE]
    /\ mutex' = [mutex EXCEPT ![p] = NoThread]
    /\ pc' = Gone(pc, "idle") /\ st' = Gone(st, 0)
    /\ changed' = Gone(changed, FALSE) /\ seen' = Gone(seen, {})
    /\ slipped' = slipped \ {p}
    /\ UNCHANGED <<crew, disk, sem>>

-----------------------------------------------------------------------------
(* backupLogFile.                                                          *)

Goto(t, place) == pc' = [pc EXCEPT ![t] = place]

\* Mutant: rotates whether or not the semaphore was had.
TryWaitUnheeded(t) ==
    /\ pc[t] = "trywait"
    /\ Goto(t, "look") /\ sem' = 0
    /\ UNCHANGED <<world, disk, proc, logger, hasSem, mutex, st, changed, seen, slipped>>

TryWait(t) ==
    /\ pc[t] = "trywait"
    /\ IF hasSem[Owner(t)] /\ sem = 1
       THEN Goto(t, "look") /\ sem' = 0
       ELSE Goto(t, "compare") /\ UNCHANGED sem
    /\ UNCHANGED <<world, disk, proc, logger, hasSem, mutex, st, changed, seen, slipped>>

\* Mutant: leaves the function without sem_post when there is nothing to rename.
LookReturns(t) ==
    /\ pc[t] = "look"
    /\ IF backup = inodeNumber[Owner(t)] /\ backup # NoFile
       THEN Goto(t, "compare") /\ changed' = [changed EXCEPT ![t] = TRUE]
       ELSE Goto(t, IF backup = NoFile THEN "rename" ELSE "remove") /\ UNCHANGED changed
    /\ UNCHANGED <<world, disk, sem, proc, logger, hasSem, mutex, st, seen, slipped>>

\* stat(backup): a backup that is the file this process has open was made by
\* someone else just now.
Look(t) ==
    /\ pc[t] = "look"
    /\ Goto(t, CASE backup = NoFile -> "rename"
                 [] backup # NoFile /\ backup = inodeNumber[Owner(t)] -> "post"
                 [] OTHER -> "remove")
    /\ UNCHANGED <<world, disk, sem, proc, logger, hasSem, mutex, st, changed, seen, slipped>>

RemoveBackup(t) ==
    /\ pc[t] = "remove"
    /\ backup' = NoFile /\ Goto(t, "rename")
    /\ UNCHANGED <<world, log, size, sem, proc, logger, hasSem, mutex, st, changed, seen, slipped>>

\* rename fails, unnoticed, when there is no log file.
Rename(t) ==
    /\ pc[t] = "rename"
    /\ backup' = IF log = NoFile THEN backup ELSE log
    /\ log' = NoFile /\ size' = 0 /\ Goto(t, "post")
    /\ UNCHANGED <<world, sem, proc, logger, hasSem, mutex, st, changed, seen, slipped>>

Post(t) ==
    /\ pc[t] = "post"
    /\ sem' = 1 /\ changed' = [changed EXCEPT ![t] = TRUE] /\ Goto(t, "compare")
    /\ UNCHANGED <<world, disk, proc, logger, hasSem, mutex, st, seen, slipped>>

-----------------------------------------------------------------------------
(* writeToFile.                                                            *)

\* stat(log).
Stat(t) ==
    /\ pc[t] = "idle" /\ t \in crew /\ proc[Owner(t)] = "up"
    /\ log # NoFile
    /\ st' = [st EXCEPT ![t] = log] /\ seen' = [seen EXCEPT ![t] = {log}]
    /\ Goto(t, IF Full THEN "trywait" ELSE "compare")
    /\ UNCHANGED <<world, disk, sem, proc, logger, hasSem, mutex, changed, slipped>>

\* A message is lost where there is no log file.
StatFails(t) ==
    /\ pc[t] = "idle" /\ t \in crew /\ proc[Owner(t)] = "up" /\ log = NoFile
    /\ UNCHANGED vars

\* Mutant: only a rotation of its own makes a process open the log anew.
CompareOwnOnly(t) ==
    /\ pc[t] = "compare"
    /\ st' = [st EXCEPT ![t] = 0] /\ Goto(t, "lock")
    /\ UNCHANGED <<world, disk, sem, proc, logger, hasSem, mutex, changed, seen, slipped>>

\* inodeNumber_ is read here, and in backupLogFile, without the mutex.
Compare(t) ==
    /\ pc[t] = "compare"
    /\ changed' = [changed EXCEPT ![t] = changed[t] \/ inodeNumber[Owner(t)] # st[t]]
    /\ st' = [st EXCEPT ![t] = 0] /\ Goto(t, "lock")
    /\ UNCHANGED <<world, disk, sem, proc, logger, hasSem, mutex, seen, slipped>>

\* The lock, and the close of reopenLogFile.
Lock(t) ==
    LET p == Owner(t) IN
    /\ pc[t] = "lock" /\ mutex[p] = NoThread
    /\ mutex' = [mutex EXCEPT ![p] = t]
    /\ IF changed[t]
       THEN Goto(t, "open") /\ stream' = [stream EXCEPT ![p] = NoFile]
       ELSE Goto(t, "write") /\ UNCHANGED stream
    /\ changed' = [changed EXCEPT ![t] = FALSE]
    /\ UNCHANGED <<world, disk, sem, proc, good, inodeNumber, hasSem, st, seen, slipped>>

\* Mutant: opens the log only when there is one.
ReopenExisting(t) ==
    LET p == Owner(t) IN
    /\ pc[t] = "open"
    /\ \/ log # NoFile /\ OpenLog(p) /\ Goto(t, "stat") /\ UNCHANGED <<inodeNumber, slipped>>
       \/ /\ log = NoFile /\ good' = [good EXCEPT ![p] = FALSE]
          /\ inodeNumber' = [inodeNumber EXCEPT ![p] = 0]
          /\ slipped' = slipped \ {p} /\ Goto(t, "write") /\ UNCHANGED <<stream, disk, seen>>
    /\ UNCHANGED <<world, sem, proc, hasSem, mutex, st, changed>>

Reopen(t) ==
    LET p == Owner(t) IN
    /\ pc[t] = "open"
    /\ \/ OpenLog(p) /\ Goto(t, "stat") /\ UNCHANGED <<inodeNumber, slipped>>
       \/ /\ OpenFails(p) /\ Goto(t, "write")
          /\ inodeNumber' = [inodeNumber EXCEPT ![p] = 0] /\ slipped' = slipped \ {p}
    /\ UNCHANGED <<world, sem, proc, hasSem, mutex, st, changed>>

\* stat of the name that was opened, its result not looked at: the file may have been
\* renamed meanwhile, and st.st_ino is then another file's or was never set.
ReopenStat(t) ==
    LET p == Owner(t) IN
    /\ pc[t] = "stat"
    /\ \E i \in IF log # NoFile THEN {log} ELSE Inodes \cup {0} :
          /\ inodeNumber' = [inodeNumber EXCEPT ![p] = i]
          /\ slipped' = IF log = stream[p] THEN slipped \ {p} ELSE slipped \cup {p}
    /\ Goto(t, "write")
    /\ UNCHANGED <<world, disk, sem, proc, stream, good, hasSem, mutex, st, changed, seen>>

\* To the file if the stream is good, else to syslog; the mutex is released.
Write(t) ==
    LET p == Owner(t)
        i == stream[p] IN
    /\ pc[t] = "write"
    /\ \/ /\ good[p] /\ i # NoFile
          /\ size' = IF i # log \/ Full THEN size ELSE size + 1
          /\ UNCHANGED good
       \/ /\ good[p] /\ "write" \in faults
          /\ good' = [good EXCEPT ![p] = FALSE] /\ UNCHANGED size
       \/ ~good[p] /\ UNCHANGED <<good, size>>
    /\ mutex' = [mutex EXCEPT ![p] = NoThread] /\ Goto(t, "idle")
    /\ seen' = [seen EXCEPT ![t] = {}]
    /\ UNCHANGED <<world, log, backup, sem, proc, stream, inodeNumber, hasSem, st, changed, slipped>>

-----------------------------------------------------------------------------
ProcStep(p) == Start(p) \/ StartNamed(p)
ThreadStep(t) ==
    \/ Stat(t) \/ StatFails(t) \/ Compare(t) \/ Lock(t) \/ Reopen(t) \/ ReopenStat(t) \/ Write(t)
    \/ TryWait(t) \/ Look(t) \/ RemoveBackup(t) \/ Rename(t) \/ Post(t)

Next ==
    \/ \E p \in Procs : ProcStep(p) \/ Kill(p)
    \/ \E t \in Threads : ThreadStep(t)

Spec == Init /\ [][Next]_vars

\* A process that is dead is started again, and every thread keeps logging.
Fairness ==
    /\ \A p \in Procs : WF_vars(ProcStep(p))
    /\ \A t \in Threads : WF_vars(ThreadStep(t))
FairSpec == Spec /\ Fairness

-----------------------------------------------------------------------------
\* A message goes to a file that was the log at some moment of the call, whatever
\* the other processes rotate meanwhile: never to one that was already the backup
\* when the call began.  Except in a process whose last reopen was overtaken by a
\* rotation between its open and its stat.
PrintsToLog ==
    \A t \in Threads :
        pc[t] = "write" /\ good[Owner(t)] /\ Owner(t) \notin slipped
            => stream[Owner(t)] \in seen[t]

\* rename never takes the place of a backup: the one before was looked at and
\* removed by the same process, with nobody in between.
NoOverwrite == [][ backup' \notin {backup, NoFile} => backup = NoFile ]_vars

\* A log that has grown too large does not stay the log while processes go on
\* logging, unless the semaphore went down with a process, or nobody has it.
Orphaned == "killed" \in faults /\ sem = 0 /\ \A t \in Threads : pc[t] \notin Holding
Rotates == Full ~> (~Full \/ Orphaned \/ \A p \in Procs : ~hasSem[p])

\* Whoever renames the log may be killed before it opens a new one, and until a
\* process starts every message of every process is dropped; that comes to an end.
Restored == "open" \notin faults => (log = NoFile ~> log # NoFile)

\* What a process leaves half done, another does.
Recovers == Rotates /\ Restored
==============================================================================
