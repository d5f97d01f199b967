--------------------------- MODULE LogFileProofs ---------------------------
(***************************************************************************)
(* For every number of processes and threads: a rotation never writes over *)
(* a backup, and a message goes to a file that was the log during the call *)
(* (NoOverwrite and PrintsToLog of LogFile).                               *)
(*                                                                         *)
(* The first rests on the semaphore alone (Excl).  For the second, the     *)
(* stream of a process and the number it remembers are followed: outside   *)
(* of a reopen that has not ended they agree (Named), so that a thread     *)
(* that found the number it expected has the stream of a file it has seen  *)
(* as the log (Fresh).                                                     *)
(***************************************************************************)
EXTENDS LogFile, FiniteSetTheorems, TLAPS

Files == Inodes \cup {NoFile}

TypeOK ==
    /\ faults \subseteq FaultKinds
    /\ log \in Files /\ backup \in Files /\ sem \in {0, 1}
    /\ proc \in [Procs -> {"dead", "naming", "up"}]
    /\ stream \in [Procs -> Files] /\ good \in [Procs -> BOOLEAN]
    /\ inodeNumber \in [Procs -> Files] /\ hasSem \in [Procs -> BOOLEAN]
    /\ mutex \in [Procs -> Threads \cup {NoThread}]
    /\ pc \in [Threads -> Places] /\ st \in [Threads -> Files]
    /\ changed \in [Threads -> BOOLEAN] /\ seen \in [Threads -> SUBSET Files]

\* At most one thread is between sem_trywait and sem_post, and the backup is gone
\* when it renames.
Excl ==
    /\ \A t \in Threads : pc[t] \in Holding => sem = 0
    /\ \A t, u \in Threads : pc[t] \in Holding /\ pc[u] \in Holding => t = u
    /\ \A t \in Threads : pc[t] = "rename" => backup = NoFile

Reopening == {"open", "stat"}
Inside == {"open", "stat", "write"}
Looking == {"trywait", "look", "remove", "rename", "post", "compare"}

\* The threads that are in a call: of a process that is up, and one at a time past
\* the lock.
Locked ==
    \A t \in Threads :
        /\ pc[t] # "idle" => proc[Owner(t)] = "up"
        /\ pc[t] \in Inside => mutex[Owner(t)] = t

\* What is the log while a call goes on has been seen by it.
Noticed ==
    \A t \in Threads :
        /\ pc[t] # "idle" /\ log # NoFile => log \in seen[t]
        /\ pc[t] \in Looking => st[t] \in seen[t]

\* A file that was opened has a number.
Opened ==
    /\ \A p \in Procs : proc[p] = "naming" => stream[p] # NoFile
    /\ \A t \in Threads : pc[t] = "stat" => stream[Owner(t)] # NoFile

\* No reopen of p is under way, and the last one was not overtaken.
Settled(p) ==
    /\ proc[p] = "up" /\ good[p] /\ p \notin slipped
    /\ \A t \in Threads : Owner(t) = p => pc[t] \notin Reopening

Named == \A p \in Procs : Settled(p) => inodeNumber[p] = stream[p]

Fresh ==
    \A t \in Threads :
        pc[t] = "lock" /\ ~changed[t] /\ Settled(Owner(t)) => stream[Owner(t)] \in seen[t]

Inv == TypeOK /\ Excl /\ Locked /\ Noticed /\ Opened /\ Named /\ Fresh /\ PrintsToLog

-----------------------------------------------------------------------------
(* Threads and files.                                                      *)

LEMMA OwnerOf ==
    ASSUME NEW t \in Threads
    PROVE  /\ Owner(t) \in Procs
           /\ \A p \in Procs : t \in ThreadsOf[p] <=> p = Owner(t)
<1>1. PICK p \in Procs : t \in ThreadsOf[p]
  BY DEF Threads
<1>2. Owner(t) \in Procs /\ t \in ThreadsOf[Owner(t)]
  BY <1>1 DEF Owner
<1>3. ASSUME NEW q \in Procs, t \in ThreadsOf[q], q # Owner(t)
      PROVE  FALSE
  BY <1>2, <1>3, LogFileAssumption DEF LogFileAssumption
<1> QED
  BY <1>2, <1>3

\* There is a number left for a new log: the backup and the open files take no
\* more than one for each process and one more.
LEMMA NewInodeFree ==
    ASSUME TypeOK, log = NoFile
    PROVE  NewInode \in Inodes /\ NewInode \notin Used
<1> DEFINE Open == {stream[p] : p \in Procs}
<1>1. IsFiniteSet(Procs) /\ IsFiniteSet(Inodes) /\ Cardinality(Inodes) >= Cardinality(Procs) + 2
  BY LogFileAssumption DEF LogFileAssumption
<1>2. IsFiniteSet(Open) /\ Cardinality(Open) <= Cardinality(Procs)
  <2>1. [p \in Procs |-> stream[p]] \in Surjection(Procs, Open)
    BY DEF Surjection
  <2> QED
    BY <2>1, <1>1, FS_Surjection
<1>3. IsFiniteSet(Open \cup {backup}) /\ Cardinality(Open \cup {backup}) <= Cardinality(Open) + 1
  <2> HIDE DEF Open
  <2>1. Cardinality(Open) \in Int
    BY <1>2, FS_CardinalityType
  <2> QED
    BY <1>2, <2>1, FS_AddElement
<1>4. ~(Inodes \subseteq Open \cup {backup})
  <2>1. SUFFICES ASSUME Inodes \in SUBSET (Open \cup {backup})
                 PROVE  FALSE
    OBVIOUS
  <2>2. Cardinality(Inodes) <= Cardinality(Open \cup {backup})
    BY <2>1, <1>3, FS_Subset
  <2>3. /\ Cardinality(Inodes) \in Int /\ Cardinality(Open \cup {backup}) \in Int
        /\ Cardinality(Open) \in Int /\ Cardinality(Procs) \in Int
    BY <1>1, <1>2, <1>3, FS_CardinalityType
  <2> HIDE DEF Open
  <2> QED
    BY <2>2, <2>3, <1>1, <1>2, <1>3
<1>5. PICK i \in Inodes : i \notin Open \cup {backup}
  BY <1>4
<1>6. i \notin Used
  BY <1>5, LogFileAssumption DEF Used, NoFile, LogFileAssumption
<1> QED
  BY <1>6 DEF NewInode

LEMMA OpenLogMoves ==
    ASSUME TypeOK, NEW p \in Procs, OpenLog(p)
    PROVE  /\ log' \in Inodes /\ log' # NoFile /\ backup' = backup
           /\ log' = log \/ (log = NoFile /\ log' \notin Used)
           /\ stream' = [stream EXCEPT ![p] = log']
           /\ good' = [good EXCEPT ![p] = TRUE]
           /\ seen' \in [Threads -> SUBSET Files]
           /\ \A t \in Threads : /\ seen[t] \subseteq seen'[t]
                                 /\ pc[t] # "idle" /\ log' # log => log' \in seen'[t]
<1>1. NoFile \notin Inodes
  BY LogFileAssumption DEF LogFileAssumption, NoFile
<1>2. CASE log # NoFile
  BY <1>1, <1>2 DEF OpenLog, TypeOK, Files, disk
<1>3. CASE log = NoFile
  <2>1. NewInode \in Inodes /\ NewInode \notin Used
    BY <1>3, NewInodeFree
  <2> QED
    BY <1>1, <1>3, <2>1 DEF OpenLog, TypeOK, Files
<1> QED
  BY <1>2, <1>3

\* To open a file changes nothing for the other processes but what they may see.
LEMMA OpenOfAnother ==
    ASSUME TypeOK, NEW p \in Procs, NEW q \in Procs \ {p}, OpenLog(p) \/ OpenFails(p)
    PROVE  /\ stream'[q] = stream[q] /\ good'[q] = good[q]
           /\ \A t \in Threads : seen[t] \subseteq seen'[t]
<1>1. CASE OpenLog(p)
  BY <1>1, OpenLogMoves DEF TypeOK
<1>2. CASE OpenFails(p)
  BY <1>2 DEF OpenFails, TypeOK
<1> QED
  BY <1>1, <1>2

LEMMA InitInv == Init => Inv
<1>1. SUFFICES ASSUME Init PROVE Inv
  OBVIOUS
<1>2. TypeOK
  <2>1. PICK F \in FaultSets : faults = F
    BY <1>1 DEF Init
  <2>2. faults \subseteq FaultKinds
    BY <2>1, LogFileAssumption DEF LogFileAssumption
  <2> QED
    BY <1>1, <2>2 DEF Init, TypeOK, Files, Places, NoFile
<1>3. \A t \in Threads : pc[t] = "idle"
  BY <1>1 DEF Init
<1>4. \A p \in Procs : proc[p] = "dead"
  BY <1>1 DEF Init
<1>5. Excl /\ Locked /\ Noticed /\ Opened /\ Fresh /\ PrintsToLog
  BY <1>3, <1>4 DEF Excl, Locked, Noticed, Opened, Fresh, PrintsToLog, Holding, Inside, Looking
<1>6. Named
  BY <1>4 DEF Named, Settled
<1> QED
  BY <1>2, <1>5, <1>6 DEF Inv

-----------------------------------------------------------------------------
(* Types.                                                                  *)

LEMMA TypeStep ==
    ASSUME TypeOK, [Next]_vars
    PROVE  TypeOK'
<1> USE DEF world, disk, logger, thread, Goto
<1>1. ASSUME NEW p \in Procs, Start(p) PROVE TypeOK'
  <2>1. CASE OpenLog(p) /\ proc' = [proc EXCEPT ![p] = "naming"]
    BY <1>1, <2>1, OpenLogMoves, ZenonT(30) DEF Start, TypeOK, Files
  <2>2. CASE OpenFails(p) /\ proc' = [proc EXCEPT ![p] = "up"]
    BY <1>1, <2>2 DEF Start, OpenFails, TypeOK, Files
  <2> QED
    BY <1>1, <2>1, <2>2 DEF Start
<1>2. ASSUME NEW p \in Procs, StartNamed(p) PROVE TypeOK'
  <2>1. hasSem' \in [Procs -> BOOLEAN]
    BY <1>2 DEF StartNamed, TypeOK
  <2> QED
    BY <1>2, <2>1 DEF StartNamed, TypeOK
<1>3. ASSUME NEW p \in Procs, Kill(p) PROVE TypeOK'
  BY <1>3 DEF Kill, TypeOK, Files, FaultKinds, Places, NoFile
<1>4. ASSUME NEW t \in Threads, ThreadStep(t) PROVE TypeOK'
  <2>1. Owner(t) \in Procs
    BY OwnerOf
  <2>2. CASE TryWait(t)
    BY <2>2 DEF TryWait, TypeOK, Places
  <2>3. CASE Look(t)
    BY <2>3 DEF Look, TypeOK, Places
  <2>4. CASE RemoveBackup(t)
    BY <2>4 DEF RemoveBackup, TypeOK, Files, Places
  <2>5. CASE Rename(t)
    BY <2>5 DEF Rename, TypeOK, Files, Places
  <2>6. CASE Post(t)
    BY <2>6 DEF Post, TypeOK, Places
  <2>7. CASE Stat(t)
    BY <2>7 DEF Stat, TypeOK, Places
  <2>8. CASE StatFails(t)
    BY <2>8 DEF StatFails, TypeOK, vars
  <2>9. CASE Compare(t)
    BY <2>9 DEF Compare, TypeOK, Places, Files, NoFile
  <2>10. CASE Lock(t)
    BY <2>1, <2>10 DEF Lock, TypeOK, Places, Files
  <2>11. CASE Reopen(t)
    <3>1. CASE OpenLog(Owner(t)) /\ Goto(t, "stat") /\ UNCHANGED <<inodeNumber, slipped>>
      BY <2>1, <2>11, <3>1, OpenLogMoves, ZenonT(30) DEF Reopen, TypeOK, Files, Places
    <3>2. CASE /\ OpenFails(Owner(t)) /\ Goto(t, "write")
               /\ inodeNumber' = [inodeNumber EXCEPT ![Owner(t)] = 0]
      BY <2>1, <2>11, <3>2 DEF Reopen, OpenFails, TypeOK, Files, Places, NoFile
    <3> QED
      BY <2>11, <3>1, <3>2 DEF Reopen
  <2>12. CASE ReopenStat(t)
    BY <2>1, <2>12 DEF ReopenStat, TypeOK, Places, Files, NoFile
  <2>13. CASE Write(t)
    BY <2>1, <2>13 DEF Write, TypeOK, Places
  <2> QED
    BY <1>4, <2>2, <2>3, <2>4, <2>5, <2>6, <2>7, <2>8, <2>9, <2>10, <2>11, <2>12, <2>13
    DEF ThreadStep
<1>5. CASE UNCHANGED vars
  BY <1>5 DEF vars, TypeOK
<1> QED
  BY <1>1, <1>2, <1>3, <1>4, <1>5 DEF Next, ProcStep

-----------------------------------------------------------------------------
(* The semaphore.                                                          *)

\* What a step does to the places of the threads: at most one goes on, or those of a
\* process that is killed stop.
LEMMA OneMoves ==
    ASSUME TypeOK, NEW t \in Threads, ThreadStep(t)
    PROVE  pc' = [pc EXCEPT ![t] = pc'[t]]
<1> QED
  BY DEF ThreadStep, Stat, StatFails, Compare, Lock, Reopen, ReopenStat, Write, TryWait, Look,
         RemoveBackup, Rename, Post, Goto, TypeOK, vars, thread

LEMMA ExclStep ==
    ASSUME TypeOK, Excl, [Next]_vars
    PROVE  Excl'
<1> USE DEF world, disk, logger, thread, Goto, Excl, Holding
<1>1. ASSUME NEW p \in Procs, Start(p) PROVE Excl'
  <2>1. backup' = backup
    BY <1>1 DEF Start, OpenLog, OpenFails
  <2> QED
    BY <1>1, <2>1 DEF Start
<1>2. ASSUME NEW p \in Procs, StartNamed(p) PROVE Excl'
  BY <1>2 DEF StartNamed
<1>3. ASSUME NEW p \in Procs, Kill(p) PROVE Excl'
  BY <1>3 DEF Kill, TypeOK
<1>4. ASSUME NEW t \in Threads, ThreadStep(t) PROVE Excl'
  <2>1. CASE TryWait(t)
    BY <2>1 DEF TryWait, TypeOK
  <2>2. CASE Look(t)
    BY <2>2 DEF Look, TypeOK
  <2>3. CASE RemoveBackup(t)
    BY <2>3 DEF RemoveBackup, TypeOK
  <2>4. CASE Rename(t)
    BY <2>4 DEF Rename, TypeOK
  <2>5. CASE Post(t)
    BY <2>5 DEF Post, TypeOK
  <2>6. CASE \/ Stat(t) \/ StatFails(t) \/ Compare(t) \/ Lock(t) \/ Reopen(t)
             \/ ReopenStat(t) \/ Write(t)
    <3>1. backup' = backup /\ sem' = sem
      BY <2>6 DEF Stat, StatFails, Compare, Lock, Reopen, OpenLog, OpenFails, ReopenStat, Write, vars
    <3>2. pc'[t] \notin Holding \/ pc' = pc
      BY <2>6 DEF Stat, StatFails, Compare, Lock, Reopen, ReopenStat, Write, vars, TypeOK
    <3>3. pc' = [pc EXCEPT ![t] = pc'[t]]
      BY <1>4, OneMoves
    <3> QED
      BY <3>1, <3>2, <3>3 DEF TypeOK
  <2> QED
    BY <1>4, <2>1, <2>2, <2>3, <2>4, <2>5, <2>6 DEF ThreadStep
<1>5. CASE UNCHANGED vars
  BY <1>5 DEF vars
<1> QED
  BY <1>1, <1>2, <1>3, <1>4, <1>5 DEF Next, ProcStep

\* Only Rename makes a backup, and none is there then.
LEMMA RenameToFree ==
    ASSUME TypeOK, Excl, [Next]_vars, backup' \notin {backup, NoFile}
    PROVE  backup = NoFile
<1> USE DEF world, disk, logger, thread
<1>1. ASSUME NEW p \in Procs, ProcStep(p) \/ Kill(p) PROVE FALSE
  BY <1>1 DEF ProcStep, Start, StartNamed, Kill, OpenLog, OpenFails
<1>2. ASSUME NEW t \in Threads, ThreadStep(t) PROVE backup = NoFile
  <2>1. CASE Rename(t)
    BY <2>1 DEF Rename, Excl
  <2>2. CASE ~Rename(t)
    BY <1>2, <2>2 DEF ThreadStep, Stat, StatFails, Compare, Lock, Reopen, OpenLog, OpenFails,
         ReopenStat, Write, TryWait, Look, RemoveBackup, Post, vars
  <2> QED
    BY <2>1, <2>2
<1> QED
  BY <1>1, <1>2 DEF Next, vars

-----------------------------------------------------------------------------
(* The threads of a call.                                                  *)

\* Before the lock, and without a reopen: what backupLogFile and the first stat do.
Quiet(t) ==
    Stat(t) \/ StatFails(t) \/ TryWait(t) \/ Look(t) \/ RemoveBackup(t) \/ Rename(t) \/ Post(t)

LEMMA QuietMoves ==
    ASSUME TypeOK, NEW t \in Threads, Quiet(t)
    PROVE  /\ UNCHANGED <<proc, logger, hasSem, mutex, slipped>>
           /\ log' = log \/ log' = NoFile
           /\ \A u \in Threads : u # t => /\ pc'[u] = pc[u] /\ seen'[u] = seen[u]
                                        /\ changed'[u] = changed[u] /\ st'[u] = st[u]
           /\ pc'[t] \in Looking \/ UNCHANGED <<pc, seen, st, changed>>
           /\ pc[t] \in Looking \cup {"idle"}
           /\ \/ pc[t] \in Looking /\ seen'[t] = seen[t] /\ st'[t] = st[t]
              \/ pc[t] = "idle" /\ log' = log /\ proc[Owner(t)] = "up"
                 /\ (log = NoFile \/ (st'[t] = log /\ seen'[t] = {log}))
                 /\ (log = NoFile => pc' = pc)
<1> USE DEF world, disk, logger, thread, Goto, Looking, TypeOK
<1>1. CASE Stat(t)
  BY <1>1 DEF Stat
<1>2. CASE StatFails(t)
  BY <1>2 DEF StatFails, vars
<1>3. CASE TryWait(t)
  BY <1>3 DEF TryWait
<1>4. CASE Look(t)
  BY <1>4 DEF Look
<1>5. CASE RemoveBackup(t)
  BY <1>5 DEF RemoveBackup
<1>6. CASE Rename(t)
  BY <1>6 DEF Rename
<1>7. CASE Post(t)
  BY <1>7 DEF Post
<1> QED
  BY <1>1, <1>2, <1>3, <1>4, <1>5, <1>6, <1>7 DEF Quiet

LEMMA LockedStep ==
    ASSUME TypeOK, Locked, [Next]_vars
    PROVE  Locked'
<1> USE DEF world, disk, logger, thread, Goto, Inside
<1> SUFFICES ASSUME NEW u \in Threads
             PROVE  /\ pc'[u] # "idle" => proc'[Owner(u)] = "up"
                    /\ pc'[u] \in Inside => mutex'[Owner(u)] = u
  BY DEF Locked, Owner
<1>u. Owner(u) \in Procs /\ \A p \in Procs : u \in ThreadsOf[p] <=> p = Owner(u)
  BY OwnerOf
<1>l. (pc[u] # "idle" => proc[Owner(u)] = "up") /\ (pc[u] \in Inside => mutex[Owner(u)] = u)
  BY DEF Locked
<1>1. ASSUME NEW p \in Procs, ProcStep(p)
      PROVE  pc' = pc /\ mutex' = mutex /\ (proc[Owner(u)] = "up" => proc'[Owner(u)] = "up")
  <2>1. CASE Start(p)
    BY <1>u, <2>1 DEF Start, TypeOK
  <2>2. CASE StartNamed(p)
    BY <1>u, <2>2 DEF StartNamed, TypeOK
  <2> QED
    BY <1>1, <2>1, <2>2 DEF ProcStep
<1>2. ASSUME NEW p \in Procs, Kill(p)
      PROVE  \/ pc'[u] = "idle"
             \/ p # Owner(u) /\ pc'[u] = pc[u] /\ proc'[Owner(u)] = proc[Owner(u)]
                /\ mutex'[Owner(u)] = mutex[Owner(u)]
  BY <1>2, <1>u DEF Kill, TypeOK
<1>3. ASSUME NEW t \in Threads, ThreadStep(t)
      PROVE  /\ pc'[u] # "idle" => proc'[Owner(u)] = "up"
             /\ pc'[u] \in Inside => mutex'[Owner(u)] = u
  <2>t. Owner(t) \in Procs
    BY OwnerOf
  <2>1. CASE Quiet(t)
    BY <1>l, <2>1, QuietMoves DEF Looking
  <2>2. CASE Compare(t)
    BY <1>l, <2>2 DEF Compare, TypeOK
  <2>3. CASE Lock(t)
    <3>1. NoThread \notin Threads
      BY LogFileAssumption DEF LogFileAssumption
    <3> QED
      BY <1>l, <1>u, <2>t, <2>3, <3>1 DEF Lock, TypeOK
  <2>4. CASE Reopen(t)
    BY <1>l, <2>4 DEF Reopen, TypeOK
  <2>5. CASE ReopenStat(t)
    BY <1>l, <2>5 DEF ReopenStat, TypeOK
  <2>6. CASE Write(t)
    <3>1. mutex[Owner(t)] = t
      BY <2>6 DEF Locked, Write
    <3> QED
      BY <1>l, <1>u, <2>t, <2>6, <3>1 DEF Write, TypeOK
  <2> QED
    BY <1>3, <2>1, <2>2, <2>3, <2>4, <2>5, <2>6 DEF ThreadStep, Quiet
<1>4. CASE UNCHANGED vars
  BY <1>4, <1>l DEF vars
<1> QED
  BY <1>l, <1>1, <1>2, <1>3, <1>4 DEF Next

LEMMA NoticedStep ==
    ASSUME TypeOK, Locked, Noticed, [Next]_vars
    PROVE  Noticed'
<1> USE DEF world, disk, logger, thread, Goto, Looking
<1> SUFFICES ASSUME NEW u \in Threads
             PROVE  /\ pc'[u] # "idle" /\ log' # NoFile => log' \in seen'[u]
                    /\ pc'[u] \in Looking => st'[u] \in seen'[u]
  BY DEF Noticed
<1>n. /\ pc[u] # "idle" /\ log # NoFile => log \in seen[u]
      /\ pc[u] \in Looking => st[u] \in seen[u]
  BY DEF Noticed
<1>o. Owner(u) \in Procs /\ \A p \in Procs : u \in ThreadsOf[p] <=> p = Owner(u)
  BY OwnerOf
<1>1. ASSUME NEW p \in Procs, Start(p)
      PROVE  /\ pc'[u] # "idle" /\ log' # NoFile => log' \in seen'[u]
             /\ pc'[u] \in Looking => st'[u] \in seen'[u]
  <2>1. CASE OpenLog(p)
    BY <1>1, <1>n, <2>1, OpenLogMoves DEF Start
  <2>2. CASE OpenFails(p)
    BY <1>1, <1>n, <2>2 DEF Start, OpenFails
  <2> QED
    BY <1>1, <2>1, <2>2 DEF Start
<1>2. ASSUME NEW p \in Procs, StartNamed(p)
      PROVE  UNCHANGED <<log, pc, st, seen>>
  BY <1>2 DEF StartNamed
<1>3. ASSUME NEW p \in Procs, Kill(p)
      PROVE  \/ pc'[u] = "idle"
             \/ log' = log /\ pc'[u] = pc[u] /\ st'[u] = st[u] /\ seen'[u] = seen[u]
  BY <1>3 DEF Kill
<1>4. ASSUME NEW t \in Threads, ThreadStep(t)
      PROVE  /\ pc'[u] # "idle" /\ log' # NoFile => log' \in seen'[u]
             /\ pc'[u] \in Looking => st'[u] \in seen'[u]
  <2>t. Owner(t) \in Procs
    BY OwnerOf
  <2>1. CASE Quiet(t)
    <3>1. CASE u = t
      BY <1>n, <2>1, <3>1, QuietMoves
    <3>2. CASE u # t
      BY <1>n, <2>1, <3>2, QuietMoves
    <3> QED
      BY <3>1, <3>2
  <2>2. CASE Compare(t)
    BY <1>n, <2>2 DEF Compare, TypeOK
  <2>3. CASE Lock(t)
    BY <1>n, <2>3 DEF Lock, TypeOK
  <2>4. CASE Reopen(t)
    <3>1. CASE OpenLog(Owner(t)) /\ Goto(t, "stat")
      BY <1>n, <2>t, <2>4, <3>1, OpenLogMoves DEF Reopen, TypeOK
    <3>2. CASE OpenFails(Owner(t)) /\ Goto(t, "write")
      BY <1>n, <2>4, <3>2 DEF Reopen, OpenFails, TypeOK
    <3> QED
      BY <2>4, <3>1, <3>2 DEF Reopen
  <2>5. CASE ReopenStat(t)
    BY <1>n, <2>5 DEF ReopenStat, TypeOK
  <2>6. CASE Write(t)
    BY <1>n, <2>6 DEF Write, TypeOK
  <2> QED
    BY <1>4, <2>1, <2>2, <2>3, <2>4, <2>5, <2>6 DEF ThreadStep, Quiet
<1>5. CASE UNCHANGED vars
  BY <1>5, <1>n DEF vars
<1> QED
  BY <1>n, <1>1, <1>2, <1>3, <1>4, <1>5 DEF Next, ProcStep

LEMMA OpenedStep ==
    ASSUME TypeOK, Locked, Opened, [Next]_vars
    PROVE  Opened'
<1> USE DEF world, disk, logger, thread, Goto
<1>1. ASSUME NEW q \in Procs, proc'[q] = "naming" PROVE stream'[q] # NoFile
  <2>q. proc[q] = "naming" => stream[q] # NoFile
    BY DEF Opened
  <2>1. ASSUME NEW p \in Procs, Start(p) PROVE stream'[q] # NoFile
    <3>1. CASE OpenLog(p)
      BY <1>1, <2>q, <2>1, <3>1, OpenLogMoves DEF Start, TypeOK
    <3>2. CASE OpenFails(p) /\ proc' = [proc EXCEPT ![p] = "up"]
      BY <1>1, <2>q, <3>2 DEF OpenFails, TypeOK
    <3> QED
      BY <2>1, <3>1, <3>2 DEF Start
  <2>2. ASSUME NEW p \in Procs, StartNamed(p) \/ Kill(p) PROVE stream'[q] # NoFile
    BY <1>1, <2>q, <2>2 DEF StartNamed, Kill, TypeOK
  <2>3. ASSUME NEW t \in Threads, ThreadStep(t) PROVE stream'[q] # NoFile
    <3>t. Owner(t) \in Procs
      BY OwnerOf
    <3>1. CASE Quiet(t) \/ Compare(t) \/ ReopenStat(t) \/ Write(t)
      BY <1>1, <2>q, <3>1, QuietMoves DEF Compare, ReopenStat, Write
    <3>2. CASE Lock(t) \/ Reopen(t)
      <4>1. proc' = proc /\ proc[Owner(t)] = "up"
        BY <3>2 DEF Lock, Reopen, Locked
      <4>2. stream'[q] = stream[q]
        BY <1>1, <3>t, <3>2, <4>1, OpenLogMoves DEF Lock, Reopen, OpenFails, TypeOK
      <4> QED
        BY <1>1, <2>q, <4>1, <4>2
    <3> QED
      BY <2>3, <3>1, <3>2 DEF ThreadStep, Quiet
  <2>4. CASE UNCHANGED vars
    BY <1>1, <2>q, <2>4 DEF vars
  <2> QED
    BY <2>1, <2>2, <2>3, <2>4 DEF Next, ProcStep
<1>2. ASSUME NEW u \in Threads, pc'[u] = "stat" PROVE stream'[Owner(u)] # NoFile
  <2>u. Owner(u) \in Procs /\ \A p \in Procs : u \in ThreadsOf[p] <=> p = Owner(u)
    BY OwnerOf
  <2>s. pc[u] = "stat" => /\ stream[Owner(u)] # NoFile
                         /\ proc[Owner(u)] = "up" /\ mutex[Owner(u)] = u
    BY DEF Opened, Locked, Inside
  <2>1. ASSUME NEW p \in Procs, Start(p) PROVE stream'[Owner(u)] # NoFile
    <3>1. pc' = pc /\ proc[p] = "dead"
      BY <2>1 DEF Start
    <3>2. stream'[Owner(u)] = stream[Owner(u)]
      BY <1>2, <2>u, <2>s, <2>1, <3>1, OpenLogMoves DEF Start, OpenFails, TypeOK
    <3> QED
      BY <1>2, <2>s, <3>1, <3>2
  <2>2. ASSUME NEW p \in Procs, StartNamed(p) PROVE stream'[Owner(u)] # NoFile
    BY <1>2, <2>s, <2>2 DEF StartNamed
  <2>3. ASSUME NEW p \in Procs, Kill(p) PROVE stream'[Owner(u)] # NoFile
    BY <1>2, <2>u, <2>s, <2>3 DEF Kill, TypeOK
  <2>4. ASSUME NEW t \in Threads, ThreadStep(t) PROVE stream'[Owner(u)] # NoFile
    <3>t. Owner(t) \in Procs
      BY OwnerOf
    <3>1. CASE Quiet(t)
      BY <1>2, <2>s, <3>1, QuietMoves DEF Looking
    <3>2. CASE Compare(t) \/ ReopenStat(t) \/ Write(t)
      BY <1>2, <2>s, <3>2 DEF Compare, ReopenStat, Write, TypeOK
    <3>3. CASE Lock(t)
      <4>1. NoThread \notin Threads
        BY LogFileAssumption DEF LogFileAssumption
      <4> QED
        BY <1>2, <2>u, <2>s, <3>t, <3>3, <4>1 DEF Lock, TypeOK
    <3>4. CASE Reopen(t)
      <4>0. mutex[Owner(t)] = t
        BY <3>4 DEF Reopen, Locked, Inside
      <4>1. CASE OpenLog(Owner(t)) /\ Goto(t, "stat")
        BY <1>2, <2>u, <2>s, <3>t, <4>1, OpenLogMoves DEF TypeOK
      <4>2. CASE OpenFails(Owner(t)) /\ Goto(t, "write")
        BY <1>2, <2>u, <2>s, <3>t, <4>0, <4>2 DEF OpenFails, TypeOK
      <4> QED
        BY <3>4, <4>1, <4>2 DEF Reopen
    <3> QED
      BY <2>4, <3>1, <3>2, <3>3, <3>4 DEF ThreadStep, Quiet
  <2>5. CASE UNCHANGED vars
    BY <1>2, <2>s, <2>5 DEF vars
  <2> QED
    BY <2>1, <2>2, <2>3, <2>4, <2>5 DEF Next, ProcStep
<1> QED
  BY <1>1, <1>2 DEF Opened

-----------------------------------------------------------------------------
(* The number a process remembers, and the file it has open.               *)

\* Only the end of a reopen settles a process; what a process of others does
\* changes nothing of it.
LEMMA SettledBefore ==
    ASSUME TypeOK, NEW t \in Threads, NEW p \in Procs, Settled(p)',
           Quiet(t) \/ Compare(t) \/ Lock(t) \/ Write(t) \/ (p # Owner(t) /\ ThreadStep(t))
    PROVE  Settled(p) /\ stream'[p] = stream[p] /\ inodeNumber'[p] = inodeNumber[p]
<1> USE DEF world, disk, logger, thread, Goto, Settled, Reopening
<1>t. Owner(t) \in Procs
  BY OwnerOf
<1>1. CASE Quiet(t)
  <2>1. \A u \in Threads : pc[u] \in Reopening => pc'[u] \in Reopening
    BY <1>1, QuietMoves DEF Looking
  <2> QED
    BY <1>1, <2>1, QuietMoves
<1>2. CASE Compare(t)
  BY <1>2 DEF Compare, TypeOK
<1>3. CASE Lock(t)
  <2>1. \A u \in Threads : pc[u] \in Reopening => pc'[u] \in Reopening
    BY <1>3 DEF Lock, TypeOK
  <2>2. p = Owner(t) => ~changed[t]
    BY <1>3 DEF Lock, TypeOK
  <2> QED
    BY <1>t, <1>3, <2>1, <2>2 DEF Lock, TypeOK
<1>4. CASE Write(t)
  BY <1>t, <1>4 DEF Write, TypeOK
<1>5. CASE p # Owner(t) /\ (Reopen(t) \/ ReopenStat(t))
  <2>1. proc' = proc /\ \A u \in Threads : Owner(u) = p => pc'[u] = pc[u]
    BY <1>5 DEF Reopen, ReopenStat, TypeOK
  <2>2. stream'[p] = stream[p] /\ good'[p] = good[p] /\ inodeNumber'[p] = inodeNumber[p]
    <3>1. CASE Reopen(t)
      BY <1>t, <1>5, <3>1, OpenOfAnother DEF Reopen, TypeOK
    <3>2. CASE ReopenStat(t)
      BY <1>t, <1>5, <3>2 DEF ReopenStat, TypeOK
    <3> QED
      BY <1>5, <3>1, <3>2
  <2>3. p \in slipped => p \in slipped'
    BY <1>5 DEF Reopen, ReopenStat
  <2> QED
    BY <2>1, <2>2, <2>3
<1> QED
  BY <1>1, <1>2, <1>3, <1>4, <1>5 DEF ThreadStep, Quiet

\* A step of a process as a whole does not settle it either, but for the end of Start.
LEMMA SettledUnlessStarted ==
    ASSUME TypeOK, NEW q \in Procs, NEW p \in Procs, Settled(p)',
           Start(q) \/ Kill(q) \/ (p # q /\ StartNamed(q))
    PROVE  Settled(p) /\ p # q /\ stream'[p] = stream[p] /\ inodeNumber'[p] = inodeNumber[p]
<1> USE DEF world, disk, logger, thread, Settled, Reopening
<1>1. CASE Start(q)
  <2>1. CASE OpenLog(q) /\ proc' = [proc EXCEPT ![q] = "naming"]
    BY <1>1, <2>1, OpenLogMoves DEF Start, TypeOK
  <2>2. CASE OpenFails(q)
    BY <1>1, <2>2 DEF Start, OpenFails, TypeOK
  <2> QED
    BY <1>1, <2>1, <2>2 DEF Start
<1>2. CASE Kill(q)
  <2>1. p # q
    BY <1>2 DEF Kill, TypeOK
  <2>2. \A u \in Threads : Owner(u) = p => pc'[u] = pc[u]
    BY <1>2, <2>1, OwnerOf DEF Kill
  <2> QED
    BY <1>2, <2>1, <2>2 DEF Kill, TypeOK
<1>3. CASE p # q /\ StartNamed(q)
  BY <1>3 DEF StartNamed, TypeOK
<1> QED
  BY <1>1, <1>2, <1>3

\* Whoever has ended a reopen that was not overtaken has the log open.
LEMMA NamedHere ==
    ASSUME TypeOK, Opened, NEW t \in Threads, ReopenStat(t), Settled(Owner(t))'
    PROVE  /\ log # NoFile /\ stream'[Owner(t)] = log /\ inodeNumber'[Owner(t)] = log
<1>1. Owner(t) \in Procs
  BY OwnerOf
<1>2. log = stream[Owner(t)] /\ stream[Owner(t)] # NoFile
  BY <1>1 DEF ReopenStat, Settled, Opened
<1> QED
  BY <1>1, <1>2 DEF ReopenStat, TypeOK

\* A reopen that has only opened the file, or failed to, settles nothing.
LEMMA NotYetSettled ==
    ASSUME TypeOK, NEW t \in Threads, Reopen(t)
    PROVE  ~Settled(Owner(t))'
<1>1. Owner(t) \in Procs
  BY OwnerOf
<1>2. CASE Goto(t, "stat")
  BY <1>2 DEF Settled, Goto, Reopening, TypeOK
<1>3. CASE OpenFails(Owner(t))
  BY <1>1, <1>3 DEF Settled, OpenFails, TypeOK
<1> QED
  BY <1>2, <1>3 DEF Reopen

LEMMA NamedStep ==
    ASSUME TypeOK, Opened, Named, [Next]_vars
    PROVE  Named'
<1> SUFFICES ASSUME NEW p \in Procs, Settled(p)'
             PROVE  inodeNumber'[p] = stream'[p]
  BY DEF Named
<1>n. Settled(p) => inodeNumber[p] = stream[p]
  BY DEF Named
<1>1. ASSUME NEW q \in Procs, Start(q) \/ Kill(q) \/ (p # q /\ StartNamed(q))
      PROVE  inodeNumber'[p] = stream'[p]
  BY <1>1, <1>n, SettledUnlessStarted
<1>2. CASE StartNamed(p)
  BY <1>2 DEF StartNamed, Settled, TypeOK
<1>3. ASSUME NEW t \in Threads, ThreadStep(t) PROVE inodeNumber'[p] = stream'[p]
  <2>1. CASE p = Owner(t) /\ Reopen(t)
    BY <2>1, NotYetSettled
  <2>2. CASE p = Owner(t) /\ ReopenStat(t)
    BY <2>2, NamedHere
  <2>3. CASE Quiet(t) \/ Compare(t) \/ Lock(t) \/ Write(t) \/ p # Owner(t)
    BY <1>3, <1>n, <2>3, SettledBefore
  <2> QED
    BY <1>3, <2>1, <2>2, <2>3 DEF ThreadStep, Quiet
<1>4. CASE UNCHANGED vars
  BY <1>4, <1>n DEF vars, logger, thread, Settled
<1> QED
  BY <1>1, <1>2, <1>3, <1>4 DEF Next, ProcStep

LEMMA FreshStep ==
    ASSUME TypeOK, Locked, Noticed, Opened, Named, Fresh, [Next]_vars
    PROVE  Fresh'
<1> USE DEF world, disk, logger, thread, Goto
<1> SUFFICES ASSUME NEW u \in Threads, pc'[u] = "lock", ~changed'[u], Settled(Owner(u))'
             PROVE  stream'[Owner(u)] \in seen'[u]
  BY DEF Fresh, Owner
<1>f. pc[u] = "lock" /\ ~changed[u] /\ Settled(Owner(u)) => stream[Owner(u)] \in seen[u]
  BY DEF Fresh
<1>l. pc[u] # "idle" => proc[Owner(u)] = "up"
  BY DEF Locked
<1>u. Owner(u) \in Procs /\ \A p \in Procs : u \in ThreadsOf[p] <=> p = Owner(u)
  BY OwnerOf
<1>1. ASSUME NEW q \in Procs, Start(q) \/ Kill(q) PROVE stream'[Owner(u)] \in seen'[u]
  <2>1. Settled(Owner(u)) /\ Owner(u) # q /\ stream'[Owner(u)] = stream[Owner(u)]
    BY <1>1, <1>u, SettledUnlessStarted
  <2>2. pc'[u] = pc[u] /\ changed'[u] = changed[u] /\ seen[u] \subseteq seen'[u]
    <3>1. CASE Start(q)
      BY <3>1, OpenLogMoves DEF Start, OpenFails
    <3>2. CASE Kill(q)
      BY <1>u, <2>1, <3>2 DEF Kill
    <3> QED
      BY <1>1, <3>1, <3>2
  <2> QED
    BY <1>f, <2>1, <2>2
<1>2. ASSUME NEW q \in Procs, StartNamed(q) PROVE stream'[Owner(u)] \in seen'[u]
  <2>1. Owner(u) # q
    BY <1>2, <1>l DEF StartNamed
  <2>2. Settled(Owner(u)) /\ stream'[Owner(u)] = stream[Owner(u)]
    BY <1>2, <1>u, <2>1, SettledUnlessStarted
  <2> QED
    BY <1>2, <1>f, <2>2 DEF StartNamed
<1>3. ASSUME NEW t \in Threads, ThreadStep(t) PROVE stream'[Owner(u)] \in seen'[u]
  <2>1. CASE Owner(u) = Owner(t) /\ Reopen(t)
    BY <2>1, NotYetSettled
  <2>2. CASE Owner(u) = Owner(t) /\ ReopenStat(t)
    <3>1. log # NoFile /\ stream'[Owner(u)] = log
      BY <2>2, NamedHere
    <3>2. pc[u] # "idle" /\ seen' = seen
      BY <2>2 DEF ReopenStat, TypeOK
    <3> QED
      BY <3>1, <3>2 DEF Noticed
  <2>3. CASE Quiet(t) \/ Compare(t) \/ Lock(t) \/ Write(t) \/ Owner(u) # Owner(t)
    <3>1. /\ Settled(Owner(u)) /\ stream'[Owner(u)] = stream[Owner(u)]
          /\ inodeNumber'[Owner(u)] = inodeNumber[Owner(u)]
      BY <1>3, <1>u, <2>3, SettledBefore
    <3>2. CASE u = t /\ Compare(t)
      <4>1. inodeNumber[Owner(u)] = st[u] /\ st[u] \in seen[u]
        BY <3>2 DEF Compare, Noticed, Looking, TypeOK
      <4> QED
        BY <1>u, <3>1, <3>2, <4>1 DEF Compare, Named
    <3>3. CASE u = t /\ ~Compare(t)
      <4>1. CASE Quiet(t)
        BY <1>f, <3>1, <3>3, <4>1, QuietMoves DEF Looking
      <4>2. CASE Lock(t) \/ Write(t)
        BY <3>3, <4>2 DEF Lock, Write, TypeOK
      <4>3. CASE Reopen(t) \/ ReopenStat(t)
        BY <3>3, <4>3 DEF Reopen, ReopenStat, TypeOK
      <4> QED
        BY <1>3, <3>3, <4>1, <4>2, <4>3 DEF ThreadStep, Quiet
    <3>4. CASE u # t
      <4>1. pc'[u] = pc[u] /\ changed'[u] = changed[u] /\ seen[u] \subseteq seen'[u]
        <5>t. Owner(t) \in Procs
          BY OwnerOf
        <5>1. CASE Quiet(t)
          BY <3>4, <5>1, QuietMoves
        <5>2. CASE Compare(t) \/ Lock(t) \/ ReopenStat(t) \/ Write(t)
          BY <3>4, <5>2 DEF Compare, Lock, ReopenStat, Write, TypeOK
        <5>3. CASE Reopen(t)
          BY <3>4, <5>t, <5>3, OpenLogMoves DEF Reopen, OpenFails, TypeOK
        <5> QED
          BY <1>3, <5>1, <5>2, <5>3 DEF ThreadStep, Quiet
      <4> QED
        BY <1>f, <3>1, <4>1
    <3> QED
      BY <3>2, <3>3, <3>4
  <2> QED
    BY <1>3, <2>1, <2>2, <2>3 DEF ThreadStep, Quiet
<1>4. CASE UNCHANGED vars
  BY <1>4, <1>f DEF vars, Settled
<1> QED
  BY <1>1, <1>2, <1>3, <1>4 DEF Next, ProcStep

LEMMA PrintsStep ==
    ASSUME TypeOK, Locked, Noticed, Opened, Fresh, PrintsToLog, [Next]_vars
    PROVE  PrintsToLog'
<1> USE DEF world, disk, logger, thread, Goto
<1> SUFFICES ASSUME NEW u \in Threads, pc'[u] = "write",
                    good'[Owner(u)], Owner(u) \notin slipped'
             PROVE  stream'[Owner(u)] \in seen'[u]
  BY DEF PrintsToLog, Owner
<1>p. pc[u] = "write" /\ good[Owner(u)] /\ Owner(u) \notin slipped
          => stream[Owner(u)] \in seen[u]
  BY DEF PrintsToLog
<1>l. /\ pc[u] # "idle" => proc[Owner(u)] = "up"
      /\ pc[u] \in Inside => mutex[Owner(u)] = u
  BY DEF Locked
<1>u. Owner(u) \in Procs /\ \A p \in Procs : u \in ThreadsOf[p] <=> p = Owner(u)
  BY OwnerOf
<1>1. ASSUME NEW q \in Procs, Start(q) PROVE stream'[Owner(u)] \in seen'[u]
  <2>1. Owner(u) # q /\ pc[u] = "write" /\ Owner(u) \notin slipped
    BY <1>1, <1>l DEF Start
  <2>2. /\ stream'[Owner(u)] = stream[Owner(u)] /\ good'[Owner(u)] = good[Owner(u)]
        /\ seen[u] \subseteq seen'[u]
    BY <1>1, <1>u, <2>1, OpenOfAnother DEF Start
  <2> QED
    BY <1>p, <2>1, <2>2
<1>2. ASSUME NEW q \in Procs, StartNamed(q) PROVE stream'[Owner(u)] \in seen'[u]
  BY <1>2, <1>p DEF StartNamed
<1>3. ASSUME NEW q \in Procs, Kill(q) PROVE stream'[Owner(u)] \in seen'[u]
  <2>1. Owner(u) # q
    BY <1>3, <1>u DEF Kill
  <2> QED
    BY <1>3, <1>p, <1>u, <2>1 DEF Kill, TypeOK
<1>4. ASSUME NEW t \in Threads, ThreadStep(t) PROVE stream'[Owner(u)] \in seen'[u]
  <2>t. Owner(t) \in Procs
    BY OwnerOf
  <2>1. CASE Quiet(t)
    BY <1>p, <2>1, QuietMoves DEF Looking
  <2>2. CASE Compare(t)
    BY <1>p, <2>2 DEF Compare, TypeOK
  <2>3. CASE Lock(t)
    <3>0. NoThread \notin Threads
      BY LogFileAssumption DEF LogFileAssumption
    <3>1. CASE u = t
      <4>1. ~changed[t] /\ UNCHANGED <<stream, good, slipped, seen>> /\ pc[t] = "lock"
        BY <2>3, <3>1 DEF Lock, TypeOK
      <4>2. Settled(Owner(t))
        BY <1>l, <2>3, <3>0, <3>1, <4>1 DEF Lock, Settled, Locked, Inside, Reopening
      <4> QED
        BY <3>1, <4>1, <4>2 DEF Fresh
    <3>2. CASE u # t
      <4>1. pc[u] = "write" /\ Owner(u) # Owner(t)
        BY <1>l, <2>3, <3>0, <3>2 DEF Lock, TypeOK, Inside
      <4> QED
        BY <1>p, <1>u, <2>t, <2>3, <4>1 DEF Lock, TypeOK
    <3> QED
      BY <3>1, <3>2
  <2>4. CASE Reopen(t)
    <3>0. mutex[Owner(t)] = t
      BY <2>4 DEF Reopen, Locked, Inside
    <3>1. u # t
      BY <2>t, <2>4 DEF Reopen, OpenFails, TypeOK
    <3>2. pc[u] = "write" /\ Owner(u) # Owner(t)
      BY <1>l, <2>4, <3>0, <3>1 DEF Reopen, TypeOK, Inside
    <3>3. /\ stream'[Owner(u)] = stream[Owner(u)] /\ good'[Owner(u)] = good[Owner(u)]
          /\ seen[u] \subseteq seen'[u]
      BY <1>u, <2>t, <2>4, <3>2, OpenOfAnother DEF Reopen
    <3>4. Owner(u) \notin slipped
      BY <2>4, <3>2 DEF Reopen
    <3> QED
      BY <1>p, <3>2, <3>3, <3>4
  <2>5. CASE ReopenStat(t)
    <3>0. mutex[Owner(t)] = t
      BY <2>5 DEF ReopenStat, Locked, Inside
    <3>1. CASE u = t
      <4>1. log = stream[Owner(t)] /\ stream[Owner(t)] # NoFile /\ pc[t] # "idle"
        BY <2>5, <3>1 DEF ReopenStat, Opened
      <4> QED
        BY <2>5, <3>1, <4>1 DEF ReopenStat, Noticed
    <3>2. CASE u # t
      <4>1. pc[u] = "write" /\ Owner(u) # Owner(t)
        BY <1>l, <2>5, <3>0, <3>2 DEF ReopenStat, TypeOK, Inside
      <4> QED
        BY <1>p, <1>u, <2>t, <2>5, <4>1 DEF ReopenStat
    <3> QED
      BY <3>1, <3>2
  <2>6. CASE Write(t)
    BY <1>p, <1>u, <2>t, <2>6 DEF Write, TypeOK
  <2> QED
    BY <1>4, <2>1, <2>2, <2>3, <2>4, <2>5, <2>6 DEF ThreadStep, Quiet
<1>5. CASE UNCHANGED vars
  BY <1>5, <1>p DEF vars
<1> QED
  BY <1>1, <1>2, <1>3, <1>4, <1>5 DEF Next, ProcStep

-----------------------------------------------------------------------------
LEMMA Inductive == Spec => []Inv
<1>1. Inv /\ [Next]_vars => Inv'
  BY TypeStep, ExclStep, LockedStep, NoticedStep, OpenedStep, NamedStep, FreshStep, PrintsStep
  DEF Inv
<1> QED
  BY <1>1, InitInv, PTL DEF Spec

\* However many processes and threads log, and are killed at whatever step: rename
\* never takes the place of a backup.
THEOREM BackupKept == Spec => NoOverwrite
<1>1. Inv /\ [Next]_vars => [backup' \notin {backup, NoFile} => backup = NoFile]_vars
  BY RenameToFree DEF Inv
<1> QED
  BY <1>1, Inductive, PTL DEF Spec, NoOverwrite

\* A message goes to a file that was the log during the call, in every process whose
\* last reopen was not overtaken.
THEOREM MessagesToLog == Spec => []PrintsToLog
<1>1. Inv => PrintsToLog
  BY DEF Inv
<1> QED
  BY <1>1, Inductive, PTL

=============================================================================
