-------------------------- MODULE InstanceRegistry --------------------------
(***************************************************************************)
(* PgLiteDriver's map INSTANCES from data paths to instances: connect      *)
(* boots an instance on first use, closeAndEvict takes it out and closes   *)
(* it, and the shutdown hook closes all of them before the JVM exits.      *)
(* Every instance restores its data file when it boots and dumps to it     *)
(* through a temporary file whose name depends on the data file only.  An  *)
(* instance has two threads that dump: the one that closes it, and its     *)
(* scheduler's, which may wait for pgLock while the first one goes on.     *)
(* Inside an instance see ManagedInstance, inside a dump see Snapshot; the *)
(* move of a complete zip is one step here.                                *)
(***************************************************************************)
CONSTANTS
    Paths,      \* the data paths that occur in JDBC URLs
    FileOf,     \* the host file that each path names
    Ids,        \* the instances, each booted at most once per JVM
    Rows,       \* the rows that clients insert
    Careful     \* evictions overlap neither a connect to the same path nor
                \* the shutdown, and nobody connects or inserts during it

Files == {FileOf[p] : p \in Paths}
None  == "none"

ASSUME ConstantsAssumption ==
    /\ DOMAIN FileOf = Paths
    /\ Careful \in BOOLEAN
    /\ None \notin Ids

VARIABLES
    INSTANCES,  \* path -> instance, or None
    booting,    \* path -> the instance computeIfAbsent is making, or None
    path,       \* instance -> its path
    stage,      \* instance -> where its life has got to
    backup,     \* instance -> where its scheduler's thread is
    mem,        \* instance -> the rows committed in it
    saved,      \* instance -> the rows in the files that its dumps zip
    evicted,    \* the instances closeAndEvict has taken out of the map
    hook,       \* the shutdown hook runs
    hookLeft,   \* the instances its loop has yet to visit
    hookNow,    \* the instance it is closing, or None
    file,       \* the data files
    tmp,        \* their temporary files
    dumped,     \* history: the instances of which a dump in close(), whose
                \* statements ran, has been installed
    straggled   \* history: the data files of instances whose scheduler's thread
                \* got pgLock after close() had let go of it

registry == <<INSTANCES, booting, path, evicted>>
shutdown == <<hook, hookLeft, hookNow>>
rows     == <<mem, saved>>
disk     == <<file, tmp>>
history  == <<dumped, straggled>>
vars     == <<registry, stage, backup, rows, shutdown, disk, history>>

\* close() dumps under pgLock ("final"), then PGLite.close does without it
\* ("second").
Dumping == {"final", "second"}
Stages  == Dumping \cup {"unused", "restore", "boot", "up", "closing", "last",
                         "closed", "failed"}
Threads == Ids \X {"backup", "closer"}

\* A data file gives back rows unless two writers, or a partial zip, tore it;
\* a temporary file may not exist, and has the writers that opened it.
NoTmp == [exists |-> FALSE, writers |-> {}, torn |-> FALSE]

TypeOK ==
    /\ INSTANCES \in [Paths -> Ids \cup {None}]
    /\ booting \in [Paths -> Ids \cup {None}]
    /\ path \in [Ids -> Paths \cup {None}]
    /\ stage \in [Ids -> Stages] /\ backup \in [Ids -> {"idle", "lock", "dump"}]
    /\ mem \in [Ids -> SUBSET Rows] /\ saved \in [Ids -> SUBSET Rows]
    /\ evicted \subseteq Ids /\ dumped \subseteq Ids /\ straggled \subseteq Files
    /\ hook \in BOOLEAN /\ hookLeft \subseteq Ids /\ hookNow \in Ids \cup {None}
    /\ file \in [Files -> [rows : SUBSET Rows, torn : BOOLEAN]]
    /\ tmp \in [Files -> [exists : BOOLEAN, writers : SUBSET Threads,
                          torn : BOOLEAN]]
    /\ \A i \in Ids : IF stage[i] = "unused" THEN backup[i] = "idle"
                                             ELSE path[i] \in Paths

\* A JVM has loaded the driver and has not used it.
Fresh ==
    /\ INSTANCES = [p \in Paths |-> None] /\ booting = [p \in Paths |-> None]
    /\ path = [i \in Ids |-> None] /\ stage = [i \in Ids |-> "unused"]
    /\ backup = [i \in Ids |-> "idle"]
    /\ mem = [i \in Ids |-> {}] /\ saved = [i \in Ids |-> {}]
    /\ evicted = {} /\ dumped = {}
    /\ hook = FALSE /\ hookLeft = {} /\ hookNow = None

Init ==
    /\ Fresh
    /\ file = [f \in Files |-> [rows |-> {}, torn |-> FALSE]]
    /\ tmp = [f \in Files |-> NoTmp]
    /\ straggled = {}

File(i) == FileOf[path[i]]
Goto(i, s) == stage' = [stage EXCEPT ![i] = s]
BackupGoes(i, s) == backup' = [backup EXCEPT ![i] = s]
-----------------------------------------------------------------------------
(***************************************************************************)
(* dumpDataDir, in the thread w of the instance w[1]: the temporary file   *)
(* is opened and truncated, and moved when the zip is complete, whoever    *)
(* else writes it.                                                         *)
(***************************************************************************)
Dumps(w) == IF w[2] = "backup" THEN backup[w[1]] = "dump"
                               ELSE stage[w[1]] \in Dumping

OpenTmp(w) ==
    LET f == File(w[1])
        others == tmp[f].writers
    IN tmp' = [tmp EXCEPT ![f] = [exists |-> TRUE, writers |-> others \cup {w},
                                  torn |-> others # {}]]

MoveTmp(w, S) ==
    LET f == File(w[1])
        t == tmp[f]
    IN /\ t.exists
       /\ tmp' = [tmp EXCEPT ![f] = NoTmp]
       /\ file' = [file EXCEPT ![f] =
                     [rows |-> S, torn |-> t.torn \/ t.writers # {w}]]

\* Where a thread goes on after a dump, and after an exception in it: close()
\* passes a RuntimeException of its own dump on and does not reach
\* PGLite.close; all other callers go on.
After(s) == IF s = "final" THEN "last" ELSE "closed"
AfterFailure(s) == {After(s)} \cup {t \in {"failed"} : s = "final"}

\* The dump of close() needs pgLock, the one of PGLite.close does not.
DumpBegin(i) ==
    /\ \/ stage[i] = "closing" /\ backup[i] # "dump" /\ Goto(i, "final")
       \/ stage[i] = "last" /\ Goto(i, "second")
    /\ OpenTmp(<<i, "closer">>)
    /\ UNCHANGED <<registry, backup, rows, shutdown, file, history>>

\* The scheduler starts a task while close() has not shut it down.
BackupFire(i) ==
    /\ stage[i] = "up" /\ backup[i] = "idle" /\ BackupGoes(i, "lock")
    /\ UNCHANGED <<registry, stage, rows, shutdown, disk, history>>

\* shutdownNow() does not take the thread out of the queue for pgLock: it gets
\* the lock whenever close() is not in its own dump, also after that dump.
BackupLock(i) ==
    /\ backup[i] = "lock" /\ BackupGoes(i, "dump")
    /\ stage[i] \notin {"final", "closed"}
    /\ OpenTmp(<<i, "backup">>)
    /\ straggled' = IF stage[i] \in {"up", "closing"} THEN straggled
                                                      ELSE straggled \cup {File(i)}
    /\ UNCHANGED <<registry, stage, rows, shutdown, file, dumped>>

\* After PGLite.close a statement of the dump fails, or the temporary file is
\* truncated before the walk fails, because its file system is closed.
BackupLate(i) ==
    /\ backup[i] = "lock" /\ BackupGoes(i, "idle")
    /\ stage[i] = "closed"
    /\ \/ tmp' = [tmp EXCEPT ![File(i)].exists = TRUE, ![File(i)].torn = TRUE]
       \/ UNCHANGED tmp
    /\ straggled' = straggled \cup {File(i)}
    /\ UNCHANGED <<registry, stage, rows, shutdown, file, dumped>>

\* The thread goes on to s; the scheduler's waits for its timer again, or is
\* cancelled, and then never fires.
GoesOnTo(w, s) ==
    IF w[2] = "backup" THEN BackupGoes(w[1], "idle") /\ UNCHANGED stage
                       ELSE Goto(w[1], s) /\ UNCHANGED backup

\* What is moved holds all rows committed, or no new ones if a statement of
\* the dump raised an error, to which dumpDataDir pays no attention.
DumpEnd(w) ==
    /\ Dumps(w) /\ GoesOnTo(w, After(stage[w[1]]))
    /\ \E S \in {saved[w[1]], mem[w[1]]} :
          /\ MoveTmp(w, S)
          /\ saved' = [saved EXCEPT ![w[1]] = S]
          /\ dumped' = IF w[2] = "closer" /\ S = mem[w[1]]
                         THEN dumped \cup {w[1]} ELSE dumped
    /\ UNCHANGED <<registry, mem, shutdown, straggled>>

\* The zip fails or, when there is no file to move, the move does.
DumpFails(w) ==
    /\ Dumps(w)
    /\ \E s \in AfterFailure(stage[w[1]]) : GoesOnTo(w, s)
    /\ tmp' = [tmp EXCEPT ![File(w[1])].torn = @ \/ w \in tmp[File(w[1])].writers,
                          ![File(w[1])].writers = @ \ {w}]
    /\ UNCHANGED <<registry, rows, shutdown, file, history>>
-----------------------------------------------------------------------------
(***************************************************************************)
(* connect                                                                 *)
(***************************************************************************)
\* The instances that are through with everything.
Ended == {i \in Ids : stage[i] \in {"closed", "failed"}}

\* computeIfAbsent runs its function for one caller at a time, until the new
\* instance is in the map or the function has thrown.  Mutant: a test and a
\* put, without exclusion.
NotExclusive(p) == INSTANCES[p] = None
Absent(p) == INSTANCES[p] = None /\ booting[p] \in Ended \cup {None}

Undisturbed(p) ==
    Careful => /\ ~hook
               /\ \A i \in evicted : path[i] = p => i \in Ended

Connect(p, i) ==
    /\ Absent(p) /\ Undisturbed(p)
    /\ stage[i] = "unused" /\ Goto(i, "restore")
    /\ path' = [path EXCEPT ![i] = p]
    /\ booting' = [booting EXCEPT ![p] = i]
    /\ UNCHANGED <<INSTANCES, evicted, backup, rows, shutdown, disk, history>>

\* The constructor reads the data file, or throws if it cannot.
Restore(i) ==
    /\ stage[i] = "restore"
    /\ IF file[File(i)].torn
         THEN Goto(i, "failed") /\ UNCHANGED rows
         ELSE /\ Goto(i, "boot")
              /\ mem' = [mem EXCEPT ![i] = file[File(i)].rows]
              /\ saved' = [saved EXCEPT ![i] = file[File(i)].rows]
    /\ UNCHANGED <<registry, backup, shutdown, disk, history>>

\* boot() returns and the instance is in the map; or there is no port for its
\* server socket, and boot() closes the PGLite again, with a dump, and throws.
Register(i) ==
    /\ stage[i] = "boot"
    /\ \/ /\ Goto(i, "up")
          /\ INSTANCES' = [INSTANCES EXCEPT ![path[i]] = i]
          /\ booting' = [booting EXCEPT ![path[i]] = None]
       \/ Goto(i, "last") /\ UNCHANGED <<INSTANCES, booting>>
    /\ UNCHANGED <<path, evicted, backup, rows, shutdown, disk, history>>

\* A client of the instance commits a row and learns that it has; a dump of the
\* scheduler or of close() holds pgLock.  (After the dump of close() nobody is
\* told of a commit: FinalDumpCoversAcks in ManagedInstance.)
Insert(i, r) ==
    /\ stage[i] \in {"up", "closing"} /\ backup[i] # "dump" /\ r \notin mem[i]
    /\ Careful => ~hook
    /\ mem' = [mem EXCEPT ![i] = @ \cup {r}]
    /\ UNCHANGED <<registry, stage, backup, saved, shutdown, disk, history>>
-----------------------------------------------------------------------------
(***************************************************************************)
(* closeAndEvict and the shutdown hook                                     *)
(***************************************************************************)
Evict(p) ==
    /\ INSTANCES[p] # None
    /\ Careful => ~hook
    /\ INSTANCES' = [INSTANCES EXCEPT ![p] = None]
    /\ evicted' = evicted \cup {INSTANCES[p]}
    /\ UNCHANGED <<booting, path, stage, backup, rows, shutdown, disk, history>>

\* close() stops the clients and the scheduler's timer.
CloseBegin(i) ==
    /\ i \in evicted \/ i = hookNow
    /\ stage[i] = "up" /\ Goto(i, "closing")
    /\ UNCHANGED <<registry, backup, rows, shutdown, disk, history>>

\* The values() the hook's loop goes through.  Mutant: also the entries that
\* are absent.
WithNull == {INSTANCES[p] : p \in Paths}
Registered == {INSTANCES[p] : p \in Paths} \ {None}

\* values() is weakly consistent: an instance registered later may be missed.
HookBegin ==
    /\ ~hook /\ hook' = TRUE
    /\ Careful => /\ \A p \in Paths : booting[p] \in Ended \cup {None}
                  /\ evicted \subseteq Ended
    /\ hookLeft' = Registered
    /\ UNCHANGED <<registry, stage, backup, rows, hookNow, disk, history>>

HookNext(i) ==
    /\ hook /\ hookNow = None
    /\ i \in hookLeft
    /\ hookNow' = i /\ hookLeft' = hookLeft \ {i}
    /\ UNCHANGED <<registry, stage, backup, rows, hook, disk, history>>

\* What is left to visit when one close() has returned or thrown.  Mutant: the
\* exception ends the loop.
StopsAtFailure(i) == IF stage[i] = "failed" THEN {} ELSE hookLeft
GoesOn(i) == hookLeft

HookReturns(i) ==
    /\ hookNow = i /\ i \in Ended
    /\ hookNow' = None /\ hookLeft' = GoesOn(i)
    /\ UNCHANGED <<registry, stage, backup, rows, hook, disk, history>>

\* The JVM exits when its hooks have returned, whatever other threads do, and
\* the next one starts.  The files stay.
Exit ==
    /\ hook /\ hookLeft = {} /\ hookNow = None
    /\ INSTANCES' = [p \in Paths |-> None] /\ booting' = [p \in Paths |-> None]
    /\ path' = [i \in Ids |-> None] /\ stage' = [i \in Ids |-> "unused"]
    /\ backup' = [i \in Ids |-> "idle"]
    /\ mem' = [i \in Ids |-> {}] /\ saved' = [i \in Ids |-> {}]
    /\ evicted' = {} /\ dumped' = {}
    /\ hook' = FALSE /\ UNCHANGED <<hookLeft, hookNow>>
    /\ tmp' = [f \in Files |-> [exists |-> tmp[f].exists, writers |-> {},
                                torn |-> tmp[f].exists]]
    /\ UNCHANGED <<file, straggled>>

Next ==
    \/ \E p \in Paths : Evict(p) \/ \E i \in Ids : Connect(p, i)
    \/ \E i \in Ids : \/ Restore(i) \/ Register(i) \/ CloseBegin(i)
                      \/ DumpBegin(i) \/ BackupFire(i) \/ BackupLock(i)
                      \/ BackupLate(i) \/ HookNext(i) \/ HookReturns(i)
                      \/ \E r \in Rows : Insert(i, r)
    \/ \E w \in Threads : DumpEnd(w) \/ DumpFails(w)
    \/ HookBegin \/ Exit

Spec == Init /\ [][Next]_vars
-----------------------------------------------------------------------------
\* No data file is ever the work of two writers or a partial zip, though all
\* instances of a path, and the two threads of each of them, share the name of
\* the temporary file; the exception is a file for which a scheduler's thread
\* got pgLock behind the dump of close().
FilesWhole == \A f \in Files : file[f].torn => f \in straggled

\* No dump takes rows out of a data file: whoever installs one has restored,
\* or written itself, what the last one left there.  The same exception.
FilesGrow ==
    [][\A f \in Files : f \in straggled \/ file[f].rows \subseteq file'[f].rows]_vars

\* The shutdown hook "writes a final snapshot on shutdown" (README): when the
\* JVM exits, close() has ended for every instance that was ever used, even if
\* that of another one has thrown, and the rows of each one for which a dump
\* of close() did its work are in the data file.  The same exception.
ShutdownSavesAll ==
    [][hook /\ ~hook' => \A i \in Ids : stage[i] # "unused" =>
          /\ i \in Ended
          /\ i \in dumped => \/ mem[i] \subseteq file[File(i)].rows
                             \/ File(i) \in straggled]_vars
=============================================================================
