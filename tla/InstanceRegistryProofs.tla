----------------------- MODULE InstanceRegistryProofs -----------------------
(***************************************************************************)
(* Proofs about InstanceRegistry, for every number of paths, files,        *)
(* instances and rows: the type invariant for every use of the driver, the *)
(* other properties for a careful one whose paths name different files.    *)
(***************************************************************************)
EXTENDS InstanceRegistry, TLAPS

\* Files and stages: what the type of a stage, of a data file and of a
\* temporary file is.
DataFile == [rows : SUBSET Rows, torn : BOOLEAN]
TmpFile  == [exists : BOOLEAN, writers : SUBSET Threads, torn : BOOLEAN]

\* The instance that a stage belongs to has a path, and that path a file.
LEMMA FileOfInstance ==
    ASSUME TypeOK, NEW i \in Ids, stage[i] # "unused"
    PROVE  path[i] \in Paths /\ File(i) \in Files
  BY DEF TypeOK, File, Files

\* A thread is that of an instance, and is one of two.
LEMMA ThreadParts ==
    \A w \in Threads : /\ w[1] \in Ids /\ w[2] \in {"backup", "closer"}
                       /\ w = <<w[1], w[2]>>
  BY DEF Threads

\* A thread that dumps has an instance with a data file.
LEMMA DumperUses ==
    ASSUME TypeOK, NEW w \in Threads, Dumps(w)
    PROVE  /\ w[1] \in Ids /\ stage[w[1]] # "unused"
           /\ path[w[1]] \in Paths /\ File(w[1]) \in Files
<1>1. w[1] \in Ids
  BY ThreadParts
<1>2. stage[w[1]] # "unused"
  BY <1>1 DEF TypeOK, Dumps, Dumping
<1> QED BY <1>1, <1>2, FileOfInstance

\* A thread that goes on moves its own instance, or its own scheduler, only.
LEMMA GoingOn ==
    ASSUME TypeOK, NEW w \in Threads, NEW s \in Stages \ {"unused"}, GoesOnTo(w, s)
    PROVE  /\ stage' \in [Ids -> Stages]
           /\ backup' \in [Ids -> {"idle", "lock", "dump"}]
           /\ \A j \in Ids : j # w[1] => stage'[j] = stage[j] /\ backup'[j] = backup[j]
           /\ w[2] = "backup" => backup'[w[1]] = "idle" /\ stage' = stage
           /\ w[2] = "closer" => stage'[w[1]] = s /\ backup' = backup
<1>1. w[1] \in Ids /\ w[2] \in {"backup", "closer"}
  BY ThreadParts
<1>2. CASE w[2] = "backup"
  BY <1>1, <1>2 DEF GoesOnTo, BackupGoes, TypeOK
<1>3. CASE w[2] = "closer"
  BY <1>1, <1>3 DEF GoesOnTo, Goto, TypeOK
<1> QED BY <1>1, <1>2, <1>3

\* What a dump that fails leaves of the temporary file.
LEMMA FailedTmp ==
    ASSUME TypeOK, NEW w \in Threads, DumpFails(w)
    PROVE  /\ tmp' \in [Files -> TmpFile]
           /\ tmp'[File(w[1])].writers = tmp[File(w[1])].writers \ {w}
           /\ \A f \in Files : f # File(w[1]) => tmp'[f] = tmp[f]
<1> DEFINE f == File(w[1])
           t == tmp[f]
           u == [t EXCEPT !.torn = @ \/ w \in t.writers]
           v == [u EXCEPT !.writers = @ \ {w}]
<1>1. f \in Files
  BY DumperUses DEF DumpFails
<1>2. t \in TmpFile
  BY <1>1 DEF TypeOK, TmpFile
<1>3. u = [exists |-> t.exists, writers |-> t.writers, torn |-> t.torn \/ w \in t.writers]
  BY <1>2 DEF TmpFile
<1>4. v \in TmpFile /\ v.writers = t.writers \ {w}
  BY <1>2, <1>3 DEF TmpFile
<1>5. tmp' = [tmp EXCEPT ![f] = v]
  <2>1. tmp \in [Files -> TmpFile]
    BY DEF TypeOK, TmpFile
  <2>2. tmp' = [[tmp EXCEPT ![f] = u] EXCEPT ![f].writers = @ \ {w}]
    BY DEF DumpFails
  <2> HIDE DEF f, u
  <2> QED BY <1>1, <2>1, <2>2
<1> HIDE DEF v
<1> QED BY <1>1, <1>4, <1>5 DEF TypeOK, TmpFile

\* What a thread that opens the temporary file makes of it.
LEMMA OpenedTmp ==
    ASSUME TypeOK, NEW w \in Threads, File(w[1]) \in Files, OpenTmp(w)
    PROVE  /\ tmp' \in [Files -> TmpFile]
           /\ tmp'[File(w[1])].writers = tmp[File(w[1])].writers \cup {w}
           /\ tmp'[File(w[1])].torn = (tmp[File(w[1])].writers # {})
           /\ \A f \in Files : f # File(w[1]) => tmp'[f] = tmp[f]
<1> DEFINE f == File(w[1])
           v == [exists |-> TRUE, writers |-> tmp[f].writers \cup {w},
                 torn |-> tmp[f].writers # {}]
<1>1. tmp \in [Files -> TmpFile] /\ tmp[f].writers \subseteq Threads
  BY DEF TypeOK, TmpFile
<1>2. v \in TmpFile /\ tmp' = [tmp EXCEPT ![f] = v]
  BY <1>1 DEF OpenTmp, TmpFile
<1>3. /\ v.writers = tmp[f].writers \cup {w}
      /\ v.torn = (tmp[f].writers # {})
  OBVIOUS
<1> HIDE DEF v
<1> QED BY <1>1, <1>2, <1>3

\* What a scheduler's thread that comes after PGLite.close does to it.
LEMMA LateTmp ==
    ASSUME TypeOK, NEW i \in Ids, BackupLate(i)
    PROVE  /\ tmp' \in [Files -> TmpFile]
           /\ \A f \in Files : f # File(i) => tmp'[f] = tmp[f]
<1>1. tmp \in [Files -> TmpFile] /\ File(i) \in Files
  BY FileOfInstance DEF TypeOK, TmpFile, BackupLate
<1>2. CASE UNCHANGED tmp
  BY <1>1, <1>2
<1>3. CASE tmp' = [tmp EXCEPT ![File(i)].exists = TRUE, ![File(i)].torn = TRUE]
  <2> DEFINE t == tmp[File(i)]
             u == [t EXCEPT !.exists = TRUE]
             v == [u EXCEPT !.torn = TRUE]
  <2>1. t \in TmpFile
    BY <1>1
  <2>2. u \in TmpFile
    BY <2>1 DEF TmpFile
  <2>3. v \in TmpFile
    BY <2>2 DEF TmpFile
  <2>4. tmp' = [[tmp EXCEPT ![File(i)] = u] EXCEPT ![File(i)].torn = TRUE]
    BY <1>3
  <2> HIDE DEF u
  <2>5. tmp' = [tmp EXCEPT ![File(i)] = v]
    BY <1>1, <2>4
  <2> HIDE DEF v
  <2> QED BY <1>1, <2>3, <2>5
<1> QED BY <1>2, <1>3 DEF BackupLate

\* The type invariant holds when the driver is loaded.
LEMMA TypeInit == Init => TypeOK
<1> SUFFICES ASSUME Init PROVE TypeOK OBVIOUS
<1>1. tmp \in [Files -> TmpFile] /\ file \in [Files -> DataFile]
  BY DEF Init, NoTmp, TmpFile, DataFile
<1>2. /\ stage \in [Ids -> Stages] /\ backup \in [Ids -> {"idle", "lock", "dump"}]
      /\ \A i \in Ids : stage[i] = "unused" /\ backup[i] = "idle"
  BY DEF Init, Fresh, Stages
<1>3. /\ INSTANCES \in [Paths -> Ids \cup {None}] /\ path \in [Ids -> Paths \cup {None}]
      /\ booting \in [Paths -> Ids \cup {None}]
      /\ mem \in [Ids -> SUBSET Rows] /\ saved \in [Ids -> SUBSET Rows]
  BY DEF Init, Fresh
<1> QED BY <1>1, <1>2, <1>3 DEF Init, Fresh, TypeOK, TmpFile, DataFile

\* A step that moves stages and schedulers within their types, neither to nor
\* from "unused", and gives no instance another path.
LEMMA TypeOfStage ==
    ASSUME TypeOK, UNCHANGED <<registry, rows, shutdown, file>>,
           stage' \in [Ids -> Stages], backup' \in [Ids -> {"idle", "lock", "dump"}],
           tmp' \in [Files -> TmpFile], dumped' \subseteq Ids, straggled' \subseteq Files,
           \A j \in Ids : \/ stage'[j] = stage[j] /\ backup'[j] = backup[j]
                          \/ stage[j] # "unused" /\ stage'[j] # "unused"
    PROVE  TypeOK'
<1>1. \A j \in Ids : IF stage'[j] = "unused" THEN backup'[j] = "idle"
                                            ELSE path'[j] \in Paths
  BY DEF TypeOK, registry
<1> QED BY <1>1 DEF TypeOK, TmpFile, registry, rows, shutdown

\* Every step keeps the type invariant, one step of the proof per action.
LEMMA TypeStep == TypeOK /\ [Next]_vars => TypeOK'
<1> SUFFICES ASSUME TypeOK, [Next]_vars PROVE TypeOK' OBVIOUS
<1> USE DEF registry, shutdown, disk, rows, history
<1>a. /\ stage \in [Ids -> Stages] /\ backup \in [Ids -> {"idle", "lock", "dump"}]
      /\ tmp \in [Files -> TmpFile] /\ dumped \subseteq Ids /\ straggled \subseteq Files
  BY DEF TypeOK, TmpFile
<1>1. ASSUME NEW p \in Paths, Evict(p) PROVE TypeOK'
  BY <1>1, ConstantsAssumption DEF Evict, TypeOK
<1>2. ASSUME NEW p \in Paths, NEW i \in Ids, Connect(p, i) PROVE TypeOK'
  BY <1>2 DEF Connect, Goto, TypeOK, Stages
<1>3. ASSUME NEW i \in Ids, Restore(i) PROVE TypeOK'
  <2>1. File(i) \in Files /\ stage[i] = "restore"
    BY <1>3, FileOfInstance DEF Restore
  <2>2. mem' \in [Ids -> SUBSET Rows] /\ saved' \in [Ids -> SUBSET Rows]
    <3>1. mem \in [Ids -> SUBSET Rows] /\ saved \in [Ids -> SUBSET Rows]
      BY DEF TypeOK
    <3>2. file[File(i)].rows \in SUBSET Rows
      BY <2>1 DEF TypeOK
    <3> QED BY <1>3, <3>1, <3>2 DEF Restore
  <2>3. stage' \in [Ids -> Stages] /\ \A j \in Ids : stage'[j] = "unused" <=> stage[j] = "unused"
    BY <1>3, <1>a, <2>1 DEF Restore, Goto, Stages
  <2> QED BY <1>3, <2>2, <2>3 DEF Restore, TypeOK
<1>4. ASSUME NEW i \in Ids, Register(i) PROVE TypeOK'
  <2>1. path[i] \in Paths /\ stage[i] = "boot"
    BY <1>4 DEF Register, TypeOK
  <2>2. stage' \in [Ids -> Stages] /\ \A j \in Ids : stage'[j] = "unused" <=> stage[j] = "unused"
    BY <1>4, <1>a, <2>1 DEF Register, Goto, Stages
  <2>3. /\ INSTANCES' \in [Paths -> Ids \cup {None}]
        /\ booting' \in [Paths -> Ids \cup {None}]
    <3>1. INSTANCES \in [Paths -> Ids \cup {None}] /\ booting \in [Paths -> Ids \cup {None}]
      BY DEF TypeOK
    <3>2. \/ /\ INSTANCES' = [INSTANCES EXCEPT ![path[i]] = i]
             /\ booting' = [booting EXCEPT ![path[i]] = None]
          \/ UNCHANGED <<INSTANCES, booting>>
      BY <1>4 DEF Register
    <3> QED BY <2>1, <3>1, <3>2
  <2> QED BY <1>4, <2>2, <2>3 DEF Register, TypeOK
<1>5. ASSUME NEW i \in Ids, CloseBegin(i) PROVE TypeOK'
  <2>1. /\ stage' \in [Ids -> Stages]
        /\ \A j \in Ids : \/ stage'[j] = stage[j]
                          \/ stage[j] # "unused" /\ stage'[j] # "unused"
    BY <1>5, <1>a DEF CloseBegin, Goto, Stages
  <2> QED BY <1>5, <1>a, <2>1, TypeOfStage DEF CloseBegin
<1>6. ASSUME NEW i \in Ids, DumpBegin(i) PROVE TypeOK'
  <2>1. <<i, "closer">> \in Threads /\ <<i, "closer">>[1] = i /\ File(i) \in Files
    BY <1>6, FileOfInstance DEF DumpBegin, Threads
  <2>2. tmp' \in [Files -> TmpFile]
    BY <1>6, <2>1, OpenedTmp DEF DumpBegin
  <2>3. /\ stage' \in [Ids -> Stages]
        /\ \A j \in Ids : \/ stage'[j] = stage[j]
                          \/ stage[j] # "unused" /\ stage'[j] # "unused"
    BY <1>6, <1>a DEF DumpBegin, Goto, Stages, Dumping
  <2> QED BY <1>6, <1>a, <2>2, <2>3, TypeOfStage DEF DumpBegin
<1>7. ASSUME NEW i \in Ids, BackupFire(i) PROVE TypeOK'
  <2>1. /\ backup' \in [Ids -> {"idle", "lock", "dump"}]
        /\ \A j \in Ids : \/ backup'[j] = backup[j]
                          \/ stage[j] # "unused"
    BY <1>7, <1>a DEF BackupFire, BackupGoes
  <2> QED BY <1>7, <1>a, <2>1, TypeOfStage DEF BackupFire
<1>8. ASSUME NEW i \in Ids, BackupLock(i) \/ BackupLate(i) PROVE TypeOK'
  <2>1. stage[i] # "unused" /\ File(i) \in Files
    BY <1>8, FileOfInstance DEF BackupLock, BackupLate, TypeOK
  <2>2. /\ backup' \in [Ids -> {"idle", "lock", "dump"}]
        /\ \A j \in Ids : \/ backup'[j] = backup[j]
                          \/ stage[j] # "unused"
    BY <1>8, <1>a, <2>1 DEF BackupLock, BackupLate, BackupGoes
  <2>3. <<i, "backup">> \in Threads /\ <<i, "backup">>[1] = i
    BY DEF Threads
  <2>4. tmp' \in [Files -> TmpFile]
    BY <1>8, <2>1, <2>3, OpenedTmp, LateTmp DEF BackupLock
  <2>5. straggled' \subseteq Files
    BY <1>8, <1>a, <2>1 DEF BackupLock, BackupLate
  <2> QED BY <1>8, <1>a, <2>2, <2>4, <2>5, TypeOfStage DEF BackupLock, BackupLate
<1>9. ASSUME NEW w \in Threads, DumpEnd(w) PROVE TypeOK'
  <2>1. w[1] \in Ids /\ stage[w[1]] # "unused" /\ File(w[1]) \in Files
    BY <1>9, DumperUses DEF DumpEnd
  <2>2. After(stage[w[1]]) \in Stages \ {"unused"} /\ NoTmp \in TmpFile
    BY DEF After, Stages, Dumping, NoTmp, TmpFile
  <2>3. /\ stage' \in [Ids -> Stages] /\ backup' \in [Ids -> {"idle", "lock", "dump"}]
        /\ \A j \in Ids : \/ stage'[j] = stage[j] /\ backup'[j] = backup[j]
                          \/ stage[j] # "unused" /\ stage'[j] # "unused"
    BY <1>9, <2>1, <2>2, GoingOn, ThreadParts DEF DumpEnd
  <2>4. PICK S \in {saved[w[1]], mem[w[1]]} :
            /\ MoveTmp(w, S) /\ saved' = [saved EXCEPT ![w[1]] = S]
    BY <1>9 DEF DumpEnd
  <2>5. S \in SUBSET Rows
    BY <2>1, <2>4 DEF TypeOK
  <2>6. tmp' \in [Files -> TmpFile]
    BY <1>a, <2>2, <2>4 DEF MoveTmp
  <2>7. file' \in [Files -> DataFile]
    BY <1>a, <2>1, <2>4, <2>5 DEF MoveTmp, TypeOK, DataFile, TmpFile
  <2>8. saved' \in [Ids -> SUBSET Rows] /\ dumped' \subseteq Ids
    BY <1>9, <1>a, <2>1, <2>4, <2>5 DEF DumpEnd, TypeOK
  <2>9. \A j \in Ids : IF stage'[j] = "unused" THEN backup'[j] = "idle"
                                              ELSE path[j] \in Paths
    BY <2>3 DEF TypeOK
  <2> QED BY <1>9, <2>3, <2>6, <2>7, <2>8, <2>9 DEF DumpEnd, TypeOK, TmpFile, DataFile
<1>10. ASSUME NEW w \in Threads, DumpFails(w) PROVE TypeOK'
  <2>1. w[1] \in Ids /\ stage[w[1]] # "unused"
    BY <1>10, DumperUses DEF DumpFails
  <2>2. PICK s \in Stages \ {"unused"} : GoesOnTo(w, s)
    BY <1>10 DEF DumpFails, AfterFailure, After, Stages, Dumping
  <2>3. /\ stage' \in [Ids -> Stages] /\ backup' \in [Ids -> {"idle", "lock", "dump"}]
        /\ \A j \in Ids : \/ stage'[j] = stage[j] /\ backup'[j] = backup[j]
                          \/ stage[j] # "unused" /\ stage'[j] # "unused"
    BY <2>1, <2>2, GoingOn, ThreadParts
  <2>4. tmp' \in [Files -> TmpFile]
    BY <1>10, FailedTmp
  <2> QED BY <1>10, <1>a, <2>3, <2>4, TypeOfStage DEF DumpFails
<1>11. ASSUME NEW i \in Ids, HookNext(i) \/ HookReturns(i) PROVE TypeOK'
  BY <1>11 DEF HookNext, HookReturns, GoesOn, TypeOK
<1>12. ASSUME NEW i \in Ids, NEW r \in Rows, Insert(i, r) PROVE TypeOK'
  BY <1>12 DEF Insert, TypeOK
<1>13. CASE HookBegin
  BY <1>13 DEF HookBegin, Registered, TypeOK
<1>14. CASE Exit
  <2>1. tmp' \in [Files -> TmpFile]
    BY <1>14, <1>a DEF Exit, TmpFile
  <2>2. /\ stage' \in [Ids -> Stages] /\ backup' \in [Ids -> {"idle", "lock", "dump"}]
        /\ \A j \in Ids : stage'[j] = "unused" /\ backup'[j] = "idle"
    BY <1>14 DEF Exit, Stages
  <2> QED BY <1>14, <2>1, <2>2 DEF Exit, TypeOK, TmpFile
<1>15. CASE UNCHANGED vars
  BY <1>15 DEF vars, TypeOK
<1> QED
  BY <1>1, <1>2, <1>3, <1>4, <1>5, <1>6, <1>7, <1>8, <1>9, <1>10, <1>11, <1>12, <1>13,
     <1>14, <1>15 DEF Next

\* Every variable keeps its type, however evictions, connects and the shutdown
\* overlap: every instance that is in use has a path, and that path a file.
THEOREM RegistryTypeCorrect == Spec => []TypeOK
  BY TypeInit, TypeStep, PTL DEF Spec
-----------------------------------------------------------------------------
\* Different data paths name different files.
PathsApart == \A p, q \in Paths : FileOf[p] = FileOf[q] => p = q

\* An instance between its connect and its end; one that has read its file.
Active(i)  == stage[i] \notin {"unused", "closed", "failed"}
Holding(i) == Active(i) /\ stage[i] # "restore"

\* Whoever connects can find out about every active instance of the path.
LocatedInv == \A i \in Ids : Active(i) =>
    INSTANCES[path[i]] = i \/ booting[path[i]] = i \/ i \in evicted

\* A path has at most one active instance.
SingleInv == \A i, j \in Ids :
    Active(i) /\ Active(j) /\ path[i] = path[j] => i = j

\* The shutdown hook has every active instance before it.
HookInv == hook => \A i \in Ids : Active(i) => i \in hookLeft \cup {hookNow}

\* What an instance has in its files it has in memory; only an instance whose
\* close() has dumped is in dumped.
RowsInv == \A i \in Ids :
    /\ saved[i] \subseteq mem[i]
    /\ i \in dumped => stage[i] \in {"last", "second", "closed"}

\* The instance has been given a path, and that path names the file.
Uses(i, f) == stage[i] # "unused" /\ File(i) = f

\* A data file that no scheduler's thread has straggled to: it is whole, it is
\* behind what its instances have saved, and what was dumped for good is in it;
\* the writers of its temporary file dump to it, and a thread that dumps to it
\* is the only one and has opened the temporary file whole.
FileInv(f) ==
    /\ ~file[f].torn
    /\ \A w \in tmp[f].writers : Dumps(w) /\ Uses(w[1], f)
    /\ \A w \in Threads : Dumps(w) /\ Uses(w[1], f) =>
          tmp[f].writers = {w} /\ ~tmp[f].torn
    /\ \A i \in Ids : Uses(i, f) =>
          /\ Holding(i) => file[f].rows \subseteq saved[i]
          /\ backup[i] = "dump" => stage[i] \in {"up", "closing"}
          /\ i \in dumped => mem[i] \subseteq file[f].rows

CareInv ==
    /\ TypeOK /\ LocatedInv /\ SingleInv /\ HookInv /\ RowsInv
    /\ \A f \in Files \ straggled : FileInv(f)

\* Two active instances with one data file are the same.
LEMMA OneOfFile ==
    ASSUME PathsApart, TypeOK, SingleInv, NEW i \in Ids, NEW j \in Ids,
           Active(i), Active(j), File(i) = File(j)
    PROVE  i = j
<1>1. path[i] \in Paths /\ path[j] \in Paths
  BY FileOfInstance DEF Active
<1> QED BY <1>1 DEF PathsApart, SingleInv, File

\* A thread that dumps to a file nobody has straggled to is that of an active
\* instance.
LEMMA DumperIsActive ==
    ASSUME TypeOK, NEW f \in Files, FileInv(f), NEW w \in Threads, Dumps(w), Uses(w[1], f)
    PROVE  w[1] \in Ids /\ Active(w[1]) /\ Holding(w[1]) /\ File(w[1]) = f
<1>1. w[1] \in Ids /\ File(w[1]) = f
  BY ThreadParts DEF Uses
<1>2. stage[w[1]] \in Dumping \cup {"up", "closing"}
  BY <1>1 DEF FileInv, Dumps
<1> QED BY <1>1, <1>2 DEF Active, Holding, Dumping

\* The invariant holds when the driver is loaded.
LEMMA CareInit == Init => CareInv
<1> SUFFICES ASSUME Init PROVE CareInv OBVIOUS
<1>1. \A i \in Ids : stage[i] = "unused" /\ saved[i] = {} /\ mem[i] = {}
  BY DEF Init, Fresh
<1>2. \A f \in Files : tmp[f].writers = {} /\ ~file[f].torn
  BY DEF Init, NoTmp
<1>3. \A f \in Files : FileInv(f)
  BY <1>1, <1>2, ThreadParts DEF FileInv, Uses
<1>4. LocatedInv /\ SingleInv /\ HookInv /\ RowsInv
  BY <1>1 DEF Init, Fresh, LocatedInv, SingleInv, HookInv, RowsInv, Active
<1> QED BY <1>3, <1>4, TypeInit DEF CareInv

\* A step leaves an instance alone.
LeftAlone(j) ==
    /\ stage'[j] = stage[j] /\ backup'[j] = backup[j] /\ path'[j] = path[j]
    /\ mem'[j] = mem[j] /\ saved'[j] = saved[j] /\ (j \in dumped' <=> j \in dumped)

\* What the invariant says of a file stays true if the step leaves the file and
\* all instances that use it alone; another one may begin to read the file.
LEMMA FileLeft ==
    ASSUME TypeOK, NEW f \in Files, FileInv(f), tmp'[f] = tmp[f], file'[f] = file[f],
           \A j \in Ids :
              \/ LeftAlone(j)
              \/ ~Uses(j, f) /\ ~Uses(j, f)'
              \/ /\ ~Uses(j, f) /\ stage'[j] = "restore" /\ backup'[j] = "idle"
                 /\ j \notin dumped'
    PROVE  FileInv(f)'
<1>1. \A j \in Ids : LeftAlone(j) =>
        /\ File(j)' = File(j) /\ (Uses(j, f)' <=> Uses(j, f))
        /\ (Holding(j)' <=> Holding(j))
        /\ \A k \in {"backup", "closer"} : Dumps(<<j, k>>)' <=> Dumps(<<j, k>>)
  BY DEF LeftAlone, File, Uses, Holding, Active, Dumps
<1>2. ASSUME NEW w \in tmp'[f].writers PROVE Dumps(w)' /\ Uses(w[1], f)'
  <2>1. w \in tmp[f].writers /\ w \in Threads
    BY <1>2 DEF TypeOK
  <2>2. Dumps(w) /\ Uses(w[1], f) /\ w[1] \in Ids
    BY <2>1, ThreadParts DEF FileInv
  <2> QED BY <1>1, <2>1, <2>2, ThreadParts
<1>3. ASSUME NEW w \in Threads, Dumps(w)', Uses(w[1], f)'
      PROVE  tmp'[f].writers = {w} /\ ~tmp'[f].torn
  <2>1. LeftAlone(w[1]) /\ w[1] \in Ids
    BY <1>3, ThreadParts DEF Dumps, Dumping
  <2>2. \E k \in {"backup", "closer"} : w = <<w[1], k>>
    BY ThreadParts
  <2>3. Dumps(w) /\ Uses(w[1], f)
    BY <1>1, <1>3, <2>1, <2>2
  <2>4. tmp[f].writers = {w} /\ ~tmp[f].torn
    BY <2>3 DEF FileInv
  <2> QED BY <2>4
<1>4. ASSUME NEW j \in Ids, Uses(j, f)'
      PROVE  /\ Holding(j)' => file'[f].rows \subseteq saved'[j]
             /\ backup'[j] = "dump" => stage'[j] \in {"up", "closing"}
             /\ j \in dumped' => mem'[j] \subseteq file'[f].rows
  <2>1. CASE LeftAlone(j)
    BY <1>1, <1>4, <2>1 DEF FileInv, LeftAlone
  <2>2. CASE stage'[j] = "restore" /\ backup'[j] = "idle" /\ j \notin dumped'
    BY <2>2 DEF Holding
  <2> QED BY <1>4, <2>1, <2>2
<1>5. ~file'[f].torn
  BY DEF FileInv
<1> QED BY <1>2, <1>3, <1>4, <1>5 DEF FileInv

\* A step of one instance does not disturb the files that it does not use.
LEMMA OtherFiles ==
    ASSUME TypeOK, NEW i \in Ids, stage[i] # "unused", path' = path,
           \A j \in Ids : j # i => LeftAlone(j),
           NEW f \in Files, f # File(i), FileInv(f),
           tmp'[f] = tmp[f], file'[f] = file[f]
    PROVE  FileInv(f)'
<1>1. ~Uses(i, f) /\ ~Uses(i, f)'
  BY DEF Uses, File
<1> QED BY <1>1, FileLeft

\* Nor its own, if the file stays as it is, none of its threads begins or ends
\* a dump, and the invariant's last part holds of the instance afterwards.
LEMMA SameFile ==
    ASSUME TypeOK, NEW i \in Ids, stage[i] # "unused", path' = path,
           \A j \in Ids : j # i => LeftAlone(j),
           NEW f \in Files, FileInv(f), tmp'[f] = tmp[f], file'[f] = file[f],
           backup[i] = "dump" <=> backup'[i] = "dump",
           stage[i] \in Dumping <=> stage'[i] \in Dumping,
           stage'[i] # "unused",
           File(i) = f => /\ Holding(i)' => file[f].rows \subseteq saved'[i]
                          /\ backup'[i] = "dump" => stage'[i] \in {"up", "closing"}
                          /\ i \in dumped' => mem'[i] \subseteq file[f].rows
    PROVE  FileInv(f)'
<1>0. CASE f # File(i)
  BY <1>0, OtherFiles
<1>1. \A j \in Ids : File(j)' = File(j) /\ (Uses(j, f)' <=> Uses(j, f))
  BY DEF File, Uses, LeftAlone
<1>2. \A w \in Threads : Dumps(w)' <=> Dumps(w)
  <2> SUFFICES ASSUME NEW w \in Threads PROVE Dumps(w)' <=> Dumps(w)
    OBVIOUS
  <2>1. w[1] \in Ids
    BY ThreadParts
  <2>2. CASE w[1] = i
    BY <2>2 DEF Dumps
  <2>3. CASE w[1] # i
    BY <2>1, <2>3 DEF Dumps, LeftAlone
  <2> QED BY <2>2, <2>3
<1>3. ASSUME NEW j \in Ids, Uses(j, f)', f = File(i)
      PROVE  /\ Holding(j)' => file'[f].rows \subseteq saved'[j]
             /\ backup'[j] = "dump" => stage'[j] \in {"up", "closing"}
             /\ j \in dumped' => mem'[j] \subseteq file'[f].rows
  <2>1. CASE j = i
    BY <1>3, <2>1
  <2>2. CASE j # i
    <3>1. LeftAlone(j) /\ Uses(j, f) /\ (Holding(j)' <=> Holding(j))
      BY <1>1, <1>3, <2>2 DEF LeftAlone, Holding, Active
    <3> QED BY <3>1 DEF FileInv, LeftAlone
  <2> QED BY <2>1, <2>2
<1>4. tmp[f].writers \subseteq Threads /\ \A w \in Threads : w[1] \in Ids
  BY ThreadParts DEF TypeOK
<1>5. CASE f = File(i)
  BY <1>1, <1>2, <1>3, <1>4, <1>5 DEF FileInv
<1> QED BY <1>0, <1>5

\* A thread that begins to dump, while nobody else dumps to the file, is its
\* only writer, and opens the temporary file whole.
LEMMA OpensAlone ==
    ASSUME PathsApart, TypeOK, SingleInv, NEW w \in Threads, NEW f \in Files,
           FileInv(f), Uses(w[1], f), Active(w[1]),
           ~Dumps(<<w[1], "backup">>), ~Dumps(<<w[1], "closer">>), OpenTmp(w)
    PROVE  /\ tmp'[f].writers = {w} /\ ~tmp'[f].torn
           /\ \A v \in Threads : Uses(v[1], f) => ~Dumps(v)
<1>1. w[1] \in Ids /\ File(w[1]) = f
  BY ThreadParts DEF Uses
<1>2. ASSUME NEW v \in Threads, Uses(v[1], f), Dumps(v) PROVE FALSE
  <2>1. v[1] \in Ids /\ Active(v[1]) /\ File(v[1]) = f
    BY <1>2, DumperIsActive
  <2>2. v[1] = w[1]
    BY <1>1, <2>1, OneOfFile
  <2> QED BY <1>2, <2>2, ThreadParts
<1>3. tmp[f].writers = {}
  BY <1>2 DEF FileInv, TypeOK
<1>4. /\ tmp'[f].writers = tmp[f].writers \cup {w}
      /\ tmp'[f].torn = (tmp[f].writers # {})
  BY <1>1, OpenedTmp
<1> QED BY <1>2, <1>3, <1>4

\* The same, for all that the invariant says of the file.
LEMMA FileOpened ==
    ASSUME PathsApart, TypeOK, SingleInv, NEW w \in Threads, NEW f \in Files,
           FileInv(f), Uses(w[1], f), Active(w[1]), stage[w[1]] # "restore",
           ~Dumps(<<w[1], "backup">>), ~Dumps(<<w[1], "closer">>), OpenTmp(w),
           path' = path, file' = file, saved' = saved, mem' = mem, dumped' = dumped,
           \A j \in Ids : j # w[1] => stage'[j] = stage[j] /\ backup'[j] = backup[j],
           Dumps(w)', \A v \in Threads : v[1] = w[1] /\ v # w => ~Dumps(v)',
           stage'[w[1]] # "unused",
           backup'[w[1]] = "dump" => stage'[w[1]] \in {"up", "closing"}
    PROVE  FileInv(f)'
<1>1. /\ tmp'[f].writers = {w} /\ ~tmp'[f].torn
      /\ \A v \in Threads : Uses(v[1], f) => ~Dumps(v)
  BY OpensAlone
<1>2. w[1] \in Ids /\ File(w[1]) = f
  BY ThreadParts DEF Uses
<1>3. \A j \in Ids : File(j)' = File(j) /\ (Uses(j, f)' <=> Uses(j, f))
  BY <1>2 DEF File, Uses
<1>4. ASSUME NEW v \in Threads, Dumps(v)', Uses(v[1], f)' PROVE v = w
  <2>1. v[1] \in Ids /\ Uses(v[1], f) /\ ~Dumps(v)
    BY <1>1, <1>3, <1>4, ThreadParts
  <2>2. v[1] = w[1]
    BY <1>4, <2>1 DEF Dumps
  <2> QED BY <1>4, <2>2
<1>5. ASSUME NEW j \in Ids, Uses(j, f)'
      PROVE  /\ Holding(j)' => file'[f].rows \subseteq saved'[j]
             /\ backup'[j] = "dump" => stage'[j] \in {"up", "closing"}
             /\ j \in dumped' => mem'[j] \subseteq file'[f].rows
  <2>1. Uses(j, f)
    BY <1>3, <1>5
  <2>2. CASE j = w[1]
    BY <2>1, <2>2 DEF FileInv, Holding
  <2>3. CASE j # w[1]
    BY <2>1, <2>3 DEF FileInv, Holding, Active
  <2> QED BY <2>2, <2>3
<1>6. ~file'[f].torn /\ Uses(w[1], f)'
  BY <1>2, <1>3 DEF FileInv
<1> QED BY <1>1, <1>4, <1>5, <1>6 DEF FileInv

\* A dump that ends, one way or the other, leaves a file that nobody has
\* straggled to whole, with no row less, and without a writer.
LEMMA FileClosed ==
    ASSUME PathsApart, CareInv, NEW w \in Threads, NEW f \in Files, FileInv(f),
           Dumps(w), Uses(w[1], f), DumpEnd(w) \/ DumpFails(w)
    PROVE  FileInv(f)' /\ file[f].rows \subseteq file'[f].rows
<1> DEFINE i == w[1]
<1>0. TypeOK /\ SingleInv /\ RowsInv
  BY DEF CareInv
<1>1. /\ i \in Ids /\ Active(i) /\ Holding(i) /\ File(i) = f
      /\ w[2] \in {"backup", "closer"}
  BY <1>0, DumperIsActive, ThreadParts
<1>2. tmp[f].writers = {w} /\ ~tmp[f].torn
  BY DEF FileInv
<1>3. \A v \in Threads : Dumps(v) /\ Uses(v[1], f) => v = w
  BY <1>2 DEF FileInv
<1>4. /\ path' = path /\ mem' = mem /\ straggled' = straggled
  BY DEF DumpEnd, DumpFails, registry, rows, history
<1>5. PICK s \in {"last", "closed", "failed"} : GoesOnTo(w, s)
  BY DEF DumpEnd, DumpFails, AfterFailure, After
<1>6. /\ \A j \in Ids : j # i => stage'[j] = stage[j] /\ backup'[j] = backup[j]
      /\ w[2] = "backup" => backup'[i] = "idle" /\ stage' = stage
      /\ w[2] = "closer" => stage'[i] = s /\ backup' = backup
  <2>1. s \in Stages \ {"unused"}
    BY DEF Stages
  <2> QED BY <1>0, <1>5, <2>1, GoingOn
<1>7. /\ \A j \in Ids : File(j)' = File(j) /\ (Uses(j, f)' <=> Uses(j, f))
      /\ \A j \in Ids : j # i => (Holding(j)' <=> Holding(j))
  <2>1. stage[i] # "unused" /\ stage'[i] # "unused"
    BY <1>1, <1>6 DEF Active
  <2> QED BY <1>4, <1>6, <2>1 DEF File, Uses, Holding, Active
<1>8. tmp'[f].writers = {}
  <2>1. CASE DumpEnd(w)
    BY <1>0, <1>1, <2>1 DEF DumpEnd, MoveTmp, NoTmp, TypeOK
  <2>2. CASE DumpFails(w)
    BY <1>0, <1>1, <1>2, <2>2, FailedTmp
  <2> QED BY <2>1, <2>2
<1>9. \A v \in Threads : Uses(v[1], f)' => ~Dumps(v)'
  <2> SUFFICES ASSUME NEW v \in Threads, Uses(v[1], f)', Dumps(v)' PROVE FALSE
    OBVIOUS
  <2>1. v[1] \in Ids /\ v[2] \in {"backup", "closer"} /\ v = <<v[1], v[2]>> /\ Uses(v[1], f)
    BY <1>7, ThreadParts
  <2>2. CASE v[1] # i
    <3>1. Dumps(v)
      BY <1>6, <2>1, <2>2 DEF Dumps
    <3> QED BY <1>3, <2>1, <2>2, <3>1
  <2>3. CASE v[1] = i /\ v[2] = w[2]
    BY <1>1, <1>6, <2>3 DEF Dumps, Dumping
  <2>4. CASE v[1] = i /\ v[2] # w[2]
    <3>1. Dumps(v)
      BY <1>1, <1>6, <2>1, <2>4 DEF Dumps
    <3> QED BY <1>3, <2>1, <2>4, <3>1
  <2> QED BY <2>2, <2>3, <2>4
<1>10. file[f].rows \subseteq saved[i] /\ saved[i] \subseteq mem[i] /\ ~file[f].torn
  BY <1>0, <1>1 DEF FileInv, RowsInv, Uses
<1>11. /\ ~file'[f].torn /\ file[f].rows \subseteq file'[f].rows
       /\ file'[f].rows \subseteq saved'[i]
       /\ \A j \in Ids : j # i => saved'[j] = saved[j] /\ (j \in dumped' <=> j \in dumped)
       /\ i \in dumped' => i \in dumped \/ mem[i] \subseteq file'[f].rows
  <2>1. CASE DumpFails(w)
    BY <1>10, <2>1 DEF DumpFails, rows, history
  <2>2. CASE DumpEnd(w)
    <3>1. PICK S \in {saved[i], mem[i]} :
              /\ MoveTmp(w, S) /\ saved' = [saved EXCEPT ![i] = S]
              /\ dumped' = IF w[2] = "closer" /\ S = mem[i] THEN dumped \cup {i} ELSE dumped
      BY <2>2 DEF DumpEnd
    <3>2. file'[f] = [rows |-> S, torn |-> tmp[f].torn \/ tmp[f].writers # {w}]
      BY <1>0, <1>1, <3>1 DEF MoveTmp, TypeOK
    <3>3. file'[f].rows = S /\ ~file'[f].torn
      <4>1. ~(tmp[f].torn \/ tmp[f].writers # {w})
        BY <1>2
      <4>2. file'[f] = [rows |-> S, torn |-> FALSE]
        BY <3>2, <4>1
      <4> QED BY <4>2
    <3>4. saved'[i] = S /\ \A j \in Ids : j # i => saved'[j] = saved[j]
      BY <1>0, <1>1, <3>1 DEF TypeOK
    <3> QED BY <1>1, <1>10, <3>1, <3>3, <3>4
  <2> QED BY <2>1, <2>2
<1>12. ASSUME NEW j \in Ids, Uses(j, f)'
       PROVE  /\ Holding(j)' => file'[f].rows \subseteq saved'[j]
              /\ backup'[j] = "dump" => stage'[j] \in {"up", "closing"}
              /\ j \in dumped' => mem'[j] \subseteq file'[f].rows
  <2>1. Uses(j, f)
    BY <1>7, <1>12
  <2>2. <<j, "backup">> \in Threads /\ <<j, "backup">>[1] = j /\ <<j, "backup">>[2] = "backup"
    BY DEF Threads
  <2>3. backup'[j] # "dump"
    BY <1>9, <1>12, <2>2 DEF Dumps
  <2>4. j \in dumped => mem[j] \subseteq file[f].rows
    BY <2>1 DEF FileInv
  <2>5. CASE j = i
    BY <1>4, <1>11, <2>3, <2>4, <2>5
  <2>6. CASE j # i
    <3>1. ~Holding(j)'
      <4> SUFFICES ASSUME Holding(j)' PROVE FALSE
        OBVIOUS
      <4>1. Active(j) /\ File(j) = File(i)
        BY <1>1, <1>7, <2>1, <2>6 DEF Holding, Uses
      <4> QED BY <1>0, <1>1, <2>6, <4>1, OneOfFile
    <3> QED BY <1>4, <1>11, <2>3, <2>4, <2>6, <3>1
  <2> QED BY <2>5, <2>6
<1> QED BY <1>8, <1>9, <1>11, <1>12 DEF FileInv

\* Who is active decides where the instances are found, that they are alone
\* and that the hook sees them.
LEMMA StillLocated ==
    ASSUME TypeOK, LocatedInv, SingleInv, HookInv, UNCHANGED registry, UNCHANGED shutdown,
           \A j \in Ids : Active(j)' => Active(j)
    PROVE  LocatedInv' /\ SingleInv' /\ HookInv'
<1>1. LocatedInv'
  BY DEF LocatedInv, registry
<1>2. SingleInv'
  BY DEF SingleInv, registry
<1>3. HookInv'
  BY DEF HookInv, shutdown
<1> QED BY <1>1, <1>2, <1>3

\* Rows are saved, and instances are dumped for good, by DumpEnd only.
LEMMA RowsLeft ==
    ASSUME RowsInv, saved' = saved, dumped' = dumped,
           \A j \in Ids : mem[j] \subseteq mem'[j],
           \A j \in Ids : stage[j] \in {"last", "second", "closed"} =>
                             stage'[j] \in {"last", "second", "closed"}
    PROVE  RowsInv'
  BY DEF RowsInv

\* The parts of the invariant that the files have no part in, after a step
\* that only moves the stage of one active instance on.
LEMMA StageGoes ==
    ASSUME CareInv, NEW i \in Ids, Active(i), NEW s \in Stages, Goto(i, s),
           stage[i] \in {"last", "second"} => s \in {"second", "closed"}
    PROVE  /\ stage'[i] = s /\ \A j \in Ids : j # i => stage'[j] = stage[j]
           /\ \A j \in Ids : Active(j)' => Active(j)
           /\ \A j \in Ids : stage[j] \in {"last", "second", "closed"} =>
                                stage'[j] \in {"last", "second", "closed"}
<1>1. stage'[i] = s /\ \A j \in Ids : j # i => stage'[j] = stage[j]
  BY DEF CareInv, TypeOK, Goto
<1> QED BY <1>1 DEF Active

\* A careful application connects to a path when no instance of it is active.
LEMMA ConnectsAlone ==
    ASSUME Careful, CareInv, NEW p \in Paths, Absent(p), Undisturbed(p),
           NEW j \in Ids, Active(j)
    PROVE  path[j] # p
<1> SUFFICES ASSUME path[j] = p PROVE FALSE
  OBVIOUS
<1>1. j \notin Ended /\ j # None
  BY ConstantsAssumption DEF Active, Ended
<1>2. INSTANCES[p] # j /\ booting[p] # j
  BY <1>1 DEF Absent
<1>3. j \notin evicted
  BY <1>1 DEF Undisturbed
<1> QED BY <1>2, <1>3 DEF CareInv, LocatedInv

\* connect, for a path that no active instance has.
LEMMA CareConnect ==
    ASSUME Careful, CareInv, TypeOK', NEW p \in Paths, NEW i \in Ids, Connect(p, i)
    PROVE  CareInv'
<1>0. TypeOK /\ LocatedInv /\ SingleInv /\ HookInv /\ RowsInv
  BY DEF CareInv
<1>1. /\ Absent(p) /\ Undisturbed(p) /\ stage[i] = "unused" /\ Goto(i, "restore")
      /\ path' = [path EXCEPT ![i] = p] /\ booting' = [booting EXCEPT ![p] = i]
      /\ UNCHANGED <<INSTANCES, evicted, backup, mem, saved, hook, hookLeft, hookNow,
                     file, tmp, dumped, straggled>>
  BY DEF Connect, rows, shutdown, disk, history
<1>2. /\ stage'[i] = "restore" /\ path'[i] = p
      /\ \A j \in Ids : j # i => stage'[j] = stage[j] /\ path'[j] = path[j]
  BY <1>0, <1>1 DEF Goto, TypeOK
<1>3. /\ ~Active(i) /\ backup[i] = "idle" /\ i \notin dumped
      /\ \A j \in Ids : j # i => (Active(j)' <=> Active(j))
  BY <1>0, <1>1, <1>2 DEF Active, TypeOK, RowsInv
<1>4. \A j \in Ids : Active(j) => path[j] # p /\ path[j] \in Paths
  BY <1>0, <1>1, ConnectsAlone, FileOfInstance DEF Active
<1>5. SingleInv'
  BY <1>0, <1>2, <1>3, <1>4 DEF SingleInv
<1>6. LocatedInv'
  <2> SUFFICES ASSUME NEW j \in Ids, Active(j)'
               PROVE  \/ INSTANCES'[path'[j]] = j \/ booting'[path'[j]] = j
                      \/ j \in evicted'
    BY DEF LocatedInv
  <2>0. booting \in [Paths -> Ids \cup {None}]
    BY <1>0 DEF TypeOK
  <2>1. CASE j = i
    BY <1>1, <1>2, <2>0, <2>1
  <2>2. CASE j # i
    <3>1. Active(j) /\ path'[j] = path[j] /\ path[j] \in Paths /\ path[j] # p
      BY <1>2, <1>3, <1>4, <2>2
    <3>2. booting'[path[j]] = booting[path[j]]
      BY <1>1, <2>0, <3>1
    <3> QED BY <1>0, <1>1, <3>1, <3>2 DEF LocatedInv
  <2> QED BY <2>1, <2>2
<1>7. HookInv'
  BY <1>1 DEF HookInv, Undisturbed
<1>8. RowsInv'
  BY <1>0, <1>1, <1>2, RowsLeft
<1>9. ASSUME NEW f \in Files \ straggled PROVE FileInv(f)'
  <2>1. \A j \in Ids : j # i => LeftAlone(j)
    BY <1>1, <1>2 DEF LeftAlone
  <2>2. ~Uses(i, f) /\ stage'[i] = "restore" /\ backup'[i] = "idle" /\ i \notin dumped'
    BY <1>1, <1>2, <1>3 DEF Uses
  <2>3. FileInv(f) /\ tmp'[f] = tmp[f] /\ file'[f] = file[f]
    BY <1>1, <1>9 DEF CareInv
  <2> QED BY <1>0, <2>1, <2>2, <2>3, FileLeft
<1> QED BY <1>1, <1>5, <1>6, <1>7, <1>8, <1>9 DEF CareInv

\* The constructor reads a data file that is whole, or fails.
LEMMA CareRestore ==
    ASSUME CareInv, TypeOK', NEW i \in Ids, Restore(i)
    PROVE  CareInv'
<1>0. TypeOK /\ LocatedInv /\ SingleInv /\ HookInv /\ RowsInv
  BY DEF CareInv
<1>1. /\ stage[i] = "restore" /\ UNCHANGED registry /\ UNCHANGED shutdown
      /\ UNCHANGED <<path, backup, file, tmp, dumped, straggled>>
  BY DEF Restore, registry, disk, history
<1>2. Active(i) /\ i \notin dumped
  BY <1>0, <1>1 DEF Active, RowsInv
<1>3. PICK s \in {"failed", "boot"} : Goto(i, s) /\ (s = "boot" \/ file[File(i)].torn)
  BY DEF Restore
<1>4. /\ stage'[i] = s /\ \A j \in Ids : j # i => stage'[j] = stage[j]
      /\ \A j \in Ids : Active(j)' => Active(j)
      /\ \A j \in Ids : stage[j] \in {"last", "second", "closed"} =>
                           stage'[j] \in {"last", "second", "closed"}
  <2>1. s \in Stages /\ stage[i] \notin {"last", "second"}
    BY <1>1 DEF Stages
  <2> QED BY <1>2, <1>3, <2>1, StageGoes
<1>5. LocatedInv' /\ SingleInv' /\ HookInv'
  BY <1>0, <1>1, <1>4, StillLocated
<1>6. /\ \A j \in Ids : j # i => mem'[j] = mem[j] /\ saved'[j] = saved[j]
      /\ saved'[i] = mem'[i] \/ (saved'[i] = saved[i] /\ mem'[i] = mem[i])
      /\ file[File(i)].torn \/ saved'[i] = file[File(i)].rows
  <2>1. mem \in [Ids -> SUBSET Rows] /\ saved \in [Ids -> SUBSET Rows]
    BY <1>0 DEF TypeOK
  <2> QED BY <2>1 DEF Restore, rows
<1>7. RowsInv'
  BY <1>0, <1>1, <1>2, <1>4, <1>6 DEF RowsInv
<1>8. ASSUME NEW f \in Files \ straggled PROVE FileInv(f)'
  <2>1. FileInv(f) /\ ~file[f].torn
    BY <1>8 DEF CareInv, FileInv
  <2>2. \A j \in Ids : j # i => LeftAlone(j)
    BY <1>1, <1>4, <1>6 DEF LeftAlone
  <2>3. stage[i] \notin Dumping /\ stage'[i] \notin Dumping /\ stage'[i] # "unused"
    BY <1>1, <1>4 DEF Dumping
  <2>4. File(i) = f => file[f].rows \subseteq saved'[i] /\ backup[i] # "dump"
    BY <1>1, <1>6, <2>1 DEF FileInv, Uses
  <2> QED BY <1>0, <1>1, <1>2, <2>1, <2>2, <2>3, <2>4, SameFile
<1> QED BY <1>1, <1>5, <1>7, <1>8 DEF CareInv

\* An instance that is registered, or whose boot fails, was booting.
LEMMA CareRegister ==
    ASSUME CareInv, TypeOK', NEW i \in Ids, Register(i)
    PROVE  CareInv'
<1>0. TypeOK /\ LocatedInv /\ SingleInv /\ HookInv /\ RowsInv
  BY DEF CareInv
<1>1. /\ stage[i] = "boot" /\ UNCHANGED shutdown
      /\ UNCHANGED <<path, evicted, backup, mem, saved, file, tmp, dumped, straggled>>
  BY DEF Register, rows, disk, history
<1>2. Active(i) /\ Holding(i) /\ i \notin dumped
  BY <1>0, <1>1 DEF Active, Holding, RowsInv
<1>3. PICK s \in {"up", "last"} : Goto(i, s)
  BY DEF Register
<1>4. /\ stage'[i] = s /\ \A j \in Ids : j # i => stage'[j] = stage[j]
      /\ \A j \in Ids : Active(j)' => Active(j)
      /\ \A j \in Ids : stage[j] \in {"last", "second", "closed"} =>
                           stage'[j] \in {"last", "second", "closed"}
  <2>1. s \in Stages /\ stage[i] \notin {"last", "second"}
    BY <1>1 DEF Stages
  <2> QED BY <1>2, <1>3, <2>1, StageGoes
<1>5. HookInv' /\ SingleInv'
  BY <1>0, <1>1, <1>4 DEF HookInv, SingleInv, shutdown
<1>6. LocatedInv'
  <2> SUFFICES ASSUME NEW j \in Ids, Active(j)'
               PROVE  \/ INSTANCES'[path[j]] = j \/ booting'[path[j]] = j
                      \/ j \in evicted
    BY <1>1 DEF LocatedInv
  <2>1. /\ Active(j) /\ path[j] \in Paths /\ path[i] \in Paths
        /\ INSTANCES \in [Paths -> Ids \cup {None}]
        /\ booting \in [Paths -> Ids \cup {None}]
    BY <1>0, <1>1, <1>4, FileOfInstance DEF Active, TypeOK
  <2>2. CASE UNCHANGED <<INSTANCES, booting>>
    BY <1>0, <2>1, <2>2 DEF LocatedInv
  <2>3. CASE /\ INSTANCES' = [INSTANCES EXCEPT ![path[i]] = i]
             /\ booting' = [booting EXCEPT ![path[i]] = None]
    <3>1. CASE j = i
      BY <2>1, <2>3, <3>1
    <3>2. CASE j # i
      <4>1. path[j] # path[i]
        BY <1>0, <1>2, <2>1, <3>2 DEF SingleInv
      <4>2. /\ INSTANCES'[path[j]] = INSTANCES[path[j]]
            /\ booting'[path[j]] = booting[path[j]]
        BY <2>1, <2>3, <4>1
      <4> QED BY <1>0, <2>1, <4>2 DEF LocatedInv
    <3> QED BY <3>1, <3>2
  <2> QED BY <2>2, <2>3 DEF Register
<1>7. RowsInv'
  BY <1>0, <1>1, <1>4, RowsLeft
<1>8. ASSUME NEW f \in Files \ straggled PROVE FileInv(f)'
  <2>1. FileInv(f)
    BY <1>8 DEF CareInv
  <2>2. \A j \in Ids : j # i => LeftAlone(j)
    BY <1>1, <1>4 DEF LeftAlone
  <2>3. stage[i] \notin Dumping /\ stage'[i] \notin Dumping /\ stage'[i] # "unused"
    BY <1>1, <1>4 DEF Dumping
  <2>4. File(i) = f => file[f].rows \subseteq saved[i] /\ backup[i] # "dump"
    BY <1>1, <1>2, <2>1 DEF FileInv, Uses
  <2> QED BY <1>0, <1>1, <1>2, <2>1, <2>2, <2>3, <2>4, SameFile
<1> QED BY <1>1, <1>5, <1>6, <1>7, <1>8 DEF CareInv

\* close() begins, a client inserts a row or the scheduler's timer fires: no
\* dump begins or ends.
LEMMA CareInUse ==
    ASSUME CareInv, TypeOK', NEW i \in Ids,
           CloseBegin(i) \/ BackupFire(i) \/ \E r \in Rows : Insert(i, r)
    PROVE  CareInv'
<1>0. TypeOK /\ LocatedInv /\ SingleInv /\ HookInv /\ RowsInv
  BY DEF CareInv
<1>1. /\ stage[i] \in {"up", "closing"} /\ UNCHANGED registry /\ UNCHANGED shutdown
      /\ UNCHANGED <<path, saved, file, tmp, dumped, straggled>>
  BY DEF CloseBegin, BackupFire, Insert, registry, rows, disk, history
<1>2. /\ stage'[i] \in {"up", "closing"}
      /\ backup[i] = "dump" <=> backup'[i] = "dump"
      /\ \A j \in Ids : j # i => /\ stage'[j] = stage[j] /\ backup'[j] = backup[j]
                                 /\ mem'[j] = mem[j]
      /\ mem[i] \subseteq mem'[i]
  <2>0. /\ stage \in [Ids -> Stages] /\ backup \in [Ids -> {"idle", "lock", "dump"}]
        /\ mem \in [Ids -> SUBSET Rows]
    BY <1>0 DEF TypeOK
  <2>1. CASE CloseBegin(i)
    BY <2>0, <2>1 DEF CloseBegin, Goto, rows
  <2>2. CASE BackupFire(i)
    BY <1>1, <2>0, <2>2 DEF BackupFire, BackupGoes, rows
  <2>3. CASE \E r \in Rows : Insert(i, r)
    BY <1>1, <2>0, <2>3 DEF Insert
  <2> QED BY <2>1, <2>2, <2>3
<1>3. Active(i) /\ Holding(i) /\ i \notin dumped
  BY <1>0, <1>1 DEF Active, Holding, RowsInv
<1>4. \A j \in Ids : Active(j)' => Active(j)
  BY <1>2, <1>3 DEF Active
<1>5. LocatedInv' /\ SingleInv' /\ HookInv'
  BY <1>0, <1>1, <1>4, StillLocated
<1>6. RowsInv'
  <2>1. \A j \in Ids : stage[j] \in {"last", "second", "closed"} => j # i
    BY <1>1
  <2> QED BY <1>0, <1>1, <1>2, <2>1, RowsLeft
<1>7. ASSUME NEW f \in Files \ straggled PROVE FileInv(f)'
  <2>1. FileInv(f)
    BY <1>7 DEF CareInv
  <2>2. \A j \in Ids : j # i => LeftAlone(j)
    BY <1>1, <1>2 DEF LeftAlone
  <2>3. stage[i] \notin Dumping /\ stage'[i] \notin Dumping /\ stage'[i] # "unused"
    BY <1>1, <1>2 DEF Dumping
  <2>4. File(i) = f => file[f].rows \subseteq saved[i]
    BY <1>1, <1>3, <2>1 DEF FileInv, Uses
  <2> QED BY <1>0, <1>1, <1>2, <1>3, <2>1, <2>2, <2>3, <2>4, SameFile
<1> QED BY <1>1, <1>5, <1>6, <1>7 DEF CareInv

\* close() or PGLite.close begins to dump, alone unless a scheduler's thread
\* has straggled to the file.
LEMMA CareDumpBegin ==
    ASSUME PathsApart, CareInv, TypeOK', NEW i \in Ids, DumpBegin(i)
    PROVE  CareInv'
<1> DEFINE w == <<i, "closer">>
<1>0. TypeOK /\ LocatedInv /\ SingleInv /\ HookInv /\ RowsInv
  BY DEF CareInv
<1>1. /\ UNCHANGED registry /\ UNCHANGED shutdown /\ OpenTmp(w)
      /\ UNCHANGED <<path, backup, mem, saved, file, dumped, straggled>>
  BY DEF DumpBegin, registry, rows, history
<1>2. /\ w \in Threads /\ w[1] = i /\ w[2] = "closer"
      /\ <<i, "backup">>[1] = i /\ <<i, "backup">>[2] = "backup"
  BY DEF Threads
<1>3. /\ stage[i] \in {"closing", "last"} /\ Active(i) /\ Holding(i)
      /\ stage[i] = "closing" => backup[i] # "dump"
  BY DEF DumpBegin, Active, Holding
<1>4. PICK s \in Dumping : Goto(i, s) /\ (stage[i] = "last" => s = "second")
  BY DEF DumpBegin, Dumping
<1>5. /\ stage'[i] = s /\ \A j \in Ids : j # i => stage'[j] = stage[j]
      /\ \A j \in Ids : Active(j)' => Active(j)
      /\ \A j \in Ids : stage[j] \in {"last", "second", "closed"} =>
                           stage'[j] \in {"last", "second", "closed"}
  <2>1. s \in Stages
    BY DEF Stages
  <2> QED BY <1>3, <1>4, <2>1, StageGoes
<1>6. LocatedInv' /\ SingleInv' /\ HookInv'
  BY <1>0, <1>1, <1>5, StillLocated
<1>7. RowsInv'
  BY <1>0, <1>1, <1>5, RowsLeft
<1>8. File(i) \in Files /\ stage[i] # "unused" /\ stage'[i] # "unused"
  BY <1>0, <1>3, <1>5, FileOfInstance DEF Dumping
<1>9. \A f \in Files : f # File(i) => tmp'[f] = tmp[f]
  BY <1>0, <1>1, <1>2, <1>8, OpenedTmp
<1>10. ASSUME NEW f \in Files \ straggled, f # File(i) PROVE FileInv(f)'
  <2>1. \A j \in Ids : j # i => LeftAlone(j)
    BY <1>1, <1>5 DEF LeftAlone
  <2> QED BY <1>0, <1>1, <1>8, <1>9, <1>10, <2>1, OtherFiles DEF CareInv
<1>11. ASSUME NEW f \in Files \ straggled, f = File(i) PROVE FileInv(f)'
  <2>1. FileInv(f) /\ Uses(i, f) /\ stage[i] # "restore"
    BY <1>3, <1>11 DEF CareInv, Uses
  <2>2. backup[i] # "dump"
    BY <1>3, <2>1 DEF FileInv
  <2>3. ~Dumps(<<i, "backup">>) /\ ~Dumps(w)
    BY <1>2, <1>3, <2>2 DEF Dumps, Dumping
  <2>4. Dumps(w)' /\ \A v \in Threads : v[1] = i /\ v # w => ~Dumps(v)'
    <3>1. \A v \in Threads : v[1] = i /\ v # w => v[2] = "backup"
      BY ThreadParts
    <3> QED BY <1>1, <1>2, <1>5, <2>2, <3>1 DEF Dumps
  <2>5. /\ Uses(w[1], f) /\ Active(w[1]) /\ stage[w[1]] # "restore"
        /\ ~Dumps(<<w[1], "backup">>) /\ ~Dumps(<<w[1], "closer">>)
        /\ \A j \in Ids : j # w[1] => stage'[j] = stage[j] /\ backup'[j] = backup[j]
        /\ \A v \in Threads : v[1] = w[1] /\ v # w => ~Dumps(v)'
        /\ stage'[w[1]] # "unused" /\ backup'[w[1]] # "dump"
    BY <1>1, <1>2, <1>3, <1>5, <1>8, <2>1, <2>2, <2>3, <2>4
  <2> HIDE DEF w
  <2> QED BY <1>0, <1>1, <1>2, <2>1, <2>4, <2>5, FileOpened
<1> QED BY <1>1, <1>6, <1>7, <1>10, <1>11 DEF CareInv

\* The scheduler's thread gets pgLock, and dumps alone or counts as straggling.
LEMMA CareBackup ==
    ASSUME PathsApart, CareInv, TypeOK', NEW i \in Ids, BackupLock(i) \/ BackupLate(i)
    PROVE  CareInv'
<1> DEFINE w == <<i, "backup">>
<1>0. TypeOK /\ LocatedInv /\ SingleInv /\ HookInv /\ RowsInv
  BY DEF CareInv
<1>1. /\ UNCHANGED registry /\ UNCHANGED shutdown /\ backup[i] = "lock"
      /\ UNCHANGED <<path, stage, mem, saved, file, dumped>>
      /\ straggled \subseteq straggled'
  BY DEF BackupLock, BackupLate, registry, rows
<1>2. /\ w \in Threads /\ w[1] = i /\ w[2] = "backup"
      /\ <<i, "closer">>[1] = i /\ <<i, "closer">>[2] = "closer"
  BY DEF Threads
<1>3. \A j \in Ids : j # i => backup'[j] = backup[j]
  BY <1>0 DEF BackupLock, BackupLate, BackupGoes, TypeOK
<1>4. LocatedInv' /\ SingleInv' /\ HookInv'
  BY <1>0, <1>1, StillLocated DEF Active
<1>5. RowsInv'
  BY <1>0, <1>1, RowsLeft
<1>6. stage[i] # "unused" /\ File(i) \in Files
  BY <1>0, <1>1, FileOfInstance DEF TypeOK
<1>7. \A f \in Files : f # File(i) => tmp'[f] = tmp[f]
  BY <1>0, <1>2, <1>6, OpenedTmp, LateTmp DEF BackupLock
<1>8. ASSUME NEW f \in Files \ straggled', f # File(i) PROVE FileInv(f)'
  <2>1. \A j \in Ids : j # i => LeftAlone(j)
    BY <1>1, <1>3 DEF LeftAlone
  <2> QED BY <1>0, <1>1, <1>6, <1>7, <1>8, <2>1, OtherFiles DEF CareInv
<1>9. ASSUME NEW f \in Files \ straggled', f = File(i) PROVE FileInv(f)'
  <2>1. BackupLock(i) /\ stage[i] \in {"up", "closing"}
    BY <1>9 DEF BackupLock, BackupLate
  <2>2. FileInv(f) /\ Uses(i, f) /\ Active(i) /\ stage[i] # "restore"
    BY <1>1, <1>9, <2>1 DEF CareInv, Uses, Active
  <2>3. ~Dumps(<<i, "closer">>) /\ ~Dumps(w) /\ OpenTmp(w)
    BY <1>1, <1>2, <2>1 DEF Dumps, Dumping, BackupLock
  <2>4. backup'[i] = "dump"
    BY <1>0, <2>1 DEF BackupLock, BackupGoes, TypeOK
  <2>5. Dumps(w)' /\ \A v \in Threads : v[1] = i /\ v # w => ~Dumps(v)'
    <3>1. \A v \in Threads : v[1] = i /\ v # w => v[2] = "closer"
      BY ThreadParts
    <3> QED BY <1>1, <1>2, <2>1, <2>4, <3>1 DEF Dumps, Dumping
  <2>6. /\ Uses(w[1], f) /\ Active(w[1]) /\ stage[w[1]] # "restore"
        /\ ~Dumps(<<w[1], "backup">>) /\ ~Dumps(<<w[1], "closer">>)
        /\ \A j \in Ids : j # w[1] => stage'[j] = stage[j] /\ backup'[j] = backup[j]
        /\ \A v \in Threads : v[1] = w[1] /\ v # w => ~Dumps(v)'
        /\ stage'[w[1]] \in {"up", "closing"}
    BY <1>1, <1>2, <1>3, <2>1, <2>2, <2>3, <2>5
  <2> HIDE DEF w
  <2> QED BY <1>0, <1>1, <1>2, <2>2, <2>3, <2>5, <2>6, FileOpened
<1> QED BY <1>4, <1>5, <1>8, <1>9 DEF CareInv

\* A dump ends, or fails.
LEMMA CareDumped ==
    ASSUME PathsApart, CareInv, TypeOK', NEW w \in Threads, DumpEnd(w) \/ DumpFails(w)
    PROVE  CareInv'
<1> DEFINE i == w[1]
<1>0. TypeOK /\ LocatedInv /\ SingleInv /\ HookInv /\ RowsInv
  BY DEF CareInv
<1>1. /\ UNCHANGED registry /\ UNCHANGED shutdown /\ Dumps(w)
      /\ UNCHANGED <<path, mem, straggled>>
  BY DEF DumpEnd, DumpFails, registry, rows, history
<1>2. i \in Ids /\ stage[i] # "unused" /\ File(i) \in Files /\ w[2] \in {"backup", "closer"}
  BY <1>0, <1>1, DumperUses, ThreadParts
<1>3. PICK s \in {"last", "closed", "failed"} :
          GoesOnTo(w, s) /\ (stage[i] = "second" => s = "closed")
                         /\ (s = "failed" => DumpFails(w))
  BY DEF DumpEnd, DumpFails, AfterFailure, After
<1>4. /\ \A j \in Ids : j # i => stage'[j] = stage[j] /\ backup'[j] = backup[j]
      /\ w[2] = "backup" => backup'[i] = "idle" /\ stage' = stage
      /\ w[2] = "closer" => /\ stage'[i] = s /\ backup' = backup
                            /\ stage[i] \in {"final", "second"}
  <2>1. s \in Stages \ {"unused"}
    BY DEF Stages
  <2> QED BY <1>0, <1>1, <1>3, <2>1, GoingOn DEF Dumps, Dumping
<1>5. \A j \in Ids : Active(j)' => Active(j)
  BY <1>2, <1>4 DEF Active
<1>6. LocatedInv' /\ SingleInv' /\ HookInv'
  BY <1>0, <1>1, <1>5, StillLocated
<1>7. /\ \A j \in Ids : j # i => saved'[j] = saved[j] /\ (j \in dumped' <=> j \in dumped)
      /\ saved'[i] \subseteq mem[i]
      /\ i \in dumped' => i \in dumped \/ (w[2] = "closer" /\ s # "failed")
      /\ \A f \in Files : f # File(i) => tmp'[f] = tmp[f] /\ file'[f] = file[f]
  <2>0. saved[i] \subseteq mem[i]
    BY <1>0, <1>2 DEF RowsInv
  <2>1. CASE DumpFails(w)
    BY <1>0, <2>0, <2>1, FailedTmp DEF DumpFails, rows, history
  <2>2. CASE DumpEnd(w)
    <3>1. PICK S \in {saved[i], mem[i]} :
              /\ MoveTmp(w, S) /\ saved' = [saved EXCEPT ![i] = S]
              /\ dumped' = IF w[2] = "closer" /\ S = mem[i] THEN dumped \cup {i} ELSE dumped
      BY <2>2 DEF DumpEnd
    <3>2. saved'[i] = S /\ \A j \in Ids : j # i => saved'[j] = saved[j]
      BY <1>0, <1>2, <3>1 DEF TypeOK
    <3>3. \A f \in Files : f # File(i) => tmp'[f] = tmp[f] /\ file'[f] = file[f]
      BY <1>0, <1>2, <3>1 DEF MoveTmp, TypeOK
    <3>4. w[2] = "closer" => stage'[i] \in {"last", "closed"}
      BY <1>0, <1>2, <2>2 DEF DumpEnd, GoesOnTo, Goto, After, TypeOK
    <3> QED BY <1>4, <2>0, <3>1, <3>2, <3>3, <3>4
  <2> QED BY <2>1, <2>2
<1>8. RowsInv'
  BY <1>0, <1>1, <1>2, <1>3, <1>4, <1>7 DEF RowsInv
<1>9. ASSUME NEW f \in Files \ straggled, f # File(i) PROVE FileInv(f)'
  <2>1. \A j \in Ids : j # i => LeftAlone(j)
    BY <1>1, <1>4, <1>7 DEF LeftAlone
  <2>2. FileInv(f) /\ tmp'[f] = tmp[f] /\ file'[f] = file[f]
    BY <1>7, <1>9 DEF CareInv
  <2> QED BY <1>0, <1>1, <1>2, <1>9, <2>1, <2>2, OtherFiles
<1>10. ASSUME NEW f \in Files \ straggled, f = File(i) PROVE FileInv(f)'
  <2>1. FileInv(f) /\ Uses(i, f)
    BY <1>2, <1>10 DEF CareInv, Uses
  <2> QED BY <1>1, <2>1, FileClosed
<1> QED BY <1>1, <1>6, <1>8, <1>9, <1>10 DEF CareInv

\* Steps that leave all instances and files alone.
LEMMA CareLeft ==
    ASSUME CareInv, TypeOK', LocatedInv', HookInv',
           UNCHANGED <<path, stage, backup, mem, saved, file, tmp, dumped, straggled>>
    PROVE  CareInv'
<1>0. TypeOK /\ SingleInv /\ RowsInv
  BY DEF CareInv
<1>1. SingleInv' /\ RowsInv'
  BY <1>0 DEF SingleInv, RowsInv, Active
<1>2. ASSUME NEW f \in Files \ straggled PROVE FileInv(f)'
  <2>1. \A j \in Ids : LeftAlone(j)
    BY DEF LeftAlone
  <2> QED BY <1>0, <1>2, <2>1, FileLeft DEF CareInv
<1> QED BY <1>1, <1>2 DEF CareInv

\* Every step of a careful application keeps the invariant.
LEMMA CareStep ==
    ASSUME Careful, PathsApart, CareInv, [Next]_vars
    PROVE  CareInv'
<1> USE DEF registry, shutdown, rows, disk, history
<1>t. TypeOK /\ TypeOK'
  BY TypeStep DEF CareInv
<1>i. LocatedInv /\ SingleInv /\ HookInv
  BY DEF CareInv
<1>b. \A i \in Ids : Active(i) => path[i] \in Paths /\ i \notin Ended
  BY <1>t, FileOfInstance DEF Active, Ended
<1>1. ASSUME NEW p \in Paths, Evict(p) PROVE CareInv'
  <2>1. /\ INSTANCES' = [INSTANCES EXCEPT ![p] = None]
        /\ evicted' = evicted \cup {INSTANCES[p]} /\ ~hook
        /\ UNCHANGED <<booting, path, stage, backup, mem, saved, hook, file, tmp,
                       dumped, straggled>>
    BY <1>1 DEF Evict
  <2>2. INSTANCES \in [Paths -> Ids \cup {None}]
    BY <1>t DEF TypeOK
  <2>3. LocatedInv'
    BY <1>b, <1>i, <2>1, <2>2 DEF LocatedInv, Active
  <2>4. HookInv'
    BY <2>1 DEF HookInv
  <2> QED BY <1>t, <2>1, <2>3, <2>4, CareLeft
<1>2. ASSUME NEW p \in Paths, NEW i \in Ids, Connect(p, i) PROVE CareInv'
  BY <1>2, <1>t, CareConnect
<1>3. ASSUME NEW i \in Ids, Restore(i) PROVE CareInv'
  BY <1>3, <1>t, CareRestore
<1>4. ASSUME NEW i \in Ids, Register(i) PROVE CareInv'
  BY <1>4, <1>t, CareRegister
<1>5. ASSUME NEW i \in Ids, CloseBegin(i) \/ BackupFire(i) \/ \E r \in Rows : Insert(i, r)
      PROVE  CareInv'
  BY <1>5, <1>t, CareInUse
<1>6. ASSUME NEW i \in Ids, DumpBegin(i) PROVE CareInv'
  BY <1>6, <1>t, CareDumpBegin
<1>7. ASSUME NEW i \in Ids, BackupLock(i) \/ BackupLate(i) PROVE CareInv'
  BY <1>7, <1>t, CareBackup
<1>8. ASSUME NEW w \in Threads, DumpEnd(w) \/ DumpFails(w) PROVE CareInv'
  BY <1>8, <1>t, CareDumped
<1>9. ASSUME NEW i \in Ids, HookNext(i) \/ HookReturns(i) PROVE CareInv'
  <2>1. /\ hookNow' = IF HookNext(i) THEN i ELSE None
        /\ HookNext(i) => hookLeft' = hookLeft \ {i}
        /\ ~HookNext(i) => hookLeft' = hookLeft /\ hookNow \in Ended
        /\ UNCHANGED <<INSTANCES, booting, path, evicted, stage, backup, mem, saved, hook,
                       file, tmp, dumped, straggled>>
        /\ HookNext(i) => hookNow = None
    BY <1>9 DEF HookNext, HookReturns, GoesOn
  <2>2. LocatedInv'
    BY <1>i, <2>1 DEF LocatedInv, Active
  <2>3. HookInv'
    <3> SUFFICES ASSUME hook, NEW j \in Ids, Active(j) PROVE j \in hookLeft' \cup {hookNow'}
      BY <2>1 DEF HookInv, Active
    <3>1. j \in hookLeft \cup {hookNow} /\ j # None /\ j \notin Ended
      BY <1>b, <1>i, ConstantsAssumption DEF HookInv
    <3> QED BY <2>1, <3>1
  <2> QED BY <1>t, <2>1, <2>2, <2>3, CareLeft
<1>10. CASE HookBegin
  <2>1. /\ \A p \in Paths : booting[p] \in Ended \cup {None}
        /\ evicted \subseteq Ended /\ hookLeft' = Registered
        /\ UNCHANGED <<INSTANCES, booting, path, evicted, stage, backup, mem, saved,
                       hookNow, file, tmp, dumped, straggled>>
    BY <1>10 DEF HookBegin
  <2>2. LocatedInv'
    BY <1>i, <2>1 DEF LocatedInv, Active
  <2>3. HookInv'
    <3> SUFFICES ASSUME NEW j \in Ids, Active(j) PROVE j \in Registered
      BY <2>1 DEF HookInv, Active
    <3>1. path[j] \in Paths /\ j # None /\ j \notin Ended
      BY <1>b, ConstantsAssumption
    <3>2. INSTANCES[path[j]] = j
      BY <1>i, <2>1, <3>1 DEF LocatedInv
    <3> QED BY <3>1, <3>2 DEF Registered
  <2> QED BY <1>t, <2>1, <2>2, <2>3, CareLeft
<1>11. CASE Exit
  <2>1. \A i \in Ids : stage'[i] = "unused" /\ saved'[i] = {} /\ i \notin dumped'
    BY <1>11 DEF Exit
  <2>2. LocatedInv' /\ SingleInv' /\ HookInv' /\ RowsInv'
    BY <2>1 DEF LocatedInv, SingleInv, HookInv, RowsInv, Active
  <2>3. ASSUME NEW f \in Files \ straggled' PROVE FileInv(f)'
    <3>1. tmp'[f].writers = {} /\ ~file'[f].torn
      BY <1>11, <2>3 DEF Exit, CareInv, FileInv
    <3>2. \A i \in Ids : ~Uses(i, f)'
      BY <2>1 DEF Uses
    <3>3. \A w \in Threads : w[1] \in Ids
      BY ThreadParts
    <3> QED BY <3>1, <3>2, <3>3 DEF FileInv
  <2> QED BY <1>t, <2>2, <2>3 DEF CareInv
<1>12. CASE UNCHANGED vars
  <2>1. LocatedInv' /\ HookInv'
    BY <1>12, <1>i DEF vars, LocatedInv, HookInv, Active
  <2> QED BY <1>12, <1>t, <2>1, CareLeft DEF vars
<1> QED
  BY <1>1, <1>2, <1>3, <1>4, <1>5, <1>6, <1>7, <1>8, <1>9, <1>10, <1>11, <1>12 DEF Next

LEMMA CareInvariance ==
    ASSUME Careful, PathsApart
    PROVE  Spec => []CareInv
  BY CareInit, CareStep, PTL DEF Spec

\* No step of a careful application takes a row out of a file nobody has
\* straggled to.
LEMMA GrowStep ==
    ASSUME PathsApart, CareInv, [Next]_vars, NEW f \in Files, f \notin straggled
    PROVE  file[f].rows \subseteq file'[f].rows
<1>1. CASE \E w \in Threads : DumpEnd(w)
  <2>1. PICK w \in Threads : DumpEnd(w)
    BY <1>1
  <2>2. Dumps(w) /\ w[1] \in Ids /\ stage[w[1]] # "unused" /\ File(w[1]) \in Files
    BY <2>1, DumperUses DEF DumpEnd, CareInv
  <2>3. CASE File(w[1]) = f
    <3>1. Uses(w[1], f) /\ FileInv(f)
      BY <2>2, <2>3 DEF Uses, CareInv
    <3> QED BY <2>1, <2>2, <3>1, FileClosed
  <2>4. CASE File(w[1]) # f
    <3>1. file'[f] = file[f]
      BY <2>1, <2>2, <2>4 DEF DumpEnd, MoveTmp, CareInv, TypeOK
    <3> QED BY <3>1
  <2> QED BY <2>3, <2>4
<1>2. CASE ~\E w \in Threads : DumpEnd(w)
  <2>1. file' = file
    BY <1>2 DEF Next, vars, disk, Evict, Connect, Restore, Register, CloseBegin, DumpBegin,
       BackupFire, BackupLock, BackupLate, HookNext, HookReturns, Insert, DumpFails,
       HookBegin, Exit
  <2> QED BY <2>1
<1> QED BY <1>1, <1>2

\* At the end of the shutdown hook every instance has ended, and what was
\* dumped for it is in its file.
LEMMA ExitStep ==
    ASSUME CareInv, [Next]_vars, hook, ~hook', NEW i \in Ids, stage[i] # "unused"
    PROVE  /\ i \in Ended
           /\ i \in dumped => mem[i] \subseteq file[File(i)].rows \/ File(i) \in straggled
<1>1. hookLeft = {} /\ hookNow = None
  BY DEF Next, vars, shutdown, Evict, Connect, Restore, Register, CloseBegin, DumpBegin,
     BackupFire, BackupLock, BackupLate, HookNext, HookReturns, Insert, DumpEnd, DumpFails,
     HookBegin, Exit
<1>2. ~Active(i)
  BY <1>1, ConstantsAssumption DEF CareInv, HookInv
<1>3. i \in Ended
  BY <1>2 DEF Active, Ended
<1>4. File(i) \in Files
  BY FileOfInstance DEF CareInv
<1>5. ASSUME File(i) \notin straggled, i \in dumped PROVE mem[i] \subseteq file[File(i)].rows
  <2>1. FileInv(File(i)) /\ Uses(i, File(i))
    BY <1>4, <1>5 DEF CareInv, Uses
  <2> QED BY <1>5, <2>1 DEF FileInv
<1> QED BY <1>3, <1>5

\* In an application that evicts carefully, and whose paths name different
\* files, no data file is torn, however many instances come and go and however
\* their boots and dumps fail, unless a scheduler's thread of an instance of
\* that file got pgLock after close()'s own dump.
THEOREM CarefulFilesWhole ==
    ASSUME Careful, PathsApart
    PROVE  Spec => []FilesWhole
<1>1. CareInv => FilesWhole
  BY DEF CareInv, FileInv, FilesWhole
<1> QED BY <1>1, CareInvariance, PTL

\* Under the same conditions no dump takes rows out of such a data file.
THEOREM CarefulFilesGrow ==
    ASSUME Careful, PathsApart
    PROVE  Spec => FilesGrow
<1>1. CareInv /\ [Next]_vars =>
         [\A f \in Files : f \in straggled \/ file[f].rows \subseteq file'[f].rows]_vars
  BY GrowStep
<1> QED BY <1>1, CareInvariance, PTL DEF Spec, FilesGrow

\* Under the same conditions, when the JVM exits close() has ended for every
\* instance that was used, and the rows of those for which a dump of close()
\* did its work are in such data files.
THEOREM CarefulShutdownSavesAll ==
    ASSUME Careful, PathsApart
    PROVE  Spec => ShutdownSavesAll
<1>1. CareInv /\ [Next]_vars =>
         [hook /\ ~hook' => \A i \in Ids : stage[i] # "unused" =>
            /\ i \in Ended
            /\ i \in dumped => \/ mem[i] \subseteq file[File(i)].rows
                               \/ File(i) \in straggled]_vars
  BY ExitStep
<1> QED BY <1>1, CareInvariance, PTL DEF Spec, ShutdownSavesAll
=============================================================================
