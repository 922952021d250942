--------------------------- MODULE WasiPortProofs ---------------------------
(***************************************************************************)
(* Proofs about the loader, the temporary files and the processes of the   *)
(* WASI port, and the types of all parts together.                         *)
(***************************************************************************)
EXTENDS WasiPort, SdkSocketProofs, SignalsProofs, TLAPS
-----------------------------------------------------------------------------
\* The loader.
LoaderInv == LoaderTypeOK /\ InitOnce

\* The invariant holds before the first library is opened.
LEMMA LoaderInvInit == LoaderInit => LoaderInv
<1> SUFFICES ASSUME LoaderInit PROVE LoaderInv OBVIOUS
<1>1. LoaderTypeOK
  BY DEF LoaderInit, LoaderTypeOK
<1>2. InitOnce
  BY LoaderAssumption DEF LoaderInit, InitOnce
<1> QED BY <1>1, <1>2 DEF LoaderInv

\* Every step of dlopen(), dfmgr and dlsym() keeps the invariant.
LEMMA LoaderInvStep == LoaderInv /\ [LoaderNext]_loaderVars => LoaderInv'
<1> SUFFICES ASSUME LoaderInv, [LoaderNext]_loaderVars PROVE LoaderInv' OBVIOUS
<1>1. ASSUME NEW lib \in Library, Dlopen(lib) PROVE LoaderInv'
  <2> DEFINE new == dltab_index + 1
  <2>1. /\ file_list[lib] = 0 /\ inits' = inits + InitCalls(lib)
        /\ dltab_index' = new /\ overrun' \in BOOLEAN
        /\ file_list' = [file_list EXCEPT ![lib] = new]
        /\ opening' = lib /\ UNCHANGED <<pydk, found, trapped>>
    BY <1>1 DEF Dlopen, Asks
  <2>2. /\ new \in Nat /\ new # 0 /\ file_list \in [Library -> Nat]
        /\ inits \in Nat /\ InitCalls(lib) \in Nat
    BY DEF LoaderInv, LoaderTypeOK, InitCalls
  <2>3. LoaderTypeOK'
    BY <2>1, <2>2 DEF LoaderInv, LoaderTypeOK
  <2>4. InitOnce'
    <3>1. CASE lib = Plpgsql
      BY <2>1, <2>2, <3>1, LoaderAssumption
         DEF LoaderInv, InitOnce, InitCalls
    <3>2. CASE lib # Plpgsql
      BY <2>1, <2>2, <3>2, LoaderAssumption
         DEF LoaderInv, InitOnce, InitCalls
    <3> QED BY <3>1, <3>2
  <2> QED BY <2>3, <2>4 DEF LoaderInv
<1>2. ASSUME NEW lib \in Library, DlopenNull(lib) PROVE LoaderInv'
  BY <1>2 DEF DlopenNull, InitsNot, table, LoaderInv, LoaderTypeOK, InitOnce
<1>3. ASSUME NEW lib \in Library, DlopenTraps(lib) PROVE LoaderInv'
  BY <1>3 DEF DlopenTraps, table, LoaderInv, LoaderTypeOK, InitOnce
<1>4. CASE Initialise
  <2>1. Dlsym("_PG_init") # "_PG_init"
    BY DEF Dlsym, Stub, Listed
  <2> QED
    BY <1>4, <2>1 DEF Initialise, table, LoaderInv, LoaderTypeOK, InitOnce
<1>5. ASSUME NEW lib \in Library, NEW f \in DOMAIN Finfo, LookUp(lib, f)
      PROVE  LoaderInv'
  <2>1. f \in OfPlpgsql => inits = 1
    BY <1>5 DEF LookUp, LoaderInv, InitOnce
  <2>2. found' = found \/ found' = found \cup {f}
    BY <1>5 DEF LookUp
  <2> QED
    BY <1>5, <2>1, <2>2 DEF LookUp, table, LoaderInv, LoaderTypeOK, InitOnce
<1>6. CASE UNCHANGED loaderVars
  BY <1>6 DEF loaderVars, table, LoaderInv, LoaderTypeOK, InitOnce
<1> QED BY <1>1, <1>2, <1>3, <1>4, <1>5, <1>6 DEF LoaderNext

\* Hence it holds in every reachable state.
LEMMA LoaderInvariance == LoaderSpec => []LoaderInv
  BY LoaderInvInit, LoaderInvStep, PTL DEF LoaderSpec

\* Every variable of the loader keeps its type.
THEOREM LoaderTypeCorrect == LoaderSpec => []LoaderTypeOK
<1>1. LoaderInv => LoaderTypeOK
  BY DEF LoaderInv
<1> QED BY <1>1, LoaderInvariance, PTL

\* plpgsql's _PG_init runs exactly once, before any of its functions is called,
\* for any number of libraries, up to the point where a table is written over
\* something else.
THEOREM LoaderInitsOnce == LoaderSpec => []InitOnce
<1>1. LoaderInv => InitOnce
  BY DEF LoaderInv
<1> QED BY <1>1, LoaderInvariance, PTL
-----------------------------------------------------------------------------
\* Temporary files.  No file has a user whose index has not been reached.
IndexInv ==
    \A i \in 0 .. MaxIndex : i >= shm_index => users[<<"SHM", i>>] = 0

TmpInv == TmpTypeOK /\ OwnFilesKept /\ IndexInv

\* The three kinds of path differ, and each is a path.
LEMMA Paths ==
    /\ \A p \in Temporary : p \in Path /\ \A x : p # <<"SHM", x>> /\ p # <<"shm", x>>
    /\ \A n \in Segment : <<"shm", n>> \in Path /\ <<"shm", n>> \in Shared
    /\ \A i \in 0 .. MaxIndex : <<"SHM", i>> \in Path
  BY DEF Path, Temporary, Shared, Indexed

\* What opening a file does to the invariant, if the file has no user or is
\* exempt.
LEMMA OpenedOwn ==
    ASSUME TmpInv, NEW p \in Path, Opens(p), UNCHANGED <<named, strays>>,
           users[p] = 0 \/ p \in named \cup Shared \cup strays
    PROVE  /\ OwnFilesKept' /\ files' \in SUBSET Path /\ users' \in [Path -> 0 .. 2]
           /\ \A x \in Path : x # p => users'[x] = users[x]
<1>1. /\ users \in [Path -> 0 .. 2] /\ files \in SUBSET Path
      /\ OneMore(users[p]) \in 0 .. 2 /\ (users[p] = 0 => OneMore(users[p]) = 1)
  BY DEF TmpInv, TmpTypeOK, OneMore
<1>2. /\ files' \in SUBSET Path /\ users' \in [Path -> 0 .. 2]
      /\ files' = files \cup {p} /\ users'[p] = OneMore(users[p])
      /\ \A x \in Path : x # p => users'[x] = users[x]
  BY <1>1 DEF Opens
<1>3. OwnFilesKept'
  <2> SUFFICES ASSUME NEW x \in Path \ (named \cup Shared \cup strays)
               PROVE  users'[x] <= 1 /\ (users'[x] = 1 => x \in files')
    BY DEF OwnFilesKept
  <2>1. CASE x = p
    BY <1>1, <1>2, <2>1
  <2>2. CASE x # p
    BY <1>2, <2>2 DEF TmpInv, OwnFilesKept
  <2> QED BY <2>1, <2>2
<1> QED BY <1>2, <1>3

\* What closing a file, and perhaps removing it, does to the invariant.
LEMMA ClosedOwn ==
    ASSUME TmpInv, NEW p \in Path, Closes(p), UNCHANGED <<named, strays>>,
           files' = files \/ files' = files \ {p}
    PROVE  /\ OwnFilesKept' /\ files' \in SUBSET Path /\ users' \in [Path -> 0 .. 2]
           /\ \A x \in Path : users'[x] <= users[x]
<1>1. users \in [Path -> 0 .. 2] /\ files \in SUBSET Path
  BY DEF TmpInv, TmpTypeOK
<1>2. PICK n \in OneLess(users[p]) : users' = [users EXCEPT ![p] = n]
  BY DEF Closes
<1>3. n \in 0 .. 2 /\ n <= users[p] /\ (users[p] <= 1 => n = 0)
  BY <1>1, <1>2 DEF OneLess
<1>4. /\ files' \in SUBSET Path /\ users' \in [Path -> 0 .. 2] /\ users'[p] = n
      /\ \A x \in Path : x # p => users'[x] = users[x]
  BY <1>1, <1>2, <1>3
<1>5. OwnFilesKept'
  <2> SUFFICES ASSUME NEW x \in Path \ (named \cup Shared \cup strays)
               PROVE  users'[x] <= 1 /\ (users'[x] = 1 => x \in files')
    BY DEF OwnFilesKept
  <2>0. users[x] <= 1 /\ (users[x] = 1 => x \in files)
    BY DEF TmpInv, OwnFilesKept
  <2>1. CASE x = p
    BY <1>3, <1>4, <2>0, <2>1
  <2>2. CASE x # p
    BY <1>4, <2>0, <2>2
  <2> QED BY <2>1, <2>2
<1>6. \A x \in Path : users'[x] <= users[x]
  BY <1>1, <1>3, <1>4
<1> QED BY <1>4, <1>5, <1>6

\* What a descriptor of a stream that is NULL does to the invariant.
LEMMA StrayOwn ==
    ASSUME TmpInv, FilenoOfNull, UNCHANGED <<files, named>>
    PROVE  /\ OwnFilesKept' /\ users' \in [Path -> 0 .. 2] /\ strays' \in SUBSET Path
           /\ \A x \in Path : users[x] = 0 => users'[x] = 0
<1>0. users \in [Path -> 0 .. 2] /\ strays \in SUBSET Path
  BY DEF TmpInv, TmpTypeOK
<1>1. CASE UNCHANGED <<users, strays>>
  BY <1>0, <1>1 DEF TmpInv, OwnFilesKept
<1>2. ASSUME NEW p \in Path, users[p] > 0, users' = [users EXCEPT ![p] = OneMore(@)],
             strays' = strays \cup {p}
      PROVE  /\ OwnFilesKept' /\ users' \in [Path -> 0 .. 2] /\ strays' \in SUBSET Path
             /\ \A x \in Path : users[x] = 0 => users'[x] = 0
  <2>1. OneMore(users[p]) \in 0 .. 2 /\ users[p] # 0
    BY <1>0, <1>2 DEF OneMore
  <2>2. users' \in [Path -> 0 .. 2] /\ \A x \in Path : x # p => users'[x] = users[x]
    BY <1>0, <1>2, <2>1
  <2>3. OwnFilesKept'
    BY <1>2, <2>2 DEF TmpInv, OwnFilesKept
  <2> QED BY <1>0, <1>2, <2>1, <2>2, <2>3
<1> QED BY <1>1, <1>2 DEF FilenoOfNull

\* The invariant holds when the first process starts, with whatever files are
\* there.
LEMMA TmpInvInit == TmpInit => TmpInv
<1> SUFFICES ASSUME TmpInit PROVE TmpInv OBVIOUS
<1>1. TmpTypeOK
  <2>1. shm_index \in 0 .. MaxIndex + 1
    BY TempFilesAssumption DEF TmpInit
  <2>2. users \in [Path -> 0 .. 2] /\ files \in SUBSET Path
    BY DEF TmpInit, Path
  <2> QED BY <2>1, <2>2 DEF TmpInit, TmpTypeOK
<1>2. OwnFilesKept
  BY DEF TmpInit, OwnFilesKept
<1>3. IndexInv
  BY Paths DEF TmpInit, IndexInv
<1> QED BY <1>1, <1>2, <1>3 DEF TmpInv

\* Every step keeps the invariant, one step of the proof per action.
LEMMA TmpInvStep == TmpInv /\ [TmpNext]_tmpVars => TmpInv'
<1> SUFFICES ASSUME TmpInv, [TmpNext]_tmpVars PROVE TmpInv' OBVIOUS
<1>a. /\ users \in [Path -> 0 .. 2] /\ files \in SUBSET Path
      /\ shm_index \in 0 .. MaxIndex + 1 /\ MaxIndex \in Nat
      /\ named \in SUBSET Temporary /\ strays \in SUBSET Path /\ shmPath \in BOOLEAN
  BY TempFilesAssumption DEF TmpInv, TmpTypeOK
<1>1. CASE Mkstemp
  <2>1. PICK p \in Temporary \ files :
            Opens(p) /\ UNCHANGED <<shmPath, shm_index, named, strays>>
    BY <1>1 DEF Mkstemp, Fresh
  <2>2. p \in Path /\ (users[p] = 0 \/ p \in named \cup Shared \cup strays)
    BY <1>a, <2>1, Paths DEF TmpInv, OwnFilesKept
  <2>3. /\ OwnFilesKept' /\ files' \in SUBSET Path /\ users' \in [Path -> 0 .. 2]
        /\ \A x \in Path : x # p => users'[x] = users[x]
    BY <2>1, <2>2, OpenedOwn
  <2>4. IndexInv'
    BY <2>1, <2>3, Paths DEF TmpInv, IndexInv
  <2> QED BY <1>a, <2>1, <2>3, <2>4 DEF TmpInv, TmpTypeOK
<1>2. CASE MkstempWild
  <2>1. FilenoOfNull /\ UNCHANGED <<shmPath, shm_index, files, named>>
    BY <1>2 DEF MkstempWild
  <2>2. /\ OwnFilesKept' /\ users' \in [Path -> 0 .. 2] /\ strays' \in SUBSET Path
        /\ \A x \in Path : users[x] = 0 => users'[x] = 0
    BY <2>1, StrayOwn
  <2>3. IndexInv'
    BY <2>1, <2>2, Paths DEF TmpInv, IndexInv
  <2> QED BY <1>a, <2>1, <2>2, <2>3 DEF TmpInv, TmpTypeOK
<1>3. CASE Tempnam
  <2>1. /\ named \subseteq named' /\ named' \in SUBSET Temporary
        /\ UNCHANGED <<shmPath, shm_index, files, users, strays>>
    BY <1>3, <1>a DEF Tempnam, Fresh
  <2>2. OwnFilesKept' /\ IndexInv'
    BY <2>1 DEF TmpInv, OwnFilesKept, IndexInv
  <2> QED BY <1>a, <2>1, <2>2 DEF TmpInv, TmpTypeOK
<1>4. CASE UNCHANGED tmpVars
  BY <1>4 DEF tmpVars, TmpInv, TmpTypeOK, OwnFilesKept, IndexInv
<1>5. CASE NextProcess
  <2>1. /\ shmPath' \in BOOLEAN /\ shm_index' = 0 /\ named' = {} /\ strays' = {}
        /\ files' = files /\ users' = [p \in Path |-> 0]
    BY <1>5 DEF NextProcess
  <2>2. TmpTypeOK'
    <3>1. shm_index' \in 0 .. MaxIndex + 1 /\ users' \in [Path -> 0 .. 2]
      BY <1>a, <2>1
    <3> QED BY <1>a, <2>1, <3>1 DEF TmpTypeOK
  <2>3. OwnFilesKept'
    BY <2>1 DEF OwnFilesKept
  <2>4. IndexInv'
    BY <2>1, Paths DEF IndexInv
  <2> QED BY <2>2, <2>3, <2>4 DEF TmpInv
<1>6. ASSUME NEW p \in Path, CreateNamed(p) PROVE TmpInv'
  <2>1. p \in named /\ Opens(p) /\ UNCHANGED <<shmPath, shm_index, named, strays>>
    BY <1>6 DEF CreateNamed
  <2>2. /\ OwnFilesKept' /\ files' \in SUBSET Path /\ users' \in [Path -> 0 .. 2]
        /\ \A x \in Path : x # p => users'[x] = users[x]
    BY <2>1, OpenedOwn
  <2>3. IndexInv'
    BY <1>a, <2>1, <2>2, Paths DEF TmpInv, IndexInv
  <2> QED BY <1>a, <2>1, <2>2, <2>3 DEF TmpInv, TmpTypeOK
<1>7. ASSUME NEW p \in Path, Unlink(p) \/ ShmUnlink(p) PROVE TmpInv'
  <2>1. /\ Closes(p) /\ UNCHANGED <<shmPath, shm_index, named, strays>>
        /\ files' = files \/ files' = files \ {p}
    BY <1>7 DEF Unlink, ShmUnlink
  <2>2. /\ OwnFilesKept' /\ files' \in SUBSET Path /\ users' \in [Path -> 0 .. 2]
        /\ \A x \in Path : users'[x] <= users[x]
    BY <2>1, ClosedOwn
  <2>3. IndexInv'
    BY <1>a, <2>1, <2>2, Paths DEF TmpInv, IndexInv
  <2> QED BY <1>a, <2>1, <2>2, <2>3 DEF TmpInv, TmpTypeOK
<1>8. ASSUME NEW n \in Segment, ShmOpen(n) PROVE TmpInv'
  <2> DEFINE p == GetShmPath(n)
  <2>1. /\ shm_index \in 0 .. MaxIndex /\ UNCHANGED <<shmPath, named>>
        /\ shm_index' = ShmIndexNext
    BY <1>8, <1>a DEF ShmOpen
  <2>2. shm_index' \in 0 .. MaxIndex + 1 /\ shm_index' >= shm_index
    BY <1>a, <2>1 DEF ShmIndexNext
  <2>3. p \in Path /\ (users[p] = 0 \/ p \in Shared)
    BY <1>a, <2>1, Paths DEF TmpInv, IndexInv, GetShmPath
  <2>4. shmPath => p = <<"SHM", shm_index>> /\ shm_index' = shm_index + 1
    BY <2>1 DEF GetShmPath, ShmIndexNext
  <2>5. ~shmPath => \A i \in 0 .. MaxIndex : <<"SHM", i>> # p
    BY DEF GetShmPath
  <2> HIDE DEF p
  <2>6. CASE Opens(p) /\ UNCHANGED strays
    <3>1. /\ OwnFilesKept' /\ files' \in SUBSET Path /\ users' \in [Path -> 0 .. 2]
          /\ \A x \in Path : x # p => users'[x] = users[x]
      BY <2>1, <2>3, <2>6, OpenedOwn
    <3>2. ASSUME NEW i \in 0 .. MaxIndex, i >= shm_index' PROVE users'[<<"SHM", i>>] = 0
      <4>1. <<"SHM", i>> \in Path /\ <<"SHM", i>> # p
        BY <2>1, <2>4, <2>5, <3>2, Paths
      <4>2. users[<<"SHM", i>>] = 0
        BY <2>1, <2>2, <3>2 DEF TmpInv, IndexInv
      <4> QED BY <3>1, <4>1, <4>2
    <3>3. TmpTypeOK'
      BY <1>a, <2>1, <2>2, <2>6, <3>1 DEF TmpTypeOK
    <3> QED BY <3>1, <3>2, <3>3 DEF TmpInv, IndexInv
  <2>7. CASE FilenoOfNull /\ UNCHANGED files
    <3>1. /\ OwnFilesKept' /\ users' \in [Path -> 0 .. 2] /\ strays' \in SUBSET Path
          /\ \A x \in Path : users[x] = 0 => users'[x] = 0
      BY <2>1, <2>7, StrayOwn
    <3>2. ASSUME NEW i \in 0 .. MaxIndex, i >= shm_index' PROVE users'[<<"SHM", i>>] = 0
      <4>1. users[<<"SHM", i>>] = 0 /\ <<"SHM", i>> \in Path
        BY <2>1, <2>2, <3>2, Paths DEF TmpInv, IndexInv
      <4> QED BY <3>1, <4>1
    <3>3. TmpTypeOK'
      BY <1>a, <2>1, <2>2, <2>7, <3>1 DEF TmpTypeOK
    <3> QED BY <3>1, <3>2, <3>3 DEF TmpInv, IndexInv
  <2> QED BY <1>8, <2>6, <2>7 DEF ShmOpen, p
<1> QED
  BY <1>1, <1>2, <1>3, <1>4, <1>5, <1>6, <1>7, <1>8 DEF TmpNext, Tmpfile

\* Hence it holds in every reachable state.
LEMMA TmpInvariance == TmpSpec => []TmpInv
  BY TmpInvInit, TmpInvStep, PTL DEF TmpSpec

\* Every variable of the temporary files keeps its type.
THEOREM FilesTypeCorrect == TmpSpec => []TmpTypeOK
<1>1. TmpInv => TmpTypeOK
  BY DEF TmpInv
<1> QED BY <1>1, TmpInvariance, PTL

\* A file that mkstemp() has made, and one that SHM has numbered, keeps its one
\* user and its place, unless tempnam() has returned its name too or its
\* descriptor was taken for that of a NULL stream.
THEOREM OwnFilesAreKept == TmpSpec => []OwnFilesKept
<1>1. TmpInv => OwnFilesKept
  BY DEF TmpInv
<1> QED BY <1>1, TmpInvariance, PTL
-----------------------------------------------------------------------------
\* Processes.  The lock file has the pid of a run with one of the settings
\* there have been.
LockInv == lockFile \in {0} \cup {Getpid(e) : e \in wasixPid}

ProcessInv == ProcessTypeOK /\ NotLockedOut /\ LockInv

\* The invariant holds before the first run.
LEMMA ProcessInvInit == ProcessInit => ProcessInv
  BY ProcessAssumption
     DEF ProcessInit, ProcessInv, ProcessTypeOK, NotLockedOut, LockInv

\* Every step keeps the invariant, one step of the proof per action.
LEMMA ProcessInvStep == ProcessInv /\ [ProcessNext]_processVars => ProcessInv'
<1> SUFFICES ASSUME ProcessInv, [ProcessNext]_processVars PROVE ProcessInv' OBVIOUS
<1> USE DEF ProcessInv
<1>1. ASSUME NEW e \in Setting, NEW pe \in Setting, Start(e, pe) PROVE ProcessInv'
  <2>1. /\ wasixPid' = wasixPid \cup {e}
        /\ runs' = runs + 1 /\ runs < MaxRuns /\ base' = 0
    BY <1>1 DEF Start
  <2>2. \/ life' = "up" /\ lockFile' = Getpid(e)
        \/ /\ life' = "refused" /\ lockFile' = lockFile
           /\ lockFile # 0 /\ lockFile # Getpid(e)
    BY <1>1 DEF Start, TakesOver
  <2>3. Getpid(e) \in Nat
    BY ProcessAssumption DEF Getpid
  <2>4. ProcessTypeOK'
    <3>1. runs' \in 0 .. MaxRuns /\ base' \in 0 .. 255
      BY <2>1, ProcessAssumption DEF ProcessTypeOK
    <3> QED BY <2>1, <2>2, <2>3, <3>1 DEF ProcessTypeOK
  <2>5. LockInv'
    BY <2>1, <2>2 DEF LockInv
  <2>6. NotLockedOut'
    <3> SUFFICES ASSUME life' = "refused" PROVE \E d, x \in wasixPid' : d # x
      BY DEF NotLockedOut
    <3>1. lockFile # 0 /\ lockFile # Getpid(e)
      BY <2>2
    <3>2. PICK d \in wasixPid : lockFile = Getpid(d)
      BY <3>1 DEF LockInv
    <3> QED BY <2>1, <3>1, <3>2
  <2> QED BY <2>4, <2>5, <2>6
<1>2. ASSUME NEW ec \in ExitCode, SdkExit(ec) PROVE ProcessInv'
  <2>1. base' \in 0 .. 255
    BY <1>2, ProcessAssumption DEF SdkExit
  <2> QED BY <1>2, <2>1 DEF SdkExit, ProcessTypeOK, NotLockedOut, LockInv
<1>3. CASE Abort
  BY <1>3 DEF Abort, ProcessTypeOK, NotLockedOut, LockInv
<1>4. CASE UNCHANGED processVars
  BY <1>4 DEF processVars, ProcessTypeOK, NotLockedOut, LockInv
<1> QED
  BY <1>1, <1>2, <1>3, <1>4
     DEF ProcessNext, CommandFails, SemaphoreTaken

\* Hence it holds in every reachable state.
LEMMA ProcessInvariance == ProcessSpec => []ProcessInv
  BY ProcessInvInit, ProcessInvStep, PTL DEF ProcessSpec

\* Every variable of the process emulation keeps its type.
THEOREM ProcessTypeCorrect == ProcessSpec => []ProcessTypeOK
<1>1. ProcessInv => ProcessTypeOK
  BY DEF ProcessInv
<1> QED BY <1>1, ProcessInvariance, PTL

\* A run is refused only where two runs had different settings of WASIX_PID: a
\* lock file that was left behind locks out no run of its kind.
THEOREM ProcessNotLockedOut == ProcessSpec => []NotLockedOut
<1>1. ProcessInv => NotLockedOut
  BY DEF ProcessInv
<1> QED BY <1>1, ProcessInvariance, PTL
-----------------------------------------------------------------------------
\* The parts in one specification: a step is one of the part that moves, and
\* leaves the others.
LEMMA PortStep ==
    ASSUME [PortNext]_portVars
    PROVE  /\ [Next]_vars /\ [SigNext]_sigVars /\ [LoaderNext]_loaderVars
           /\ [TmpNext]_tmpVars /\ [ProcessNext]_processVars
           /\ part' = part
  BY DEF PortNext, portVars, SocketMoves, SignalsMove, LoaderMoves, FilesMove,
         ProcessMoves

PortInv ==
    part \in Part /\ SockInv /\ SigInv /\ LoaderInv /\ TmpInv /\ ProcessInv

\* The invariants of the parts hold in every state of that specification.
LEMMA PortInvariance == PortSpec => []PortInv
<1>1. PortInit => PortInv
  BY SockInvInit, SigInvInit, LoaderInvInit, TmpInvInit, ProcessInvInit
     DEF PortInit, PortInv
<1>2. PortInv /\ [PortNext]_portVars => PortInv'
  BY PortStep, SockInvStep, SigInvStep, LoaderInvStep, TmpInvStep, ProcessInvStep
     DEF PortInv
<1> QED BY <1>1, <1>2, PTL DEF PortSpec

\* Every variable of every part keeps its type, whichever part it is that moves.
THEOREM PortTypeCorrect == PortSpec => []PortTypeOK
<1>1. PortInv => PortTypeOK
  BY DEF PortInv, PortTypeOK, SockInv, FilesOK, LookupsOK, TypeOK, SigInv,
         LoaderInv, TmpInv, ProcessInv
<1> QED BY <1>1, PortInvariance, PTL
=============================================================================
