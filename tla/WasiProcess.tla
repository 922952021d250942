---------------------------- MODULE WasiProcess ----------------------------
(***************************************************************************)
(* patch.h, sdk_port.h: what takes the place of processes.  A binary runs  *)
(* several times over one data directory (when the image is built: initdb, *)
(* then the backend), and each run decides with getpid(), getppid() and    *)
(* kill() whether the lock file it finds belongs to a live process.  A     *)
(* dump that PGLite restores is not among the runs: it skips _start.       *)
(***************************************************************************)
EXTENDS Integers

CONSTANTS
    Setting,    \* values of WASIX_PID and WASIX_PPID; 0 when not set
    ExitCode,
    MaxRuns     \* bounds the runs

ASSUME ProcessAssumption ==
    /\ Setting \subseteq Nat /\ ExitCode \subseteq Nat /\ MaxRuns \in Nat

VARIABLES
    life,       \* of the current run
    runs,
    wasixPid,   \* the settings of WASIX_PID that the runs have had
    lockFile,   \* the pid in postmaster.pid; 0 when there is no such file
    base        \* the byte at address 0 of a run, where exit() leaves its code

processVars == <<life, runs, wasixPid, lockFile, base>>

ProcessTypeOK ==
    /\ life \in {"down", "up", "refused"}
    /\ runs \in 0 .. MaxRuns
    /\ wasixPid \in SUBSET Setting
    /\ lockFile \in Nat
    /\ base \in 0 .. 255

ProcessInit ==
    /\ life = "down" /\ runs = 0 /\ wasixPid = {}
    /\ lockFile = 0 /\ base = 0
-----------------------------------------------------------------------------
\* The pid comes from the environment or is a constant.  The code measures the
\* variable before it tests that there is one, so that a compiler may leave the
\* test out; it then looks at address 0, which is 0 when a run starts, and the
\* result is the same.  Mutant: each run has a pid of its own, as on a host with
\* processes.
PidOfHost(setting) == 42 + runs
Getpid(setting)  == IF setting = 0 THEN 42 ELSE setting
Getppid(setting) == IF setting = 0 THEN 1 ELSE setting

\* kill() sends nothing and reports success: for signal 0, that pid is alive.
Kill(pid, sig) == 0
Alive(pid) == Kill(pid, 0) = 0

\* The lock file of a run with these settings: PostgreSQL takes it over from a
\* process that is dead, or has the pid of this one or of its parent.
TakesOver(pid, ppid) ==
    lockFile = 0 \/ lockFile \in {pid, ppid} \/ ~Alive(lockFile)

Start(e, pe) ==
    /\ life # "up" /\ runs < MaxRuns
    /\ runs' = runs + 1 /\ wasixPid' = wasixPid \cup {e}
    /\ base' = 0
    /\ \/ /\ TakesOver(Getpid(e), Getppid(pe))
          /\ life' = "up" /\ lockFile' = Getpid(e)
       \/ /\ ~TakesOver(Getpid(e), Getppid(pe))
          /\ life' = "refused" /\ UNCHANGED lockFile

\* exit() writes its code to address 0 and traps, so that no atexit() function
\* runs; PostgreSQL has removed the lock file before, or not.
SdkExit(ec) ==
    /\ life = "up" /\ life' = "down"
    /\ lockFile' \in {0, lockFile}
    /\ base' = ec % 256
    /\ UNCHANGED <<runs, wasixPid>>

\* pipe() aborts, as does a trap; the host may stop the run as well.
Abort ==
    /\ life = "up" /\ life' = "down"
    /\ UNCHANGED <<runs, wasixPid, lockFile, base>>

\* What the calls that would need another process return: that they have
\* failed.  The program goes on without the command.
Fork       == -1
Popen      == "NULL"
SystemWasi == -1
Waitpid    == -1

CommandFails ==
    /\ life = "up" /\ {Fork, SystemWasi, Waitpid} = {-1} /\ Popen = "NULL"
    /\ UNCHANGED processVars

\* A semaphore is had at once, whatever its value: there is nobody to wait for.
Semop == 0

SemaphoreTaken ==
    /\ life = "up" /\ Semop = 0
    /\ UNCHANGED processVars

ProcessNext ==
    \/ \E e, pe \in Setting : Start(e, pe)
    \/ \E ec \in ExitCode : SdkExit(ec)
    \/ Abort \/ CommandFails \/ SemaphoreTaken

ProcessSpec == ProcessInit /\ [][ProcessNext]_processVars
-----------------------------------------------------------------------------
\* A lock file that a run has left behind, by exit() or by a trap, does not keep
\* the next run from starting, although kill() reports every process as alive:
\* all runs with the same environment have one pid.
NotLockedOut ==
    life = "refused" => \E d, e \in wasixPid : d # e
=============================================================================
