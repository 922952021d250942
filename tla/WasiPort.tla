----------------------------- MODULE WasiPort ------------------------------
(***************************************************************************)
(* The parts of the WASI port in one specification, for one run of TLC:    *)
(* the socket, the signals, the loader, the temporary files and what takes *)
(* the place of processes.  It is the union of the specifications of the   *)
(* parts: one of them moves, and the others stay in an initial state.  It  *)
(* says nothing of parts that run together in a process, where they share  *)
(* at least the memory at address 0, which sdk_exit() writes and dlopen()  *)
(* reads.                                                                  *)
(***************************************************************************)
EXTENDS SdkSocket, Signals, Loader, TempFiles, WasiProcess

VARIABLE part   \* the part whose calls are followed

Part == {"socket", "signals", "loader", "files", "process"}

portVars == <<part, vars, sigVars, loaderVars, tmpVars, processVars>>

\* One type invariant for all parts.
PortTypeOK ==
    /\ part \in Part
    /\ TypeOK /\ SigTypeOK /\ LoaderTypeOK /\ TmpTypeOK /\ ProcessTypeOK

PortInit ==
    /\ part \in Part
    /\ Init /\ SigInit /\ LoaderInit /\ TmpInit /\ ProcessInit
    /\ part # "loader" => pydk
    /\ part # "files" => shmPath /\ files = {}

SocketMoves ==
    /\ part = "socket" /\ Next
    /\ UNCHANGED <<part, sigVars, loaderVars, tmpVars, processVars>>

SignalsMove ==
    /\ part = "signals" /\ SigNext
    /\ UNCHANGED <<part, vars, loaderVars, tmpVars, processVars>>

LoaderMoves ==
    /\ part = "loader" /\ LoaderNext
    /\ UNCHANGED <<part, vars, sigVars, tmpVars, processVars>>

FilesMove ==
    /\ part = "files" /\ TmpNext
    /\ UNCHANGED <<part, vars, sigVars, loaderVars, processVars>>

ProcessMoves ==
    /\ part = "process" /\ ProcessNext
    /\ UNCHANGED <<part, vars, sigVars, loaderVars, tmpVars>>

PortNext ==
    SocketMoves \/ SignalsMove \/ LoaderMoves \/ FilesMove \/ ProcessMoves

PortSpec == PortInit /\ [][PortNext]_portVars
=============================================================================
