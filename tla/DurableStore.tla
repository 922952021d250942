---------------------------- MODULE DurableStore ----------------------------
(***************************************************************************)
(* What a PGLite with a data file promises its user: committed rows live   *)
(* in memory, a snapshot on the host file system lags behind them, never   *)
(* goes back and holds nothing that was not committed; a crash or a        *)
(* restart goes back to the snapshot, whenever it comes.                   *)
(***************************************************************************)
CONSTANT Rows

VARIABLES mem,    \* the committed rows of the running database
          saved   \* the rows the snapshot gives back

Init == mem = {} /\ saved = {}

Commit == mem' \in SUBSET Rows /\ mem \subseteq mem' /\ UNCHANGED saved
Save   == saved' \in SUBSET mem /\ saved \subseteq saved' /\ UNCHANGED mem
Lose   == mem' = saved /\ UNCHANGED saved

Next == Commit \/ Save \/ Lose
Spec == Init /\ [][Next]_<<mem, saved>>
=============================================================================
