--------------------------- MODULE SnapshotProofs ---------------------------
(***************************************************************************)
(* Proofs about Snapshot, for every set of rows.                           *)
(***************************************************************************)
EXTENDS Snapshot, TLAPS

\* The temporary file is truncated while the zip is written, and the zip of the
\* ZeroFS files while it is moved or copied; only a copy is not atomic.
MovePhases == {"move", "removed", "copy", "copied"}
TmpInv == /\ phase = "zip" => tmp = Partial({})
          /\ phase \in MovePhases => tmp = Whole(onFile)
          /\ phase \in {"removed", "copy", "copied"} => ~AtomicMove
          /\ phase = "copy" => target.kind = "partial"
          /\ phase = "copied" => target = tmp

\* How far the rows that the dump in progress owes have got.
BaseInv ==
    /\ phase = "vacuum" => base \subseteq live
    /\ phase \in {"vacuum", "checkpoint"} => (base = {} \/ session = "idle")
    /\ phase = "checkpoint" => base \subseteq frozen
    /\ phase \in {"open", "zip"} \cup MovePhases => base \subseteq onFile

IInv == TypeOK /\ SavedWasCommitted /\ TmpInv /\ BaseInv

\* The three kinds of host file have the type of a file and their own fields.
LEMMA Files ==
    /\ NoFile \in File /\ NoFile.kind = "none" /\ NoFile.rows = {}
    /\ \A S \in SUBSET Rows : /\ Whole(S) \in File /\ Whole(S).rows = S
                              /\ Whole(S).kind = "whole"
                              /\ Partial(S) \in File /\ Partial(S).rows = S
                              /\ Partial(S).kind = "partial"
  BY DEF NoFile, Partial, Whole, File

\* The invariant holds before the first process starts.
LEMMA InvInit == Init => IInv
  BY Files DEF Init, IInv, TypeOK, Phases, MovePhases, SavedWasCommitted, TmpInv,
     BaseInv

\* Every step keeps the invariant, one step of the proof per action.
LEMMA InvStep == IInv /\ [Next]_vars => IInv'
<1> SUFFICES ASSUME IInv, [Next]_vars PROVE IInv' OBVIOUS
<1> USE DEF IInv, TypeOK, Phases, MovePhases, SavedWasCommitted, TmpInv, BaseInv,
            session_vars
<1>0. target.rows \in SUBSET Rows
  BY DEF File
<1>1. CASE Boot
  BY <1>0, <1>1 DEF Boot, RestoredBuffers, RestoredFiles, DefaultFiles
<1>2. CASE Statement
  BY <1>2 DEF Statement, Begin, Commit, Rollback, Insert
<1>3. ASSUME NEW close \in BOOLEAN, DumpBegin(close) PROVE IInv'
  BY <1>3 DEF DumpBegin
<1>4. CASE Vacuum
  BY <1>4 DEF Vacuum, Frozen
<1>5. CASE Checkpoint
  BY <1>5 DEF Checkpoint
<1>6. CASE OpenTmp
  BY <1>6, Files DEF OpenTmp
<1>7. CASE Zip
  BY <1>7, Files DEF Zip
<1>8. CASE Move
  BY <1>8, Files DEF Move, ZipDone, AfterDump
<1>9. CASE RemoveTarget
  BY <1>9, Files DEF RemoveTarget, RemoveNow
<1>10. CASE CopyBegin
  <2>1. tmp.rows = onFile /\ onFile \in SUBSET Rows
    BY <1>10, Files DEF CopyBegin
  <2> PICK S \in SUBSET onFile : target' = Partial(S)
    BY <1>10, <2>1 DEF CopyBegin
  <2>2. target' \in File /\ target'.rows = S /\ target'.kind = "partial"
    BY <2>1, Files
  <2> QED BY <1>10, <2>2 DEF CopyBegin
<1>11. CASE CopyEnd
  BY <1>11, Files DEF CopyEnd
<1>12. CASE DeleteTmp
  BY <1>12, Files DEF DeleteTmp, AfterDump
<1>13. CASE DumpFails
  BY <1>13, Files DEF DumpFails, AfterDump
<1>14. CASE Shutdown
  BY <1>14 DEF Shutdown
<1>15. CASE Crash
  BY <1>15 DEF Crash
<1>16. ASSUME NEW r \in Rows, Evict(r) PROVE IInv'
  BY <1>16 DEF Evict
<1>17. CASE UNCHANGED vars
  BY <1>17 DEF vars
<1> QED
  BY <1>1, <1>2, <1>3, <1>4, <1>5, <1>6, <1>7, <1>8, <1>9, <1>10, <1>11, <1>12,
     <1>13, <1>14, <1>15, <1>16, <1>17 DEF Next, Dump

\* Hence it holds in every reachable state.
LEMMA Invariance == Spec => []IInv
  BY InvInit, InvStep, PTL DEF Spec

\* Every variable keeps its type; in particular the data file is never a
\* partial zip where the host file system supports the atomic move.
THEOREM TypeCorrect == Spec => []TypeOK
<1>1. IInv => TypeOK
  BY DEF IInv
<1> QED BY <1>1, Invariance, PTL

\* The data file never runs ahead of the committed rows.
THEOREM NothingInvented == Spec => []SavedWasCommitted
<1>1. IInv => SavedWasCommitted
  BY DEF IInv
<1> QED BY <1>1, Invariance, PTL

\* The steps that change the data file.
LEMMA TargetStep ==
    ASSUME IInv, [Next]_vars, target' # target
    PROVE  \/ target'.kind # "whole" /\ ~AtomicMove
           \/ /\ target' = Whole(onFile) /\ base \subseteq onFile
              /\ UNCHANGED <<live, onFile>>
              /\ phase \notin {"down"} /\ phase' \notin {"down"}
<1> USE DEF IInv, TmpInv, BaseInv, MovePhases, session_vars
<1>1. CASE Move
  BY <1>1 DEF Move, ZipDone, AfterDump
<1>2. CASE CopyEnd
  BY <1>2 DEF CopyEnd
<1>3. CASE RemoveTarget
  BY <1>3, Files DEF RemoveTarget
<1>4. CASE CopyBegin
  BY <1>4 DEF CopyBegin, Partial
<1>5. CASE DumpFails
  BY <1>5, Files DEF DumpFails
<1> QED
  BY <1>1, <1>2, <1>3, <1>4, <1>5 DEF Next, Dump, Boot, Statement, DumpBegin,
     Vacuum, Checkpoint, OpenTmp, Zip, DeleteTmp, Shutdown, Crash, Evict, vars

\* A dump that began with no transaction block open, and whose statements raised
\* no error, completes the data file with every row committed before it.
THEOREM IdleDumps == Spec => IdleDumpIsComplete
<1>1. IInv /\ [Next]_vars =>
        [target' # target /\ target'.kind = "whole"
           => base \subseteq target'.rows]_vars
  <2> SUFFICES ASSUME IInv, [Next]_vars, target' # target, target'.kind = "whole"
               PROVE  base \subseteq target'.rows
    OBVIOUS
  <2>1. target' = Whole(onFile) /\ base \subseteq onFile
    BY TargetStep
  <2> QED BY <2>1, Files DEF IInv, TypeOK
<1> QED BY <1>1, Invariance, PTL DEF Spec, IdleDumpIsComplete

\* The rows that are kept are those of the temporary file and of the data file,
\* where these are complete zips.
LEMMA KeptRows ==
    \A r : r \in Kept <=> (\/ tmp.kind = "whole" /\ r \in tmp.rows
                           \/ target.kind = "whole" /\ r \in target.rows)
  BY DEF Kept

\* With an atomic move or with a copy, a complete zip's rows stay in some
\* complete zip, through failures and crashes at any step of the dump, until
\* the next dump truncates the temporary file.
THEOREM ImageIsKept == Spec => ImageKept
<1>1. IInv /\ [Next]_vars => [phase = "open" \/ Kept \subseteq Kept']_vars
  <2> SUFFICES ASSUME IInv, [Next]_vars, phase # "open", NEW r, r \in Kept
               PROVE  r \in Kept'
    OBVIOUS
  <2>1. \/ tmp.kind = "whole" /\ r \in tmp.rows
        \/ target.kind = "whole" /\ r \in target.rows
    BY KeptRows
  <2>2. (\/ tmp'.kind = "whole" /\ r \in tmp'.rows
         \/ target'.kind = "whole" /\ r \in target'.rows) => r \in Kept'
    BY DEF Kept
  <2>3. Partial({}).kind = "partial" /\ target.rows \in SUBSET Rows
    BY Files DEF IInv, TypeOK, File
  <2> USE DEF IInv, TypeOK, TmpInv, MovePhases, SavedWasCommitted
  <2>4. CASE Zip
    BY <2>1, <2>2, <2>3, <2>4, Files DEF Zip
  <2>5. CASE Move \/ CopyEnd
    <3>1. /\ tmp = Whole(onFile) /\ target' = tmp /\ target.rows \subseteq onFile
      BY <2>5 DEF Move, ZipDone, CopyEnd
    <3> QED BY <2>1, <2>2, <3>1, Files
  <2>6. CASE RemoveTarget \/ CopyBegin
    <3>1. /\ tmp = Whole(onFile) /\ tmp' = tmp /\ target.rows \subseteq onFile
      BY <2>6 DEF RemoveTarget, RemoveNow, CopyBegin
    <3> QED BY <2>1, <2>2, <3>1, Files
  <2>7. CASE DeleteTmp
    <3>1. target = tmp /\ target' = target
      BY <2>7 DEF DeleteTmp
    <3> QED BY <2>1, <2>2, <3>1
  <2>8. CASE DumpFails
    <3>1. CASE phase \in {"copy", "copied"}
      <4>1. /\ tmp = Whole(onFile) /\ tmp' = tmp
            /\ target.rows \subseteq onFile
        BY <2>8, <3>1 DEF DumpFails
      <4> QED BY <2>1, <2>2, <4>1, Files
    <3>2. CASE phase \notin {"copy", "copied"}
      BY <2>1, <2>2, <2>8, <3>2 DEF DumpFails
    <3> QED BY <3>1, <3>2
  <2>9. CASE UNCHANGED <<tmp, target>>
    BY <2>1, <2>2, <2>9
  <2> QED
    BY <2>4, <2>5, <2>6, <2>7, <2>8, <2>9 DEF Next, Dump, Boot, Statement,
       DumpBegin, Vacuum, Checkpoint, OpenTmp, Shutdown, Crash, Evict, vars
<1> QED BY <1>1, Invariance, PTL DEF Spec, ImageKept

\* With an atomic move, dumps, crashes and restarts implement the durable
\* store: the snapshot never goes back and never holds what was not committed.
THEOREM Durability ==
    ASSUME AtomicMove PROVE Spec => StoreSpec
<1> DEFINE mem == IF phase = "down" THEN target.rows ELSE live
           saved == target.rows
<1>1. Init => Store!Init
  BY Files DEF Init, Store!Init
<1>2. IInv /\ IInv' /\ [Next]_vars => [Store!Next]_<<mem, saved>>
  <2> SUFFICES ASSUME IInv, IInv', [Next]_vars
               PROVE  [Store!Next]_<<mem, saved>>
    OBVIOUS
  <2> USE DEF IInv, TypeOK, SavedWasCommitted, session_vars
  <2>1. CASE target' # target
    <3>1. /\ target' = Whole(onFile)
          /\ UNCHANGED <<live, onFile>> /\ phase # "down" /\ phase' # "down"
      BY <2>1, TargetStep
    <3>2. saved' = onFile
      BY <3>1, Files
    <3>3. Store!Save
      BY <3>1, <3>2 DEF Store!Save
    <3> QED BY <3>3 DEF Store!Next
  <2>2. CASE target' = target /\ phase' = "down" /\ phase # "down"
    BY <2>2 DEF Store!Next, Store!Lose
  <2>3. CASE target' = target /\ phase = "down"
    <3>1. CASE Boot
      BY <2>3, <3>1 DEF Boot, RestoredBuffers, RestoredFiles, DefaultFiles
    <3>2. CASE phase' = "down"
      BY <2>3, <3>2
    <3> QED
      BY <2>3, <3>1, <3>2 DEF Next, Dump, Statement, DumpBegin, Vacuum,
         Checkpoint, OpenTmp, Zip, Move, ZipDone, RemoveTarget, RemoveNow,
         CopyBegin, CopyEnd, DeleteTmp, DumpFails, Shutdown, Crash, Evict, vars
  <2>4. CASE target' = target /\ phase # "down" /\ phase' # "down"
    <3>1. CASE Statement
      <4>1. live \subseteq live'
        BY <3>1 DEF Statement, Begin, Commit, Rollback, Insert
      <4> QED BY <2>4, <4>1 DEF Store!Next, Store!Commit
    <3>2. CASE UNCHANGED live
      BY <2>4, <3>2
    <3> QED
      BY <2>4, <3>1, <3>2 DEF Next, Dump, Boot, DumpBegin, Vacuum, Checkpoint,
         OpenTmp, Zip, Move, RemoveTarget, CopyBegin, CopyEnd, DeleteTmp,
         DumpFails, Shutdown, Crash, Evict, vars
  <2> QED BY <2>1, <2>2, <2>3, <2>4
<1> QED BY <1>1, <1>2, Invariance, PTL DEF Spec, StoreSpec, Store!Spec
=============================================================================
