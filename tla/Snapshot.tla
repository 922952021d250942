------------------------------ MODULE Snapshot ------------------------------
(***************************************************************************)
(* PGLite.dumpDataDir and the constructor's restore, over the lives of the *)
(* processes that use one data file.  The database is a set of inserted    *)
(* rows; a row survives a restore when its tuple is frozen and its page is *)
(* in the ZeroFS files that are zipped.  No client statement runs during a *)
(* dump: the backup thread and close() hold pgLock then.  PGLite.close     *)
(* dumps without it, and a statement that a handler executes beside that   *)
(* dump is not followed here (ManagedInstance shows that there can be      *)
(* one).  The dump's own statements run in the session all clients share.  *)
(***************************************************************************)
CONSTANTS
    Rows,             \* the rows that clients insert
    AtomicMove,       \* the host file system supports ATOMIC_MOVE
    StatementErrors   \* the backend may answer VACUUM FREEZE or CHECKPOINT
                      \* with an error though no transaction block is open

ASSUME ConstantsAssumption ==
    AtomicMove \in BOOLEAN /\ StatementErrors \in BOOLEAN

VARIABLES
    phase,     \* "down", "up", or the next step of the dump in progress
    closing,   \* the dump is one of PGLite.close
    session,   \* the transaction state of the one backend session
    pend,      \* rows the open transaction has inserted
    live,      \* rows committed
    frozen,    \* committed rows whose tuples are frozen in shared buffers
    onFile,    \* frozen rows whose page has been written to ZeroFS
    tmp,       \* the host file dataDir.tmp
    target,    \* the host file dataDir
    base       \* what the dump in progress must hold: the rows committed when
               \* it began, if no transaction block was open then and while
               \* neither of its statements has raised an error

session_vars == <<session, pend, live>>
vars == <<phase, closing, session_vars, frozen, onFile, tmp, target, base>>

\* A host file: missing, a zip whose writing has not ended, or a complete zip
\* and the rows it gives back when it is restored over the default files.
File       == [kind : {"none", "partial", "whole"}, rows : SUBSET Rows]
NoFile     == [kind |-> "none", rows |-> {}]
Partial(S) == [kind |-> "partial", rows |-> S]
Whole(S)   == [kind |-> "whole", rows |-> S]

Phases == {"down", "up", "vacuum", "checkpoint", "open", "zip", "move",
           "removed", "copy", "copied", "shutdown"}

TypeOK ==
    /\ phase \in Phases /\ closing \in BOOLEAN
    /\ session \in {"idle", "block", "failed"}
    /\ pend \in SUBSET Rows /\ live \in SUBSET Rows
    /\ frozen \in SUBSET Rows /\ onFile \in SUBSET Rows
    /\ base \in SUBSET Rows
    /\ tmp \in File
    /\ target \in File /\ (target.kind = "partial" => ~AtomicMove)

\* The first process has not started and there is no data file.
Init ==
    /\ phase = "down" /\ closing = FALSE
    /\ session = "idle"
    /\ pend = {} /\ live = {} /\ frozen = {} /\ onFile = {} /\ base = {}
    /\ tmp = NoFile /\ target = NoFile
-----------------------------------------------------------------------------
(***************************************************************************)
(* The constructor: extract the default files, restore the data file over  *)
(* them, and invalidate the buffers of the wizer snapshot so that the      *)
(* restored pages are read.                                                *)
(***************************************************************************)
\* extractDistToZeroFs: the default database holds no row of a client.
DefaultFiles == {}
\* restoreDataDir writes the files of the zip, if there is one, over them.  A
\* zip that ends early gives back the entries before its end; if it ends within
\* an entry the constructor throws, and nothing has changed.
RestoredFiles == DefaultFiles \cup target.rows

\* What the backend sees of these files.  Mutant: without
\* pgl_invalidate_buffers, the default pages it was built with.
StaleBuffers == DefaultFiles
RestoredBuffers == RestoredFiles

Boot ==
    /\ phase = "down" /\ phase' = "up"
    /\ session' = "idle" /\ pend' = {}
    /\ onFile' = RestoredFiles
    /\ frozen' = RestoredBuffers /\ live' = RestoredBuffers
    /\ closing' = FALSE /\ base' = {}
    /\ UNCHANGED <<tmp, target>>
-----------------------------------------------------------------------------
(***************************************************************************)
(* The clients' statements, in the shared session (external: PostgreSQL).  *)
(***************************************************************************)
Begin == session = "idle" /\ session' = "block" /\ UNCHANGED <<pend, live>>

Insert(r) ==
    /\ r \notin live \cup pend
    /\ \/ session = "idle" /\ live' = live \cup {r} /\ UNCHANGED pend
       \/ session = "block" /\ pend' = pend \cup {r} /\ UNCHANGED live
    /\ UNCHANGED session

\* COMMIT of a failed block rolls it back.
Commit ==
    /\ session \in {"block", "failed"} /\ session' = "idle"
    /\ live' = IF session = "block" THEN live \cup pend ELSE live
    /\ pend' = {}

Rollback ==
    /\ session \in {"block", "failed"} /\ session' = "idle"
    /\ pend' = {} /\ UNCHANGED live

Statement ==
    /\ phase = "up"
    /\ Begin \/ Commit \/ Rollback \/ \E r \in Rows : Insert(r)
    /\ UNCHANGED <<phase, closing, frozen, onFile, tmp, target, base>>
-----------------------------------------------------------------------------
(***************************************************************************)
(* dumpDataDir, called by the backup thread or on the way out of close().  *)
(***************************************************************************)
DumpBegin(close) ==
    /\ phase = "up" /\ phase' = "vacuum"
    /\ closing' = close
    /\ base' = IF session = "idle" THEN live ELSE {}
    /\ UNCHANGED <<session_vars, frozen, onFile, tmp, target>>

\* VACUUM FREEZE cannot run inside a transaction block: there it fails, and
\* fails the block.  Outside one it freezes every tuple, or raises an error
\* after some of the tables.  The reply is not looked at.
\* Mutant of the tuples a successful VACUUM FREEZE freezes: FREEZE is left out.
PlainVacuum == frozen
Frozen == live

Vacuum ==
    /\ phase = "vacuum" /\ phase' = "checkpoint"
    /\ \/ session = "idle" /\ frozen' = Frozen /\ UNCHANGED <<session, base>>
       \/ /\ session = "idle" /\ StatementErrors
          /\ \E S \in SUBSET live : frozen' = frozen \cup S
          /\ base' = {} /\ UNCHANGED session
       \/ /\ session # "idle" /\ session' = "failed"
          /\ UNCHANGED <<frozen, base>>
    /\ UNCHANGED <<closing, pend, live, onFile, tmp, target>>

\* CHECKPOINT writes the dirty buffers, unless the block has failed, or raises
\* an error after some of them.
Checkpoint ==
    /\ phase = "checkpoint" /\ phase' = "open"
    /\ \/ session # "failed" /\ onFile' = frozen /\ UNCHANGED base
       \/ /\ session # "failed" /\ StatementErrors
          /\ \E S \in SUBSET frozen : onFile' = onFile \cup S
          /\ base' = {}
       \/ session = "failed" /\ UNCHANGED <<onFile, base>>
    /\ UNCHANGED <<closing, session_vars, frozen, tmp, target>>

\* newOutputStream creates or truncates the temporary file.
OpenTmp ==
    /\ phase = "open" /\ phase' = "zip"
    /\ tmp' = Partial({})
    /\ UNCHANGED <<closing, session_vars, frozen, onFile, target, base>>

\* The walk over /pgdata ends and the zip is closed.
Zip ==
    /\ phase = "zip" /\ phase' = "move"
    /\ tmp' = Whole(onFile)
    /\ UNCHANGED <<closing, session_vars, frozen, onFile, target, base>>

\* After a dump, or the exception it throws: close() goes on to shut the
\* backend down, the backup thread lets the clients in again.
AfterDump == IF closing THEN "shutdown" ELSE "up"

\* Where a temporary file may become the data file.  Mutant: even a partial
\* zip, because the exception of the walk does not skip the move.
MoveAnyway == phase \in {"zip", "move"}
ZipDone == phase = "move"

Move ==
    /\ ZipDone /\ AtomicMove
    /\ phase' = AfterDump
    /\ target' = tmp /\ tmp' = NoFile
    /\ base' = {}
    /\ UNCHANGED <<closing, session_vars, frozen, onFile>>

\* The fallback.  Where a rename is not possible the JDK moves a file by
\* removing the target, copying onto it and deleting the source.  Mutant of
\* the first of these: it comes before the zip is complete.
RemoveEarly == phase \in {"zip", "move"}
RemoveNow == phase = "move"

RemoveTarget ==
    /\ RemoveNow /\ ~AtomicMove
    /\ phase' = "removed"
    /\ target' = NoFile
    /\ UNCHANGED <<closing, session_vars, frozen, onFile, tmp, base>>

\* The target exists again, and holds a first part of the file if the process
\* ends before the copy does.
CopyBegin ==
    /\ phase = "removed" /\ phase' = "copy"
    /\ \E S \in SUBSET tmp.rows : target' = Partial(S)
    /\ UNCHANGED <<closing, session_vars, frozen, onFile, tmp, base>>

CopyEnd ==
    /\ phase = "copy" /\ phase' = "copied"
    /\ target' = tmp
    /\ UNCHANGED <<closing, session_vars, frozen, onFile, tmp, base>>

DeleteTmp ==
    /\ phase = "copied" /\ phase' = AfterDump
    /\ tmp' = NoFile /\ base' = {}
    /\ UNCHANGED <<closing, session_vars, frozen, onFile, target>>

\* An exception at any step: a trap in a statement, the host's disk full.  A
\* copy that fails, or whose source cannot be deleted, is taken back.
DumpFails ==
    /\ phase \notin {"down", "up", "shutdown"}
    /\ phase' = AfterDump
    /\ target' = IF phase \in {"copy", "copied"} THEN NoFile ELSE target
    /\ base' = {}
    /\ UNCHANGED <<closing, session_vars, frozen, onFile, tmp>>

\* pgl_shutdown, then the in-memory file system is closed.
Shutdown ==
    /\ phase = "shutdown" /\ phase' = "down"
    /\ UNCHANGED <<closing, session_vars, frozen, onFile, tmp, target, base>>

Dump == \/ \E close \in BOOLEAN : DumpBegin(close)
        \/ Vacuum \/ Checkpoint \/ OpenTmp \/ Zip \/ Move
        \/ RemoveTarget \/ CopyBegin \/ CopyEnd \/ DeleteTmp
        \/ DumpFails \/ Shutdown

\* The buffer manager writes a page to make room (external).
Evict(r) ==
    /\ phase = "up" /\ r \in frozen \ onFile
    /\ onFile' = onFile \cup {r}
    /\ UNCHANGED <<phase, closing, session_vars, frozen, tmp, target, base>>

\* The process dies at any moment: the host's files are what is left.
Crash ==
    /\ phase # "down" /\ phase' = "down"
    /\ UNCHANGED <<closing, session_vars, frozen, onFile, tmp, target, base>>

Next == Boot \/ Statement \/ Dump \/ Crash \/ \E r \in Rows : Evict(r)
Spec == Init /\ [][Next]_vars
-----------------------------------------------------------------------------
\* With an atomic move the data file holds what the last completed dump wrote:
\* a crash inside a dump, or an exception, never leaves it torn, empty or with
\* older rows.
Store == INSTANCE DurableStore WITH
            mem   <- IF phase = "down" THEN target.rows ELSE live,
            saved <- target.rows
StoreSpec == Store!Spec

\* A dump that began with no transaction block open, whose two statements
\* raised no error and that completes the data file has frozen, flushed and
\* zipped every row committed before it.
IdleDumpIsComplete ==
    [][target' # target /\ target'.kind = "whole"
         => base \subseteq target'.rows]_vars

\* The Javadoc of dumpDataDir: "all tuples are frozen" and "all dirty buffers
\* are flushed" in every file it installs, whoever has a transaction open.
DumpIsComplete ==
    [][target' # target /\ target'.kind = "whole"
         => live \subseteq target'.rows]_vars

Kept == UNION {f.rows : f \in {g \in {tmp, target} : g.kind = "whole"}}

\* Even where the move is a copy, the rows of a complete zip stay in some
\* complete zip, the data file or the temporary one, through crashes and
\* failures, until the next dump truncates the temporary file.
ImageKept ==
    [][phase = "open" \/ Kept \subseteq Kept']_vars

\* Nothing of an uncommitted or rolled back transaction is ever saved, and the
\* file never runs ahead of what memory still holds.
SavedWasCommitted ==
    phase # "down" => /\ target.rows \subseteq onFile
                      /\ onFile \subseteq frozen /\ frozen \subseteq live
=============================================================================
