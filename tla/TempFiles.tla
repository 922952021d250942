----------------------------- MODULE TempFiles -----------------------------
(***************************************************************************)
(* The port's temporary files: mktemp(), mkstemp(), tempnam() and          *)
(* tmpfile() of patch.h, and shared memory segments as files, in           *)
(* sdk_port-wasi.c (with PYDK) and sdk_port.h (without).  One process at a *)
(* time uses the file system; a process that ends leaves its files behind. *)
(***************************************************************************)
EXTENDS Naturals

CONSTANTS
    Name,       \* what __randname makes of a template
    Segment,    \* the names of shared memory segments
    MaxIndex    \* bounds shm_index

ASSUME TempFilesAssumption == MaxIndex \in Nat

Temporary == {"tmp"} \X Name
Shared    == {"shm"} \X Segment
Indexed   == {"SHM"} \X (0 .. MaxIndex)
Path      == Temporary \cup Shared \cup Indexed

VARIABLES
    shmPath,    \* whether the process is built with PYDK and has SHM in its
                \* environment
    shm_index,
    files,      \* the files that exist
    users,      \* how many in this process use each file as their own; 2 stands
                \* for more than one
    named,      \* the names that tempnam() has returned in this process
    strays      \* the files whose descriptor was returned for that of a stream
                \* that is NULL

tmpVars == <<shmPath, shm_index, files, users, named, strays>>

TmpTypeOK ==
    /\ shmPath \in BOOLEAN
    /\ shm_index \in 0 .. MaxIndex + 1
    /\ files \in SUBSET Path
    /\ users \in [Path -> 0 .. 2]
    /\ named \in SUBSET Temporary /\ strays \in SUBSET Path

\* Earlier processes may have left files.
TmpInit ==
    /\ shmPath \in BOOLEAN /\ shm_index = 0
    /\ files \in SUBSET Temporary
    /\ users = [p \in Path |-> 0]
    /\ named = {} /\ strays = {}

OneMore(n) == IF n = 0 THEN 1 ELSE 2
OneLess(n) == IF n = 2 THEN {1, 2} ELSE {0}

\* fopen(p, "w") or "w+": the file is created or emptied.
Opens(p) ==
    /\ files' = files \cup {p}
    /\ users' = [users EXCEPT ![p] = OneMore(@)]

\* One of those who use a file closes it.
Closes(p) ==
    /\ users[p] > 0
    /\ \E n \in OneLess(users[p]) : users' = [users EXCEPT ![p] = n]

\* fopen() has failed, and the caller gets what fileno() finds in memory at
\* address 0 and up: the descriptor of one of these files, or another one.
FilenoOfNull ==
    \/ UNCHANGED <<users, strays>>
    \/ \E p \in Path :
          /\ users[p] > 0
          /\ users' = [users EXCEPT ![p] = OneMore(@)]
          /\ strays' = strays \cup {p}
-----------------------------------------------------------------------------
\* The names that mktemp() can return: __randname draws one from the clock,
\* and stat() says that there is no such file.  Mutant: the file is not looked
\* for.
NotLooked == Temporary
Fresh     == Temporary \ files

\* mkstemp(), when mktemp() has found a name.
Mkstemp == \E p \in Fresh :
    /\ Opens(p)
    /\ UNCHANGED <<shmPath, shm_index, named, strays>>

\* mktemp() has drawn names of files that exist until its retries were used up,
\* or stat() or fopen() has failed.
MkstempWild ==
    /\ FilenoOfNull
    /\ UNCHANGED <<shmPath, shm_index, files, named>>

\* tempnam() returns a name and creates no file.  Its buffer is not terminated:
\* mktemp() may not see the XXXXXX at its end, and the result is then "", as
\* with a directory that is too long.
Tempnam ==
    /\ \/ \E p \in Fresh : named' = named \cup {p}
       \/ UNCHANGED named
    /\ UNCHANGED <<shmPath, shm_index, files, users, strays>>

\* Whoever got a name from tempnam() creates the file, at any later time;
\* others may have got the same name.
CreateNamed(p) ==
    /\ p \in named /\ Opens(p)
    /\ UNCHANGED <<shmPath, shm_index, named, strays>>

\* tmpfile() has no XXXXXX in its template: mktemp() empties it and fopen("")
\* fails, always.
Tmpfile == UNCHANGED tmpVars

\* A temporary file is closed and removed by one who uses it.
Unlink(p) ==
    /\ p \in Temporary /\ Closes(p) /\ files' = files \ {p}
    /\ UNCHANGED <<shmPath, shm_index, named, strays>>
-----------------------------------------------------------------------------
\* get_shm_path: SHM gives a new file each time, whatever the name.
ShmIndexNext == IF shmPath THEN shm_index + 1 ELSE shm_index
GetShmPath(name) == IF shmPath THEN <<"SHM", shm_index>> ELSE <<"shm", name>>

\* shm_open(), for a new segment or one that is open: oflag is not looked at,
\* and the file of an open segment is emptied.
ShmOpen(name) ==
    /\ shm_index <= MaxIndex
    /\ \/ Opens(GetShmPath(name)) /\ UNCHANGED strays
       \/ FilenoOfNull /\ UNCHANGED files
    /\ shm_index' = ShmIndexNext
    /\ UNCHANGED <<shmPath, named>>

\* shm_unlink(), by one who has unmapped the segment: with SHM a stub.
ShmUnlink(p) ==
    /\ p \in Shared \cup Indexed /\ Closes(p)
    /\ files' = IF shmPath THEN files ELSE files \ {p}
    /\ UNCHANGED <<shmPath, shm_index, named, strays>>

\* The process ends and the next one starts, perhaps with another environment.
NextProcess ==
    /\ shmPath' \in BOOLEAN /\ shm_index' = 0
    /\ users' = [p \in Path |-> 0]
    /\ named' = {} /\ strays' = {}
    /\ UNCHANGED files

TmpNext ==
    \/ Mkstemp \/ MkstempWild \/ Tempnam \/ Tmpfile \/ NextProcess
    \/ \E p \in Path : CreateNamed(p) \/ Unlink(p) \/ ShmUnlink(p)
    \/ \E name \in Segment : ShmOpen(name)

TmpSpec == TmpInit /\ [][TmpNext]_tmpVars
-----------------------------------------------------------------------------
\* A file that mkstemp() has made, and one that SHM has numbered, is neither
\* shared with another call nor emptied or removed under the one who uses it,
\* by whatever sequence of calls and with whatever files earlier processes have
\* left.  Exempt are the files that the code leaves open to this: those whose
\* name tempnam() has returned, segments without SHM, which are opened again by
\* name, and files whose descriptor was taken for that of a NULL stream.
OwnFilesKept ==
    \A p \in Path \ (named \cup Shared \cup strays) :
        users[p] <= 1 /\ (users[p] = 1 => p \in files)
=============================================================================
