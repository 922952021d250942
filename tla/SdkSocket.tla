----------------------------- MODULE SdkSocket -----------------------------
(***************************************************************************)
(* sdk_socket.c: a libpq client built for WASI talks to the backend        *)
(* through files.  What it sends collects in a lock file, which is renamed *)
(* and handed over with sched_yield(); the reply is another file, which    *)
(* recv() reads piece by piece and removes.  Bytes sent are counted, bytes *)
(* of replies are numbered in the order the backend produces them.         *)
(***************************************************************************)
EXTENDS Naturals, Sequences

CONSTANTS
    MaxBytes,       \* bounds what PGS_ILOCK and one reply hold
    Lengths,        \* the buffer lengths recv() is called with
    Total,          \* bounds the bytes of all replies
    MaxLists,       \* bounds the address lists a client holds
    WatchdogLimit   \* 32 in the code

ASSUME ConstantsAssumption ==
    /\ MaxBytes \in Nat /\ Total \in Nat /\ WatchdogLimit \in Nat \ {0}
    /\ MaxLists \in Nat
    /\ Lengths \subseteq Nat \ {0}

VARIABLES
    connected,       \* fd_FILE # NULL: sdk_connect has opened PGS_ILOCK
    fd_queue,        \* the bytes sent and not handed over, as the code counts
    ilock,           \* the bytes in PGS_ILOCK
    outFile,         \* PGS_OUT; <<>> when it does not exist
    fd_current_pos,  \* how much of PGS_OUT has been read
    fd_filesize,     \* its size, 0 when not known
    watchdog,        \* flushes with nothing to hand over, in a row
    exited,          \* sdk_exit(0) has been called
    flushed,         \* libpq has called pqFlush since its last recv()
    produced,        \* the bytes the backend has replied with
    got,             \* the bytes recv() has returned, in order
    heap,            \* blocks that address lookups have allocated
    lists,           \* the addrinfo lists the client holds
    gaiError         \* what gai_strerror() or hstrerror() has said of the last
                     \* lookup

request == <<connected, fd_queue, ilock>>
reply   == <<outFile, fd_current_pos, fd_filesize, produced, got>>
lookup  == <<heap, lists, gaiError>>
vars    == <<request, reply, watchdog, exited, flushed, lookup>>

\* The codes that gai_strerror() knows, of those in netdb.h; EAI_NODATA is not
\* among them.
Explained == {"EAI_AGAIN", "EAI_BADFLAGS", "EAI_FAIL", "EAI_FAMILY",
              "EAI_MEMORY", "EAI_NONAME", "EAI_SERVICE", "EAI_SOCKTYPE",
              "EAI_SYSTEM", "EAI_OVERFLOW"}

\* A position and a size belong to a file that is partly read.
TypeOK ==
    /\ connected \in BOOLEAN /\ exited \in BOOLEAN /\ flushed \in BOOLEAN
    /\ fd_queue \in Nat /\ ilock \in Nat
    /\ watchdog \in 0 .. WatchdogLimit + 2
    /\ outFile \in Seq(1 .. Total) /\ got \in Seq(1 .. Total)
    /\ produced \in 0 .. Total
    /\ \/ fd_current_pos = 0 /\ fd_filesize = 0
       \/ fd_current_pos \in 1 .. Len(outFile) - 1 /\ fd_filesize = Len(outFile)
    /\ lists \in SUBSET (1 .. MaxLists)
    /\ heap \in SUBSET ({"addrinfo", "sockaddr_in"} \X (1 .. MaxLists))
    /\ gaiError \in Explained \cup {"none", "hstrerror"}

Init ==
    /\ connected = FALSE /\ fd_queue = 0 /\ ilock = 0
    /\ outFile = <<>> /\ fd_current_pos = 0 /\ fd_filesize = 0
    /\ produced = 0 /\ got = <<>>
    /\ watchdog = 0 /\ exited = FALSE /\ flushed = FALSE
    /\ heap = {} /\ lists = {} /\ gaiError = "none"

\* socket() and connect(): the lock file is opened, empty, and what was sent
\* and not handed over is dropped.  PGS_OUT and the position in it are left
\* as they are: it is assumed that a client has read its last reply before it
\* connects again.
SdkConnect ==
    /\ ~exited /\ outFile = <<>>
    /\ connected' = TRUE /\ flushed' = FALSE
    /\ fd_queue' = 0 /\ ilock' = 0
    /\ UNCHANGED <<reply, watchdog, exited, lookup>>
-----------------------------------------------------------------------------
\* What send() adds to the queue.  Mutant: nothing.
NotQueued(n) == fd_queue
Queued(n) == fd_queue + n

\* What a sign of life makes of the watchdog.  Mutant: it goes on counting.
WatchdogKept == watchdog
WatchdogReset == 0

\* send() and sendto(), as often as libpq likes.  It is assumed that the client
\* has read all of the last reply, since the end of a reply empties fd_queue and
\* a flush replaces PGS_OUT: the counters are not made for more.
SdkSendto(n) ==
    /\ connected /\ ~exited
    /\ outFile = <<>>
    /\ ilock + n <= MaxBytes
    /\ ilock' = ilock + n /\ fd_queue' = Queued(n)
    /\ watchdog' = WatchdogReset
    /\ UNCHANGED <<connected, reply, exited, flushed, lookup>>

\* The backend runs inside sched_yield() and answers what it has been handed,
\* with n bytes; a request that is not complete has no answer.
Answer(n) == [i \in 1 .. n |-> produced + i]
Answers   == {n \in 0 .. MaxBytes : produced + n <= Total}

\* sdk_sock_flush, with a queue to hand over and without one.  The second
\* kind, more than WatchdogLimit times in a row, is taken for a busy loop.
Yields   == fd_queue > 0
NoYield  == fd_queue = 0 /\ watchdog <= WatchdogLimit
BusyLoop == fd_queue = 0 /\ watchdog > WatchdogLimit

HandOver(n) ==
    /\ produced' = produced + n
    /\ ilock' = 0

Exit ==
    /\ exited' = TRUE /\ watchdog' = watchdog + 1
    /\ UNCHANGED <<request, reply, flushed, lookup>>

\* pqFlush, when it has nothing left to send; libpq calls it once before it
\* receives, whether or not a reply is partly read.
PqFlush ==
    /\ connected /\ ~exited /\ ~flushed
    /\ \/ /\ Yields
          /\ \E n \in Answers : HandOver(n) /\ outFile' = Answer(n)
          /\ fd_queue' = 0 /\ flushed' = TRUE
          /\ UNCHANGED <<connected, fd_current_pos, fd_filesize, got, watchdog,
                         exited, lookup>>
       \/ /\ NoYield
          /\ watchdog' = watchdog + 1 /\ flushed' = TRUE
          /\ UNCHANGED <<request, reply, exited, lookup>>
       \/ BusyLoop /\ Exit
-----------------------------------------------------------------------------
\* One fread of a file f: from the position on, as much as there is room for.
\* Mutant of where it leaves the position: the file is read from its start
\* again.
Least(a, b) == IF a < b THEN a ELSE b
Piece(f, len) ==
    SubSeq(f, fd_current_pos + 1, Least(fd_current_pos + len, Len(f)))
SamePos(f, len) == fd_current_pos
NextPos(f, len) == fd_current_pos + Len(Piece(f, len))

\* Where reading starts in the next file.  Mutant: where it ended in this one.
PosKept(f, len) == NextPos(f, len)
PosReset(f, len) == 0

\* ftell() at the end of a file; fd_seek does not fail on it.
FdTell(f) == Len(f)

\* The rest of recvfrom, when the flush has left the file f, q bytes in the
\* queue and the watchdog at w: no file, a part of it, or the end of it.
Receive(f, q, w, len) ==
    LET size == IF fd_filesize = 0 THEN FdTell(f) ELSE fd_filesize
    IN /\ \/ /\ f = <<>>
             /\ outFile' = f /\ fd_queue' = q /\ watchdog' = w
             /\ UNCHANGED <<fd_current_pos, fd_filesize, got>>
          \/ /\ f # <<>> /\ NextPos(f, len) < size
             /\ fd_current_pos' = NextPos(f, len) /\ fd_filesize' = size
             /\ outFile' = f /\ fd_queue' = q /\ watchdog' = w
             /\ got' = got \o Piece(f, len)
          \/ /\ f # <<>> /\ NextPos(f, len) >= size
             /\ fd_current_pos' = PosReset(f, len) /\ fd_filesize' = 0
             /\ outFile' = <<>> /\ fd_queue' = 0 /\ watchdog' = WatchdogReset
             /\ got' = got \o Piece(f, len)
       /\ flushed' = FALSE
       /\ UNCHANGED <<connected, exited, lookup>>

\* recv() and recvfrom().  There is no flush while a file is being read.
SdkRecvfrom(len) ==
    /\ connected /\ ~exited
    /\ \/ /\ fd_current_pos = 0 /\ Yields
          /\ \E n \in Answers :
                HandOver(n) /\ Receive(Answer(n), 0, watchdog, len)
       \/ /\ fd_current_pos = 0 /\ NoYield
          /\ Receive(outFile, 0, watchdog + 1, len)
          /\ UNCHANGED <<produced, ilock>>
       \/ /\ fd_current_pos = 0 /\ BusyLoop
          /\ Exit
       \/ /\ fd_current_pos > 0
          /\ Receive(outFile, fd_queue, WatchdogReset, len)
          /\ UNCHANGED <<produced, ilock>>

-----------------------------------------------------------------------------
GaiStrerror(code) == IF code \in Explained THEN code ELSE "unknown"

\* What getaddrinfo() frees when it has no address, and when the address does
\* not parse; what freeaddrinfo() frees of a list.  The list has one node, and
\* no canonical name.  Mutant: the address is left.
Node(i)         == <<"addrinfo", i>>
Address(i)      == <<"sockaddr_in", i>>
NodeFreed(i)    == {Node(i)}
BothFreed(i)    == {Node(i), Address(i)}

\* getaddrinfo() for list i: the first malloc() fails, the second, inet_pton(),
\* or none of them.
SdkGetaddrinfo(i) ==
    /\ ~exited /\ i \notin lists
    /\ \/ /\ gaiError' = GaiStrerror("EAI_MEMORY")
          /\ UNCHANGED <<heap, lists>>
       \/ /\ heap' = (heap \cup {Node(i)}) \ NodeFreed(i)
          /\ gaiError' = GaiStrerror("EAI_MEMORY")
          /\ UNCHANGED lists
       \/ /\ heap' = (heap \cup {Node(i), Address(i)}) \ BothFreed(i)
          /\ gaiError' = GaiStrerror("EAI_FAIL")
          /\ UNCHANGED lists
       \/ /\ heap' = heap \cup {Node(i), Address(i)}
          /\ lists' = lists \cup {i} /\ gaiError' = "none"
    /\ UNCHANGED <<request, reply, watchdog, exited, flushed>>

SdkFreeaddrinfo(i) ==
    /\ ~exited /\ i \in lists
    /\ heap' = heap \ BothFreed(i) /\ lists' = lists \ {i}
    /\ UNCHANGED <<request, reply, watchdog, exited, flushed, gaiError>>

\* The lookups of the old kind, by name, address, port and protocol: they find
\* nothing and allocate nothing.  h_errno is read through a NULL pointer, and
\* hstrerror() says the same of whatever is there.
SdkGethostbyname ==
    /\ ~exited /\ gaiError' = "hstrerror"
    /\ UNCHANGED <<request, reply, watchdog, exited, flushed, heap, lists>>

\* bind() and the options of a socket report success; nothing is written to the
\* caller's option or address.
SetsockoptEtc  == ~exited /\ UNCHANGED vars
SdkGetsockopt  == ~exited /\ UNCHANGED vars

Next ==
    \/ \E i \in 1 .. MaxLists : SdkGetaddrinfo(i) \/ SdkFreeaddrinfo(i)
    \/ SdkGethostbyname \/ SetsockoptEtc \/ SdkGetsockopt
    \/ SdkConnect \/ PqFlush
    \/ \E n \in 1 .. MaxBytes : SdkSendto(n)
    \/ \E len \in Lengths : SdkRecvfrom(len)

Spec == Init /\ [][Next]_vars
-----------------------------------------------------------------------------
\* What recv() has returned, and what it has yet to return from the file, is
\* all that the backend has replied, in order: whatever the sizes of replies
\* and buffers, sdk_recvfrom loses nothing and returns nothing twice.
ReceivedInOrder ==
    got \o SubSeq(outFile, fd_current_pos + 1, Len(outFile))
        = [i \in 1 .. produced |-> i]

\* The next flush hands over what has been sent: fd_queue, which decides
\* whether sdk_sock_flush yields, agrees with the file it would hand over.
NothingStranded == fd_queue = ilock

\* The watchdog's exit(0) is for busy loops only: it never ends a client that
\* has something to hand over or to read.
KilledOnlyIdle == exited => ilock = 0 /\ outFile = <<>>

\* Lookups that fail, at each of their steps, and succeed, and are freed or not,
\* in any order: every block belongs to a list the client holds.
LookupsLeakNothing == heap = UNION {{Node(i), Address(i)} : i \in lists}
=============================================================================
