-------------------------- MODULE SdkSocketProofs --------------------------
(***************************************************************************)
(* Proofs about SdkSocket, for every bound on requests, replies and lists, *)
(* every set of buffer lengths and every limit of the watchdog.            *)
(***************************************************************************)
EXTENDS SdkSocket, SequenceTheorems, TLAPS

\* What is in the queue has been sent since the last reply was read, and
\* nothing has counted the watchdog up since then.
QueueInv == fd_queue > 0 => outFile = <<>> /\ watchdog = 0

\* While there is a reply, recv() resets the watchdog at least every second
\* call of sdk_sock_flush: libpq flushes once before each recv(), and recv()
\* itself flushes before the first piece only.
WatchdogInv ==
    /\ ~exited => watchdog <= WatchdogLimit + 1
    /\ outFile # <<>> =>
        /\ fd_current_pos = 0 => flushed /\ watchdog = 0
        /\ watchdog <= IF flushed THEN 2 ELSE 1

\* The two halves of the type invariant: files and counters, and lookups.
FilesOK ==
    /\ connected \in BOOLEAN /\ exited \in BOOLEAN /\ flushed \in BOOLEAN
    /\ fd_queue \in Nat /\ ilock \in Nat
    /\ watchdog \in 0 .. WatchdogLimit + 2
    /\ outFile \in Seq(1 .. Total) /\ got \in Seq(1 .. Total)
    /\ produced \in 0 .. Total
    /\ \/ fd_current_pos = 0 /\ fd_filesize = 0
       \/ fd_current_pos \in 1 .. Len(outFile) - 1 /\ fd_filesize = Len(outFile)
LookupsOK ==
    /\ lists \in SUBSET (1 .. MaxLists)
    /\ heap \in SUBSET ({"addrinfo", "sockaddr_in"} \X (1 .. MaxLists))
    /\ gaiError \in Explained \cup {"none", "hstrerror"}

SockInv ==
    /\ FilesOK /\ LookupsOK
    /\ ReceivedInOrder /\ NothingStranded /\ KilledOnlyIdle
    /\ LookupsLeakNothing
    /\ QueueInv /\ WatchdogInv
-----------------------------------------------------------------------------
\* The bytes 1 .. n in order.
UpTo(n) == [i \in 1 .. n |-> i]

\* The backend's next answer, of n bytes, follows on what it has replied.
LEMMA AnswerFollows ==
    ASSUME produced \in 0 .. Total, NEW n \in Answers,
           MaxBytes \in Nat, Total \in Nat
    PROVE  /\ Answer(n) \in Seq(1 .. Total) /\ Len(Answer(n)) = n
           /\ UpTo(produced) \o Answer(n) = UpTo(produced + n)
           /\ produced + n \in 0 .. Total
<1>1. n \in Nat /\ produced \in Nat /\ produced + n \in 0 .. Total
  BY DEF Answers
<1>2. Answer(n) \in Seq(1 .. Total) /\ Len(Answer(n)) = n
  BY <1>1 DEF Answer
<1>3. UpTo(produced) \in Seq(Nat) /\ Len(UpTo(produced)) = produced
  BY <1>1 DEF UpTo
<1>4. UpTo(produced + n) \in Seq(Nat) /\ Len(UpTo(produced + n)) = produced + n
  BY <1>1 DEF UpTo
<1>5. Answer(n) \in Seq(Nat)
  BY <1>1 DEF Answer
<1> DEFINE u == UpTo(produced)
           v == Answer(n)
<1>6. /\ u \o v \in Seq(Nat) /\ Len(u \o v) = Len(u) + Len(v)
      /\ \A i \in 1 .. Len(u) + Len(v) :
            (u \o v)[i] = IF i <= Len(u) THEN u[i] ELSE v[i - Len(u)]
  <2> HIDE DEF u, v
  <2>1. u \in Seq(Nat) /\ v \in Seq(Nat)
    BY <1>3, <1>5 DEF u, v
  <2> QED BY <2>1, ConcatProperties
<1>7. ASSUME NEW i \in 1 .. produced + n
      PROVE  (u \o v)[i] = UpTo(produced + n)[i]
  <2>1. (u \o v)[i] = IF i <= produced THEN u[i] ELSE v[i - produced]
    BY <1>1, <1>2, <1>3, <1>6
  <2>2. u[i] = i \/ i > produced
    BY <1>1 DEF UpTo
  <2>3. v[i - produced] = i \/ i <= produced
    BY <1>1 DEF Answer
  <2>4. UpTo(produced + n)[i] = i
    BY <1>1 DEF UpTo
  <2> HIDE DEF u, v
  <2> QED BY <1>1, <2>1, <2>2, <2>3, <2>4
<1>8. u \o v = UpTo(produced + n)
  BY <1>2, <1>3, <1>4, <1>6, <1>7, SeqEqual
<1> QED BY <1>1, <1>2, <1>8

\* What is left of a file is a sequence of bytes.
LEMMA RestOfFile ==
    ASSUME NEW f \in Seq(1 .. Total), NEW k \in Nat
    PROVE  SubSeq(f, k + 1, Len(f)) \in Seq(1 .. Total)
<1>1. ASSUME NEW i \in k + 1 .. Len(f) PROVE f[i] \in 1 .. Total
  <2>1. i \in 1 .. Len(f)
    OBVIOUS
  <2> QED BY <2>1, ElementOfSeq
<1>2. k + 1 \in Int /\ Len(f) \in Int
  OBVIOUS
<1> QED BY <1>1, <1>2, SubSeqProperties

\* One piece of a file f that is partly read, or not yet: it is not empty, and
\* with the rest of the file it is what was left before.
LEMMA PieceOfFile ==
    ASSUME NEW f \in Seq(1 .. Total), NEW len \in Nat \ {0},
           fd_current_pos \in Nat, fd_current_pos < Len(f)
    PROVE  /\ NextPos(f, len) \in fd_current_pos + 1 .. Len(f)
           /\ Piece(f, len) \in Seq(1 .. Total)
           /\ Piece(f, len) \o SubSeq(f, NextPos(f, len) + 1, Len(f))
                  = SubSeq(f, fd_current_pos + 1, Len(f))
<1> DEFINE k == Least(fd_current_pos + len, Len(f))
<1>1. k \in fd_current_pos + 1 .. Len(f)
  BY DEF Least
<1>2. /\ Piece(f, len) \in Seq(1 .. Total)
      /\ Len(Piece(f, len)) = k - fd_current_pos
  <2> HIDE DEF k
  <2>1. \A i \in fd_current_pos + 1 .. k : f[i] \in 1 .. Total
    <3> SUFFICES ASSUME NEW i \in fd_current_pos + 1 .. k
                 PROVE  f[i] \in 1 .. Total
      OBVIOUS
    <3>1. i \in 1 .. Len(f)
      BY <1>1
    <3> QED BY <3>1, ElementOfSeq
  <2>2. fd_current_pos + 1 \in Int /\ k \in Int /\ fd_current_pos + 1 <= k
    BY <1>1
  <2>3. /\ SubSeq(f, fd_current_pos + 1, k) \in Seq(1 .. Total)
        /\ Len(SubSeq(f, fd_current_pos + 1, k)) = k - (fd_current_pos + 1) + 1
    BY <2>1, <2>2, SubSeqProperties
  <2> QED BY <1>1, <2>3 DEF Piece, k
<1>3. NextPos(f, len) = k
  BY <1>1, <1>2 DEF NextPos
<1>4. SubSeq(f, fd_current_pos + 1, k) \o SubSeq(f, k + 1, Len(f))
          = SubSeq(f, fd_current_pos + 1, Len(f))
  <2>1. /\ fd_current_pos + 1 \in 1 .. Len(f) + 1
        /\ k \in (fd_current_pos + 1) - 1 .. Len(f)
        /\ Len(f) \in k .. Len(f)
    BY <1>1
  <2> HIDE DEF k
  <2> QED BY <2>1, ConcatAdjacentSubSeq
<1> QED BY <1>1, <1>2, <1>3, <1>4 DEF Piece
-----------------------------------------------------------------------------
\* The invariant holds when the client starts.
LEMMA SockInvInit == Init => SockInv
<1> SUFFICES ASSUME Init PROVE SockInv OBVIOUS
<1>1. ReceivedInOrder
  <2>1. SubSeq(outFile, fd_current_pos + 1, Len(outFile)) = <<>>
    BY DEF Init
  <2>2. [i \in 1 .. produced |-> i] = <<>>
    BY DEF Init
  <2> QED BY <2>1, <2>2 DEF Init, ReceivedInOrder
<1>2. LookupsLeakNothing
  BY DEF Init, LookupsLeakNothing
<1>3. FilesOK
  <2>1. outFile \in Seq(1 .. Total) /\ got \in Seq(1 .. Total)
    BY EmptySeq DEF Init
  <2>2. watchdog \in 0 .. WatchdogLimit + 2 /\ produced \in 0 .. Total
    BY ConstantsAssumption DEF Init
  <2> QED BY <2>1, <2>2 DEF Init, FilesOK
<1>4. LookupsOK
  BY DEF Init, LookupsOK
<1>5. NothingStranded /\ KilledOnlyIdle /\ QueueInv /\ WatchdogInv
  BY ConstantsAssumption DEF Init, NothingStranded, KilledOnlyIdle, QueueInv, WatchdogInv
<1> QED BY <1>1, <1>2, <1>3, <1>4, <1>5 DEF SockInv

\* What a flush leaves for the rest of recvfrom: a file f that continues what
\* recv() has returned, q bytes in the queue and the watchdog at w.
Readable(f, q, w) ==
    /\ ~exited /\ f \in Seq(1 .. Total) /\ q \in Nat /\ w \in Nat
    /\ produced' \in 0 .. Total /\ ilock' = q
    /\ w <= WatchdogLimit + 1
    /\ q > 0 => f = <<>> /\ w = 0
    /\ f # <<>> => w <= 1
    /\ \/ fd_current_pos = 0 /\ fd_filesize = 0
       \/ fd_current_pos \in 1 .. Len(f) - 1 /\ fd_filesize = Len(f)
    /\ got \o SubSeq(f, fd_current_pos + 1, Len(f)) = UpTo(produced')

\* The rest of recvfrom keeps the invariant.
LEMMA ReceiveStep ==
    ASSUME SockInv, NEW f, NEW q, NEW w, NEW len \in Lengths,
           Readable(f, q, w), Receive(f, q, w, len)
    PROVE  SockInv'
<1> USE DEF Readable
<1> USE DEF SockInv
<1>0. len \in Nat \ {0} /\ Len(f) \in Nat /\ (f = <<>> <=> Len(f) = 0)
  BY ConstantsAssumption
<1>i. 0 <= WatchdogLimit + 1
  BY ConstantsAssumption
<1>w. \A v \in Nat : v <= WatchdogLimit + 1 => v \in 0 .. WatchdogLimit + 2
  BY ConstantsAssumption
<1>1. LookupsLeakNothing'
  BY DEF Receive, lookup, LookupsLeakNothing, Node, Address
<1>2. connected' \in BOOLEAN /\ exited' = FALSE /\ flushed' = FALSE
  BY DEF Receive, FilesOK
<1>3. LookupsOK'
  BY DEF Receive, lookup, LookupsOK
<1>4. CASE f = <<>>
  <2> SUFFICES ASSUME outFile' = f, fd_queue' = q, watchdog' = w,
                      UNCHANGED <<fd_current_pos, fd_filesize, got>>
               PROVE  SockInv'
    BY <1>4 DEF Receive
  <2>1. fd_current_pos = 0 /\ fd_filesize = 0
    BY <1>0, <1>4
  <2>2. FilesOK'
    BY <1>2, <1>w, <2>1 DEF FilesOK
  <2>3. ReceivedInOrder'
    BY DEF ReceivedInOrder, UpTo
  <2> QED
    BY <1>1, <1>2, <1>3, <1>4, <2>2, <2>3
       DEF NothingStranded, KilledOnlyIdle, QueueInv, WatchdogInv
<1>5. CASE f # <<>>
  <2> DEFINE pos  == NextPos(f, len)
             more == Piece(f, len)
  <2>1. q = 0 /\ ilock' = 0 /\ w <= 1
    BY <1>5
  <2>2. fd_current_pos \in Nat /\ fd_current_pos < Len(f)
    BY <1>0, <1>5
  <2>3. /\ pos \in fd_current_pos + 1 .. Len(f)
        /\ more \in Seq(1 .. Total)
        /\ more \o SubSeq(f, pos + 1, Len(f)) = SubSeq(f, fd_current_pos + 1, Len(f))
    BY <1>0, <2>2, PieceOfFile
  <2>i. pos \in Int
    BY <2>2, <2>3
  <2>4. SubSeq(f, pos + 1, Len(f)) \in Seq(1 .. Total)
    <3> HIDE DEF pos, more
    <3>1. pos \in Nat
      BY <1>0, <2>2, <2>3
    <3> QED BY <3>1, RestOfFile
  <2> HIDE DEF pos, more
  <2>5. (got \o more) \o SubSeq(f, pos + 1, Len(f)) = UpTo(produced')
    <3> DEFINE r    == SubSeq(f, pos + 1, Len(f))
               left == SubSeq(f, fd_current_pos + 1, Len(f))
               Byte == 1 .. Total
    <3>1. r \in Seq(Byte) /\ got \in Seq(Byte) /\ more \in Seq(Byte)
      BY <2>3, <2>4 DEF FilesOK
    <3>2. more \o r = left /\ got \o left = UpTo(produced')
      BY <2>3
    <3> HIDE DEF r, left, Byte
    <3>3. (got \o more) \o r = got \o (more \o r)
      BY ONLY <3>1, ConcatAssociative
    <3> QED BY <3>2, <3>3 DEF r
  <2>6. got \o more \in Seq(1 .. Total)
    BY <2>3, ConcatProperties DEF FilesOK
  <2>7. (IF fd_filesize = 0 THEN FdTell(f) ELSE fd_filesize) = Len(f)
    BY DEF FdTell
  <2>8. CASE pos < Len(f)
    <3>1. /\ fd_current_pos' = pos /\ fd_filesize' = Len(f) /\ outFile' = f
          /\ fd_queue' = q /\ watchdog' = w /\ got' = got \o more
      BY <1>0, <1>5, <2>7, <2>8, <2>i DEF Receive, pos, more
    <3>2. FilesOK'
      <4>1. fd_current_pos' \in 1 .. Len(outFile') - 1
        BY <1>0, <2>2, <2>3, <2>8, <3>1
      <4>2. watchdog' \in 0 .. WatchdogLimit + 2
        BY <1>w, <3>1
      <4> QED BY <1>2, <2>1, <2>6, <3>1, <4>1, <4>2 DEF FilesOK
    <3>3. ReceivedInOrder'
      BY <2>5, <3>1 DEF ReceivedInOrder, UpTo
    <3> QED
      BY <1>1, <1>2, <1>3, <2>1, <2>2, <2>3, <3>1, <3>2, <3>3
         DEF NothingStranded, KilledOnlyIdle, QueueInv, WatchdogInv
  <2>9. CASE pos >= Len(f)
    <3>1. /\ fd_current_pos' = 0 /\ fd_filesize' = 0 /\ outFile' = <<>>
          /\ fd_queue' = 0 /\ watchdog' = 0 /\ got' = got \o more
      BY <1>0, <1>5, <2>7, <2>9, <2>i DEF Receive, pos, more, PosReset, WatchdogReset
    <3>2. FilesOK'
      <4>1. watchdog' \in 0 .. WatchdogLimit + 2
        BY <3>1, ConstantsAssumption
      <4>2. outFile' \in Seq(1 .. Total)
        BY <3>1, EmptySeq
      <4> QED BY <1>2, <2>1, <2>6, <3>1, <4>1, <4>2 DEF FilesOK
    <3>3. SubSeq(f, pos + 1, Len(f)) = SubSeq(outFile', 0 + 1, Len(outFile'))
      BY <1>0, <2>2, <2>3, <2>9, <3>1, SubSeqEmpty, EmptySeq
    <3>4. ReceivedInOrder'
      BY <2>5, <3>1, <3>3 DEF ReceivedInOrder, UpTo
    <3> QED
      BY <1>1, <1>2, <1>3, <1>i, <2>1, <3>1, <3>2, <3>4
         DEF NothingStranded, KilledOnlyIdle, QueueInv, WatchdogInv
  <2> QED BY <1>0, <2>2, <2>3, <2>8, <2>9
<1> QED BY <1>4, <1>5

\* Every step keeps the invariant, one step of the proof per action.
LEMMA SockInvStep == SockInv /\ [Next]_vars => SockInv'
<1> SUFFICES ASSUME SockInv, [Next]_vars PROVE SockInv' OBVIOUS
<1> USE DEF SockInv
<1>a. /\ outFile \in Seq(1 .. Total) /\ got \in Seq(1 .. Total)
      /\ produced \in 0 .. Total /\ MaxBytes \in Nat /\ Total \in Nat
      /\ WatchdogLimit \in Nat \ {0}
  BY ConstantsAssumption DEF FilesOK
<1>b. outFile = <<>> <=> Len(outFile) = 0
  BY <1>a
<1>c. outFile = <<>> => fd_current_pos = 0 /\ fd_filesize = 0
  BY <1>b DEF FilesOK
<1>d. ASSUME UNCHANGED reply PROVE ReceivedInOrder'
  BY <1>d DEF reply, ReceivedInOrder
<1>e. ASSUME UNCHANGED lookup PROVE LookupsOK' /\ LookupsLeakNothing'
  BY <1>e DEF lookup, LookupsOK, LookupsLeakNothing
<1>f. ASSUME UNCHANGED <<request, reply, watchdog, exited, flushed>>
      PROVE  /\ FilesOK' /\ ReceivedInOrder' /\ NothingStranded'
             /\ KilledOnlyIdle' /\ QueueInv' /\ WatchdogInv'
  BY <1>d, <1>f DEF request, reply, FilesOK, NothingStranded, KilledOnlyIdle,
                    QueueInv, WatchdogInv
<1>g. ASSUME NEW n \in Answers, outFile = <<>>
      PROVE  got \o SubSeq(Answer(n), fd_current_pos + 1, Len(Answer(n)))
                 = UpTo(produced + n)
  <2>1. SubSeq(outFile, fd_current_pos + 1, Len(outFile)) = <<>>
    BY <1>b, <1>c, <1>g, SubSeqEmpty
  <2>2. got = UpTo(produced)
    BY <1>a, <2>1, ConcatEmptySeq DEF ReceivedInOrder, UpTo
  <2>3. Answer(n) \in Seq(1 .. Total)
    BY <1>a, AnswerFollows
  <2>4. SubSeq(Answer(n), fd_current_pos + 1, Len(Answer(n))) = Answer(n)
    BY <1>c, <1>g, <2>3, SubSeqFull
  <2> QED BY <1>a, <2>2, <2>4, AnswerFollows
<1>h. ASSUME BusyLoop, Exit, ~exited,
             outFile # <<>> => fd_current_pos = 0 \/ ~flushed
      PROVE  SockInv'
  <2>1. outFile = <<>> /\ ilock = 0
    BY <1>a, <1>h DEF BusyLoop, WatchdogInv, NothingStranded, FilesOK
  <2>2. watchdog' \in 0 .. WatchdogLimit + 2
    BY <1>a, <1>h DEF Exit, WatchdogInv, FilesOK
  <2>3. FilesOK'
    BY <1>h, <2>2 DEF Exit, FilesOK, request, reply
  <2> QED
    BY <1>d, <1>e, <1>h, <2>1, <2>3
       DEF Exit, BusyLoop, request, reply, NothingStranded, KilledOnlyIdle,
           QueueInv, WatchdogInv
<1>1. ASSUME NEW i \in 1 .. MaxLists, SdkGetaddrinfo(i) PROVE SockInv'
  <2>1. i \notin lists => Node(i) \notin heap /\ Address(i) \notin heap
    BY DEF LookupsLeakNothing, Node, Address
  <2>2. LookupsLeakNothing'
    BY <1>1, <2>1 DEF SdkGetaddrinfo, LookupsLeakNothing, NodeFreed, BothFreed
  <2>3. LookupsOK'
    <3>1. {Node(i), Address(i)} \subseteq {"addrinfo", "sockaddr_in"} \X (1 .. MaxLists)
      BY DEF Node, Address
    <3>2. gaiError' \in Explained \cup {"none", "hstrerror"}
      BY <1>1 DEF SdkGetaddrinfo, GaiStrerror, Explained
    <3> QED
      BY <1>1, <3>1, <3>2 DEF SdkGetaddrinfo, LookupsOK, NodeFreed, BothFreed
  <2> QED BY <1>1, <1>f, <2>2, <2>3 DEF SdkGetaddrinfo
<1>2. ASSUME NEW i \in 1 .. MaxLists, SdkFreeaddrinfo(i) PROVE SockInv'
  <2>1. LookupsLeakNothing'
    <3>1. \A j \in lists \ {i} :
              {Node(j), Address(j)} \cap {Node(i), Address(i)} = {}
      BY DEF Node, Address
    <3> QED BY <1>2, <3>1 DEF SdkFreeaddrinfo, LookupsLeakNothing, BothFreed
  <2>2. LookupsOK'
    BY <1>2 DEF SdkFreeaddrinfo, LookupsOK
  <2> QED BY <1>2, <1>f, <2>1, <2>2 DEF SdkFreeaddrinfo
<1>3. CASE SdkGethostbyname
  <2>1. LookupsLeakNothing' /\ LookupsOK'
    BY <1>3 DEF SdkGethostbyname, LookupsLeakNothing, LookupsOK
  <2> QED BY <1>3, <1>f, <2>1 DEF SdkGethostbyname
<1>4. CASE SdkConnect
  <2>1. FilesOK'
    BY <1>4 DEF SdkConnect, reply, FilesOK
  <2> QED
    BY <1>4, <1>d, <1>e, <2>1
       DEF SdkConnect, reply, NothingStranded, KilledOnlyIdle, QueueInv, WatchdogInv
<1>5. CASE PqFlush
  <2>0. ~exited /\ ~flushed
    BY <1>5 DEF PqFlush
  <2>1. ASSUME NEW n \in Answers, Yields, HandOver(n), outFile' = Answer(n),
               fd_queue' = 0, flushed' = TRUE,
               UNCHANGED <<connected, fd_current_pos, fd_filesize, got, watchdog,
                           exited, lookup>>
        PROVE  SockInv'
    <3>1. outFile = <<>> /\ watchdog = 0 /\ fd_current_pos = 0 /\ fd_filesize = 0
      BY <1>c, <2>1 DEF QueueInv, Yields
    <3>2. outFile' \in Seq(1 .. Total) /\ produced' \in 0 .. Total
      BY <1>a, <2>1, AnswerFollows DEF HandOver
    <3>3. FilesOK'
      BY <2>1, <3>1, <3>2 DEF FilesOK, HandOver
    <3>4. ReceivedInOrder'
      BY <1>g, <2>1, <3>1 DEF ReceivedInOrder, UpTo, HandOver
    <3>5. WatchdogInv'
      BY <1>a, <2>1, <3>1 DEF WatchdogInv
    <3> QED
      BY <1>e, <2>0, <2>1, <3>3, <3>4, <3>5
         DEF HandOver, NothingStranded, KilledOnlyIdle, QueueInv
  <2>2. ASSUME NoYield, watchdog' = watchdog + 1, flushed' = TRUE,
               UNCHANGED <<request, reply, exited, lookup>>
        PROVE  SockInv'
    <3>1. /\ watchdog' \in 0 .. WatchdogLimit + 2
          /\ watchdog' <= WatchdogLimit + 1
      BY <1>a, <2>2 DEF NoYield, FilesOK
    <3>2. FilesOK'
      BY <2>2, <3>1 DEF FilesOK, request, reply
    <3>3. WatchdogInv'
      BY <2>0, <2>2, <3>1 DEF WatchdogInv, FilesOK, reply
    <3>4. NothingStranded' /\ QueueInv'
      <4>1. fd_queue' = 0 /\ ilock' = 0
        BY <2>2 DEF NoYield, request, NothingStranded
      <4> QED BY <4>1 DEF NothingStranded, QueueInv
    <3>5. KilledOnlyIdle'
      BY <2>0, <2>2 DEF KilledOnlyIdle
    <3> QED BY <1>d, <1>e, <2>2, <3>2, <3>3, <3>4, <3>5
  <2>3. CASE BusyLoop /\ Exit
    BY <1>h, <2>0, <2>3
  <2> QED BY <1>5, <2>1, <2>2, <2>3 DEF PqFlush
<1>6. ASSUME NEW n \in 1 .. MaxBytes, SdkSendto(n) PROVE SockInv'
  <2>1. watchdog' \in 0 .. WatchdogLimit + 2
    BY <1>6, <1>a DEF SdkSendto, WatchdogReset
  <2> QED
    BY <1>6, <1>a, <1>d, <1>e, <2>1
       DEF SdkSendto, Queued, WatchdogReset, reply, FilesOK, NothingStranded,
           KilledOnlyIdle, QueueInv, WatchdogInv
<1>7. ASSUME NEW len \in Lengths, SdkRecvfrom(len) PROVE SockInv'
  <2>0. ~exited
    BY <1>7 DEF SdkRecvfrom
  <2>1. ASSUME fd_current_pos = 0, Yields, NEW n \in Answers, HandOver(n),
               Receive(Answer(n), 0, watchdog, len)
        PROVE  SockInv'
    <3>1. outFile = <<>> /\ watchdog = 0 /\ fd_filesize = 0
      BY <1>c, <2>1 DEF QueueInv, Yields
    <3>2. Answer(n) \in Seq(1 .. Total) /\ produced' \in 0 .. Total
      BY <1>a, <2>1, AnswerFollows DEF HandOver
    <3>3. got \o SubSeq(Answer(n), fd_current_pos + 1, Len(Answer(n)))
              = UpTo(produced')
      BY <1>g, <2>1, <3>1 DEF HandOver
    <3>4. watchdog \in Nat /\ watchdog <= WatchdogLimit + 1 /\ ilock' = 0
      BY <1>a, <2>1, <3>1 DEF HandOver
    <3>5. Readable(Answer(n), 0, watchdog)
      BY <2>0, <2>1, <3>1, <3>2, <3>3, <3>4 DEF Readable
    <3> QED BY <2>1, <3>5, ReceiveStep
  <2>2. ASSUME fd_current_pos = 0, NoYield, Receive(outFile, 0, watchdog + 1, len),
               UNCHANGED <<produced, ilock>>
        PROVE  SockInv'
    <3>1. /\ watchdog + 1 \in Nat /\ watchdog + 1 <= WatchdogLimit + 1
          /\ outFile # <<>> => watchdog + 1 <= 1
      BY <1>a, <2>2 DEF NoYield, FilesOK, WatchdogInv
    <3>2. ilock' = 0
      BY <2>2 DEF NoYield, NothingStranded
    <3>3. got \o SubSeq(outFile, fd_current_pos + 1, Len(outFile))
              = UpTo(produced')
      BY <2>2 DEF ReceivedInOrder, UpTo
    <3>4. fd_filesize = 0 /\ produced' \in 0 .. Total
      BY <1>a, <2>2 DEF FilesOK
    <3>5. Readable(outFile, 0, watchdog + 1)
      BY <1>a, <2>0, <2>2, <3>1, <3>2, <3>3, <3>4 DEF Readable
    <3> QED BY <2>2, <3>5, ReceiveStep
  <2>3. CASE fd_current_pos = 0 /\ BusyLoop /\ Exit
    BY <1>h, <2>0, <2>3
  <2>4. ASSUME fd_current_pos > 0, Receive(outFile, fd_queue, WatchdogReset, len),
               UNCHANGED <<produced, ilock>>
        PROVE  SockInv'
    <3>1. outFile # <<>> /\ fd_queue = 0
      BY <1>c, <2>4 DEF QueueInv, FilesOK
    <3>2. ilock' = 0
      BY <2>4, <3>1 DEF NothingStranded
    <3>3. got \o SubSeq(outFile, fd_current_pos + 1, Len(outFile))
              = UpTo(produced')
      BY <2>4 DEF ReceivedInOrder, UpTo
    <3>4. 0 <= WatchdogLimit + 1 /\ produced' \in 0 .. Total
      BY <1>a, <2>4
    <3>5. \/ fd_current_pos = 0 /\ fd_filesize = 0
          \/ fd_current_pos \in 1 .. Len(outFile) - 1 /\ fd_filesize = Len(outFile)
      BY DEF FilesOK
    <3>6. Readable(outFile, 0, 0)
      <4>1. 0 \in Nat /\ 0 <= 1 /\ ~(0 > 0)
        OBVIOUS
      <4> QED BY <1>a, <2>0, <3>2, <3>3, <3>4, <3>5, <4>1, Zenon DEF Readable
    <3> QED BY <2>4, <3>1, <3>6, ReceiveStep DEF WatchdogReset
  <2> QED BY <1>7, <2>1, <2>2, <2>3, <2>4 DEF SdkRecvfrom
<1>8. CASE UNCHANGED vars
  BY <1>8, <1>e, <1>f DEF vars
<1> QED
  BY <1>1, <1>2, <1>3, <1>4, <1>5, <1>6, <1>7, <1>8
     DEF Next, SetsockoptEtc, SdkGetsockopt

\* Hence it holds in every reachable state.
LEMMA SockInvariance == Spec => []SockInv
  BY SockInvInit, SockInvStep, PTL DEF Spec
-----------------------------------------------------------------------------
\* Every variable of sdk_socket.c keeps its type; a position in the reply and a
\* size of it are kept only while the reply is partly read.
THEOREM SocketTypeCorrect == Spec => []TypeOK
<1>1. SockInv => TypeOK
  BY DEF SockInv, FilesOK, LookupsOK, TypeOK
<1> QED BY <1>1, SockInvariance, PTL

\* recv() returns every byte the backend has replied with, once and in order,
\* for all sizes of replies and buffers.
THEOREM SocketReceivesInOrder == Spec => []ReceivedInOrder
<1>1. SockInv => ReceivedInOrder
  BY DEF SockInv
<1> QED BY <1>1, SockInvariance, PTL

\* fd_queue, which decides whether sdk_sock_flush yields, agrees with PGS_ILOCK.
THEOREM SocketStrandsNothing == Spec => []NothingStranded
<1>1. SockInv => NothingStranded
  BY DEF SockInv
<1> QED BY <1>1, SockInvariance, PTL

\* The watchdog of sdk_sock_flush ends no client that has something to hand over
\* or to read, for every limit above 0.
THEOREM SocketKilledOnlyIdle == Spec => []KilledOnlyIdle
<1>1. SockInv => KilledOnlyIdle
  BY DEF SockInv
<1> QED BY <1>1, SockInvariance, PTL

\* Every block of the address lookups belongs to a list the client holds.
THEOREM SocketLeaksNothing == Spec => []LookupsLeakNothing
<1>1. SockInv => LookupsLeakNothing
  BY DEF SockInv
<1> QED BY <1>1, SockInvariance, PTL
=============================================================================
