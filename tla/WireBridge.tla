----------------------------- MODULE WireBridge -----------------------------
(***************************************************************************)
(* PGLite.execProtocolRaw and the buffers it shares with the patched       *)
(* backend: the request is written into a contiguous memory area (CMA),    *)
(* the reply follows it there, or goes to a file when the area is full,    *)
(* and a PostgreSQL ERROR traps the WASM instance, which Java recovers.    *)
(* A message and a piece of output take one cell of memory each.           *)
(***************************************************************************)
EXTENDS Integers, Sequences

CONSTANTS
    Chunks,      \* the requests: sequences of Messages
    CmaSize,     \* cells of the CMA: CMA_MB megabytes in the code
    MaxTicks     \* 256 in the code

\* A message that is answered, one that is not (CopyData, Flush), one whose
\* execution raises an ERROR, and the Sync that ends a batch.
Messages == {"ok", "mute", "err", "sync"}
Output(m) == CASE m = "ok" -> <<"row">> [] m = "sync" -> <<"ready">>
               [] OTHER -> <<>>

ASSUME ConstantsAssumption ==
    /\ Chunks \subseteq Seq(Messages) \ {<<>>}
    /\ CmaSize \in Nat /\ CmaSize >= 2 /\ MaxTicks \in Nat \ {0}
    /\ \A c \in Chunks : 2 + Len(c) <= CmaSize

VARIABLES
    jpc,             \* where execProtocolRaw, or the backend it called, is
    tick,            \* the loop counter of execProtocolRaw
    producedBefore,  \* its local: the first collectReply found something
    replies,         \* the output collected, concatenated
    pendingWireLen,  \* PGLite.pendingWireLen
    asked,           \* the request
    mem,             \* the CMA: what each cell holds
    cma_rsize,       \* set by interactive_write: request length, 0 or -1
    cma_wsize,       \* read by interactive_read: reply length in the CMA
    outFile,         \* .s.PGSQL.5432.out; <<>> when it does not exist
    sockfiles,       \* the backend writes to a file; the channel is negative
    recv,            \* the receive buffer: messages not yet read
    base,            \* PqSendBuffer, an address
    sent,            \* PqSendPointer
    socketFile,      \* SOCKET_FILE: output redirected to the lock file
    errorFlag        \* pgl_error_flag

caller  == <<tick, producedBefore, asked>>
collect == <<replies, pendingWireLen, cma_rsize, cma_wsize, outFile>>
send    == <<mem, sockfiles, sent, socketFile>>
vars == <<jpc, caller, collect, send, recv, base, errorFlag>>

bufferAddr == 1
Cells  == 0 .. CmaSize - 1
Pieces == {"row", "error", "ready"}
Tokens == Messages \cup Pieces \cup {"unwritten"}

TypeOK ==
    /\ jpc \in {"idle", "before", "one", "serving", "after", "trapped",
                "resume", "last", "dead"}
    /\ tick \in 0 .. MaxTicks /\ producedBefore \in BOOLEAN
    /\ replies \in Seq(Pieces) /\ asked \in Seq(Messages)
    /\ pendingWireLen \in Nat
    /\ mem \in [Cells -> Tokens]
    /\ cma_rsize \in Nat \cup {-1} /\ cma_wsize \in Nat
    /\ outFile \in Seq(Pieces) /\ socketFile \in Seq(Pieces)
    /\ sockfiles \in BOOLEAN /\ errorFlag \in BOOLEAN
    /\ recv \in Seq(Messages)
    /\ base \in Nat /\ sent \in Nat /\ base + sent <= CmaSize

\* The constructor has called interactiveWrite(0) and has the buffer address.
Init ==
    /\ jpc = "idle" /\ tick = 0 /\ producedBefore = FALSE
    /\ replies = <<>> /\ asked = <<>> /\ pendingWireLen = 0
    /\ mem = [a \in Cells |-> "unwritten"]
    /\ cma_rsize = 0 /\ cma_wsize = 0
    /\ outFile = <<>> /\ socketFile = <<>>
    /\ sockfiles = FALSE /\ errorFlag = FALSE
    /\ recv = <<>> /\ base = 2 /\ sent = 0

\* n cells of the CMA from address a on.
ReadAt(a, n) == [i \in 1 .. n |-> mem[a + i - 1]]

\* interactive_write: the size of the request, and no reply yet.
InteractiveWrite(n) == cma_rsize' = n /\ cma_wsize' = 0
-----------------------------------------------------------------------------
(***************************************************************************)
(* execProtocolRaw                                                         *)
(***************************************************************************)
WireSendCma(c) ==
    /\ jpc = "idle" /\ jpc' = "before"
    /\ mem' = [a \in Cells |-> IF a - bufferAddr \in 0 .. Len(c) - 1
                                 THEN c[a - bufferAddr + 1] ELSE mem[a]]
    /\ InteractiveWrite(Len(c)) /\ pendingWireLen' = Len(c)
    /\ asked' = c /\ replies' = <<>> /\ tick' = 0
    /\ UNCHANGED <<producedBefore, outFile, sockfiles, sent, socketFile, recv,
                   base, errorFlag>>

\* Where wireRecvCma reads.  Mutant: the cell after the request is not skipped.
NextToRequest == bufferAddr + pendingWireLen
ReplyAddr == bufferAddr + pendingWireLen + 1

\* What collectReply finds: the file if the channel is negative, else as much
\* of the CMA as interactive_read says.
Reply == IF sockfiles THEN outFile ELSE ReadAt(ReplyAddr, cma_wsize)

\* What has been collected is not there any more.  Mutant: it stays.
NotTaken == UNCHANGED <<cma_rsize, cma_wsize>>
Taken == InteractiveWrite(0)

CollectReply ==
    IF Reply # <<>>
      THEN /\ replies' = replies \o Reply
           /\ outFile' = IF sockfiles THEN <<>> ELSE outFile
           /\ Taken /\ pendingWireLen' = 0
      ELSE UNCHANGED collect

CollectBefore ==
    /\ jpc = "before" /\ jpc' = "one"
    /\ producedBefore' = (Reply # <<>>)
    /\ CollectReply
    /\ UNCHANGED <<tick, asked, send, recv, base, errorFlag>>

\* The loop goes on while a tick produced something, up to its bound.
CollectAfter ==
    /\ jpc = "after" /\ CollectReply
    /\ tick' = tick + 1
    /\ jpc' = IF (producedBefore \/ Reply # <<>>) /\ tick + 1 < MaxTicks
                THEN "before" ELSE "idle"
    /\ UNCHANGED <<producedBefore, asked, send, recv, base, errorFlag>>

\* After the recovery: one more collectReply, and break.
CollectLast ==
    /\ jpc = "last" /\ jpc' = "idle"
    /\ CollectReply
    /\ UNCHANGED <<caller, send, recv, base, errorFlag>>
-----------------------------------------------------------------------------
(***************************************************************************)
(* interactive_one, with the patched pqcomm.c, elog.c and its own patch.   *)
(***************************************************************************)
\* What moves to the file when the CMA is full.  Mutant: nothing does.
NothingBuffered == <<>>
Buffered == ReadAt(base, sent)

\* internal_putbytes of at most one piece of output.
PutBytes(out) ==
    \/ out = <<>> /\ UNCHANGED send
    \/ /\ out # <<>> /\ ~sockfiles /\ base + sent < CmaSize
       /\ mem' = [mem EXCEPT ![base + sent] = out[1]]
       /\ sent' = sent + 1
       /\ UNCHANGED <<sockfiles, socketFile>>
    \/ /\ out # <<>> /\ ~sockfiles /\ base + sent >= CmaSize
       /\ socketFile' = Buffered \o out
       /\ sockfiles' = TRUE
       /\ UNCHANGED <<mem, sent>>
    \/ /\ out # <<>> /\ sockfiles
       /\ socketFile' = socketFile \o out
       /\ UNCHANGED <<mem, sockfiles, sent>>

\* A request in the CMA: pq_startmsgread finds the receive buffer empty, points
\* it at the request and puts the send buffer two cells behind.
StartMsgRead ==
    /\ jpc = "one" /\ jpc' = "serving"
    /\ cma_rsize > 0
    /\ recv' = ReadAt(bufferAddr, cma_rsize)
    /\ base' = 2 + cma_rsize /\ sent' = 0
    /\ sockfiles' = FALSE /\ socketFile' = <<>>
    /\ UNCHANGED <<caller, collect, mem, errorFlag>>

\* No request: nothing happens.
NothingToRead ==
    /\ jpc = "one" /\ jpc' = "after"
    /\ cma_rsize = 0
    /\ UNCHANGED <<caller, collect, send, recv, base, errorFlag>>

\* sigsetjmp() returns once, with 0, so that no PG_CATCH block is ever entered:
\* an error leaves the whole message, whatever blocks it is raised in.
Sigsetjmp == 0
Raises(m) == m = "err" /\ Sigsetjmp = 0

Serve ==
    /\ jpc = "serving" /\ recv # <<>> /\ ~Raises(Head(recv))
    /\ PutBytes(Output(Head(recv)))
    /\ recv' = Tail(recv)
    /\ UNCHANGED <<jpc, caller, collect, base, errorFlag>>

\* errfinish: pgl_on_error sets the flag, then the instance traps.
ErrFinish ==
    /\ jpc = "serving" /\ recv # <<>> /\ Raises(Head(recv))
    /\ errorFlag' = TRUE /\ jpc' = "trapped"
    /\ recv' = Tail(recv)
    /\ UNCHANGED <<caller, collect, send, base>>

\* Any other trap is thrown to the caller of execProtocolRaw; what the
\* instance does from then on is not modelled.
OtherTrap ==
    /\ jpc = "serving" /\ jpc' = "dead"
    /\ UNCHANGED <<caller, collect, send, recv, base, errorFlag>>
Dead == jpc = "dead" /\ UNCHANGED vars

\* The reply is handed over: a length in the CMA, or the file renamed.
Flush == IF sockfiles'
           THEN outFile' = socketFile' /\ UNCHANGED cma_wsize
           ELSE cma_wsize' = sent' /\ UNCHANGED outFile

WireFlush ==
    /\ jpc = "serving" /\ recv = <<>> /\ jpc' = "after"
    /\ UNCHANGED send /\ Flush
    /\ UNCHANGED <<caller, replies, pendingWireLen, cma_rsize, recv, base,
                   errorFlag>>

\* pglCheckError() reads and resets the flag; clearError() reports the error;
\* interactiveWrite(-1) asks for the resumption.
ClearError ==
    /\ jpc = "trapped" /\ errorFlag /\ jpc' = "resume"
    /\ errorFlag' = FALSE
    /\ PutBytes(<<"error">>)
    /\ InteractiveWrite(-1)
    /\ UNCHANGED <<caller, replies, pendingWireLen, outFile, recv, base>>

\* resume_on_error: the rest of the receive buffer is drained and the session
\* is ready again.  Mutant: it is not drained.
NotDrained == recv
Drained == <<>>

ResumeOnError ==
    /\ jpc = "resume" /\ cma_rsize = -1 /\ jpc' = "last"
    /\ recv' = Drained
    /\ PutBytes(<<"ready">>)
    /\ Flush
    /\ UNCHANGED <<caller, replies, pendingWireLen, cma_rsize, base, errorFlag>>

Next ==
    \/ \E c \in Chunks : WireSendCma(c)
    \/ CollectBefore \/ CollectAfter \/ CollectLast
    \/ StartMsgRead \/ NothingToRead \/ Serve \/ ErrFinish \/ OtherTrap \/ Dead
    \/ WireFlush \/ ClearError \/ ResumeOnError

Spec == Init /\ [][Next]_vars
-----------------------------------------------------------------------------
(***************************************************************************)
(* The PostgreSQL protocol's answer to a sequence of messages: after an    *)
(* error the rest of the batch is skipped, its Sync is answered.           *)
(***************************************************************************)
Begun == [skip |-> FALSE, out |-> <<>>]
Answered(p, m) ==
    IF m = "sync" THEN [skip |-> FALSE, out |-> Append(p.out, "ready")]
    ELSE IF p.skip THEN p
    ELSE IF m = "err" THEN [skip |-> TRUE, out |-> Append(p.out, "error")]
    ELSE [skip |-> FALSE, out |-> p.out \o Output(m)]

Transcript(ms) ==
    LET after[i \in 0 .. Len(ms)] ==
          IF i = 0 THEN Begun ELSE Answered(after[i - 1], ms[i])
    IN after
Protocol(ms) == Transcript(ms)[Len(ms)].out

\* execProtocolRaw returns what the protocol prescribes for its request: no
\* piece of output lost, repeated, taken from another request or read from the
\* wrong place, whether it travelled in the CMA, in the file, or began in the
\* one and overflowed into the other, and with an error anywhere in between.
RepliesFollowProtocol == jpc = "idle" => replies = Protocol(asked)

\* Between two calls nothing is left over that the next one could pick up.
CleanBetweenCalls ==
    jpc = "idle" => /\ outFile = <<>> /\ cma_wsize = 0
                    /\ recv = <<>> /\ ~errorFlag

\* The bound on the ticks never cuts a reply short: one tick serves the whole
\* request, the next one finds nothing more, and the loop ends by itself.
LoopEndsByItself == tick <= 2
=============================================================================
