--------------------------- MODULE ManagedInstance ---------------------------
(***************************************************************************)
(* One booted PgLiteDriver.ManagedInstance: the accept loop, a handler     *)
(* thread per accepted socket, the backup scheduler's thread and the       *)
(* thread that calls close().  They share the PGLite object (one WASM      *)
(* instance, one PostgreSQL session), which pgLock is meant to guard.      *)
(* A thread is inside the WASM instance while its label is an exec or a    *)
(* dump, so overlapping calls are visible as states.                       *)
(***************************************************************************)
EXTENDS FiniteSets, Sequences

CONSTANTS
    Conns,         \* the client connections made while the instance lives
    Queriers,      \* the clients that send queries once they are ready
    Quitters,      \* the clients that may leave at any time
    Persistent,    \* dataDir # null: the URL names a file, not memory:
    DumpFailures   \* what may go wrong in dumpDataDir: a subset of
                   \* {"io", "runtime", "stale"}

ASSUME ConstantsAssumption ==
    /\ IsFiniteSet(Conns)
    /\ Queriers \subseteq Conns /\ Quitters \subseteq Conns
    /\ Persistent \in BOOLEAN
    /\ DumpFailures \subseteq {"io", "runtime", "stale"}
    /\ {"none", "backup", "closer"} \cap Conns = {}

VARIABLES
    running,        \* volatile boolean running
    serverOpen,     \* serverSocket is not closed
    accept,         \* where the accept thread is
    backup,         \* where the backup scheduler's thread is
    closer,         \* where the thread in close() is
    pending,        \* close(): registered sockets its loop has yet to visit
    finalDump,      \* how close()'s own dump ended
    pgLock,         \* the thread that holds pgLock, or "none"
    activeSockets,  \* the sockets handlers have registered
    closedSockets,  \* the sockets closed on the server side
    pc,             \* where each connection's handler thread is
    cached,         \* cachedStartupResponses: NoCache or a sequence of replies
    todo,           \* handleStartup: the replies collected, or left to replay
    inbox,          \* the chunk a client has sent and no handler has read
    buf,            \* the chunk a handler has read from its socket
    client,         \* what each client knows and waits for
    dirty           \* queries executed, or acknowledged, since the last dump

life  == <<running, serverOpen, accept, backup, closer, pending, finalDump>>
socks == <<activeSockets, closedSockets>>
start == <<cached, todo>>
wire  == <<inbox, buf, client>>
vars  == <<life, pgLock, socks, pc, start, wire, dirty>>

NoCache == <<"not cached">>
NoMsg   == "no message"
Msgs    == {"startup", "password", "query"}
Replies == {"auth", "ready", "rows"}

\* What execProtocolRaw answers to a client's chunk: the backend asks for a
\* password, then is ready, then serves rows.
Reply(m) == CASE m = "startup"  -> "auth"
              [] m = "password" -> "ready"
              [] OTHER          -> "rows"

\* The last reply of a startup and every reply to a query end with the message
\* ReadyForQuery.  Mutant: any reply ends the startup.
AnyReplyEnds(r) == r \in Replies
EndsWithReadyForQuery(r) == r \in {"ready", "rows"}

HandlerStates ==
    {"unconnected", "backlog", "refused", "register", "peek", "replay",
     "enter", "lreplay", "sloop", "sread", "sexec", "loop", "read", "lock",
     "exec", "write", "finally", "done"}
\* The labels inside a synchronized block, and those inside the WASM instance.
LockedStates == {"lreplay", "sloop", "sread", "sexec", "exec"}
ExecStates   == {"sexec", "exec"}

TypeOK ==
    /\ running \in BOOLEAN /\ serverOpen \in BOOLEAN
    /\ accept \in {"check", "accept", "done"}
    /\ backup \in {"wait", "lock", "dump", "cancelled", "stopped"}
    /\ closer \in {"idle", "stop", "server", "sweep", "lock", "dump", "final",
                   "closed", "aborted"}
    /\ pending \subseteq Conns
    /\ finalDump \in {"none", "ok", "stale", "failed"}
    /\ pgLock \in Conns \cup {"none", "backup", "closer"}
    /\ activeSockets \subseteq Conns /\ closedSockets \subseteq Conns
    /\ pc \in [Conns -> HandlerStates]
    /\ cached \in Seq(Replies) \cup {NoCache}
    /\ todo \in [Conns -> Seq(Replies)]
    /\ inbox \in [Conns -> Msgs \cup {NoMsg}]
    /\ buf \in [Conns -> Msgs \cup {NoMsg}]
    /\ client \in [Conns -> {"new", "greeted", "challenged", "answered",
                             "ready", "waiting", "gone"}]
    /\ dirty \in [Conns -> {"clean", "executed", "acked"}]

\* boot() has returned: the socket listens, the accept thread runs, and there
\* is a scheduler if there is a file to back up to.
Init ==
    /\ running = TRUE /\ serverOpen = TRUE
    /\ accept = "check"
    /\ backup = IF Persistent THEN "wait" ELSE "stopped"
    /\ closer = "idle" /\ pending = {} /\ finalDump = "none"
    /\ pgLock = "none"
    /\ activeSockets = {} /\ closedSockets = {}
    /\ pc = [c \in Conns |-> "unconnected"]
    /\ cached = NoCache /\ todo = [c \in Conns |-> <<>>]
    /\ inbox = [c \in Conns |-> NoMsg] /\ buf = [c \in Conns |-> NoMsg]
    /\ client = [c \in Conns |-> "new"]
    /\ dirty = [c \in Conns |-> "clean"]

At(c, label)   == pc[c] = label
Goto(c, label) == pc' = [pc EXCEPT ![c] = label]
Acquire(t)     == pgLock = "none" /\ pgLock' = t
Release(t)     == pgLock' = IF pgLock = t THEN "none" ELSE pgLock
-----------------------------------------------------------------------------
(***************************************************************************)
(* The clients: pgjdbc connections of the same JVM.  A client sends its    *)
(* next message only when it has the reply to the last one, and may leave. *)
(***************************************************************************)
Connect(c) ==
    /\ At(c, "unconnected") /\ serverOpen
    /\ Goto(c, "backlog")
    /\ UNCHANGED wire

Says(c, from, to) ==
    /\ client[c] = from /\ pc[c] \notin {"unconnected", "refused", "done"}
    /\ client' = [client EXCEPT ![c] = to]
    /\ UNCHANGED <<pc, buf>>
Send(c, from, m, to) == Says(c, from, to) /\ inbox' = [inbox EXCEPT ![c] = m]

ClientStarts(c) == \/ Send(c, "new", "startup", "greeted")
                   \/ Send(c, "challenged", "password", "answered")
ClientQueries(c) == c \in Queriers /\ Send(c, "ready", "query", "waiting")
Disconnect(c) ==
    /\ c \in Quitters /\ client[c] # "gone"
    /\ Says(c, client[c], "gone")
    /\ UNCHANGED inbox

Client(c) ==
    /\ Connect(c) \/ ClientStarts(c) \/ ClientQueries(c) \/ Disconnect(c)
    /\ UNCHANGED <<life, pgLock, socks, start, dirty>>

\* A reply that is written moves a client that is still there.
Told(c, r) ==
    client' = [client EXCEPT ![c] = IF @ = "gone" THEN @
                                    ELSE IF r = "auth" THEN "challenged"
                                    ELSE "ready"]
-----------------------------------------------------------------------------
(***************************************************************************)
(* acceptLoop                                                              *)
(***************************************************************************)
AcceptCheck ==
    /\ accept = "check"
    /\ accept' = IF running THEN "accept" ELSE "done"
    /\ UNCHANGED pc

\* accept() returns a socket and a handler thread starts; or it throws because
\* the server socket is closed.  Either way the loop condition comes next.
AcceptReturns ==
    /\ accept = "accept" /\ accept' = "check"
    /\ \/ serverOpen /\ \E c \in Conns : At(c, "backlog") /\ Goto(c, "register")
       \/ ~serverOpen /\ UNCHANGED pc

Accept ==
    /\ AcceptCheck \/ AcceptReturns
    /\ UNCHANGED <<running, serverOpen, backup, closer, pending, finalDump,
                   pgLock, socks, start, wire, dirty>>
-----------------------------------------------------------------------------
(***************************************************************************)
(* handleConnection, handleStartup and replayStartup                       *)
(***************************************************************************)
\* What a handler adds to activeSockets.  Mutant: nothing.
RegistersNothing(c) == {}
Registers(c) == {c}

Register(c) ==
    /\ At(c, "register") /\ Goto(c, "peek")
    /\ activeSockets' = activeSockets \cup Registers(c)
    /\ UNCHANGED <<closedSockets, pgLock, start, wire, dirty>>

\* The unlocked test of cachedStartupResponses.  Mutant: it is missing.
AnyCache == TRUE
CacheSeen == cached # NoCache

PeekCache(c) ==
    /\ At(c, "peek")
    /\ IF CacheSeen
         THEN Goto(c, "replay") /\ todo' = [todo EXCEPT ![c] = cached]
         ELSE Goto(c, "enter") /\ UNCHANGED todo
    /\ UNCHANGED <<pgLock, socks, cached, wire, dirty>>

\* The second test, under pgLock: another handler may have finished a startup
\* while this one waited for the lock.  Mutant: it is missing.
NoSecondTest == FALSE
CacheSeenUnderLock == cached # NoCache

EnterStartup(c) ==
    /\ At(c, "enter") /\ Acquire(c)
    /\ IF CacheSeenUnderLock
         THEN Goto(c, "lreplay") /\ todo' = [todo EXCEPT ![c] = cached]
         ELSE Goto(c, "sloop") /\ todo' = [todo EXCEPT ![c] = <<>>]
    /\ UNCHANGED <<socks, cached, wire, dirty>>

\* Leaving handleStartup's loop publishes what has been collected.
Publish(c, list) ==
    /\ cached' = list /\ todo' = [todo EXCEPT ![c] = <<>>]
    /\ Goto(c, "loop") /\ Release(c)

\* while (running) of handleStartup.
StartupLoop(c) ==
    /\ At(c, "sloop")
    /\ IF running THEN Goto(c, "sread") /\ UNCHANGED <<start, pgLock>>
                  ELSE Publish(c, todo[c])
    /\ UNCHANGED <<socks, wire, dirty>>

\* in.read(buf) returns what the client has sent.
Read(c, to) ==
    /\ c \notin closedSockets /\ inbox[c] # NoMsg
    /\ buf' = [buf EXCEPT ![c] = inbox[c]]
    /\ inbox' = [inbox EXCEPT ![c] = NoMsg]
    /\ Goto(c, to)

\* Nothing reads a chunk again once its reply is written.
Forget(c) == buf' = [buf EXCEPT ![c] = NoMsg]

StartupRead(c) ==
    /\ At(c, "sread") /\ Read(c, "sexec")
    /\ UNCHANGED <<pgLock, socks, start, client, dirty>>

\* execProtocolRaw returns under pgLock; its reply is collected and written.
Collected(c) == Append(todo[c], Reply(buf[c]))

StartupExec(c) ==
    /\ At(c, "sexec") /\ c \notin closedSockets
    /\ Told(c, Reply(buf[c]))
    /\ IF EndsWithReadyForQuery(Reply(buf[c]))
         THEN Publish(c, Collected(c))
         ELSE /\ Goto(c, "sloop") /\ todo' = [todo EXCEPT ![c] = Collected(c)]
              /\ UNCHANGED <<cached, pgLock>>
    /\ Forget(c)
    /\ UNCHANGED <<socks, inbox, dirty>>

\* replayStartup, with or without pgLock: one read for each cached reply.
Replaying(c) == pc[c] \in {"replay", "lreplay"}

\* The handler is in in.read: of the query loop, of the startup exchange, or
\* of replayStartup, whose loop does not test running.
InRead(c) == pc[c] \in {"sread", "read"} \/ (Replaying(c) /\ todo[c] # <<>>)

ReplayOne(c) ==
    /\ Replaying(c) /\ todo[c] # <<>>
    /\ c \notin closedSockets /\ inbox[c] # NoMsg
    /\ inbox' = [inbox EXCEPT ![c] = NoMsg]
    /\ Told(c, Head(todo[c]))
    /\ todo' = [todo EXCEPT ![c] = Tail(@)]
    /\ UNCHANGED <<pgLock, socks, pc, cached, buf, dirty>>

ReplayEnd(c) ==
    /\ Replaying(c) /\ todo[c] = <<>>
    /\ Goto(c, "loop") /\ Release(c)
    /\ UNCHANGED <<socks, start, wire, dirty>>

\* while (running) of handleConnection.
ServeLoop(c) ==
    /\ At(c, "loop") /\ Goto(c, IF running THEN "read" ELSE "finally")
    /\ UNCHANGED <<pgLock, socks, start, wire, dirty>>

ServeRead(c) ==
    /\ At(c, "read") /\ Read(c, "lock")
    /\ UNCHANGED <<pgLock, socks, start, client, dirty>>

\* synchronized (pgLock) around execProtocolRaw.  Mutant: no monitor.
EnterUnlocked(c) == UNCHANGED pgLock
EnterExec(c) == Acquire(c)

ServeLock(c) ==
    /\ At(c, "lock") /\ EnterExec(c) /\ Goto(c, "exec")
    /\ UNCHANGED <<socks, start, wire, dirty>>

ServeExec(c) ==
    /\ At(c, "exec") /\ Release(c) /\ Goto(c, "write")
    /\ dirty' = [dirty EXCEPT ![c] = IF @ = "acked" THEN @ ELSE "executed"]
    /\ UNCHANGED <<socks, start, wire>>

ServeWrite(c) ==
    /\ At(c, "write") /\ c \notin closedSockets /\ Goto(c, "loop")
    /\ Told(c, Reply(buf[c]))
    /\ dirty' = [dirty EXCEPT ![c] = IF @ = "executed" /\ client[c] # "gone"
                                       THEN "acked" ELSE @]
    /\ Forget(c)
    /\ UNCHANGED <<pgLock, socks, start, inbox>>

\* Every exception leaves through the finally block, and out of a synchronized
\* block on the way: a read at the end of the stream or of a socket closed by
\* close(), a write to such a socket, a RuntimeException of execProtocolRaw.
Fails(c) ==
    \/ pc[c] \in ExecStates
    \/ At(c, "peek") /\ c \in closedSockets
    \/ InRead(c) /\ (c \in closedSockets \/ client[c] = "gone")
    \/ At(c, "write") /\ (c \in closedSockets \/ client[c] = "gone")

HandlerFails(c) ==
    /\ Fails(c) /\ Goto(c, "finally") /\ Release(c)
    /\ UNCHANGED <<socks, start, wire, dirty>>

\* The socket is closed, and with it the client's side of the connection.
Finally(c) ==
    /\ At(c, "finally") /\ Goto(c, "done")
    /\ activeSockets' = activeSockets \ {c}
    /\ closedSockets' = closedSockets \cup {c}
    /\ client' = [client EXCEPT ![c] = "gone"]
    /\ inbox' = [inbox EXCEPT ![c] = NoMsg]
    /\ todo' = [todo EXCEPT ![c] = <<>>]
    /\ Forget(c)
    /\ UNCHANGED <<pgLock, cached, dirty>>

Handler(c) ==
    /\ \/ Register(c) \/ PeekCache(c) \/ EnterStartup(c) \/ StartupLoop(c)
       \/ StartupRead(c) \/ StartupExec(c) \/ ReplayOne(c) \/ ReplayEnd(c)
       \/ ServeLoop(c) \/ ServeRead(c) \/ ServeLock(c) \/ ServeExec(c)
       \/ ServeWrite(c) \/ HandlerFails(c) \/ Finally(c)
    /\ UNCHANGED life
-----------------------------------------------------------------------------
(***************************************************************************)
(* scheduledBackup, run by a ScheduledExecutorService at a fixed rate, and *)
(* dumpDataDir as these threads see it.  It throws ("io", "runtime"), or   *)
(* it returns.  The replies to its VACUUM FREEZE and CHECKPOINT are not    *)
(* looked at, so a dump that returns has saved all that was executed if    *)
(* both ran ("ok") and may have saved nothing new if one of them raised an *)
(* error ("stale"); no thread can tell the two apart.                      *)
(***************************************************************************)
Outcomes    == DumpFailures \cup {"ok"}
Saves(result) == dirty' = IF result = "ok" THEN [c \in Conns |-> "clean"]
                                           ELSE dirty

\* After shutdownNow() the executor starts no further task.
ShutDown == closer \notin {"idle", "stop"}

BackupFire == backup = "wait" /\ backup' = "lock" /\ UNCHANGED <<pgLock, dirty>>

BackupLock ==
    /\ backup = "lock" /\ Acquire("backup")
    /\ backup' = "dump"
    /\ UNCHANGED dirty

\* The catch clause names IOException only: any other exception reaches the
\* executor, which then never runs the task again.
BackupEnd(result) ==
    /\ backup = "dump" /\ Release("backup")
    /\ Saves(result)
    /\ backup' = IF result = "runtime" THEN "cancelled"
                 ELSE IF ShutDown THEN "stopped" ELSE "wait"

Backup ==
    /\ BackupFire \/ BackupLock \/ \E result \in Outcomes : BackupEnd(result)
    /\ UNCHANGED <<running, serverOpen, accept, closer, pending, finalDump,
                   socks, pc, start, wire>>
-----------------------------------------------------------------------------
(***************************************************************************)
(* close()                                                                 *)
(***************************************************************************)
\* Mutant of CloseBegin's assignment: the flag is left set.
FlagKept  == running
FlagLowered == FALSE

CloseBegin ==
    /\ closer = "idle" /\ closer' = "stop"
    /\ running' = FlagLowered
    /\ UNCHANGED <<serverOpen, accept, backup, pending, finalDump, pgLock,
                   socks, pc, start, wire, dirty>>

\* shutdownNow(): a waiting task is dropped; a thread already in the task is
\* interrupted, which takes it neither out of a monitor's queue nor of a dump.
CloseScheduler ==
    /\ closer = "stop" /\ closer' = "server"
    /\ backup' = IF backup = "wait" THEN "stopped" ELSE backup
    /\ UNCHANGED <<serverOpen, pending, finalDump, pgLock, closedSockets, pc,
                   dirty>>

\* serverSocket.close() resets the connections in the backlog; the loop over
\* activeSockets starts from the sockets registered by now.
CloseServer ==
    /\ closer = "server" /\ closer' = "sweep"
    /\ serverOpen' = FALSE
    /\ pc' = [c \in Conns |-> IF pc[c] = "backlog" THEN "refused" ELSE pc[c]]
    /\ pending' = activeSockets
    /\ UNCHANGED <<backup, finalDump, pgLock, closedSockets, dirty>>

\* One turn of the loop.  The iterator is weakly consistent: it visits what
\* was there when it was made, and may or may not visit what came later.
CloseSocket(c) ==
    /\ closer = "sweep" /\ c \in activeSockets
    /\ c \in pending \/ c \notin closedSockets
    /\ closedSockets' = closedSockets \cup {c}
    /\ pending' = pending \ {c}
    /\ UNCHANGED <<serverOpen, backup, closer, finalDump, pgLock, pc, dirty>>

\* The loop ends when its iterator has no next.  Mutant: it stops anywhere.
SweepCut  == TRUE
SweepDone == pending \cap activeSockets = {}

CloseSwept ==
    /\ closer = "sweep" /\ SweepDone
    /\ pending' = {}
    /\ closer' = IF Persistent THEN "lock" ELSE "final"
    /\ UNCHANGED <<serverOpen, backup, finalDump, pgLock, closedSockets, pc,
                   dirty>>

CloseLock ==
    /\ closer = "lock" /\ Acquire("closer") /\ closer' = "dump"
    /\ UNCHANGED <<serverOpen, backup, pending, finalDump, closedSockets, pc,
                   dirty>>

\* The dump under pgLock.  A RuntimeException leaves close() at once, before
\* PGLite.close().
CloseDump(result) ==
    /\ closer = "dump" /\ Release("closer")
    /\ Saves(result)
    /\ finalDump' = IF result \in {"ok", "stale"} THEN result ELSE "failed"
    /\ closer' = IF result = "runtime" THEN "aborted" ELSE "final"
    /\ UNCHANGED <<serverOpen, backup, pending, closedSockets, pc>>

\* PGLite.close(): a second dump whose failure is ignored, pgl_shutdown, and
\* the release of the WASI and file system objects, all outside pgLock.
ClosePgLite(result) ==
    /\ closer = "final" /\ closer' = "closed"
    /\ IF Persistent THEN Saves(result) ELSE UNCHANGED dirty
    /\ UNCHANGED <<serverOpen, backup, pending, finalDump, pgLock,
                   closedSockets, pc>>

Close ==
    /\ \/ CloseScheduler \/ CloseServer \/ CloseSwept \/ CloseLock
       \/ \E c \in Conns : CloseSocket(c)
       \/ \E result \in Outcomes : CloseDump(result) \/ ClosePgLite(result)
    /\ UNCHANGED <<running, accept, activeSockets, start, wire>>

\* close() has returned and every thread of the instance has ended.
Quiet ==
    /\ closer \in {"closed", "aborted"}
    /\ accept = "done"
    /\ backup \in {"stopped", "cancelled"}
    /\ \A c \in Conns : pc[c] \in {"unconnected", "refused", "done"}
Terminated == Quiet /\ UNCHANGED vars

Next ==
    \/ \E c \in Conns : Client(c) \/ Handler(c)
    \/ Accept \/ Backup \/ CloseBegin \/ Close \/ Terminated

Spec == Init /\ [][Next]_vars

(***************************************************************************)
(* Every thread that can take a step takes it, and the scheduler's timer   *)
(* goes off.  A client that has opened a connection carries its startup on *)
(* (it is pgjdbc inside DriverManager.getConnection), but owes no query    *)
(* and no disconnection; nothing obliges the application to call close().  *)
(***************************************************************************)
Fairness ==
    /\ \A c \in Conns : /\ WF_vars(Handler(c))
                        /\ WF_vars(Client(c) /\ ClientStarts(c))
    /\ WF_vars(Accept) /\ WF_vars(Backup) /\ WF_vars(Close)

FairSpec == Spec /\ Fairness
-----------------------------------------------------------------------------
\* The threads inside the WASM instance: handlers in execProtocolRaw, the
\* backup and the closing thread in dumpDataDir or in PGLite.close.
Inside ==
    {c \in Conns : pc[c] \in ExecStates}
    \cup {t \in {"backup"} : backup = "dump"}
    \cup {t \in {"closer"} : closer \in {"dump", "final"}}

\* pgLock serializes every use of the instance by handlers, the backup and
\* close()'s own dump: two of them are inside it only while PGLite.close,
\* which close() calls without the lock, is one of the two.
SerializedUse ==
    \A t, u \in Inside : t # u => closer = "final" /\ "closer" \in {t, u}

\* What the comment in close() claims of its dump: that it "prevents races
\* with any in-flight connection handlers".
NoRaceWithHandlers == "closer" \in Inside => Inside \cap Conns = {}

\* After a startup has been cached the backend never sees another startup
\* message: later handlers replay, whichever of the two tests tells them so.
StartupOnce ==
    [][\A c \in Conns :
          cached # NoCache => ~(pc[c] # "sexec" /\ pc'[c] = "sexec")]_vars

\* No startup message reaches the backend through the query loop: a handler
\* leaves handleStartup, by its own exchange or by a replay, only with its
\* client past the password (or with running false, and then it reads no more).
OnlyQueriesServed ==
    \A c \in Conns : pc[c] \in {"lock", "exec", "write"} => buf[c] = "query"

\* Once close() has gone through activeSockets, a handler that waits in a read
\* on a socket nobody has closed is in replayStartup, which does not look at
\* running, and its client has yet to send a message of its startup: no
\* handler waits for a query of a client that may never send one.
NoReaderLeftBehind ==
    closer \in {"lock", "dump", "final", "closed", "aborted"} =>
        \A c \in Conns : InRead(c) =>
            \/ c \in closedSockets
            \/ Replaying(c) /\ client[c] \notin {"ready", "waiting"}

\* A final dump whose two statements ran holds every query whose reply reached
\* a client, and no reply is given after it, though handlers may still execute
\* queries then.  (close() does not look whether the statements ran.)
FinalDumpCoversAcks ==
    finalDump = "ok" => \A c \in Conns : dirty[c] # "acked"

\* "The driver backs up the database on a fixed schedule" (README): until
\* close() shuts the scheduler down, the periodic task is never cancelled.
BackupsStayScheduled == ~ShutDown => backup # "cancelled"

\* close(), once called, returns, and every thread of the instance ends with
\* it, though a handler may hold pgLock while it waits for its client.
CloseCompletes == closer # "idle" ~> Quiet
=============================================================================
