------------------------ MODULE ManagedInstanceProofs ------------------------
(***************************************************************************)
(* Proofs about ManagedInstance, for every finite set of connections.      *)
(***************************************************************************)
EXTENDS ManagedInstance, SequenceTheorems, TLAPS

(***************************************************************************)
(* The inductive invariant, in named parts.                                *)
(***************************************************************************)
\* The program counters agree with the owner of pgLock.
LockInv ==
    /\ \A c \in Conns : pc[c] \in LockedStates <=> pgLock = c
    /\ backup = "dump" <=> pgLock = "backup"
    /\ closer = "dump" <=> pgLock = "closer"

\* A handler is in the startup exchange only while nothing is cached.
StartInv ==
    \A c \in Conns : pc[c] \in {"sloop", "sread", "sexec"} => cached = NoCache

\* The flag is lowered before close() does anything else.
FlagInv == closer # "idle" => running = FALSE

\* A handler's socket is registered from its first step to its finally block.
RegisteredStates == {"peek", "replay", "enter", "lreplay", "sloop", "sread",
                     "sexec", "loop", "read", "lock", "exec", "write"}
RegisterInv ==
    \A c \in Conns : pc[c] \in RegisteredStates => c \in activeSockets

\* A handler that saw running true and has not looked again will be visited by
\* the loop of close(), or has been.
CommittedStates == {"sread", "sexec", "read", "lock", "exec", "write"}
SweptStates == {"lock", "dump", "final", "closed", "aborted"}
SweepInv ==
    \A c \in Conns : pc[c] \in CommittedStates =>
        /\ closer = "sweep" => c \in pending \cup closedSockets
        /\ closer \in SweptStates => c \in closedSockets

\* After a final dump whose statements ran nothing is acknowledged any more.
DumpInv ==
    finalDump = "ok" => /\ closer \in {"final", "closed"}
                        /\ \A c \in Conns : dirty[c] # "acked"

\* boot() leaves every variable in its type.
LEMMA TypeInit == Init => TypeOK
<1> SUFFICES ASSUME Init PROVE TypeOK OBVIOUS
<1>1. backup \in {"wait", "stopped"}
  BY DEF Init
<1>2. todo \in [Conns -> Seq(Replies)]
  BY DEF Init
<1>3. pc \in [Conns -> HandlerStates]
  BY DEF Init, HandlerStates
<1>4. inbox \in [Conns -> Msgs \cup {NoMsg}] /\ buf \in [Conns -> Msgs \cup {NoMsg}]
  BY DEF Init
<1> QED BY <1>1, <1>2, <1>3, <1>4 DEF Init, TypeOK

\* The names of the other owners of pgLock are not connections.
LEMMA OwnerNames ==
    \A c \in Conns : c # "none" /\ c # "backup" /\ c # "closer"
  BY ConstantsAssumption

\* What the two steps of handleStartup that may publish a cache do to the
\* handler and the lock.
LEMMA StartupLoopEffect ==
    ASSUME NEW c \in Conns, StartupLoop(c)
    PROVE  /\ pc[c] = "sloop"
           /\ \/ /\ running /\ pc' = [pc EXCEPT ![c] = "sread"]
                 /\ UNCHANGED <<pgLock, cached>>
              \/ /\ pc' = [pc EXCEPT ![c] = "loop"] /\ Release(c)
           /\ UNCHANGED <<activeSockets, closedSockets, dirty>>
  BY Zenon DEF StartupLoop, At, Goto, Publish, start, socks

\* The same for the execution of a startup message.
LEMMA StartupExecEffect ==
    ASSUME NEW c \in Conns, StartupExec(c)
    PROVE  /\ pc[c] = "sexec"
           /\ \/ /\ pc' = [pc EXCEPT ![c] = "sloop"]
                 /\ UNCHANGED <<pgLock, cached>>
              \/ /\ pc' = [pc EXCEPT ![c] = "loop"] /\ Release(c)
           /\ UNCHANGED <<activeSockets, closedSockets, dirty>>
  BY Zenon DEF StartupExec, At, Goto, Publish, socks

\* Every step of every thread keeps the types.
LEMMA TypeStep == TypeOK /\ [Next]_vars => TypeOK'
<1> SUFFICES ASSUME TypeOK, [Next]_vars PROVE TypeOK' OBVIOUS
<1> USE DEF TypeOK, HandlerStates, Goto, At, life, socks, start, wire
<1>1. ASSUME NEW c \in Conns, Register(c), UNCHANGED life PROVE TypeOK'
  BY <1>1 DEF Register, Registers
<1>2. ASSUME NEW c \in Conns, PeekCache(c), UNCHANGED life PROVE TypeOK'
  <2>1. todo' \in [Conns -> Seq(Replies)]
    <3>1. CASE cached = NoCache
      BY <1>2, <3>1 DEF PeekCache, CacheSeen
    <3>2. CASE cached \in Seq(Replies)
      BY <1>2, <3>2 DEF PeekCache, CacheSeen
    <3> QED BY <3>1, <3>2
  <2>2. pc' \in [Conns -> HandlerStates]
    BY <1>2 DEF PeekCache
  <2> QED BY <1>2, <2>1, <2>2 DEF PeekCache
<1>3. ASSUME NEW c \in Conns, EnterStartup(c), UNCHANGED life PROVE TypeOK'
  <2>1. todo' \in [Conns -> Seq(Replies)]
    <3>1. <<>> \in Seq(Replies)
      OBVIOUS
    <3>2. CASE cached = NoCache
      BY <1>3, <3>1, <3>2 DEF EnterStartup, CacheSeenUnderLock
    <3>3. CASE cached \in Seq(Replies)
      BY <1>3, <3>1, <3>3 DEF EnterStartup, CacheSeenUnderLock
    <3> QED BY <3>2, <3>3
  <2>2. pc' \in [Conns -> HandlerStates] /\ pgLock' \in Conns
    BY <1>3 DEF EnterStartup, Acquire
  <2> QED BY <1>3, <2>1, <2>2 DEF EnterStartup
<1>4. ASSUME NEW c \in Conns, StartupLoop(c), UNCHANGED life PROVE TypeOK'
  <2>1. pc' \in [Conns -> HandlerStates]
    <3>1. \/ pc' = [pc EXCEPT ![c] = "loop"]
          \/ pc' = [pc EXCEPT ![c] = "sread"]
      BY <1>4, StartupLoopEffect, Zenon
    <3> QED BY <3>1
  <2>2. todo' \in [Conns -> Seq(Replies)] /\ cached' \in Seq(Replies) \cup {NoCache}
    <3>1. <<>> \in Seq(Replies) /\ todo[c] \in Seq(Replies)
      OBVIOUS
    <3> QED BY <1>4, <3>1 DEF StartupLoop, Publish
  <2>3. pgLock' \in Conns \cup {"none", "backup", "closer"}
    BY <1>4, StartupLoopEffect DEF Release
  <2> QED BY <1>4, <2>1, <2>2, <2>3 DEF StartupLoop
<1>5. ASSUME NEW c \in Conns, StartupRead(c), UNCHANGED life PROVE TypeOK'
  BY <1>5 DEF StartupRead, Read
<1>6. ASSUME NEW c \in Conns, StartupExec(c), UNCHANGED life PROVE TypeOK'
  <2>1. pc' \in [Conns -> HandlerStates]
    <3>1. \/ pc' = [pc EXCEPT ![c] = "loop"]
          \/ pc' = [pc EXCEPT ![c] = "sloop"]
      BY <1>6, Zenon DEF StartupExec, Publish
    <3> QED BY <3>1
  <2>2. Reply(buf[c]) \in Replies
    BY DEF Reply, Replies
  <2>3. Collected(c) \in Seq(Replies) /\ <<>> \in Seq(Replies)
    BY <2>2 DEF Collected
  <2>4. todo' \in [Conns -> Seq(Replies)] /\ cached' \in Seq(Replies) \cup {NoCache}
    BY <1>6, <2>3 DEF StartupExec, Publish
  <2>5. pgLock' \in Conns \cup {"none", "backup", "closer"}
    BY <1>6, StartupExecEffect DEF Release
  <2>6. /\ client' \in [Conns -> {"new", "greeted", "challenged", "answered",
                                "ready", "waiting", "gone"}]
        /\ buf' \in [Conns -> Msgs \cup {NoMsg}]
        /\ UNCHANGED <<activeSockets, closedSockets, inbox, dirty>>
    BY <1>6 DEF StartupExec, Told, Forget
  <2> QED BY <1>6, <2>1, <2>4, <2>5, <2>6
<1>7. ASSUME NEW c \in Conns, ReplayOne(c), UNCHANGED life PROVE TypeOK'
  BY <1>7 DEF ReplayOne, Replaying, Told
<1>8. ASSUME NEW c \in Conns, ReplayEnd(c), UNCHANGED life PROVE TypeOK'
  BY <1>8 DEF ReplayEnd, Replaying, Release
<1>9. ASSUME NEW c \in Conns, ServeLoop(c), UNCHANGED life PROVE TypeOK'
  BY <1>9 DEF ServeLoop
<1>10. ASSUME NEW c \in Conns, ServeRead(c), UNCHANGED life PROVE TypeOK'
  BY <1>10 DEF ServeRead, Read
<1>11. ASSUME NEW c \in Conns, ServeLock(c), UNCHANGED life PROVE TypeOK'
  BY <1>11 DEF ServeLock, EnterExec, Acquire
<1>12. ASSUME NEW c \in Conns, ServeExec(c), UNCHANGED life PROVE TypeOK'
  BY <1>12 DEF ServeExec, Release
<1>13. ASSUME NEW c \in Conns, ServeWrite(c), UNCHANGED life PROVE TypeOK'
  BY <1>13 DEF ServeWrite, Told, Forget
<1>14. ASSUME NEW c \in Conns, HandlerFails(c), UNCHANGED life PROVE TypeOK'
  BY <1>14 DEF HandlerFails, Release
<1>15. ASSUME NEW c \in Conns, Finally(c), UNCHANGED life PROVE TypeOK'
  BY <1>15 DEF Finally, Forget
<1>16. ASSUME NEW c \in Conns, Client(c) PROVE TypeOK'
  <2>1. pc' \in [Conns -> HandlerStates]
    BY <1>16 DEF Client, Connect, ClientStarts, ClientQueries, Send, Says, Disconnect
  <2>2. buf' \in [Conns -> Msgs \cup {NoMsg}]
    BY <1>16 DEF Client, Connect, ClientStarts, ClientQueries, Send, Says, Disconnect
  <2>3. inbox' \in [Conns -> Msgs \cup {NoMsg}]
    BY <1>16 DEF Client, Connect, ClientStarts, ClientQueries, Send, Says, Disconnect, Msgs
  <2>4. client' \in [Conns -> {"new", "greeted", "challenged", "answered",
                             "ready", "waiting", "gone"}]
    BY <1>16 DEF Client, Connect, ClientStarts, ClientQueries, Send, Says, Disconnect
  <2> QED BY <1>16, <2>1, <2>2, <2>3, <2>4 DEF Client
<1>17. CASE Accept
  <2>1. pc' \in [Conns -> HandlerStates]
    BY <1>17 DEF Accept, AcceptCheck, AcceptReturns
  <2>2. accept' \in {"check", "accept", "done"}
    BY <1>17 DEF Accept, AcceptCheck, AcceptReturns
  <2> QED BY <1>17, <2>1, <2>2 DEF Accept
<1>18. CASE Backup
  <2>1. dirty' \in [Conns -> {"clean", "executed", "acked"}]
    BY <1>18 DEF Backup, BackupFire, BackupLock, BackupEnd, Saves
  <2>2. /\ backup' \in {"wait", "lock", "dump", "cancelled", "stopped"}
        /\ pgLock' \in Conns \cup {"none", "backup", "closer"}
    BY <1>18 DEF Backup, BackupFire, BackupLock, BackupEnd, Acquire, Release
  <2> QED BY <1>18, <2>1, <2>2 DEF Backup
<1>19. CASE CloseBegin
  <2>1. running' \in BOOLEAN /\ closer' = "stop"
    BY <1>19 DEF CloseBegin, FlagLowered
  <2> QED BY <1>19, <2>1 DEF CloseBegin
<1>20. CASE Close
  <2> USE DEF Close
  <2>1. CASE CloseScheduler
    BY <1>20, <2>1 DEF CloseScheduler
  <2>2. CASE CloseServer
    <3>1. pc' \in [Conns -> HandlerStates]
      BY <2>2 DEF CloseServer
    <3>2. closer' = "sweep" /\ serverOpen' \in BOOLEAN /\ pending' \subseteq Conns
      BY <2>2 DEF CloseServer
    <3> QED BY <1>20, <2>2, <3>1, <3>2 DEF CloseServer
  <2>3. CASE CloseSwept
    BY <1>20, <2>3 DEF CloseSwept
  <2>4. CASE CloseLock
    BY <1>20, <2>4 DEF CloseLock, Acquire
  <2>5. CASE \E c \in Conns : CloseSocket(c)
    BY <1>20, <2>5 DEF CloseSocket
  <2>6. CASE \E result \in Outcomes : CloseDump(result)
    BY <1>20, <2>6 DEF CloseDump, Saves, Release
  <2>7. CASE \E result \in Outcomes : ClosePgLite(result)
    BY <1>20, <2>7 DEF ClosePgLite, Saves
  <2> QED BY <1>20, <2>1, <2>2, <2>3, <2>4, <2>5, <2>6, <2>7
<1>21. CASE UNCHANGED vars
  BY <1>21 DEF vars
<1> QED
  BY <1>1, <1>2, <1>3, <1>4, <1>5, <1>6, <1>7, <1>8, <1>9, <1>10, <1>11, <1>12, <1>13, <1>14, <1>15, <1>16, <1>17, <1>18, <1>19, <1>20, <1>21 DEF Next, Handler, Terminated

\* Every step keeps the owner of pgLock and the program counters in agreement.
LEMMA LockStep == TypeOK /\ LockInv /\ [Next]_vars => LockInv'
<1> SUFFICES ASSUME TypeOK, LockInv, [Next]_vars PROVE LockInv' OBVIOUS
<1> USE DEF TypeOK, LockInv, LockedStates, HandlerStates, At, Goto, life, socks, start
<1> USE OwnerNames
<1>1. ASSUME NEW c \in Conns, Register(c), UNCHANGED life PROVE LockInv'
  BY <1>1 DEF Register
<1>2. ASSUME NEW c \in Conns, PeekCache(c), UNCHANGED life PROVE LockInv'
  BY <1>2 DEF PeekCache
<1>3. ASSUME NEW c \in Conns, EnterStartup(c), UNCHANGED life PROVE LockInv'
  BY <1>3 DEF EnterStartup, Acquire
<1>4. ASSUME NEW c \in Conns, StartupLoop(c), UNCHANGED life PROVE LockInv'
  <2>1. pc[c] = "sloop"
    BY <1>4, StartupLoopEffect, Zenon
  <2>2. CASE pc' = [pc EXCEPT ![c] = "sread"] /\ UNCHANGED pgLock
    BY <1>4, <2>1, <2>2
  <2>3. CASE pc' = [pc EXCEPT ![c] = "loop"] /\ Release(c)
    <3>1. pgLock' = "none"
      BY <2>1, <2>3 DEF Release
    <3> QED BY <1>4, <2>1, <2>3, <3>1
  <2> QED BY <1>4, <2>2, <2>3, StartupLoopEffect, Zenon
<1>5. ASSUME NEW c \in Conns, StartupRead(c), UNCHANGED life PROVE LockInv'
  BY <1>5 DEF StartupRead, Read
<1>6. ASSUME NEW c \in Conns, StartupExec(c), UNCHANGED life PROVE LockInv'
  <2>1. pc[c] = "sexec"
    BY <1>6, StartupExecEffect, Zenon
  <2>2. CASE pc' = [pc EXCEPT ![c] = "sloop"] /\ UNCHANGED pgLock
    BY <1>6, <2>1, <2>2
  <2>3. CASE pc' = [pc EXCEPT ![c] = "loop"] /\ Release(c)
    <3>1. pgLock' = "none"
      BY <2>1, <2>3 DEF Release
    <3> QED BY <1>6, <2>1, <2>3, <3>1
  <2> QED BY <1>6, <2>2, <2>3, StartupExecEffect, Zenon
<1>7. ASSUME NEW c \in Conns, ReplayOne(c), UNCHANGED life PROVE LockInv'
  BY <1>7 DEF ReplayOne, Replaying
<1>8. ASSUME NEW c \in Conns, ReplayEnd(c), UNCHANGED life PROVE LockInv'
  BY <1>8 DEF ReplayEnd, Replaying, Release
<1>9. ASSUME NEW c \in Conns, ServeLoop(c), UNCHANGED life PROVE LockInv'
  BY <1>9 DEF ServeLoop
<1>10. ASSUME NEW c \in Conns, ServeRead(c), UNCHANGED life PROVE LockInv'
  BY <1>10 DEF ServeRead, Read
<1>11. ASSUME NEW c \in Conns, ServeLock(c), UNCHANGED life PROVE LockInv'
  BY <1>11 DEF ServeLock, EnterExec, Acquire
<1>12. ASSUME NEW c \in Conns, ServeExec(c), UNCHANGED life PROVE LockInv'
  BY <1>12 DEF ServeExec, Release
<1>13. ASSUME NEW c \in Conns, ServeWrite(c), UNCHANGED life PROVE LockInv'
  BY <1>13 DEF ServeWrite
<1>14. ASSUME NEW c \in Conns, HandlerFails(c), UNCHANGED life PROVE LockInv'
  BY <1>14 DEF HandlerFails, Fails, InRead, Replaying, ExecStates, Release
<1>15. ASSUME NEW c \in Conns, Finally(c), UNCHANGED life PROVE LockInv'
  BY <1>15 DEF Finally
<1>16. ASSUME NEW c \in Conns, Client(c) PROVE LockInv'
  BY <1>16 DEF Client, Connect, ClientStarts, ClientQueries, Send, Says, Disconnect
<1>17. CASE Accept
  BY <1>17 DEF Accept, AcceptCheck, AcceptReturns
<1>18. CASE Backup
  BY <1>18 DEF Backup, BackupFire, BackupLock, BackupEnd, Acquire, Release, Saves
<1>19. CASE CloseBegin
  BY <1>19 DEF CloseBegin, FlagLowered
<1>20. CASE Close
  <2> USE DEF Close
  <2>1. CASE CloseScheduler
    BY <1>20, <2>1 DEF CloseScheduler
  <2>2. CASE CloseServer
    BY <1>20, <2>2 DEF CloseServer
  <2>3. CASE CloseSwept
    BY <1>20, <2>3 DEF CloseSwept, SweepDone
  <2>4. CASE CloseLock
    BY <1>20, <2>4 DEF CloseLock, Acquire
  <2>5. CASE \E c \in Conns : CloseSocket(c)
    BY <1>20, <2>5 DEF CloseSocket
  <2>6. CASE \E result \in Outcomes : CloseDump(result)
    BY <1>20, <2>6 DEF CloseDump, Release, Saves
  <2>7. CASE \E result \in Outcomes : ClosePgLite(result)
    BY <1>20, <2>7 DEF ClosePgLite, Saves
  <2> QED BY <1>20, <2>1, <2>2, <2>3, <2>4, <2>5, <2>6, <2>7
<1>21. CASE UNCHANGED vars
  BY <1>21 DEF vars
<1> QED
  BY <1>1, <1>2, <1>3, <1>4, <1>5, <1>6, <1>7, <1>8, <1>9, <1>10, <1>11, <1>12, <1>13, <1>14, <1>15, <1>16, <1>17, <1>18, <1>19, <1>20, <1>21 DEF Next, Handler, Terminated

\* No handler can be in the startup exchange when another one publishes its cache.
LEMMA StartStep == TypeOK /\ LockInv /\ StartInv /\ [Next]_vars => StartInv'
<1> SUFFICES ASSUME TypeOK, LockInv, StartInv, [Next]_vars PROVE StartInv' OBVIOUS
<1> USE DEF TypeOK, LockInv, LockedStates, StartInv, At, Goto, life, socks, start
<1>1. ASSUME NEW c \in Conns, Register(c), UNCHANGED life PROVE StartInv'
  BY <1>1 DEF Register, Registers
<1>2. ASSUME NEW c \in Conns, PeekCache(c), UNCHANGED life PROVE StartInv'
  BY <1>2 DEF PeekCache
<1>3. ASSUME NEW c \in Conns, EnterStartup(c), UNCHANGED life PROVE StartInv'
  BY <1>3 DEF EnterStartup, CacheSeenUnderLock
<1>4. ASSUME NEW c \in Conns, StartupLoop(c), UNCHANGED life PROVE StartInv'
  BY <1>4, StartupLoopEffect DEF Release
<1>5. ASSUME NEW c \in Conns, StartupRead(c), UNCHANGED life PROVE StartInv'
  BY <1>5 DEF StartupRead, Read
<1>6. ASSUME NEW c \in Conns, StartupExec(c), UNCHANGED life PROVE StartInv'
  <2>1. \A d \in Conns : d # c => pc[d] \notin LockedStates
    BY <1>6, StartupExecEffect
  <2>2. CASE pc' = [pc EXCEPT ![c] = "sloop"] /\ UNCHANGED cached
    BY <1>6, <2>2, StartupExecEffect
  <2>3. CASE pc' = [pc EXCEPT ![c] = "loop"]
    BY <2>1, <2>3
  <2> QED BY <1>6, <2>2, <2>3, StartupExecEffect
<1>7. ASSUME NEW c \in Conns, ReplayOne(c), UNCHANGED life PROVE StartInv'
  BY <1>7 DEF ReplayOne, Replaying
<1>8. ASSUME NEW c \in Conns, ReplayEnd(c), UNCHANGED life PROVE StartInv'
  BY <1>8 DEF ReplayEnd, Replaying
<1>9. ASSUME NEW c \in Conns, ServeLoop(c), UNCHANGED life PROVE StartInv'
  BY <1>9 DEF ServeLoop
<1>10. ASSUME NEW c \in Conns, ServeRead(c), UNCHANGED life PROVE StartInv'
  BY <1>10 DEF ServeRead, Read
<1>11. ASSUME NEW c \in Conns, ServeLock(c), UNCHANGED life PROVE StartInv'
  BY <1>11 DEF ServeLock
<1>12. ASSUME NEW c \in Conns, ServeExec(c), UNCHANGED life PROVE StartInv'
  BY <1>12 DEF ServeExec
<1>13. ASSUME NEW c \in Conns, ServeWrite(c), UNCHANGED life PROVE StartInv'
  BY <1>13 DEF ServeWrite
<1>14. ASSUME NEW c \in Conns, HandlerFails(c), UNCHANGED life PROVE StartInv'
  BY <1>14 DEF HandlerFails
<1>15. ASSUME NEW c \in Conns, Finally(c), UNCHANGED life PROVE StartInv'
  BY <1>15 DEF Finally
<1>16. ASSUME NEW c \in Conns, Client(c) PROVE StartInv'
  BY <1>16 DEF Client, Connect, ClientStarts, ClientQueries, Send, Says, Disconnect
<1>17. CASE Accept
  BY <1>17 DEF Accept, AcceptCheck, AcceptReturns
<1>18. CASE Backup
  BY <1>18 DEF Backup, BackupFire, BackupLock, BackupEnd, Acquire, Release, Saves
<1>19. CASE CloseBegin
  BY <1>19 DEF CloseBegin, FlagLowered
<1>20. CASE Close
  <2> USE DEF Close
  <2>1. CASE CloseScheduler
    BY <1>20, <2>1 DEF CloseScheduler
  <2>2. CASE CloseServer
    BY <1>20, <2>2 DEF CloseServer
  <2>3. CASE CloseSwept
    BY <1>20, <2>3 DEF CloseSwept, SweepDone
  <2>4. CASE CloseLock
    BY <1>20, <2>4 DEF CloseLock, Acquire
  <2>5. CASE \E c \in Conns : CloseSocket(c)
    BY <1>20, <2>5 DEF CloseSocket
  <2>6. CASE \E result \in Outcomes : CloseDump(result)
    BY <1>20, <2>6 DEF CloseDump, Release, Saves
  <2>7. CASE \E result \in Outcomes : ClosePgLite(result)
    BY <1>20, <2>7 DEF ClosePgLite, Saves
  <2> QED BY <1>20, <2>1, <2>2, <2>3, <2>4, <2>5, <2>6, <2>7
<1>21. CASE UNCHANGED vars
  BY <1>21 DEF vars
<1> QED
  BY <1>1, <1>2, <1>3, <1>4, <1>5, <1>6, <1>7, <1>8, <1>9, <1>10, <1>11, <1>12, <1>13, <1>14, <1>15, <1>16, <1>17, <1>18, <1>19, <1>20, <1>21 DEF Next, Handler, Terminated

\* The flag stays down.
LEMMA FlagStep == TypeOK /\ FlagInv /\ [Next]_vars => FlagInv'
<1> SUFFICES ASSUME FlagInv, [Next]_vars PROVE FlagInv' OBVIOUS
<1>1. CASE CloseBegin
  BY <1>1 DEF CloseBegin, FlagInv, FlagLowered
<1>2. CASE UNCHANGED <<running, closer>>
  BY <1>2 DEF FlagInv
<1>3. CASE Close
  <2>1. closer # "idle"
    BY <1>3 DEF Close, CloseScheduler, CloseServer, CloseSwept, CloseLock, CloseSocket, CloseDump, ClosePgLite
  <2> QED BY <1>3, <2>1 DEF Close, FlagInv
<1> QED
  BY <1>1, <1>2, <1>3 DEF Next, Client, Handler, Accept, Backup, Terminated, vars, life

\* A socket stays registered until its handler is through.
LEMMA RegisterStep == TypeOK /\ RegisterInv /\ [Next]_vars => RegisterInv'
<1> SUFFICES ASSUME TypeOK, RegisterInv, [Next]_vars PROVE RegisterInv' OBVIOUS
<1> USE DEF TypeOK, RegisterInv, RegisteredStates, At, Goto, life, socks, start
<1>1. ASSUME NEW c \in Conns, Register(c), UNCHANGED life PROVE RegisterInv'
  BY <1>1 DEF Register, Registers
<1>2. ASSUME NEW c \in Conns, PeekCache(c), UNCHANGED life PROVE RegisterInv'
  BY <1>2 DEF PeekCache
<1>3. ASSUME NEW c \in Conns, EnterStartup(c), UNCHANGED life PROVE RegisterInv'
  BY <1>3 DEF EnterStartup
<1>4. ASSUME NEW c \in Conns, StartupLoop(c), UNCHANGED life PROVE RegisterInv'
  <2>1. pc' = [pc EXCEPT ![c] = "sread"] \/ pc' = [pc EXCEPT ![c] = "loop"]
    BY <1>4, StartupLoopEffect, Zenon
  <2>2. pc[c] = "sloop" /\ UNCHANGED activeSockets
    BY <1>4, StartupLoopEffect, Zenon
  <2> QED BY <1>4, <2>1, <2>2
<1>5. ASSUME NEW c \in Conns, StartupRead(c), UNCHANGED life PROVE RegisterInv'
  BY <1>5 DEF StartupRead, Read
<1>6. ASSUME NEW c \in Conns, StartupExec(c), UNCHANGED life PROVE RegisterInv'
  <2>1. pc' = [pc EXCEPT ![c] = "sloop"] \/ pc' = [pc EXCEPT ![c] = "loop"]
    BY <1>6, StartupExecEffect, Zenon
  <2>2. pc[c] = "sexec" /\ UNCHANGED activeSockets
    BY <1>6, StartupExecEffect, Zenon
  <2> QED BY <1>6, <2>1, <2>2
<1>7. ASSUME NEW c \in Conns, ReplayOne(c), UNCHANGED life PROVE RegisterInv'
  BY <1>7 DEF ReplayOne, Replaying
<1>8. ASSUME NEW c \in Conns, ReplayEnd(c), UNCHANGED life PROVE RegisterInv'
  BY <1>8 DEF ReplayEnd, Replaying
<1>9. ASSUME NEW c \in Conns, ServeLoop(c), UNCHANGED life PROVE RegisterInv'
  BY <1>9 DEF ServeLoop
<1>10. ASSUME NEW c \in Conns, ServeRead(c), UNCHANGED life PROVE RegisterInv'
  BY <1>10 DEF ServeRead, Read
<1>11. ASSUME NEW c \in Conns, ServeLock(c), UNCHANGED life PROVE RegisterInv'
  BY <1>11 DEF ServeLock
<1>12. ASSUME NEW c \in Conns, ServeExec(c), UNCHANGED life PROVE RegisterInv'
  BY <1>12 DEF ServeExec
<1>13. ASSUME NEW c \in Conns, ServeWrite(c), UNCHANGED life PROVE RegisterInv'
  BY <1>13 DEF ServeWrite
<1>14. ASSUME NEW c \in Conns, HandlerFails(c), UNCHANGED life PROVE RegisterInv'
  BY <1>14 DEF HandlerFails
<1>15. ASSUME NEW c \in Conns, Finally(c), UNCHANGED life PROVE RegisterInv'
  BY <1>15 DEF Finally
<1>16. ASSUME NEW c \in Conns, Client(c) PROVE RegisterInv'
  BY <1>16 DEF Client, Connect, ClientStarts, ClientQueries, Send, Says, Disconnect
<1>17. CASE Accept
  BY <1>17 DEF Accept, AcceptCheck, AcceptReturns
<1>18. CASE Backup
  BY <1>18 DEF Backup, BackupFire, BackupLock, BackupEnd, Acquire, Release, Saves
<1>19. CASE CloseBegin
  BY <1>19 DEF CloseBegin, FlagLowered
<1>20. CASE Close
  <2> USE DEF Close
  <2>1. CASE CloseScheduler
    BY <1>20, <2>1 DEF CloseScheduler
  <2>2. CASE CloseServer
    BY <1>20, <2>2 DEF CloseServer
  <2>3. CASE CloseSwept
    BY <1>20, <2>3 DEF CloseSwept, SweepDone
  <2>4. CASE CloseLock
    BY <1>20, <2>4 DEF CloseLock, Acquire
  <2>5. CASE \E c \in Conns : CloseSocket(c)
    BY <1>20, <2>5 DEF CloseSocket
  <2>6. CASE \E result \in Outcomes : CloseDump(result)
    BY <1>20, <2>6 DEF CloseDump, Release, Saves
  <2>7. CASE \E result \in Outcomes : ClosePgLite(result)
    BY <1>20, <2>7 DEF ClosePgLite, Saves
  <2> QED BY <1>20, <2>1, <2>2, <2>3, <2>4, <2>5, <2>6, <2>7
<1>21. CASE UNCHANGED vars
  BY <1>21 DEF vars
<1> QED
  BY <1>1, <1>2, <1>3, <1>4, <1>5, <1>6, <1>7, <1>8, <1>9, <1>10, <1>11, <1>12, <1>13, <1>14, <1>15, <1>16, <1>17, <1>18, <1>19, <1>20, <1>21 DEF Next, Handler, Terminated

\* close() reaches every handler that saw the flag up.
LEMMA SweepStep == TypeOK /\ FlagInv /\ RegisterInv /\ SweepInv /\ [Next]_vars => SweepInv'
<1> SUFFICES ASSUME TypeOK, FlagInv, RegisterInv, SweepInv, [Next]_vars PROVE SweepInv' OBVIOUS
<1> USE DEF TypeOK, FlagInv, RegisterInv, RegisteredStates, SweepInv, CommittedStates, SweptStates, At, Goto, life, socks, start
<1>1. ASSUME NEW c \in Conns, Register(c), UNCHANGED life PROVE SweepInv'
  BY <1>1 DEF Register, Registers
<1>2. ASSUME NEW c \in Conns, PeekCache(c), UNCHANGED life PROVE SweepInv'
  BY <1>2 DEF PeekCache
<1>3. ASSUME NEW c \in Conns, EnterStartup(c), UNCHANGED life PROVE SweepInv'
  BY <1>3 DEF EnterStartup
<1>4. ASSUME NEW c \in Conns, StartupLoop(c), UNCHANGED life PROVE SweepInv'
  BY <1>4, StartupLoopEffect DEF Release
<1>5. ASSUME NEW c \in Conns, StartupRead(c), UNCHANGED life PROVE SweepInv'
  BY <1>5 DEF StartupRead, Read
<1>6. ASSUME NEW c \in Conns, StartupExec(c), UNCHANGED life PROVE SweepInv'
  <2>1. pc' = [pc EXCEPT ![c] = "sloop"] \/ pc' = [pc EXCEPT ![c] = "loop"]
    BY <1>6, StartupExecEffect, Zenon
  <2>2. pc[c] = "sexec" /\ UNCHANGED closedSockets
    BY <1>6, StartupExecEffect, Zenon
  <2> QED BY <1>6, <2>1, <2>2
<1>7. ASSUME NEW c \in Conns, ReplayOne(c), UNCHANGED life PROVE SweepInv'
  BY <1>7 DEF ReplayOne, Replaying
<1>8. ASSUME NEW c \in Conns, ReplayEnd(c), UNCHANGED life PROVE SweepInv'
  BY <1>8 DEF ReplayEnd, Replaying
<1>9. ASSUME NEW c \in Conns, ServeLoop(c), UNCHANGED life PROVE SweepInv'
  BY <1>9 DEF ServeLoop
<1>10. ASSUME NEW c \in Conns, ServeRead(c), UNCHANGED life PROVE SweepInv'
  BY <1>10 DEF ServeRead, Read
<1>11. ASSUME NEW c \in Conns, ServeLock(c), UNCHANGED life PROVE SweepInv'
  BY <1>11 DEF ServeLock
<1>12. ASSUME NEW c \in Conns, ServeExec(c), UNCHANGED life PROVE SweepInv'
  BY <1>12 DEF ServeExec
<1>13. ASSUME NEW c \in Conns, ServeWrite(c), UNCHANGED life PROVE SweepInv'
  BY <1>13 DEF ServeWrite
<1>14. ASSUME NEW c \in Conns, HandlerFails(c), UNCHANGED life PROVE SweepInv'
  BY <1>14 DEF HandlerFails
<1>15. ASSUME NEW c \in Conns, Finally(c), UNCHANGED life PROVE SweepInv'
  BY <1>15 DEF Finally
<1>16. ASSUME NEW c \in Conns, Client(c) PROVE SweepInv'
  BY <1>16 DEF Client, Connect, ClientStarts, ClientQueries, Send, Says, Disconnect
<1>17. CASE Accept
  BY <1>17 DEF Accept, AcceptCheck, AcceptReturns
<1>18. CASE Backup
  BY <1>18 DEF Backup, BackupFire, BackupLock, BackupEnd, Acquire, Release, Saves
<1>19. CASE CloseBegin
  BY <1>19 DEF CloseBegin, FlagLowered
<1>20. CASE Close
  <2> USE DEF Close
  <2>1. CASE CloseScheduler
    BY <1>20, <2>1 DEF CloseScheduler
  <2>2. CASE CloseServer
    BY <1>20, <2>2 DEF CloseServer
  <2>3. CASE CloseSwept
    BY <1>20, <2>3 DEF CloseSwept, SweepDone
  <2>4. CASE CloseLock
    BY <1>20, <2>4 DEF CloseLock, Acquire
  <2>5. CASE \E c \in Conns : CloseSocket(c)
    BY <1>20, <2>5 DEF CloseSocket
  <2>6. CASE \E result \in Outcomes : CloseDump(result)
    BY <1>20, <2>6 DEF CloseDump, Release, Saves
  <2>7. CASE \E result \in Outcomes : ClosePgLite(result)
    BY <1>20, <2>7 DEF ClosePgLite, Saves
  <2> QED BY <1>20, <2>1, <2>2, <2>3, <2>4, <2>5, <2>6, <2>7
<1>21. CASE UNCHANGED vars
  BY <1>21 DEF vars
<1> QED
  BY <1>1, <1>2, <1>3, <1>4, <1>5, <1>6, <1>7, <1>8, <1>9, <1>10, <1>11, <1>12, <1>13, <1>14, <1>15, <1>16, <1>17, <1>18, <1>19, <1>20, <1>21 DEF Next, Handler, Terminated

\* Once its final dump has succeeded, close() has closed every socket that a reply
\* could still be written to.
LEMMA DumpStep == TypeOK /\ SweepInv /\ DumpInv /\ [Next]_vars => DumpInv'
<1> SUFFICES ASSUME TypeOK, SweepInv, DumpInv, [Next]_vars PROVE DumpInv' OBVIOUS
<1> USE DEF TypeOK, SweepInv, CommittedStates, SweptStates, DumpInv, At, Goto, life, socks, start
<1>1. ASSUME NEW c \in Conns, Register(c), UNCHANGED life PROVE DumpInv'
  BY <1>1 DEF Register, Registers
<1>2. ASSUME NEW c \in Conns, PeekCache(c), UNCHANGED life PROVE DumpInv'
  BY <1>2 DEF PeekCache
<1>3. ASSUME NEW c \in Conns, EnterStartup(c), UNCHANGED life PROVE DumpInv'
  BY <1>3 DEF EnterStartup
<1>4. ASSUME NEW c \in Conns, StartupLoop(c), UNCHANGED life PROVE DumpInv'
  BY <1>4, StartupLoopEffect DEF Release
<1>5. ASSUME NEW c \in Conns, StartupRead(c), UNCHANGED life PROVE DumpInv'
  BY <1>5 DEF StartupRead, Read
<1>6. ASSUME NEW c \in Conns, StartupExec(c), UNCHANGED life PROVE DumpInv'
  BY <1>6, StartupExecEffect DEF Release
<1>7. ASSUME NEW c \in Conns, ReplayOne(c), UNCHANGED life PROVE DumpInv'
  BY <1>7 DEF ReplayOne, Replaying
<1>8. ASSUME NEW c \in Conns, ReplayEnd(c), UNCHANGED life PROVE DumpInv'
  BY <1>8 DEF ReplayEnd, Replaying
<1>9. ASSUME NEW c \in Conns, ServeLoop(c), UNCHANGED life PROVE DumpInv'
  BY <1>9 DEF ServeLoop
<1>10. ASSUME NEW c \in Conns, ServeRead(c), UNCHANGED life PROVE DumpInv'
  BY <1>10 DEF ServeRead, Read
<1>11. ASSUME NEW c \in Conns, ServeLock(c), UNCHANGED life PROVE DumpInv'
  BY <1>11 DEF ServeLock
<1>12. ASSUME NEW c \in Conns, ServeExec(c), UNCHANGED life PROVE DumpInv'
  BY <1>12 DEF ServeExec
<1>13. ASSUME NEW c \in Conns, ServeWrite(c), UNCHANGED life PROVE DumpInv'
  BY <1>13 DEF ServeWrite
<1>14. ASSUME NEW c \in Conns, HandlerFails(c), UNCHANGED life PROVE DumpInv'
  BY <1>14 DEF HandlerFails
<1>15. ASSUME NEW c \in Conns, Finally(c), UNCHANGED life PROVE DumpInv'
  BY <1>15 DEF Finally
<1>16. ASSUME NEW c \in Conns, Client(c) PROVE DumpInv'
  BY <1>16 DEF Client, Connect, ClientStarts, ClientQueries, Send, Says, Disconnect
<1>17. CASE Accept
  BY <1>17 DEF Accept, AcceptCheck, AcceptReturns
<1>18. CASE Backup
  BY <1>18 DEF Backup, BackupFire, BackupLock, BackupEnd, Acquire, Release, Saves
<1>19. CASE CloseBegin
  BY <1>19 DEF CloseBegin, FlagLowered
<1>20. CASE Close
  <2> USE DEF Close
  <2>1. CASE CloseScheduler
    BY <1>20, <2>1 DEF CloseScheduler
  <2>2. CASE CloseServer
    BY <1>20, <2>2 DEF CloseServer
  <2>3. CASE CloseSwept
    BY <1>20, <2>3 DEF CloseSwept, SweepDone
  <2>4. CASE CloseLock
    BY <1>20, <2>4 DEF CloseLock, Acquire
  <2>5. CASE \E c \in Conns : CloseSocket(c)
    BY <1>20, <2>5 DEF CloseSocket
  <2>6. CASE \E result \in Outcomes : CloseDump(result)
    BY <1>20, <2>6 DEF CloseDump, Release, Saves
  <2>7. CASE \E result \in Outcomes : ClosePgLite(result)
    BY <1>20, <2>7 DEF ClosePgLite, Saves
  <2> QED BY <1>20, <2>1, <2>2, <2>3, <2>4, <2>5, <2>6, <2>7
<1>21. CASE UNCHANGED vars
  BY <1>21 DEF vars
<1> QED
  BY <1>1, <1>2, <1>3, <1>4, <1>5, <1>6, <1>7, <1>8, <1>9, <1>10, <1>11, <1>12, <1>13, <1>14, <1>15, <1>16, <1>17, <1>18, <1>19, <1>20, <1>21 DEF Next, Handler, Terminated

-----------------------------------------------------------------------------
IInv == TypeOK /\ LockInv /\ StartInv /\ FlagInv /\ RegisterInv /\ SweepInv
        /\ DumpInv

\* The invariant holds initially and every step keeps it.
LEMMA Invariance == Spec => []IInv
<1>1. Init => IInv
  <2> SUFFICES ASSUME Init PROVE IInv OBVIOUS
  <2>1. TypeOK
    BY TypeInit
  <2>2. LockInv
    BY OwnerNames DEF Init, LockInv, LockedStates
  <2>3. StartInv /\ FlagInv /\ RegisterInv /\ SweepInv /\ DumpInv
    BY DEF Init, StartInv, FlagInv, RegisterInv, RegisteredStates, SweepInv,
           CommittedStates, DumpInv
  <2> QED BY <2>1, <2>2, <2>3 DEF IInv
<1>2. IInv /\ [Next]_vars => IInv'
  BY TypeStep, LockStep, StartStep, FlagStep, RegisterStep, SweepStep,
     DumpStep DEF IInv
<1> QED BY <1>1, <1>2, PTL DEF Spec

\* Every variable keeps its type.
THEOREM TypeCorrect == Spec => []TypeOK
<1>1. IInv => TypeOK
  BY DEF IInv
<1> QED BY <1>1, Invariance, PTL

\* pgLock serializes the handlers, the backup and the dump of close(), for any
\* number of connections; only PGLite.close runs beside them.
THEOREM Serialization == Spec => []SerializedUse
<1>1. IInv => SerializedUse
  <2> SUFFICES ASSUME IInv, NEW t \in Inside, NEW u \in Inside, t # u
               PROVE  closer = "final" /\ "closer" \in {t, u}
    BY DEF SerializedUse
  <2>1. \A x \in Inside : pgLock = x \/ (x = "closer" /\ closer = "final")
    BY DEF IInv, LockInv, LockedStates, ExecStates, Inside
  <2> QED BY <2>1
<1> QED BY <1>1, Invariance, PTL

\* However many clients connect at once, once one startup has been cached the
\* backend is never sent another startup message.
THEOREM StartupIsSentOnce == Spec => StartupOnce
<1>1. IInv /\ [Next]_vars =>
        [\A c \in Conns :
           cached # NoCache => ~(pc[c] # "sexec" /\ pc'[c] = "sexec")]_vars
  <2> SUFFICES ASSUME IInv, [Next]_vars, NEW c \in Conns, cached # NoCache,
                      pc[c] # "sexec", pc'[c] = "sexec"
               PROVE  FALSE
    OBVIOUS
  <2>1. pc[c] = "sread"
    <3> USE DEF IInv, TypeOK, At, Goto
    <3>1. CASE \E d \in Conns : Handler(d)
      <4> PICK d \in Conns : Handler(d)
        BY <3>1
      <4>1. CASE StartupLoop(d)
        BY <4>1, StartupLoopEffect
      <4>2. CASE StartupExec(d)
        BY <4>2, StartupExecEffect
      <4> QED
        BY <4>1, <4>2 DEF Handler, Register, PeekCache, EnterStartup,
           StartupRead, ReplayOne, ReplayEnd, ServeLoop, ServeRead, ServeLock,
           ServeExec, ServeWrite, HandlerFails, Finally, Read
    <3>2. CASE \E d \in Conns : Client(d)
      BY <3>2 DEF Client, Connect, ClientStarts, ClientQueries, Send, Says,
         Disconnect
    <3>3. CASE Accept
      BY <3>3 DEF Accept, AcceptCheck, AcceptReturns
    <3>4. CASE Close
      BY <3>4 DEF Close, CloseScheduler, CloseServer, CloseSwept, CloseLock,
         CloseSocket, CloseDump, ClosePgLite
    <3>5. CASE UNCHANGED pc
      BY <3>5
    <3> QED
      BY <3>1, <3>2, <3>3, <3>4, <3>5 DEF Next, Backup, CloseBegin, Terminated,
         vars
  <2> QED BY <2>1 DEF IInv, StartInv
<1> QED BY <1>1, Invariance, PTL DEF Spec, StartupOnce

\* A final dump whose statements ran covers every acknowledged query, and no
\* query is acknowledged after it.
THEOREM FinalDumpIsFinal == Spec => []FinalDumpCoversAcks
<1>1. IInv => FinalDumpCoversAcks
  BY DEF IInv, DumpInv, FinalDumpCoversAcks
<1> QED BY <1>1, Invariance, PTL
-----------------------------------------------------------------------------
(***************************************************************************)
(* What a client and its handler have got to: the inductive invariant that *)
(* keeps startup messages out of the query loop.                           *)
(***************************************************************************)
\* The client sends m next, or has sent it and has no reply; no message is on
\* its way and in a handler's buffer at once.
Awaits(c, from, m, to) ==
    /\ inbox[c] = NoMsg \/ buf[c] = NoMsg
    /\ \/ client[c] = from /\ inbox[c] = NoMsg /\ buf[c] = NoMsg
       \/ client[c] \in {to, "gone"} /\ inbox[c] \in {NoMsg, m} /\ buf[c] \in {NoMsg, m}
AwaitsStartup(c)  == Awaits(c, "new", "startup", "greeted")
AwaitsPassword(c) == Awaits(c, "challenged", "password", "answered")
AwaitsQuery(c)    == Awaits(c, "ready", "query", "waiting")

\* The label of the handler, what it has collected or has left to replay, and
\* what its client sends next agree.  Once running is false a replay may be of
\* a startup that was cut short, but then the query loop is not entered.
TalkOf(c) ==
    /\ pc[c] \in {"unconnected", "backlog", "refused", "register", "peek", "enter"}
          => AwaitsStartup(c)
    /\ pc[c] \in {"sloop", "sread", "sexec"} =>
          \/ todo[c] = <<>> /\ AwaitsStartup(c)
          \/ todo[c] = <<"auth">> /\ AwaitsPassword(c)
    /\ pc[c] \in {"replay", "lreplay"} =>
          \/ todo[c] = <<"auth", "ready">> /\ AwaitsStartup(c)
          \/ todo[c] = <<"auth">> /\ AwaitsStartup(c) /\ ~running
          \/ todo[c] = <<"ready">> /\ AwaitsPassword(c)
          \/ todo[c] = <<>> /\ (running => AwaitsQuery(c))
    /\ pc[c] = "loop" /\ running => AwaitsQuery(c)
    /\ pc[c] \in {"read", "lock", "exec", "write"} => AwaitsQuery(c)
    /\ pc[c] \notin {"finally", "done"} =>
          (buf[c] # NoMsg <=> pc[c] \in {"sexec", "lock", "exec", "write"})

\* What is cached while the instance runs is a whole startup; after that it may
\* be the first part of one.
CacheInv ==
    \/ cached \in {NoCache, <<"auth", "ready">>}
    \/ cached \in {<<>>, <<"auth">>} /\ ~running
TalkInv ==
    /\ CacheInv
    /\ \A c \in Conns : TalkOf(c)

\* A connection that a step leaves alone stays as it is.
LEMMA TalkLeft ==
    ASSUME NEW d, TalkOf(d), running' => running, pc'[d] = pc[d], todo'[d] = todo[d],
           inbox'[d] = inbox[d], buf'[d] = buf[d], client'[d] = client[d]
    PROVE  TalkOf(d)'
  BY DEF TalkOf, AwaitsStartup, AwaitsPassword, AwaitsQuery, Awaits

\* A step of the handler of c leaves all other connections alone.
LEMMA HandlerIsAlone ==
    ASSUME TypeOK, NEW c \in Conns, Handler(c), NEW d \in Conns, d # c
    PROVE  /\ pc'[d] = pc[d] /\ todo'[d] = todo[d] /\ inbox'[d] = inbox[d]
           /\ buf'[d] = buf[d] /\ client'[d] = client[d]
<1> USE DEF TypeOK, Goto, At, socks, start, wire
<1>1. CASE Register(c) \/ PeekCache(c) \/ EnterStartup(c)
  BY <1>1 DEF Register, PeekCache, EnterStartup
<1>2. CASE StartupLoop(c)
  BY <1>2 DEF StartupLoop, Publish
<1>3. CASE StartupRead(c) \/ ServeRead(c)
  BY <1>3 DEF StartupRead, ServeRead, Read
<1>4. CASE StartupExec(c)
  <2>1. pc'[d] = pc[d]
    BY <1>4, StartupExecEffect
  <2>2. inbox'[d] = inbox[d] /\ buf'[d] = buf[d] /\ client'[d] = client[d]
    BY <1>4 DEF StartupExec, Told, Forget
  <2>3. todo'[d] = todo[d]
    BY <1>4 DEF StartupExec, Publish
  <2> QED BY <2>1, <2>2, <2>3
<1>5. CASE ReplayOne(c)
  BY <1>5 DEF ReplayOne, Told
<1>6. CASE ReplayEnd(c) \/ ServeLoop(c) \/ ServeLock(c) \/ ServeExec(c) \/ HandlerFails(c)
  BY <1>6 DEF ReplayEnd, ServeLoop, ServeLock, ServeExec, HandlerFails
<1>7. CASE ServeWrite(c)
  BY <1>7 DEF ServeWrite, Told, Forget
<1>8. CASE Finally(c)
  BY <1>8 DEF Finally, Forget
<1> QED BY <1>1, <1>2, <1>3, <1>4, <1>5, <1>6, <1>7, <1>8 DEF Handler

\* The reply to the password ends what a startup collects.
LEMMA WholeStartup == Append(<<"auth">>, "ready") = <<"auth", "ready">>
<1> DEFINE s == <<"auth">>
           t == <<"auth", "ready">>
           u == Append(s, "ready")
<1>1. s \in Seq(Replies) /\ t \in Seq(Replies) /\ "ready" \in Replies
  BY DEF Replies
<1>2. Len(s) = 1 /\ s[1] = "auth" /\ Len(t) = 2 /\ t[1] = "auth" /\ t[2] = "ready"
  OBVIOUS
<1> HIDE DEF s, t
<1>3. /\ u \in Seq(Replies) /\ Len(u) = Len(s) + 1 /\ u[Len(s) + 1] = "ready"
      /\ \A i \in 1 .. Len(s) : u[i] = s[i]
  BY <1>1, AppendProperties
<1> HIDE DEF u
<1>4. Len(u) = Len(t) /\ \A i \in 1 .. Len(u) : u[i] = t[i]
  <2>1. 1 + 1 = 2 /\ 1 .. 1 = {1} /\ 1 .. 2 = {1, 2}
    OBVIOUS
  <2> QED BY <1>2, <1>3, <2>1
<1>5. u = t
  BY <1>1, <1>3, <1>4, SeqEqual
<1> QED BY <1>5 DEF s, t, u

\* What the handler of c does to its own exchange, and to the cache.
LEMMA HandlerTalks ==
    ASSUME TypeOK, TalkInv, NEW c \in Conns, Handler(c)
    PROVE  TalkOf(c)' /\ CacheInv'
<1> USE DEF TypeOK, Goto, At, socks, start, wire
<1>r. TalkOf(c) /\ running' = running /\ CacheInv
  BY DEF TalkInv, Handler, life
<1>k. ASSUME UNCHANGED cached PROVE CacheInv'
  BY <1>k, <1>r DEF CacheInv
<1>m. NoMsg \notin Msgs /\ NoCache \notin {<<"auth", "ready">>}
  BY DEF NoMsg, Msgs, NoCache
<1>1. CASE Register(c)
  BY <1>1, <1>r, <1>k DEF Register, TalkOf, AwaitsStartup, Awaits
<1>2. CASE PeekCache(c)
  <2>1. UNCHANGED <<wire, cached>> /\ pc[c] = "peek"
    BY <1>2 DEF PeekCache
  <2>2. CASE cached # NoCache
    <3>1. pc'[c] = "replay" /\ todo'[c] = cached
      BY <1>2, <2>2 DEF PeekCache, CacheSeen
    <3>2. AwaitsStartup(c)' /\ buf'[c] = NoMsg
      BY <1>r, <2>1 DEF TalkOf, AwaitsStartup, Awaits
    <3> QED BY <1>r, <1>k, <2>1, <2>2, <3>1, <3>2 DEF TalkOf, CacheInv
  <2>3. CASE cached = NoCache
    <3>1. pc'[c] = "enter"
      BY <1>2, <2>3 DEF PeekCache, CacheSeen
    <3> QED BY <1>r, <1>k, <2>1, <3>1 DEF TalkOf, AwaitsStartup, Awaits
  <2> QED BY <2>2, <2>3
<1>3. CASE EnterStartup(c)
  <2>1. UNCHANGED <<wire, cached>> /\ pc[c] = "enter"
    BY <1>3 DEF EnterStartup
  <2>2. CASE cached # NoCache
    <3>1. pc'[c] = "lreplay" /\ todo'[c] = cached
      BY <1>3, <2>2 DEF EnterStartup, CacheSeenUnderLock
    <3>2. AwaitsStartup(c)' /\ buf'[c] = NoMsg
      BY <1>r, <2>1 DEF TalkOf, AwaitsStartup, Awaits
    <3> QED BY <1>r, <1>k, <2>1, <2>2, <3>1, <3>2 DEF TalkOf, CacheInv
  <2>3. CASE cached = NoCache
    <3>1. pc'[c] = "sloop" /\ todo'[c] = <<>>
      BY <1>3, <2>3 DEF EnterStartup, CacheSeenUnderLock
    <3> QED BY <1>r, <1>k, <2>1, <3>1 DEF TalkOf, AwaitsStartup, Awaits
  <2> QED BY <2>2, <2>3
<1>4. CASE StartupLoop(c)
  <2>1. UNCHANGED wire /\ pc[c] = "sloop"
    BY <1>4 DEF StartupLoop
  <2>2. CASE running
    <3>1. pc'[c] = "sread" /\ UNCHANGED <<todo, cached>>
      BY <1>4, <2>2 DEF StartupLoop
    <3> QED BY <1>r, <1>k, <2>1, <3>1 DEF TalkOf, AwaitsStartup, AwaitsPassword, Awaits
  <2>3. CASE ~running
    <3>1. pc'[c] = "loop" /\ cached' = todo[c]
      BY <1>4, <2>3 DEF StartupLoop, Publish
    <3>2. todo[c] \in {<<>>, <<"auth">>}
      BY <1>r, <2>1 DEF TalkOf
    <3>3. CacheInv'
      BY <1>r, <2>3, <3>1, <3>2 DEF CacheInv
    <3> QED BY <1>r, <2>1, <2>3, <3>1, <3>3 DEF TalkOf
  <2> QED BY <2>2, <2>3
<1>5. CASE StartupRead(c)
  <2>1. /\ pc[c] = "sread" /\ pc'[c] = "sexec" /\ inbox[c] # NoMsg
        /\ buf'[c] = inbox[c] /\ inbox'[c] = NoMsg /\ UNCHANGED <<todo, cached, client>>
    BY <1>5 DEF StartupRead, Read
  <2> QED BY <1>r, <1>k, <2>1 DEF TalkOf, AwaitsStartup, AwaitsPassword, Awaits
<1>6. CASE StartupExec(c)
  <2>1. pc[c] = "sexec" /\ buf[c] # NoMsg
    BY <1>6, <1>r DEF StartupExec, TalkOf
  <2>2. /\ client'[c] = IF client[c] = "gone" THEN "gone"
                        ELSE IF Reply(buf[c]) = "auth" THEN "challenged" ELSE "ready"
        /\ buf'[c] = NoMsg /\ UNCHANGED inbox
    BY <1>6 DEF StartupExec, Told, Forget
  <2>3. CASE todo[c] = <<>> /\ AwaitsStartup(c)
    <3>1. buf[c] = "startup" /\ client[c] \in {"greeted", "gone"} /\ inbox[c] = NoMsg
      BY <2>1, <2>3 DEF AwaitsStartup, Awaits
    <3>2. Reply(buf[c]) = "auth"
      BY <3>1 DEF Reply
    <3>3. Collected(c) = <<"auth">>
      BY <2>3, <3>2 DEF Collected
    <3>4. pc'[c] = "sloop" /\ todo'[c] = <<"auth">> /\ UNCHANGED cached
      BY <1>6, <3>2, <3>3 DEF StartupExec, EndsWithReadyForQuery
    <3>5. AwaitsPassword(c)'
      BY <2>2, <3>1, <3>2 DEF AwaitsPassword, Awaits
    <3> QED BY <1>r, <1>k, <2>2, <3>4, <3>5 DEF TalkOf
  <2>4. CASE todo[c] = <<"auth">> /\ AwaitsPassword(c)
    <3>1. buf[c] = "password" /\ client[c] \in {"answered", "gone"} /\ inbox[c] = NoMsg
      BY <2>1, <2>4 DEF AwaitsPassword, Awaits
    <3>2. Reply(buf[c]) = "ready"
      BY <3>1 DEF Reply
    <3>3. Collected(c) = <<"auth", "ready">>
      BY <2>4, <3>2, WholeStartup DEF Collected
    <3>4. pc'[c] = "loop" /\ cached' = <<"auth", "ready">>
      BY <1>6, <3>2, <3>3 DEF StartupExec, EndsWithReadyForQuery, Publish
    <3>5. AwaitsQuery(c)'
      BY <2>2, <3>1, <3>2 DEF AwaitsQuery, Awaits
    <3> QED BY <1>r, <2>2, <3>4, <3>5 DEF TalkOf, CacheInv
  <2> QED BY <1>r, <2>1, <2>3, <2>4 DEF TalkOf
<1>7. CASE ReplayOne(c)
  <2>1. /\ pc[c] \in {"replay", "lreplay"} /\ UNCHANGED <<pc, cached, buf>>
        /\ todo[c] # <<>> /\ inbox[c] # NoMsg /\ inbox'[c] = NoMsg
        /\ todo'[c] = Tail(todo[c])
    BY <1>7 DEF ReplayOne, Replaying
  <2>2. client'[c] = IF client[c] = "gone" THEN "gone"
                     ELSE IF Head(todo[c]) = "auth" THEN "challenged" ELSE "ready"
    BY <1>7 DEF ReplayOne, Told
  <2>3. buf[c] = NoMsg
    BY <1>r, <2>1 DEF TalkOf
  <2>4. CASE todo[c] = <<"auth", "ready">> /\ AwaitsStartup(c)
    <3>1. todo'[c] = <<"ready">> /\ Head(todo[c]) = "auth"
      BY <2>1, <2>4
    <3>2. AwaitsPassword(c)'
      BY <2>1, <2>2, <2>3, <2>4, <3>1 DEF AwaitsStartup, AwaitsPassword, Awaits
    <3> QED BY <1>r, <1>k, <2>1, <2>3, <3>1, <3>2 DEF TalkOf
  <2>5. CASE todo[c] = <<"ready">> /\ AwaitsPassword(c)
    <3>1. todo'[c] = <<>> /\ Head(todo[c]) = "ready"
      BY <2>1, <2>5
    <3>2. AwaitsQuery(c)'
      BY <2>1, <2>2, <2>3, <2>5, <3>1 DEF AwaitsPassword, AwaitsQuery, Awaits
    <3> QED BY <1>r, <1>k, <2>1, <2>3, <3>1, <3>2 DEF TalkOf
  <2>6. CASE todo[c] = <<"auth">> /\ ~running
    <3>1. todo'[c] = <<>>
      BY <2>1, <2>6
    <3> QED BY <1>r, <1>k, <2>1, <2>3, <2>6, <3>1 DEF TalkOf
  <2> QED BY <1>r, <2>1, <2>4, <2>5, <2>6 DEF TalkOf
<1>8. CASE ReplayEnd(c)
  <2>1. /\ pc[c] \in {"replay", "lreplay"} /\ pc'[c] = "loop"
        /\ todo[c] = <<>> /\ UNCHANGED <<wire, start>>
    BY <1>8 DEF ReplayEnd, Replaying
  <2>2. todo[c] \notin {<<"auth", "ready">>, <<"auth">>, <<"ready">>}
    BY <2>1
  <2> QED BY <1>r, <1>k, <2>1, <2>2 DEF TalkOf, AwaitsQuery, Awaits
<1>9. CASE ServeLoop(c)
  BY <1>9, <1>r, <1>k DEF ServeLoop, TalkOf, AwaitsQuery, Awaits
<1>10. CASE ServeRead(c)
  <2>1. /\ pc[c] = "read" /\ pc'[c] = "lock" /\ inbox[c] # NoMsg
        /\ buf'[c] = inbox[c] /\ inbox'[c] = NoMsg /\ UNCHANGED <<todo, cached, client>>
    BY <1>10 DEF ServeRead, Read
  <2> QED BY <1>r, <1>k, <2>1 DEF TalkOf, AwaitsQuery, Awaits
<1>11. CASE ServeLock(c)
  BY <1>11, <1>r, <1>k DEF ServeLock, TalkOf, AwaitsQuery, Awaits
<1>12. CASE ServeExec(c)
  BY <1>12, <1>r, <1>k DEF ServeExec, TalkOf, AwaitsQuery, Awaits
<1>13. CASE ServeWrite(c)
  <2>1. /\ pc[c] = "write" /\ pc'[c] = "loop" /\ buf'[c] = NoMsg
        /\ UNCHANGED <<inbox, todo, cached>>
    BY <1>13 DEF ServeWrite, Forget
  <2>2. buf[c] = "query" /\ inbox[c] = NoMsg /\ client[c] \in {"waiting", "gone"}
    BY <1>r, <2>1 DEF TalkOf, AwaitsQuery, Awaits
  <2>3. Reply(buf[c]) = "rows"
    BY <2>2 DEF Reply
  <2>4. client'[c] \in {"ready", "gone"}
    BY <1>13, <2>2, <2>3 DEF ServeWrite, Told
  <2> QED BY <1>r, <1>k, <2>1, <2>2, <2>4 DEF TalkOf, AwaitsQuery, Awaits
<1>14. CASE HandlerFails(c) \/ Finally(c)
  <2>1. pc'[c] \in {"finally", "done"} /\ UNCHANGED cached
    BY <1>14 DEF HandlerFails, Finally
  <2> QED BY <1>r, <1>k, <2>1 DEF TalkOf
<1> QED
  BY <1>1, <1>2, <1>3, <1>4, <1>5, <1>6, <1>7, <1>8, <1>9, <1>10, <1>11, <1>12,
     <1>13, <1>14 DEF Handler

\* Every step of every thread and of every client keeps the invariant.
LEMMA TalkStep == TypeOK /\ TalkInv /\ [Next]_vars => TalkInv'
<1> SUFFICES ASSUME TypeOK, TalkInv, [Next]_vars PROVE TalkInv' OBVIOUS
<1> USE DEF TypeOK, life, socks, start, wire
<1>1. ASSUME NEW c \in Conns, Handler(c) PROVE TalkInv'
  <2>1. running' = running
    BY <1>1 DEF Handler
  <2>2. \A d \in Conns : d # c => TalkOf(d)'
    BY <1>1, <2>1, HandlerIsAlone, TalkLeft DEF TalkInv
  <2> QED BY <1>1, <2>2, HandlerTalks DEF TalkInv
<1>2. ASSUME NEW c \in Conns, Client(c) PROVE TalkInv'
  <2>1. UNCHANGED <<running, cached, todo, buf>>
    BY <1>2 DEF Client, Connect, ClientStarts, ClientQueries, Send, Says, Disconnect
  <2>2. ASSUME NEW d \in Conns, d # c PROVE TalkOf(d)'
    <3>1. pc'[d] = pc[d] /\ inbox'[d] = inbox[d] /\ client'[d] = client[d]
      BY <1>2, <2>2 DEF Client, Connect, ClientStarts, ClientQueries, Send, Says,
         Disconnect, Goto
    <3> QED BY <2>1, <3>1, TalkLeft DEF TalkInv
  <2>3. TalkOf(c)'
    <3>1. CASE Connect(c)
      BY <2>1, <3>1 DEF TalkInv, Connect, At, Goto, TalkOf, AwaitsStartup, Awaits
    <3>2. CASE ClientStarts(c) \/ ClientQueries(c)
      <4>1. UNCHANGED pc
        BY <3>2 DEF ClientStarts, ClientQueries, Send, Says
      <4>2. CASE Send(c, "new", "startup", "greeted")
        <5>1. client[c] = "new" /\ client'[c] = "greeted" /\ inbox'[c] = "startup"
          BY <4>2 DEF Send, Says
        <5> QED
          BY <2>1, <4>1, <5>1
             DEF TalkInv, TalkOf, AwaitsStartup, AwaitsPassword, AwaitsQuery, Awaits
      <4>3. CASE Send(c, "challenged", "password", "answered")
        <5>1. client[c] = "challenged" /\ client'[c] = "answered" /\ inbox'[c] = "password"
          BY <4>3 DEF Send, Says
        <5> QED
          BY <2>1, <4>1, <5>1
             DEF TalkInv, TalkOf, AwaitsStartup, AwaitsPassword, AwaitsQuery, Awaits
      <4>4. CASE Send(c, "ready", "query", "waiting")
        <5>1. client[c] = "ready" /\ client'[c] = "waiting" /\ inbox'[c] = "query"
          BY <4>4 DEF Send, Says
        <5> QED
          BY <2>1, <4>1, <5>1
             DEF TalkInv, TalkOf, AwaitsStartup, AwaitsPassword, AwaitsQuery, Awaits
      <4> QED BY <3>2, <4>2, <4>3, <4>4 DEF ClientStarts, ClientQueries
    <3>3. CASE Disconnect(c)
      <4>1. client'[c] = "gone" /\ UNCHANGED <<pc, inbox>>
        BY <3>3 DEF Disconnect, Says
      <4> QED
        BY <2>1, <4>1
           DEF TalkInv, TalkOf, AwaitsStartup, AwaitsPassword, AwaitsQuery, Awaits
    <3> QED BY <1>2, <3>1, <3>2, <3>3 DEF Client
  <2> QED BY <2>1, <2>2, <2>3 DEF TalkInv, CacheInv
<1>3. CASE Accept \/ (CloseServer /\ Close)
  <2>1. UNCHANGED <<running, start, wire>>
    BY <1>3 DEF Accept, Close
  <2>2. ASSUME NEW d \in Conns PROVE TalkOf(d)'
    <3>1. \/ pc'[d] = pc[d]
          \/ pc[d] = "backlog" /\ pc'[d] \in {"register", "refused"}
      BY <1>3 DEF Accept, AcceptCheck, AcceptReturns, At, Goto, CloseServer
    <3> QED BY <2>1, <3>1, TalkLeft DEF TalkInv, TalkOf, AwaitsStartup, Awaits
  <2> QED BY <2>1, <2>2 DEF TalkInv, CacheInv
<1>4. CASE (running' => running) /\ UNCHANGED <<pc, start, wire>>
  BY <1>4, TalkLeft DEF TalkInv, CacheInv
<1>5. CASE Close
  BY <1>3, <1>4, <1>5 DEF Close, CloseScheduler, CloseSwept, CloseLock, CloseSocket,
     CloseDump, ClosePgLite
<1>6. CASE Backup
  BY <1>4, <1>6 DEF Backup
<1>7. CASE CloseBegin
  BY <1>4, <1>7 DEF CloseBegin, FlagLowered
<1>8. CASE UNCHANGED vars
  BY <1>4, <1>8 DEF vars
<1> QED
  BY <1>1, <1>2, <1>3, <1>5, <1>6, <1>7, <1>8 DEF Next, Terminated

\* The invariant holds of every behaviour.
LEMMA TalkInvariance == Spec => []TalkInv
<1>1. Init => TalkInv
  BY DEF Init, TalkInv, TalkOf, CacheInv, AwaitsStartup, Awaits
<1> QED BY <1>1, TalkStep, TypeCorrect, PTL DEF Spec

\* However handlers, clients and close() interleave, no startup message reaches
\* the backend through the query loop: whatever a handler executes there is a
\* query.
THEOREM OnlyQueriesAreServed == Spec => []OnlyQueriesServed
<1>1. TypeOK /\ TalkInv => OnlyQueriesServed
  BY DEF OnlyQueriesServed, TalkInv, TalkOf, AwaitsQuery, Awaits
<1> QED BY <1>1, TalkInvariance, TypeCorrect, PTL

\* After the loop of close() the only handlers in a read of a socket that is
\* still open are in replayStartup, with a client that is in its startup.
THEOREM ReadersAreEnded == Spec => []NoReaderLeftBehind
<1>1. IInv /\ TalkInv => NoReaderLeftBehind
  <2> SUFFICES ASSUME IInv, TalkInv, closer \in SweptStates,
                      NEW c \in Conns, InRead(c)
               PROVE  \/ c \in closedSockets
                      \/ Replaying(c) /\ client[c] \notin {"ready", "waiting"}
    BY DEF NoReaderLeftBehind, SweptStates
  <2>1. CASE pc[c] \in {"sread", "read"}
    BY <2>1 DEF IInv, SweepInv, CommittedStates
  <2>2. CASE Replaying(c) /\ todo[c] # <<>>
    <3>1. AwaitsStartup(c) \/ AwaitsPassword(c)
      BY <2>2 DEF TalkInv, TalkOf, Replaying
    <3> QED BY <2>2, <3>1 DEF AwaitsStartup, AwaitsPassword, Awaits
  <2> QED BY <2>1, <2>2 DEF InRead
<1> QED BY <1>1, Invariance, TalkInvariance, PTL
=============================================================================
