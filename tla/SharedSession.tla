--------------------------- MODULE SharedSession ---------------------------
(***************************************************************************)
(* PgLiteDriver's handlers over the one session of the backend.  A client  *)
(* sends a query as a batch of messages that parse, bind and execute an    *)
(* unnamed statement, and a Sync.  Its handler passes on what one read of  *)
(* the socket returns, which need not be a whole batch, and holds pgLock   *)
(* for one such chunk; all connections have the same unnamed statement and *)
(* portal.  A chunk ends between two messages, and no client has a         *)
(* transaction block open.                                                 *)
(***************************************************************************)
EXTENDS Naturals, SequencesExt

CONSTANTS
    Conn,        \* connections that have been through their startup
    NoOne,
    MaxBatches   \* bounds what each client sends

VARIABLES
    pc,          \* of each handler
    socket,      \* what a client has sent and its handler has not read
    message,     \* the chunk that a handler has read
    response,    \* a ReadyForQuery is in the reply to that chunk
    waiting,     \* the client waits for a ReadyForQuery
    batches,     \* how many batches a client has sent
    session      \* the backend, and what it has executed

client == <<waiting, batches>>
vars   == <<pc, socket, message, response, client, session>>

\* The second query fails when it is executed.
Batch == {<<"parse", "bind", "execute", "sync">>,
          <<"parse", "bind", "fail", "sync">>}

\* The unnamed statement and portal, as the connection they are from, and who
\* has executed whose statement.
Init ==
    /\ pc = [c \in Conn |-> "read"]
    /\ socket = [c \in Conn |-> <<>>] /\ message = [c \in Conn |-> <<>>]
    /\ response = [c \in Conn |-> FALSE]
    /\ waiting = [c \in Conn |-> FALSE] /\ batches = [c \in Conn |-> 0]
    /\ session = [statement |-> NoOne, portal |-> NoOne, ran |-> {}]

\* pgjdbc sends a query and waits.
ClientQueries(c) ==
    /\ ~waiting[c] /\ batches[c] < MaxBatches
    /\ \E b \in Batch : socket' = [socket EXCEPT ![c] = @ \o b]
    /\ waiting' = [waiting EXCEPT ![c] = TRUE]
    /\ batches' = [batches EXCEPT ![c] = @ + 1]
    /\ UNCHANGED <<pc, message, response, session>>

\* in.read returns some of what has arrived.
ServeRead(c) ==
    /\ pc[c] = "read" /\ pc' = [pc EXCEPT ![c] = "exec"]
    /\ \E n \in 1 .. Len(socket[c]) :
          /\ message' = [message EXCEPT ![c] = SubSeq(socket[c], 1, n)]
          /\ socket' = [socket EXCEPT ![c] = SubSeq(@, n + 1, Len(@))]
    /\ UNCHANGED <<response, client, session>>
-----------------------------------------------------------------------------
\* The backend after one message of c.  After an error the rest of the chunk is
\* drained, the transaction is over and the session is ready again.
Failed(s) == [s EXCEPT !.portal = NoOne, !.ready = TRUE, !.drained = TRUE]

Serve(c, s, m) ==
    CASE s.drained       -> s
      [] m = "parse"     -> [s EXCEPT !.statement = c]
      [] m = "bind"      -> IF s.statement = NoOne THEN Failed(s)
                            ELSE [s EXCEPT !.portal = s.statement]
      [] m = "execute"   -> IF s.portal = NoOne THEN Failed(s)
                            ELSE [s EXCEPT !.ran = @ \cup {<<c, s.portal>>}]
      [] m = "fail"      -> Failed(s)
      [] m = "sync"      -> [s EXCEPT !.portal = NoOne, !.ready = TRUE]

\* execProtocolRaw, under pgLock: the whole chunk.
ServeExec(c) ==
    LET before == [statement |-> session.statement, portal |-> session.portal,
                   ran |-> session.ran, ready |-> FALSE, drained |-> FALSE]
        after  == FoldLeft(LAMBDA s, m : Serve(c, s, m), before, message[c])
    IN /\ pc[c] = "exec" /\ pc' = [pc EXCEPT ![c] = "write"]
       /\ session' = [statement |-> after.statement, portal |-> after.portal,
                      ran |-> after.ran]
       /\ response' = [response EXCEPT ![c] = after.ready]
       /\ UNCHANGED <<socket, message, client>>

\* The reply goes to the client.
ServeWrite(c) ==
    /\ pc[c] = "write" /\ pc' = [pc EXCEPT ![c] = "read"]
    /\ waiting' = [waiting EXCEPT ![c] = @ /\ ~response[c]]
    /\ UNCHANGED <<socket, message, response, batches, session>>

Next == \E c \in Conn :
    ClientQueries(c) \/ ServeRead(c) \/ ServeExec(c) \/ ServeWrite(c)

Spec == Init /\ [][Next]_vars
-----------------------------------------------------------------------------
\* What an Execute of a connection runs is the statement that the connection
\* has sent: the lock and unnamed statements keep the connections apart.
OwnStatement == \A r \in session.ran : r[1] = r[2]
=============================================================================
