# TLA+ models of pglite4j

pglite4j runs PostgreSQL, compiled to WebAssembly, inside the JVM, and offers it
as a JDBC driver. The database lives in memory; a URL that names a file adds
snapshots of it to that file. These modules model the parts of the program that
are concurrent, that fail half way, or that two languages have to agree on.

## The system

| part | state | operations |
|---|---|---|
| driver registry (`PgLiteDriver`) | `INSTANCES`: data path to instance | `connect` (boots on first use), `closeAndEvict`, shutdown hook |
| `ManagedInstance` | `running`, `serverSocket`, `activeSockets`, `cachedStartupResponses`, `pgLock`, the scheduler | `boot`, `acceptLoop`, one `handleConnection` thread per socket, `scheduledBackup`, `close` |
| `PGLite`, data directory | ZeroFS files, the host file `dataDir` and `dataDir.tmp` | constructor (extract, restore, invalidate buffers), `dumpDataDir`, `close` |
| `PGLite`, wire | CMA (contiguous memory area), `pendingWireLen`, output file | `execProtocolRaw`, `collectReply`, error recovery |
| patched backend | receive and send buffers, `sockfiles`, `cma_rsize`, error flag, one session | `interactive_one`, `pq_startmsgread`, `internal_putbytes`, `errfinish`, `pgl_invalidate_buffers` |
| WASI port, socket | lock file, reply file, queue and position counters | `connect`, `send`, `recv`, `getaddrinfo`, `freeaddrinfo` (`sdk_socket.c`) |
| WASI port, signals | `blocked_set`, `pending_array`, `old_handlers` | signal sets, `sigprocmask`, `blocked_handler` (`sdk_port-wasi.c`) |
| WASI port, loader | `dltab`, `dltab_index` | `dlopen`, `dlsym` (`sdk_port-wasi-dlfcn.c`) |
| WASI port, files | `shm_index`, files in `/tmp` | `mkstemp`, `tempnam`, `tmpfile` (`patch.h`), `shm_open`, `shm_unlink` |
| WASI port, processes | environment, the byte at address 0 | `getpid`, `getppid`, `kill`, `exit`, `fork`, `popen`, `system` |
| build | patched source trees | `entrypoint.sh`, `wasm-build.sh`, patches |

How they interact. A JDBC connection is a pgjdbc connection to a loopback socket
of its instance. Its handler thread passes each chunk it reads to
`execProtocolRaw` under `pgLock`. `execProtocolRaw` writes the chunk into WASM
memory, calls into the backend and collects the reply from memory or from a file.
The backup thread takes the same lock and calls `dumpDataDir`, which runs
`VACUUM FREEZE` and `CHECKPOINT` through `execProtocolRaw`, in the same session as
all clients, and zips the files. `close` stops all of it.

What is hard here:

* the startup exchange is run once and replayed from a cache to later
  connections; the cache is tested without the lock, then with it;
* `close` and the handlers meet through a volatile flag and a concurrent set,
  and a handler may hold `pgLock` while it waits for its client;
* dumps run in the clients' session, fail at any step, and processes die at any
  moment;
* Java and C agree about addresses and lengths in a memory area that can overflow
  in the middle of a reply;
* a PostgreSQL error is a trap that leaves both sides half way through a request;
* instances of one path follow each other, or overlap, over one data file and one
  temporary file;
* all connections share one unnamed statement, and the lock is held for a read of
  a socket, not for a batch;
* the WASI port keeps a socket's state in global counters and files, which must
  agree after every partial read;
* signal masks are made of handlers that are swapped, and handlers run in the
  middle of the swapping;
* libraries, temporary files and processes are imitated with tables, random names
  and constant pids, which must not collide over several calls and several runs.

`PROJECT.json` lists each of these at its line under `hazards`, with the
properties that would catch it.

## Modules

| module | models |
|---|---|
| `ManagedInstance` | the threads of one instance |
| `Snapshot` | dump, restore, failure and crash of one data file |
| `DurableStore` | what `Snapshot` implements |
| `WireBridge` | one `execProtocolRaw` after the other |
| `InstanceRegistry` | the instances of all paths, over several lives of the JVM |
| `SharedSession` | batches of several connections on the one session |
| `SdkSocket` | the file-backed socket of clients built for WASI |
| `Signals` | signal sets and `sigprocmask` over `signal()` and `raise()` |
| `Loader` | `dlopen` and `dlsym` for libraries that are linked in |
| `TempFiles` | temporary files and shared memory segments |
| `WasiProcess` | pids, the lock file of a data directory, `exit` |
| `WasiPort` | the five parts of the port in one specification, of which one moves |
| `ManagedInstanceProofs`, `SnapshotProofs`, `WireBridgeProofs`, `InstanceRegistryProofs`, `SdkSocketProofs`, `SignalsProofs` | theorems about the module of that name |
| `WasiPortProofs` | theorems about `Loader`, `TempFiles` and `WasiProcess`, and the type invariant of `WasiPort` |
| `MCManagedInstance`, `MCSnapshot`, `MCWireBridge`, `MCInstanceRegistry`, `MCWasiPort` | instances for TLC |

### ManagedInstance

A thread is a program counter (`pc[c]` for handlers, `accept`, `backup`,
`closer`), and a label stands for the code between two points at which another
thread can tell the difference: a test of a volatile field, a read or write of a
socket, an entry to a monitor. The labels `sexec`, `exec` and `dump` are *inside*
the WASM instance, so that two threads there at once are a visible state.

| code | actions |
|---|---|
| `acceptLoop` | `AcceptCheck`, `AcceptReturns` |
| `handleConnection` | `Register`, `ServeLoop`, `ServeRead`, `ServeLock`, `ServeExec`, `ServeWrite`, `HandlerFails`, `Finally` |
| `handleStartup` | `PeekCache`, `EnterStartup`, `StartupLoop`, `StartupRead`, `StartupExec`, `Publish` |
| `replayStartup` | `ReplayOne`, `ReplayEnd` |
| `scheduledBackup` | `BackupFire`, `BackupLock`, `BackupEnd` |
| `close` | `CloseBegin`, `CloseScheduler`, `CloseServer`, `CloseSocket`, `CloseSwept`, `CloseLock`, `CloseDump`, `ClosePgLite` |
| pgjdbc (external) | `Connect`, `ClientStarts`, `ClientQueries`, `Disconnect` |

The content of messages is reduced to the round they belong to: a startup packet
answered by an authentication request, a password answered by ReadyForQuery, and
queries. A dump is one step that throws an IOException, throws a
RuntimeException, or returns; one that returns has saved everything (`ok`), or
nothing new (`stale`), as `dumpDataDir` does not look at the replies to its
statements. `Snapshot` has its inside. The iterator of `close` over the
concurrent set is weakly consistent: it visits what was registered when it was
made and may visit what came later. `dirty` is a history variable: what has
been executed, and what has been acknowledged, since the last dump that was `ok`.

The reads are three: of the query loop and of the startup exchange, whose loops
test `running`, and of `replayStartup`, whose loop does not (`InRead`). A handler
that registers after the sweep of `close` may wait in the third on an open socket,
even with `pgLock`; `NoReaderLeftBehind` says that it is the only one, and that its
client still owes a message of its startup.

### Snapshot and DurableStore

The database is a set of rows. A row survives a restore when its tuple is frozen
(a restored instance has no commit log for it) and its page is in the zipped
files; so a row moves from `live` to `frozen` to `onFile` to the temporary file
to the data file, and each statement and step of `dumpDataDir` moves it one
place. A statement of the dump fails in an open transaction block, and may raise an
error outside one (`StatementErrors`); its reply is not looked at and the dump goes
on. `DumpFails` is an exception at any step and `Crash` the end of the process
at any step; `Boot` is the constructor of the next one. `AtomicMove` says whether
the host file system supports `ATOMIC_MOVE`. If it does not, the JDK removes the
target, copies onto it and deletes the source (`RemoveTarget`, `CopyBegin`,
`CopyEnd`, `DeleteTmp`). A crash in between can leave the data file missing or
partial. The next constructor then restores the entries before the end of the zip
without noticing, or throws if the zip ends inside an entry, which changes nothing
and is not a step.

No client statement runs during a dump. That is so for the backup thread and for
`close`, which hold `pgLock`; `PGLite.close` dumps without it, and a statement of a
handler beside that dump (`instance_race`) is not followed here.

`DurableStore` is the promise: a snapshot that lags behind the committed rows,
only grows, and is what a crash goes back to. The refinement maps its `mem` to
`live`, or to the file's rows while no process runs, and its `saved` to the
file's rows.

### WireBridge

A message and a piece of output take one memory cell each. A request is a
sequence of messages that are answered, not answered, raise an ERROR, or end a
batch (Sync). `WireSendCma`, `CollectBefore`, `CollectAfter` and `CollectLast` are
`execProtocolRaw`; `StartMsgRead` and `PutBytes` are the patched `pqcomm.c`;
`ErrFinish` the patched `elog.c`; `ResumeOnError` the patched `interactive_one.c`.
The loop of `interactive_one` over the messages, its flush at the end and its
return to the CMA for a new request are not in this repository and follow from
how the patches and `PGLite` use them. `sigsetjmp` of the port returns only once,
so that no PG_CATCH block is ever entered and every error takes the way of
`ErrFinish`. `Protocol` is the reference: what the
PostgreSQL protocol prescribes as the answer to a sequence of messages. It is the
last entry of a `Transcript`, a recursive function over the number of messages
answered so far, each of which goes on from the one before as `Answered` says.

A chunk is one batch. With two batches in one chunk `RepliesFollowProtocol` does
not hold: `ResumeOnError` drains the receive buffer, and with it the batches behind
the one that failed, which are neither executed nor answered.

### SharedSession

The handlers of `ManagedInstance` again, reduced to `ServeRead`, `ServeExec` and
`ServeWrite`, over what the session knows of statements. A client sends Parse,
Bind, Execute and Sync; a read returns any number of the messages that have
arrived; `ServeExec` serves all of them in one step, as `pgLock` has it. The
session keeps the connection its unnamed statement and portal come from. Chunks
end between messages, and no transaction block is open; both only make the
violation harder to reach.

### InstanceRegistry

`Connect`, `Restore` and `Register` are `connect` with the boot it may run inside
`computeIfAbsent`; `Evict` and `CloseBegin` are `closeAndEvict`; `HookBegin`,
`HookNext`, `HookReturns` and `Exit` are the shutdown hook and the end of the JVM.
An instance is a stage of its life and a set of committed rows. It has two threads
that dump: the one that closes it (the dump of `close`, then that of `PGLite.close`),
and its scheduler's. A dump opens the temporary file of the data file and later moves
it, so that two writers of one temporary file are a visible state. What it moves are
the rows of its instance, or no new ones when a statement of it raised an error; the
move is atomic. `dumped` is a history variable: the instances of which a dump of
the closing thread did its work.

`shutdownNow` does not stop a backup that waits for `pgLock`. It may get the lock
after the dump of `close` (`BackupLock` in the later stages), and then writes the
temporary file beside `PGLite.close`, which takes no lock; or after all of it, when it
truncates the temporary file and fails (`BackupLate`). `straggled` is the set of files
to which that has happened, and the properties exempt those files. Without the
exemption `FilesWhole` fails for one instance of a careful application:
`BackupFire`, `Evict`, `CloseBegin`, the dump of `close`, the beginning of
that of `PGLite.close`, `BackupLock`, and the end of either. Whether the interrupt of
`shutdownNow` stops the straggling backup inside the WASM runtime is a matter of that
runtime, and is not modelled. `FileOf` says which file a
path names; the runs take it to be injective, and with two texts for one file
`FilesWhole` fails, since `INSTANCES` is keyed by the text and the two instances
share a temporary file. `Careful` is what an application has to do for the properties to hold:
closing an evicted instance overlaps no connect to its path and no shutdown, and
nobody connects or commits while the hook runs.

### SdkSocket

Bytes of requests are counted and bytes of replies numbered. `SdkConnect`,
`SdkSendto`, `PqFlush` and `SdkRecvfrom` are the functions of `sdk_socket.c` and
the patched `pqFlush`; a flush inside `recv` is part of that action. The backend
is whatever writes the reply file while the client is in `sched_yield()`. libpq is
assumed to call `pqFlush` once per `recv`, and to send or connect again only when
the last reply has been read. The code says nothing of other clients, and its counters
are wrong for them: the end of a reply empties `fd_queue`, and `connect` keeps the
position. Writes and seeks are assumed not to fail, on a file system in memory;
`sdk_sendto` would add the -1 of a failed write to `fd_queue`. `SdkGetaddrinfo` has one disjunct for each place at which the lookup
returns; a block is named by the list it was allocated for.

### Signals

`Sigemptyset`, `Sigaddset`, `Sigdelset`, `Sigfillset`, `Sigprocmask`,
`SigprocmaskAborts` and `BlockedHandler` are the functions of `sdk_port-wasi.c`;
`signal()` and `raise()` are WASI's. A signal set is a set of bits; `BitOf` is a
shift distance taken modulo the width of a word and `Mask` what is left of it in a
`sigset_t`, so that some signals are in no set and some share a bit. `sigfillset`
shifts by too much and gives any set. A call that raises signals is a frame on a
stack; between two signals of a frame, inside a handler, the program may make every
call again, up to `MaxDepth` of them inside one another. `installed`, `owed` and
`bypassed` are history variables: what the program has asked for, what it has been
sent while it was blocked, and whether it has changed the handler of a blocked
signal with `signal()`, which the code says it does not support.

### Loader

`Dlopen`, `DlopenNull` and `DlopenTraps` are the outcomes of `dlopen`, `Dlsym` is
`dlsym`; `Initialise` and `LookUp` are PostgreSQL's. The table at index 0 is never
stored, and from the second library on the scan reads one at address 0, where the
client's request lies: it finds nothing, or the name, or an address out of bounds.
`pydk` is the build flag without which `dlopen` always fails. `dltab` is declared
with room for one entry, and entry 0 is the one that is not used: every table is
written behind the array. That is to memory nobody uses, or over somebody's variable
(`overrun`); a process to which the second happens is not followed any further, and
`InitOnce` is about what was before. Nor is an ERROR raised inside `_PG_init`.
`dsnowball_lexize` is not among the symbols `dlsym` knows (`Listed`), so that
`LookUp` never finds it, although the library is one of the two that are bundled.

### TempFiles

A file is a path that exists, with the number of those in the current process who
take it for their own. `Fresh` is the loop of `mktemp`; what `__randname` draws
is any name. `MkstempWild` is the end of that loop, after which `mkstemp` returns
the descriptor it finds in a NULL stream: another one, or that of a file in use, which
is then in `strays`. `Tempnam` returns a name and makes no file; `CreateNamed` does that
later, for any of those who got the name. `ShmOpen` looks neither at `oflag` nor whether
the segment is open, and empties it. `NextProcess` starts with the files that are there.

`OwnFilesKept` is about the files the code does protect: those of `mkstemp`, and
segments numbered by `SHM`. It exempts names that `tempnam` has returned, segments
without `SHM` and files in `strays`, of which the model has states with two users.

### WasiProcess

A run starts when PostgreSQL's lock file lets it: `kill(pid, 0)` says that every
process lives, so only its own pid, or its parent's, lets a run take over a file it
finds. `SdkExit` and `Abort` end a run with the file in place or not. The runs are those
of the build, `initdb` and then the backend; an instance that `PGLite` restores from a
dump skips `_start` and does not look for a lock file.

### WasiPort

The union of the five specifications, so that one run checks them: `part` is the one
whose calls are followed and the others stay where they are. It says nothing of the
parts together. They share no variable of C, but they do share address 0, where `exit`
leaves a byte and from which the loader's scan and `fileno(NULL)` read; each part takes
what it finds there as a choice.

## Runs

| run | checks | shows |
|---|---|---|
| `instance_safety` | `TypeOK`, `SerializedUse`, `OnlyQueriesServed`, `NoReaderLeftBehind`, `FinalDumpCoversAcks`, `StartupOnce` | the locking, the startup cache, the hand-over between `close` and the handlers, and a final dump whose statements ran hold with two clients, all failures and disconnections at any time |
| `instance_close` | `CloseCompletes` | `close` returns and all threads end |
| `instance_race` | `NoRaceWithHandlers`, violated | `pgLite.close()` runs outside `pgLock`, beside a handler that had already read its message |
| `instance_schedule` | `BackupsStayScheduled`, violated | a RuntimeException of one dump cancels all later backups |
| `snapshot_atomic` | `TypeOK`, `SavedWasCommitted`, `StoreSpec`, `IdleDumpIsComplete` | dump, failure, crash and restart implement `DurableStore` |
| `snapshot_fallback` | `ImageKept`, `IdleDumpIsComplete` | without an atomic move the data file can be missing or partial after a crash, but its rows are then in the temporary file |
| `snapshot_open_block` | `DumpIsComplete`, violated | a dump while a client has a transaction block open saves a stale image and fails that transaction |
| `wire_batch` | `TypeOK`, `RepliesFollowProtocol`, `CleanBetweenCalls`, `LoopEndsByItself` | `execProtocolRaw` is a faithful transport for one batch per call, in the CMA, through the file and through errors |
| `registry_careful` | `TypeOK`, `FilesWhole`, `FilesGrow`, `ShutdownSavesAll` | instances that follow each other hand their rows on through the file, also when boots, dumps and closes fail, unless a backup gets `pgLock` behind the dump of `close` |
| `registry_evict` | `FilesGrow`, violated | a connect during `closeAndEvict` boots from the old file, and its dump undoes the evicted instance's last one |
| `session_split` | `OwnStatement`, violated | a connection whose batch arrives in two reads executes the statement that another one has parsed in between |
| `wasi_port` | `PortTypeOK`, and of `SdkSocket` `ReceivedInOrder`, `NothingStranded`, `KilledOnlyIdle`, `LookupsLeakNothing` | replies arrive whole and in order for all buffer sizes, requests are handed over, the watchdog only ends clients that wait for nothing, and lookups free what they allocate wherever they fail |
| | of `Signals` `HandlersRestored`, `NothingLost` | nested blocking, also from handlers, loses neither a handler nor a signal |
| | of `Loader` `InitOnce` | plpgsql is initialised once, and before its functions are used, whatever is found at address 0 |
| | of `TempFiles` `OwnFilesKept` | no file of `mkstemp` and no numbered segment is shared, emptied or removed by another call |
| | of `WasiProcess` `NotLockedOut` | a lock file left behind stops no later run with the same environment |

`StoreSpec` is not checked in `snapshot_fallback` because it does not hold there:
a crash between removal and the end of the copy leaves no data file, or a part of
one, and the next constructor does not look for the temporary one.

Bounds. Two connections: every interaction in `ManagedInstance` is between two
threads (two handlers at the cache, a handler and `close`, a handler and the
backup), and the theorems remove the bound. Three rows: one frozen and saved, one
committed and one pending at the same time. Requests of up to three messages and
a Sync in a CMA of 8 cells: the request takes up to four and the reply starts
behind it, so that it fits, overflows at its last piece, or overflows before.
`MaxTicks` is the 256 of the code; the loop ends long before it
(`LoopEndsByItself`). Runs of the instance use symmetry only where no liveness
is checked. The registry has two paths, two instances per life of the JVM (one
that is evicted and its successor, or one of each path), each with two threads that
dump, and two rows; the run that is violated uses one path. Paths that change places
together with their files, instances and rows are symmetric. The socket has replies of up to 4 bytes and buffers
of 1, 2 and 5; its `WatchdogLimit` is 2 where the code has 32, which makes
`KilledOnlyIdle` stronger: two fruitless flushes in a row is the most that a client
with a reply before it can make. `NSIG` is 4 where the code has 65, with sets of 2
bits and shifts modulo 3 for 8 and 32: signals 0 and 1 have a bit, 2 is cut off and
refused by `signal()`, as SIGKILL is, and 3 shares the bit of 0. `MaxDepth` 2 is a
call inside a handler inside a call. Three libraries are plpgsql, one before it and
one after it; two names, two segments and two numbers make collisions; three runs are
one that leaves a lock file, one that takes it over or is refused, and one after that.
`wasi_port` and `session_split` do not check for deadlock: a process may exit, and a
client has a bounded number of queries.

Fairness (`instance_close`). Each handler, the accept thread, the executor's
thread and the thread in `close` take a step when they can: they are Java threads
that only block where the model blocks. A monitor is not fair, and weak fairness
of a waiting thread is enough because after the sweep every holder lets go and no
handler comes back for more. A client that has connected carries its startup on,
as pgjdbc does inside `getConnection`; it owes no query and no disconnection. That
the application calls `close` is not assumed.

## What is proved

TLAPS checks every theorem for every value of the constants that satisfies the
assumptions its module names. Each proof has one inductive invariant per component,
a conjunction of named parts, and one step per action. TLC finds no
state of the runs' instances that violates one of the invariants.

### ManagedInstanceProofs

For every set of connections that does not contain the three names of lock owners:

* `TypeCorrect`: `TypeOK`.
* `Serialization`: `SerializedUse`.
* `StartupIsSentOnce`: `StartupOnce`.
* `ReadersAreEnded`: `NoReaderLeftBehind`.
* `FinalDumpIsFinal`: `FinalDumpCoversAcks`.
* `OnlyQueriesAreServed`: `OnlyQueriesServed`.

The inductive invariant `IInv` has one part per argument. `LockInv` ties the owner
of `pgLock` to the program counters, in both directions; without the converse a
release could free another thread's lock. `StartInv` says that nobody is in the
startup exchange once there is a cache; it rests on `LockInv`. `FlagInv`,
`RegisterInv` and `SweepInv` are the hand-over with `close`: the flag is lowered
first; a handler is registered before it tests the flag; so one that saw the flag
up was registered before the sweep began and is in `pending` or has been closed.
`DumpInv` follows: after the sweep no reply can be written, so nothing
acknowledged can be missing from a final dump whose statements ran.

`TalkInv` is a second invariant, for `OnlyQueriesAreServed` and `ReadersAreEnded`: the label of a handler, what
it has collected or has left to replay, and what its client sends next agree. An
incomplete list is cached only after `running` was lowered, and a replay of it ends
at the query loop, which tests `running` again before it reads. So the invariant
relates the three only while `running` is true, and again after that test.

### SnapshotProofs

For every set of rows:

* `TypeCorrect`: in particular, with `AtomicMove`, the data file is never a partial zip.
* `NothingInvented`: `SavedWasCommitted`.
* `IdleDumps`: `IdleDumpIsComplete`.
* `ImageIsKept`: `ImageKept`, with or without `AtomicMove`.
* `Durability`: if `AtomicMove`, then `Spec => StoreSpec`.

The invariant adds `TmpInv` (what is moved is the zip of the files as they are, and
what is being written is partial) and `BaseInv` (how far the rows a dump owes have
got at each step).

### WireBridgeProofs

For every set of requests that are not empty and fit into the CMA, every size of the
CMA and every number of ticks above 0:

* `WireTypeCorrect`: `TypeOK`.
* `WireCleanBetweenCalls`: `CleanBetweenCalls`.
* `WireLoopEnds`: `LoopEndsByItself`.
* `WireRepliesFollowProtocol`: `RepliesFollowProtocol`, if every request is one batch
  (`OneBatchEach`: a Sync, and only there, at its end). Without that it does not
  hold; see above.

`LabelInv` says for each label of the loop where the request and the output are: in
the CMA and not read (`Asking`), partly read (`Unread`), handed over (`HandedOver`),
or taken (`Asked`). The first three theorems need no more. For the fourth, `OutInv`
relates what has been written to the `Transcript` of the request, at the number of
messages that have been read; after a trap it is the entry before the failed
message, since `ErrFinish` puts nothing out and `ClearError` reports the error later.
That function is recursive, and what holds of it for every length (that it exists and
satisfies its definition; that its entries are well typed; that once it skips it adds
nothing before the Sync) is proved with a least counterexample (`LeastNumber`): a set
of numbers that is not empty has a first one.

### InstanceRegistryProofs

For every set of paths, files, instances and rows, `RegistryTypeCorrect` proves
`TypeOK` for every application. If `Careful`, and if no two paths name one file
(`PathsApart`):

* `CarefulFilesWhole`: `FilesWhole`.
* `CarefulFilesGrow`: `FilesGrow`.
* `CarefulShutdownSavesAll`: `ShutdownSavesAll`.

`registry_evict` shows what happens without the first assumption. All three exempt the
files in `straggled`. The third says that `close` has ended for every instance that was
used, and that the rows of an instance are in its file if it is in `dumped`; of an
instance both of whose closing dumps failed it says nothing, since nothing is true.

`CareInv` says that every instance in use is found by those who connect to its path
(`LocatedInv`: it is registered, booting or being evicted), hence that there is one of
each path (`SingleInv`); that it holds what its dumps have saved (`RowsInv`); and of
every file that is not in `straggled` (`FileInv`) that its temporary file is written by
the threads that are in a dump, one at a time, and that its rows are in the instance in
use. While the hook runs it still has every instance in use before it (`HookInv`).

### SdkSocketProofs

For all sizes of requests, replies and buffers, and every limit of the watchdog above
0 (the code has 32; with a limit of 0 `KilledOnlyIdle` fails, as the first flush in
front of a reply would end the client):

* `SocketTypeCorrect`: `TypeOK`.
* `SocketReceivesInOrder`: `ReceivedInOrder`.
* `SocketStrandsNothing`: `NothingStranded`.
* `SocketKilledOnlyIdle`: `KilledOnlyIdle`.
* `SocketLeaksNothing`: `LookupsLeakNothing`.

The invariant adds `QueueInv` (what is queued was sent after the last reply was read)
and `WatchdogInv`: while there is a reply the counter is at most 2, as `recv` resets
it and libpq and `recv` flush once each before it does.

### SignalsProofs

For every number of signals, every width of `sigset_t` and of a word, every set of
signals that `signal()` refuses among those that have no bit, and every depth:

* `SignalsTypeCorrect`: `SigTypeOK`.
* `SignalsRestoreHandlers`: `HandlersRestored`.
* `SignalsLoseNothing`: `NothingLost`.

The two properties are inductive together once it is known that a call that is in no
handler has a signal left to raise (`FramesInv`).

### WasiPortProofs

* `LoaderTypeCorrect`, `LoaderInitsOnce`: `LoaderTypeOK` and `InitOnce` for every set of
  libraries.
* `FilesTypeCorrect`, `OwnFilesAreKept`: `TmpTypeOK` and `OwnFilesKept` for all sets of
  names and segments; `IndexInv` says that no file is in use whose number is still to
  come.
* `ProcessTypeCorrect`, `ProcessNotLockedOut`: `ProcessTypeOK` and `NotLockedOut` for
  any number of runs; `LockInv` says that a lock file has the pid of a setting there
  has been.
* `PortTypeCorrect`: `PortTypeOK`, whichever part it is that moves.

### Only model-checked

* `CloseCompletes`: liveness under fairness is outside the prover's reach.
* The five properties that runs show to be violated are of course not theorems.
  `FilesGrow` is one of them, and is proved under the assumptions above.

## What is not modelled

* Transaction blocks and named portals that several connections share: the
  repository's README says that they are not isolated.
* A message that is split over two reads: `pq_recvbuf` returns EOF, and what the
  backend makes of it is not in this repository.
* What threads do to each other that connect or commit while the shutdown hook
  runs: the code promises nothing there.
* Clients of the WASI socket that pipeline requests or connect in the middle of a
  reply, and writes of that socket that fail: an assumption of the model.
* What a write behind `dltab` destroys, and what follows from it.
* A client's statement beside the dump of `PGLite.close`, and whether the interrupt of
  `shutdownNow` reaches a backup inside the WASM runtime.
* What is left of the WASI port: constants that a caller is told (`getuid`,
  `geteuid`, `umask`, `getpwuid`, `getrlimit`, `getrusage`, `lockf`), and `dup`,
  which returns its argument, as its callers are not in this repository.
* The build: shell scripts that run from start to end in one process, and patches
  to programs (`initdb`, `pg_dump`) that are not in this repository.
* `pq_recvbuf` and `pq_recvbuf_fill`, the path for requests that come as files:
  this driver always uses the CMA.
* The state after a trap that is not a PostgreSQL error: anything may happen.
* PostgreSQL itself, pgjdbc, the WASM runtime, ZeroFS: external.
* Headers, the compilation, and the example applications: no behaviour.

## Plan

Every safety property that a passing run checks is a theorem. What is left, in this
order:

1. The straggling backup: `FilesWhole` of a registry whose `close` waits for the
   scheduler's thread, as a specification of what the code could promise.
2. `NoRaceWithHandlers` and `BackupsStayScheduled` as theorems of what does hold: the
   race needs a handler that has read its message before the sweep, and a schedule is
   lost only to a RuntimeException.
3. `OwnStatement` for batches that arrive in one read each.
4. The lemmas about sequences that `SdkSocketProofs` and `WireBridgeProofs` both need,
   stated once.
