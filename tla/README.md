# Formal models of AdvCpp-HW

TLA+ models of the programs in this repository, the TLC runs that check them on
small instances and TLAPS proofs about them for every instance. Paths are
relative to the repository; `hw6` and `hw7` are `hw6-HTTP_Server_Framework` and
`hw7-Shared_Memory_File`, whose server, coroutine and socket sources are the
same program; line numbers of the server are those of hw7.

## 1. The system

The repository holds seven homework projects. Each builds libraries; hw6 grows
out of hw2 and hw4, and hw7 out of hw6.

| part | state it keeps | operations |
|---|---|---|
| Coroutine pool (hw6, hw7 `coroutines/coroutine.cpp`) | per thread: a vector of `Routine`s (stack, context, function, `finished`, `exception`), a queue of finished ids, `current` | `create`, `resume`, `yield`, `current`; `entry` runs on each routine's stack |
| HTTP server (hw6, hw7 `HTTP/BaseHTTPServer.cpp`) | the listening socket, `m_timeout`, `m_shutdown`; per thread an epoll, `m_connections`, `m_coroutines`, `m_idleTime` | `open`, `listen`, `run`, `shutdown`; per thread `accept`, `handleConnection`, `resetConnectionTime`, `dropTimeoutedConnections`, `disconnectClient`; per request `readRequest`, `onRequest`, `writeResponse` |
| Non-blocking connection (hw4, hw6, hw7 `ConnectionAsync`) | socket, `m_opened`, buffer, event mask | `read`, `readToBuffer`, `write`, `close`, event and timeout setters |
| HTTP messages (hw6, hw7 `HTTPMessage.cpp`) | none | `fromString`, `toString`, header and parameter parsing |
| Mapped reader and LRU cache (hw7 `Reader.hpp`, `LRUCache.hpp`, `Mmap.cpp`) | the mapping; a list of entries by recency and a map of iterators into it | `getEntry`; `get`, `add`, `remove` |
| Epoll server (hw4 `ServerAsync.cpp`) | socket, epoll, connections, `m_shutdown` under a mutex | `open`, `listen`, `run`, `accept`, `handleConnection`, `close` (also from another thread) |
| Shared-memory map (hw5) | a `std::map`, a linear allocator and a semaphore in a shared mapping | `operator[]`, `insert`, `erase`, `clear`, `set_value`, from forked processes |
| Child process (hw1 `Process.cpp`) | pid and two pipe ends | constructor (pipe, fork, exec), `read(Exact)`, `write(Exact)`, `closeStdin`, `close`, `abort`, destructor (waitpid) |
| Blocking TCP (hw3 `Server`, `Connection`, `Socket`) | descriptors and an open flag | `open`, `listen`, `accept`, `connect`, `read(Exact)`, `write(Exact)`, `close`, moves |
| Logger (hw2, hw6, hw7) | the global logger, levels, formats; in hw6 and hw7 a mutex per logger | `set_global_logger`, `create_..._logger`, one function per level |
| Example client (hw7 `client.cpp`) | a `Connection` | builds a request, writes it, reads the answer |

How they interact. A worker thread is one loop: drop idle connections, wait on
its epoll, handle each event. For the listening socket `accept` puts a
connection in `m_connections`, watches it edge-triggered, creates a coroutine
that holds a reference to the map's element, and stamps `m_idleTime`. For a
connection `handleConnection` resumes the coroutine, which reads, answers and
writes until a call would block, and then yields back into the loop. All
threads watch the same listening socket; otherwise they share only the logger
and the server object. In the reader, `LRUCacheReader::getEntry` asks the cache
first and puts what the binary search found into it. A client talks to the
server through a blocking `Connection` and the same message classes. In hw5
forked processes call the same map; in hw1 a parent and its children share
nothing but pipes, and the descriptors a child inherits.

What is hard. The worker is single-threaded but its coroutines interleave with
peers at every system call: events arrive for descriptors whose entry is gone
or whose number has been given away; edge-triggered events are reported once;
an exception leaves the batch half handled; references, iterators and ids
(`Routine&`, `ConnectionAsync&`, `routine_t`, set and list iterators) outlive
what they designate. In hw4 and hw5 other threads and processes act between any
two steps.

What makes each part correct:

- pool: an ended routine is queued once and restarted only when it has ended; a
  live one is never refused; `current` is the one that runs;
- worker: map, epoll, sockets, coroutines and idle times agree; requests are
  answered once, in the end, by the connection's own coroutine; a peer that is
  there is not closed on; a peer that is gone is dropped;
- reader: list and map of the cache agree, answers are the file's, eviction
  follows use, the search misses no entry, finds nothing else but what may stand
  behind the file, and ends;
- epoll server: no use of a connection after `close`; sockets, map and epoll
  agree; healthy peers are kept and read; `close` ends `run`;
- server: no wake-up is lost and each connection is accepted by one thread,
  whatever the threads take from each other;
- client and server: requests are handled in order, once and as they were
  asked, a client gets whole answers, and fails only for a cause;
- shared map: operations take effect at once, memory is never shared, the
  semaphore survives every failure but the death of its holder;
- process: nothing a child wrote is lost, nothing that was constructed is left
  behind, and the parent waits for a child for ever only while that child waits
  as well;
- logger: nobody logs through a destroyed logger, and no line is cut.

The hazards, each at its line, are in `PROJECT.json`.

## 2. Modules

| module | models | role |
|---|---|---|
| `Coroutine` | the pool | detailed, and the specification that `HttpWorker` is shown to implement |
| `MCCoroutine` | | small instance |
| `CoroutineProofs` | | inductive invariant and theorems |
| `HttpWorker` | one `ThreadWork`, `connectionCallback`, `ConnectionAsync`, epoll, sockets, peers | `INSTANCE Coroutine WITH Jobs <- Fds` |
| `MCHttpWorker` | | small instances, symmetry |
| `HttpWorkerProofs` | | bookkeeping, refinement of the pool, types; requests of peers that stay |
| `HttpServer` | `BaseHTTPServer`, the main program of the examples, all threads on one listening socket | extends `Logger` |
| `Logger` | the global logger, its mutex, levels and lines | used by `HttpServer` |
| `MCHttpServer` | | small instance |
| `HttpServerProofs` | | threads, wake-ups and log, for any number of threads |
| `HttpMessage` | requests, responses and their text, as operators | used by `HttpExchange` |
| `TcpConnection` | a blocking `Connection` over its `Socket`, and the kernel's side of it | used by `HttpExchange` |
| `HttpExchange` | a client in the manner of the example's and one connection's coroutine from end to end | detailed |
| `RequestReply` | what client and server promise each other | abstract, implemented by `HttpExchange` |
| `MCHttpExchange` | | small instance |
| `HttpExchangeProofs` | | texts that are cut, causes of failures, `HttpExchange` implements `RequestReply` |
| `ShmMap` | hw5's map, allocator and semaphore, forked processes | detailed |
| `SharedMap` | what the map promises its processes | abstract, implemented by `ShmMap` |
| `MCShmMap` | | small instance |
| `ShmMapProofs` | | inductive invariant and theorems, and `ShmMap` implements `SharedMap`, for disciplined processes |
| `Process` | hw1's parent, children, pipes and inherited descriptors | detailed |
| `MCProcess` | | small instance |
| `ProcessProofs` | | descriptors, zombies and messages, for any number of children |
| `ServerAsync` | hw4's `ServerAsync`, its `ConnectionAsync` and the callback of `example/server_side_async.cpp`, `close()` in another thread | detailed |
| `MCServerAsync` | | small instance |
| `ServerAsyncProofs` | | sockets, epoll and healthy peers, with `close()` at any step |
| `LRUCache` | the cache, as operators on a record | used by `FileReader` |
| `FileReader` | `LRUCacheReader::getEntry`, the binary search and the mapping | detailed |
| `RecentEntries` | what the reader promises | abstract, implemented by `FileReader` |
| `MCFileReader` | | small instance |
| `FileReaderProofs` | | the search, the cache, and the refinement of `RecentEntries` |

### Coroutine

`routines` is the vector (ids are positions), `finished` the queue, `capacity`
the vector's capacity, `current` the running id. `Create` is `create()`: it
recycles the head of the queue or appends, and appending to a full vector moves
every routine. `Resume`, `ResumeEnded` and `Refuses` are the ways through
`resume()`; `Yield` is `yield()`; `Finish(thrown)` is the end of `entry()`.

Two consequences of the move are state. `entry()` binds `auto &routine` once
(line 122): after a move the outcome is written to freed memory, so a routine
carries `attached`. The saved context points into the routine itself
(`uc_mcontext.fpregs`), so `moved` says that the pointer dangles until the next
`swapcontext` into it, and a resume through it may leave defined behaviour:
`fate` becomes `"undefined"` and nothing more is said of the process.

`create()` and `resume()` need `current = 0`: the server calls them from the
loop only, and the refinement proof of `HttpWorker` shows it.

### HttpWorker

`connections[fd]` folds `m_opened` and the socket into one state: `open`, `eof`
(`read` returned 0: closed for the program, socket still held), `closed`,
`absent`. `coroutines` is `m_coroutines`, `idle` the descriptors in
`m_idleTime`, `older` the order of their stamps and `expired` those older than
`m_timeout`. `pc` is where `run()` is: dropping, waiting, in a batch, inside a
coroutine, or after it. `frames` holds the locals of `connectionCallback` on
each routine's stack, with `live` false once the `ConnectionAsync` it refers to
was erased. Each system call of the coroutine is a step, so that peers act
between any two: `ReadData`, `ReadEof`, `ReadError`, `ReadAgain` and
`ReadClosed` are the outcomes of `readToBuffer` in `readRequest`, the `Write...`
actions those of `write` in `writeResponse`, and `Answer` is the end of
`connectionCallback`. `DropExpired`, `DropDone`, `EpollWait`, `EpollTimeout`,
`BatchDone`, `Accept` and its failures, `HandleConnection`, `AfterClosed`,
`AfterOpen` and `AfterUntimed` are the loop.

The kernel is external: `socks` has what is queued in each direction, FIN and
RST; `interest` and `ready` are the epoll, with the ready list of an
edge-triggered watch; closing the last reference removes a socket from it. The
events of one `epoll_wait` are a set, handled in every order. Peers connect,
send, receive, shut down and reset; `OtherThreadAccepts` stands for the other
workers, which take connections from the backlog.

Abstracted: a request is `ReqParts` reads and parses when they are all there, a
response is `RespParts` long, the kernel buffers `SndBuf` parts, and a peer
sends its next request after the last response. Event masks and logging are
left out: nothing depends on them.

### Logger, HttpServer

`Logger` has the loggers that were made, which of them is global, what each
thread's call is doing (`calls`) and whose line each stream is in the middle of.
`Call` takes the reference that `get_global_logger()` returns; `Filtered`,
`BeginLine` and `EndLine` are the scoped lock of `BaseLogger::trace` to `fatal`
around `log`. `SetGlobalLogger` destroys the logger it replaces. hw2's loggers
are the same without the mutex (`LockNothing`).

`HttpServer` adds the main program (`SetLogger`, `Construct`, `OpenAndListen`,
`CreateThread`, `Join`) and the loop of every thread as far as threads meet in
it: `Watch` is the beginning of `run`, `EpollWait`, `FallAsleep`, `WakeUp` and
`TimesOut` are `epoll_wait`, `Accept` and `AcceptFails` are `accept()` (which
finds nobody when another thread was faster, or no descriptor for somebody who
stays in the queue: `Exhausted`), `Handle` and `HandleThrows` what becomes of
another event. Each `epoll` has its ready
list; the listening socket is level-triggered and exclusive, so that `Arrive`
tells the epolls in turn up to one whose thread sleeps (`Notified`) and
`EpollWait` leaves the socket on the list while it is ready (`StillReady`). What
a thread does with its own connections is `HttpWorker`'s. Every step that logs
holds its thread until the line is out; of several lines in a row the model has
the last.

### HttpMessage, TcpConnection, HttpExchange, RequestReply

A text is a sequence of tokens: the separators the parsers search for and the
words between them. `RequestText` and `ResponseText` are `toString`,
`RequestParses` and `ResponseParses` say that `fromString` does not throw, and
`RequestOf` and `ResponseOf` what it stores. A body may hold every separator.

`TcpConnection` has one action per system call of `read`, `write`, `close` and
`connect` and per way it can end. `socket` is kept apart from `opened` because an
end of file clears `m_opened` and keeps the descriptor: `close()` then does
nothing and `connect()` fails on the old socket (`ConnectFails`). `eagain` is the
`errno` that `read` and `write` look at without having reset it.

`HttpExchange` runs a client's program over one such connection and, at the
other end, the coroutine of `readRequest` and `writeResponse`. `reader` is how
the client reads its answer: by `readExact` of a size it takes the answer to
have, until it parses, or to the end of the file. The example is of the first
kind, with the constant 128 (`client.cpp:7,25`). Its server's answers are
shorter, so that it always ends in the exception of line 38 of
`Connection.cpp` when the server closes; in the model that is a client whose
`answerSize` is too large. The model's client loops over `write` where the example
calls it once, and parses what it has read where the example prints it. Reads take up to `ReadSize` tokens, writes any number the kernel
has room for, so that every cut of a text happens. `ServerDrops` is the idle
drop; `OnRequest` the two examples' `onRequest`.

`RequestReply` has three steps: the client asks, the service is given the
request, the client gets the reply. `RR!RrSpec` is a property of `HttpExchange`
under `Sent <- WithLength` (`toString` inserts the Content-Length) and
`Reply <- ReplyTo`.

### ShmMap, SharedMap

`sem` is the semaphore, `free` the allocator's free pointer in blocks, `tree` the
map with the blocks of each element's node and string, `procs` each process with
the locals of the operation it is in. A step ends where another process could
see the state: allocation reads the pointer (`Load`) and then moves it
(`StoreValue`, `StoreNode`, `StoreCopy`), `clear` unlinks node by node, an
assignment frees the old string. `BadAlloc` and `WaitFails` are the exceptions;
`Die` may come after every step. `set_value` (`CallSetValue`) runs the same steps
without the lock; with `Disciplined` the processes use it as the example does,
when no other one is inside.

`SharedMap` lets every operation take effect at once between call and return,
or fail without effect. `set_value` is the exception the code makes: it may
create the key with an empty value first, and fail after it has assigned.
`Map!SmSpec` is a property of `ShmMap`, where a `clear` that has begun counts as
done.

### Process

`ends` says which processes have each end of each child's pipes open; `inq` and
`outq` count the parts in them. The constructor is `Pipes`, `Fork` and
`ParentSide` with `PipeFails` and `ForkFails`; the child's branch is `ChildSide`
and `Exec` or `ExecFails`. The parent's program is taken to catch
`DescriptorError` and `IOError` and to go on, and to let a `ProcessError` leave
`main()`: in the parent after a failed `fork`, and in the child's copy of it
after a failed `execvp`. A program that caught the latter too would run on in
the child as a second parent, with the pipe ends it inherited; that is not
modelled. `dup2` is taken not to fail. `Fork` copies every descriptor the parent has, those to
earlier children included. `Read` and `Write` are rounds of `readExact` and
`writeExact`; `Destroy` waits for the child and closes its pipes after that. A
scenario gives the calls of the parent and the program of the child: the
repository's example pair; a filter that reads all its input, with its input
closed or left open; a source that writes less than the parent asks for, or
more than anybody reads; a child that is aborted and one whose pipes are closed.

The destructor waits for the child before it closes the pipes (line 54), and
nothing is close-on-exec, so a child that reads to the end of an input which the
parent, or a later child, still has open keeps the parent waiting for ever, and
so does one that stands before a full pipe. `Embrace` names these states: the
parent waits in a call or in the destructor, the child for input that somebody
could still send or for room that somebody could still make. Behaviours of this
kind are in the run; `ParentEnds` says that nothing else keeps the parent from its
end, for instance no child that is gone, and no destructor after `close()`.

### ServerAsync

Two threads: `pc` is where `run()` is, `closer` where `close()` is. Only
`m_shutdown` is read and written under the mutex, so the steps of `close()`
(`CloseBegin` sets the flag, `CloseClear` empties the map, `CloseSocket` and
`CloseEpoll` close the descriptors) fall between any two of `run()`: between
the checks of lines 153 and 158 and the `epoll_wait` that follows them, between
between two events of a batch, inside the callback, and between the lines of
`accept()` (`Accept` is `accept4` and `try_emplace`, `AddToEpoll` the watch,
`SetTimeouts` the two lines behind it). `close()` locks the mutex only to set the
flag, and the example calls it from its main thread while `run()` works. When the
map was cleared in between, `operator[]` (lines 72 and 177) makes a new entry
with a fresh socket that nobody accepted: `strays` are the keys of such entries.
A use of a connection that was erased (`UseErased`) and a `clear()` while `run()`
is at the map itself (`MapRaced`) end in `fate` `"undefined"`, behind which the
model says nothing. An exception out of `run()` ends its thread and with it the
process (`Terminate`).

The epoll is level-triggered: `Reported` is what a socket's state means at each
`epoll_wait`. The callback is the example's, in the steps between its system
calls: `ReadSome` to `StillFull` are the outcomes of `readToBuffer`, `Disconnect`
answers the message that says so, `WriteSome` to `WriteSigpipe` are the outcomes
of `write`; `Drop` and `Keep` are the rest of `handleConnection`. `sentBack` is
the callback's static map, which survives a connection. `m_events` has no
initial value, so an accepted connection starts with any element of `Junk`.

### LRUCache, FileReader, RecentEntries

An iterator into the list is the address of its node. `Nodes` are the addresses
and a freed one may be handed out again at once, so that an iterator left behind
in `m_cacheMap` would come to name another entry. `Erase`, `Insert`, `RemoveLRU`
and the operators for `get` (`Touch`, `Cached`) and `add` (`Room`, `Added`) are
the methods.

`FileReader` answers hits in one step (`GetCached`) and searches one probe a
step (`Narrow`, `Find`, `NotFound`). `Mmap::end()` is passed as the *last* entry
of the search although it is one behind it. `Probed(End)`, the key read there, is
a constant of the behaviour: 0 in the zero-filled rest of the last page, or, when
the file (nearly) fills its pages, any key at all in whatever mapping comes next;
or nothing is mapped there (`ProbeUnmapped`). What is there is taken not to
change while the program runs. With `m_cacheSize = 0`, `add`
calls `back()` and `pop_back()` on an empty list (`FindUncacheable`).

`RecentEntries` says the same without list, map or search: an answer is the
file's, and the remembered keys are the most recently asked ones that were
found. `RE!ReSpec` is a property of `FileReader` under `size <- cacheSize`,
`recent <-` the keys along the list, and `file <- Readable`: the file, with what
stands behind it appended when that continues its order, since the search can
find that too (`OverrunOnly`).

## 3. Runs

| run | asks | result |
|---|---|---|
| `coroutine_pool` | Are queue, flags and `current` consistent in every order of calls, with the vector reallocated at 0, 1 and 2 elements? Is a routine restarted only after it ended? | holds |
| `http_healthy` | Peers that stay: is a request that was read in part kept by the coroutine that the next event resumes, and is each request answered once, after it was read, and in the end? | holds |
| `http_faults` | Peers leave, `EPOLL_CTL_ADD` fails, clock readings repeat, descriptor numbers come back: types, no event for an unknown connection, no leaked or foreign socket; a peer that stays keeps its connection; the pool is called as it must be | holds |
| `http_drops` | Idle times are those of the connections; a connection whose peer is gone is dropped in the end | holds |
| `http_server` | Several threads on one listening socket and one log, with descriptors for all connections or for fewer: is a wake-up ever lost, is every connection accepted, is a line of the log cut or written by a destroyed logger? | holds |
| `http_exchange` | A client against the server, texts cut anywhere, time-outs and idle drops: is every request handled once and unchanged, every accepted answer whole, and does the client end, failing only for one of the causes that `FailsForCause` lists? | holds |
| `file_reader` | List and map in step, window, answers and evictions, termination; when is what stands behind the file taken for an entry? | holds |
| `server_async` | Peers leave, events are left over in uninitialised masks and `close()` comes at any step, inside `accept()` too: does the server lose a socket, forget to watch one, drop or stop reading a healthy peer, or fail to end? | holds |
| `shm_map` | Processes that are killed, interrupted or out of memory at any step: does every operation still take effect at once or not at all, are blocks disjoint, is the semaphore right, is who waits served unless the holder died? | holds |
| `process` | Failing constructors, killed children, full pipes, inputs left open, inherited descriptors: does anything but an embrace keep the parent from its end, is every message read, is everything that was constructed closed and reaped? | holds |
| `http_alias` | Is a connection handled by its own coroutine only? (README.md:46) | violated |
| `shm_set_value` | Are operations protected with a semaphore? (README.md:38) | violated |

### What the violations show

- `http_alias`: an exception in a coroutine leaves `m_coroutines[fd]` with the id
  of an ended routine (line 166 is not reached). `create()` recycles the id for
  another connection, and the next event of the first resumes the second's
  coroutine.
- `shm_set_value`: `set_value` (`Map.hpp:78`) has no `SemaphoreLock`. It searches
  the tree, allocates and assigns while another process is in the middle of an
  operation of its own.

Steps of the models that leave what one would expect, without a run of their own:

- the window of the search includes `Mmap::end()`. When the file fills its last
  page and the next one belongs to another mapping, a key above all of the file's
  may be found there, and the pointer that `getEntry` returns, and caches, is not
  into the file, whatever README.md:82 says ("pointer to Entry in file").
  `OverrunOnly` says that this is the only way; in particular the zeros of a
  last page never count as the key 0;
- the constructor of `Process` keeps its pipes as bare numbers until line 47, so
  that one that throws (`PipeFails`) leaves them open in the parent, and later
  children inherit them; README.md:13 promises exception safety and RAII;
- the `catch` of line 276 is outside the loop over the events, so that the
  edge-triggered events behind the one that threw are lost (`BackInResume`): a
  healthy peer waits until it acts again;
- line 198 erases the set element that the loop's iterator designates, and `++i`
  then reads it (`DropExpired`);
- line 174 replaces the coroutine whenever the buffer is empty, also when the
  old one has merely yielded, which is what the first `EPOLLOUT` of every
  connection causes (`AfterOpen`): the old stack is never resumed nor recycled;
- when `addToEpoll` throws in `accept`, the connection stays in the map without
  epoll, coroutine and idle time (`AcceptNoEpoll`);
- the id that an exception leaves in `m_coroutines[fd]` (line 166 is not reached)
  does harm to the requests of others. With three
  descriptors and two peers that left by a reset, one event of theirs resumes
  and ends the coroutine of a third connection, and another one resumes a
  routine that this connection had left suspended, which reads on in its place:
  the map then names an ended routine, and the third peer, which did nothing
  wrong, is never answered; or both routines answer, and it is answered twice
  (traces of about 47 steps). `PartialRequestKept`, `OneResponsePerRequest` and `Answered`
  are therefore claims about peers that stay, and their runs have
  `FaultyPeers = FALSE`;
- two equal clock readings are one key of `m_idleTime`, so that a connection has
  no idle time and `resetConnectionTime` erases `end()` (`Stamp`,
  `AfterUntimed`);
- an exception is written through the dangling reference and never rethrown
  after the vector grew (`Finish` when not `attached`);
- a write after a reset raises SIGPIPE, which nothing ignores (`WriteSigpipe`,
  `WriteKills`);
- a suspended routine whose connection was erased uses a dangling reference
  (`UseErased`), and so does hw4's `run()` after a `close()`;
- `errno` left by a time-out hides the end of the file from a blocking `read`
  (`ReadEnd`), `readExact` takes a time-out for the end of the file
  (`ClientReadTimesOut`), and after an end of file the `Connection` cannot
  connect again (`ConnectFails`);
- a process that dies with the semaphore keeps it (`Orphaned`);
- the destructor of `Process` may wait for ever (`Embrace`);
- a machine whose `hardware_concurrency()` is 0 gets a server without threads
  (`NumThreads`), and `shutdown()` stores `false` (line 53), so that the loop
  never ends and `Join` waits for ever.

### Bounds

- `MCCoroutine`: two jobs, four routines, so that the vector moves its elements
  at sizes 1 and 2 and a moved, a recycled and a fresh routine exist together.
- `HttpWorker`: two descriptor numbers are what it takes for one connection's
  failure to reach another. With `MaxConns` 2, either number may be used twice.
  `RespParts` 2 over `SndBuf` 1 makes `writeResponse` yield in the middle of a
  response, `ReqParts` 2 makes `readRequest` yield in the middle of a request
  (`http_healthy`, `http_faults`). `MaxReqs` 2 in
  `http_healthy` reaches keep-alive reuse; 0 in `http_drops` keeps only
  connections that never ask. `MaxRoutines` bounds the vector: where liveness is
  checked (8, 6) the peers' finite demands do not reach it, or `Answered` would
  fail; in `http_faults` (2) a behaviour that would need another routine is cut
  off there, after recycling and a reallocation. There three connections share
  two numbers, so that a stale element is met again, and `FewLeave` cuts two
  things off for size: a second peer that leaves while the server has not noticed
  the first one, and a request that asks to close once the third peer is there.
  Every property of the run is also proved without that bound (section 4).
- `HttpServer`: two threads are one to sleep and one to take the other's event;
  two connections are one in the queue behind another. `hardware_concurrency()`
  returns 0, 1 or 4, so that the server has none, one or two threads. The
  process has descriptors for one connection or for two (`Limits`): with one,
  `accept4` fails as long as the other connection is there. The log
  filters `TRACE` and `DEBUG` and writes the rest.
- `HttpExchange`: programs of two requests: keep-alive and close, with and
  without a body, known, unknown and malformed keys; a body that holds an empty
  line and a ": "; `Cap` 6 and `ReadSize` 4 are smaller than every text and do
  not divide them. `AnswerSizes` are the lengths of all answers, 1 and 50 tokens:
  right, wrong, shorter and longer than any.
- `ShmMap`: two processes, two keys, two values; four blocks are two elements
  with a node and a string each, so that an insertion can run out of memory at
  its string and at its node; four operations put an element, replace it, remove
  it and look.
- `Process`: two children, the second of which inherits what the parent has open
  of the first, in all pairs of seven scenarios; messages of two parts over pipes
  of two, so that reads are short and writes wait. With three children (`N = 3`,
  2.9 million states) the same properties hold.
- `ServerAsync`: two connections on two numbers; three parts are one message of
  two and the beginning of the next, enough for a partial read, a partial echo
  through the one-part send buffer, and a message behind a full buffer. `Junk`
  is nothing or `EPOLLIN` and `EPOLLERR`; `EPOLLOUT` always comes with the first
  event.
- `file_reader`: four keys with 0 among them (the key that the zeros behind the
  file read as), every ascending file of one to three of them with each of the
  keys, or nothing, behind it (`AnyPast`), cache sizes 0, 1
  and 2, and three nodes: one more than the list can hold, so that an insertion
  may or may not reuse the address just freed.

`FdSymmetry` permutes descriptor numbers in a run of invariants and action
properties only. `CHECK_DEADLOCK FALSE` is set where the modelled process can
end or its users' demands are bounded.

### Fairness

`WF(Worker)`: the thread is scheduled, and no call of it blocks except
`epoll_wait`, which returns at its timeout. `WF(PeerReceive)`: a connected peer
reads what it is sent. `WF(Expire)`: time passes. Nothing is assumed of
connecting, sending, leaving or other threads. In `HttpServer` every thread is
scheduled (`WF(WorkerStep)`) and gets a mutex that becomes free again and again
(`SF(Writes)`); `epoll_wait` need not time out for a connection to be accepted.
`Accepted` assumes besides that descriptors do not run out for good, which the
server has no means to prevent.
In `HttpExchange`, `WF(Client)` and `WF(Coroutine)`: both programs run; time-outs
and idle drops may come but need not. In `ShmMap`, `WF(Operate)`: a process goes
on with the operation it is in while it lives and can; a semaphore that is free
only from time to time would need strong fairness, which two processes do not.
In `Process` parent and children are scheduled. In `ServerAsync`, `WF(Run)` and
`WF(Close)` say that both threads are scheduled, whatever `close()` has begun is
finished, and `epoll_wait` returns at its timeout (3000 ms in the example);
nothing makes the main thread call `close()`. `WF(Search)`: a thread inside
`getEntry` goes on; nobody is forced to ask.

## 4. Proofs

`CoroutineProofs`: `CoInv`, the conjunction of types, `FinishedQueueSound`,
`CurrentRuns` and `LiveNotRefused`, is inductive. The parts need each other: the
queue is sound because a routine that ends is the current one, which was not
ended; `LiveNotRefused` needs the queue because only a queued id is reset. One
lemma per operation. From it follow the four invariants and the action property
`JobsRunToEnd`, for any set of jobs and any number of routines.

`HttpWorkerProofs`: `OwnInv` relates the loop (`pc`, `handling`, `batch`), epoll
(`ready` within `interest` within the open sockets), the map (`SocketsOwned`)
and the idle times. It yields `NoPhantomEvent`, `SocketsOwned` and `IdleKnown`
(theorem `TimeoutsAreKnown`) whatever the peers do and whatever fails. `PoolRefinement` proves
`Spec => Co!CoSpec`: every step of the worker is a step of the pool or leaves it
alone, so that the pool's theorems hold in it; `PoolTyped` uses that to bring
`CoTypeOK` into `TypeCorrect`. `IdleTracked` proves `IdleTracksConnections` under
`~EpollAddMayFail` and `~ClockMayStall`, the two assumptions it does need.

The requests are another matter. With peers that leave, the invariant that one
would want ("the coroutine of a connection is its own") is false (`http_alias`),
and so are, with enough descriptors, two of its consequences. The theorems
`RequestsKept` and `AnsweredOnce` therefore assume `~FaultyPeers`; timeouts,
failures of epoll and the clock stay possible.
`ServeInv` says that every connection in the map, apart from the leftovers of a
failed `addToEpoll`, has a live coroutine that was created for it and waits for
it or runs, and that nothing throws. `CountInv` balances the
accounts of each peer. Between two answers what was written is a whole number of
responses and what was sent, less what is queued and buffered, the same number of
requests (`Settled`); inside one the difference is what `left` says
(`Answering`). A coroutine that was replaced while it was suspended is
never resumed here, which is why it cannot answer a second time. Products and
quotients by the constants are dealt with in lemmas of their own (`ReqFacts`,
`RespFacts`, `Quotients`).

`NobodyCutOff` holds with faulty peers. It needs `~TimeoutsOn`, since a timeout is
a silent close. `DebtInv` does without the identity of coroutine and connection,
and says of each socket that its peer is at most one request ahead of the
responses it has (`Ahead`), which a repeated response does not change, and of
each coroutine that is about to close, whoever resumes it, that its peer has
asked for its last response and has it once the rest in hand is written
(`Closing`). `StepShape` says what a step may make of a connection and of a
frame; every action has it (`CoroutineMoves`, `CreateMoves`, `LoopMoves`,
`EnvironmentMoves`), and it keeps `DebtInv` (`DebtsKept`).

`HttpServerProofs` holds for any number of threads, connections and log calls.
`NoLostWakeup` and `LogSound` are not inductive. A thread tells nobody when it
takes an event, so one has to know that only its own connections are in its
epoll (`Confined`), that a thread is created once (`CreatedOnce`), and that
`set_global_logger` is called while no thread exists (`LoggerFirst`): then there
is one live logger, and whose line its stream is in the middle of holds its mutex
(`OneLogger`).

`ServerAsyncProofs` splits what holds always from what holds until `close()` is
called. Always: an open socket is owned, an entry is not `open` only between the
callback and `handleConnection`'s last test (`LiveOpen`), the epoll watches the
open sockets, except the one that `accept()` has in hand. Until `close()`: the
rest of the batch is about connections that are still there (`BatchCurrent`), and `EPOLLERR` in a mask means a reset
(`ErrIsReset`); from that follow `RacesNeedClose` and `HealthyConnectionsKept`,
for whatever the uninitialised masks hold.

`ProcessProofs`: `HoldInv` says that ends of pipes are held by the parent and by
living children only, and which calls of the constructor and destructor are done
for which child; then nobody is left to hold an end after the last destructor,
leaving aside the ends of Processes whose constructor threw (`NothingLeft`; for
those see section 3). `AllIsHeard` counts: what a child wrote is in the pipe, in the
messages that were read, or in the part of one that `readExact` holds
(`Conserved`), and a read that throws drops such a part of a killed child
only (`Kept`).

`FileReaderProofs`: `WindowInv` says that everything left of the window is
smaller than the key and everything right of it larger. It is stronger than
`SearchWindow` and gives, besides, `OverrunOnly` (`OverrunNeedsTheKey`): the probe
at `end()` is reached only when the whole file is smaller than the key, so that
the key 0 of the zeros behind it never matches, and another key there only if it
is the one asked for. The order of the file is assumed, and that what is behind
it stays as it is. `CacheInv`
adds that the cache is sound, that its entries are `Readable`, and that a key is
searched only while it is not in the cache. Lemmas say what `Touch`, `Room` and
`Insert` do to the sequence of keys (moved to the front, cut by its last, put in
front); with them every step is one of `RecentEntries` or leaves it alone
(`PromiseKept`).

`HttpExchangeProofs` holds for every program of well-formed requests, every file
of the model's entries, every `Cap` and `ReadSize`, with or without time-outs and
drops. Its first half is about texts. `HeadPart` says what each line of a text is up
to its empty line; a `HeadPart` is built line by line (`HeadAdd`, `HeadAll`) and what
`fromString` makes of it is computed once, for requests and responses (`Parsed`).
From that follow `RequestTravels` and `ResponseTravels`: the text of a message
parses to that message, with the Content-Length that `toString` inserts, and no
shorter beginning of it parses at all, since it lacks its empty line or part of
the length it announces. `ServiceFacts` says that what either `onRequest` answers
is such a message. The second half is the protocol. In `ExchangeInv` what the
server has read, what is under way and what the client has not written make up
the question (`Writing`, `Asked`), and likewise the answer on its way back
(`Answering`, `Answered`), unless the server has dropped the connection
(`Dropped`, `CutShort`). One lemma per action. A coroutine that accepts its
buffer therefore holds the whole request and nothing of the next
(`HandlesWhole`), a client that accepts holds the whole answer (`AcceptsWhole`),
whatever size it gave to `readExact`:
the two steps that matter to `RequestReply`, so that every step is one of its
steps or leaves it alone (`ExchangeServes`). `FailuresHaveCause` is a conjunct.

A message is well formed (`IsRequest`) when a text can carry it: no line end in
its first line or in a header, no blank in its target, a Content-Length that is
set is the body's. The code does not reject others; what it does with them is
not covered by these theorems. Bodies and entries have at most `MaxNumber` tokens
(`MaxNumber` is 9), because lengths are read back from a finite set of numerals.
`TokenAssumption` and `DigitsAssumption` state of the strings written in the
modules, and of the numerals up to 599, what the provers cannot compute: that
they are strings, different from each other and from separators. TLC evaluates
both in the run `http_exchange`.

`ShmMapProofs` assumes `Disciplined`: without it `set_value`, which takes no
lock, breaks `OneAtATime` (run `shm_set_value`), and everything else with it.
`IInv` adds to the types who may touch the shared state. A process is inside
only when it holds the semaphore or is in `set_value`, and there is one such
process at most (`Exclusive`, `SemaphoreInv`); a process that died there is
still counted. Nobody else has blocks or an address read from the free pointer
(`Local`), so that the address is still the free pointer when it is stored
(`BeginCurrent`), and what `deallocate()` gives back was the last block of the
one process that could have taken another. Each action has a lemma that says
what it does to its process's record (`...Effect`), and each part of the
invariant a lemma that the step keeps it. `ShmTypes`, `SemaphoreCounts`,
`OneInside` and `BlocksHaveOneUser` follow, for any number of processes, keys,
values and blocks.

The second part of the module shows the refinement. `AnswerLocal` says at which places an
operation has its answer; `Found` that a key found absent is still absent when
its node is linked, and that nothing is left when `clear()` is done. `ContentNow`
says that no `clear()` is under way while another operation works, so that the
content the others see is the tree itself. Then every action is a step of
`SharedMap` (one lemma per action, `...Maps`) or leaves it alone, and
`MapImplements` is `Spec => MapSpec`.

The assumptions on constants are the ones the modules name: bounds are natural
numbers, `Listen` is no connection's number, files are ascending and not empty,
`None` is no key, value, address or answer and `Empty` no value; the main thread
is no worker and `NoThread` no thread, the number of threads asked for is a
natural number, and a scenario of `Process` makes at least one call.

Model-checked only: liveness (`Answered`, `DeadDropped`,
`Accepted`, `ClientEnds`, `Served`, `ParentEnds`, `SearchEnds`, `AllRead`,
`CloseEndsRun`), which is outside the proof system's reach.

## 5. Not modelled, and what would follow

- `~ThreadWork` and the loop that disconnects everybody at the end of `run`: no
  execution reaches them as long as `shutdown()` stores `false`.
- hw3's and hw4's blocking `Server`: one system call per operation, no state
  beyond the descriptor.
- Behaviour behind undefined behaviour: once a step sets `fate` to `"undefined"`
  (a dangling reference or iterator, a data race) the process does nothing more
  in the model. The runs show what holds up to there, not that it is not reached.
- A failing `dup2`, and a program that catches the
  `ProcessError` of a failed `execvp` in the child (see `Process` above).
- The exception classes and log formats (wording only), the remaining examples,
  and the setters of timeouts and event masks that nothing reads.
- The names of headers, methods and versions in `HTTPMessageData.hpp`: three
  headers stand for all, since the library reads no others.

## 6. Running

    tlc -config MCCoroutine.cfg MCCoroutine.tla
    tlc -config HttpHealthy.cfg MCHttpWorker.tla
    tlc -config HttpFaults.cfg MCHttpWorker.tla
    tlc -config HttpServer.cfg MCHttpServer.tla
    tlc -config HttpExchange.cfg MCHttpExchange.tla
    tlc -config MCFileReader.cfg MCFileReader.tla
    tlc -config ServerAsync.cfg MCServerAsync.tla
    tlc -config ShmMap.cfg MCShmMap.tla
    tlc -config Process.cfg MCProcess.tla
    tlapm CoroutineProofs.tla
    tlapm HttpWorkerProofs.tla
    tlapm HttpServerProofs.tla
    tlapm ServerAsyncProofs.tla
    tlapm ProcessProofs.tla
    tlapm FileReaderProofs.tla
    tlapm ShmMapProofs.tla
    tlapm HttpExchangeProofs.tla

The longest runs are `http_healthy` and `http_faults` (1.7 million states each)
and `server_async`, two to three minutes each.
