----------------------------- MODULE HttpServer -----------------------------
(***************************************************************************)
(* BaseHTTPServer (hw6, hw7) as a whole: the main program of the examples, *)
(* which makes the logger, the server and its threads, and the threads,    *)
(* which share one listening socket and one log.                           *)
(*                                                                         *)
(* Every thread watches the listening socket with an epoll of its own      *)
(* (EPOLLIN | EPOLLEXCLUSIVE, level-triggered).  What a thread does with   *)
(* its connections is HttpWorker's: here handling an event keeps or closes *)
(* the connection, or throws, which ends the batch.  Of the lines a step   *)
(* logs, the model has the last.                                           *)
(***************************************************************************)
EXTENDS Logger, FiniteSets

CONSTANTS
    Main,           \* the thread of main()
    MaxThreads,     \* bound: worker threads
    Requested,      \* the number of threads the constructor is asked for
    Hardware,       \* what hardware_concurrency() may return
    Conns,          \* the connections that clients make
    QueueSize,      \* listen()'s queue
    Limits,         \* for how many of them the process may have descriptors
    Listen,         \* the listening socket
    LogLevels,      \* the level of main()'s logger is one of these
    MayFail         \* may epoll_create or EPOLL_CTL_ADD fail at the start?

Workers == 1 .. MaxThreads

ASSUME WorkersAssumption ==
    /\ MaxThreads \in Nat /\ Threads = Workers \union {Main} /\ Main \notin Workers
    /\ Requested \in Nat /\ Hardware \subseteq Nat /\ Limits \subseteq Nat
    /\ Listen \notin Conns /\ LogLevels \subseteq Levels

VARIABLES
    mpc,       \* where main() is
    m_threads, \* how many threads the server has
    created,   \* how many of them run() has created
    pc,        \* where each worker's run() is
    ready,     \* the ready list of each worker's epoll
    batch,     \* the rest of the events its epoll_wait returned
    watchers,  \* the epolls that watch the listening socket, oldest first
    backlog,   \* connections nobody has accepted yet
    conns,     \* how far each connection is
    owner,     \* the worker that has accepted it; 0 before
    limit,     \* for how many of them the process has descriptors
    fate       \* the process

serverVars == <<mpc, limit, m_threads, created>>
workerVars == <<pc, batch>>
connVars == <<watchers, backlog, conns, owner>>
vars == <<serverVars, workerVars, ready, connVars, fate, logVars>>

\* BaseHTTPServer::BaseHTTPServer
NumThreads(requested, hardware) ==
    IF requested > hardware \/ requested = 0 THEN hardware ELSE requested

Init ==
    /\ LogInit
    /\ limit \in Limits
    /\ mpc = "logger" /\ m_threads = 0 /\ created = 0
    /\ pc = [w \in Workers |-> "none"]
    /\ batch = [w \in Workers |-> {}]
    /\ ready = [w \in Workers |-> {}]
    /\ watchers = <<>> /\ backlog = <<>>
    /\ conns = [c \in Conns |-> "new"] /\ owner = [c \in Conns |-> 0]
    /\ fate = "running"

-----------------------------------------------------------------------------
(* main() *)

MainRuns == fate = "running" /\ Silent(Main)

\* A server that is being set up leaves the workers and the kernel alone.
SetsUp == UNCHANGED <<workerVars, ready, connVars, fate>>

\* Mutant: main() changes the logger when its threads run.
SetLoggerLate ==
    /\ MainRuns /\ mpc \in {"logger", "join"}
    /\ mpc' = IF mpc = "logger" THEN "construct" ELSE "join"
    /\ IF mpc = "join"
       THEN SetGlobalLogger("stderr", Level.ALL, {})
       ELSE UNCHANGED logVars
    /\ UNCHANGED <<limit, m_threads, created>> /\ SetsUp

SetLogger ==
    /\ MainRuns /\ mpc = "logger"
    /\ \E level \in LogLevels : SetGlobalLogger("stderr", level, {})
    /\ mpc' = "construct"
    /\ UNCHANGED <<limit, m_threads, created>> /\ SetsUp

Construct ==
    /\ MainRuns /\ mpc = "construct"
    /\ \E hardware \in Hardware :
        m_threads' = NumThreads(Requested, hardware)
    /\ Call(Main, Level.INFO)
    /\ mpc' = "listen"
    /\ UNCHANGED <<limit, created>> /\ SetsUp

\* open(): socket and bind; listen().
OpenAndListen ==
    /\ MainRuns /\ mpc = "listen"
    /\ Call(Main, Level.INFO)
    /\ mpc' = "run"
    /\ UNCHANGED <<limit, m_threads, created>> /\ SetsUp

CreateThread ==
    /\ MainRuns /\ mpc = "run" /\ created < m_threads
    /\ created' = created + 1
    /\ pc' = [pc EXCEPT ![created + 1] = "init"]
    /\ Call(Main, Level.INFO)
    /\ UNCHANGED <<mpc, limit, m_threads, batch, ready, connVars, fate>>

\* The threads never end, so the first join() does not return.
Join ==
    /\ MainRuns /\ mpc = "run" /\ created = m_threads
    /\ mpc' = IF m_threads = 0 THEN "returned" ELSE "join"
    /\ UNCHANGED <<limit, m_threads, created, logVars>> /\ SetsUp

MainStep == SetLogger \/ Construct \/ OpenAndListen \/ CreateThread \/ Join

-----------------------------------------------------------------------------
(* The kernel: the listening socket and the epolls *)

Pollable(fd) == fd = Listen => backlog # <<>>

\* A worker sleeps in epoll_wait until its ready list has an entry.
Sleeps(w) == pc[w] = "asleep" /\ ready[w] = {}

\* EPOLLEXCLUSIVE: the epolls are told in turn up to one whose thread sleeps.
Notified ==
    {watchers[i] : i \in {k \in DOMAIN watchers :
                            \A j \in 1 .. k - 1 : ~Sleeps(watchers[j])}}

\* A client connects; the listening socket is open from listen() on.
Arrive(c) ==
    /\ fate = "running" /\ mpc \in {"run", "join"}
    /\ conns[c] = "new" /\ Len(backlog) < QueueSize
    /\ backlog' = Append(backlog, c)
    /\ conns' = [conns EXCEPT ![c] = "queued"]
    /\ ready' = [w \in Workers |-> ready[w] \union
                    IF w \in Notified THEN {Listen} ELSE {}]
    /\ UNCHANGED <<serverVars, workerVars, watchers, owner, fate, logVars>>

\* Something happens on an accepted connection (EPOLLET).
Activity(c) ==
    /\ fate = "running" /\ conns[c] \in {"open", "broken"}
    /\ ready' = [ready EXCEPT ![owner[c]] = @ \union {c}]
    /\ UNCHANGED <<serverVars, workerVars, connVars, fate, logVars>>

-----------------------------------------------------------------------------
(* ThreadWork::run *)

\* Every descriptor the process may have is taken by a connection.
Exhausted == Cardinality({c \in Conns : conns[c] \in {"open", "broken"}}) >= limit

WorkerRuns(w) == fate = "running" /\ Silent(w)

\* initEpoll and addToEpoll of the listening socket, which may be ready.
Watch(w) ==
    /\ WorkerRuns(w) /\ pc[w] = "init"
    /\ watchers' = Append(watchers, w)
    /\ ready' = [ready EXCEPT ![w] = IF backlog = <<>> THEN {} ELSE {Listen}]
    /\ pc' = [pc EXCEPT ![w] = "wait"]
    /\ Call(w, Level.INFO)
    /\ UNCHANGED <<serverVars, batch, backlog, conns, owner, fate>>

\* Both throw outside of the try: std::terminate.
WatchFails(w) ==
    /\ WorkerRuns(w) /\ pc[w] = "init" /\ MayFail
    /\ fate' = "terminated"
    /\ UNCHANGED <<serverVars, workerVars, ready, connVars, logVars>>

\* Mutant: the listening socket is watched edge-triggered.
StillReadyEdge(fds) == {}

\* Level-triggered: the listening socket stays on the list while it is ready.
StillReady(fds) == {Listen} \intersect {fd \in fds : Pollable(fd)}

\* epoll_wait polls what is on the ready list and drops what is not ready.
EpollWait(w) ==
    /\ WorkerRuns(w) /\ pc[w] = "wait" /\ \E fd \in ready[w] : Pollable(fd)
    /\ batch' = [batch EXCEPT ![w] = {fd \in ready[w] : Pollable(fd)}]
    /\ ready' = [ready EXCEPT ![w] = StillReady(@)]
    /\ pc' = [pc EXCEPT ![w] = "batch"]
    /\ Call(w, Level.DEBUG)
    /\ UNCHANGED <<serverVars, connVars, fate>>

\* Nothing on it is ready: it sleeps, until it is told or epollTimeout.
FallAsleep(w) ==
    /\ WorkerRuns(w) /\ pc[w] = "wait" /\ \A fd \in ready[w] : ~Pollable(fd)
    /\ ready' = [ready EXCEPT ![w] = {}]
    /\ pc' = [pc EXCEPT ![w] = "asleep"]
    /\ UNCHANGED <<serverVars, batch, connVars, fate, logVars>>

WakeUp(w) ==
    /\ WorkerRuns(w) /\ pc[w] = "asleep" /\ ready[w] # {}
    /\ pc' = [pc EXCEPT ![w] = "wait"]
    /\ UNCHANGED <<serverVars, batch, ready, connVars, fate, logVars>>

\* numFDs = 0: the loop starts again with dropTimeoutedConnections().
TimesOut(w) ==
    /\ WorkerRuns(w) /\ Sleeps(w)
    /\ pc' = [pc EXCEPT ![w] = "wait"]
    /\ Call(w, Level.TRACE)
    /\ UNCHANGED <<serverVars, batch, ready, connVars, fate>>

Takes(w, fd) ==
    /\ WorkerRuns(w) /\ pc[w] = "batch" /\ fd \in batch[w]
    /\ batch' = [batch EXCEPT ![w] = @ \ {fd}]
    /\ UNCHANGED <<serverVars, pc, watchers, fate>>

\* accept(): the oldest connection; a new one is writable at once.
Accept(w) ==
    /\ Takes(w, Listen) /\ backlog # <<>> /\ ~Exhausted
    /\ backlog' = Tail(backlog)
    /\ conns' = [conns EXCEPT ![Head(backlog)] = "open"]
    /\ owner' = [owner EXCEPT ![Head(backlog)] = w]
    /\ ready' = [ready EXCEPT ![w] = @ \union {Head(backlog)}]
    /\ Call(w, Level.DEBUG)

\* EAGAIN, another thread has accepted it in between, or EMFILE, it stays in the queue.
AcceptFails(w) ==
    /\ Takes(w, Listen) /\ (backlog = <<>> \/ Exhausted)
    /\ Call(w, Level.WARN)
    /\ UNCHANGED <<ready, backlog, conns, owner>>

\* handleConnection and resetConnectionTime
Handle(w, c) ==
    /\ Takes(w, c)
    /\ \/ UNCHANGED <<ready, conns>>
       \/ /\ conns' = [conns EXCEPT ![c] = "closed"]
          /\ ready' = [ready EXCEPT ![w] = @ \ {c}]
    /\ Call(w, Level.TRACE)
    /\ UNCHANGED <<backlog, owner>>

\* A BaseException of the connection: the rest of the batch is skipped.  It
\* stays in the map, but its coroutine has ended and resume() refuses it.
HandleThrows(w, c) ==
    /\ WorkerRuns(w) /\ pc[w] = "batch" /\ c \in batch[w]
    /\ conns[c] = "open"
    /\ conns' = [conns EXCEPT ![c] = "broken"]
    /\ batch' = [batch EXCEPT ![w] = {}]
    /\ Call(w, Level.WARN)
    /\ UNCHANGED <<serverVars, pc, ready, watchers, backlog, owner, fate>>

BatchDone(w) ==
    /\ WorkerRuns(w) /\ pc[w] = "batch" /\ batch[w] = {}
    /\ pc' = [pc EXCEPT ![w] = "wait"]
    /\ UNCHANGED <<serverVars, batch, ready, connVars, fate, logVars>>

Writes(t) ==
    /\ fate = "running" /\ Log(t)
    /\ UNCHANGED <<serverVars, workerVars, ready, connVars, fate>>

WorkerStep(w) ==
    \/ Watch(w) \/ EpollWait(w) \/ FallAsleep(w) \/ WakeUp(w)
    \/ Accept(w) \/ AcceptFails(w) \/ BatchDone(w)
    \/ \E c \in Conns : Handle(w, c) \/ HandleThrows(w, c)

Next ==
    \/ MainStep
    \/ \E c \in Conns : Arrive(c) \/ Activity(c)
    \/ \E w \in Workers : WorkerStep(w) \/ TimesOut(w) \/ WatchFails(w)
    \/ \E t \in Threads : Writes(t)

Spec == Init /\ [][Next]_vars

\* The threads are scheduled, and a mutex that keeps becoming free is got.
FairSpec ==
    /\ Spec /\ WF_vars(MainStep)
    /\ \A w \in Workers : WF_vars(WorkerStep(w))
    /\ \A t \in Threads : SF_vars(Writes(t))

-----------------------------------------------------------------------------
(* Properties *)

\* While a connection waits in the listening socket, some epoll that watches
\* the socket has it on its ready list: no order of arrivals, accepts by
\* other threads and exceptions in the middle of a batch loses the wake-up.
NoLostWakeup ==
    backlog # <<>> /\ watchers # <<>> =>
        \E i \in DOMAIN watchers : Listen \in ready[watchers[i]]

\* Every connection that gets into the queue is accepted by a thread, even when
\* threads take each other's events, exceptions cut batches short and accept4 fails
\* for want of a descriptor, unless the descriptors have run out for good.
Accepted ==
    []<>~Exhausted =>
        \A c \in Conns :
            (conns[c] = "queued" /\ m_threads > 0)
                ~> (conns[c] # "queued" \/ fate = "terminated")
=============================================================================
