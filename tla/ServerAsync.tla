----------------------------- MODULE ServerAsync -----------------------------
(***************************************************************************)
(* The epoll server of hw4 (src/ServerAsync.cpp) as its example uses it    *)
(* (example/server_side_async.cpp): one thread in run(), whose callback    *)
(* sends every message of MsgParts parts back or closes on a "DISCONNECT", *)
(* and the main thread, which calls close() while run() goes on.           *)
(*                                                                         *)
(* The epoll is level-triggered.  Only m_shutdown is shared under m_mutex: *)
(* m_connections, m_socket and m_epollfd are not.                          *)
(***************************************************************************)
EXTENDS Integers, FiniteSets

CONSTANTS
    Fds,        \* the descriptor numbers accept4 can return
    Listen,     \* the listening socket
    MaxConns,   \* bound: connections the peers open
    MaxParts,   \* bound: parts the peers send in all
    MsgParts, SndBuf,
    Junk,       \* what uninitialised memory may hold, as sets of events
    Closes      \* may the main thread call close()?

ASSUME ListenAssumption == Listen \notin Fds
ASSUME BoundsAssumption ==
    /\ MaxConns \in Nat /\ MaxParts \in Nat
    /\ MsgParts \in Nat \ {0} /\ SndBuf \in Nat \ {0} /\ Closes \in BOOLEAN

VARIABLES
    pc,           \* where run() is
    closer,       \* where close() is
    shutdown,     \* m_shutdown
    listening,    \* m_socket is opened
    epoll,        \* m_epollfd is opened
    connections,  \* m_connections: its entries of accepted sockets
    strays,       \* m_connections: the keys operator[] made an entry for
    sentBack,     \* the callback's static map; 0 where it has no entry
    batch,        \* the rest of the events epoll_wait returned
    handling,     \* handleConnection's c or accept()'s client_fd, else Listen
    interest,     \* descriptors the epoll watches
    socks,        \* the kernel's side of each accepted connection
    backlog,      \* connections waiting in the listening socket
    connects,     \* connections the peers have opened so far
    sends,        \* parts the peers have sent so far
    fate          \* "running", or how the process left the modelled behaviour

loopVars   == <<pc, batch, handling>>
serverVars == <<closer, shutdown, listening, epoll, strays>>
kernelVars == <<interest, socks, backlog>>
counters   == <<connects, sends>>
vars == <<loopVars, serverVars, connections, sentBack, kernelVars, counters, fate>>

(***************************************************************************)
(* st as in HttpWorker: "eof" after read() returned 0, "closed" after      *)
(* close().  ev is what setEvent put into m_events since the last          *)
(* clearEvents; junk is what m_events, which no constructor initialises,   *)
(* held before the first one.                                              *)
(***************************************************************************)
Absent == [st |-> "absent", buf |-> 0, bye |-> FALSE, ev |-> {}, junk |-> {}]
Opened(junk) == [Absent EXCEPT !.st = "open", !.junk = junk]

Present == {fd \in Fds : connections[fd].st # "absent"}

NoSock == [open |-> FALSE, inq |-> 0, outq |-> 0, fin |-> FALSE, rst |-> FALSE]

\* What a level-triggered epoll_wait finds on a socket, EPOLLRDHUP as "in".
Reported(s) ==
    (IF s.inq > 0 \/ s.fin \/ s.rst THEN {"in"} ELSE {})
        \union (IF s.outq < SndBuf \/ s.rst THEN {"out"} ELSE {})
        \union (IF s.rst THEN {"err"} ELSE {})

Least(a, b) == IF a < b THEN a ELSE b

C == connections[handling]
S == socks[handling]
AnySet(c, e) == c.ev \union c.junk # {}   \* mutant: m_events | epoll_event
IsSet(c, e) == e \in c.ev \union c.junk

CloseSock(fd) == /\ socks' = [socks EXCEPT ![fd] = NoSock]
                 /\ interest' = interest \ {fd}

-----------------------------------------------------------------------------
(* run() *)

At(place) == fate = "running" /\ pc = place
Goto(place) == pc' = place /\ UNCHANGED <<batch, handling>>

Start ==
    /\ At("start") /\ shutdown' = FALSE /\ Goto("check")
    /\ UNCHANGED <<closer, listening, epoll, strays, connections, sentBack,
                   kernelVars, counters, fate>>

Check ==
    /\ At("check") /\ Goto(IF shutdown THEN "left" ELSE "unlocked")
    /\ UNCHANGED <<serverVars, connections, sentBack, kernelVars, counters, fate>>

CheckOpened ==
    /\ At("unlocked") /\ Goto(IF listening /\ epoll THEN "call" ELSE "left")
    /\ UNCHANGED <<serverVars, connections, sentBack, kernelVars, counters, fate>>

CallEpoll ==
    /\ At("call") /\ epoll /\ Goto("wait")
    /\ UNCHANGED <<serverVars, connections, sentBack, kernelVars, counters, fate>>

\* What run() throws ends its thread, and so the process.
Terminate ==
    /\ fate' = "killed"
    /\ UNCHANGED <<loopVars, serverVars, connections, sentBack, kernelVars, counters>>

\* epoll_wait of a descriptor that is -1 fails.
EpollThrows == At("call") /\ ~epoll /\ Terminate

Delivered ==
    {[fd |-> fd, ev |-> Reported(socks[fd])] :
        fd \in {g \in interest \ {Listen} : Reported(socks[g]) # {}}}
    \union {[fd |-> fd, ev |-> {"in"}] :
        fd \in {g \in interest \intersect {Listen} : backlog > 0}}

EpollWait ==
    /\ At("wait") /\ Delivered # {}
    /\ pc' = "batch" /\ batch' = Delivered
    /\ UNCHANGED <<handling, serverVars, connections, sentBack, kernelVars,
                   counters, fate>>

TimeoutTo(place) ==
    /\ At("wait") /\ Delivered = {} /\ Goto(place)
    /\ UNCHANGED <<serverVars, connections, sentBack, kernelVars, counters, fate>>

WaitAgain == TimeoutTo("wait")   \* mutant: the flag is not read again
EpollTimeout == TimeoutTo("check")

BatchDone ==
    /\ At("batch") /\ batch = {} /\ Goto("check")
    /\ UNCHANGED <<serverVars, connections, sentBack, kernelVars, counters, fate>>

Accepting(e) ==
    At("batch") /\ e \in batch /\ e.fd = Listen /\ listening

(* accept(): close() may fall between its steps. *)

\* accept4 and try_emplace.
Accept(e, fd) ==
    /\ Accepting(e) /\ backlog > 0 /\ ~socks[fd].open /\ fd \notin Present \union strays
    /\ backlog' = backlog - 1
    /\ \E junk \in Junk :
          connections' = [connections EXCEPT ![fd] = Opened(junk)]
    /\ socks' = [socks EXCEPT ![fd] = [NoSock EXCEPT !.open = TRUE]]
    /\ pc' = "accepted" /\ handling' = fd /\ batch' = batch \ {e}
    /\ UNCHANGED <<interest, serverVars, sentBack, counters, fate>>

\* accept4 fails, no descriptor being free or the peer gone from the backlog, or
\* try_emplace finds a stray.
AcceptThrows(e) == Accepting(e) /\ Terminate

AddTo(watched) ==
    /\ At("accepted") /\ (epoll => socks[handling].open)
    /\ interest' = interest \union watched /\ Goto("added")
    /\ UNCHANGED <<serverVars, connections, sentBack, socks, backlog, counters, fate>>

AddNothing == AddTo({})   \* mutant: the connection is never watched
AddToEpoll == AddTo(IF epoll THEN {handling} ELSE {})

\* EPOLL_CTL_ADD fails, with EBADF when close() has closed the socket.
AddThrows == At("accepted") /\ epoll /\ Terminate

\* The time-outs: operator[] makes an entry that is not opened, with a new socket
\* that no epoll watches, when close() has cleared the one try_emplace made.
SetTimeouts ==
    /\ At("added")
    /\ strays' = IF handling \in Present THEN strays ELSE strays \union {handling}
    /\ pc' = "batch" /\ handling' = Listen
    /\ UNCHANGED <<batch, closer, shutdown, listening, epoll, connections, sentBack,
                   kernelVars, counters, fate>>

AcceptRest == AddToEpoll \/ AddThrows \/ SetTimeouts

-----------------------------------------------------------------------------
(* handleConnection() *)

Handle(e) ==
    /\ At("batch") /\ e \in batch /\ e.fd \in Present
    /\ connections' = [connections EXCEPT ![e.fd].ev = @ \union e.ev]
    /\ pc' = "callback" /\ handling' = e.fd /\ batch' = batch \ {e}
    /\ UNCHANGED <<serverVars, sentBack, kernelVars, counters, fate>>

\* The event of a connection, or of m_socket, that close() has taken away: the
\* entry operator[] makes is not opened, so handleConnection erases it, but under
\* the number of its new socket, which need not be the key.
HandleStray(e) ==
    /\ At("batch") /\ e \in batch /\ e.fd \notin Present
    /\ e.fd = Listen => ~listening
    /\ strays' \in {strays \union {e.fd}, strays \ {e.fd}}
    /\ batch' = batch \ {e}
    /\ UNCHANGED <<pc, handling, closer, shutdown, listening, epoll, connections,
                   sentBack, kernelVars, counters, fate>>

Alive == handling \in Present

\* A reference into m_connections is used after close() has cleared it.
UseErased ==
    /\ fate = "running" /\ pc \in {"added", "callback", "full", "after"} /\ ~Alive
    /\ fate' = "undefined"
    /\ UNCHANGED <<loopVars, serverVars, connections, sentBack, kernelVars,
                   counters>>

\* handleConnection after the callback.
DropOf(held) ==
    /\ At("after") /\ Alive
    /\ C.st # "open" \/ IsSet(C, "err")
    /\ IF C.st \in held THEN CloseSock(handling) ELSE UNCHANGED <<socks, interest>>
    /\ connections' = [connections EXCEPT ![handling] = Absent]
    /\ pc' = "batch" /\ handling' = Listen
    /\ UNCHANGED <<batch, serverVars, sentBack, backlog, counters, fate>>

DropLeaks == DropOf({"open"})   \* mutant: the socket of an m_opened = false stays
Drop == DropOf({"open", "eof"})

Keep ==
    /\ At("after") /\ Alive /\ C.st = "open" /\ ~IsSet(C, "err")
    /\ connections' = [connections EXCEPT ![handling].ev = {}, ![handling].junk = {}]
    /\ pc' = "batch" /\ handling' = Listen
    /\ UNCHANGED <<batch, serverVars, sentBack, kernelVars, counters, fate>>

-----------------------------------------------------------------------------
(* The callback *)

Reads == At("callback") /\ Alive /\ IsSet(C, "in") /\ C.buf < MsgParts
Writes == At("full") /\ Alive /\ ~C.bye /\ IsSet(C, "out")

NothingToDo ==
    /\ \/ At("callback") /\ Alive /\ ~IsSet(C, "in")
       \/ At("full") /\ Alive /\ ~C.bye /\ ~IsSet(C, "out")
    /\ Goto("after")
    /\ UNCHANGED <<serverVars, connections, sentBack, kernelVars, counters, fate>>

\* c.close() and the return that follows it.
CloseIt ==
    /\ connections' = [connections EXCEPT ![handling].st = "closed"]
    /\ CloseSock(handling) /\ Goto("after")
    /\ UNCHANGED <<serverVars, sentBack, backlog, counters, fate>>

ReadSome ==
    /\ Reads /\ S.inq > 0
    /\ \E bye \in BOOLEAN :
        LET n == Least(S.inq, MsgParts - C.buf) IN
        /\ bye => C.buf + n = MsgParts
        /\ connections' = [connections EXCEPT ![handling].buf = @ + n,
                                              ![handling].bye = bye]
        /\ socks' = [socks EXCEPT ![handling].inq = @ - n]
        /\ Goto(IF C.buf + n = MsgParts THEN "full" ELSE "after")
    /\ UNCHANGED <<serverVars, sentBack, interest, backlog, counters, fate>>

ReadNothing ==
    /\ Reads /\ S.inq = 0 /\ ~S.fin /\ ~S.rst
    /\ Goto("after")
    /\ UNCHANGED <<serverVars, connections, sentBack, kernelVars, counters, fate>>

ReadEof ==
    /\ Reads /\ S.inq = 0 /\ S.fin
    /\ connections' = [connections EXCEPT ![handling].st = "eof"]
    /\ Goto("after")
    /\ UNCHANGED <<serverVars, sentBack, kernelVars, counters, fate>>

\* read() throws; the callback closes the connection.
ReadError == Reads /\ S.inq = 0 /\ ~S.fin /\ S.rst /\ CloseIt

StillFull ==
    /\ At("callback") /\ Alive /\ IsSet(C, "in") /\ C.buf = MsgParts
    /\ Goto("full")
    /\ UNCHANGED <<serverVars, connections, sentBack, kernelVars, counters, fate>>

Disconnect == At("full") /\ Alive /\ C.bye /\ CloseIt

\* The callback sends what is left of the message, or as much as fits.
Left == MsgParts - sentBack[handling]
Sends == Least(Left, SndBuf - S.outq)

WriteOf(clears) ==
    /\ Writes /\ ~S.rst /\ S.outq < SndBuf
    /\ socks' = [socks EXCEPT ![handling].outq = @ + Sends]
    /\ sentBack' = [sentBack EXCEPT
            ![handling] = IF Sends = Left THEN 0 ELSE @ + Sends]
    /\ connections' = [connections EXCEPT
            ![handling].buf = IF Sends = Left /\ clears THEN 0 ELSE @]
    /\ Goto("after")
    /\ UNCHANGED <<serverVars, interest, backlog, counters, fate>>

WriteNoClear == WriteOf(FALSE)   \* mutant: no clearBuffer after the last part
WriteSome == WriteOf(TRUE)

\* write() does not fail with EAGAIN: EPOLLOUT has said that there is room.
WriteError == Writes /\ S.rst /\ ~S.fin /\ CloseIt

\* The example ignores SIGINT, not SIGPIPE.
WriteSigpipe == Writes /\ S.rst /\ S.fin /\ Terminate

Callback ==
    \/ NothingToDo \/ ReadSome \/ ReadNothing \/ ReadEof \/ ReadError
    \/ StillFull \/ Disconnect \/ WriteSome \/ WriteError \/ WriteSigpipe

Run ==
    \/ Start \/ Check \/ CheckOpened \/ CallEpoll \/ EpollThrows \/ EpollWait \/ EpollTimeout
    \/ BatchDone
    \/ \E e \in batch : \/ \E fd \in Fds : Accept(e, fd)
                        \/ AcceptThrows(e) \/ Handle(e) \/ HandleStray(e)
    \/ AcceptRest \/ UseErased \/ Drop \/ Keep \/ Callback

-----------------------------------------------------------------------------
(* close(), in the main thread *)

CloseAt(place, next) == fate = "running" /\ closer = place /\ closer' = next

CloseBegin ==
    /\ Closes /\ CloseAt("idle", "clear") /\ shutdown' = TRUE
    /\ UNCHANGED <<loopVars, listening, epoll, strays, connections, sentBack,
                   kernelVars, counters, fate>>

CloseClear ==
    /\ CloseAt("clear", "socket")
    /\ connections' = [fd \in Fds |-> Absent] /\ strays' = {}
    /\ socks' = [fd \in Fds |-> NoSock] /\ interest' = interest \ Fds
    /\ UNCHANGED <<loopVars, shutdown, listening, epoll, sentBack, backlog,
                   counters, fate>>

CloseSocket ==
    /\ CloseAt("socket", "epoll")
    /\ listening' = FALSE /\ interest' = interest \ {Listen} /\ backlog' = 0
    /\ UNCHANGED <<loopVars, shutdown, epoll, strays, connections, sentBack, socks,
                   counters, fate>>

CloseEpoll ==
    /\ CloseAt("epoll", "done") /\ epoll' = FALSE /\ interest' = {}
    /\ UNCHANGED <<loopVars, shutdown, listening, strays, connections, sentBack,
                   socks, backlog, counters, fate>>

Close == CloseClear \/ CloseSocket \/ CloseEpoll

\* clear() while run() looks up, inserts or erases: a data race on the map.
MapRaced ==
    /\ fate = "running" /\ closer = "clear"
    /\ pc \in {"added", "after"} \/ (pc = "batch" /\ batch # {})
    /\ fate' = "undefined"
    /\ UNCHANGED <<loopVars, serverVars, connections, sentBack, kernelVars,
                   counters>>

-----------------------------------------------------------------------------
(* The peers *)

PeerConnect ==
    /\ fate = "running" /\ listening /\ connects < MaxConns
    /\ connects' = connects + 1 /\ backlog' = backlog + 1
    /\ UNCHANGED <<loopVars, serverVars, connections, sentBack, interest, socks,
                   sends, fate>>

Peer(fd) == /\ fate = "running" /\ socks[fd].open /\ ~socks[fd].rst
            /\ UNCHANGED <<loopVars, serverVars, connections, sentBack, interest,
                           backlog, connects, fate>>

PeerSend(fd) ==
    /\ Peer(fd) /\ ~socks[fd].fin /\ sends < MaxParts
    /\ socks' = [socks EXCEPT ![fd].inq = @ + 1] /\ sends' = sends + 1

PeerReceive(fd) ==
    /\ Peer(fd) /\ socks[fd].outq > 0
    /\ socks' = [socks EXCEPT ![fd].outq = @ - 1] /\ UNCHANGED sends

PeerShutdown(fd) ==
    /\ Peer(fd) /\ ~socks[fd].fin
    /\ socks' = [socks EXCEPT ![fd].fin = TRUE] /\ UNCHANGED sends

PeerReset(fd) ==
    /\ Peer(fd)
    /\ socks' = [socks EXCEPT ![fd].rst = TRUE, ![fd].outq = 0] /\ UNCHANGED sends

Peers == \/ PeerConnect
         \/ \E fd \in Fds : \/ PeerSend(fd) \/ PeerReceive(fd)
                            \/ PeerShutdown(fd) \/ PeerReset(fd)

-----------------------------------------------------------------------------

Init ==
    /\ pc = "start" /\ closer = "idle" /\ shutdown = FALSE
    /\ listening = TRUE /\ epoll = TRUE /\ strays = {}
    /\ connections = [fd \in Fds |-> Absent] /\ sentBack = [fd \in Fds |-> 0]
    /\ batch = {} /\ handling = Listen /\ interest = {Listen}
    /\ socks = [fd \in Fds |-> NoSock]
    /\ backlog = 0 /\ connects = 0 /\ sends = 0 /\ fate = "running"

Next == Run \/ CloseBegin \/ Close \/ MapRaced \/ Peers

Spec == Init /\ [][Next]_vars
Fairness == /\ WF_vars(Run) /\ WF_vars(Close)
            /\ \A fd \in Fds : WF_vars(PeerReceive(fd))
FairSpec == Spec /\ Fairness

-----------------------------------------------------------------------------
(* Properties *)

\* An accepted socket is open exactly as long as a ConnectionAsync of the map
\* owns it, also when close() and accept() cross.
SocketsOwned ==
    \A fd \in Fds : socks[fd].open <=> connections[fd].st \in {"open", "eof"}

\* As long as there is an epoll every connection is watched, and nothing else,
\* except for the one that accept() has in hand.
Watched ==
    epoll => interest \ {Listen} =
        {fd \in Fds : socks[fd].open /\ ~(pc = "accepted" /\ handling = fd)}

\* Until close() is called the server drops a connection only if its peer has
\* left or asked to, or if what m_events held at its first event said so.
HealthyKept ==
    [][\A fd \in Fds :
          /\ closer = "idle"
          /\ connections[fd].st = "open" /\ connections'[fd].st # "open"
          => \/ connections[fd].bye \/ "err" \in connections[fd].junk
             \/ socks[fd].fin \/ socks[fd].rst]_vars

\* What a peer sends is read, whatever the other peers do, unless the server
\* is closed or run() has thrown.
AllRead ==
    \A fd \in Fds :
        (socks[fd].open /\ socks[fd].inq > 0)
            ~> \/ socks[fd].inq = 0 \/ socks[fd].rst
               \/ closer # "idle" \/ fate # "running"

\* close() makes run() end, also when it waits in epoll_wait or when the reset
\* of m_shutdown at its start comes after close() set it.
CloseEndsRun ==
    closer # "idle" ~> pc = "left" \/ fate # "running"

=============================================================================
