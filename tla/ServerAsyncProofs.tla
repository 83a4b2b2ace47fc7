-------------------------- MODULE ServerAsyncProofs --------------------------
(***************************************************************************)
(* The epoll server of hw4, for any number of descriptors, connections and *)
(* parts, whatever m_events holds before its first clearEvents: who owns   *)
(* an accepted socket, what the epoll watches, and what run() may count on *)
(* until the main thread calls close().                                    *)
(***************************************************************************)
EXTENDS ServerAsync, TLAPS

Events == {"in", "out", "err"}
Event == [fd : Fds \union {Listen}, ev : SUBSET Events]
Connection == [st : {"absent", "open", "eof", "closed"}, buf : 0..MsgParts,
               bye : BOOLEAN, ev : SUBSET Events, junk : Junk \union {{}}]
Sock == [open : BOOLEAN, inq : Nat, outq : 0..SndBuf, fin : BOOLEAN, rst : BOOLEAN]

InCallback == pc \in {"callback", "full", "after"}
InAccept == pc \in {"accepted", "added"}

TypeOK ==
    /\ pc \in {"start", "check", "unlocked", "call", "wait", "batch", "left",
               "callback", "full", "after", "accepted", "added"}
    /\ closer \in {"idle", "clear", "socket", "epoll", "done"}
    /\ shutdown \in BOOLEAN /\ listening \in BOOLEAN /\ epoll \in BOOLEAN
    /\ connections \in [Fds -> Connection] /\ strays \subseteq Fds \union {Listen}
    /\ sentBack \in [Fds -> 0 .. MsgParts - 1]
    /\ batch \subseteq Event /\ handling \in Fds \union {Listen}
    /\ interest \subseteq Fds \union {Listen}
    /\ socks \in [Fds -> Sock]
    /\ backlog \in Nat /\ connects \in 0..MaxConns /\ sends \in 0..MaxParts
    /\ fate \in {"running", "killed", "undefined"}
    /\ InAccept => handling \in Fds

\* Only what the callback has just left is in the map without being opened.
LiveOpen == \A fd \in Present :
    connections[fd].st # "open" => pc = "after" /\ handling = fd

\* An error that an open connection has been told of is its peer's reset.
ErrIsReset == \A fd \in Fds :
    connections[fd].st = "open" /\ "err" \in connections[fd].ev => socks[fd].rst

\* The rest of a batch is about connections that are still there, each once,
\* and not about the one that is being handled.
BatchCurrent ==
    /\ \A e \in batch : e.fd \in Fds =>
          /\ e.fd # handling /\ connections[e.fd].st = "open"
          /\ "err" \in e.ev => socks[e.fd].rst
    /\ \A e, f \in batch : e.fd = f.fd => e = f

\* What run() may count on until close() is called.
Undisturbed == closer = "idle" =>
    /\ epoll /\ listening /\ fate # "undefined" /\ strays = {}
    /\ IF InCallback \/ InAccept THEN Alive ELSE handling = Listen
    /\ ErrIsReset /\ BatchCurrent

OwnInv == TypeOK /\ SocketsOwned /\ LiveOpen
IInv == OwnInv /\ Watched /\ Undisturbed

-----------------------------------------------------------------------------
(* Facts about the model's operators *)

\* A connection and a socket that nobody has touched yet.
LEMMA FreshFacts ==
    /\ Absent \in Connection /\ Absent.st = "absent"
    /\ \A junk \in Junk : /\ Opened(junk) \in Connection
                          /\ Opened(junk).st = "open" /\ Opened(junk).ev = {}
    /\ NoSock \in Sock /\ ~NoSock.open
    /\ [NoSock EXCEPT !.open = TRUE] \in Sock /\ [NoSock EXCEPT !.open = TRUE].open
<1>1. 0 \in 0..MsgParts /\ 0 \in 0..SndBuf
  BY BoundsAssumption
<1>2. Absent \in Connection /\ Absent.st = "absent"
  BY <1>1 DEF Absent, Connection
<1>3. ASSUME NEW junk \in Junk
      PROVE  /\ Opened(junk) \in Connection
             /\ Opened(junk).st = "open" /\ Opened(junk).ev = {}
  <2>1. junk \in Junk \union {{}} /\ {} \in SUBSET Events
    OBVIOUS
  <2>2. Opened(junk) \in Connection
    BY <1>1, <2>1 DEF Opened, Absent, Connection
  <2>3. Opened(junk).st = "open" /\ Opened(junk).ev = {}
    BY DEF Opened, Absent
  <2> QED
    BY <2>2, <2>3
<1>4. NoSock \in Sock /\ ~NoSock.open
  BY <1>1 DEF NoSock, Sock
<1>5. /\ [NoSock EXCEPT !.open = TRUE] \in Sock
      /\ [NoSock EXCEPT !.open = TRUE].open
  <2>1. [NoSock EXCEPT !.open = TRUE] \in Sock
    BY <1>1 DEF NoSock, Sock
  <2>2. [NoSock EXCEPT !.open = TRUE].open
    BY DEF NoSock
  <2> QED
    BY <2>1, <2>2
<1> QED
  BY <1>2, <1>3, <1>4, <1>5

\* The descriptors of the connections are not the listening socket's.
LEMMA PresentFacts ==
    ASSUME TypeOK
    PROVE  /\ Listen \notin Present /\ Present \subseteq Fds
           /\ \A fd \in Fds : fd \in Present <=> connections[fd].st # "absent"
  BY ListenAssumption DEF Present

\* What epoll_wait reports of a socket it reports of no other, and an error
\* only after the peer's reset.
LEMMA DeliveredFacts ==
    ASSUME TypeOK
    PROVE  /\ Delivered \subseteq Event
           /\ \A e \in Delivered : e.fd \in Fds =>
                 e.fd \in interest /\ ("err" \in e.ev => socks[e.fd].rst)
           /\ \A e, f \in Delivered : e.fd = f.fd => e = f
<1> DEFINE A == {[fd |-> fd, ev |-> Reported(socks[fd])] :
                    fd \in {g \in interest \ {Listen} : Reported(socks[g]) # {}}}
           B == {[fd |-> fd, ev |-> {"in"}] :
                    fd \in {g \in interest \intersect {Listen} : backlog > 0}}
<1>1. Delivered = A \union B
  BY DEF Delivered
<1>2. \A s : Reported(s) \subseteq Events /\ ("err" \in Reported(s) => s.rst)
  BY DEF Reported, Events
<1>3. \A e \in A : /\ e.fd \in interest /\ e.fd # Listen
                   /\ e = [fd |-> e.fd, ev |-> Reported(socks[e.fd])]
  OBVIOUS
<1>4. \A e \in B : e = [fd |-> Listen, ev |-> {"in"}]
  OBVIOUS
<1> HIDE DEF A, B
<1>5. \A e \in A : e \in Event /\ ("err" \in e.ev => socks[e.fd].rst)
  BY <1>2, <1>3 DEF Event, TypeOK
<1>6. \A e \in B : e \in Event /\ e.fd = Listen
  BY <1>4 DEF Event, Events
<1>7. \A e, f \in Delivered : e.fd = f.fd => e = f
  BY <1>1, <1>3, <1>4, <1>6
<1> QED
  BY <1>1, <1>3, <1>5, <1>6, <1>7, ListenAssumption

\* The callback writes at least a part, and no more than there is left or fits.
LEMMA SendsFacts ==
    ASSUME TypeOK, handling \in Fds, S.outq < SndBuf
    PROVE  /\ Left \in 1..MsgParts /\ Sends \in 1..Left
           /\ S.outq + Sends \in 0..SndBuf
           /\ Sends # Left => sentBack[handling] + Sends \in 0 .. MsgParts - 1
<1>1. S \in Sock /\ sentBack[handling] \in 0 .. MsgParts - 1
  BY DEF TypeOK, S
<1>2. S.outq \in 0..SndBuf
  BY <1>1 DEF Sock
<1> QED
  BY <1>1, <1>2, BoundsAssumption DEF Left, Sends, Least

-----------------------------------------------------------------------------
(* Every value keeps its type *)

LEMMA TypeRun ==
    ASSUME TypeOK,
           \/ Start \/ Check \/ CheckOpened \/ CallEpoll \/ EpollThrows \/ EpollWait
           \/ EpollTimeout \/ BatchDone \/ UseErased \/ AddThrows \/ MapRaced
           \/ \E e \in batch : AcceptThrows(e)
    PROVE  TypeOK'
<1>1. /\ UNCHANGED <<closer, listening, epoll, strays, connections, sentBack,
                     kernelVars, counters, handling>>
      /\ pc' = pc \/ pc' \in {"check", "left", "unlocked", "call", "wait", "batch"}
      /\ shutdown' \in BOOLEAN /\ fate' \in {"running", "killed", "undefined"}
  BY DEF TypeOK, Start, Check, CheckOpened, CallEpoll, EpollThrows, EpollWait,
     EpollTimeout, TimeoutTo, BatchDone, UseErased, AcceptThrows, AddThrows, Terminate,
     MapRaced, At, Goto, loopVars, serverVars
<1>2. batch' = batch \/ batch' = Delivered
  BY DEF Start, Check, CheckOpened, CallEpoll, EpollThrows, EpollWait,
     EpollTimeout, TimeoutTo, BatchDone, UseErased, AcceptThrows, AddThrows, Terminate,
     MapRaced, At, Goto, loopVars
<1>3. batch' \subseteq Event
  BY <1>2, DeliveredFacts DEF TypeOK
<1> QED
  BY <1>1, <1>3 DEF TypeOK, InAccept, kernelVars, counters

LEMMA TypeConnections ==
    ASSUME TypeOK,
           \/ \E e \in batch :
                 (\E fd \in Fds : Accept(e, fd)) \/ Handle(e) \/ HandleStray(e)
           \/ AddToEpoll \/ SetTimeouts \/ Drop \/ Keep
    PROVE  TypeOK'
<1>1. CASE \E e \in batch, fd \in Fds : Accept(e, fd)
  <2>1. PICK e \in batch, fd \in Fds : Accept(e, fd)
    BY <1>1
  <2>2. PICK junk \in Junk : connections' = [connections EXCEPT ![fd] = Opened(junk)]
    BY <2>1 DEF Accept
  <2>3. connections' \in [Fds -> Connection]
    BY <2>2, FreshFacts DEF TypeOK
  <2>4. socks' \in [Fds -> Sock]
    BY <2>1, FreshFacts DEF TypeOK, Accept
  <2>5. backlog' \in Nat /\ interest' \subseteq Fds \union {Listen}
    BY <2>1 DEF TypeOK, Accept
  <2> QED
    BY <2>1, <2>3, <2>4, <2>5 DEF TypeOK, Accept, InAccept, serverVars, counters
<1>2. CASE \E e \in batch : Handle(e)
  <2>1. PICK e \in batch : Handle(e)
    BY <1>2
  <2>2. e.fd \in Fds /\ e.ev \subseteq Events
    BY <2>1, PresentFacts DEF Handle, TypeOK, Event
  <2> DEFINE c == [connections[e.fd] EXCEPT !.ev = connections[e.fd].ev \union e.ev]
  <2>3. connections' = [connections EXCEPT ![e.fd] = c]
    BY <2>1 DEF Handle
  <2>4. c \in Connection
    BY <2>2 DEF TypeOK, Connection
  <2> HIDE DEF c
  <2>5. connections' \in [Fds -> Connection]
    BY <2>2, <2>3, <2>4 DEF TypeOK
  <2> QED
    BY <2>1, <2>2, <2>5 DEF TypeOK, Handle, InAccept, serverVars, kernelVars, counters
<1>3. CASE Drop
  <2>1. socks' \in [Fds -> Sock] /\ interest' \subseteq Fds \union {Listen}
    BY <1>3, FreshFacts DEF TypeOK, Drop, DropOf, CloseSock
  <2>2. connections' \in [Fds -> Connection]
    BY <1>3, FreshFacts DEF TypeOK, Drop, DropOf
  <2> QED
    BY <1>3, <2>1, <2>2 DEF TypeOK, Drop, DropOf, InAccept, serverVars, counters
<1>4. CASE Keep
  <2>1. handling \in Fds
    BY <1>4, PresentFacts DEF Keep, Alive
  <2>2. connections' = [connections EXCEPT
                           ![handling] = [@ EXCEPT !.ev = {}, !.junk = {}]]
    BY <1>4 DEF Keep
  <2>3. [connections[handling] EXCEPT !.ev = {}, !.junk = {}] \in Connection
    <3> DEFINE J == Junk \union {{}}
               E == SUBSET Events
    <3>1. connections[handling] \in Connection /\ {} \in J /\ {} \in E
      BY <2>1 DEF TypeOK
    <3>2. Connection = [st : {"absent", "open", "eof", "closed"}, buf : 0..MsgParts,
                        bye : BOOLEAN, ev : E, junk : J]
      BY DEF Connection
    <3> HIDE DEF J, E
    <3> QED
      BY <3>1, <3>2
  <2>4. connections' \in [Fds -> Connection]
    BY <2>1, <2>2, <2>3 DEF TypeOK
  <2> QED
    BY <1>4, <2>4 DEF TypeOK, Keep, InAccept, serverVars, kernelVars, counters
<1>5. CASE AddToEpoll \/ SetTimeouts \/ \E e \in batch : HandleStray(e)
  <2>1. /\ UNCHANGED <<closer, shutdown, listening, epoll, connections, sentBack, socks,
                       backlog, counters, fate>>
        /\ batch' \subseteq batch
    BY <1>5 DEF AddToEpoll, AddTo, SetTimeouts, HandleStray, Goto, serverVars, kernelVars
  <2>2. /\ interest' \subseteq Fds \union {Listen} /\ strays' \subseteq Fds \union {Listen}
        /\ handling' \in Fds \union {Listen}
        /\ pc' \in {"added", "batch"} /\ (pc' = "added" => handling' \in Fds)
    BY <1>5 DEF TypeOK, InAccept, AddToEpoll, AddTo, SetTimeouts, HandleStray, At, Goto,
       serverVars, kernelVars, Event
  <2> QED
    BY <2>1, <2>2 DEF TypeOK, InAccept, counters
<1> QED
  BY <1>1, <1>2, <1>3, <1>4, <1>5

\* The steps of the callback leave everything of the epoll and of close() alone.
LEMMA CallbackFacts ==
    ASSUME TypeOK, Callback, ~WriteSigpipe
    PROVE  /\ handling \in Fds /\ fate = "running" /\ pc \in {"callback", "full"}
           /\ Alive /\ pc' \in {"full", "after"}
           /\ UNCHANGED <<batch, handling, serverVars, backlog, counters, fate>>
  BY PresentFacts DEF Callback, NothingToDo, ReadSome, ReadNothing, ReadEof, ReadError,
     StillFull, Disconnect, WriteSome, WriteOf, WriteError, CloseIt, Reads, Writes,
     Alive, At, Goto, kernelVars

\* c.close() keeps the entry and closes its socket.
LEMMA CloseItTypes ==
    ASSUME TypeOK, handling \in Fds, CloseIt
    PROVE  /\ connections' = [connections EXCEPT
                                 ![handling] = [@ EXCEPT !.st = "closed"]]
           /\ connections' \in [Fds -> Connection] /\ socks' \in [Fds -> Sock]
           /\ interest' \subseteq Fds \union {Listen} /\ UNCHANGED sentBack
<1>1. connections' = [connections EXCEPT ![handling] = [@ EXCEPT !.st = "closed"]]
  BY DEF CloseIt
<1>2. [connections[handling] EXCEPT !.st = "closed"] \in Connection
  BY DEF TypeOK, Connection
<1> QED
  BY <1>1, <1>2, FreshFacts DEF TypeOK, CloseIt, CloseSock

LEMMA TypeCallback ==
    ASSUME TypeOK, Callback
    PROVE  TypeOK'
<1>1. CASE WriteSigpipe
  BY <1>1 DEF TypeOK, InAccept, WriteSigpipe, Terminate, loopVars, serverVars, kernelVars,
     counters
<1>2. SUFFICES ASSUME ~WriteSigpipe
               PROVE  /\ connections' \in [Fds -> Connection]
                      /\ socks' \in [Fds -> Sock]
                      /\ sentBack' \in [Fds -> 0 .. MsgParts - 1]
                      /\ interest' \subseteq Fds \union {Listen}
  BY <1>1, CallbackFacts DEF TypeOK, InAccept, serverVars, counters
<1>3. handling \in Fds /\ C \in Connection /\ S \in Sock
  BY <1>2, CallbackFacts DEF TypeOK, C, S
<1>4. CASE NothingToDo \/ ReadNothing \/ StillFull
  BY <1>4 DEF TypeOK, NothingToDo, ReadNothing, StillFull, kernelVars
<1>5. CASE ReadError \/ Disconnect \/ WriteError
  BY <1>3, <1>5, CloseItTypes DEF TypeOK, ReadError, Disconnect, WriteError
<1>6. CASE ReadSome
  <2> DEFINE n == Least(S.inq, MsgParts - C.buf)
  <2>1. n \in Nat /\ n <= S.inq /\ n <= MsgParts - C.buf
    BY <1>3, <1>6, BoundsAssumption DEF ReadSome, Reads, Connection, Sock, Least
  <2>2. PICK bye \in BOOLEAN :
           connections' = [connections EXCEPT
              ![handling] = [@ EXCEPT !.buf = C.buf + n, !.bye = bye]]
    BY <1>6 DEF ReadSome, C
  <2>3. socks' = [socks EXCEPT ![handling] = [@ EXCEPT !.inq = S.inq - n]]
    BY <1>6 DEF ReadSome, S
  <2> HIDE DEF n
  <2>4. [C EXCEPT !.buf = C.buf + n, !.bye = bye] \in Connection
    <3>1. C.buf + n \in 0..MsgParts
      BY <1>3, <2>1, BoundsAssumption DEF Connection
    <3> QED
      BY <1>3, <3>1 DEF Connection
  <2>5. [S EXCEPT !.inq = S.inq - n] \in Sock
    BY <1>3, <2>1 DEF Sock
  <2> QED
    BY <1>3, <1>6, <2>2, <2>3, <2>4, <2>5 DEF TypeOK, ReadSome, C, S
<1>7. CASE ReadEof
  <2>1. connections' = [connections EXCEPT ![handling] = [@ EXCEPT !.st = "eof"]]
    BY <1>7 DEF ReadEof
  <2>2. [C EXCEPT !.st = "eof"] \in Connection
    BY <1>3 DEF Connection
  <2> QED
    BY <1>3, <1>7, <2>1, <2>2 DEF TypeOK, ReadEof, kernelVars, C
<1>8. CASE WriteSome
  <2> DEFINE b == IF Sends = Left THEN 0 ELSE C.buf
             k == IF Sends = Left THEN 0 ELSE sentBack[handling] + Sends
             o == S.outq + Sends
  <2>1. b \in 0..MsgParts /\ k \in 0 .. MsgParts - 1 /\ o \in 0..SndBuf
    BY <1>3, <1>8, SendsFacts, BoundsAssumption DEF WriteSome, WriteOf, Connection
  <2>2. /\ connections' = [connections EXCEPT ![handling] = [@ EXCEPT !.buf = b]]
        /\ sentBack' = [sentBack EXCEPT ![handling] = k]
        /\ socks' = [socks EXCEPT ![handling] = [@ EXCEPT !.outq = o]]
    BY <1>8 DEF WriteSome, WriteOf, C, S
  <2> HIDE DEF b, k, o
  <2>3. [C EXCEPT !.buf = b] \in Connection /\ [S EXCEPT !.outq = o] \in Sock
    BY <1>3, <2>1 DEF Connection, Sock
  <2> QED
    BY <1>3, <1>8, <2>1, <2>2, <2>3 DEF TypeOK, WriteSome, WriteOf, C, S
<1> QED
  BY <1>2, <1>4, <1>5, <1>6, <1>7, <1>8 DEF Callback

LEMMA TypeOthers ==
    ASSUME TypeOK, CloseBegin \/ Close \/ Peers
    PROVE  TypeOK'
<1>1. CASE CloseBegin \/ CloseSocket \/ CloseEpoll
  <2>1. /\ closer' \in {"clear", "epoll", "done"} /\ backlog' \in Nat
        /\ shutdown' \in BOOLEAN /\ listening' \in BOOLEAN /\ epoll' \in BOOLEAN
        /\ interest' \subseteq Fds \union {Listen}
    <3>1. CASE CloseBegin
      BY <3>1 DEF TypeOK, CloseBegin, CloseAt, kernelVars
    <3>2. CASE CloseSocket
      BY <3>2 DEF TypeOK, CloseSocket, CloseAt
    <3>3. CASE CloseEpoll
      BY <3>3 DEF TypeOK, CloseEpoll, CloseAt
    <3> QED
      BY <1>1, <3>1, <3>2, <3>3
  <2>2. UNCHANGED <<loopVars, strays, connections, sentBack, socks, counters, fate>>
    BY <1>1 DEF CloseBegin, CloseSocket, CloseEpoll, kernelVars
  <2> QED
    BY <2>1, <2>2 DEF TypeOK, InAccept, loopVars, counters
<1>2. CASE CloseClear
  BY <1>2, FreshFacts DEF TypeOK, InAccept, CloseClear, CloseAt, loopVars, counters
<1>3. CASE PeerConnect
  BY <1>3, BoundsAssumption DEF TypeOK, InAccept, PeerConnect, loopVars, serverVars
<1>4. ASSUME NEW fd \in Fds,
             PeerSend(fd) \/ PeerReceive(fd) \/ PeerShutdown(fd) \/ PeerReset(fd)
      PROVE  TypeOK'
  <2>1. socks[fd] \in Sock
    BY DEF TypeOK
  <2>2. PICK s : socks' = [socks EXCEPT ![fd] = s] /\ s \in Sock
    <3>1. CASE PeerSend(fd)
      <4>1. socks' = [socks EXCEPT ![fd] = [socks[fd] EXCEPT !.inq = socks[fd].inq + 1]]
        BY <3>1 DEF PeerSend
      <4>2. [socks[fd] EXCEPT !.inq = socks[fd].inq + 1] \in Sock
        BY <2>1 DEF Sock
      <4> QED BY <4>1, <4>2
    <3>2. CASE PeerReceive(fd)
      <4>1. socks' = [socks EXCEPT ![fd] = [socks[fd] EXCEPT !.outq = socks[fd].outq - 1]]
        BY <3>2 DEF PeerReceive
      <4>2. [socks[fd] EXCEPT !.outq = socks[fd].outq - 1] \in Sock
        BY <2>1, <3>2, BoundsAssumption DEF Sock, PeerReceive
      <4> QED BY <4>1, <4>2
    <3>3. CASE PeerShutdown(fd)
      <4>1. socks' = [socks EXCEPT ![fd] = [@ EXCEPT !.fin = TRUE]]
        BY <3>3 DEF PeerShutdown
      <4>2. [socks[fd] EXCEPT !.fin = TRUE] \in Sock
        BY <2>1 DEF Sock
      <4> QED BY <4>1, <4>2
    <3>4. CASE PeerReset(fd)
      <4>1. socks' = [socks EXCEPT ![fd] = [@ EXCEPT !.rst = TRUE, !.outq = 0]]
        BY <3>4 DEF PeerReset
      <4>2. [socks[fd] EXCEPT !.rst = TRUE, !.outq = 0] \in Sock
        <5>1. 0 \in 0..SndBuf
          BY BoundsAssumption
        <5> QED BY <2>1, <5>1 DEF Sock
      <4> QED BY <4>1, <4>2
    <3> QED BY <1>4, <3>1, <3>2, <3>3, <3>4
  <2>3. sends' \in 0..MaxParts
    BY <1>4, BoundsAssumption DEF TypeOK, PeerSend, PeerReceive, PeerShutdown, PeerReset
  <2>4. UNCHANGED <<loopVars, serverVars, connections, sentBack, interest, backlog,
                    connects, fate>>
    BY <1>4 DEF PeerSend, PeerReceive, PeerShutdown, PeerReset, Peer
  <2> QED
    BY <2>2, <2>3, <2>4 DEF TypeOK, InAccept, loopVars, serverVars
<1> QED
  BY <1>1, <1>2, <1>3, <1>4 DEF Close, Peers

LEMMA TypeStep ==
    ASSUME TypeOK, [Next]_vars
    PROVE  TypeOK'
<1>1. CASE UNCHANGED vars
  BY <1>1 DEF TypeOK, InAccept, vars, loopVars, serverVars, kernelVars, counters
<1> QED
  BY <1>1, TypeRun, TypeConnections, TypeCallback, TypeOthers DEF Next, Run, AcceptRest

-----------------------------------------------------------------------------
(* What the steps do to connections and sockets *)

\* The callback touches one connection and its socket: it leaves the connection
\* opened, or its peer has left or asked for it, and closes the socket with it.
CallbackDoes ==
    LET c == connections'[handling]
        s == socks'[handling] IN
    /\ \A fd \in Fds \ {handling} :
          connections'[fd] = connections[fd] /\ socks'[fd] = socks[fd]
    /\ c.ev = C.ev /\ c.junk = C.junk
    /\ \/ c.st = "open" /\ s.open /\ s.rst = S.rst /\ interest' = interest
       \/ /\ c.st = "eof" /\ s.open /\ interest' = interest
          /\ pc' = "after" /\ S.fin
       \/ /\ c.st = "closed" /\ ~s.open /\ interest' = interest \ {handling}
          /\ pc' = "after" /\ (C.bye \/ S.rst)

LEMMA CallbackEffect ==
    ASSUME OwnInv, Callback, ~WriteSigpipe
    PROVE  C.st = "open" /\ S.open /\ CallbackDoes
<1> USE DEF OwnInv
<1>1. handling \in Fds /\ C \in Connection /\ S \in Sock /\ Alive
      /\ pc \in {"callback", "full"}
  BY CallbackFacts DEF TypeOK, C, S
<1>2. C.st = "open" /\ S.open
  BY <1>1 DEF LiveOpen, SocketsOwned, Alive, C, S
<1>3. DOMAIN connections = Fds /\ DOMAIN socks = Fds
  BY DEF TypeOK
<1>4. CASE NothingToDo \/ ReadNothing \/ StillFull
  BY <1>2, <1>4 DEF NothingToDo, ReadNothing, StillFull, kernelVars, CallbackDoes, C, S
<1>5. CASE ReadError \/ Disconnect \/ WriteError
  <2>1. CloseIt /\ (C.bye \/ S.rst)
    BY <1>5 DEF ReadError, Disconnect, WriteError
  <2>2. connections' = [connections EXCEPT ![handling] = [@ EXCEPT !.st = "closed"]]
    BY <1>1, <2>1, CloseItTypes
  <2>3. connections'[handling] = [C EXCEPT !.st = "closed"]
    BY <1>1, <1>3, <2>2 DEF C
  <2>4. /\ connections'[handling].st = "closed" /\ connections'[handling].ev = C.ev
        /\ connections'[handling].junk = C.junk
    BY <1>1, <2>3 DEF Connection
  <2>5. socks'[handling] = NoSock
    BY <1>1, <1>3, <2>1 DEF CloseIt, CloseSock
  <2>6. \A fd \in Fds \ {handling} :
           connections'[fd] = connections[fd] /\ socks'[fd] = socks[fd]
    BY <1>3, <2>1, <2>2 DEF CloseIt, CloseSock
  <2>7. interest' = interest \ {handling} /\ pc' = "after"
    BY <2>1 DEF CloseIt, CloseSock, Goto
  <2> QED
    BY <1>2, <2>1, <2>4, <2>5, <2>6, <2>7, FreshFacts DEF CallbackDoes
<1>6. CASE ReadSome
  <2> DEFINE n == Least(S.inq, MsgParts - C.buf)
             i == S.inq - n
             b == C.buf + n
  <2>1. PICK bye \in BOOLEAN :
           connections' = [connections EXCEPT
              ![handling] = [@ EXCEPT !.buf = b, !.bye = bye]]
    BY <1>6 DEF ReadSome, C
  <2>2. socks' = [socks EXCEPT ![handling] = [@ EXCEPT !.inq = i]]
    BY <1>6 DEF ReadSome, S
  <2> HIDE DEF n, i, b
  <2>3. connections'[handling] = [C EXCEPT !.buf = b, !.bye = bye]
    BY <1>1, <1>3, <2>1 DEF C
  <2>4. socks'[handling] = [S EXCEPT !.inq = i]
    BY <1>1, <1>3, <2>2 DEF S
  <2>5. /\ connections'[handling].st = "open" /\ connections'[handling].ev = C.ev
        /\ connections'[handling].junk = C.junk
    BY <1>1, <1>2, <2>3 DEF Connection
  <2>6. socks'[handling].open /\ socks'[handling].rst = S.rst
    BY <1>1, <1>2, <2>4 DEF Sock
  <2>7. interest' = interest
    BY <1>6 DEF ReadSome
  <2>8. \A fd \in Fds \ {handling} :
           connections'[fd] = connections[fd] /\ socks'[fd] = socks[fd]
    BY <1>3, <2>1, <2>2
  <2> QED
    BY <1>2, <2>5, <2>6, <2>7, <2>8 DEF CallbackDoes
<1>7. CASE ReadEof
  <2>1. connections' = [connections EXCEPT ![handling] = [@ EXCEPT !.st = "eof"]]
    BY <1>7 DEF ReadEof
  <2>2. connections'[handling] = [C EXCEPT !.st = "eof"]
    BY <1>1, <1>3, <2>1 DEF C
  <2>3. /\ connections'[handling].st = "eof" /\ connections'[handling].ev = C.ev
        /\ connections'[handling].junk = C.junk
    BY <1>1, <2>2 DEF Connection
  <2> QED
    BY <1>2, <1>3, <1>7, <2>1, <2>3 DEF ReadEof, Goto, kernelVars, CallbackDoes, S
<1>8. CASE WriteSome
  <2> DEFINE b == IF Sends = Left THEN 0 ELSE C.buf
             o == S.outq + Sends
  <2>1. connections' = [connections EXCEPT ![handling] = [@ EXCEPT !.buf = b]]
    BY <1>8 DEF WriteSome, WriteOf, C
  <2>2. socks' = [socks EXCEPT ![handling] = [@ EXCEPT !.outq = o]]
    BY <1>8 DEF WriteSome, WriteOf, S
  <2> HIDE DEF b, o
  <2>3. connections'[handling] = [C EXCEPT !.buf = b]
    BY <1>1, <1>3, <2>1 DEF C
  <2>4. socks'[handling] = [S EXCEPT !.outq = o]
    BY <1>1, <1>3, <2>2 DEF S
  <2>5. /\ connections'[handling].st = "open" /\ connections'[handling].ev = C.ev
        /\ connections'[handling].junk = C.junk
    BY <1>1, <1>2, <2>3 DEF Connection
  <2>6. socks'[handling].open /\ socks'[handling].rst = S.rst
    BY <1>1, <1>2, <2>4 DEF Sock
  <2>7. interest' = interest
    BY <1>8 DEF WriteSome, WriteOf
  <2>8. \A fd \in Fds \ {handling} :
           connections'[fd] = connections[fd] /\ socks'[fd] = socks[fd]
    BY <1>3, <2>1, <2>2
  <2> QED
    BY <1>2, <2>5, <2>6, <2>7, <2>8 DEF CallbackDoes
<1> QED
  BY <1>2, <1>4, <1>5, <1>6, <1>7, <1>8 DEF Callback

\* The peers touch no connection, and neither open nor close a socket.
LEMMA PeersEffect ==
    ASSUME TypeOK, Peers
    PROVE  /\ UNCHANGED <<loopVars, serverVars, connections, interest, fate>>
           /\ \A fd \in Fds : /\ socks'[fd].open = socks[fd].open
                              /\ socks[fd].rst => socks'[fd].rst
<1>1. CASE PeerConnect
  BY <1>1 DEF PeerConnect
<1>2. ASSUME NEW fd \in Fds,
             PeerSend(fd) \/ PeerReceive(fd) \/ PeerShutdown(fd) \/ PeerReset(fd)
      PROVE  /\ \A g \in Fds \ {fd} : socks'[g] = socks[g]
             /\ socks'[fd].open = socks[fd].open /\ (socks[fd].rst => socks'[fd].rst)
  <2>1. socks[fd] \in Sock /\ socks \in [Fds -> Sock]
    BY DEF TypeOK
  <2>2. \A g \in Fds \ {fd} : socks'[g] = socks[g]
    BY <1>2, <2>1 DEF PeerSend, PeerReceive, PeerShutdown, PeerReset
  <2>3. CASE PeerSend(fd)
    <3>1. socks'[fd] = [socks[fd] EXCEPT !.inq = socks[fd].inq + 1]
      BY <2>1, <2>3 DEF PeerSend
    <3> QED BY <2>1, <2>2, <3>1 DEF Sock
  <2>4. CASE PeerReceive(fd)
    <3>1. socks'[fd] = [socks[fd] EXCEPT !.outq = socks[fd].outq - 1]
      BY <2>1, <2>4 DEF PeerReceive
    <3> QED BY <2>1, <2>2, <3>1 DEF Sock
  <2>5. CASE PeerShutdown(fd)
    <3>1. socks'[fd] = [socks[fd] EXCEPT !.fin = TRUE]
      BY <2>1, <2>5 DEF PeerShutdown
    <3> QED BY <2>1, <2>2, <3>1 DEF Sock
  <2>6. CASE PeerReset(fd)
    <3>1. socks'[fd] = [socks[fd] EXCEPT !.rst = TRUE, !.outq = 0]
      BY <2>1, <2>6 DEF PeerReset
    <3> QED BY <2>1, <2>2, <3>1 DEF Sock
  <2> QED BY <1>2, <2>3, <2>4, <2>5, <2>6
<1>3. CASE \E fd \in Fds :
              PeerSend(fd) \/ PeerReceive(fd) \/ PeerShutdown(fd) \/ PeerReset(fd)
  BY <1>2, <1>3 DEF PeerSend, PeerReceive, PeerShutdown, PeerReset, Peer
<1> QED
  BY <1>1, <1>3 DEF Peers

\* accept() adds one opened connection, with a socket of its own.
LEMMA AcceptEffect ==
    ASSUME TypeOK, NEW e \in batch, NEW fd \in Fds, Accept(e, fd)
    PROVE  /\ connections[fd].st = "absent" /\ ~socks[fd].open
           /\ connections'[fd].st = "open" /\ connections'[fd].ev = {}
           /\ socks'[fd].open
           /\ \A g \in Fds \ {fd} :
                 connections'[g] = connections[g] /\ socks'[g] = socks[g]
           /\ pc = "batch" /\ pc' = "accepted" /\ handling' = fd
           /\ batch' = batch \ {e} /\ UNCHANGED <<interest, serverVars, fate>>
<1>1. PICK junk \in Junk : connections' = [connections EXCEPT ![fd] = Opened(junk)]
  BY DEF Accept
<1>2. connections'[fd] = Opened(junk)
  BY <1>1 DEF TypeOK
<1>3. socks'[fd] = [NoSock EXCEPT !.open = TRUE]
  BY DEF Accept, TypeOK
<1>4. connections[fd].st = "absent" /\ ~socks[fd].open
  BY PresentFacts DEF Accept
<1>5. \A g \in Fds \ {fd} : connections'[g] = connections[g] /\ socks'[g] = socks[g]
  BY <1>1 DEF Accept, TypeOK
<1> QED
  BY <1>2, <1>3, <1>4, <1>5, FreshFacts DEF Accept, Accepting, At

\* The rest of accept() makes the epoll watch the socket and forgets it.
LEMMA AcceptRestEffect ==
    ASSUME TypeOK, AddToEpoll \/ SetTimeouts
    PROVE  /\ UNCHANGED <<connections, socks, batch, closer, listening, epoll, fate>>
           /\ handling \in Fds
           /\ \/ /\ pc = "accepted" /\ pc' = "added" /\ handling' = handling
                 /\ strays' = strays
                 /\ epoll => socks[handling].open
                 /\ interest' = interest \union (IF epoll THEN {handling} ELSE {})
              \/ /\ pc = "added" /\ pc' = "batch" /\ handling' = Listen
                 /\ interest' = interest
                 /\ Alive => strays' = strays
  BY DEF AddToEpoll, AddTo, SetTimeouts, At, Goto, TypeOK, InAccept, serverVars,
     kernelVars, Alive

\* An event is added to those of its connection.
LEMMA HandleEffect ==
    ASSUME TypeOK, NEW e \in batch, Handle(e)
    PROVE  /\ e.fd \in Fds /\ connections[e.fd].st # "absent"
           /\ connections'[e.fd].st = connections[e.fd].st
           /\ connections'[e.fd].ev = connections[e.fd].ev \union e.ev
           /\ \A g \in Fds \ {e.fd} : connections'[g] = connections[g]
           /\ pc = "batch" /\ pc' = "callback" /\ handling' = e.fd
           /\ batch' = batch \ {e}
           /\ UNCHANGED <<serverVars, kernelVars, fate>>
<1>1. e.fd \in Fds /\ connections[e.fd].st # "absent"
  BY PresentFacts DEF Handle
<1> DEFINE v == connections[e.fd].ev \union e.ev
<1>2. connections' = [connections EXCEPT ![e.fd] = [connections[e.fd] EXCEPT !.ev = v]]
  BY DEF Handle
<1> HIDE DEF v
<1>3. connections'[e.fd] = [connections[e.fd] EXCEPT !.ev = v]
  BY <1>1, <1>2 DEF TypeOK
<1>4. connections'[e.fd].st = connections[e.fd].st /\ connections'[e.fd].ev = v
  BY <1>1, <1>3 DEF TypeOK, Connection
<1>5. \A g \in Fds \ {e.fd} : connections'[g] = connections[g]
  BY <1>2 DEF TypeOK
<1> QED
  BY <1>1, <1>4, <1>5 DEF Handle, At, v

\* The connection goes, and its socket if it still holds one.
LEMMA DropEffect ==
    ASSUME OwnInv, Drop
    PROVE  /\ handling \in Fds /\ pc = "after" /\ pc' = "batch" /\ handling' = Listen
           /\ connections'[handling].st = "absent" /\ ~socks'[handling].open
           /\ \A g \in Fds \ {handling} :
                 connections'[g] = connections[g] /\ socks'[g] = socks[g]
           /\ C.st # "open" \/ "err" \in C.ev \union C.junk
           /\ interest' \in {interest, interest \ {handling}}
           /\ socks[handling].open => interest' = interest \ {handling}
           /\ UNCHANGED <<batch, serverVars, fate>>
<1> USE DEF OwnInv
<1>1. handling \in Fds /\ C.st \in {"open", "eof", "closed"}
  BY PresentFacts DEF TypeOK, Connection, Drop, DropOf, Alive, C
<1>2. connections' = [connections EXCEPT ![handling] = Absent]
  BY DEF Drop, DropOf
<1>3. connections'[handling].st = "absent"
  BY <1>1, <1>2, FreshFacts DEF TypeOK
<1>4. C.st \in {"open", "eof"} <=> socks[handling].open
  BY <1>1 DEF SocketsOwned, C
<1>5. ~socks'[handling].open
  BY <1>1, <1>4, FreshFacts DEF TypeOK, Drop, DropOf, CloseSock
<1>6. \A g \in Fds \ {handling} :
         connections'[g] = connections[g] /\ socks'[g] = socks[g]
  BY <1>1, <1>2 DEF TypeOK, Drop, DropOf, CloseSock
<1> QED
  BY <1>1, <1>3, <1>4, <1>5, <1>6 DEF Drop, DropOf, CloseSock, IsSet, At

\* The connection stays, without its events.
LEMMA KeepEffect ==
    ASSUME TypeOK, Keep
    PROVE  /\ handling \in Fds /\ C.st = "open"
           /\ connections'[handling].st = "open" /\ connections'[handling].ev = {}
           /\ \A g \in Fds \ {handling} : connections'[g] = connections[g]
           /\ pc = "after" /\ pc' = "batch" /\ handling' = Listen
           /\ UNCHANGED <<batch, serverVars, kernelVars, fate>>
<1>1. handling \in Fds /\ C.st = "open" /\ C \in Connection
  BY PresentFacts DEF TypeOK, Keep, Alive, C
<1>2. connections' = [connections EXCEPT
                         ![handling] = [C EXCEPT !.ev = {}, !.junk = {}]]
  BY DEF Keep, C
<1>3. connections'[handling] = [C EXCEPT !.ev = {}, !.junk = {}]
  BY <1>1, <1>2 DEF TypeOK
<1>4. connections'[handling].st = "open" /\ connections'[handling].ev = {}
  BY <1>1, <1>3 DEF Connection
<1>5. \A g \in Fds \ {handling} : connections'[g] = connections[g]
  BY <1>2 DEF TypeOK
<1> QED
  BY <1>1, <1>4, <1>5 DEF Keep, At

\* After clear() there is no connection and no socket.
LEMMA ClearEffect ==
    ASSUME TypeOK, CloseClear
    PROVE  /\ \A fd \in Fds : connections'[fd].st = "absent" /\ ~socks'[fd].open
           /\ interest' = interest \ Fds /\ closer = "clear" /\ closer' = "socket"
           /\ UNCHANGED <<loopVars, epoll>>
  BY FreshFacts DEF CloseClear, CloseAt

\* What leaves run() or stays in it without touching a connection.
LEMMA LoopEffect ==
    ASSUME \/ Start \/ Check \/ CheckOpened \/ CallEpoll \/ EpollThrows
           \/ EpollTimeout \/ BatchDone \/ UseErased \/ WriteSigpipe
           \/ AddThrows \/ MapRaced \/ \E e \in batch : AcceptThrows(e)
    PROVE  /\ UNCHANGED <<closer, listening, epoll, strays, connections, kernelVars,
                          batch, handling>>
           /\ \/ pc' = pc
              \/ ~InCallback /\ ~InCallback' /\ ~InAccept /\ ~InAccept'
           /\ \/ fate' = fate \/ fate' = "killed"
              \/ (UseErased \/ MapRaced) /\ fate' = "undefined"
  BY DEF Start, Check, CheckOpened, CallEpoll, EpollThrows, EpollTimeout, TimeoutTo,
     BatchDone, UseErased, AcceptThrows, AddThrows, MapRaced, Terminate, WriteSigpipe,
     At, Goto, loopVars, serverVars, kernelVars, InCallback, InAccept

-----------------------------------------------------------------------------
(* An open socket has one owner *)

LEMMA OwnStep ==
    ASSUME OwnInv, [Next]_vars
    PROVE  SocketsOwned' /\ LiveOpen'
<1> USE DEF OwnInv
<1> DEFINE Owned(fd) == socks[fd].open <=> connections[fd].st \in {"open", "eof"}
           Live(fd) == connections[fd].st \in {"absent", "open"}
                          \/ (pc = "after" /\ handling = fd)
<1>1. \A fd \in Fds : Owned(fd) /\ Live(fd)
  BY PresentFacts DEF SocketsOwned, LiveOpen
<1>2. TypeOK'
  BY TypeStep
<1>3. SUFFICES \A fd \in Fds : Owned(fd)' /\ Live(fd)'
  BY DEF SocketsOwned, LiveOpen, Present
<1>4. CASE Callback /\ ~WriteSigpipe
  <2>1. handling \in Fds /\ pc # "after" /\ handling' = handling /\ CallbackDoes
    BY <1>4, CallbackFacts, CallbackEffect
  <2> QED
    BY <1>1, <2>1 DEF CallbackDoes
<1>5. CASE \E e \in batch, fd \in Fds : Accept(e, fd)
  BY <1>1, <1>5, AcceptEffect
<1>6. CASE \E e \in batch : Handle(e)
  BY <1>1, <1>6, HandleEffect DEF kernelVars
<1>7. CASE Drop
  BY <1>1, <1>7, DropEffect
<1>8. CASE Keep
  BY <1>1, <1>8, KeepEffect DEF kernelVars, C
<1>9. CASE CloseClear
  BY <1>9, ClearEffect
<1>10. CASE Peers
  BY <1>1, <1>10, PeersEffect DEF loopVars
<1>11. CASE UNCHANGED vars
  BY <1>1, <1>11 DEF vars, loopVars, kernelVars
<1>12. CASE EpollWait \/ CloseBegin \/ CloseSocket \/ CloseEpoll
  BY <1>1, <1>12 DEF EpollWait, At, CloseBegin, CloseSocket, CloseEpoll, loopVars,
     kernelVars
<1>13. CASE \/ Start \/ Check \/ CheckOpened \/ CallEpoll \/ EpollThrows
            \/ EpollTimeout \/ BatchDone \/ UseErased \/ WriteSigpipe
            \/ AddThrows \/ MapRaced \/ \E e \in batch : AcceptThrows(e)
  BY <1>1, <1>13, LoopEffect DEF kernelVars, InCallback
<1>14. CASE AddToEpoll \/ SetTimeouts
  BY <1>1, <1>14, AcceptRestEffect
<1>15. CASE \E e \in batch : HandleStray(e)
  BY <1>1, <1>15 DEF HandleStray, At, kernelVars
<1> QED
  BY <1>4, <1>5, <1>6, <1>7, <1>8, <1>9, <1>10, <1>11, <1>12, <1>13, <1>14, <1>15
  DEF Next, Run, AcceptRest, Close

LEMMA WatchedStep ==
    ASSUME IInv, [Next]_vars
    PROVE  Watched'
<1> USE DEF IInv, OwnInv
<1> DEFINE Awaits(fd) == pc = "accepted" /\ handling = fd
           Seen(fd) == fd \in interest <=> socks[fd].open /\ ~Awaits(fd)
<1>1. epoll => \A fd \in Fds : Seen(fd)
  BY ListenAssumption DEF Watched
<1>2. TypeOK'
  BY TypeStep
<1>3. interest' \subseteq Fds \union {Listen}
  BY <1>2 DEF TypeOK
<1>4. SUFFICES ASSUME epoll' PROVE \A fd \in Fds : Seen(fd)'
  BY <1>3, ListenAssumption DEF Watched
<1>5. CASE Callback /\ ~WriteSigpipe
  <2>1. /\ handling \in Fds /\ epoll' = epoll /\ CallbackDoes /\ S.open
        /\ \A fd \in Fds : ~Awaits(fd) /\ ~Awaits(fd)'
    BY <1>5, CallbackFacts, CallbackEffect DEF serverVars
  <2>2. \A fd \in Fds \ {handling} : fd \in interest' <=> fd \in interest
    BY <2>1 DEF CallbackDoes
  <2>3. handling \in interest' <=> socks'[handling].open
    BY <1>1, <1>4, <2>1 DEF CallbackDoes, S
  <2> QED
    BY <1>1, <1>4, <2>1, <2>2, <2>3 DEF CallbackDoes
<1>6. CASE \E e \in batch, fd \in Fds : Accept(e, fd)
  <2>1. PICK e \in batch, fd \in Fds : Accept(e, fd)
    BY <1>6
  <2>2. /\ epoll' = epoll /\ interest' = interest /\ ~socks[fd].open
        /\ pc = "batch" /\ pc' = "accepted" /\ handling' = fd
        /\ \A g \in Fds \ {fd} : socks'[g] = socks[g]
    BY <2>1, AcceptEffect DEF serverVars
  <2> QED
    BY <1>1, <1>4, <2>2
<1>7. CASE \E e \in batch : Handle(e)
  BY <1>1, <1>4, <1>7, HandleEffect DEF kernelVars, serverVars
<1>8. CASE Drop
  BY <1>1, <1>4, <1>8, DropEffect DEF serverVars
<1>9. CASE Keep
  BY <1>1, <1>4, <1>9, KeepEffect DEF kernelVars, serverVars
<1>10. CASE CloseClear
  BY <1>10, ClearEffect
<1>11. CASE Peers
  BY <1>1, <1>4, <1>11, PeersEffect DEF loopVars, serverVars
<1>12. CASE UNCHANGED vars \/ EpollWait
  BY <1>1, <1>4, <1>12 DEF vars, EpollWait, At, loopVars, kernelVars, serverVars
<1>13. CASE CloseBegin \/ CloseSocket \/ CloseEpoll
  BY <1>1, <1>4, <1>13, ListenAssumption DEF CloseBegin, CloseSocket, CloseEpoll,
     loopVars, kernelVars
<1>14. CASE \/ Start \/ Check \/ CheckOpened \/ CallEpoll \/ EpollThrows
            \/ EpollTimeout \/ BatchDone \/ UseErased \/ WriteSigpipe
            \/ AddThrows \/ MapRaced \/ \E e \in batch : AcceptThrows(e)
  BY <1>1, <1>4, <1>14, LoopEffect DEF kernelVars, InAccept
<1>15. CASE AddToEpoll \/ SetTimeouts
  BY <1>1, <1>4, <1>15, AcceptRestEffect
<1>16. CASE \E e \in batch : HandleStray(e)
  BY <1>1, <1>4, <1>16 DEF HandleStray, At, kernelVars
<1> QED
  BY <1>5, <1>6, <1>7, <1>8, <1>9, <1>10, <1>11, <1>12, <1>13, <1>14, <1>15, <1>16
  DEF Next, Run, AcceptRest, Close

-----------------------------------------------------------------------------
(* Until close() is called *)

LEMMA UndisturbedStep ==
    ASSUME IInv, [Next]_vars
    PROVE  Undisturbed'
<1> USE DEF IInv, OwnInv
<1> DEFINE Err(fd) ==
              connections[fd].st = "open" /\ "err" \in connections[fd].ev
                  => socks[fd].rst
           Now(e) == e.fd \in Fds =>
              /\ e.fd # handling /\ connections[e.fd].st = "open"
              /\ "err" \in e.ev => socks[e.fd].rst
           Once == \A e, f \in batch : e.fd = f.fd => e = f
<1>1. SUFFICES ASSUME closer' = "idle"
               PROVE  /\ epoll' /\ listening' /\ fate' # "undefined" /\ strays' = {}
                      /\ (IF InCallback \/ InAccept THEN Alive ELSE handling = Listen)'
                      /\ \A fd \in Fds : Err(fd)'
                      /\ \A e \in batch' : Now(e)'
                      /\ Once'
  BY DEF Undisturbed, ErrIsReset, BatchCurrent
<1>2. ~CloseBegin /\ ~Close /\ closer = "idle"
  BY <1>1 DEF TypeOK, Next, Run, Callback, vars, CloseBegin, Close, CloseClear,
     CloseSocket, CloseEpoll, CloseAt, serverVars, Peers, PeerConnect, PeerSend,
     PeerReceive, PeerShutdown, PeerReset, Peer, Start, Check, CheckOpened, CallEpoll,
     EpollThrows, EpollWait, EpollTimeout, TimeoutTo, BatchDone, Accept,
     AcceptThrows, AcceptRest, AddToEpoll, AddTo, AddThrows, SetTimeouts, Handle,
     HandleStray, MapRaced, UseErased, Drop, DropOf, Keep, Terminate,
     NothingToDo, ReadSome, ReadNothing, ReadEof, ReadError, StillFull, Disconnect,
     WriteSome, WriteOf, WriteError, WriteSigpipe, CloseIt
<1>3. /\ epoll /\ listening /\ fate # "undefined" /\ strays = {} /\ Once
      /\ IF InCallback \/ InAccept THEN Alive ELSE handling = Listen
      /\ \A fd \in Fds : Err(fd)
      /\ \A e \in batch : Now(e)
  BY <1>2 DEF Undisturbed, ErrIsReset, BatchCurrent
<1>4. TypeOK /\ TypeOK'
  BY TypeStep
<1>5. \A fd \in Fds : (fd \in Present <=> connections[fd].st # "absent")
                      /\ (fd \in Present' <=> connections'[fd].st # "absent")
  BY DEF Present
<1> HIDE DEF Err, Now, Once
<1>6. CASE Callback /\ ~WriteSigpipe
  <2>1. /\ handling \in Fds /\ CallbackDoes /\ handling' = handling /\ batch' = batch
        /\ UNCHANGED <<epoll, listening, strays, fate>>
    BY <1>6, CallbackFacts, CallbackEffect DEF serverVars
  <2>2. connections'[handling].st # "absent"
    BY <2>1 DEF CallbackDoes
  <2>3. Err(handling)'
    BY <1>3, <1>6, <2>1, CallbackEffect DEF CallbackDoes, Err, C, S
  <2>4. \A fd \in Fds : Err(fd)'
    BY <1>3, <2>1, <2>3 DEF CallbackDoes, Err
  <2>5. \A e \in batch : Now(e)'
    BY <1>3, <2>1 DEF CallbackDoes, Now
  <2> QED
    <3>1. InCallback' /\ Alive'
      BY <1>5, <1>6, <2>1, <2>2, CallbackFacts DEF Alive, InCallback
    <3> QED
      BY <1>3, <2>1, <2>4, <2>5, <3>1 DEF Once
<1>7. CASE \E e \in batch, fd \in Fds : Accept(e, fd)
  <2>1. PICK e \in batch, fd \in Fds : Accept(e, fd)
    BY <1>7
  <2>2. \A g \in Fds : Err(g)'
    BY <1>3, <2>1, AcceptEffect DEF Err
  <2>3. \A f \in batch : f.fd # fd
    BY <1>3, <2>1, AcceptEffect DEF Now
  <2>4. \A f \in batch' : Now(f)'
    BY <1>3, <2>1, <2>3, AcceptEffect DEF Now
  <2>5. InAccept' /\ Alive'
    BY <1>5, <2>1, AcceptEffect DEF InAccept, Alive
  <2> QED
    <3>1. UNCHANGED <<epoll, listening, strays, fate>> /\ batch' = batch \ {e}
      BY <2>1, AcceptEffect DEF serverVars
    <3> QED
      BY <1>3, <2>2, <2>4, <2>5, <3>1 DEF Once
<1>8. CASE \E e \in batch : Handle(e)
  <2>1. PICK e \in batch : Handle(e)
    BY <1>8
  <2>2. e.fd \in Fds /\ connections[e.fd].st = "open"
        /\ ("err" \in e.ev => socks[e.fd].rst)
    BY <1>3, <2>1, HandleEffect DEF Now
  <2>3. \A g \in Fds : Err(g)'
    BY <1>3, <2>1, <2>2, HandleEffect DEF Err, kernelVars
  <2>4. \A f \in batch' : Now(f)'
    BY <1>3, <2>1, <2>2, HandleEffect DEF Now, Once, kernelVars
  <2>5. Alive'
    BY <1>5, <2>1, <2>2, HandleEffect DEF Alive
  <2> QED
    <3>1. /\ UNCHANGED <<epoll, listening, strays, fate>> /\ batch' = batch \ {e}
          /\ pc' = "callback"
      BY <2>1, HandleEffect DEF serverVars
    <3> QED
      BY <1>3, <2>3, <2>4, <2>5, <3>1 DEF Once, InCallback
<1>9. CASE Drop
  <2>1. \A g \in Fds : Err(g)'
    BY <1>3, <1>9, DropEffect DEF Err
  <2>2. \A f \in batch' : Now(f)'
    BY <1>3, <1>9, DropEffect, ListenAssumption DEF Now
  <2> QED
    BY <1>3, <1>9, <2>1, <2>2, DropEffect DEF Once, serverVars, InCallback, InAccept
<1>10. CASE Keep
  <2>1. \A g \in Fds : Err(g)'
    BY <1>3, <1>10, KeepEffect DEF Err, kernelVars
  <2>2. \A f \in batch' : Now(f)'
    BY <1>3, <1>10, KeepEffect, ListenAssumption DEF Now, kernelVars, C
  <2> QED
    BY <1>3, <1>10, <2>1, <2>2, KeepEffect DEF Once, serverVars, InCallback, InAccept
<1>11. CASE Peers
  BY <1>3, <1>11, PeersEffect DEF loopVars, serverVars, Err, Now, Once, InCallback,
     InAccept, Alive, Present
<1>12. CASE EpollWait
  <2>1. /\ batch' = Delivered /\ pc = "wait" /\ pc' = "batch"
        /\ UNCHANGED <<handling, epoll, listening, strays, connections, interest, socks,
                       fate>>
    BY <1>12 DEF EpollWait, At, serverVars, kernelVars
  <2>2. \A fd \in Fds : fd \in interest => connections[fd].st = "open"
    <3>1. TAKE fd \in Fds
    <3>2. HAVE fd \in interest
    <3>3. connections[fd].st \in {"open", "eof"}
      BY <1>3, <3>2, ListenAssumption DEF Watched, SocketsOwned
    <3> QED
      BY <1>5, <2>1, <3>3 DEF LiveOpen
  <2>3. ASSUME NEW e \in batch'
        PROVE  Now(e)'
    BY <1>3, <2>1, <2>2, <2>3, DeliveredFacts, ListenAssumption DEF Now, InCallback, InAccept
  <2> QED
    BY <1>3, <2>1, <2>3, DeliveredFacts DEF Once, Err, InCallback, InAccept
<1>13. CASE UNCHANGED vars
  BY <1>3, <1>13 DEF vars, loopVars, serverVars, kernelVars, Err, Now, Once, InCallback,
     InAccept, Alive, Present
<1>14. CASE \/ Start \/ Check \/ CheckOpened \/ CallEpoll \/ EpollThrows
            \/ EpollTimeout \/ BatchDone \/ UseErased \/ WriteSigpipe
            \/ AddThrows \/ MapRaced \/ \E e \in batch : AcceptThrows(e)
  <2>1. ~UseErased
    BY <1>3 DEF UseErased, InCallback, InAccept
  <2>2. ~MapRaced
    BY <1>2 DEF MapRaced
  <2> QED
    BY <1>3, <1>14, <2>1, <2>2, LoopEffect DEF kernelVars, Err, Now, Once, InCallback,
       InAccept, Alive, Present
<1>15. CASE AddToEpoll \/ SetTimeouts
  <2>1. Alive /\ handling \in Fds
    BY <1>3, <1>15, AcceptRestEffect DEF InAccept, InCallback
  <2>2. \A e \in batch' : Now(e)'
    BY <1>3, <1>15, <2>1, AcceptRestEffect, ListenAssumption DEF Now
  <2> QED
    BY <1>3, <1>15, <2>1, <2>2, AcceptRestEffect DEF Err, Once, InCallback, InAccept,
       Alive, Present
<1>16. \A e \in batch : ~HandleStray(e)
  BY <1>3, <1>4, <1>5 DEF HandleStray, Now, TypeOK, Event
<1> QED
  BY <1>2, <1>6, <1>7, <1>8, <1>9, <1>10, <1>11, <1>12, <1>13, <1>14, <1>15, <1>16
  DEF Next, Run, AcceptRest

-----------------------------------------------------------------------------
(* The theorems *)

LEMMA InitIInv == Init => IInv
<1> SUFFICES ASSUME Init PROVE IInv
  OBVIOUS
<1>1. /\ 0 \in 0..MaxConns /\ 0 \in 0..MaxParts /\ 0 \in 0 .. MsgParts - 1
  BY BoundsAssumption
<1>2. TypeOK
  BY <1>1, FreshFacts DEF Init, TypeOK, InAccept
<1>3. \A fd \in Fds : connections[fd] = Absent /\ socks[fd] = NoSock
  BY DEF Init
<1>4. SocketsOwned /\ LiveOpen /\ Watched
  BY <1>3, FreshFacts DEF SocketsOwned, LiveOpen, Present, Watched, Init
<1>5. Undisturbed
  BY <1>3, FreshFacts DEF Init, Undisturbed, InCallback, InAccept, ErrIsReset, BatchCurrent
<1> QED
  BY <1>2, <1>4, <1>5 DEF IInv, OwnInv

LEMMA IInvStep == IInv /\ [Next]_vars => IInv'
<1> SUFFICES ASSUME IInv, [Next]_vars PROVE IInv'
  OBVIOUS
<1> QED
  BY TypeStep, OwnStep, WatchedStep, UndisturbedStep DEF IInv, OwnInv

LEMMA Invariance == Spec => []IInv
  BY InitIInv, IInvStep, PTL DEF Spec

\* Every variable of the server keeps its type: in particular no buffer, and no
\* count of the parts sent back, leaves its message.
THEOREM TypesKept == Spec => []TypeOK
  BY Invariance, PTL DEF IInv, OwnInv

\* accept(), the drop of a connection and close() in the other thread never
\* leave an open socket without an entry of m_connections, nor an entry that
\* holds a descriptor without its socket.
THEOREM SocketsAreOwned == Spec => []SocketsOwned
  BY Invariance, PTL DEF IInv, OwnInv

\* What m_epollfd watches is the sockets that are open, but for the one that
\* accept() has in hand.
THEOREM ConnectionsWatched == Spec => []Watched
  BY Invariance, PTL DEF IInv

\* Before close() is called run() never uses an entry that is gone, and
\* operator[] never makes one of its own.
THEOREM RacesNeedClose ==
    Spec => [](fate = "undefined" \/ strays # {} => closer # "idle")
<1>1. IInv => (fate = "undefined" \/ strays # {} => closer # "idle")
  BY DEF IInv, Undisturbed
<1> QED
  BY <1>1, Invariance, PTL

LEMMA KeptStep ==
    ASSUME IInv, [Next]_vars, NEW fd \in Fds, closer = "idle",
           connections[fd].st = "open", connections'[fd].st # "open"
    PROVE  \/ connections[fd].bye \/ "err" \in connections[fd].junk
           \/ socks[fd].fin \/ socks[fd].rst
<1> USE DEF IInv, OwnInv
<1>1. CASE Callback /\ ~WriteSigpipe
  BY <1>1, CallbackEffect DEF CallbackDoes, C, S
<1>2. CASE Drop
  <2>1. fd = handling /\ "err" \in C.ev \union C.junk
    BY <1>2, DropEffect DEF C
  <2> QED
    BY <2>1 DEF Undisturbed, ErrIsReset, C
<1>3. CASE \E e \in batch, g \in Fds : Accept(e, g)
  BY <1>3, AcceptEffect
<1>4. CASE \E e \in batch : Handle(e)
  BY <1>4, HandleEffect
<1>5. CASE Keep
  BY <1>5, KeepEffect
<1>6. CASE Close
  BY <1>6 DEF Close, CloseClear, CloseSocket, CloseEpoll, CloseAt
<1>7. CASE UNCHANGED vars \/ EpollWait \/ CloseBegin \/ Peers
  BY <1>7, PeersEffect DEF vars, EpollWait, CloseBegin
<1>8. CASE \/ Start \/ Check \/ CheckOpened \/ CallEpoll \/ EpollThrows
           \/ EpollTimeout \/ BatchDone \/ UseErased \/ WriteSigpipe
           \/ AddThrows \/ MapRaced \/ \E e \in batch : AcceptThrows(e)
  BY <1>8, LoopEffect
<1>9. CASE AddToEpoll \/ SetTimeouts
  BY <1>9, AcceptRestEffect
<1>10. CASE \E e \in batch : HandleStray(e)
  BY <1>10 DEF HandleStray
<1> QED
  BY <1>1, <1>2, <1>3, <1>4, <1>5, <1>6, <1>7, <1>8, <1>9, <1>10
  DEF Next, Run, AcceptRest

\* The server drops a connection only for what its peer did, or for what
\* m_events held at first.
THEOREM HealthyConnectionsKept == Spec => HealthyKept
<1>1. IInv /\ [Next]_vars =>
        [\A fd \in Fds :
          /\ closer = "idle"
          /\ connections[fd].st = "open" /\ connections'[fd].st # "open"
          => \/ connections[fd].bye \/ "err" \in connections[fd].junk
             \/ socks[fd].fin \/ socks[fd].rst]_vars
  BY KeptStep
<1> QED
  BY <1>1, Invariance, PTL DEF Spec, HealthyKept

=============================================================================
