-------------------------- MODULE HttpWorkerProofs --------------------------
(***************************************************************************)
(* Proofs about HttpWorker, for any number of descriptors and any sizes.   *)
(*                                                                         *)
(* With every fault of the peers, of epoll and of the clock: no event for  *)
(* a descriptor that is not a connection, and the coroutines used as       *)
(* their module allows.  NoPhantomEvent alone is not inductive:            *)
(* disconnectClient takes the connection of the event in hand out of the   *)
(* map, which is sound because the event is out of the batch by then,      *)
(* because nothing else of it is left in epoll (epoll watches open sockets *)
(* only, and open sockets are owned), and because timeouts run between     *)
(* batches.  OwnInv says so.                                               *)
(*                                                                         *)
(* Among peers that stay (~FaultyPeers): a request is kept and answered    *)
(* once.  ServeInv says that every connection then has a live coroutine of *)
(* its own, CountInv how far the bytes sent, buffered and written may be   *)
(* from one another.                                                       *)
(*                                                                         *)
(* Without timeouts, whatever the other peers do: nobody who stays is cut  *)
(* off.  Coroutines may then serve connections that are not theirs, so     *)
(* ServeInv is gone; DebtInv says of every coroutine that is going to      *)
(* close, whoever resumes it, that its peer has asked for its last         *)
(* response and has been written, or will have been, all of it.            *)
(***************************************************************************)
EXTENDS HttpWorker, TLAPS

OpenSocks == {fd \in Fds : socks[fd].open}

\* run() disconnects the descriptor whose event it has taken out of the batch.
LoopInv ==
    /\ pc \in {"drop", "wait"} => batch = {}
    /\ pc \in {"coro", "after"} => handling \in Fds /\ handling \notin batch

\* epoll watches open sockets only.
EpollInv == ready \subseteq interest /\ interest \subseteq OpenSocks

Shape ==
    /\ connections \in [Fds -> Connection]
    /\ DOMAIN socks = Fds
    /\ batch \subseteq Fds \union {Listen}

OwnInv == /\ Shape /\ LoopInv /\ EpollInv
          /\ NoPhantomEvent /\ SocketsOwned /\ IdleKnown

\* A nested EXCEPT is one update of the element.
LEMMA Twice ==
    ASSUME NEW f, NEW a, NEW v, NEW w
    PROVE  /\ [[f EXCEPT ![a] = v] EXCEPT ![a] = w] = [f EXCEPT ![a] = w]
           /\ a \in DOMAIN f => [f EXCEPT ![a] = v][a] = v
           /\ a \notin DOMAIN f => [f EXCEPT ![a] = v] = [f EXCEPT ![a] = w]
  OBVIOUS

\* What write() does to the socket: n bytes more are out of the program.
Wrote(f, a, n) == [f EXCEPT ![a].outq = @ + n, ![a].wrote = @ + n]

LEMMA TwoFields ==
    ASSUME NEW f, NEW a, NEW n
    PROVE  Wrote(f, a, n) =
              [f EXCEPT ![a] = [f[a] EXCEPT !.outq = @ + n, !.wrote = @ + n]]
  <1> DEFINE v == [f[a] EXCEPT !.outq = @ + n]
             u == [f EXCEPT ![a] = v]
             w == [u[a] EXCEPT !.wrote = u[a].wrote + n]
  <1>1. [u EXCEPT ![a] = w] = [f EXCEPT ![a] = w]
    <2> HIDE DEF v, w
    <2> QED BY Twice
  <1>2. a \in DOMAIN f => u[a] = v
    <2> HIDE DEF v
    <2> QED BY Twice
  <1> DEFINE x == [f[a] EXCEPT !.outq = f[a].outq + n, !.wrote = f[a].wrote + n]
  <1>3. a \in DOMAIN f => w = [v EXCEPT !.wrote = v.wrote + n]
    <2> HIDE DEF u, v
    <2> QED BY <1>2
  <1>5. [u EXCEPT ![a] = w] = [f EXCEPT ![a] = [v EXCEPT !.wrote = v.wrote + n]]
    <2> HIDE DEF w, u, v
    <2> QED BY <1>1, <1>3, Twice
  <1> QED BY <1>5 DEF Wrote

\* What the updates of a ConnectionAsync in place make of it.
LEMMA ConnectionUpdates ==
    ASSUME NEW c \in Connection
    PROVE  /\ [c EXCEPT !.buf = @ + 1] \in Connection
           /\ [c EXCEPT !.buf = 0] \in Connection
           /\ [c EXCEPT !.buf = 0, !.st = "closed"] \in Connection
  <1>1. [c EXCEPT !.buf = @ + 1] \in Connection
    BY DEF Connection
  <1>2. [c EXCEPT !.buf = 0] \in Connection
    BY DEF Connection
  <1>3. [c EXCEPT !.buf = 0, !.st = "closed"] \in Connection
    BY DEF Connection, ConnState
  <1> QED BY <1>1, <1>2, <1>3

\* connectionCallback's end leaves every connection in the map, and closes its
\* own socket or none (BaseHTTPServer.cpp:297-299 and 335).
LEMMA AnswerEffect ==
    ASSUME Shape, Answer
    PROVE  /\ connections' \in [Fds -> Connection] /\ DOMAIN socks' = Fds
           /\ \A fd \in Fds : fd # Own =>
                 connections'[fd] = connections[fd] /\ socks'[fd] = socks[fd]
           /\ \/ /\ UNCHANGED <<socks, ready, interest>>
                 /\ Own \in Fds => connections'[Own].st = connections[Own].st
              \/ /\ connections[Own].st = "open"
                 /\ interest' = interest \ {Own} /\ ready' = ready \ {Own}
                 /\ Own \in Fds => /\ connections'[Own].st = "closed"
                                   /\ ~socks'[Own].open
  <1>1. connections \in [Fds -> Connection] /\ DOMAIN socks = Fds
    BY DEF Shape
  <1>2. CASE Frm.keep \/ connections[Own].st # "open"
    <2>1. /\ connections' = [connections EXCEPT ![Own].buf = 0]
          /\ UNCHANGED <<socks, ready, interest>>
      BY <1>2 DEF Answer, epollVars
    <2>2. Own \in Fds =>
             /\ connections'[Own] = [connections[Own] EXCEPT !.buf = 0]
             /\ connections[Own] \in Connection
      BY <1>1, <2>1
    <2>3. Own \in Fds => connections'[Own] \in Connection
      BY <2>2, ConnectionUpdates
    <2>4. Own \in Fds => connections'[Own].st = connections[Own].st
      BY <2>2 DEF Connection
    <2>5. connections' \in [Fds -> Connection]
      BY <1>1, <2>1, <2>3
    <2>6. \A fd \in Fds : fd # Own => connections'[fd] = connections[fd]
      BY <1>1, <2>1
    <2> QED BY <1>1, <2>1, <2>4, <2>5, <2>6
  <1>3. CASE ~(Frm.keep \/ connections[Own].st # "open")
    <2>1. /\ connections' = [connections EXCEPT ![Own] =
                                 [@ EXCEPT !.buf = 0, !.st = "closed"]]
          /\ socks' = [socks EXCEPT ![Own] = NoSock]
          /\ interest' = interest \ {Own} /\ ready' = ready \ {Own}
          /\ connections[Own].st = "open"
      BY <1>3 DEF Answer, CloseSock
    <2>2. Own \in Fds =>
             /\ connections'[Own] =
                    [connections[Own] EXCEPT !.buf = 0, !.st = "closed"]
             /\ connections[Own] \in Connection
      BY <1>1, <2>1
    <2>3. Own \in Fds => connections'[Own] \in Connection
      BY <2>2, ConnectionUpdates
    <2>4. Own \in Fds => connections'[Own].st = "closed" /\ ~socks'[Own].open
      BY <1>1, <2>1, <2>2 DEF Connection, NoSock
    <2>5. connections' \in [Fds -> Connection] /\ DOMAIN socks' = Fds
      BY <1>1, <2>1, <2>3
    <2>6. \A fd \in Fds : fd # Own =>
              connections'[fd] = connections[fd] /\ socks'[fd] = socks[fd]
      BY <1>1, <2>1
    <2> QED BY <2>1, <2>4, <2>5, <2>6
  <1> QED BY <1>2, <1>3

LEMMA OwnInitial == Init => OwnInv
  BY ListenAssumption
  DEF Init, OwnInv, Shape, LoopInv, EpollInv, NoPhantomEvent, SocketsOwned,
      IdleKnown, OpenSocks, Present, NoSock, Absent, Connection, ConnState

\* The steps of a coroutine.
LEMMA CoroutineKeeps == ASSUME OwnInv, CoroutineStep PROVE OwnInv'
  <1> USE DEF OwnInv, Shape, LoopInv, EpollInv, NoPhantomEvent, SocketsOwned,
      IdleKnown, OpenSocks, Present, workVars, epollVars, kernelVars, loopVars
  <1>1. CASE ReadClosed
    BY <1>1 DEF ReadClosed, Runs, Throw, BackInResume
  <1>2. CASE ReadData
    <2>1. connections' \in [Fds -> Connection]
      <3>1. \A fd \in Fds : [connections[fd] EXCEPT !.buf = @ + 1] \in Connection
        BY ConnectionUpdates
      <3> QED BY <1>2, <3>1 DEF ReadData
    <2>2. \A fd \in Fds : /\ connections'[fd].st = connections[fd].st
                         /\ socks'[fd].open = socks[fd].open
      BY <1>2 DEF ReadData, Connection
    <2>3. DOMAIN socks' = Fds
      BY <1>2 DEF ReadData
    <2> QED BY <1>2, <2>1, <2>2, <2>3 DEF ReadData
  <1>3. CASE ReadEof
    <2>1. /\ connections[Own].st = "open"
          /\ connections' = [connections EXCEPT ![Own].st = "eof"]
      BY <1>3 DEF ReadEof
    <2>2. UNCHANGED <<socks, interest, ready, batch, idle, pc, handling>>
      BY <1>3 DEF ReadEof
    <2>3. connections' \in [Fds -> Connection]
      BY <2>1 DEF Connection, ConnState
    <2>4. \A fd \in Fds :
             /\ connections'[fd].st = "absent" <=> connections[fd].st = "absent"
             /\ connections'[fd].st \in {"open", "eof"}
                   <=> connections[fd].st \in {"open", "eof"}
      BY <2>1 DEF Connection
    <2> QED BY <2>2, <2>3, <2>4
  <1>4. CASE ReadError
    BY <1>4 DEF ReadError, Runs, Throw, BackInResume
  <1>5. CASE ReadAgain
    BY <1>5 DEF ReadAgain, Runs, YieldToLoop, BackInResume
  <1>6. CASE WriteClosed
    BY <1>6 DEF WriteClosed, Runs, Throw, BackInResume
  <1>7. CASE WriteData
    BY <1>7 DEF WriteData, Runs
  <1>8. CASE WriteAgain
    BY <1>8 DEF WriteAgain, Runs, YieldToLoop, BackInResume
  <1>9. CASE WriteReset
    BY <1>9 DEF WriteReset, Runs, Throw, BackInResume
  <1>10. CASE WriteSigpipe
    BY <1>10 DEF WriteSigpipe
  <1>11. CASE Answer
    <2>1. LoopInv' /\ batch' \subseteq batch
      BY <1>11 DEF Answer, Runs, BackInResume
    <2>2. UNCHANGED idle
      BY <1>11 DEF Answer
    <2>3. /\ connections' \in [Fds -> Connection] /\ DOMAIN socks' = Fds
          /\ \A fd \in Fds : fd # Own =>
                 connections'[fd] = connections[fd] /\ socks'[fd] = socks[fd]
      BY <1>11, AnswerEffect
    <2>4. CASE /\ UNCHANGED <<socks, ready, interest>>
               /\ Own \in Fds => connections'[Own].st = connections[Own].st
      <3>1. \A fd \in Fds : connections'[fd].st = connections[fd].st
        BY <2>3, <2>4
      <3> QED BY <2>1, <2>2, <2>3, <2>4, <3>1
    <2>5. CASE /\ connections[Own].st = "open"
               /\ interest' = interest \ {Own} /\ ready' = ready \ {Own}
               /\ Own \in Fds => /\ connections'[Own].st = "closed"
                                 /\ ~socks'[Own].open
      BY <2>1, <2>2, <2>3, <2>5
    <2> QED BY <1>11, <2>4, <2>5, AnswerEffect
  <1>12. CASE UseErased
    BY <1>12 DEF UseErased
  <1> QED BY <1>1, <1>2, <1>3, <1>4, <1>5, <1>6, <1>7, <1>8, <1>9, <1>10,
             <1>11, <1>12 DEF CoroutineStep

-----------------------------------------------------------------------------

\* disconnectClient takes one connection out of everything
\* (BaseHTTPServer.cpp:207-225).
LEMMA DisconnectEffect ==
    ASSUME OwnInv, NEW fd \in Fds, Disconnect(fd), Forget(fd)
    PROVE  /\ connections' \in [Fds -> Connection] /\ DOMAIN socks' = Fds
           /\ Present' = Present \ {fd} /\ idle' = idle \ {fd}
           /\ ready' \subseteq ready \ {fd}
           /\ EpollInv' /\ SocketsOwned'
  <1>1. /\ connections \in [Fds -> Connection] /\ DOMAIN socks = Fds
        /\ connections' = [connections EXCEPT ![fd] = Absent]
        /\ Absent \in Connection /\ Absent.st = "absent"
    BY DEF OwnInv, Shape, Disconnect, Absent, Connection, ConnState
  <1>2. /\ connections' \in [Fds -> Connection]
        /\ connections'[fd].st = "absent"
        /\ \A g \in Fds : g # fd => connections'[g] = connections[g]
    BY <1>1
  <1>3. Present' = Present \ {fd}
    BY <1>2 DEF Present
  <1>4. idle' = idle \ {fd}
    BY DEF Forget
  <1>5. /\ DOMAIN socks' = Fds /\ ~socks'[fd].open
        /\ \A g \in Fds : g # fd => socks'[g] = socks[g]
        /\ ready' \subseteq ready \ {fd} /\ interest' \subseteq interest \ {fd}
        /\ ready' \subseteq interest'
    <2>1. CASE connections[fd].st \in {"open", "eof"}
      BY <1>1, <2>1 DEF Disconnect, CloseSock, NoSock, OwnInv, EpollInv
    <2>2. CASE connections[fd].st \notin {"open", "eof"}
      BY <1>1, <2>2
      DEF Disconnect, epollVars, OwnInv, EpollInv, SocketsOwned, OpenSocks
    <2> QED BY <2>1, <2>2
  <1>6. EpollInv'
    BY <1>5 DEF OwnInv, EpollInv, OpenSocks
  <1>7. SocketsOwned'
    BY <1>2, <1>5 DEF OwnInv, SocketsOwned
  <1> QED BY <1>2, <1>3, <1>4, <1>5, <1>6, <1>7

\* accept() of a number that is not in the map (BaseHTTPServer.cpp:119).
LEMMA AcceptEffect ==
    ASSUME OwnInv, NEW fd \in Fds, fd \notin Present,
           connections' = [connections EXCEPT ![fd] = Opened],
           NEW parts \in Early, NEW last \in BOOLEAN,
           socks' = [socks EXCEPT ![fd] = Accepted(parts, last)]
    PROVE  /\ connections' \in [Fds -> Connection] /\ DOMAIN socks' = Fds
           /\ Present' = Present \union {fd}
           /\ OpenSocks' = OpenSocks \union {fd}
           /\ SocketsOwned'
  <1>1. /\ connections \in [Fds -> Connection] /\ DOMAIN socks = Fds
        /\ Opened \in Connection /\ Opened.st = "open"
    BY DEF OwnInv, Shape, Opened, Connection, ConnState
  <1>2. Accepted(parts, last).open
    BY DEF Accepted, NoSock
  <1>3. /\ connections' \in [Fds -> Connection] /\ DOMAIN socks' = Fds
        /\ connections'[fd].st = "open" /\ socks'[fd].open
        /\ \A g \in Fds : g # fd =>
              connections'[g] = connections[g] /\ socks'[g] = socks[g]
    BY <1>1, <1>2
  <1> QED BY <1>3 DEF Present, OpenSocks, OwnInv, SocketsOwned

\* The steps of run().
LEMMA LoopKeeps == ASSUME OwnInv, LoopStep PROVE OwnInv'
  <1> USE DEF OwnInv, Shape, workVars, epollVars, kernelVars, loopVars
  <1>1. ASSUME NEW fd \in Fds, DropExpired(fd) PROVE OwnInv'
    <2>1. /\ Disconnect(fd) /\ Forget(fd) /\ batch = {}
          /\ UNCHANGED <<pc, handling, batch>>
      BY <1>1 DEF DropExpired, LoopInv
    <2>2. LoopInv'
      BY <2>1 DEF LoopInv
    <2> QED BY <2>1, <2>2, DisconnectEffect DEF NoPhantomEvent, IdleKnown
  <1>2. CASE DropDone \/ BatchDone
    BY <1>2 DEF DropDone, BatchDone, LoopInv, EpollInv, OpenSocks,
                NoPhantomEvent, SocketsOwned, IdleKnown, Present
  <1>3. CASE EpollWait \/ EpollTimeout
    <2>1. /\ UNCHANGED <<connections, socks, idle, interest, handling>>
          /\ ready' = {} /\ batch' \subseteq ready \union {Listen} \union batch
          /\ LoopInv'
      BY <1>3 DEF EpollWait, EpollTimeout, Delivered, LoopInv
    <2>2. ready \subseteq Fds
      BY DEF EpollInv, OpenSocks
    <2> QED BY <2>1, <2>2 DEF EpollInv, OpenSocks, NoPhantomEvent,
                              SocketsOwned, IdleKnown, Present
  <1>4. CASE AcceptFails
    BY <1>4 DEF AcceptFails, LoopInv, EpollInv, OpenSocks,
                NoPhantomEvent, SocketsOwned, IdleKnown, Present
  <1>5. ASSUME NEW fd \in Fds, AcceptStale(fd) PROVE OwnInv'
    BY <1>5 DEF AcceptStale, AcceptThrows, LoopInv, EpollInv, OpenSocks,
                NoPhantomEvent, SocketsOwned, IdleKnown, Present
  <1>6. ASSUME NEW fd \in Fds, AcceptNoEpoll(fd) PROVE OwnInv'
    <2>1. /\ connections' \in [Fds -> Connection] /\ DOMAIN socks' = Fds
          /\ Present' = Present \union {fd}
          /\ OpenSocks' = OpenSocks \union {fd} /\ SocketsOwned'
      BY <1>6, AcceptEffect DEF AcceptNoEpoll
    <2>2. /\ UNCHANGED <<idle, ready, interest>>
          /\ pc' = "drop" /\ batch' = {}
      BY <1>6 DEF AcceptNoEpoll, AcceptThrows
    <2> QED BY <2>1, <2>2 DEF LoopInv, EpollInv, NoPhantomEvent, IdleKnown
  <1>7. ASSUME NEW fd \in Fds, Accept(fd) PROVE OwnInv'
    <2>1. /\ connections' \in [Fds -> Connection] /\ DOMAIN socks' = Fds
          /\ Present' = Present \union {fd}
          /\ OpenSocks' = OpenSocks \union {fd} /\ SocketsOwned'
      BY <1>7, AcceptEffect DEF Accept
    <2>2. /\ interest' = interest \union {fd} /\ ready' = ready \union {fd}
          /\ batch' = batch \ {Listen} /\ pc = "batch" /\ UNCHANGED pc
          /\ idle' \subseteq idle \union {fd}
      BY <1>7 DEF Accept, Accepting, Stamp
    <2> QED BY <2>1, <2>2 DEF LoopInv, EpollInv, NoPhantomEvent, IdleKnown
  <1>8. ASSUME NEW fd \in Fds, HandleConnection(fd) PROVE OwnInv'
    <2>1. /\ UNCHANGED <<connections, socks, idle, interest, ready>>
          /\ batch' = batch \ {fd} /\ handling' = fd
          /\ pc' \in {"coro", "after"}
      BY <1>8 DEF HandleConnection
    <2> QED BY <2>1 DEF LoopInv, EpollInv, OpenSocks, NoPhantomEvent,
                        SocketsOwned, IdleKnown, Present
  <1>9. CASE AfterClosed
    <2>1. /\ Disconnect(handling) /\ Forget(handling)
          /\ handling \in Fds /\ handling \notin batch
          /\ pc' = "batch" /\ UNCHANGED batch
      BY <1>9 DEF AfterClosed, LoopInv
    <2>2. LoopInv'
      BY <2>1 DEF LoopInv
    <2> QED BY <2>1, <2>2, DisconnectEffect DEF NoPhantomEvent, IdleKnown
  <1>10. CASE AfterOpen
    <2>1. /\ UNCHANGED <<connections, socks, interest, ready, batch>>
          /\ pc' = "batch" /\ handling \in idle /\ idle' \subseteq idle
      BY <1>10 DEF AfterOpen, Stamp
    <2> QED BY <2>1 DEF LoopInv, EpollInv, OpenSocks, NoPhantomEvent,
                        SocketsOwned, IdleKnown, Present
  <1>11. CASE AfterUntimed
    BY <1>11 DEF AfterUntimed, LoopInv, EpollInv, OpenSocks,
                 NoPhantomEvent, SocketsOwned, IdleKnown, Present
  <1> QED BY <1>1, <1>2, <1>3, <1>4, <1>5, <1>6, <1>7, <1>8, <1>9, <1>10,
             <1>11 DEF LoopStep

\* The steps of peers, of other threads and of time.
LEMMA EnvironmentKeeps == ASSUME OwnInv, Environment PROVE OwnInv'
  <1> USE DEF OwnInv, Shape, LoopInv, EpollInv, NoPhantomEvent, SocketsOwned,
      IdleKnown, OpenSocks, Present, workVars, epollVars, kernelVars, loopVars
  <1>1. CASE PeerConnect \/ OtherThreadAccepts
    BY <1>1 DEF PeerConnect, OtherThreadAccepts
  <1>2. ASSUME NEW fd \in Fds, PeerSend(fd) PROVE OwnInv'
    BY <1>2 DEF PeerSend, Peer, Wake
  <1>3. ASSUME NEW fd \in Fds, PeerReceive(fd) PROVE OwnInv'
    BY <1>3 DEF PeerReceive, Wake
  <1>4. ASSUME NEW fd \in Fds, PeerShutdown(fd) PROVE OwnInv'
    BY <1>4 DEF PeerShutdown, Peer, Wake
  <1>5. ASSUME NEW fd \in Fds, PeerReset(fd) PROVE OwnInv'
    BY <1>5 DEF PeerReset, Peer, Wake
  <1>6. ASSUME NEW fd \in Fds, Expire(fd) PROVE OwnInv'
    BY <1>6 DEF Expire
  <1> QED BY <1>1, <1>2, <1>3, <1>4, <1>5, <1>6 DEF Environment

\* Every step keeps the invariant.
LEMMA OwnStep == OwnInv /\ [Next]_vars => OwnInv'
  <1>1. CASE UNCHANGED vars
    BY <1>1 DEF vars, workVars, epollVars, kernelVars, loopVars, OwnInv, Shape,
                LoopInv, EpollInv, NoPhantomEvent, SocketsOwned, IdleKnown,
                OpenSocks, Present
  <1> QED BY <1>1, CoroutineKeeps, LoopKeeps, EnvironmentKeeps DEF Next, Worker

\* The bookkeeping of the worker holds in every reachable state.
THEOREM OwnInvariant == Spec => []OwnInv
  <1>1. Init => OwnInv
    BY OwnInitial
  <1>2. OwnInv /\ [Next]_vars => OwnInv'
    BY OwnStep
  <1> QED BY <1>1, <1>2, PTL DEF Spec

\* No event is handled for a connection that m_connections does not have
\* (BaseHTTPServer.cpp:162 default-constructs one otherwise).
THEOREM EventsAreKnown == Spec => []NoPhantomEvent
  BY OwnInvariant, PTL DEF OwnInv

\* Every accepted socket is owned by the map's entry of its number, and is
\* closed when that entry gives it up.
THEOREM NoSocketLeaks == Spec => []SocketsOwned
  BY OwnInvariant, PTL DEF OwnInv

\* m_idleTime names present connections only (BaseHTTPServer.cpp:198).
THEOREM TimeoutsAreKnown == Spec => []IdleKnown
  BY OwnInvariant, PTL DEF OwnInv

-----------------------------------------------------------------------------
(* The worker implements the coroutine pool's specification. *)

PoolStep == Co!CoNext \/ UNCHANGED coVars

\* What the worker does to the pool, one call at a time.
LEMMA PoolCalls ==
    /\ \A fd \in Fds : CreateFor(fd) => PoolStep
    /\ \A id : Co!Resume(id) \/ Co!ResumeEnded(id) => PoolStep
    /\ Throw \/ YieldToLoop \/ Co!Finish(FALSE) \/ Co!Leave => PoolStep
  <1>1. \A fd \in Fds : CreateFor(fd) => PoolStep
    BY DEF CreateFor, PoolStep, Co!CoNext
  <1>2. ASSUME NEW id, Co!Resume(id) \/ Co!ResumeEnded(id) PROVE PoolStep
    <2>1. id \in Co!Ids
      BY <1>2 DEF Co!Resume, Co!ResumeEnded, Co!Refuses
    <2> QED BY <1>2, <2>1 DEF PoolStep, Co!CoNext
  <1>3. Throw \/ YieldToLoop \/ Co!Finish(FALSE) \/ Co!Leave => PoolStep
    BY DEF Throw, YieldToLoop, PoolStep, Co!CoNext
  <1> QED BY <1>1, <1>2, <1>3

\* Every step of the worker is a step of the pool or leaves it alone.
LEMMA PoolRefined == OwnInv /\ [Next]_vars => [Co!CoNext]_(Co!coVars)
  <1> SUFFICES ASSUME OwnInv, [Next]_vars PROVE PoolStep
    BY DEF PoolStep, coVars, Co!coVars
  <1>1. CASE UNCHANGED vars
    BY <1>1 DEF vars, PoolStep
  <1>2. CASE CoroutineStep
    BY <1>2, PoolCalls
    DEF CoroutineStep, PoolStep, ReadClosed, ReadData, ReadEof, ReadError, ReadAgain,
        WriteClosed, WriteData, WriteAgain, WriteReset, WriteSigpipe, Answer,
        UseErased, Undefined
  <1>3. CASE LoopStep
    <2>1. ASSUME NEW fd \in Fds,
                 DropExpired(fd) \/ AcceptStale(fd) \/ AcceptNoEpoll(fd)
                 \/ Accept(fd) \/ HandleConnection(fd)
          PROVE  PoolStep
      BY <2>1, PoolCalls DEF DropExpired, AcceptStale, AcceptNoEpoll, Accept,
                             HandleConnection, PoolStep
    <2>2. CASE DropDone \/ EpollWait \/ EpollTimeout \/ BatchDone \/ AcceptFails
      BY <2>2 DEF DropDone, EpollWait, EpollTimeout, BatchDone, AcceptFails, PoolStep
    <2>3. CASE AfterClosed \/ AfterUntimed
      BY <2>3, PoolCalls DEF AfterClosed, AfterUntimed, Undefined, PoolStep
    <2>4. CASE AfterOpen
      <3>1. handling \in Fds
        BY <2>4 DEF AfterOpen, OwnInv, LoopInv
      <3> QED BY <2>4, <3>1, PoolCalls DEF AfterOpen, PoolStep
    <2> QED BY <1>3, <2>1, <2>2, <2>3, <2>4 DEF LoopStep
  <1>4. CASE Environment
    BY <1>4 DEF Environment, PeerConnect, OtherThreadAccepts, PeerSend, Peer,
                PeerReceive, PeerShutdown, PeerReset, Expire, PoolStep
  <1> QED BY <1>1, <1>2, <1>3, <1>4 DEF Next, Worker

\* ThreadWork and connectionCallback use the coroutine pool only in the ways
\* that Coroutine allows, so all that is proved there holds here.
THEOREM PoolRefinement == Spec => CoSpec
  <1>1. Init => Co!CoInit
    BY DEF Init
  <1>2. OwnInv /\ [Next]_vars => [Co!CoNext]_(Co!coVars)
    BY PoolRefined
  <1> QED BY <1>1, <1>2, OwnInvariant, PTL DEF Spec, CoSpec, Co!CoSpec

-----------------------------------------------------------------------------
(* The idle times, without failures of epoll and of the clock. *)

\* If addToEpoll never throws and no two stamps are equal, every step keeps an
\* idle time for each connection.
LEMMA IdleStep ==
    ASSUME ~EpollAddMayFail, ~ClockMayStall, OwnInv, IdleTracksConnections,
           [Next]_vars
    PROVE  IdleTracksConnections'
  <1>1. CASE UNCHANGED vars
    BY <1>1 DEF vars, workVars, IdleTracksConnections, Present
  <1>2. CASE CoroutineStep
    <2>1. UNCHANGED idle
      BY <1>2 DEF CoroutineStep, workVars, ReadClosed, ReadData, ReadEof, ReadError,
         ReadAgain, WriteClosed, WriteData, WriteAgain, WriteReset, WriteSigpipe,
         Answer, UseErased
    <2>2. Present' = Present
      <3>1. CASE ReadData
        BY <3>1 DEF ReadData, Present, OwnInv, Shape, Connection
      <3>2. CASE ReadEof
        BY <3>2 DEF ReadEof, Present, OwnInv, Shape, Connection
      <3>3. CASE Answer
        <4>1. \A fd \in Fds : connections'[fd].st = "absent"
                                <=> connections[fd].st = "absent"
          BY <3>3, AnswerEffect DEF OwnInv
        <4> QED BY <4>1 DEF Present
      <3>4. CASE ~(ReadData \/ ReadEof \/ Answer)
        BY <1>2, <3>4 DEF CoroutineStep, workVars, ReadClosed, ReadError, ReadAgain,
           WriteClosed, WriteData, WriteAgain, WriteReset, WriteSigpipe,
           UseErased, Present
      <3> QED BY <3>1, <3>2, <3>3, <3>4
    <2> QED BY <2>1, <2>2 DEF IdleTracksConnections
  <1>3. CASE LoopStep
    <2>1. ASSUME NEW fd \in Fds, DropExpired(fd) PROVE IdleTracksConnections'
      BY <2>1, DisconnectEffect DEF DropExpired, IdleTracksConnections
    <2>2. ASSUME NEW fd \in Fds, Accept(fd) PROVE IdleTracksConnections'
      <3>1. Present' = Present \union {fd}
        BY <2>2, AcceptEffect DEF Accept
      <3>2. idle' = idle \union {fd}
        BY <2>2 DEF Accept, Stamp
      <3> QED BY <3>1, <3>2 DEF IdleTracksConnections
    <2>3. CASE AfterClosed
      <3>1. handling \in Fds /\ Disconnect(handling) /\ Forget(handling)
        BY <2>3 DEF AfterClosed, OwnInv, LoopInv
      <3> QED BY <3>1, DisconnectEffect DEF IdleTracksConnections
    <2>4. CASE AfterOpen
      <3>1. idle' = idle \union {handling} /\ handling \in idle
            /\ UNCHANGED connections
        BY <2>4 DEF AfterOpen, Stamp
      <3> QED BY <3>1 DEF IdleTracksConnections, Present
    <2>5. CASE UNCHANGED <<idle, connections>>
      BY <2>5 DEF IdleTracksConnections, Present
    <2>6. ASSUME NEW fd \in Fds, AcceptStale(fd) \/ AcceptNoEpoll(fd)
                                    \/ HandleConnection(fd)
          PROVE  UNCHANGED <<idle, connections>>
      BY <2>6 DEF AcceptStale, AcceptNoEpoll, HandleConnection, workVars
    <2>7. CASE DropDone \/ EpollWait \/ EpollTimeout \/ BatchDone
               \/ AcceptFails \/ AfterUntimed
      BY <2>5, <2>7 DEF DropDone, EpollWait, EpollTimeout, BatchDone,
                        AcceptFails, AfterUntimed, workVars
    <2> QED BY <1>3, <2>1, <2>2, <2>3, <2>4, <2>5, <2>6, <2>7 DEF LoopStep
  <1>4. CASE Environment
    BY <1>4 DEF Environment, PeerConnect, OtherThreadAccepts, PeerSend, Peer,
                PeerReceive, PeerShutdown, PeerReset, Expire, workVars,
                IdleTracksConnections, Present
  <1> QED BY <1>1, <1>2, <1>3, <1>4 DEF Next, Worker

\* Every connection can time out, and the erase(find_if(...)) of
\* disconnectClient and of resetConnectionTime finds an element
\* (BaseHTTPServer.cpp:180-187 and 215-222).
THEOREM IdleTracked ==
    ASSUME ~EpollAddMayFail, ~ClockMayStall
    PROVE  Spec => []IdleTracksConnections
  <1>1. Init => IdleTracksConnections
    BY DEF Init, IdleTracksConnections, Present, Absent
  <1>2. OwnInv /\ IdleTracksConnections /\ [Next]_vars => IdleTracksConnections'
    BY IdleStep
  <1> QED BY <1>1, <1>2, OwnInvariant, PTL DEF Spec

-----------------------------------------------------------------------------
(* Types *)

Pool == INSTANCE CoroutineProofs WITH Jobs <- Fds

\* The types that only the worker and the peers can break.
WorkerTypes ==
    /\ frames \in [1 .. MaxRoutines -> Frame]
    /\ coroutines \in [Fds -> 0 .. MaxRoutines]
    /\ idle \subseteq Fds /\ older \subseteq idle \X idle
    /\ expired \subseteq idle
    /\ pc \in {"drop", "wait", "batch", "coro", "after"}
    /\ handling \in Fds \union {Listen}
    /\ socks \in [Fds -> Sock]
    /\ backlog \in Nat /\ connects \in Nat

\* m_idleTime stays an order of its own elements.
LEMMA IdleTypes ==
    ASSUME NEW fd \in Fds, Forget(fd) \/ Stamp(fd),
           idle \subseteq Fds, older \subseteq idle \X idle, expired \subseteq idle
    PROVE  idle' \subseteq Fds /\ older' \subseteq idle' \X idle'
           /\ expired' \subseteq idle'
  <1>1. CASE Forget(fd)
    BY <1>1 DEF Forget
  <1>2. CASE Stamp(fd)
    BY <1>2 DEF Stamp
  <1> QED BY <1>1, <1>2

\* create() for a connection: the new routine's id is within the bound.
LEMMA CreateTypes ==
    ASSUME NEW fd, CreateFor(fd), frames \in [1 .. MaxRoutines -> Frame],
           coroutines \in [Fds -> 0 .. MaxRoutines]
    PROVE  /\ frames' \in [1 .. MaxRoutines -> Frame]
           /\ coroutines' \in [Fds -> 0 .. MaxRoutines]
  <1>1. NewFrame \in Frame /\ MaxRoutines \in Nat
    BY BoundsAssumption DEF NewFrame, Frame
  <1>2. PICK id \in 1 .. MaxRoutines :
              /\ frames' = [frames EXCEPT ![id] = NewFrame]
              /\ coroutines' = [coroutines EXCEPT ![fd] = id]
    BY DEF CreateFor
  <1>3. id \in 0 .. MaxRoutines
    BY <1>1
  <1>4. frames' \in [1 .. MaxRoutines -> Frame]
    BY <1>1, <1>2
  <1>5. coroutines' \in [Fds -> 0 .. MaxRoutines]
    BY <1>2, <1>3
  <1> QED BY <1>4, <1>5

\* The pool of the proofs is the worker's.
LEMMA SamePool ==
    /\ Co!CoInit <=> Pool!CoInit
    /\ [Co!CoNext]_(Co!coVars) <=> [Pool!CoNext]_(Pool!coVars)
    /\ Co!CoTypeOK <=> Pool!CoTypeOK
  <1>1. Co!CoInit <=> Pool!CoInit
    BY DEF Co!CoInit, Pool!CoInit
  <1>2. Co!Ids = Pool!Ids /\ \A j, m : Co!NewRoutine(j, m) = Pool!NewRoutine(j, m)
    BY DEF Co!Ids, Pool!Ids, Co!NewRoutine, Pool!NewRoutine
  <1>3. \A j, id : Co!Recycle(j, id) <=> Pool!Recycle(j, id)
    BY <1>2 DEF Co!Recycle, Pool!Recycle
  <1>4. \A j : Co!EmplaceBack(j) <=> Pool!EmplaceBack(j)
    BY <1>2 DEF Co!EmplaceBack, Pool!EmplaceBack, Co!Reallocates, Pool!Reallocates,
                Co!Moved, Pool!Moved
  <1>5. \A j, id : Co!Create(j, id) <=> Pool!Create(j, id)
    BY <1>3, <1>4 DEF Co!Create, Pool!Create
  <1>6. \A id : /\ Co!Resume(id) <=> Pool!Resume(id)
                /\ Co!ResumeEnded(id) <=> Pool!ResumeEnded(id)
    BY <1>2 DEF Co!Resume, Pool!Resume, Co!Refuses, Pool!Refuses,
                Co!ResumeEnded, Pool!ResumeEnded
  <1>7. Co!Yield <=> Pool!Yield
    BY DEF Co!Yield, Pool!Yield
  <1>8. \A t : Co!Finish(t) <=> Pool!Finish(t)
    BY DEF Co!Finish, Pool!Finish
  <1>9. Co!Leave <=> Pool!Leave
    BY DEF Co!Leave, Pool!Leave, Co!Fate, Pool!Fate
  <1>10. [Co!CoNext]_(Co!coVars) <=> [Pool!CoNext]_(Pool!coVars)
    BY <1>2, <1>5, <1>6, <1>7, <1>8, <1>9
    DEF Co!CoNext, Pool!CoNext, Co!coVars, Pool!coVars
  <1>11. Co!CoTypeOK <=> Pool!CoTypeOK
    BY DEF Co!CoTypeOK, Pool!CoTypeOK, Co!Routine, Pool!Routine, Co!Phase,
           Pool!Phase, Co!Fate, Pool!Fate
  <1> QED BY <1>1, <1>10, <1>11

\* The pool's types hold in the worker.
LEMMA PoolTyped == Spec => []Co!CoTypeOK
  <1>1. CoSpec => Pool!CoSpec
    BY SamePool, PTL DEF CoSpec, Co!CoSpec, Pool!CoSpec
  <1>2. Pool!CoSpec => []Pool!CoTypeOK
    BY Pool!CoTypeCorrect, BoundsAssumption
  <1> QED BY <1>1, <1>2, PoolRefinement, SamePool, PTL

\* What coroutines and peers do to a socket keeps its type.
LEMMA SockUpdates ==
    ASSUME NEW s \in Sock
    PROVE  /\ NoSock \in Sock
           /\ \A p \in Nat, l \in BOOLEAN : Accepted(p, l) \in Sock
           /\ s.inq > 0 => [s EXCEPT !.inq = @ - 1] \in Sock
           /\ s.outq > 0 => [s EXCEPT !.outq = @ - 1, !.nospace = FALSE] \in Sock
           /\ [s EXCEPT !.rst = "taken"] \in Sock
           /\ \A n \in Nat : [s EXCEPT !.outq = @ + n, !.wrote = @ + n] \in Sock
           /\ [s EXCEPT !.nospace = TRUE] \in Sock
           /\ \A l \in BOOLEAN :
                 [s EXCEPT !.inq = @ + 1, !.sent = @ + 1, !.last = l] \in Sock
           /\ [s EXCEPT !.fin = TRUE] \in Sock
           /\ [s EXCEPT !.rst = "pending", !.outq = 0] \in Sock
  <1>1. NoSock \in Sock
    BY DEF NoSock, Sock
  <1>2. \A p \in Nat, l \in BOOLEAN : Accepted(p, l) \in Sock
    BY <1>1 DEF Accepted, Sock
  <1>3. s.inq > 0 => [s EXCEPT !.inq = @ - 1] \in Sock
    BY DEF Sock
  <1>4. ASSUME s.outq > 0
        PROVE  [s EXCEPT !.outq = @ - 1, !.nospace = FALSE] \in Sock
    <2>1. s.outq - 1 \in Nat
      BY <1>4 DEF Sock
    <2> QED BY <2>1 DEF Sock
  <1>5. [s EXCEPT !.rst = "taken"] \in Sock
    BY DEF Sock
  <1>6. ASSUME NEW n \in Nat
        PROVE  [s EXCEPT !.outq = @ + n, !.wrote = @ + n] \in Sock
    <2>1. s.outq + n \in Nat /\ s.wrote + n \in Nat
      BY DEF Sock
    <2> QED BY <2>1 DEF Sock
  <1>7. [s EXCEPT !.nospace = TRUE] \in Sock
    BY DEF Sock
  <1>8. ASSUME NEW l \in BOOLEAN
        PROVE  [s EXCEPT !.inq = @ + 1, !.sent = @ + 1, !.last = l] \in Sock
    <2>1. s.inq + 1 \in Nat /\ s.sent + 1 \in Nat
      BY DEF Sock
    <2> QED BY <2>1 DEF Sock
  <1>9. [s EXCEPT !.fin = TRUE] \in Sock
    BY DEF Sock
  <1>10. [s EXCEPT !.rst = "pending", !.outq = 0] \in Sock
    BY DEF Sock
  <1> QED BY <1>1, <1>2, <1>3, <1>4, <1>5, <1>6, <1>7, <1>8, <1>9, <1>10

\* Putting a socket in its place keeps the table well-typed.
LEMMA SockTable ==
    ASSUME socks \in [Fds -> Sock], NEW fd, NEW s,
           fd \in Fds => s \in Sock, socks' = [socks EXCEPT ![fd] = s]
    PROVE  socks' \in [Fds -> Sock]
  OBVIOUS

\* The sockets' types under the steps of a coroutine.
LEMMA CoroutineSocks ==
    ASSUME socks \in [Fds -> Sock], CoroutineStep
    PROVE  socks' \in [Fds -> Sock]
  <1> DEFINE s == socks[Own]
  <1>0. Own \in Fds => s \in Sock
    OBVIOUS
  <1>1. CASE ReadData
    <2>1. socks' = [socks EXCEPT ![Own] = [s EXCEPT !.inq = @ - 1]] /\ s.inq # 0
      BY <1>1 DEF ReadData, Drained
    <2>2. Own \in Fds => [s EXCEPT !.inq = @ - 1] \in Sock
      <3>1. Own \in Fds => s.inq > 0
        BY <1>0, <2>1 DEF Sock
      <3> QED BY <1>0, <3>1, SockUpdates
    <2> QED BY <2>1, <2>2, SockTable
  <1>2. CASE ReadError \/ WriteReset
    <2>1. socks' = [socks EXCEPT ![Own] = [s EXCEPT !.rst = "taken"]]
      BY <1>2 DEF ReadError, WriteReset
    <2>2. Own \in Fds => [s EXCEPT !.rst = "taken"] \in Sock
      BY <1>0, SockUpdates
    <2> QED BY <2>1, <2>2, SockTable
  <1>3. CASE WriteData
    <2>1. PICK n \in 1 .. RespParts : socks' = [socks EXCEPT ![Own] =
                               [s EXCEPT !.outq = @ + n, !.wrote = @ + n]]
      <3>1. \E n \in 1 .. RespParts : socks' =
                [socks EXCEPT ![Own].outq = @ + n, ![Own].wrote = @ + n]
        BY <1>3 DEF WriteData
      <3> QED BY <3>1
    <2>2. Own \in Fds => [s EXCEPT !.outq = @ + n, !.wrote = @ + n] \in Sock
      <3>1. n \in Nat
        BY BoundsAssumption
      <3> QED BY <1>0, <3>1, SockUpdates
    <2> QED BY <2>1, <2>2, SockTable
  <1>4. CASE WriteAgain
    <2>1. socks' = [socks EXCEPT ![Own] = [s EXCEPT !.nospace = TRUE]]
      BY <1>4 DEF WriteAgain
    <2>2. Own \in Fds => [s EXCEPT !.nospace = TRUE] \in Sock
      BY <1>0, SockUpdates
    <2> QED BY <2>1, <2>2, SockTable
  <1>5. CASE Answer
    <2>1. UNCHANGED socks \/ socks' = [socks EXCEPT ![Own] = NoSock]
      BY <1>5 DEF Answer, CloseSock
    <2>2. NoSock \in Sock
      BY DEF NoSock, Sock
    <2> QED BY <2>1, <2>2, SockTable
  <1>6. CASE ReadClosed \/ ReadEof \/ ReadAgain \/ WriteClosed \/ WriteSigpipe
             \/ UseErased
    BY <1>6 DEF ReadClosed, ReadEof, ReadAgain, WriteClosed, WriteSigpipe,
                UseErased, kernelVars
  <1> QED BY <1>1, <1>2, <1>3, <1>4, <1>5, <1>6 DEF CoroutineStep

\* What a coroutine's steps do to its own frame.
LEMMA FrameUpdates ==
    ASSUME NEW f \in Frame
    PROVE  /\ [f EXCEPT !.live = FALSE] \in Frame
           /\ \A k \in BOOLEAN : [f EXCEPT !.pc = "write", !.left = RespParts,
                                          !.keep = k] \in Frame
           /\ \A n \in Nat : n <= f.left => [f EXCEPT !.left = @ - n] \in Frame
  <1>1. [f EXCEPT !.live = FALSE] \in Frame
    BY DEF Frame
  <1>2. ASSUME NEW k \in BOOLEAN
        PROVE  [f EXCEPT !.pc = "write", !.left = RespParts, !.keep = k] \in Frame
    BY BoundsAssumption DEF Frame
  <1>3. ASSUME NEW n \in Nat, n <= f.left
        PROVE  [f EXCEPT !.left = @ - n] \in Frame
    <2>1. f.left - n \in Nat
      BY <1>3 DEF Frame
    <2> QED BY <2>1 DEF Frame
  <1> QED BY <1>1, <1>2, <1>3

\* The frames' types under the steps of a coroutine.
LEMMA CoroutineFrames ==
    ASSUME frames \in [1 .. MaxRoutines -> Frame], CoroutineStep
    PROVE  frames' \in [1 .. MaxRoutines -> Frame]
  <1> DEFINE f == frames[current]
  <1>0. current \in 1 .. MaxRoutines => f \in Frame
    OBVIOUS
  <1>1. CASE ReadAgain
    <2>1. PICK k \in BOOLEAN :
             \/ UNCHANGED frames
             \/ frames' = [frames EXCEPT ![current] = [f EXCEPT
                    !.pc = "write", !.left = RespParts, !.keep = k]]
      <3>1. (~socks[Own].last) = TRUE \/ (~socks[Own].last) = FALSE
        BY Zenon
      <3> QED BY <1>1, <3>1 DEF ReadAgain
    <2>2. current \in 1 .. MaxRoutines => [f EXCEPT
                    !.pc = "write", !.left = RespParts, !.keep = k] \in Frame
      BY <1>0, FrameUpdates
    <2> QED BY <2>1, <2>2
  <1>2. CASE WriteData
    <2>1. PICK n \in 1 .. RespParts :
             /\ n = f.left \/ n < f.left
             /\ frames' = [frames EXCEPT ![current].left = Remaining(@, n)]
      BY <1>2 DEF WriteData, Frm
    <2>2. frames' = [frames EXCEPT ![current] = [f EXCEPT !.left = @ - n]]
      BY <2>1 DEF Remaining
    <2>3. current \in 1 .. MaxRoutines => [f EXCEPT !.left = @ - n] \in Frame
      <3>1. n \in Nat
        BY BoundsAssumption
      <3>2. current \in 1 .. MaxRoutines => n <= f.left
        BY <1>0, <2>1, <3>1 DEF Frame
      <3> QED BY <1>0, <3>1, <3>2, FrameUpdates
    <2> QED BY <2>2, <2>3
  <1>3. CASE ReadClosed \/ ReadData \/ ReadEof \/ ReadError \/ WriteClosed
             \/ WriteAgain \/ WriteReset \/ WriteSigpipe \/ Answer \/ UseErased
    BY <1>3 DEF ReadClosed, ReadData, ReadEof, ReadError, WriteClosed, WriteAgain,
                WriteReset, WriteSigpipe, Answer, UseErased
  <1> QED BY <1>1, <1>2, <1>3 DEF CoroutineStep

\* The steps of a coroutine keep the worker's types.
LEMMA CoroutineTypes ==
    ASSUME WorkerTypes, CoroutineStep PROVE WorkerTypes'
  <1>1. frames' \in [1 .. MaxRoutines -> Frame]
    BY CoroutineFrames DEF WorkerTypes
  <1>2. socks' \in [Fds -> Sock]
    BY CoroutineSocks DEF WorkerTypes
  <1>3. UNCHANGED <<coroutines, idle, older, expired, backlog, connects>>
    BY DEF CoroutineStep, workVars, loopVars, kernelVars, BackInResume, Throw,
           YieldToLoop, ReadClosed, ReadData, ReadEof, ReadError, ReadAgain,
           WriteClosed, WriteData, WriteAgain, WriteReset, WriteSigpipe, Answer,
           UseErased
  <1>4. /\ pc' \in {"drop", "after"} \/ UNCHANGED pc
        /\ handling' = Listen \/ UNCHANGED handling
    BY DEF CoroutineStep, loopVars, BackInResume, Throw,
           YieldToLoop, ReadClosed, ReadData, ReadEof, ReadError, ReadAgain,
           WriteClosed, WriteData, WriteAgain, WriteReset, WriteSigpipe, Answer,
           UseErased
  <1> QED BY <1>1, <1>2, <1>3, <1>4 DEF WorkerTypes

\* disconnectClient keeps the worker's types.
LEMMA DisconnectTypes ==
    ASSUME WorkerTypes, NEW fd \in Fds, Disconnect(fd), Forget(fd)
    PROVE  /\ frames' \in [1 .. MaxRoutines -> Frame]
           /\ coroutines' \in [Fds -> 0 .. MaxRoutines]
           /\ socks' \in [Fds -> Sock]
           /\ idle' \subseteq Fds /\ older' \subseteq idle' \X idle'
           /\ expired' \subseteq idle'
  <1>1. frames' \in [1 .. MaxRoutines -> Frame]
    <2>1. \A id \in 1 .. MaxRoutines : [frames[id] EXCEPT !.live = FALSE] \in Frame
      BY FrameUpdates DEF WorkerTypes
    <2>2. frames' = [id \in 1 .. MaxRoutines |->
                        IF id \in Co!Ids /\ routines[id].func = fd
                        THEN [frames[id] EXCEPT !.live = FALSE] ELSE frames[id]]
      BY DEF Disconnect
    <2> QED BY <2>1, <2>2 DEF WorkerTypes
  <1>2. coroutines' \in [Fds -> 0 .. MaxRoutines]
    BY BoundsAssumption DEF Disconnect, WorkerTypes
  <1>3. socks' \in [Fds -> Sock]
    <2>1. UNCHANGED socks \/ socks' = [socks EXCEPT ![fd] = NoSock]
      BY DEF Disconnect, CloseSock
    <2>2. NoSock \in Sock
      BY DEF NoSock, Sock
    <2> QED BY <2>1, <2>2 DEF WorkerTypes
  <1> QED BY <1>1, <1>2, <1>3, IdleTypes DEF WorkerTypes

\* An accepted socket has a socket's type.
LEMMA AcceptTypes ==
    ASSUME socks \in [Fds -> Sock], NEW fd \in Fds, NEW parts \in Early,
           NEW last \in BOOLEAN, socks' = [socks EXCEPT ![fd] = Accepted(parts, last)]
    PROVE  socks' \in [Fds -> Sock]
  <1>1. parts \in Nat
    BY BoundsAssumption DEF Early
  <1>2. NoSock \in Sock
    BY DEF NoSock, Sock
  <1>3. Accepted(parts, last) \in Sock
    BY <1>1, <1>2 DEF Accepted, Sock
  <1> QED BY <1>3

\* The steps of run() keep the worker's types.
LEMMA LoopTypes ==
    ASSUME WorkerTypes, OwnInv, LoopStep PROVE WorkerTypes'
  <1>1. ASSUME NEW fd \in Fds, DropExpired(fd) PROVE WorkerTypes'
    BY <1>1, DisconnectTypes DEF DropExpired, WorkerTypes, loopVars
  <1>2. CASE DropDone \/ EpollWait \/ EpollTimeout \/ BatchDone \/ AcceptFails
    BY <1>2 DEF DropDone, EpollWait, EpollTimeout, BatchDone, AcceptFails,
                WorkerTypes, workVars, kernelVars
  <1>3. ASSUME NEW fd \in Fds, AcceptStale(fd) PROVE WorkerTypes'
    BY <1>3 DEF AcceptStale, Accepting, AcceptThrows, WorkerTypes, workVars
  <1>4. ASSUME NEW fd \in Fds, AcceptNoEpoll(fd) PROVE WorkerTypes'
    <2>1. socks' \in [Fds -> Sock]
      BY <1>4, AcceptTypes DEF AcceptNoEpoll, WorkerTypes
    <2> QED BY <1>4, <2>1 DEF AcceptNoEpoll, Accepting, AcceptThrows, WorkerTypes
  <1>5. ASSUME NEW fd \in Fds, Accept(fd) PROVE WorkerTypes'
    <2>1. socks' \in [Fds -> Sock]
      BY <1>5, AcceptTypes DEF Accept, WorkerTypes
    <2>2. /\ frames' \in [1 .. MaxRoutines -> Frame]
          /\ coroutines' \in [Fds -> 0 .. MaxRoutines]
      BY <1>5, CreateTypes DEF Accept, WorkerTypes
    <2>3. idle' \subseteq Fds /\ older' \subseteq idle' \X idle'
          /\ expired' \subseteq idle'
      BY <1>5, IdleTypes DEF Accept, WorkerTypes
    <2> QED BY <1>5, <2>1, <2>2, <2>3 DEF Accept, Accepting, WorkerTypes
  <1>6. ASSUME NEW fd \in Fds, HandleConnection(fd) PROVE WorkerTypes'
    BY <1>6 DEF HandleConnection, WorkerTypes, workVars, kernelVars
  <1>7. CASE AfterClosed
    <2>1. handling \in Fds
      BY <1>7 DEF AfterClosed, OwnInv, LoopInv
    <2> QED BY <1>7, <2>1, DisconnectTypes DEF AfterClosed, WorkerTypes
  <1>8. CASE AfterOpen
    <2>1. handling \in Fds
      BY <1>8 DEF AfterOpen, OwnInv, LoopInv
    <2>2. /\ frames' \in [1 .. MaxRoutines -> Frame]
          /\ coroutines' \in [Fds -> 0 .. MaxRoutines]
      <3>1. CASE CreateFor(handling)
        BY <3>1, CreateTypes DEF WorkerTypes
      <3>2. CASE UNCHANGED <<frames, coroutines>>
        BY <3>2 DEF WorkerTypes
      <3> QED BY <1>8, <3>1, <3>2 DEF AfterOpen
    <2>3. idle' \subseteq Fds /\ older' \subseteq idle' \X idle'
          /\ expired' \subseteq idle'
      BY <1>8, <2>1, IdleTypes DEF AfterOpen, WorkerTypes
    <2> QED BY <1>8, <2>2, <2>3 DEF AfterOpen, WorkerTypes, kernelVars
  <1>9. CASE AfterUntimed
    BY <1>9 DEF AfterUntimed, WorkerTypes, workVars, loopVars, kernelVars
  <1> QED BY <1>1, <1>2, <1>3, <1>4, <1>5, <1>6, <1>7, <1>8, <1>9 DEF LoopStep

\* Peers, other threads and time keep the worker's types.
LEMMA EnvironmentTypes ==
    ASSUME WorkerTypes, Environment PROVE WorkerTypes'
  <1>1. CASE PeerConnect \/ OtherThreadAccepts
    BY <1>1 DEF PeerConnect, OtherThreadAccepts, WorkerTypes, workVars, loopVars
  <1>2. ASSUME NEW fd \in Fds, PeerSend(fd) PROVE WorkerTypes'
    <2>1. PICK l \in BOOLEAN : socks' = [socks EXCEPT ![fd] =
              [socks[fd] EXCEPT !.inq = @ + 1, !.sent = @ + 1, !.last = l]]
      <3>1. \E l \in BOOLEAN : socks' = [socks EXCEPT
               ![fd].inq = @ + 1, ![fd].sent = @ + 1, ![fd].last = l]
        BY <1>2 DEF PeerSend
      <3> QED BY <3>1
    <2>2. socks' \in [Fds -> Sock]
      BY <2>1, SockUpdates, SockTable DEF WorkerTypes
    <2> QED BY <1>2, <2>2 DEF PeerSend, Peer, WorkerTypes, workVars, loopVars
  <1>3. ASSUME NEW fd \in Fds, PeerReceive(fd) PROVE WorkerTypes'
    <2>1. socks[fd].outq > 0 /\ socks' = [socks EXCEPT ![fd] =
              [socks[fd] EXCEPT !.outq = @ - 1, !.nospace = FALSE]]
      BY <1>3 DEF PeerReceive
    <2>2. socks' \in [Fds -> Sock]
      BY <2>1, SockUpdates, SockTable DEF WorkerTypes
    <2> QED BY <1>3, <2>2 DEF PeerReceive, WorkerTypes, workVars, loopVars
  <1>4. ASSUME NEW fd \in Fds, PeerShutdown(fd) PROVE WorkerTypes'
    <2>1. socks' = [socks EXCEPT ![fd] = [socks[fd] EXCEPT !.fin = TRUE]]
      BY <1>4 DEF PeerShutdown
    <2>2. socks' \in [Fds -> Sock]
      BY <2>1, SockUpdates, SockTable DEF WorkerTypes
    <2> QED BY <1>4, <2>2 DEF PeerShutdown, Peer, WorkerTypes, workVars, loopVars
  <1>5. ASSUME NEW fd \in Fds, PeerReset(fd) PROVE WorkerTypes'
    <2>1. socks' = [socks EXCEPT ![fd] =
                        [socks[fd] EXCEPT !.rst = "pending", !.outq = 0]]
      BY <1>5 DEF PeerReset
    <2>2. socks' \in [Fds -> Sock]
      BY <2>1, SockUpdates, SockTable DEF WorkerTypes
    <2> QED BY <1>5, <2>2 DEF PeerReset, Peer, WorkerTypes, workVars, loopVars
  <1>6. ASSUME NEW fd \in Fds, Expire(fd) PROVE WorkerTypes'
    BY <1>6 DEF Expire, WorkerTypes, loopVars, kernelVars
  <1> QED BY <1>1, <1>2, <1>3, <1>4, <1>5, <1>6 DEF Environment

LEMMA WorkerTypesInitial == Init => WorkerTypes
  <1>1. NewFrame \in Frame /\ NoSock \in Sock /\ 0 \in 0 .. MaxRoutines
    BY BoundsAssumption DEF NewFrame, Frame, NoSock, Sock
  <1> QED BY <1>1 DEF Init, WorkerTypes

LEMMA WorkerTypesStep == OwnInv /\ WorkerTypes /\ [Next]_vars => WorkerTypes'
  <1>1. UNCHANGED vars /\ WorkerTypes => WorkerTypes'
    BY DEF vars, workVars, loopVars, kernelVars, WorkerTypes
  <1> QED BY <1>1, CoroutineTypes, LoopTypes, EnvironmentTypes DEF Next, Worker

\* The types of the worker, of its pool and of the kernel's side.
THEOREM TypeCorrect == Spec => []TypeOK
  <1>1. OwnInv /\ WorkerTypes /\ Co!CoTypeOK => TypeOK
    <2>1. OwnInv => /\ connections \in [Fds -> Connection]
                    /\ batch \subseteq Fds \union {Listen}
                    /\ interest \subseteq Fds /\ ready \subseteq interest
      BY DEF OwnInv, Shape, EpollInv, OpenSocks
    <2> QED BY <2>1 DEF TypeOK, WorkerTypes
  <1> QED BY <1>1, WorkerTypesInitial, WorkerTypesStep, OwnInvariant, PoolTyped,
             PTL DEF Spec

-----------------------------------------------------------------------------
(***************************************************************************)
(* Peers that stay.  Once a coroutine has thrown, the map keeps the id of  *)
(* an ended routine, create() may give the id to another connection, and   *)
(* the events of the first then run the second's coroutine.  Only a peer   *)
(* that leaves makes a coroutine throw, so among peers that stay every     *)
(* connection has a coroutine of its own; ServeInv says so.                *)
(***************************************************************************)
RoutineOf(fd) == routines[coroutines[fd]]
LocalsOf(fd) == frames[coroutines[fd]]

\* No peer has left, so no coroutine has anything to throw about, and a
\* connection is closed only between its last answer and disconnectClient.
Stays(fd) ==
    /\ ~socks[fd].fin /\ socks[fd].rst = "none"
    /\ connections[fd].st # "eof"
    /\ connections[fd].st = "closed" => pc = "after" /\ handling = fd
    /\ connections[fd].st = "absent" => coroutines[fd] = 0

\* The routine that the next event resumes is there, serves this connection
\* and has not ended, unless it has just answered.
Serves(fd) ==
    /\ coroutines[fd] \in Co!Ids
    /\ RoutineOf(fd).func = fd /\ LocalsOf(fd).live
    /\ \/ RoutineOf(fd).phase \in {"fresh", "suspended"}
       \/ pc = "coro" /\ handling = fd
       \/ pc = "after" /\ handling = fd /\ connections[fd].buf = 0

Served(fd) == \/ coroutines[fd] = 0 /\ connections[fd].buf = 0
              \/ Serves(fd)

\* The coroutine that runs is the one of the connection in hand.
Handled ==
    /\ pc \in {"coro", "after"} => handling \in Present
    /\ pc = "coro" => /\ current = coroutines[handling] /\ current # 0
                      /\ connections[handling].st = "open"

ServeInv == /\ \A fd \in Fds : Stays(fd)
            /\ \A fd \in Fds : Served(fd)
            /\ Handled

\* What is known of the worker besides.
Known == OwnInv /\ WorkerTypes /\ Pool!CoInv

\* What the pool's invariant says of its routines.
LEMMA PoolFacts ==
    ASSUME Pool!CoInv
    PROVE  /\ MaxRoutines \in Nat /\ Len(routines) \in Nat
           /\ Co!Ids = 1 .. Len(routines) /\ Co!Ids \subseteq 1 .. MaxRoutines
           /\ \A i \in Co!Ids : /\ routines[i] \in Pool!Routine
                                /\ routines[i].phase # "ended" =>
                                      ~routines[i].finished /\ ~routines[i].exception
                                /\ routines[i].phase = "running" <=> i = current
           /\ current # 0 => current \in Co!Ids
  <1>1. MaxRoutines \in Nat /\ routines \in Seq(Pool!Routine)
        /\ Len(routines) <= MaxRoutines
    BY BoundsAssumption DEF Pool!CoInv, Pool!CoTypeOK
  <1>2. Co!Ids = 1 .. Len(routines) /\ Pool!Ids = Co!Ids
    BY DEF Co!Ids, Pool!Ids
  <1>3. Co!Ids \subseteq 1 .. MaxRoutines
    BY <1>1, <1>2
  <1>4. \A i \in Co!Ids : routines[i] \in Pool!Routine
    BY <1>1, <1>2
  <1>5. \A i \in Co!Ids : routines[i].phase # "ended" =>
            ~routines[i].finished /\ ~routines[i].exception
    BY <1>2 DEF Pool!CoInv, Pool!LiveNotRefused, Pool!Ended
  <1>6. /\ \A i \in Co!Ids : routines[i].phase = "running" <=> i = current
        /\ current # 0 => current \in Co!Ids
    BY <1>2 DEF Pool!CoInv, Pool!CurrentRuns
  <1> QED BY <1>1, <1>2, <1>3, <1>4, <1>5, <1>6

\* What create() leaves of routine i: all but its context's anchoring.
SameRoutine(i) == /\ i \in Co!Ids'
                  /\ routines'[i].func = routines[i].func
                  /\ routines'[i].phase = routines[i].phase
                  /\ frames'[i] = frames[i]

\* The connection's new routine: fresh, and not one that could be resumed.
Created(fd, id) ==
    /\ id \in Co!Ids' /\ id \in 1 .. MaxRoutines /\ coroutines'[fd] = id
    /\ routines'[id].func = fd /\ routines'[id].phase = "fresh"
    /\ frames'[id] = NewFrame
    /\ \A i \in Co!Ids : routines[i].phase # "ended" => i # id
    /\ \A i \in Co!Ids : i # id => SameRoutine(i)
    /\ \A i \in Co!Ids' : i # id => i \in Co!Ids
    /\ \A g \in Fds : g # fd => coroutines'[g] = coroutines[g]

\* create() for a connection (BaseHTTPServer.cpp:121 and 178).
LEMMA CreateEffect ==
    ASSUME Known, NEW fd \in Fds, CreateFor(fd)
    PROVE  \E id : Created(fd, id)
  <1>1. PICK id \in 1 .. MaxRoutines :
            /\ Co!Create(fd, id)
            /\ frames' = [frames EXCEPT ![id] = NewFrame]
            /\ coroutines' = [coroutines EXCEPT ![fd] = id]
    BY DEF CreateFor
  <1>2. /\ frames \in [1 .. MaxRoutines -> Frame]
        /\ coroutines \in [Fds -> 0 .. MaxRoutines] /\ Pool!CoInv
        /\ Pool!CoTypeOK
    BY DEF Known, WorkerTypes, Pool!CoInv
  <1>3. /\ frames'[id] = NewFrame /\ coroutines'[fd] = id
        /\ \A i \in 1 .. MaxRoutines : i # id => frames'[i] = frames[i]
        /\ \A g \in Fds : g # fd => coroutines'[g] = coroutines[g]
    BY <1>1, <1>2
  <1>4. Pool!Ids = 1 .. Len(routines) /\ Co!Ids = 1 .. Len(routines)
        /\ Co!Ids' = 1 .. Len(routines')
    BY DEF Pool!Ids, Co!Ids
  <1>5. /\ id \in Co!Ids'
        /\ routines'[id].func = fd /\ routines'[id].phase = "fresh"
        /\ \A i \in Co!Ids : routines[i].phase # "ended" => i # id
        /\ \A i \in Co!Ids' : i # id => i \in Co!Ids
        /\ \A i \in Co!Ids : i # id => /\ i \in Co!Ids'
                                       /\ routines'[i].func = routines[i].func
                                       /\ routines'[i].phase = routines[i].phase
    <2>1. CASE finished = <<>>
      <3>1. id = Len(routines) + 1 /\ Pool!EmplaceBack(fd)
        BY <1>1, <2>1 DEF Co!Create, Co!EmplaceBack, Pool!EmplaceBack,
           Co!Reallocates, Pool!Reallocates, Co!Moved, Pool!Moved, Co!Ids, Pool!Ids,
           Co!NewRoutine, Pool!NewRoutine
      <3>2. /\ Len(routines') = Len(routines) + 1
            /\ routines'[Len(routines) + 1] = Pool!NewRoutine(fd, FALSE)
            /\ \A i \in Pool!Ids : routines'[i].func = routines[i].func
                                   /\ routines'[i].phase = routines[i].phase
        BY <1>2, <3>1, Pool!EmplaceBackAppends, BoundsAssumption
      <3>3. Len(routines) \in Nat
        BY <1>2 DEF Pool!CoTypeOK
      <3> QED BY <1>4, <3>1, <3>2, <3>3 DEF Pool!NewRoutine
    <2>2. CASE finished # <<>>
      <3>1. /\ id = Head(finished)
            /\ routines' = [routines EXCEPT ![id] = Co!NewRoutine(fd, @.moved)]
        BY <1>1, <2>2 DEF Co!Create, Co!Recycle
      <3>2. id \in Pool!Ended
        BY <1>2, <2>2, <3>1, Pool!RecycledHasEnded, BoundsAssumption
      <3>3. routines \in Seq(Pool!Routine)
        BY <1>2 DEF Pool!CoTypeOK
      <3>4. id \in Co!Ids /\ routines[id].phase = "ended"
        BY <3>2, <1>4 DEF Pool!Ended
      <3>5. Len(routines') = Len(routines) /\ routines'[id] = Co!NewRoutine(fd, routines[id].moved)
            /\ \A i \in Co!Ids : i # id => routines'[i] = routines[i]
        BY <3>1, <3>3, <3>4, <1>4
      <3> QED BY <3>4, <3>5, <1>4 DEF Co!NewRoutine
    <2> QED BY <2>1, <2>2
  <1>6. Co!Ids \subseteq 1 .. MaxRoutines
    BY <1>2, PoolFacts
  <1>7. Created(fd, id)
    BY <1>3, <1>5, <1>6 DEF Created, SameRoutine
  <1> QED BY <1>7

-----------------------------------------------------------------------------

\* The coroutine that runs serves the connection in hand.
LEMMA InHand ==
    ASSUME Known, ServeInv, pc = "coro"
    PROVE  /\ handling \in Fds /\ connections[handling].st = "open"
           /\ current = coroutines[handling] /\ current \in Co!Ids
           /\ current \in 1 .. MaxRoutines
           /\ Own = handling /\ Frm.live
           /\ routines[current].phase = "running" /\ ~routines[current].exception
           /\ \A g \in Fds : g # handling /\ coroutines[g] # 0 =>
                 coroutines[g] # current
  <1>1. handling \in Fds /\ connections[handling].st = "open"
        /\ current = coroutines[handling] /\ current # 0
    BY DEF ServeInv, Handled, Present
  <1>2. Serves(handling)
    BY <1>1 DEF ServeInv, Served
  <1>3. Own = handling /\ Frm.live /\ current \in Co!Ids
    BY <1>1, <1>2 DEF Serves, RoutineOf, LocalsOf, Own, Frm
  <1>4. routines[current].phase = "running" /\ ~routines[current].exception
        /\ current \in 1 .. MaxRoutines
    BY <1>3, PoolFacts DEF Known
  <1>5. ASSUME NEW g \in Fds, g # handling, coroutines[g] # 0
        PROVE  coroutines[g] # current
    <2>1. Serves(g)
      BY <1>5 DEF ServeInv, Served
    <2> QED BY <1>3, <1>5, <2>1 DEF Serves, RoutineOf, Own
  <1> QED BY <1>1, <1>3, <1>4, <1>5

\* The current routine goes to phase p, and nothing else of the pool matters.
Turns(p) ==
    /\ Co!Ids' = Co!Ids
    /\ routines'[current].phase = p
    /\ routines'[current].func = routines[current].func
    /\ \A i \in Co!Ids : i # current => routines'[i] = routines[i]

\* Control is back in resume() without an exception.
Returns == pc' = "after" /\ UNCHANGED <<batch, handling>>

\* yield() (coroutine.cpp:139) ends in handleConnection's line 164.
LEMMA YieldEffect ==
    ASSUME Known, current \in Co!Ids, ~routines[current].exception, YieldToLoop
    PROVE  Turns("suspended") /\ Returns
  <1>1. routines \in Seq(Pool!Routine) /\ Co!Ids = 1 .. Len(routines)
    BY PoolFacts DEF Known, Pool!CoInv, Pool!CoTypeOK
  <1>2. routines' = [routines EXCEPT ![current] =
                        [@ EXCEPT !.phase = "suspended", !.moved = FALSE]]
    BY DEF YieldToLoop, Co!Yield
  <1>3. routines[current] \in Pool!Routine
    BY <1>1
  <1> DEFINE r == [routines[current] EXCEPT !.phase = "suspended", !.moved = FALSE]
  <1>4. r.phase = "suspended" /\ r.func = routines[current].func
        /\ r.exception = routines[current].exception
    BY <1>3 DEF Pool!Routine
  <1>5. /\ Len(routines') = Len(routines) /\ routines'[current] = r
        /\ \A i \in Co!Ids : i # current => routines'[i] = routines[i]
    <2> HIDE DEF r
    <2>1. routines' = [routines EXCEPT ![current] = r]
      BY <1>2 DEF r
    <2> QED BY <1>1, <2>1
  <1>6. Co!Ids' = Co!Ids
    BY <1>5 DEF Co!Ids
  <1>7. Returns
    BY <1>4, <1>5 DEF YieldToLoop, BackInResume, Returns
  <1> QED BY <1>4, <1>5, <1>6, <1>7 DEF Turns

\* entry() after the callback returned (coroutine.cpp:100).
LEMMA FinishEffect ==
    ASSUME Known, current \in Co!Ids, ~routines[current].exception,
           Co!Finish(FALSE), BackInResume
    PROVE  Turns("ended") /\ Returns
  <1>1. routines \in Seq(Pool!Routine) /\ Co!Ids = 1 .. Len(routines)
    BY PoolFacts DEF Known, Pool!CoInv, Pool!CoTypeOK
  <1>2. routines[current] \in Pool!Routine
    BY <1>1
  <1> DEFINE r == [routines[current] EXCEPT
                      !.phase = "ended",
                      !.finished = @ \/ routines[current].attached,
                      !.exception = @ \/ (routines[current].attached /\ FALSE),
                      !.attached = FALSE]
  <1>3. routines' = [routines EXCEPT ![current] = r]
    BY DEF Co!Finish
  <1>4. r.phase = "ended" /\ r.func = routines[current].func /\ ~r.exception
    BY <1>2 DEF Pool!Routine
  <1> HIDE DEF r
  <1>5. /\ Len(routines') = Len(routines) /\ routines'[current] = r
        /\ \A i \in Co!Ids : i # current => routines'[i] = routines[i]
    BY <1>1, <1>3
  <1>6. Co!Ids' = Co!Ids
    BY <1>5 DEF Co!Ids
  <1>7. Returns
    BY <1>4, <1>5 DEF BackInResume, Returns
  <1> QED BY <1>4, <1>5, <1>6, <1>7 DEF Turns

\* Among peers that stay a coroutine neither throws nor meets an end of file.
LEMMA NothingToThrow ==
    ASSUME Known, ServeInv, CoroutineStep
    PROVE  ReadData \/ ReadAgain \/ WriteData \/ WriteAgain \/ Answer
  <1>1. pc = "coro"
    BY DEF CoroutineStep, Runs, ReadClosed, ReadData, ReadEof, ReadError, ReadAgain,
           WriteClosed, WriteData, WriteAgain, WriteReset, WriteSigpipe, Answer,
           UseErased
  <1>2. Own \in Fds /\ connections[Own].st = "open" /\ Frm.live
    BY <1>1, InHand
  <1>3. ~socks[Own].fin /\ socks[Own].rst = "none"
    BY <1>2 DEF ServeInv, Stays
  <1> QED BY <1>2, <1>3 DEF CoroutineStep, ReadClosed, ReadEof, ReadError,
             WriteClosed, WriteReset, WriteSigpipe, UseErased

\* What the other connections keep when the coroutine of the one in hand runs.
LEMMA OthersServed ==
    ASSUME Known, ServeInv, NEW g \in Fds, pc = "coro", g # handling,
           coroutines' = coroutines, connections'[g] = connections[g],
           Co!Ids' = Co!Ids,
           \A i \in Co!Ids : i # current => routines'[i] = routines[i],
           \A i \in 1 .. MaxRoutines : frames'[i].live = frames[i].live
    PROVE  Served(g)'
  <1>1. CASE coroutines[g] = 0
    <2>1. 0 \notin Co!Ids
      BY PoolFacts DEF Known
    <2>2. connections[g].buf = 0
      BY <1>1, <2>1 DEF ServeInv, Served, Serves
    <2> QED BY <1>1, <2>2 DEF Served
  <1>2. CASE coroutines[g] # 0
    <2>1. Serves(g) /\ coroutines[g] # current
      BY <1>2, InHand DEF ServeInv, Served
    <2>2. coroutines[g] \in 1 .. MaxRoutines
      BY <2>1, PoolFacts DEF Known, Serves
    <2> QED BY <2>1, <2>2 DEF Serves, Served, RoutineOf, LocalsOf
  <1> QED BY <1>1, <1>2

\* A coroutine's own connection, when it goes on, yields or has answered.
LEMMA OwnServed ==
    ASSUME Known, ServeInv, pc = "coro", coroutines' = coroutines,
           handling' = handling, Co!Ids' = Co!Ids,
           routines'[current].func = routines[current].func,
           \A i \in 1 .. MaxRoutines : frames'[i].live = frames[i].live,
           \/ pc' = "coro"
           \/ routines'[current].phase = "suspended"
           \/ pc' = "after" /\ connections'[handling].buf = 0
    PROVE  Served(handling)'
  <1>1. handling \in Fds /\ current = coroutines[handling] /\ current \in Co!Ids
        /\ current \in 1 .. MaxRoutines /\ Own = handling /\ Frm.live
    BY InHand
  <1>2. /\ coroutines'[handling'] \in Co!Ids'
        /\ routines'[coroutines'[handling']].func = handling'
        /\ frames'[coroutines'[handling']].live
    BY <1>1 DEF Own, Frm
  <1>3. \/ routines'[coroutines'[handling']].phase \in {"fresh", "suspended"}
        \/ pc' = "coro"
        \/ pc' = "after" /\ connections'[handling'].buf = 0
    BY <1>1
  <1> QED BY <1>2, <1>3 DEF Served, Serves, RoutineOf, LocalsOf

\* The steps of a coroutine.
LEMMA CoroutineServes ==
    ASSUME Known, ServeInv, CoroutineStep PROVE ServeInv'
  <1>1. pc = "coro" /\ coroutines' = coroutines /\ frames \in [1 .. MaxRoutines -> Frame]
        /\ connections \in [Fds -> Connection] /\ socks \in [Fds -> Sock]
    BY NothingToThrow
    DEF Runs, ReadData, ReadAgain, WriteData, WriteAgain, Answer, workVars,
        Known, WorkerTypes, OwnInv, Shape
  <1>2. /\ handling \in Fds /\ connections[handling].st = "open"
        /\ current = coroutines[handling] /\ current \in Co!Ids
        /\ current \in 1 .. MaxRoutines /\ Own = handling /\ Frm.live
        /\ routines[current].phase = "running" /\ ~routines[current].exception
    BY <1>1, InHand
  \* Nothing but the routine that runs, the connection in hand and its socket.
  <1> DEFINE Local ==
        /\ Co!Ids' = Co!Ids
        /\ routines'[current].func = routines[current].func
        /\ \A i \in Co!Ids : i # current => routines'[i] = routines[i]
        /\ \A i \in 1 .. MaxRoutines : frames'[i].live = frames[i].live
        /\ handling' = handling
        /\ \A g \in Fds : g # handling => connections'[g] = connections[g]
        /\ \A g \in Fds : /\ socks'[g].fin = FALSE /\ socks'[g].rst = "none"
  <1>3. \A g \in Fds : socks[g].fin = FALSE /\ socks[g].rst = "none"
    <2>1. \A g \in Fds : socks[g].fin \in BOOLEAN
      BY <1>1 DEF Sock
    <2> QED BY <2>1 DEF ServeInv, Stays
  <1>4. ASSUME Local,
               \/ pc' = "coro" /\ current' = current
                  /\ connections'[handling].st = "open"
               \/ pc' = "after" /\ connections'[handling].st = "open"
                  /\ routines'[current].phase = "suspended"
               \/ pc' = "after" /\ connections'[handling].st \in {"open", "closed"}
                  /\ connections'[handling].buf = 0
        PROVE  ServeInv'
    <2>1. \A g \in Fds : g # handling => Served(g)'
      BY <1>1, <1>4, OthersServed
    <2>2. Served(handling)'
      BY <1>1, <1>4, OwnServed
    <2>3. ASSUME NEW g \in Fds PROVE Served(g)'
      <3>1. CASE g = handling
        BY <3>1, <2>2, <1>4
      <3> QED BY <2>1, <3>1
    <2>4. ASSUME NEW g \in Fds PROVE Stays(g)'
      <3>1. CASE g = handling
        BY <1>1, <1>2, <1>4, <3>1 DEF Stays
      <3>2. CASE g # handling
        <4>1. connections[g].st # "closed" /\ connections[g].st # "eof"
              /\ (connections[g].st = "absent" => coroutines[g] = 0)
          BY <1>1, <3>2 DEF ServeInv, Stays
        <4> QED BY <1>1, <1>4, <3>2, <4>1 DEF Stays
      <3> QED BY <3>1, <3>2
    <2>5. Handled'
      BY <1>1, <1>2, <1>4 DEF Handled, Present
    <2> QED BY <2>3, <2>4, <2>5 DEF ServeInv
  <1>5. CASE ReadData
    <2>1. /\ connections'[handling] = [connections[handling] EXCEPT !.buf = @ + 1]
          /\ \A g \in Fds : g # handling => connections'[g] = connections[g]
      BY <1>1, <1>2, <1>5 DEF ReadData
    <2>2. connections'[handling].st = "open"
      BY <1>1, <1>2, <2>1 DEF Connection
    <2>3. /\ socks' = [socks EXCEPT ![Own] = [socks[Own] EXCEPT !.inq = @ - 1]]
          /\ UNCHANGED <<routines, current, frames, pc, handling>>
      BY <1>2, <1>5 DEF ReadData, coVars, loopVars
    <2>4. \A g \in Fds : socks'[g].fin = socks[g].fin /\ socks'[g].rst = socks[g].rst
      BY <1>1, <1>2, <2>3 DEF Sock
    <2>5. Co!Ids' = Co!Ids
      BY <2>3 DEF Co!Ids
    <2> QED BY <1>1, <1>3, <1>4, <2>1, <2>2, <2>3, <2>4, <2>5
  <1>6. CASE ReadAgain \/ WriteAgain
    <2>1. \A g \in Fds : socks'[g].fin = socks[g].fin /\ socks'[g].rst = socks[g].rst
      <3>1. \/ UNCHANGED socks
            \/ socks' = [socks EXCEPT ![Own] = [socks[Own] EXCEPT !.nospace = TRUE]]
        BY <1>6 DEF ReadAgain, WriteAgain, kernelVars
      <3>2. socks[Own] \in Sock
        BY <1>1, <1>2
      <3>3. /\ [socks[Own] EXCEPT !.nospace = TRUE].fin = socks[Own].fin
            /\ [socks[Own] EXCEPT !.nospace = TRUE].rst = socks[Own].rst
        BY <3>2 DEF Sock
      <3> QED BY <1>1, <3>1, <3>3
    <2>2. UNCHANGED connections
      BY <1>6 DEF ReadAgain, WriteAgain, workVars
    <2>3. CASE YieldToLoop /\ UNCHANGED frames
      BY <1>1, <1>2, <1>3, <1>4, <2>1, <2>2, <2>3, YieldEffect DEF Turns, Returns
    <2>4. CASE /\ UNCHANGED <<coVars, loopVars>>
               /\ frames' = [frames EXCEPT ![current] = [@ EXCEPT
                      !.pc = "write", !.left = RespParts, !.keep = ~socks[Own].last]]
      <3>1. \A i \in 1 .. MaxRoutines : frames'[i].live = frames[i].live
        BY <1>1, <1>2, <2>4 DEF Frame
      <3>2. UNCHANGED <<routines, current, pc, handling>> /\ Co!Ids' = Co!Ids
        BY <2>4 DEF coVars, loopVars, Co!Ids
      <3> QED BY <1>1, <1>2, <1>3, <1>4, <2>1, <2>2, <3>1, <3>2
    <2> QED BY <1>6, <2>3, <2>4 DEF ReadAgain, WriteAgain
  <1>7. CASE WriteData
    <2>1. PICK n \in 1 .. RespParts :
             /\ socks' = [socks EXCEPT ![Own] =
                              [socks[Own] EXCEPT !.outq = @ + n, !.wrote = @ + n]]
             /\ frames' = [frames EXCEPT ![current] =
                              [frames[current] EXCEPT !.left = Remaining(@, n)]]
      <3>1. \E n \in 1 .. RespParts :
             /\ socks' = Wrote(socks, Own, n)
             /\ frames' = [frames EXCEPT ![current].left = Remaining(@, n)]
        BY <1>7 DEF WriteData, Wrote
      <3> QED BY <3>1, TwoFields
    <2>2. \A g \in Fds : socks'[g].fin = socks[g].fin /\ socks'[g].rst = socks[g].rst
      BY <1>1, <1>2, <2>1 DEF Sock
    <2>3. \A i \in 1 .. MaxRoutines : frames'[i].live = frames[i].live
      BY <1>1, <1>2, <2>1 DEF Frame
    <2>4. UNCHANGED <<routines, current, pc, handling, connections>> /\ Co!Ids' = Co!Ids
      BY <1>7 DEF WriteData, coVars, workVars, loopVars, Co!Ids
    <2> QED BY <1>1, <1>2, <1>3, <1>4, <2>2, <2>3, <2>4
  <1>8. CASE Answer
    <2>1. Turns("ended") /\ Returns /\ UNCHANGED frames
      BY <1>2, <1>8, FinishEffect DEF Answer
    <2>2. /\ \A g \in Fds : g # handling =>
                connections'[g] = connections[g] /\ socks'[g] = socks[g]
          /\ UNCHANGED socks \/ socks' = [socks EXCEPT ![handling] = NoSock]
          /\ connections'[handling].st \in {"open", "closed"}
          /\ connections'[handling].buf = 0
      <3>1. CASE Frm.keep
        <4>1. /\ connections' = [connections EXCEPT ![handling] = [@ EXCEPT !.buf = 0]]
              /\ UNCHANGED socks
          BY <1>2, <1>8, <3>1 DEF Answer
        <4> QED BY <1>1, <1>2, <4>1 DEF Connection
      <3>2. CASE ~Frm.keep
        <4>1. /\ connections' = [connections EXCEPT ![handling] =
                                     [@ EXCEPT !.buf = 0, !.st = "closed"]]
              /\ socks' = [socks EXCEPT ![handling] = NoSock]
          BY <1>2, <1>8, <3>2 DEF Answer, CloseSock
        <4> QED BY <1>1, <1>2, <4>1 DEF Connection
      <3> QED BY <3>1, <3>2
    <2>3. \A g \in Fds : socks'[g].fin = FALSE /\ socks'[g].rst = "none"
      BY <1>1, <1>2, <1>3, <2>2 DEF NoSock
    <2> QED BY <1>1, <1>4, <2>1, <2>2, <2>3 DEF Turns, Returns
  <1> QED BY <1>5, <1>6, <1>7, <1>8, NothingToThrow

-----------------------------------------------------------------------------

\* Between two calls of handleConnection a connection's coroutine can resume.
LEMMA AtRest ==
    ASSUME Known, ServeInv, NEW g \in Fds, pc # "coro",
           ~(pc = "after" /\ handling = g)
    PROVE  /\ connections[g].st \in {"absent", "open"}
           /\ connections[g].st = "absent" => coroutines[g] = 0
           /\ \/ coroutines[g] = 0 /\ connections[g].buf = 0
              \/ /\ coroutines[g] \in Co!Ids /\ coroutines[g] \in 1 .. MaxRoutines
                 /\ RoutineOf(g).func = g /\ LocalsOf(g).live
                 /\ RoutineOf(g).phase \in {"fresh", "suspended"}
  <1>1. connections[g].st \in ConnState
    BY DEF Known, OwnInv, Shape, Connection
  <1>2. Served(g) /\ Stays(g)
    BY DEF ServeInv
  <1>3. CASE coroutines[g] = 0 /\ connections[g].buf = 0
    BY <1>1, <1>2, <1>3 DEF Stays, ConnState
  <1>4. CASE Serves(g)
    <2>1. coroutines[g] \in 1 .. MaxRoutines
      BY <1>4, PoolFacts DEF Serves, Known
    <2> QED BY <1>1, <1>2, <1>4, <2>1 DEF Stays, ConnState, Serves
  <1> QED BY <1>2, <1>3, <1>4 DEF Served

\* No peer has left, as values of the sockets' fields.
LEMMA NobodyLeft ==
    ASSUME Known, ServeInv
    PROVE  \A g \in Fds : socks[g] \in Sock /\ socks[g].fin = FALSE
                          /\ socks[g].rst = "none"
  <1>1. \A g \in Fds : socks[g] \in Sock
    BY DEF Known, WorkerTypes
  <1>2. \A g \in Fds : ~socks[g].fin /\ socks[g].rst = "none"
    BY DEF ServeInv, Stays
  <1>3. \A g \in Fds : socks[g].fin \in BOOLEAN
    BY <1>1 DEF Sock
  <1> QED BY <1>1, <1>2, <1>3

\* A step that leaves connections, coroutines and their routines alone.
LEMMA QuietServes ==
    ASSUME Known, ServeInv,
           UNCHANGED <<routines, frames, coroutines, connections>>,
           \A g \in Fds : socks'[g].fin = FALSE /\ socks'[g].rst = "none",
           \/ UNCHANGED <<pc, handling, current>>
           \/ pc \notin {"coro", "after"} /\ pc' \notin {"coro", "after"}
    PROVE  ServeInv'
  <1>1. Co!Ids' = Co!Ids /\ Present' = Present
    BY DEF Co!Ids, Present
  <1>2. ASSUME NEW g \in Fds PROVE Stays(g)' /\ Served(g)'
    <2>1. CASE UNCHANGED <<pc, handling, current>>
      BY <1>1, <2>1 DEF ServeInv, Stays, Served, Serves, RoutineOf, LocalsOf
    <2>2. CASE pc \notin {"coro", "after"} /\ pc' \notin {"coro", "after"}
      BY <1>1, <2>2, AtRest DEF Stays, Served, Serves, RoutineOf, LocalsOf
    <2> QED BY <2>1, <2>2
  <1>3. Handled'
    BY <1>1 DEF ServeInv, Handled
  <1> QED BY <1>2, <1>3 DEF ServeInv

\* disconnectClient takes the routines of its own connection only out of use.
LEMMA DisconnectServes ==
    ASSUME Known, ServeInv, NEW fd \in Fds, Disconnect(fd), UNCHANGED routines,
           pc # "coro", pc = "after" => handling = fd,
           pc' \notin {"coro", "after"}
    PROVE  ServeInv'
  <1>0. /\ frames \in [1 .. MaxRoutines -> Frame] /\ connections \in [Fds -> Connection]
        /\ coroutines \in [Fds -> 0 .. MaxRoutines] /\ socks \in [Fds -> Sock]
    BY DEF Known, WorkerTypes, OwnInv, Shape
  <1>1. /\ connections' = [connections EXCEPT ![fd] = Absent]
        /\ coroutines' = [coroutines EXCEPT ![fd] = 0]
        /\ Absent.st = "absent" /\ Absent.buf = 0
    BY DEF Disconnect, Absent
  <1>2. \A i \in 1 .. MaxRoutines :
            i \in Co!Ids /\ routines[i].func # fd => frames'[i] = frames[i]
    BY DEF Disconnect
  <1>3. Co!Ids' = Co!Ids
    BY DEF Co!Ids
  <1>4. \A g \in Fds : socks'[g].fin = FALSE /\ socks'[g].rst = "none"
    <2>1. UNCHANGED socks \/ socks' = [socks EXCEPT ![fd] = NoSock]
      BY DEF Disconnect, CloseSock
    <2>2. NoSock.fin = FALSE /\ NoSock.rst = "none"
      BY DEF NoSock
    <2> QED BY <1>0, <2>1, <2>2, NobodyLeft
  <1>5. ASSUME NEW g \in Fds PROVE Stays(g)' /\ Served(g)'
    <2>1. CASE g = fd
      BY <1>0, <1>1, <1>4, <2>1 DEF Stays, Served
    <2>2. CASE g # fd
      <3>1. connections'[g] = connections[g] /\ coroutines'[g] = coroutines[g]
        BY <1>0, <1>1, <2>2
      <3>2. CASE coroutines[g] = 0 /\ connections[g].buf = 0
        BY <1>4, <2>2, <3>1, <3>2, AtRest DEF Stays, Served
      <3>3. CASE ~(coroutines[g] = 0 /\ connections[g].buf = 0)
        <4>1. /\ coroutines[g] \in Co!Ids /\ coroutines[g] \in 1 .. MaxRoutines
              /\ RoutineOf(g).func = g /\ LocalsOf(g).live
              /\ RoutineOf(g).phase \in {"fresh", "suspended"}
          BY <2>2, <3>3, AtRest
        <4>2. frames'[coroutines[g]] = frames[coroutines[g]]
          BY <1>2, <2>2, <4>1 DEF RoutineOf
        <4>3. Serves(g)'
          BY <1>3, <3>1, <4>1, <4>2 DEF Serves, RoutineOf, LocalsOf
        <4> QED BY <1>4, <2>2, <3>1, <4>3, AtRest DEF Stays, Served
      <3> QED BY <3>2, <3>3
    <2> QED BY <2>1, <2>2
  <1>6. Handled'
    BY DEF Handled
  <1> QED BY <1>5, <1>6 DEF ServeInv

\* create() takes no routine from a connection that still needs it.
LEMMA CreateServes ==
    ASSUME Known, ServeInv, NEW fd \in Fds, CreateFor(fd),
           connections'[fd].st = "open",
           \A g \in Fds : g # fd => connections'[g] = connections[g],
           \A g \in Fds : socks'[g].fin = FALSE /\ socks'[g].rst = "none",
           pc # "coro", pc = "after" => handling = fd,
           pc' \notin {"coro", "after"}
    PROVE  ServeInv'
  <1>1. PICK id : Created(fd, id)
    BY CreateEffect
  <1>2. Served(fd)'
    BY <1>1 DEF Created, Served, Serves, RoutineOf, LocalsOf, NewFrame
  <1>3. ASSUME NEW g \in Fds, g # fd PROVE Stays(g)' /\ Served(g)'
    <2>1. connections'[g] = connections[g] /\ coroutines'[g] = coroutines[g]
      BY <1>1, <1>3 DEF Created
    <2>2. CASE coroutines[g] = 0 /\ connections[g].buf = 0
      BY <1>3, <2>1, <2>2, AtRest DEF Stays, Served
    <2>3. CASE ~(coroutines[g] = 0 /\ connections[g].buf = 0)
      <3>1. /\ coroutines[g] \in Co!Ids
            /\ RoutineOf(g).func = g /\ LocalsOf(g).live
            /\ RoutineOf(g).phase \in {"fresh", "suspended"}
        BY <1>3, <2>3, AtRest
      <3>2. SameRoutine(coroutines[g])
        BY <1>1, <3>1 DEF Created, RoutineOf
      <3>3. Serves(g)'
        BY <2>1, <3>1, <3>2 DEF SameRoutine, Serves, RoutineOf, LocalsOf
      <3> QED BY <1>3, <2>1, <3>3, AtRest DEF Stays, Served
    <2> QED BY <2>2, <2>3
  <1>4. Stays(fd)'
    BY DEF Stays
  <1>5. ASSUME NEW g \in Fds PROVE Stays(g)' /\ Served(g)'
    BY <1>2, <1>3, <1>4
  <1>6. Handled'
    BY DEF Handled
  <1> QED BY <1>5, <1>6 DEF ServeInv

\* handleConnection resumes the coroutine of the connection in hand, or finds
\* none (BaseHTTPServer.cpp:162-164).
LEMMA HandleServes ==
    ASSUME Known, ServeInv, NEW fd \in Fds, HandleConnection(fd)
    PROVE  ServeInv'
  <1>1. /\ pc = "batch" /\ fd \in Present /\ handling' = fd
        /\ UNCHANGED <<frames, coroutines, connections, socks>>
        /\ Present' = Present
    BY DEF HandleConnection, Known, OwnInv, NoPhantomEvent, workVars, kernelVars,
           Present
  <1>2. connections[fd].st = "open" /\ Stays(fd)
    BY <1>1, AtRest DEF Present, ServeInv
  <1>3. \A g \in Fds : Stays(g)'
    BY <1>1, NobodyLeft, AtRest DEF Stays
  <1>4. CASE coroutines[fd] = 0 /\ connections[fd].buf = 0
    <2>1. coroutines[fd] \notin Co!Ids
      BY <1>4, PoolFacts DEF Known
    <2>2. pc' = "after" /\ UNCHANGED coVars
      BY <2>1 DEF HandleConnection, Co!Resume, Co!ResumeEnded, Co!Refuses
    <2>3. ASSUME NEW g \in Fds PROVE Served(g)'
      BY <1>1, <2>2, AtRest DEF coVars, Co!Ids, Served, Serves, RoutineOf, LocalsOf
    <2>4. Handled'
      BY <1>1, <2>2 DEF Handled
    <2> QED BY <1>3, <2>3, <2>4 DEF ServeInv
  <1>5. CASE ~(coroutines[fd] = 0 /\ connections[fd].buf = 0)
    <2> DEFINE id == coroutines[fd]
    <2>1. /\ id \in Co!Ids /\ id \in 1 .. MaxRoutines
          /\ routines[id].func = fd /\ frames[id].live
          /\ routines[id].phase \in {"fresh", "suspended"}
      BY <1>1, <1>5, AtRest DEF RoutineOf, LocalsOf
    <2>2. ~routines[id].finished
      BY <2>1, PoolFacts DEF Known
    <2>3. Co!Resume(id) /\ pc' = "coro"
      BY <2>1, <2>2 DEF HandleConnection, Co!ResumeEnded, Co!Refuses
    <2>4. routines \in Seq(Pool!Routine) /\ Co!Ids = 1 .. Len(routines)
      BY PoolFacts DEF Known, Pool!CoInv, Pool!CoTypeOK
    <2>5. routines' = [routines EXCEPT ![id] =
              [routines[id] EXCEPT !.phase = "running",
                                   !.attached = @ \/ routines[id].phase = "fresh"]]
          /\ current' = id
      BY <2>3 DEF Co!Resume
    <2>6. routines[id] \in Pool!Routine
      BY <2>1, <2>4
    <2> DEFINE r == [routines[id] EXCEPT !.phase = "running",
                                   !.attached = @ \/ routines[id].phase = "fresh"]
    <2>7. r.func = fd
      BY <2>1, <2>6 DEF Pool!Routine
    <2>8. routines' = [routines EXCEPT ![id] = r]
      BY <2>5
    <2> HIDE DEF r
    <2>9. /\ Len(routines') = Len(routines) /\ routines'[id] = r
          /\ \A i \in Co!Ids : i # id => routines'[i] = routines[i]
      BY <2>1, <2>4, <2>8
    <2>10. Co!Ids' = Co!Ids
      BY <2>9 DEF Co!Ids
    <2>11. Served(fd)'
      BY <1>1, <2>1, <2>3, <2>7, <2>9, <2>10 DEF Served, Serves, RoutineOf, LocalsOf
    <2>12. ASSUME NEW g \in Fds, g # fd PROVE Served(g)'
      <3>1. CASE coroutines[g] = 0 /\ connections[g].buf = 0
        BY <1>1, <3>1 DEF Served
      <3>2. CASE ~(coroutines[g] = 0 /\ connections[g].buf = 0)
        <4>1. /\ coroutines[g] \in Co!Ids
              /\ RoutineOf(g).func = g /\ LocalsOf(g).live
              /\ RoutineOf(g).phase \in {"fresh", "suspended"}
          BY <1>1, <3>2, AtRest
        <4>2. coroutines[g] # id
          BY <2>1, <2>12, <4>1 DEF RoutineOf
        <4> QED BY <1>1, <2>9, <2>10, <4>1, <4>2
                DEF Served, Serves, RoutineOf, LocalsOf
      <3> QED BY <3>1, <3>2
    <2>13. Handled'
      BY <1>1, <1>2, <2>1, <2>3, <2>5, PoolFacts DEF Handled, Known
    <2>14. ASSUME NEW g \in Fds PROVE Served(g)'
      BY <2>11, <2>12
    <2> QED BY <1>3, <2>13, <2>14 DEF ServeInv
  <1> QED BY <1>4, <1>5

\* The steps of run().
LEMMA LoopServes ==
    ASSUME Known, ServeInv, LoopStep PROVE ServeInv'
  <1>0. /\ connections \in [Fds -> Connection] /\ socks \in [Fds -> Sock]
        /\ NoSock.fin = FALSE /\ NoSock.rst = "none"
    BY DEF Known, WorkerTypes, OwnInv, Shape, NoSock
  <1>1. \A g \in Fds : socks[g].fin = FALSE /\ socks[g].rst = "none"
    BY NobodyLeft
  <1>2. ASSUME NEW fd \in Fds, NEW parts \in Early, NEW last \in BOOLEAN,
               socks' = [socks EXCEPT ![fd] = Accepted(parts, last)]
        PROVE  \A g \in Fds : socks'[g].fin = FALSE /\ socks'[g].rst = "none"
    <2>1. Accepted(parts, last).fin = FALSE /\ Accepted(parts, last).rst = "none"
      BY DEF Accepted, NoSock
    <2> QED BY <1>0, <1>1, <1>2, <2>1
  <1>3. ASSUME NEW fd \in Fds, DropExpired(fd) PROVE ServeInv'
    <2>1. /\ pc = "drop" /\ pc' = pc /\ Disconnect(fd) /\ UNCHANGED routines
      BY <1>3 DEF DropExpired, loopVars, Co!Leave
    <2> QED BY <2>1, DisconnectServes
  <1>4. CASE DropDone \/ EpollWait \/ EpollTimeout \/ BatchDone \/ AcceptFails
    <2>1. /\ UNCHANGED <<routines, frames, coroutines, connections, socks>>
          /\ pc \notin {"coro", "after"} /\ pc' \notin {"coro", "after"}
      BY <1>4 DEF DropDone, EpollWait, EpollTimeout, BatchDone, AcceptFails,
                  coVars, workVars, kernelVars
    <2> QED BY <1>1, <2>1, QuietServes
  <1>5. ASSUME NEW fd \in Fds, AcceptStale(fd) PROVE ServeInv'
    <2>1. /\ UNCHANGED <<routines, frames, coroutines, connections, socks>>
          /\ pc \notin {"coro", "after"} /\ pc' \notin {"coro", "after"}
      BY <1>5 DEF AcceptStale, Accepting, AcceptThrows, coVars, workVars
    <2> QED BY <1>1, <2>1, QuietServes
  <1>6. ASSUME NEW fd \in Fds, AcceptNoEpoll(fd) PROVE ServeInv'
    <2>1. /\ UNCHANGED <<routines, frames, coroutines>>
          /\ pc = "batch" /\ pc' = "drop" /\ fd \notin Present
          /\ connections' = [connections EXCEPT ![fd] = Opened]
      BY <1>6 DEF AcceptNoEpoll, Accepting, AcceptThrows, coVars
    <2>2. \A g \in Fds : socks'[g].fin = FALSE /\ socks'[g].rst = "none"
      BY <1>2, <1>6 DEF AcceptNoEpoll
    <2>3. connections'[fd].st = "open" /\ connections'[fd].buf = 0
      BY <1>0, <2>1 DEF Opened
    <2>4. coroutines[fd] = 0 /\ Co!Ids' = Co!Ids
      BY <2>1, AtRest DEF Present, Co!Ids
    <2>5. ASSUME NEW g \in Fds PROVE Stays(g)' /\ Served(g)'
      <3>1. CASE g = fd
        BY <2>1, <2>2, <2>3, <2>4, <3>1 DEF Stays, Served
      <3>2. CASE g # fd
        <4>1. connections'[g] = connections[g]
          BY <1>0, <2>1, <3>2
        <4> QED BY <2>1, <2>2, <2>4, <4>1, AtRest
                DEF Stays, Served, Serves, RoutineOf, LocalsOf
      <3> QED BY <3>1, <3>2
    <2>6. Handled'
      BY <2>1 DEF Handled
    <2> QED BY <2>5, <2>6 DEF ServeInv
  <1>7. ASSUME NEW fd \in Fds, Accept(fd) PROVE ServeInv'
    <2>1. /\ pc = "batch" /\ pc' = pc /\ CreateFor(fd)
          /\ connections' = [connections EXCEPT ![fd] = Opened]
      BY <1>7 DEF Accept, Accepting
    <2>2. \A g \in Fds : socks'[g].fin = FALSE /\ socks'[g].rst = "none"
      BY <1>2, <1>7 DEF Accept
    <2>3. /\ connections'[fd].st = "open"
          /\ \A g \in Fds : g # fd => connections'[g] = connections[g]
      BY <1>0, <2>1 DEF Opened
    <2> QED BY <2>1, <2>2, <2>3, CreateServes
  <1>8. ASSUME NEW fd \in Fds, HandleConnection(fd) PROVE ServeInv'
    BY <1>8, HandleServes
  <1>9. CASE AfterClosed
    <2>1. /\ pc = "after" /\ pc' = "batch" /\ Disconnect(handling)
          /\ UNCHANGED routines
      BY <1>9 DEF AfterClosed, Undefined, Co!Leave, coVars
    <2>2. handling \in Fds
      BY <2>1 DEF Known, OwnInv, LoopInv
    <2> QED BY <2>1, <2>2, DisconnectServes
  <1>10. CASE AfterOpen
    <2>1. /\ pc = "after" /\ pc' = "batch" /\ connections[handling].st = "open"
          /\ UNCHANGED <<connections, socks>> /\ handling \in Fds
      BY <1>10 DEF AfterOpen, kernelVars, Known, OwnInv, LoopInv
    <2>2. CASE CreateFor(handling)
      BY <1>1, <2>1, <2>2, CreateServes
    <2>3. CASE connections[handling].buf # 0 /\ UNCHANGED <<coVars, frames, coroutines>>
      <3>1. Co!Ids' = Co!Ids
        BY <2>3 DEF coVars, Co!Ids
      <3>2. ASSUME NEW g \in Fds PROVE Stays(g)' /\ Served(g)'
        <4>1. CASE g = handling
          BY <1>1, <2>1, <2>3, <3>1, <4>1
          DEF ServeInv, Stays, Served, Serves, RoutineOf, LocalsOf, coVars
        <4>2. CASE g # handling
          BY <1>1, <2>1, <2>3, <3>1, <4>2, AtRest
          DEF Stays, Served, Serves, RoutineOf, LocalsOf, coVars
        <4> QED BY <4>1, <4>2
      <3>3. Handled'
        BY <2>1 DEF Handled
      <3> QED BY <3>2, <3>3 DEF ServeInv
    <2> QED BY <1>10, <2>2, <2>3 DEF AfterOpen
  <1>11. CASE AfterUntimed
    <2>1. /\ UNCHANGED <<routines, frames, coroutines, connections, socks>>
          /\ UNCHANGED <<pc, handling, current>>
      BY <1>11 DEF AfterUntimed, Undefined, Co!Leave, workVars, loopVars, kernelVars
    <2> QED BY <1>1, <2>1, QuietServes
  <1> QED BY <1>3, <1>4, <1>5, <1>6, <1>7, <1>8, <1>9, <1>10, <1>11 DEF LoopStep

\* Peers that stay send and receive; they change neither end's state.
LEMMA EnvironmentServes ==
    ASSUME ~FaultyPeers, Known, ServeInv, Environment PROVE ServeInv'
  <1>1. \A g \in Fds : socks[g] \in Sock /\ socks[g].fin = FALSE
                       /\ socks[g].rst = "none"
    BY NobodyLeft
  <1>2. UNCHANGED <<routines, current, frames, coroutines, connections, pc, handling>>
    BY DEF Environment, PeerConnect, OtherThreadAccepts, PeerSend, Peer, PeerReceive,
           PeerShutdown, PeerReset, Expire, coVars, workVars, loopVars
  <1>3. \A g \in Fds : socks'[g].fin = FALSE /\ socks'[g].rst = "none"
    <2>1. socks \in [Fds -> Sock]
      BY DEF Known, WorkerTypes
    <2>2. ASSUME NEW fd \in Fds, PeerSend(fd)
          PROVE  \A g \in Fds : socks'[g].fin = FALSE /\ socks'[g].rst = "none"
      <3>1. PICK l \in BOOLEAN : socks' = [socks EXCEPT ![fd] =
                [socks[fd] EXCEPT !.inq = @ + 1, !.sent = @ + 1, !.last = l]]
        <4>1. \E l \in BOOLEAN : socks' = [socks EXCEPT
                 ![fd].inq = @ + 1, ![fd].sent = @ + 1, ![fd].last = l]
          BY <2>2 DEF PeerSend
        <4> QED BY <4>1
      <3>2. /\ [socks[fd] EXCEPT !.inq = @ + 1, !.sent = @ + 1, !.last = l].fin = FALSE
            /\ [socks[fd] EXCEPT !.inq = @ + 1, !.sent = @ + 1, !.last = l].rst = "none"
        BY <1>1 DEF Sock
      <3> QED BY <1>1, <2>1, <3>1, <3>2
    <2>3. ASSUME NEW fd \in Fds, PeerReceive(fd)
          PROVE  \A g \in Fds : socks'[g].fin = FALSE /\ socks'[g].rst = "none"
      <3>1. socks' = [socks EXCEPT ![fd] =
                [socks[fd] EXCEPT !.outq = @ - 1, !.nospace = FALSE]]
        BY <2>3 DEF PeerReceive
      <3>2. /\ [socks[fd] EXCEPT !.outq = @ - 1, !.nospace = FALSE].fin = FALSE
            /\ [socks[fd] EXCEPT !.outq = @ - 1, !.nospace = FALSE].rst = "none"
        BY <1>1 DEF Sock
      <3> QED BY <1>1, <2>1, <3>1, <3>2
    <2>4. CASE UNCHANGED socks
      BY <1>1, <2>4
    <2>5. CASE PeerConnect \/ OtherThreadAccepts \/ \E fd \in Fds : Expire(fd)
      BY <2>4, <2>5 DEF PeerConnect, OtherThreadAccepts, Expire, kernelVars
    <2> QED BY <2>2, <2>3, <2>5 DEF Environment, PeerShutdown, PeerReset
  <1> QED BY <1>2, <1>3, QuietServes

\* The pool's invariant holds in the worker.
LEMMA PoolHolds == Spec => []Pool!CoInv
  <1>1. CoSpec => Pool!CoSpec
    BY SamePool, PTL DEF CoSpec, Co!CoSpec, Pool!CoSpec
  <1>2. Pool!CoSpec => []Pool!CoInv
    BY Pool!CoInvariant, BoundsAssumption
  <1> QED BY <1>1, <1>2, PoolRefinement, PTL

\* The types of the worker's own variables.
LEMMA WorkerTyped == Spec => []WorkerTypes
  <1>1. Init => WorkerTypes
    BY WorkerTypesInitial
  <1>2. OwnInv /\ WorkerTypes /\ [Next]_vars => WorkerTypes'
    BY WorkerTypesStep
  <1> QED BY <1>1, <1>2, OwnInvariant, PTL DEF Spec

LEMMA KnownHolds == Spec => []Known
  BY OwnInvariant, WorkerTyped, PoolHolds, PTL DEF Known

LEMMA ServeInitial == Init => ServeInv
  <1> SUFFICES ASSUME Init PROVE ServeInv
    OBVIOUS
  <1> QED BY DEF Init, ServeInv, Stays, Served, Handled, NoSock, Absent

LEMMA ServeStep ==
    ASSUME ~FaultyPeers, Known, ServeInv, [Next]_vars PROVE ServeInv'
  <1>1. CASE UNCHANGED vars
    <2>1. /\ UNCHANGED <<routines, frames, coroutines, connections, socks>>
          /\ UNCHANGED <<pc, handling, current>>
      BY <1>1 DEF vars, coVars, workVars, loopVars, kernelVars
    <2> QED BY <2>1, NobodyLeft, QuietServes
  <1> QED BY <1>1, CoroutineServes, LoopServes, EnvironmentServes DEF Next, Worker

\* Every connection of peers that stay keeps its own coroutine.
THEOREM ServeInvariant == ASSUME ~FaultyPeers PROVE Spec => []ServeInv
  <1>1. Known /\ ServeInv /\ [Next]_vars => ServeInv'
    BY ServeStep
  <1> QED BY <1>1, ServeInitial, KnownHolds, PTL DEF Spec

\* A part of a request that readRequest has put into the buffer is not lost:
\* the coroutine that the next event resumes goes on with it, whatever the
\* timeouts, epoll and the clock do (BaseHTTPServer.cpp:174-179, 309-318).
THEOREM RequestsKept == ASSUME ~FaultyPeers PROVE Spec => []PartialRequestKept
  <1>1. Known /\ ServeInv => PartialRequestKept
    <2> SUFFICES ASSUME Known, ServeInv, pc \notin {"coro", "after"},
                        NEW fd \in Fds, connections[fd].buf > 0
                 PROVE  LET id == coroutines[fd] IN
                          /\ id \in Co!Ids /\ frames[id].live
                          /\ routines[id].func = fd
                          /\ routines[id].phase \in {"fresh", "suspended"}
      BY DEF PartialRequestKept
    <2> QED BY AtRest DEF RoutineOf, LocalsOf
  <1> QED BY <1>1, ServeInvariant, KnownHolds, PTL

-----------------------------------------------------------------------------
(***************************************************************************)
(* Requests and answers, counted in parts, among peers that stay.  Between *)
(* two answers a connection has been sent whole responses only, one for    *)
(* each request that was read to its end; a peer is at most one request    *)
(* ahead of the whole responses it has.                                    *)
(***************************************************************************)
Req(a) == ReqParts * a
Resp(a) == RespParts * a

\* The connection's coroutine is writing a response.
Writing(fd) == /\ coroutines[fd] # 0
               /\ RoutineOf(fd).phase # "ended" /\ LocalsOf(fd).pc = "write"

\* After a answers; while the next response is being written; neither.
Between(s, buf, a) ==
    /\ s.wrote = Resp(a)
    /\ s.sent - s.inq >= Req(a) + buf
    /\ s.sent <= Req(a + 1)

InAnswer(s, buf, f, a) ==
    /\ s.wrote + f.left = Resp(a + 1) /\ buf # 0
    /\ s.sent - s.inq >= Req(a + 1)
    /\ s.sent <= IF f.left > 0 THEN Req(a + 1) ELSE Req(a + 2)
    /\ ~f.keep => s.sent = Req(a + 1) /\ s.last

Settled(s, buf) == \E a \in Nat : Between(s, buf, a)
Answering(s, buf, f) == \E a \in Nat : InAnswer(s, buf, f, a)

Counted(fd) ==
    IF ~socks[fd].open THEN socks[fd] = NoSock
    ELSE IF Writing(fd)
         THEN Answering(socks[fd], connections[fd].buf, LocalsOf(fd))
         ELSE Settled(socks[fd], connections[fd].buf)

CountInv == \A fd \in Fds : Counted(fd)

\* Multiples of a positive number.
LEMMA Products ==
    ASSUME NEW n \in Nat \ {0}, NEW a \in Nat, NEW b \in Nat
    PROVE  /\ n * a \in Nat /\ n * 0 = 0
           /\ n * (a + 1) = n * a + n
           /\ a <= b => n * a <= n * b
           /\ n * b <= n * a => b <= a
  <1>1. n * a \in Nat /\ n * 0 = 0 /\ n * (a + 1) = n * a + n
    OBVIOUS
  <1>2. ASSUME a <= b PROVE n * a <= n * b
    BY <1>2
  <1>3. ASSUME b > a PROVE n * b > n * a
    BY <1>3
  <1> QED BY <1>1, <1>2, <1>3

\* Quotients by a positive number.
LEMMA Quotients ==
    ASSUME NEW n \in Nat \ {0}, NEW a \in Nat, NEW x \in Nat
    PROVE  /\ n * a <= x => a <= x \div n
           /\ x \div n \in Nat
           /\ (n * a) % n = 0
  <1>1. /\ x \div n \in Nat /\ x % n \in 0 .. n - 1
        /\ x = n * (x \div n) + (x % n)
    OBVIOUS
  <1>2. ASSUME n * a <= x PROVE a <= x \div n
    <2> DEFINE q == x \div n
    <2>1. q \in Nat /\ n * a < n * (q + 1)
      BY <1>1, <1>2
    <2> HIDE DEF q
    <2>2. a < q + 1
      BY <2>1, Products
    <2> QED BY <2>1, <2>2 DEF q
  <1>3. (n * a) % n = 0
    OBVIOUS
  <1> QED BY <1>1, <1>2, <1>3

\* What the counts need of them.
LEMMA ReqFacts ==
    ASSUME NEW a \in Nat
    PROVE  /\ Req(a) \in Nat /\ Req(0) = 0 /\ Req(a) % ReqParts = 0
           /\ Req(a + 1) = Req(a) + ReqParts /\ Req(a + 2) = Req(a + 1) + ReqParts
           /\ ReqParts \in Nat \ {0}
           /\ \A b \in Nat : b <= a => Req(b) <= Req(a)
  <1>1. ReqParts \in Nat \ {0} /\ a + 1 \in Nat /\ (a + 1) + 1 = a + 2
    BY BoundsAssumption
  <1>2. Req(a) \in Nat /\ Req(0) = 0 /\ Req(a + 1) = Req(a) + ReqParts
    BY <1>1, Products DEF Req
  <1>3. Req((a + 1) + 1) = Req(a + 1) + ReqParts
    BY <1>1, Products DEF Req
  <1>4. Req(a) % ReqParts = 0
    BY <1>1, Quotients DEF Req
  <1>5. \A b \in Nat : b <= a => Req(b) <= Req(a)
    BY <1>1, Products DEF Req
  <1> QED BY <1>1, <1>2, <1>3, <1>4, <1>5

LEMMA RespFacts ==
    ASSUME NEW a \in Nat
    PROVE  /\ Resp(a) \in Nat /\ Resp(0) = 0
           /\ Resp(a + 1) = Resp(a) + RespParts
           /\ RespParts \in Nat \ {0}
           /\ \A b \in Nat : /\ b <= a => Resp(b) <= Resp(a)
                             /\ Resp(b) <= Resp(a) => b <= a
  <1>1. RespParts \in Nat \ {0}
    BY BoundsAssumption
  <1>2. Resp(a) \in Nat /\ Resp(0) = 0 /\ Resp(a + 1) = Resp(a) + RespParts
    BY <1>1, Products DEF Resp
  <1>3. \A b \in Nat : /\ b <= a => Resp(b) <= Resp(a)
                       /\ Resp(b) <= Resp(a) => b <= a
    BY <1>1, Products DEF Resp
  <1> QED BY <1>1, <1>2, <1>3

\* readRequest takes a part from the socket into the buffer.
LEMMA ReadBalance ==
    ASSUME NEW s \in Sock, NEW buf \in Nat, Settled(s, buf),
           s.inq > 0, NEW t \in Sock, t = [s EXCEPT !.inq = @ - 1]
    PROVE  Settled(t, buf + 1)
  <1>1. PICK a \in Nat : Between(s, buf, a)
    BY DEF Settled
  <1>2. t.wrote = s.wrote /\ t.sent = s.sent /\ t.inq = s.inq - 1
        /\ s.sent \in Nat /\ s.inq \in Nat
    BY DEF Sock
  <1>3. Between(t, buf + 1, a)
    BY <1>1, <1>2, ReqFacts DEF Between
  <1> QED BY <1>3 DEF Settled

\* The request is complete: the response to it begins.
LEMMA ParseBalance ==
    ASSUME NEW s \in Sock, NEW buf \in Nat, NEW g \in Frame,
           Settled(s, buf), buf >= ReqParts, s.inq = 0,
           g.left = RespParts, g.keep = ~s.last
    PROVE  Answering(s, buf, g)
  <1>1. PICK a \in Nat : Between(s, buf, a)
    BY DEF Settled
  <1>2. s.wrote \in Nat /\ s.sent \in Nat
    BY DEF Sock
  <1>3. /\ Req(a) \in Nat /\ Req(a + 1) = Req(a) + ReqParts /\ ReqParts \in Nat \ {0}
        /\ Resp(a + 1) = Resp(a) + RespParts /\ RespParts \in Nat \ {0}
    BY ReqFacts, RespFacts
  <1>4. s.sent = Req(a + 1) /\ s.sent - s.inq >= Req(a + 1) /\ buf # 0
    BY <1>1, <1>2, <1>3 DEF Between
  <1>5. s.wrote + g.left = Resp(a + 1) /\ g.left > 0
    BY <1>1, <1>2, <1>3 DEF Between
  <1>6. s.sent <= IF g.left > 0 THEN Req(a + 1) ELSE Req(a + 2)
    BY <1>2, <1>4, <1>5
  <1>7. ~g.keep => s.last
    BY Zenon
  <1>8. InAnswer(s, buf, g, a)
    BY <1>4, <1>5, <1>6, <1>7 DEF InAnswer
  <1> QED BY <1>8 DEF Answering

\* writeResponse has written n parts.
LEMMA WriteBalance ==
    ASSUME NEW s \in Sock, NEW buf \in Nat, NEW f \in Frame, NEW n \in Nat,
           n <= f.left, f.left > 0, Answering(s, buf, f),
           NEW t \in Sock, t = [s EXCEPT !.outq = @ + n, !.wrote = @ + n],
           NEW g \in Frame, g = [f EXCEPT !.left = @ - n]
    PROVE  Answering(t, buf, g)
  <1>1. PICK a \in Nat : InAnswer(s, buf, f, a)
    BY DEF Answering
  <1>2. /\ t.wrote = s.wrote + n /\ t.sent = s.sent /\ t.inq = s.inq
        /\ t.last = s.last /\ s.wrote \in Nat /\ s.sent \in Nat /\ s.inq \in Nat
    BY DEF Sock
  <1>3. g.left = f.left - n /\ g.keep = f.keep /\ f.left \in Nat
    BY DEF Frame
  <1>4. t.wrote + g.left = Resp(a + 1)
    BY <1>1, <1>2, <1>3, RespFacts DEF InAnswer
  <1>5. s.sent <= Req(a + 1) /\ Req(a + 1) <= Req(a + 2)
    BY <1>1, ReqFacts DEF InAnswer
  <1>6. t.sent <= IF g.left > 0 THEN Req(a + 1) ELSE Req(a + 2)
    BY <1>2, <1>5, ReqFacts
  <1>7. InAnswer(t, buf, g, a)
    BY <1>1, <1>2, <1>3, <1>4, <1>6 DEF InAnswer
  <1> QED BY <1>7 DEF Answering

\* The whole response is out and the buffer is cleared.
LEMMA AnswerBalance ==
    ASSUME NEW s \in Sock, NEW buf, NEW f,
           f.left = 0, Answering(s, buf, f)
    PROVE  Settled(s, 0)
  <1>1. PICK a \in Nat : InAnswer(s, buf, f, a)
    BY DEF Answering
  <1>2. a + 1 \in Nat /\ (a + 1) + 1 = a + 2 /\ s.wrote \in Nat
    BY DEF Sock
  <1>3. Req(a + 1) \in Nat
    BY <1>2, ReqFacts
  <1>4. s.wrote = Resp(a + 1)
    BY <1>1, <1>2 DEF InAnswer
  <1>5. s.sent - s.inq >= Req(a + 1) + 0
    BY <1>1, <1>3 DEF InAnswer
  <1>6. s.sent <= Req((a + 1) + 1)
    BY <1>1, <1>2 DEF InAnswer
  <1>7. Between(s, 0, a + 1)
    BY <1>4, <1>5, <1>6 DEF Between
  <1> QED BY <1>2, <1>7 DEF Settled

\* A part of a request on its way: the last one of it when l.
Follows(s, l) == IF s.sent % ReqParts = 0 THEN ~s.last ELSE l = s.last
SentPart(s, l) == [s EXCEPT !.inq = @ + 1, !.sent = @ + 1, !.last = l]

\* A peer sends the first part of its next request when it has the whole last
\* response, and the other parts of a request at any time.
LEMMA SendBalance ==
    ASSUME NEW s \in Sock, NEW buf \in Nat, NEW f \in Frame, NEW k \in Nat \ {0},
           s.wrote - s.outq >= Resp(k - 1), s.sent < Req(k),
           NEW l \in BOOLEAN, Follows(s, l),
           NEW t \in Sock, t = SentPart(s, l)
    PROVE  /\ Settled(s, buf) => Settled(t, buf)
           /\ Answering(s, buf, f) => Answering(t, buf, f)
  <1>1. /\ t.wrote = s.wrote /\ t.sent = s.sent + 1 /\ t.inq = s.inq + 1
        /\ t.last = l /\ s.wrote \in Nat /\ s.sent \in Nat /\ s.inq \in Nat
        /\ s.outq \in Nat
    BY DEF Sock, SentPart
  <1>2. k - 1 \in Nat /\ Resp(k - 1) <= s.wrote /\ Resp(k - 1) \in Nat
    <2>1. k - 1 \in Nat
      OBVIOUS
    <2>2. Resp(k - 1) \in Nat
      BY <2>1, RespFacts
    <2> QED BY <1>1, <2>1, <2>2
  <1>3. ASSUME Settled(s, buf) PROVE Settled(t, buf)
    <2>1. PICK a \in Nat : Between(s, buf, a)
      BY <1>3 DEF Settled
    <2>2. k - 1 <= a
      BY <1>2, <2>1, RespFacts DEF Between
    <2>3. Req(k) <= Req(a + 1) /\ Req(k) \in Nat /\ Req(a + 1) \in Nat /\ Req(a) \in Nat
      <3>1. a + 1 \in Nat /\ k \in Nat /\ k <= a + 1
        BY <1>2, <2>2
      <3>2. Req(k) <= Req(a + 1)
        BY <3>1, ReqFacts
      <3>3. Req(k) \in Nat /\ Req(a + 1) \in Nat /\ Req(a) \in Nat
        BY <3>1, ReqFacts
      <3> QED BY <3>2, <3>3
    <2>4. Between(t, buf, a)
      BY <1>1, <2>1, <2>3 DEF Between
    <2> QED BY <2>4 DEF Settled
  <1>4. ASSUME Answering(s, buf, f) PROVE Answering(t, buf, f)
    <2>1. PICK a \in Nat : InAnswer(s, buf, f, a)
      BY <1>4 DEF Answering
    <2>2. f.left \in Nat /\ f.keep \in BOOLEAN
      BY DEF Frame
    <2>3. /\ Resp(a + 1) \in Nat /\ Req(a + 1) \in Nat /\ Req(a + 2) \in Nat
          /\ Req(k) \in Nat
      <3>1. a + 1 \in Nat /\ a + 2 \in Nat /\ k \in Nat
        OBVIOUS
      <3>2. Req(a + 1) \in Nat /\ Req(a + 2) \in Nat /\ Req(k) \in Nat
        BY <3>1, ReqFacts
      <3>3. Resp(a + 1) \in Nat
        BY <3>1, RespFacts
      <3> QED BY <3>2, <3>3
    <2>4. t.sent <= IF f.left > 0 THEN Req(a + 1) ELSE Req(a + 2)
      <3>1. CASE f.left > 0
        <4>1. Resp(k - 1) < Resp(a + 1)
          BY <1>1, <1>2, <2>1, <2>2, <2>3, <3>1 DEF InAnswer
        <4>2. k - 1 <= a
          <5>1. a + 1 \in Nat /\ (a + 1 <= k - 1 => Resp(a + 1) <= Resp(k - 1))
            BY <1>2, RespFacts
          <5> QED BY <1>2, <2>3, <4>1, <5>1
        <4>3. Req(k) <= Req(a + 1)
          <5>1. a + 1 \in Nat /\ k <= a + 1
            BY <4>2
          <5> QED BY <5>1, ReqFacts
        <4> QED BY <1>1, <2>3, <3>1, <4>3
      <3>2. CASE ~(f.left > 0)
        <4>1. Resp(k - 1) <= Resp(a + 1)
          BY <1>1, <1>2, <2>1, <2>2, <2>3, <3>2 DEF InAnswer
        <4>2. k - 1 <= a + 1
          BY <1>2, <4>1, RespFacts
        <4>3. Req(k) <= Req(a + 2)
          <5>1. a + 2 \in Nat /\ k <= a + 2
            BY <4>2
          <5> QED BY <5>1, ReqFacts
        <4> QED BY <1>1, <2>3, <3>2, <4>3
      <3> QED BY <3>1, <3>2
    <2>5. f.keep
      <3>1. SUFFICES ASSUME ~f.keep PROVE FALSE
        OBVIOUS
      <3>2. s.sent = Req(a + 1) /\ s.last
        BY <2>1, <3>1 DEF InAnswer
      <3>3. s.sent % ReqParts = 0
        <4>1. a + 1 \in Nat
          OBVIOUS
        <4> QED BY <3>2, <4>1, ReqFacts
      <3> QED BY <3>2, <3>3 DEF Follows
    <2>6. InAnswer(t, buf, f, a)
      BY <1>1, <2>1, <2>3, <2>4, <2>5 DEF InAnswer
    <2> QED BY <2>6 DEF Answering
  <1> QED BY <1>3, <1>4

\* A peer that connects may have sent its first request, or a part of it.
LEMMA AcceptBalance ==
    ASSUME NEW parts \in Early, NEW last \in BOOLEAN
    PROVE  Settled(Accepted(parts, last), 0)
  <1>1. /\ Accepted(parts, last).wrote = 0
        /\ Accepted(parts, last).sent = parts /\ Accepted(parts, last).inq = parts
    BY DEF Accepted, NoSock
  <1>2. parts \in Nat /\ parts <= ReqParts
    BY BoundsAssumption DEF Early
  <1>3. Req(0) = 0 /\ Req(0 + 1) = ReqParts /\ Resp(0) = 0
    <2>1. 0 \in Nat
      OBVIOUS
    <2> QED BY <2>1, ReqFacts, RespFacts
  <1>4. Between(Accepted(parts, last), 0, 0)
    BY <1>1, <1>2, <1>3 DEF Between
  <1> QED BY <1>4 DEF Settled

-----------------------------------------------------------------------------

\* A step that leaves a connection's counts and its coroutine's locals alone.
LEMMA SameCount ==
    ASSUME NEW g, Counted(g), socks'[g] = socks[g],
           connections'[g].buf = connections[g].buf, coroutines'[g] = coroutines[g],
           coroutines[g] # 0 =>
              /\ RoutineOf(g)'.phase = "ended" <=> RoutineOf(g).phase = "ended"
              /\ LocalsOf(g)' = LocalsOf(g)
    PROVE  Counted(g)'
  <1>1. Writing(g)' <=> Writing(g)
    BY DEF Writing
  <1>2. Writing(g) => LocalsOf(g)' = LocalsOf(g)
    BY DEF Writing
  <1> QED BY <1>1, <1>2 DEF Counted

\* The counts of the connections that are not in hand.
LEMMA OthersCounted ==
    ASSUME Known, ServeInv, CountInv, NEW g \in Fds, pc = "coro", g # handling,
           coroutines' = coroutines, connections'[g] = connections[g],
           socks'[g] = socks[g],
           \A i \in Co!Ids : i # current => routines'[i] = routines[i],
           \A i \in 1 .. MaxRoutines : i # current => frames'[i] = frames[i]
    PROVE  Counted(g)'
  <1>1. ASSUME coroutines[g] # 0
        PROVE  /\ coroutines[g] # current /\ coroutines[g] \in Co!Ids
               /\ coroutines[g] \in 1 .. MaxRoutines
    BY <1>1, InHand, PoolFacts DEF ServeInv, Served, Serves, Known
  <1>2. Counted(g)
    BY DEF CountInv
  <1> QED BY <1>1, <1>2, SameCount DEF RoutineOf, LocalsOf

\* The steps of a coroutine.
LEMMA CoroutineCounts ==
    ASSUME Known, ServeInv, CountInv, CoroutineStep PROVE CountInv'
  <1>1. pc = "coro" /\ coroutines' = coroutines /\ frames \in [1 .. MaxRoutines -> Frame]
        /\ connections \in [Fds -> Connection] /\ socks \in [Fds -> Sock]
        /\ RespParts \in Nat
    BY NothingToThrow, BoundsAssumption
    DEF Runs, ReadData, ReadAgain, WriteData, WriteAgain, Answer, workVars,
        Known, WorkerTypes, OwnInv, Shape
  <1>2. /\ handling \in Fds /\ connections[handling].st = "open"
        /\ current = coroutines[handling] /\ current \in Co!Ids
        /\ current \in 1 .. MaxRoutines /\ Own = handling
        /\ routines[current].phase = "running" /\ ~routines[current].exception
    BY <1>1, InHand
  <1>3. /\ socks[handling].open /\ socks[handling] \in Sock
        /\ connections[handling] \in Connection /\ connections[handling].buf \in Nat
        /\ Frm \in Frame /\ Frm = LocalsOf(handling) /\ current # 0
        /\ RoutineOf(handling) = routines[current]
    BY <1>1, <1>2, PoolFacts
    DEF Known, OwnInv, SocketsOwned, Connection, Frm, LocalsOf, RoutineOf
  <1>4. Writing(handling) <=> Frm.pc = "write"
    BY <1>2, <1>3 DEF Writing
  <1>5. /\ Frm.pc = "read" =>
              Settled(socks[handling], connections[handling].buf)
        /\ Frm.pc = "write" =>
              Answering(socks[handling], connections[handling].buf, Frm)
    BY <1>2, <1>3, <1>4 DEF CountInv, Counted
  \* Nothing but the routine that runs, the connection in hand and its socket.
  <1> DEFINE Local ==
        /\ \A i \in Co!Ids : i # current => routines'[i] = routines[i]
        /\ \A i \in 1 .. MaxRoutines : i # current => frames'[i] = frames[i]
        /\ \A g \in Fds : g # handling => connections'[g] = connections[g]
        /\ \A g \in Fds : g # handling => socks'[g] = socks[g]
  <1>6. ASSUME Local, Counted(handling)' , handling' = handling PROVE CountInv'
    <2>1. ASSUME NEW g \in Fds, g # handling PROVE Counted(g)'
      BY <1>1, <1>6, <2>1, OthersCounted
    <2>2. ASSUME NEW g \in Fds PROVE Counted(g)'
      <3>1. CASE g = handling
        BY <1>6, <3>1
      <3> QED BY <2>1, <3>1
    <2> QED BY <2>2 DEF CountInv
  <1>7. CASE ReadData
    <2> DEFINE t == [socks[handling] EXCEPT !.inq = @ - 1]
    <2>1. /\ connections'[handling] = [connections[handling] EXCEPT !.buf = @ + 1]
          /\ \A g \in Fds : g # handling => connections'[g] = connections[g]
          /\ Frm.pc = "read"
      BY <1>1, <1>2, <1>7 DEF ReadData, Runs
    <2>2. connections'[handling].buf = connections[handling].buf + 1
      BY <1>3, <2>1 DEF Connection
    <2>3. socks' = [socks EXCEPT ![Own] = [socks[Own] EXCEPT !.inq = @ - 1]]
          /\ UNCHANGED <<routines, frames, handling>> /\ socks[Own].inq # 0
      BY <1>7 DEF ReadData, coVars, loopVars, Drained
    <2>4. /\ socks'[handling] = t
          /\ \A g \in Fds : g # handling => socks'[g] = socks[g]
      BY <1>1, <1>2, <2>3
    <2>5. socks[handling].inq > 0
      BY <1>2, <1>3, <2>3 DEF Sock
    <2>6. t \in Sock
      BY <1>3, <2>5, SockUpdates
    <2>7. t.open
      BY <1>3 DEF Sock
    <2>8. Settled(t, connections[handling].buf + 1)
      <3> HIDE DEF t
      <3>1. t = [socks[handling] EXCEPT !.inq = @ - 1]
        BY DEF t
      <3> QED BY <1>3, <1>5, <2>1, <2>5, <2>6, <3>1, ReadBalance
    <2>9. ~Writing(handling)'
      BY <1>1, <1>3, <2>1, <2>3 DEF Writing, LocalsOf
    <2>10. Counted(handling)'
      <3> HIDE DEF t
      <3> QED BY <2>2, <2>3, <2>4, <2>7, <2>8, <2>9 DEF Counted
    <2> QED BY <1>6, <2>1, <2>3, <2>4, <2>10
  <1>8. CASE ReadAgain /\ RequestComplete(Own) /\ UNCHANGED <<coVars, loopVars>>
             /\ frames' = [frames EXCEPT ![current] = [@ EXCEPT
                   !.pc = "write", !.left = RespParts, !.keep = ~socks[Own].last]]
    <2>1. /\ UNCHANGED <<routines, handling, connections, socks>> /\ Frm.pc = "read"
          /\ socks[handling].inq = 0 /\ connections[handling].buf >= ReqParts
      BY <1>2, <1>8 DEF ReadAgain, Runs, Drained, RequestComplete, coVars, workVars,
                        loopVars, kernelVars
    <2> DEFINE k == ~socks[handling].last
               g == [Frm EXCEPT !.pc = "write", !.left = RespParts, !.keep = k]
    <2>2. socks[handling].last \in BOOLEAN
      BY <1>3 DEF Sock
    <2>3. k \in BOOLEAN
      BY Zenon
    <2>4. frames' = [frames EXCEPT ![current] = g]
      BY <1>2, <1>8 DEF Frm
    <2> HIDE DEF k
    <2>5. g.pc = "write" /\ g.left = RespParts /\ g.keep = k /\ g \in Frame
      BY <1>1, <1>3, <2>3 DEF Frame
    <2> HIDE DEF g
    <2>6. LocalsOf(handling)' = g /\ Writing(handling)'
      BY <1>1, <1>2, <1>3, <2>1, <2>4, <2>5 DEF LocalsOf, RoutineOf, Writing
    <2>7. g.keep = ~socks[handling].last
      BY <2>5 DEF k
    <2>8. Answering(socks[handling], connections[handling].buf, g)
      BY <1>3, <1>5, <2>1, <2>5, <2>7, ParseBalance
    <2>9. Counted(handling)'
      BY <1>3, <2>1, <2>6, <2>8 DEF Counted
    <2>10. \A i \in 1 .. MaxRoutines : i # current => frames'[i] = frames[i]
      BY <1>1, <2>4
    <2> QED BY <1>6, <2>1, <2>9, <2>10
  <1>9. CASE YieldToLoop /\ UNCHANGED <<frames, connections>>
             /\ \/ ReadAgain /\ UNCHANGED socks
                \/ /\ WriteAgain
                   /\ socks' = [socks EXCEPT ![Own] = [socks[Own] EXCEPT !.nospace = TRUE]]
    <2>1. Turns("suspended") /\ Returns
      BY <1>2, <1>9, YieldEffect
    <2>2. /\ socks'[handling].open = socks[handling].open
          /\ socks'[handling].wrote = socks[handling].wrote
          /\ socks'[handling].sent = socks[handling].sent
          /\ socks'[handling].inq = socks[handling].inq
          /\ socks'[handling].last = socks[handling].last
          /\ \A g \in Fds : g # handling => socks'[g] = socks[g]
      <3>1. CASE UNCHANGED socks
        BY <3>1
      <3>2. CASE socks' = [socks EXCEPT ![Own] = [socks[Own] EXCEPT !.nospace = TRUE]]
        <4> DEFINE t == [socks[handling] EXCEPT !.nospace = TRUE]
        <4>1. /\ t.open = socks[handling].open /\ t.wrote = socks[handling].wrote
              /\ t.sent = socks[handling].sent /\ t.inq = socks[handling].inq
              /\ t.last = socks[handling].last
          BY <1>3 DEF Sock
        <4>2. socks' = [socks EXCEPT ![handling] = t]
          BY <1>2, <3>2
        <4> HIDE DEF t
        <4> QED BY <1>1, <1>2, <4>1, <4>2
      <3> QED BY <1>9, <3>1, <3>2
    <2>3. LocalsOf(handling)' = LocalsOf(handling) /\ (Writing(handling)' <=> Writing(handling))
      BY <1>1, <1>2, <1>3, <1>9, <2>1
      DEF LocalsOf, RoutineOf, Writing, Turns, Returns
    <2>4. /\ Settled(socks[handling], connections[handling].buf) =>
                Settled(socks'[handling], connections[handling].buf)
          /\ Answering(socks[handling], connections[handling].buf, Frm) =>
                Answering(socks'[handling], connections[handling].buf, Frm)
      BY <2>2 DEF Settled, Answering, Between, InAnswer
    <2>5. Frm.pc \in {"read", "write"}
      BY <1>3 DEF Frame
    <2>6. Counted(handling)'
      BY <1>3, <1>4, <1>5, <1>9, <2>1, <2>2, <2>3, <2>4, <2>5 DEF Counted, Returns
    <2> QED BY <1>6, <1>9, <2>1, <2>2, <2>6 DEF Turns, Returns
  <1>10. CASE WriteData
    <2>1. PICK n \in 1 .. RespParts :
             /\ n = Frm.left \/ n < Frm.left
             /\ socks' = [socks EXCEPT ![Own] =
                              [socks[Own] EXCEPT !.outq = @ + n, !.wrote = @ + n]]
             /\ frames' = [frames EXCEPT ![current] =
                              [frames[current] EXCEPT !.left = @ - n]]
      <3>1. \E n \in 1 .. RespParts :
             /\ n = Frm.left \/ n < Frm.left
             /\ socks' = Wrote(socks, Own, n)
             /\ frames' = [frames EXCEPT ![current].left = Remaining(@, n)]
        BY <1>10 DEF WriteData, Wrote
      <3> QED BY <3>1, TwoFields DEF Remaining
    <2>2. UNCHANGED <<routines, handling, connections>> /\ Frm.pc = "write" /\ Frm.left > 0
      BY <1>10 DEF WriteData, Runs, coVars, workVars, loopVars
    <2> DEFINE t == [socks[handling] EXCEPT !.outq = @ + n, !.wrote = @ + n]
               g == [Frm EXCEPT !.left = @ - n]
    <2>3. n \in Nat /\ n <= Frm.left
      BY <1>1, <1>3, <2>1 DEF Frame
    <2>4. t \in Sock /\ g \in Frame
      BY <1>3, <2>3, SockUpdates, FrameUpdates
    <2>5. t.open /\ g.pc = "write"
      BY <1>3, <2>2 DEF Sock, Frame
    <2>6. socks' = [socks EXCEPT ![handling] = t] /\ frames' = [frames EXCEPT ![current] = g]
      BY <1>2, <2>1 DEF Frm
    <2>7. Answering(t, connections[handling].buf, g)
      <3>1. t = [socks[handling] EXCEPT !.outq = @ + n, !.wrote = @ + n]
            /\ g = [Frm EXCEPT !.left = @ - n]
        OBVIOUS
      <3> HIDE DEF t, g
      <3> QED BY <1>3, <1>5, <2>2, <2>3, <2>4, <3>1, WriteBalance
    <2> HIDE DEF t, g
    <2>8. LocalsOf(handling)' = g /\ Writing(handling)'
      BY <1>1, <1>2, <1>3, <2>2, <2>5, <2>6 DEF LocalsOf, RoutineOf, Writing
    <2>9. /\ socks'[handling] = t
          /\ \A i \in Fds : i # handling => socks'[i] = socks[i]
          /\ \A i \in 1 .. MaxRoutines : i # current => frames'[i] = frames[i]
      BY <1>1, <1>2, <2>6
    <2>10. Counted(handling)'
      BY <2>2, <2>5, <2>7, <2>8, <2>9 DEF Counted
    <2> QED BY <1>6, <2>2, <2>9, <2>10
  <1>11. CASE Answer
    <2>1. Turns("ended") /\ Returns /\ UNCHANGED frames /\ Frm.pc = "write" /\ Frm.left = 0
      BY <1>2, <1>11, FinishEffect DEF Answer, Runs
    <2>2. /\ \A g \in Fds : g # handling =>
                connections'[g] = connections[g] /\ socks'[g] = socks[g]
          /\ socks'[handling] \in {socks[handling], NoSock}
          /\ connections'[handling].buf = 0
      <3>1. CASE Frm.keep
        <4>1. /\ connections' = [connections EXCEPT ![handling] = [@ EXCEPT !.buf = 0]]
              /\ UNCHANGED socks
          BY <1>2, <1>11, <3>1 DEF Answer
        <4> QED BY <1>1, <1>2, <4>1 DEF Connection
      <3>2. CASE ~Frm.keep
        <4>1. /\ connections' = [connections EXCEPT ![handling] =
                                     [@ EXCEPT !.buf = 0, !.st = "closed"]]
              /\ socks' = [socks EXCEPT ![handling] = NoSock]
          BY <1>2, <1>11, <3>2 DEF Answer, CloseSock
        <4> QED BY <1>1, <1>2, <4>1 DEF Connection
      <3> QED BY <3>1, <3>2
    <2>3. ~Writing(handling)'
      BY <1>1, <1>2, <2>1 DEF Writing, RoutineOf, Turns, Returns
    <2>4. Settled(socks[handling], 0)
      BY <1>3, <1>5, <2>1, AnswerBalance
    <2>5. ~NoSock.open
      BY DEF NoSock
    <2>6. Counted(handling)'
      BY <1>3, <2>1, <2>2, <2>3, <2>4, <2>5 DEF Counted, Returns
    <2> QED BY <1>6, <2>1, <2>2, <2>6 DEF Turns, Returns
  <1>12. CASE ReadAgain
    BY <1>8, <1>9, <1>12 DEF ReadAgain, workVars, kernelVars
  <1>13. CASE WriteAgain
    BY <1>9, <1>13 DEF WriteAgain, workVars
  <1> QED BY <1>7, <1>10, <1>11, <1>12, <1>13, NothingToThrow

\* A step of the loop that leaves a connection's side of the socket alone, its
\* coroutine running, suspended or fresh as it was.
LEMMA LoopSameCount ==
    ASSUME Known, ServeInv, CountInv, NEW g \in Fds, pc # "coro",
           ~(pc = "after" /\ handling = g),
           connections'[g] = connections[g], socks'[g] = socks[g],
           coroutines'[g] = coroutines[g],
           \A i \in Co!Ids : routines[i].phase # "ended" /\ routines[i].func = g
              /\ i = coroutines[g] =>
                 routines'[i].phase # "ended" /\ frames'[i] = frames[i]
    PROVE  Counted(g)'
  <1>1. Counted(g)
    BY DEF CountInv
  <1>2. ASSUME coroutines[g] # 0
        PROVE  /\ RoutineOf(g)'.phase = "ended" <=> RoutineOf(g).phase = "ended"
               /\ LocalsOf(g)' = LocalsOf(g)
    BY <1>2, AtRest DEF RoutineOf, LocalsOf
  <1> QED BY <1>1, <1>2, SameCount

\* disconnectClient ends the account of its own connection only.
LEMMA DisconnectCounts ==
    ASSUME Known, ServeInv, CountInv, NEW fd \in Fds, Disconnect(fd),
           UNCHANGED routines, pc # "coro", pc = "after" => handling = fd
    PROVE  CountInv'
  <1>0. /\ connections \in [Fds -> Connection] /\ socks \in [Fds -> Sock]
        /\ coroutines \in [Fds -> 0 .. MaxRoutines] /\ ~NoSock.open
    BY DEF Known, WorkerTypes, OwnInv, Shape, NoSock
  <1>1. /\ connections' = [connections EXCEPT ![fd] = Absent]
        /\ coroutines' = [coroutines EXCEPT ![fd] = 0]
    BY DEF Disconnect
  <1>2. \A i \in 1 .. MaxRoutines :
            i \in Co!Ids /\ routines[i].func # fd => frames'[i] = frames[i]
    BY DEF Disconnect
  <1>3. socks'[fd] = NoSock /\ \A g \in Fds : g # fd => socks'[g] = socks[g]
    <2>1. CASE connections[fd].st \in {"open", "eof"}
      BY <1>0, <2>1 DEF Disconnect, CloseSock
    <2>2. CASE connections[fd].st \notin {"open", "eof"}
      <3>1. ~socks[fd].open /\ UNCHANGED socks
        BY <2>2 DEF Disconnect, Known, OwnInv, SocketsOwned
      <3>2. socks[fd] = NoSock
        BY <3>1 DEF CountInv, Counted
      <3> QED BY <3>1, <3>2
    <2> QED BY <2>1, <2>2
  <1>4. ASSUME NEW g \in Fds, g # fd PROVE Counted(g)'
    <2>1. /\ connections'[g] = connections[g] /\ coroutines'[g] = coroutines[g]
          /\ socks'[g] = socks[g] /\ ~(pc = "after" /\ handling = g)
      BY <1>0, <1>1, <1>3, <1>4
    <2>2. \A i \in Co!Ids : routines[i].phase # "ended" /\ routines[i].func = g
              /\ i = coroutines[g] =>
                 routines'[i].phase # "ended" /\ frames'[i] = frames[i]
      BY <1>2, <1>4, PoolFacts DEF Known
    <2> QED BY <2>1, <2>2, LoopSameCount
  <1>5. Counted(fd)'
    BY <1>0, <1>3 DEF Counted
  <1>6. ASSUME NEW g \in Fds PROVE Counted(g)'
    BY <1>4, <1>5
  <1> QED BY <1>6 DEF CountInv

\* create() for a connection that is settled, or just accepted.
LEMMA CreateCounts ==
    ASSUME Known, ServeInv, CountInv, NEW fd \in Fds, CreateFor(fd),
           socks'[fd].open, Settled(socks'[fd], connections'[fd].buf),
           \A g \in Fds : g # fd => /\ connections'[g] = connections[g]
                                    /\ socks'[g] = socks[g],
           pc # "coro", pc = "after" => handling = fd
    PROVE  CountInv'
  <1>1. PICK id : Created(fd, id)
    BY CreateEffect
  <1>2. ~Writing(fd)'
    BY <1>1 DEF Created, Writing, RoutineOf, LocalsOf, NewFrame
  <1>3. Counted(fd)'
    BY <1>2 DEF Counted
  <1>4. ASSUME NEW g \in Fds, g # fd PROVE Counted(g)'
    <2>1. /\ connections'[g] = connections[g] /\ coroutines'[g] = coroutines[g]
          /\ socks'[g] = socks[g] /\ ~(pc = "after" /\ handling = g)
      BY <1>1, <1>4 DEF Created
    <2>2. \A i \in Co!Ids : routines[i].phase # "ended" /\ routines[i].func = g
              /\ i = coroutines[g] =>
                 routines'[i].phase # "ended" /\ frames'[i] = frames[i]
      BY <1>1 DEF Created, SameRoutine
    <2> QED BY <2>1, <2>2, LoopSameCount
  <1>5. ASSUME NEW g \in Fds PROVE Counted(g)'
    BY <1>3, <1>4
  <1> QED BY <1>5 DEF CountInv

\* A step that leaves connections, coroutines and their locals alone.
LEMMA QuietCounts ==
    ASSUME Known, ServeInv, CountInv,
           UNCHANGED <<routines, frames, coroutines, connections, socks>>
    PROVE  CountInv'
  <1>1. ASSUME NEW g \in Fds PROVE Counted(g)'
    BY <1>1, SameCount DEF CountInv, RoutineOf, LocalsOf
  <1> QED BY <1>1 DEF CountInv

\* The steps of run().
LEMMA LoopCounts ==
    ASSUME Known, ServeInv, CountInv, LoopStep PROVE CountInv'
  <1>0. /\ connections \in [Fds -> Connection] /\ socks \in [Fds -> Sock]
    BY DEF Known, WorkerTypes, OwnInv, Shape
  <1>1. ASSUME NEW fd \in Fds, NEW parts \in Early, NEW last \in BOOLEAN,
               socks' = [socks EXCEPT ![fd] = Accepted(parts, last)],
               connections' = [connections EXCEPT ![fd] = Opened]
        PROVE  /\ socks'[fd].open /\ Settled(socks'[fd], connections'[fd].buf)
               /\ \A g \in Fds : g # fd => /\ connections'[g] = connections[g]
                                           /\ socks'[g] = socks[g]
    <2>1. Accepted(parts, last).open /\ Opened.buf = 0
      BY DEF Accepted, NoSock, Opened
    <2>2. socks'[fd] = Accepted(parts, last) /\ connections'[fd] = Opened
      BY <1>0, <1>1
    <2>3. Settled(Accepted(parts, last), 0)
      BY AcceptBalance
    <2> QED BY <1>0, <1>1, <2>1, <2>2, <2>3
  <1>2. ASSUME NEW fd \in Fds, DropExpired(fd) PROVE CountInv'
    <2>1. /\ pc = "drop" /\ Disconnect(fd) /\ UNCHANGED routines
      BY <1>2 DEF DropExpired, Co!Leave
    <2> QED BY <2>1, DisconnectCounts
  <1>3. CASE DropDone \/ EpollWait \/ EpollTimeout \/ BatchDone \/ AcceptFails
    <2>1. UNCHANGED <<routines, frames, coroutines, connections, socks>>
      BY <1>3 DEF DropDone, EpollWait, EpollTimeout, BatchDone, AcceptFails,
                  coVars, workVars, kernelVars
    <2> QED BY <2>1, QuietCounts
  <1>4. ASSUME NEW fd \in Fds, AcceptStale(fd) PROVE CountInv'
    <2>1. UNCHANGED <<routines, frames, coroutines, connections, socks>>
      BY <1>4 DEF AcceptStale, coVars, workVars
    <2> QED BY <2>1, QuietCounts
  <1>5. ASSUME NEW fd \in Fds, AcceptNoEpoll(fd) PROVE CountInv'
    <2>1. /\ UNCHANGED <<routines, frames, coroutines>>
          /\ pc = "batch" /\ fd \notin Present
          /\ connections' = [connections EXCEPT ![fd] = Opened]
      BY <1>5 DEF AcceptNoEpoll, Accepting, coVars
    <2>2. /\ socks'[fd].open /\ Settled(socks'[fd], connections'[fd].buf)
          /\ \A g \in Fds : g # fd => /\ connections'[g] = connections[g]
                                      /\ socks'[g] = socks[g]
      BY <1>1, <1>5 DEF AcceptNoEpoll
    <2>3. coroutines[fd] = 0
      BY <2>1, AtRest DEF Present
    <2>4. Counted(fd)'
      BY <2>1, <2>2, <2>3 DEF Counted, Writing
    <2>5. ASSUME NEW g \in Fds, g # fd PROVE Counted(g)'
      BY <2>1, <2>2, <2>5, LoopSameCount
    <2>6. ASSUME NEW g \in Fds PROVE Counted(g)'
      BY <2>4, <2>5
    <2> QED BY <2>6 DEF CountInv
  <1>6. ASSUME NEW fd \in Fds, Accept(fd) PROVE CountInv'
    <2>1. /\ pc = "batch" /\ CreateFor(fd)
      BY <1>6 DEF Accept, Accepting
    <2>2. /\ socks'[fd].open /\ Settled(socks'[fd], connections'[fd].buf)
          /\ \A g \in Fds : g # fd => /\ connections'[g] = connections[g]
                                      /\ socks'[g] = socks[g]
      BY <1>1, <1>6 DEF Accept
    <2> QED BY <2>1, <2>2, CreateCounts
  <1>7. ASSUME NEW fd \in Fds, HandleConnection(fd) PROVE CountInv'
    <2>1. /\ pc = "batch" /\ UNCHANGED <<frames, coroutines, connections, socks>>
      BY <1>7 DEF HandleConnection, workVars, kernelVars
    <2>2. \A i \in Co!Ids : routines[i].phase # "ended" => routines'[i].phase # "ended"
      <3>1. CASE UNCHANGED routines
        BY <3>1
      <3>2. CASE Co!Resume(coroutines[fd])
        <4>1. routines \in Seq(Pool!Routine) /\ Co!Ids = 1 .. Len(routines)
          BY PoolFacts DEF Known, Pool!CoInv, Pool!CoTypeOK
        <4> DEFINE id == coroutines[fd]
                   r == [routines[id] EXCEPT !.phase = "running",
                                   !.attached = @ \/ routines[id].phase = "fresh"]
        <4>2. id \in Co!Ids /\ routines' = [routines EXCEPT ![id] = r]
          BY <3>2 DEF Co!Resume, Co!Refuses
        <4>3. r.phase = "running"
          BY <4>1, <4>2 DEF Pool!Routine
        <4> HIDE DEF id, r
        <4> QED BY <4>1, <4>2, <4>3
      <3> QED BY <1>7, <3>1, <3>2 DEF HandleConnection, Co!ResumeEnded, coVars
    <2>3. ASSUME NEW g \in Fds PROVE Counted(g)'
      BY <2>1, <2>2, LoopSameCount
    <2> QED BY <2>3 DEF CountInv
  <1>8. CASE AfterClosed
    <2>1. /\ pc = "after" /\ Disconnect(handling) /\ UNCHANGED routines
      BY <1>8 DEF AfterClosed, Undefined, Co!Leave, coVars
    <2>2. handling \in Fds
      BY <2>1 DEF Known, OwnInv, LoopInv
    <2> QED BY <2>1, <2>2, DisconnectCounts
  <1>9. CASE AfterOpen
    <2>1. /\ pc = "after" /\ connections[handling].st = "open"
          /\ UNCHANGED <<connections, socks>> /\ handling \in Fds
      BY <1>9 DEF AfterOpen, kernelVars, Known, OwnInv, LoopInv
    <2>2. CASE connections[handling].buf = 0 /\ CreateFor(handling)
      <3>1. socks[handling].open /\ Counted(handling)
        BY <2>1 DEF Known, OwnInv, SocketsOwned, CountInv
      <3>2. Settled(socks[handling], connections[handling].buf)
        BY <2>2, <3>1 DEF Counted, Answering, InAnswer
      <3> QED BY <2>1, <2>2, <3>1, <3>2, CreateCounts
    <2>3. CASE UNCHANGED <<coVars, frames, coroutines>>
      BY <2>1, <2>3, QuietCounts DEF coVars
    <2> QED BY <1>9, <2>2, <2>3 DEF AfterOpen
  <1>10. CASE AfterUntimed
    <2>1. UNCHANGED <<routines, frames, coroutines, connections, socks>>
      BY <1>10 DEF AfterUntimed, Undefined, Co!Leave, workVars, kernelVars
    <2> QED BY <2>1, QuietCounts
  <1> QED BY <1>2, <1>3, <1>4, <1>5, <1>6, <1>7, <1>8, <1>9, <1>10 DEF LoopStep

\* Peers that stay: what they send is owed to them, what they take was sent.
LEMMA EnvironmentCounts ==
    ASSUME ~FaultyPeers, Known, ServeInv, CountInv, Environment PROVE CountInv'
  <1>1. UNCHANGED <<routines, frames, coroutines, connections>>
    BY DEF Environment, PeerConnect, OtherThreadAccepts, PeerSend, Peer, PeerReceive,
           PeerShutdown, PeerReset, Expire, coVars, workVars
  <1>2. /\ socks \in [Fds -> Sock] /\ connections \in [Fds -> Connection]
        /\ frames \in [1 .. MaxRoutines -> Frame]
    BY DEF Known, WorkerTypes, OwnInv, Shape
  <1>3. ASSUME NEW fd \in Fds, NEW t, socks' = [socks EXCEPT ![fd] = t], t.open,
               socks[fd].open,
               Writing(fd) => Answering(t, connections[fd].buf, LocalsOf(fd)),
               ~Writing(fd) => Settled(t, connections[fd].buf)
        PROVE  CountInv'
    <2>1. socks'[fd] = t /\ \A g \in Fds : g # fd => socks'[g] = socks[g]
      BY <1>2, <1>3
    <2>2. (Writing(fd)' <=> Writing(fd)) /\ LocalsOf(fd)' = LocalsOf(fd)
      BY <1>1 DEF Writing, RoutineOf, LocalsOf
    <2>3. Counted(fd)'
      BY <1>1, <1>3, <2>1, <2>2 DEF Counted
    <2>4. ASSUME NEW g \in Fds, g # fd PROVE Counted(g)'
      BY <1>1, <2>1, <2>4, SameCount DEF CountInv, RoutineOf, LocalsOf
    <2>5. ASSUME NEW g \in Fds PROVE Counted(g)'
      BY <2>3, <2>4
    <2> QED BY <2>5 DEF CountInv
  <1>4. ASSUME NEW fd \in Fds, Writing(fd) PROVE LocalsOf(fd) \in Frame
    <2>1. coroutines[fd] \in 1 .. MaxRoutines
      BY <1>4, PoolFacts DEF ServeInv, Served, Serves, Known, Writing
    <2> QED BY <1>2, <2>1 DEF LocalsOf
  <1>5. ASSUME NEW fd \in Fds, PeerSend(fd) PROVE CountInv'
    <2> DEFINE s == socks[fd]
    <2>1. PICK k \in 1 .. MaxReqs : Got(fd) >= RespParts * (k - 1)
                                    /\ s.sent < ReqParts * k
      BY <1>5 DEF PeerSend
    <2>2. PICK l \in BOOLEAN :
             /\ IF s.sent % ReqParts = 0 THEN ~s.last ELSE l = s.last
             /\ socks' = [socks EXCEPT ![fd] =
                    [socks[fd] EXCEPT !.inq = @ + 1, !.sent = @ + 1, !.last = l]]
      <3>1. \E l \in BOOLEAN :
             /\ IF s.sent % ReqParts = 0 THEN ~s.last ELSE l = s.last
             /\ socks' = [socks EXCEPT
                    ![fd].inq = @ + 1, ![fd].sent = @ + 1, ![fd].last = l]
        BY <1>5 DEF PeerSend
      <3> QED BY <3>1
    <2> DEFINE t == [s EXCEPT !.inq = @ + 1, !.sent = @ + 1, !.last = l]
    <2>3. s \in Sock /\ s.open /\ connections[fd].buf \in Nat
      BY <1>2, <1>5 DEF PeerSend, Peer, Connected, Connection
    <2>4. t \in Sock /\ t.open
      <3>1. t \in Sock
        BY <2>3, SockUpdates
      <3>2. t.open = s.open
        BY <2>3 DEF Sock
      <3> QED BY <2>3, <3>1, <3>2
    <2>5. k \in Nat \ {0} /\ s.wrote - s.outq >= Resp(k - 1) /\ s.sent < Req(k)
      BY <2>1, BoundsAssumption DEF Got, Resp, Req
    <2>6. \A f \in Frame :
             /\ Settled(s, connections[fd].buf) => Settled(t, connections[fd].buf)
             /\ Answering(s, connections[fd].buf, f) =>
                   Answering(t, connections[fd].buf, f)
      <3>1. t = SentPart(s, l)
        BY DEF SentPart
      <3>2. Follows(s, l)
        BY <2>2 DEF Follows
      <3> HIDE DEF t, s
      <3> TAKE f \in Frame
      <3> QED BY <2>3, <2>4, <2>5, <3>1, <3>2, SendBalance
    <2>7. NewFrame \in Frame
      BY DEF NewFrame, Frame
    <2> HIDE DEF t
    <2>8. socks' = [socks EXCEPT ![fd] = t]
      BY <2>2 DEF t
    <2>9. /\ Writing(fd) => Answering(t, connections[fd].buf, LocalsOf(fd))
          /\ ~Writing(fd) => Settled(t, connections[fd].buf)
      BY <1>4, <2>3, <2>6, <2>7 DEF CountInv, Counted
    <2> QED BY <1>3, <2>3, <2>4, <2>8, <2>9
  <1>6. ASSUME NEW fd \in Fds, PeerReceive(fd) PROVE CountInv'
    <2> DEFINE s == socks[fd]
               t == [s EXCEPT !.outq = @ - 1, !.nospace = FALSE]
    <2>1. socks' = [socks EXCEPT ![fd] =
                [socks[fd] EXCEPT !.outq = @ - 1, !.nospace = FALSE]]
      BY <1>6 DEF PeerReceive
    <2>2. s \in Sock /\ s.open
      BY <1>2, <1>6 DEF PeerReceive, Connected
    <2>3. /\ t.open /\ t.wrote = s.wrote /\ t.sent = s.sent /\ t.inq = s.inq
          /\ t.last = s.last
      BY <2>2 DEF Sock
    <2>4. socks' = [socks EXCEPT ![fd] = t]
      BY <2>1
    <2> HIDE DEF t
    <2>5. \A f : /\ Settled(s, connections[fd].buf) => Settled(t, connections[fd].buf)
                 /\ Answering(s, connections[fd].buf, f) =>
                       Answering(t, connections[fd].buf, f)
      BY <2>3 DEF Settled, Answering, Between, InAnswer
    <2>6. /\ Writing(fd) => Answering(t, connections[fd].buf, LocalsOf(fd))
          /\ ~Writing(fd) => Settled(t, connections[fd].buf)
      BY <2>2, <2>5 DEF CountInv, Counted
    <2> QED BY <1>3, <2>2, <2>3, <2>4, <2>6
  <1>7. CASE PeerConnect \/ OtherThreadAccepts \/ \E fd \in Fds : Expire(fd)
    <2>1. UNCHANGED socks
      BY <1>7 DEF PeerConnect, OtherThreadAccepts, Expire, kernelVars
    <2> QED BY <1>1, <2>1, QuietCounts
  <1> QED BY <1>5, <1>6, <1>7 DEF Environment, PeerShutdown, PeerReset

LEMMA CountInitial == Init => CountInv
  <1> SUFFICES ASSUME Init, NEW fd \in Fds PROVE Counted(fd)
    BY DEF CountInv
  <1>1. socks[fd] = NoSock /\ ~NoSock.open
    BY DEF Init, NoSock
  <1> QED BY <1>1 DEF Counted

LEMMA CountStep ==
    ASSUME ~FaultyPeers, Known, ServeInv, CountInv, [Next]_vars PROVE CountInv'
  <1>1. CASE UNCHANGED vars
    <2>1. UNCHANGED <<routines, frames, coroutines, connections, socks>>
      BY <1>1 DEF vars, coVars, workVars, kernelVars
    <2> QED BY <2>1, QuietCounts
  <1> QED BY <1>1, CoroutineCounts, LoopCounts, EnvironmentCounts DEF Next, Worker

\* The accounts of peers that stay balance in every reachable state.
THEOREM CountInvariant == ASSUME ~FaultyPeers PROVE Spec => []CountInv
  <1>1. Known /\ ServeInv /\ CountInv /\ [Next]_vars => CountInv'
    BY CountStep
  <1> QED BY <1>1, CountInitial, ServeInvariant, KnownHolds, PTL DEF Spec

\* The server never sends more than one response for each request that it has
\* read to its end (BaseHTTPServer.cpp:288-299, 309-336).
THEOREM AnsweredOnce == ASSUME ~FaultyPeers PROVE Spec => []OneResponsePerRequest
  <1>1. Known /\ CountInv => OneResponsePerRequest
    <2> SUFFICES ASSUME Known, CountInv, NEW fd \in Fds
                 PROVE  socks[fd].wrote <= RespParts *
                            ((socks[fd].sent - socks[fd].inq) \div ReqParts)
      BY DEF OneResponsePerRequest
    <2> DEFINE s == socks[fd]
               read == s.sent - s.inq
    <2>1. s \in Sock /\ connections[fd].buf \in Nat /\ ReqParts \in Nat \ {0}
          /\ RespParts \in Nat \ {0}
      BY BoundsAssumption DEF Known, WorkerTypes, OwnInv, Shape, Connection
    <2>2. s.wrote \in Nat /\ s.sent \in Nat /\ s.inq \in Nat
      BY <2>1 DEF Sock
    <2>3. \E a \in Nat : s.wrote <= RespParts * a /\ ReqParts * a <= read
      <3>1. CASE ~s.open
        <4>1. s.wrote = 0 /\ read = 0
          BY <3>1 DEF CountInv, Counted, NoSock
        <4> QED BY <2>1, <4>1
      <3>2. CASE s.open /\ Writing(fd)
        <4>1. PICK a \in Nat : InAnswer(s, connections[fd].buf, LocalsOf(fd), a)
          BY <3>2 DEF CountInv, Counted, Answering
        <4>2. LocalsOf(fd).left \in Nat
          <5>1. coroutines[fd] \in 1 .. MaxRoutines
            BY <3>2 DEF Known, WorkerTypes, Writing
          <5> QED BY <5>1 DEF Known, WorkerTypes, LocalsOf, Frame
        <4>3. a + 1 \in Nat /\ Resp(a + 1) \in Nat
          BY RespFacts
        <4>4. s.wrote <= RespParts * (a + 1) /\ ReqParts * (a + 1) <= read
          BY <2>2, <4>1, <4>2, <4>3 DEF InAnswer, Req, Resp
        <4> QED BY <4>3, <4>4
      <3>3. CASE s.open /\ ~Writing(fd)
        <4>1. PICK a \in Nat : Between(s, connections[fd].buf, a)
          BY <3>3 DEF CountInv, Counted, Settled
        <4>2. Req(a) \in Nat
          BY ReqFacts
        <4>3. s.wrote <= RespParts * a /\ ReqParts * a <= read
          BY <2>1, <2>2, <4>1, <4>2 DEF Between, Req, Resp
        <4> QED BY <4>3
      <3> QED BY <3>1, <3>2, <3>3
    <2>4. PICK a \in Nat : s.wrote <= RespParts * a /\ ReqParts * a <= read
      BY <2>3
    <2>5. read \in Nat
      <3>1. read \in Int /\ ReqParts * a \in Nat
        BY <2>1, <2>2, Products
      <3> QED BY <2>4, <3>1
    <2> HIDE DEF read
    <2>6. a <= read \div ReqParts /\ read \div ReqParts \in Nat
      BY <2>1, <2>4, <2>5, Quotients
    <2>7. RespParts * a <= RespParts * (read \div ReqParts)
          /\ RespParts * a \in Nat /\ RespParts * (read \div ReqParts) \in Nat
      BY <2>1, <2>6, Products
    <2> QED BY <2>2, <2>4, <2>7 DEF read
  <1> QED BY <1>1, CountInvariant, KnownHolds, PTL

-----------------------------------------------------------------------------

(***************************************************************************)
(* What a connection's peer may still be owed, with every fault of the     *)
(* peers.  A coroutine may then serve a connection that another's event    *)
(* resumed, two may hold the same one, and a response may be written       *)
(* twice; but a peer never sends more than one request beyond the          *)
(* responses it has, and a coroutine that is going to close has the whole  *)
(* response to the last request before it.                                 *)
(***************************************************************************)
Gone(s) == s.fin \/ s.rst # "none"
Ahead(s) == \E k \in Nat : s.sent <= Req(k + 1) /\ Resp(k) <= s.wrote
Pays(s, n) == \E k \in Nat : s.sent <= Req(k) /\ Resp(k) <= s.wrote + n

\* A coroutine that will close its connection has all that the peer waits for.
Closing(id) ==
    LET fd == routines[id].func IN
        frames[id].pc = "write" /\ ~frames[id].keep /\ connections[fd].st = "open"
            => socks[fd].last /\ Pays(socks[fd], frames[id].left)

DebtInv ==
    /\ \A fd \in Fds : socks[fd].open => Ahead(socks[fd])
    /\ \A fd \in Fds : connections[fd].st = "eof" => Gone(socks[fd])
    /\ \A id \in Co!Ids : frames[id].live =>
           routines[id].func \in Present /\ Closing(id)
    /\ pc = "coro" /\ fate = "running" => current # 0

\* What a step may make of a socket that stays.
Ages(s, t) ==
    /\ t.open = s.open
    /\ Gone(s) => Gone(t)
    /\ Ahead(s) => Ahead(t)
    /\ s.last => t.last /\ \A n \in Nat : Pays(s, n) => Pays(t, n)

\* What a step may make of a connection: it goes on, meets the end of what its
\* peer sent, is closed on a peer that left or has been paid, or is new.
Moves(fd) ==
    \/ connections'[fd].st = connections[fd].st /\ Ages(socks[fd], socks'[fd])
    \/ /\ connections'[fd].st = "eof" /\ socks'[fd] = socks[fd]
       /\ Gone(socks[fd])
    \/ /\ connections'[fd].st \in {"closed", "absent"} /\ ~socks'[fd].open
       /\ socks[fd].open => Gone(socks[fd]) \/ Pays(socks[fd], 0)
    \/ /\ fd \notin Present /\ connections'[fd].st = "open"
       /\ socks'[fd].open /\ Ahead(socks'[fd])

Kept(id) == /\ id \in Co!Ids /\ routines'[id].func = routines[id].func
            /\ frames'[id] = frames[id]

StepShape ==
    /\ \A fd \in Fds : Moves(fd)
    /\ \A id \in Co!Ids' : frames'[id].live =>
           routines'[id].func \in Present' /\ (Kept(id) \/ Closing(id)')
    /\ pc' = "coro" /\ fate' = "running" => current' # 0

\* A step of that shape keeps the debts in order.
LEMMA DebtsKept == ASSUME Known, DebtInv, StepShape PROVE DebtInv'
  <1>1. frames \in [1 .. MaxRoutines -> Frame] /\ Co!Ids \subseteq 1 .. MaxRoutines
        /\ \A i \in Co!Ids : routines[i].func \in Fds
    BY PoolFacts DEF Known, WorkerTypes, Pool!Routine
  <1>2. ASSUME NEW fd \in Fds PROVE (socks[fd].open => Ahead(socks[fd]))'
    BY DEF StepShape, Moves, Ages, DebtInv, Ahead
  <1>3. ASSUME NEW fd \in Fds PROVE (connections[fd].st = "eof" => Gone(socks[fd]))'
    BY DEF StepShape, Moves, Ages, DebtInv
  <1>4. ASSUME NEW id \in Co!Ids', frames'[id].live
        PROVE  routines'[id].func \in Present' /\ Closing(id)'
    <2>1. CASE Kept(id)
      <3> DEFINE fd == routines[id].func
      <3>1. /\ id \in Co!Ids /\ fd \in Fds /\ fd \in Present /\ Closing(id)
            /\ frames[id].left \in Nat /\ Moves(fd)
            /\ routines'[id].func = fd /\ frames'[id] = frames[id]
        BY <1>1, <1>4, <2>1 DEF Kept, DebtInv, StepShape, Frame
      <3>2. SUFFICES ASSUME frames[id].pc = "write", ~frames[id].keep,
                            connections'[fd].st = "open"
                     PROVE  socks'[fd].last /\ Pays(socks'[fd], frames[id].left)
        BY <1>4, <3>1 DEF StepShape, Closing, Pays
      <3>3. connections[fd].st = "open" /\ Ages(socks[fd], socks'[fd])
        BY <3>1, <3>2 DEF Moves
      <3> QED BY <3>1, <3>2, <3>3 DEF Closing, Ages
    <2> QED BY <1>4, <2>1 DEF StepShape
  <1>5. (pc = "coro" /\ fate = "running" => current # 0)'
    BY DEF StepShape
  <1> QED BY <1>2, <1>3, <1>4, <1>5 DEF DebtInv

\* Sockets age when nothing is sent and nothing unwritten.
LEMMA Aging ==
    ASSUME NEW s \in Sock, NEW t \in Sock, t.open = s.open, t.sent = s.sent,
           t.last = s.last, t.wrote >= s.wrote, Gone(s) => Gone(t)
    PROVE  Ages(s, t)
  <1>1. s.wrote \in Nat /\ t.wrote \in Nat
    BY DEF Sock
  <1>2. \A k \in Nat : Resp(k) \in Nat
    BY RespFacts
  <1>3. Ahead(s) => Ahead(t)
    BY <1>1, <1>2 DEF Ahead
  <1>4. \A n \in Nat : Pays(s, n) => Pays(t, n)
    BY <1>1, <1>2 DEF Pays
  <1> QED BY <1>3, <1>4 DEF Ages

\* What the program and a peer do to an open socket.
LEMMA SocketsAge ==
    ASSUME NEW s \in Sock
    PROVE  /\ Ages(s, s)
           /\ s.inq > 0 => Ages(s, [s EXCEPT !.inq = @ - 1])
           /\ s.outq > 0 => Ages(s, [s EXCEPT !.outq = @ - 1, !.nospace = FALSE])
           /\ Ages(s, [s EXCEPT !.rst = "taken"])
           /\ \A n \in Nat : Ages(s, [s EXCEPT !.outq = @ + n, !.wrote = @ + n])
           /\ Ages(s, [s EXCEPT !.nospace = TRUE])
           /\ Ages(s, [s EXCEPT !.fin = TRUE])
           /\ Ages(s, [s EXCEPT !.rst = "pending", !.outq = 0])
  <1>0. s.wrote \in Nat /\ s.wrote >= s.wrote
    BY DEF Sock
  <1>1. Ages(s, s)
    BY <1>0, Aging
  <1>2. ASSUME s.inq > 0 PROVE Ages(s, [s EXCEPT !.inq = @ - 1])
    <2> DEFINE t == [s EXCEPT !.inq = @ - 1]
    <2>1. t \in Sock
      BY <1>2, SockUpdates
    <2>2. t.open = s.open /\ t.sent = s.sent /\ t.last = s.last
          /\ t.wrote = s.wrote /\ (Gone(s) => Gone(t))
      BY DEF Sock, Gone
    <2> HIDE DEF t
    <2>3. Ages(s, t)
      BY <1>0, <2>1, <2>2, Aging
    <2> QED BY <2>3 DEF t
  <1>3. ASSUME s.outq > 0
        PROVE  Ages(s, [s EXCEPT !.outq = @ - 1, !.nospace = FALSE])
    <2> DEFINE t == [s EXCEPT !.outq = @ - 1, !.nospace = FALSE]
    <2>1. t \in Sock
      BY <1>3, SockUpdates
    <2>2. t.open = s.open /\ t.sent = s.sent /\ t.last = s.last
          /\ t.wrote = s.wrote /\ (Gone(s) => Gone(t))
      BY DEF Sock, Gone
    <2> HIDE DEF t
    <2>3. Ages(s, t)
      BY <1>0, <2>1, <2>2, Aging
    <2> QED BY <2>3 DEF t
  <1>4. Ages(s, [s EXCEPT !.rst = "taken"])
    <2> DEFINE t == [s EXCEPT !.rst = "taken"]
    <2>1. t \in Sock
      BY SockUpdates
    <2>2. t.open = s.open /\ t.sent = s.sent /\ t.last = s.last
          /\ t.wrote = s.wrote /\ (Gone(s) => Gone(t))
      BY DEF Sock, Gone
    <2> HIDE DEF t
    <2>3. Ages(s, t)
      BY <1>0, <2>1, <2>2, Aging
    <2> QED BY <2>3 DEF t
  <1>5. ASSUME NEW n \in Nat
        PROVE  Ages(s, [s EXCEPT !.outq = @ + n, !.wrote = @ + n])
    <2> DEFINE t == [s EXCEPT !.outq = @ + n, !.wrote = @ + n]
    <2>1. t \in Sock
      BY SockUpdates
    <2>2. t.open = s.open /\ t.sent = s.sent /\ t.last = s.last
          /\ t.wrote = s.wrote + n /\ (Gone(s) => Gone(t))
      BY DEF Sock, Gone
    <2> HIDE DEF t
    <2>3. Ages(s, t)
      BY <1>0, <2>1, <2>2, Aging
    <2> QED BY <2>3 DEF t
  <1>6. Ages(s, [s EXCEPT !.nospace = TRUE])
    <2> DEFINE t == [s EXCEPT !.nospace = TRUE]
    <2>1. t \in Sock
      BY SockUpdates
    <2>2. t.open = s.open /\ t.sent = s.sent /\ t.last = s.last
          /\ t.wrote = s.wrote /\ (Gone(s) => Gone(t))
      BY DEF Sock, Gone
    <2> HIDE DEF t
    <2>3. Ages(s, t)
      BY <1>0, <2>1, <2>2, Aging
    <2> QED BY <2>3 DEF t
  <1>7. Ages(s, [s EXCEPT !.fin = TRUE])
    <2> DEFINE t == [s EXCEPT !.fin = TRUE]
    <2>1. t \in Sock
      BY SockUpdates
    <2>2. t.open = s.open /\ t.sent = s.sent /\ t.last = s.last
          /\ t.wrote = s.wrote /\ Gone(t)
      BY DEF Sock, Gone
    <2> HIDE DEF t
    <2>3. Ages(s, t)
      BY <1>0, <2>1, <2>2, Aging
    <2> QED BY <2>3 DEF t
  <1>8. Ages(s, [s EXCEPT !.rst = "pending", !.outq = 0])
    <2> DEFINE t == [s EXCEPT !.rst = "pending", !.outq = 0]
    <2>1. t \in Sock
      BY SockUpdates
    <2>2. t.open = s.open /\ t.sent = s.sent /\ t.last = s.last
          /\ t.wrote = s.wrote /\ Gone(t)
      BY DEF Sock, Gone
    <2> HIDE DEF t
    <2>3. Ages(s, t)
      BY <1>0, <2>1, <2>2, Aging
    <2> QED BY <2>3 DEF t
  <1> QED BY <1>1, <1>2, <1>3, <1>4, <1>5, <1>6, <1>7, <1>8

\* A peer sends the first part of a request when it has all the responses to
\* the others, and no request after the one that asks to close.
LEMMA SendAges ==
    ASSUME NEW s \in Sock, NEW k \in Nat \ {0},
           s.wrote - s.outq >= Resp(k - 1), s.sent < Req(k),
           NEW l \in BOOLEAN, Follows(s, l), NEW t \in Sock, t = SentPart(s, l)
    PROVE  Ages(s, t)
  <1>1. /\ t.wrote = s.wrote /\ t.sent = s.sent + 1 /\ t.open = s.open
        /\ t.last = l /\ t.fin = s.fin /\ t.rst = s.rst
        /\ s.wrote \in Nat /\ s.sent \in Nat /\ s.outq \in Nat
    BY DEF Sock, SentPart
  <1>2. k - 1 \in Nat /\ (k - 1) + 1 = k /\ Req(k) \in Nat
    BY ReqFacts
  <1>3. Resp(k - 1) \in Nat
    BY <1>2, RespFacts
  <1>4. Ahead(t)
    <2>1. t.sent <= Req((k - 1) + 1) /\ Resp(k - 1) <= t.wrote
      BY <1>1, <1>2, <1>3
    <2> QED BY <1>2, <2>1 DEF Ahead
  <1>5. ASSUME s.last PROVE t.last /\ \A n \in Nat : Pays(s, n) => Pays(t, n)
    <2>1. s.sent % ReqParts # 0 /\ l = s.last
      BY <1>5 DEF Follows
    <2>2. ASSUME NEW n \in Nat, Pays(s, n) PROVE Pays(t, n)
      <3>1. PICK a \in Nat : s.sent <= Req(a) /\ Resp(a) <= s.wrote + n
        BY <2>2 DEF Pays
      <3>2. Req(a) \in Nat /\ s.sent # Req(a)
        BY <2>1, ReqFacts
      <3>3. t.sent <= Req(a) /\ Resp(a) <= t.wrote + n
        BY <1>1, <3>1, <3>2
      <3> QED BY <3>3 DEF Pays
    <2>3. t.last
      BY <1>1, <1>5, <2>1
    <2> QED BY <2>2, <2>3
  <1>6. Gone(s) => Gone(t)
    BY <1>1 DEF Gone
  <1> QED BY <1>1, <1>4, <1>5, <1>6 DEF Ages

\* The routines keep their jobs: only create() gives a routine a new one.
SameJobs == /\ Co!Ids' = Co!Ids
            /\ \A i \in Co!Ids : routines'[i].func = routines[i].func

LEMMA OneRoutine ==
    ASSUME Known, NEW c, NEW r, routines' = [routines EXCEPT ![c] = r],
           c \in Co!Ids => r.func = routines[c].func
    PROVE  SameJobs
  <1>1. routines \in Seq(Pool!Routine) /\ Co!Ids = 1 .. Len(routines)
    BY PoolFacts DEF Known, Pool!CoInv, Pool!CoTypeOK
  <1>2. Len(routines') = Len(routines)
        /\ \A i \in Co!Ids : routines'[i] = IF i = c THEN r ELSE routines[i]
    BY <1>1
  <1> QED BY <1>2 DEF SameJobs, Co!Ids

LEMMA JobsKept ==
    ASSUME Known, \/ Throw \/ YieldToLoop \/ Co!Finish(FALSE) \/ UNCHANGED routines
                  \/ \E id : Co!Resume(id)
    PROVE  SameJobs
  <1>1. \A i \in Co!Ids : routines[i] \in Pool!Routine
    BY PoolFacts DEF Known
  <1>2. ASSUME NEW thrown \in BOOLEAN, Co!Finish(thrown) PROVE SameJobs
    <2> DEFINE r == [routines[current] EXCEPT
                        !.phase = "ended",
                        !.finished = @ \/ routines[current].attached,
                        !.exception = @ \/ (routines[current].attached /\ thrown),
                        !.attached = FALSE]
    <2>1. routines' = [routines EXCEPT ![current] = r]
      BY <1>2 DEF Co!Finish
    <2>2. current \in Co!Ids => r.func = routines[current].func
      BY <1>1 DEF Pool!Routine
    <2> HIDE DEF r
    <2> QED BY <2>1, <2>2, OneRoutine
  <1>3. CASE YieldToLoop
    <2> DEFINE r == [routines[current] EXCEPT !.phase = "suspended", !.moved = FALSE]
    <2>1. routines' = [routines EXCEPT ![current] = r]
      BY <1>3 DEF YieldToLoop, Co!Yield
    <2>2. current \in Co!Ids => r.func = routines[current].func
      BY <1>1 DEF Pool!Routine
    <2> HIDE DEF r
    <2> QED BY <2>1, <2>2, OneRoutine
  <1>4. ASSUME NEW id, Co!Resume(id) PROVE SameJobs
    <2> DEFINE r == [routines[id] EXCEPT !.phase = "running",
                             !.attached = @ \/ routines[id].phase = "fresh"]
    <2>1. routines' = [routines EXCEPT ![id] = r]
      BY <1>4 DEF Co!Resume
    <2>2. id \in Co!Ids => r.func = routines[id].func
      BY <1>1 DEF Pool!Routine
    <2> HIDE DEF r
    <2> QED BY <2>1, <2>2, OneRoutine
  <1>5. CASE UNCHANGED routines
    BY <1>5 DEF SameJobs, Co!Ids
  <1> QED BY <1>2, <1>3, <1>4, <1>5 DEF Throw

\* A step that only changes the locals of routines and what is told of it here.
LEMMA FramesMove ==
    ASSUME Known, DebtInv, SameJobs, \A fd \in Fds : Moves(fd),
           \A fd \in Fds : connections'[fd].st = "absent" =>
               fd \notin Present \/ \A id \in Co!Ids : routines[id].func = fd
                                                        => ~frames'[id].live,
           \A id \in Co!Ids :
              \/ frames'[id] = frames[id]
              \/ frames'[id].live => frames[id].live /\ Closing(id)',
           pc' = "coro" /\ fate' = "running" => current' # 0
    PROVE  StepShape
  <1>1. ASSUME NEW id \in Co!Ids', frames'[id].live
        PROVE  routines'[id].func \in Present' /\ (Kept(id) \/ Closing(id)')
    <2>1. id \in Co!Ids /\ routines'[id].func = routines[id].func
      BY <1>1 DEF SameJobs
    <2>2. frames[id].live /\ (Kept(id) \/ Closing(id)')
      BY <1>1, <2>1 DEF Kept
    <2>3. routines[id].func \in Present
      BY <2>1, <2>2 DEF DebtInv
    <2>4. routines[id].func \in Present'
      BY <1>1, <2>1, <2>3 DEF Present
    <2> QED BY <2>1, <2>2, <2>4
  <1> QED BY <1>1 DEF StepShape

\* A step that touches neither the locals nor the connections' states.
LEMMA QuietMoves ==
    ASSUME Known, DebtInv, SameJobs, UNCHANGED frames,
           \A fd \in Fds : /\ connections'[fd].st = connections[fd].st
                           /\ Ages(socks[fd], socks'[fd]),
           pc' = "coro" /\ fate' = "running" => current' # 0
    PROVE  StepShape
  <1>1. \A fd \in Fds : connections'[fd].st = "absent" => fd \notin Present
    BY DEF Present
  <1> QED BY <1>1, FramesMove DEF Moves

\* One socket ages, or none.
LEMMA OneAges ==
    ASSUME socks \in [Fds -> Sock], NEW fd, NEW t,
           \/ UNCHANGED socks
           \/ socks' = [socks EXCEPT ![fd] = t] /\ (fd \in Fds => Ages(socks[fd], t))
    PROVE  \A g \in Fds : Ages(socks[g], socks'[g])
  <1>1. \A g \in Fds : Ages(socks[g], socks[g])
    BY SocketsAge
  <1>2. CASE UNCHANGED socks
    BY <1>1, <1>2
  <1>3. CASE socks' = [socks EXCEPT ![fd] = t] /\ (fd \in Fds => Ages(socks[fd], t))
    <2>1. \A g \in Fds : socks'[g] = IF g = fd THEN t ELSE socks[g]
      BY <1>3
    <2> QED BY <1>1, <1>3, <2>1
  <1> QED BY <1>2, <1>3

\* Without time-outs nothing ever expires.
LEMMA NothingExpires ==
    ASSUME ~TimeoutsOn PROVE Spec => [](expired = {})
  <1>1. Init => expired = {}
    BY DEF Init
  <1>2. expired = {} /\ [Next]_vars => (expired = {})'
    BY DEF Next, Worker, CoroutineStep, LoopStep, Environment, vars, workVars,
           ReadClosed, ReadData, ReadEof, ReadError, ReadAgain, WriteClosed,
           WriteData, WriteAgain, WriteReset, WriteSigpipe, Answer, UseErased,
           DropExpired, DropDone, EpollWait, EpollTimeout, BatchDone, AcceptFails,
           AcceptStale, AcceptNoEpoll, Accept, HandleConnection, AfterClosed,
           AfterOpen, AfterUntimed, Forget, Stamp, PeerConnect, OtherThreadAccepts,
           PeerSend, Peer, PeerReceive, PeerShutdown, PeerReset, Expire
  <1> QED BY <1>1, <1>2, PTL DEF Spec

\* The steps of a coroutine.
LEMMA CoroutineMoves == ASSUME Known, DebtInv, CoroutineStep PROVE StepShape
  <1>1. fate = "running" /\ pc = "coro"
    BY DEF CoroutineStep, Runs, ReadClosed, ReadData, ReadEof, ReadError, ReadAgain,
           WriteClosed, WriteData, WriteAgain, WriteReset, WriteSigpipe, Answer,
           UseErased
  <1>2. /\ connections \in [Fds -> Connection] /\ socks \in [Fds -> Sock]
        /\ frames \in [1 .. MaxRoutines -> Frame]
        /\ current \in Co!Ids /\ current \in 1 .. MaxRoutines /\ Own \in Fds
    BY <1>1, PoolFacts
    DEF Known, WorkerTypes, OwnInv, Shape, DebtInv, Own, Pool!Routine
  <1>3. pc' = "coro" /\ fate' = "running" => current' # 0
    <2>1. pc' # "coro" \/ current' = current
      BY DEF CoroutineStep, Throw, YieldToLoop, BackInResume, Undefined, Co!Leave,
             coVars, ReadClosed, ReadData, ReadEof, ReadError, ReadAgain, WriteClosed,
             WriteData, WriteAgain, WriteReset, WriteSigpipe, Answer, UseErased
    <2> QED BY <1>1, <2>1 DEF DebtInv
  <1>4. SameJobs
    <2>1. Throw \/ YieldToLoop \/ Co!Finish(FALSE) \/ UNCHANGED routines
      BY DEF CoroutineStep, Undefined, Co!Leave, coVars, ReadClosed, ReadData,
             ReadEof, ReadError, ReadAgain, WriteClosed, WriteData, WriteAgain,
             WriteReset, WriteSigpipe, Answer, UseErased
    <2> QED BY <2>1, JobsKept
  <1> DEFINE s == socks[Own]
  <1>5. s \in Sock
    BY <1>2
  <1>6. ASSUME UNCHANGED <<connections, frames>>, NEW t,
               \/ UNCHANGED socks
               \/ socks' = [socks EXCEPT ![Own] = t] /\ Ages(s, t)
        PROVE  StepShape
    <2>1. \A g \in Fds : Ages(socks[g], socks'[g])
      BY <1>2, <1>6, OneAges
    <2> QED BY <1>3, <1>4, <1>6, <2>1, QuietMoves
  <1>7. CASE ReadClosed \/ WriteClosed \/ WriteSigpipe \/ UseErased
    BY <1>6, <1>7 DEF ReadClosed, WriteClosed, WriteSigpipe, UseErased, workVars,
                      kernelVars
  <1>8. CASE ReadError \/ WriteReset
    <2>1. /\ socks' = [socks EXCEPT ![Own] = [s EXCEPT !.rst = "taken"]]
          /\ UNCHANGED <<connections, frames>>
      BY <1>8 DEF ReadError, WriteReset, workVars
    <2> QED BY <1>5, <1>6, <2>1, SocketsAge
  <1>9. CASE WriteAgain
    <2>1. /\ socks' = [socks EXCEPT ![Own] = [s EXCEPT !.nospace = TRUE]]
          /\ UNCHANGED <<connections, frames>>
      BY <1>9 DEF WriteAgain, workVars
    <2> QED BY <1>5, <1>6, <2>1, SocketsAge
  <1>10. CASE ReadData
    <2>1. /\ socks' = [socks EXCEPT ![Own] = [s EXCEPT !.inq = @ - 1]]
          /\ connections' = [connections EXCEPT ![Own].buf = @ + 1]
          /\ UNCHANGED frames /\ s.inq # 0
      BY <1>10 DEF ReadData, Drained
    <2>2. s.inq > 0
      BY <1>5, <2>1 DEF Sock
    <2>3. \A g \in Fds : Ages(socks[g], socks'[g])
      <3>1. Ages(s, [s EXCEPT !.inq = @ - 1])
        BY <1>5, <2>2, SocketsAge
      <3> QED BY <1>2, <2>1, <3>1, OneAges
    <2>4. \A g \in Fds : connections'[g].st = connections[g].st
      BY <1>2, <2>1 DEF Connection
    <2> QED BY <1>3, <1>4, <2>1, <2>3, <2>4, QuietMoves
  <1>11. CASE ReadEof
    <2>1. /\ connections' = [connections EXCEPT ![Own].st = "eof"]
          /\ connections[Own].st = "open" /\ Gone(s) /\ UNCHANGED <<frames, socks>>
      BY <1>11 DEF ReadEof, Gone, kernelVars
    <2>2. /\ connections'[Own].st = "eof"
          /\ \A g \in Fds : g # Own => connections'[g] = connections[g]
      BY <1>2, <2>1 DEF Connection
    <2>3. \A g \in Fds : Ages(socks[g], socks'[g])
      BY <1>2, <2>1, OneAges
    <2>4. \A g \in Fds : Moves(g)
      BY <2>1, <2>2, <2>3 DEF Moves
    <2>5. \A g \in Fds : connections'[g].st = "absent" => g \notin Present
      BY <2>2 DEF Present
    <2> QED BY <1>3, <1>4, <2>1, <2>4, <2>5, FramesMove
  <1>12. CASE ReadAgain
    <2>1. UNCHANGED <<connections, socks>> /\ connections[Own].st = "open"
          /\ Frm.live
      BY <1>12 DEF ReadAgain, workVars, kernelVars, Runs
    <2>2. CASE UNCHANGED frames
      BY <1>6, <2>1, <2>2
    <2>3. CASE /\ UNCHANGED coVars
               /\ frames' = [frames EXCEPT ![current] = [@ EXCEPT
                     !.pc = "write", !.left = RespParts, !.keep = ~s.last]]
      <3>1. \A g \in Fds : Moves(g)
                /\ (connections'[g].st = "absent" => g \notin Present)
        BY <1>2, <2>1, OneAges DEF Moves, Present
      <3>2. \A id \in Co!Ids : id # current => frames'[id] = frames[id]
        BY <1>2, <2>3, PoolFacts DEF Known
      <3>3. /\ frames'[current].left = RespParts /\ frames'[current].keep = ~s.last
        BY <1>2, <2>3 DEF Frame
      <3>4. Pays(s, RespParts)
        <4>1. Ahead(s)
          BY <1>2, <2>1 DEF DebtInv, Known, OwnInv, SocketsOwned
        <4>2. PICK k \in Nat : s.sent <= Req(k + 1) /\ Resp(k) <= s.wrote
          BY <4>1 DEF Ahead
        <4>3. Resp(k + 1) <= s.wrote + RespParts /\ k + 1 \in Nat
          <5>1. Resp(k + 1) = Resp(k) + RespParts /\ Resp(k) \in Nat
                /\ RespParts \in Nat \ {0}
            BY RespFacts
          <5>2. s.wrote \in Nat
            BY <1>5 DEF Sock
          <5> QED BY <4>2, <5>1, <5>2
        <4> QED BY <4>2, <4>3 DEF Pays
      <3>5. routines'[current].func = Own /\ current' = current
        BY <1>2, <1>4, <2>3 DEF SameJobs, Own, coVars
      <3>6. Closing(current)'
        <4>1. Closing(current)' <=>
                 (frames'[current].pc = "write" /\ ~frames'[current].keep
                  /\ connections'[Own].st = "open"
                  => socks'[Own].last /\ Pays(socks'[Own], frames'[current].left))
          BY <1>2, <3>5 DEF Closing, Pays, Req, Resp
        <4>2. ~frames'[current].keep => s.last
          BY <3>3, Zenon
        <4> QED BY <2>1, <3>3, <3>4, <4>1, <4>2
      <3>7. ASSUME NEW id \in Co!Ids, frames'[id] # frames[id], frames'[id].live
            PROVE  frames[id].live /\ Closing(id)'
        <4>1. id = current
          BY <3>2, <3>7
        <4>2. frames[id].live
          BY <2>1, <4>1 DEF Frm
        <4>3. Closing(id)'
          BY <3>5, <3>6, <4>1
        <4> QED BY <4>2, <4>3
      <3> QED BY <1>3, <1>4, <3>1, <3>7, FramesMove
    <2> QED BY <1>12, <2>2, <2>3 DEF ReadAgain
  <1>13. CASE WriteData
    <2>1. UNCHANGED connections /\ connections[Own].st = "open" /\ Frm.live
          /\ Frm.pc = "write"
      BY <1>13 DEF WriteData, workVars, Runs
    <2>2. PICK n \in 1 .. RespParts :
             /\ n = Frm.left \/ n < Frm.left
             /\ socks' = [socks EXCEPT ![Own] =
                               [s EXCEPT !.outq = @ + n, !.wrote = @ + n]]
             /\ frames' = [frames EXCEPT ![current] = [Frm EXCEPT !.left = @ - n]]
      <3>1. \E n \in 1 .. RespParts :
             /\ n = Frm.left \/ n < Frm.left
             /\ socks' = [socks EXCEPT ![Own].outq = @ + n, ![Own].wrote = @ + n]
             /\ frames' = [frames EXCEPT ![current].left = Remaining(@, n)]
        BY <1>13 DEF WriteData
      <3>2. PICK n \in 1 .. RespParts :
             /\ n = Frm.left \/ n < Frm.left
             /\ socks' = [socks EXCEPT ![Own].outq = @ + n, ![Own].wrote = @ + n]
             /\ frames' = [frames EXCEPT ![current].left = Remaining(@, n)]
        BY <3>1
      <3>3. frames' = [frames EXCEPT ![current] = [Frm EXCEPT !.left = @ - n]]
        BY <3>2 DEF Remaining, Frm
      <3>4. socks' = [socks EXCEPT ![Own] =
                               [s EXCEPT !.outq = @ + n, !.wrote = @ + n]]
        BY <3>2
      <3> QED BY <3>2, <3>3, <3>4
    <2>3. n \in Nat
      BY BoundsAssumption
    <2> DEFINE t == [s EXCEPT !.outq = @ + n, !.wrote = @ + n]
    <2>4. \A g \in Fds : Moves(g)
             /\ (connections'[g].st = "absent" => g \notin Present)
      <3>1. Ages(s, t)
        BY <1>5, <2>3, SocketsAge
      <3>2. \A g \in Fds : Ages(socks[g], socks'[g])
        BY <1>2, <2>2, <3>1, OneAges
      <3> QED BY <2>1, <3>2 DEF Moves, Present
    <2>5. \A id \in Co!Ids : id # current => frames'[id] = frames[id]
      BY <1>2, <2>2, PoolFacts DEF Known
    <2>6. /\ frames'[current].left = Frm.left - n /\ frames'[current].keep = Frm.keep
          /\ Frm.left \in Nat
      BY <1>2, <2>2 DEF Frame, Frm
    <2>7. socks'[Own].wrote = s.wrote + n /\ socks'[Own].sent = s.sent
          /\ socks'[Own].last = s.last /\ s.wrote \in Nat
      BY <1>2, <1>5, <2>2 DEF Sock
    <2>8. routines'[current].func = Own /\ current' = current
      BY <1>2, <1>4, <1>13 DEF SameJobs, Own, coVars, WriteData
    <2>9. Closing(current)'
      <3>1. Closing(current)' <=>
               (frames'[current].pc = "write" /\ ~frames'[current].keep
                /\ connections'[Own].st = "open"
                => socks'[Own].last /\ Pays(socks'[Own], frames'[current].left))
        BY <1>2, <2>8 DEF Closing, Pays, Req, Resp
      <3>2. SUFFICES ASSUME ~Frm.keep
                     PROVE  s.last /\ Pays(socks'[Own], Frm.left - n)
        BY <2>6, <2>7, <3>1
      <3>3. s.last /\ Pays(s, Frm.left)
        BY <1>2, <2>1, <3>2 DEF DebtInv, Closing, Frm, Own
      <3>4. \A k \in Nat : Resp(k) \in Nat
        BY RespFacts
      <3>5. Pays(socks'[Own], Frm.left - n)
        BY <2>3, <2>6, <2>7, <3>3, <3>4 DEF Pays
      <3> QED BY <3>3, <3>5
    <2>10. ASSUME NEW id \in Co!Ids, frames'[id] # frames[id], frames'[id].live
           PROVE  frames[id].live /\ Closing(id)'
      <3>1. id = current
        BY <2>5, <2>10
      <3>2. frames[id].live
        BY <2>1, <3>1 DEF Frm
      <3>3. Closing(id)'
        BY <2>8, <2>9, <3>1
      <3> QED BY <3>2, <3>3
    <2> QED BY <1>3, <1>4, <2>4, <2>10, FramesMove
  <1>14. CASE Answer
    <2>1. /\ Frm.pc = "write" /\ Frm.left = 0 /\ Frm.live /\ UNCHANGED frames
      BY <1>14 DEF Answer, Runs
    <2>2. CASE Frm.keep \/ connections[Own].st # "open"
      <3>1. /\ connections' = [connections EXCEPT ![Own].buf = 0]
            /\ UNCHANGED socks
        BY <1>14, <2>2 DEF Answer
      <3>2. \A g \in Fds : connections'[g].st = connections[g].st
        BY <1>2, <3>1 DEF Connection
      <3>3. \A g \in Fds : Ages(socks[g], socks'[g])
        BY <1>2, <3>1, OneAges
      <3> QED BY <1>3, <1>4, <2>1, <3>2, <3>3, QuietMoves
    <2>3. CASE ~(Frm.keep \/ connections[Own].st # "open")
      <3>1. /\ connections' = [connections EXCEPT
                    ![Own] = [@ EXCEPT !.buf = 0, !.st = "closed"]]
            /\ socks' = [socks EXCEPT ![Own] = NoSock]
        BY <1>14, <2>3 DEF Answer, CloseSock
      <3>2. /\ connections'[Own].st = "closed" /\ ~socks'[Own].open
            /\ \A g \in Fds : g # Own => connections'[g] = connections[g]
                                         /\ socks'[g] = socks[g]
        BY <1>2, <3>1 DEF Connection, NoSock
      <3>3. Pays(s, 0)
        BY <1>2, <2>1, <2>3 DEF DebtInv, Closing, Frm, Own
      <3>4. \A g \in Fds : Ages(socks[g], socks[g])
        BY <1>2, SocketsAge
      <3>5. \A g \in Fds : Moves(g)
        BY <3>2, <3>3, <3>4 DEF Moves
      <3>6. \A g \in Fds : connections'[g].st = "absent" => g \notin Present
        BY <3>2 DEF Present
      <3> QED BY <1>3, <1>4, <2>1, <3>5, <3>6, FramesMove
    <2> QED BY <2>2, <2>3
  <1> QED BY <1>7, <1>8, <1>9, <1>10, <1>11, <1>12, <1>13, <1>14 DEF CoroutineStep

\* create() for a connection that is there.
LEMMA CreateMoves ==
    ASSUME Known, DebtInv, NEW fd \in Fds, CreateFor(fd),
           \A g \in Fds : Moves(g) /\ (connections'[g].st = "absent" => g \notin Present),
           connections'[fd].st # "absent", pc' # "coro"
    PROVE  StepShape
  <1>1. PICK id : Created(fd, id)
    BY CreateEffect
  <1>2. ASSUME NEW i \in Co!Ids', frames'[i].live
        PROVE  routines'[i].func \in Present' /\ (Kept(i) \/ Closing(i)')
    <2>1. CASE i = id
      <3>1. routines'[i].func = fd /\ frames'[i].pc # "write"
        BY <1>1, <2>1 DEF Created, NewFrame
      <3>2. Closing(i)'
        BY <3>1 DEF Closing
      <3>3. fd \in Present'
        BY DEF Present
      <3> QED BY <3>1, <3>2, <3>3
    <2>2. CASE i # id
      <3>1. i \in Co!Ids /\ SameRoutine(i)
        BY <1>1, <2>2 DEF Created
      <3>2. Kept(i) /\ routines[i].func \in Present
        BY <1>2, <3>1 DEF Kept, SameRoutine, DebtInv
      <3>3. routines'[i].func \in Present'
        BY <3>1, <3>2 DEF SameRoutine, Present
      <3> QED BY <3>2, <3>3
    <2> QED BY <2>1, <2>2
  <1> QED BY <1>2 DEF StepShape

\* The steps of run(), where no connection has expired.
LEMMA LoopMoves == ASSUME Known, DebtInv, expired = {}, LoopStep PROVE StepShape
  <1>1. /\ connections \in [Fds -> Connection] /\ socks \in [Fds -> Sock]
        /\ frames \in [1 .. MaxRoutines -> Frame] /\ 0 \notin Co!Ids
        /\ Co!Ids \subseteq 1 .. MaxRoutines
    BY PoolFacts DEF Known, WorkerTypes, OwnInv, Shape
  <1>2. \A g \in Fds : Ages(socks[g], socks[g])
    BY <1>1, SocketsAge
  <1>3. ASSUME UNCHANGED <<frames, connections, socks, routines>>, pc' # "coro"
        PROVE  StepShape
    <2>1. SameJobs
      BY <1>3, JobsKept
    <2> QED BY <1>2, <1>3, <2>1, QuietMoves
  <1>4. CASE DropDone \/ EpollWait \/ EpollTimeout \/ BatchDone \/ AcceptFails
             \/ \E fd \in Fds : AcceptStale(fd)
    <2>1. UNCHANGED <<frames, connections, socks, routines>> /\ pc' # "coro"
      BY <1>4 DEF DropDone, EpollWait, EpollTimeout, BatchDone, AcceptFails,
                  AcceptStale, Accepting, AcceptThrows, coVars, workVars, kernelVars
    <2> QED BY <1>3, <2>1
  <1>5. CASE AfterUntimed
    <2>1. /\ UNCHANGED <<frames, connections, socks, routines>>
          /\ pc' = "after"
      BY <1>5 DEF AfterUntimed, Undefined, Co!Leave, workVars, loopVars, kernelVars
    <2> QED BY <1>3, <2>1
  <1>6. ASSUME NEW fd \in Fds, HandleConnection(fd) PROVE StepShape
    <2>1. UNCHANGED <<frames, connections, socks>>
      BY <1>6 DEF HandleConnection, workVars, kernelVars
    <2>2. SameJobs
      <3>1. Co!Resume(coroutines[fd]) \/ UNCHANGED routines
        BY <1>6 DEF HandleConnection, Co!ResumeEnded, coVars
      <3> QED BY <3>1, JobsKept
    <2>3. pc' = "coro" /\ fate' = "running" => current' # 0
      <3>1. \/ current' = coroutines[fd] /\ coroutines[fd] \in Co!Ids
            \/ fate' = "undefined" \/ pc' = "after"
        BY <1>6 DEF HandleConnection, Co!Resume, Co!ResumeEnded, Co!Refuses
      <3> QED BY <1>1, <3>1
    <2> QED BY <1>2, <2>1, <2>2, <2>3, QuietMoves
  \* A connection that is accepted, beside all the others.
  <1>7. ASSUME NEW fd \in Fds, fd \notin Present,
               connections' = [connections EXCEPT ![fd] = Opened],
               \E parts \in Early, last \in BOOLEAN :
                   socks' = [socks EXCEPT ![fd] = Accepted(parts, last)]
        PROVE  /\ connections'[fd].st = "open"
               /\ \A g \in Fds : Moves(g)
                     /\ (connections'[g].st = "absent" => g \notin Present)
    <2>1. PICK parts \in Early, last \in BOOLEAN :
              socks' = [socks EXCEPT ![fd] = Accepted(parts, last)]
      BY <1>7
    <2>2. /\ connections'[fd].st = "open" /\ socks'[fd] = Accepted(parts, last)
          /\ \A g \in Fds : g # fd => connections'[g] = connections[g]
                                      /\ socks'[g] = socks[g]
      BY <1>1, <1>7, <2>1 DEF Opened
    <2>3. Accepted(parts, last).open /\ Ahead(Accepted(parts, last))
      <3>1. Accepted(parts, last).wrote = 0 /\ Accepted(parts, last).sent = parts
            /\ Accepted(parts, last).open
        BY DEF Accepted, NoSock
      <3>2. parts <= ReqParts
        BY DEF Early
      <3>3. 0 \in Nat /\ Req(0 + 1) = ReqParts /\ Resp(0) = 0
        <4>1. 0 \in Nat
          OBVIOUS
        <4>2. Req(0) = 0 /\ Req(0 + 1) = Req(0) + ReqParts /\ Resp(0) = 0
              /\ ReqParts \in Nat \ {0}
          BY <4>1, ReqFacts, RespFacts
        <4> QED BY <4>2
      <3>4. Accepted(parts, last).sent <= Req(0 + 1)
            /\ Resp(0) <= Accepted(parts, last).wrote
        BY <3>1, <3>2, <3>3
      <3> QED BY <3>1, <3>3, <3>4 DEF Ahead
    <2>4. \A g \in Fds : Moves(g)
      BY <1>2, <1>7, <2>2, <2>3 DEF Moves
    <2>5. \A g \in Fds : connections'[g].st = "absent" => g \notin Present
      BY <2>2 DEF Present
    <2> QED BY <2>2, <2>4, <2>5
  <1>8. ASSUME NEW fd \in Fds, AcceptNoEpoll(fd) PROVE StepShape
    <2>1. /\ fd \notin Present
          /\ connections' = [connections EXCEPT ![fd] = Opened]
          /\ \E parts \in Early, last \in BOOLEAN :
                   socks' = [socks EXCEPT ![fd] = Accepted(parts, last)]
          /\ UNCHANGED <<frames, routines>> /\ pc' = "drop"
      BY <1>8 DEF AcceptNoEpoll, AcceptThrows, coVars
    <2>2. SameJobs
      BY <2>1, JobsKept
    <2>3. \A g \in Fds : Moves(g)
              /\ (connections'[g].st = "absent" => g \notin Present)
      BY <1>7, <2>1
    <2> QED BY <2>1, <2>2, <2>3, FramesMove
  <1>9. ASSUME NEW fd \in Fds, Accept(fd) PROVE StepShape
    <2>1. /\ fd \notin Present /\ CreateFor(fd)
          /\ connections' = [connections EXCEPT ![fd] = Opened]
          /\ \E parts \in Early, last \in BOOLEAN :
                   socks' = [socks EXCEPT ![fd] = Accepted(parts, last)]
          /\ pc' = "batch"
      BY <1>9 DEF Accept, Accepting
    <2> QED BY <1>7, <2>1, CreateMoves
  <1>10. CASE AfterOpen
    <2>1. /\ connections[handling].st = "open" /\ pc' = "batch" /\ handling \in Fds
          /\ UNCHANGED <<connections, socks>>
          /\ CreateFor(handling) \/ UNCHANGED <<frames, routines>>
      BY <1>10 DEF AfterOpen, kernelVars, coVars, Known, OwnInv, LoopInv
    <2>2. CASE CreateFor(handling)
      <3>1. \A g \in Fds : Moves(g)
                /\ (connections'[g].st = "absent" => g \notin Present)
        BY <1>2, <2>1 DEF Moves, Present
      <3> QED BY <2>1, <2>2, <3>1, CreateMoves
    <2> QED BY <1>3, <2>1, <2>2
  <1>11. CASE AfterClosed
    <2>1. /\ Disconnect(handling) /\ connections[handling].st # "open"
          /\ handling \in Fds /\ UNCHANGED routines /\ pc' = "batch"
      BY <1>11 DEF AfterClosed, Undefined, Co!Leave, coVars, Known, OwnInv, LoopInv
    <2>2. /\ connections' = [connections EXCEPT ![handling] = Absent]
          /\ frames' = [id \in 1 .. MaxRoutines |->
                IF id \in Co!Ids /\ routines[id].func = handling
                THEN [frames[id] EXCEPT !.live = FALSE] ELSE frames[id]]
      BY <2>1 DEF Disconnect
    <2>3. /\ connections'[handling].st = "absent"
          /\ \A g \in Fds : g # handling => connections'[g] = connections[g]
      BY <1>1, <2>1, <2>2 DEF Absent
    <2>4. \A g \in Fds : g # handling => socks'[g] = socks[g]
      BY <1>1, <2>1 DEF Disconnect, CloseSock
    <2>5. ~socks'[handling].open
      <3>1. CASE connections[handling].st = "eof"
        BY <1>1, <2>1, <3>1 DEF Disconnect, CloseSock, NoSock
      <3>2. CASE connections[handling].st # "eof"
        BY <2>1, <3>2 DEF Disconnect, Known, OwnInv, SocketsOwned
      <3> QED BY <3>1, <3>2
    <2>6. socks[handling].open => Gone(socks[handling])
      BY <2>1 DEF DebtInv, Known, OwnInv, SocketsOwned
    <2>7. \A g \in Fds : Moves(g)
      BY <1>2, <2>3, <2>4, <2>5, <2>6 DEF Moves
    <2>8. ASSUME NEW id \in Co!Ids
          PROVE  /\ routines[id].func = handling => ~frames'[id].live
                 /\ frames'[id] = frames[id] \/ ~frames'[id].live
      <3>1. routines[id].func = handling => ~frames'[id].live
        BY <1>1, <2>2 DEF Frame
      <3>2. routines[id].func # handling => frames'[id] = frames[id]
        BY <1>1, <2>2
      <3> QED BY <3>1, <3>2
    <2>9. SameJobs
      BY <2>1, JobsKept
    <2>10. \A g \in Fds : connections'[g].st = "absent" =>
               g \notin Present \/ \A id \in Co!Ids : routines[id].func = g
                                                        => ~frames'[id].live
      BY <2>3, <2>8 DEF Present
    <2> QED BY <2>1, <2>7, <2>8, <2>9, <2>10, FramesMove
  <1>12. ~ \E fd \in Fds : DropExpired(fd)
    BY DEF DropExpired
  <1> QED BY <1>4, <1>5, <1>6, <1>8, <1>9, <1>10, <1>11, <1>12 DEF LoopStep

\* Peers, other threads and time.
LEMMA EnvironmentMoves == ASSUME Known, DebtInv, Environment PROVE StepShape
  <1>1. /\ UNCHANGED <<routines, frames, connections, current, pc>>
        /\ fate' = fate
    BY DEF Environment, PeerConnect, OtherThreadAccepts, PeerSend, Peer, PeerReceive,
           PeerShutdown, PeerReset, Expire, coVars, workVars, loopVars
  <1>2. socks \in [Fds -> Sock] /\ SameJobs
        /\ (pc' = "coro" /\ fate' = "running" => current' # 0)
    BY <1>1, JobsKept DEF Known, WorkerTypes, DebtInv
  <1>3. ASSUME NEW fd \in Fds, NEW t, socks' = [socks EXCEPT ![fd] = t],
               Ages(socks[fd], t)
        PROVE  StepShape
    <2>1. \A g \in Fds : Ages(socks[g], socks'[g])
      BY <1>2, <1>3, OneAges
    <2> QED BY <1>1, <1>2, <2>1, QuietMoves
  <1>4. ASSUME NEW fd \in Fds, PeerSend(fd) PROVE StepShape
    <2> DEFINE s == socks[fd]
    <2>1. PICK k \in 1 .. MaxReqs : Got(fd) >= RespParts * (k - 1)
                                    /\ s.sent < ReqParts * k
      BY <1>4 DEF PeerSend
    <2>2. PICK l \in BOOLEAN :
             /\ IF s.sent % ReqParts = 0 THEN ~s.last ELSE l = s.last
             /\ socks' = [socks EXCEPT ![fd] =
                    [socks[fd] EXCEPT !.inq = @ + 1, !.sent = @ + 1, !.last = l]]
      <3>1. \E l \in BOOLEAN :
             /\ IF s.sent % ReqParts = 0 THEN ~s.last ELSE l = s.last
             /\ socks' = [socks EXCEPT
                    ![fd].inq = @ + 1, ![fd].sent = @ + 1, ![fd].last = l]
        BY <1>4 DEF PeerSend
      <3> QED BY <3>1
    <2> DEFINE t == [s EXCEPT !.inq = @ + 1, !.sent = @ + 1, !.last = l]
    <2>3. s \in Sock
      BY <1>2
    <2>4. t \in Sock /\ t = SentPart(s, l) /\ Follows(s, l)
      BY <2>2, <2>3, SockUpdates DEF SentPart, Follows
    <2>5. k \in Nat \ {0} /\ s.wrote - s.outq >= Resp(k - 1) /\ s.sent < Req(k)
      BY <2>1, BoundsAssumption DEF Got, Resp, Req
    <2> HIDE DEF t, s
    <2>6. Ages(s, t)
      BY <2>3, <2>4, <2>5, SendAges
    <2> QED BY <1>3, <2>2, <2>6 DEF s, t
  <1>5. ASSUME NEW fd \in Fds, PeerReceive(fd) PROVE StepShape
    <2>1. /\ socks' = [socks EXCEPT ![fd] =
                [socks[fd] EXCEPT !.outq = @ - 1, !.nospace = FALSE]]
          /\ socks[fd].outq > 0
      BY <1>5 DEF PeerReceive
    <2> QED BY <1>2, <1>3, <2>1, SocketsAge
  <1>6. ASSUME NEW fd \in Fds, PeerShutdown(fd) PROVE StepShape
    <2>1. socks' = [socks EXCEPT ![fd] = [socks[fd] EXCEPT !.fin = TRUE]]
      BY <1>6 DEF PeerShutdown
    <2> QED BY <1>2, <1>3, <2>1, SocketsAge
  <1>7. ASSUME NEW fd \in Fds, PeerReset(fd) PROVE StepShape
    <2>1. socks' = [socks EXCEPT ![fd] =
                       [socks[fd] EXCEPT !.rst = "pending", !.outq = 0]]
      BY <1>7 DEF PeerReset
    <2> QED BY <1>2, <1>3, <2>1, SocketsAge
  <1>8. CASE PeerConnect \/ OtherThreadAccepts \/ \E fd \in Fds : Expire(fd)
    <2>1. UNCHANGED socks
      BY <1>8 DEF PeerConnect, OtherThreadAccepts, Expire, kernelVars
    <2>2. \A g \in Fds : Ages(socks[g], socks'[g])
      BY <1>2, <2>1, SocketsAge
    <2> QED BY <1>1, <1>2, <2>2, QuietMoves
  <1> QED BY <1>4, <1>5, <1>6, <1>7, <1>8 DEF Environment

LEMMA DebtInitial == Init => DebtInv
  <1> SUFFICES ASSUME Init PROVE DebtInv
    OBVIOUS
  <1>1. /\ \A fd \in Fds : ~socks[fd].open /\ connections[fd].st # "eof"
        /\ Co!Ids = {} /\ pc # "coro"
    BY DEF Init, NoSock, Absent, Co!CoInit, Co!Ids
  <1> QED BY <1>1 DEF DebtInv

\* A peer that has been paid is owed nothing.
LEMMA PaidUp ==
    ASSUME NEW s \in Sock, Pays(s, 0)
    PROVE  ~(s.sent * RespParts > s.wrote * ReqParts)
  <1>1. PICK k \in Nat : s.sent <= Req(k) /\ Resp(k) <= s.wrote + 0
    BY DEF Pays
  <1>2. /\ s.sent \in Nat /\ s.wrote \in Nat /\ Req(k) \in Nat /\ Resp(k) \in Nat
        /\ ReqParts \in Nat \ {0} /\ RespParts \in Nat \ {0} /\ Resp(k) <= s.wrote
    BY <1>1, ReqFacts, RespFacts DEF Sock
  <1>3. RespParts * s.sent <= RespParts * Req(k)
        /\ ReqParts * Resp(k) <= ReqParts * s.wrote
    BY <1>1, <1>2, Products
  <1>4. RespParts * Req(k) = ReqParts * Resp(k)
    BY <1>2 DEF Req, Resp
  <1>5. s.sent * RespParts = RespParts * s.sent /\ s.wrote * ReqParts = ReqParts * s.wrote
    BY <1>2
  <1>6. /\ RespParts * s.sent \in Int /\ RespParts * Req(k) \in Int
        /\ ReqParts * s.wrote \in Int
    BY <1>2
  <1> QED BY <1>3, <1>4, <1>5, <1>6

\* No step breaks the debts or closes on a peer that stays and is owed something.
LEMMA DebtStep ==
    ASSUME Known, DebtInv, expired = {}, [Next]_vars
    PROVE  /\ DebtInv'
           /\ \A fd \in Fds :
                 /\ Connected(fd) /\ ~socks[fd].fin
                 /\ socks[fd].sent * RespParts > socks[fd].wrote * ReqParts
                 => socks'[fd].open
  <1>1. socks \in [Fds -> Sock]
    BY DEF Known, WorkerTypes
  <1>2. CASE UNCHANGED vars
    <2>1. /\ UNCHANGED <<routines, frames, connections, socks>>
          /\ UNCHANGED <<pc, current, fate>>
      BY <1>2 DEF vars, coVars, workVars, loopVars, kernelVars
    <2>2. SameJobs /\ \A g \in Fds : Ages(socks[g], socks'[g])
      BY <1>1, <2>1, JobsKept, SocketsAge
    <2>3. pc' = "coro" /\ fate' = "running" => current' # 0
      BY <2>1 DEF DebtInv
    <2>4. StepShape
      BY <2>1, <2>2, <2>3, QuietMoves
    <2> QED BY <2>1, <2>4, DebtsKept DEF Connected
  <1>3. CASE Next
    <2>1. StepShape
      BY <1>3, CoroutineMoves, LoopMoves, EnvironmentMoves DEF Next, Worker
    <2>2. ASSUME NEW fd \in Fds, Connected(fd), ~socks[fd].fin,
                 socks[fd].sent * RespParts > socks[fd].wrote * ReqParts
          PROVE  socks'[fd].open
      <3>1. socks[fd].open /\ ~Gone(socks[fd]) /\ ~Pays(socks[fd], 0)
        BY <1>1, <2>2, PaidUp DEF Connected, Gone
      <3> QED BY <2>1, <3>1 DEF StepShape, Moves, Ages
    <2> QED BY <2>1, <2>2, DebtsKept
  <1> QED BY <1>2, <1>3

\* Without timeouts the server does not close on a peer that is there and waits
\* for an answer, whatever the other peers do: an exception that ends a batch or
\* a coroutine that another connection's event resumed does not cut it off
\* (BaseHTTPServer.cpp:166-172, 297-299).
THEOREM NobodyCutOff == ASSUME ~TimeoutsOn PROVE Spec => NoSilentClose
  <1>1. Known /\ DebtInv /\ expired = {} /\ [Next]_vars =>
          DebtInv' /\
          [\A fd \in Fds :
              /\ Connected(fd) /\ ~socks[fd].fin
              /\ socks[fd].sent * RespParts > socks[fd].wrote * ReqParts
              => socks'[fd].open]_vars
    BY DebtStep
  <1>2. Init => DebtInv
    BY DebtInitial
  <1> QED BY <1>1, <1>2, NothingExpires, KnownHolds, PTL DEF Spec, NoSilentClose

=============================================================================
