----------------------------- MODULE HttpWorker -----------------------------
(***************************************************************************)
(* One working thread of the HTTP server of hw6 and hw7:                   *)
(* BaseHTTPServer::ThreadWork (its connections, their coroutines and the   *)
(* idle times), connectionCallback as it runs inside a coroutine, the      *)
(* ConnectionAsync it reads and writes, and the kernel's side of it: the   *)
(* thread's epoll, the sockets and the peers.                              *)
(*                                                                         *)
(* A request is ReqParts reads long and a response RespParts writes long;  *)
(* a socket buffers at most SndBuf parts that its peer has not received.   *)
(* A peer sends its next request when it has the whole last response.      *)
(* "last" says that the request it is sending asks not to keep the         *)
(* connection alive.                                                       *)
(* The other working threads appear as thieves of waiting connections.     *)
(***************************************************************************)
EXTENDS Integers, Sequences

CONSTANTS
    Fds,          \* the descriptor numbers accept() can return
    Listen,       \* the listening socket
    MaxRoutines,  \* bound: coroutines of the thread
    MaxConns,     \* bound: connections the peers open
    MaxReqs,      \* bound: requests a peer sends on a connection
    ReqParts, RespParts, SndBuf,
    FaultyPeers,     \* may peers close or reset a connection?
    TimeoutsOn,      \* may a connection outlive m_timeout?
    EpollAddMayFail, \* may EPOLL_CTL_ADD fail (ENOMEM, ENOSPC)?
    ClockMayStall    \* may system_clock repeat a reading (clock step)?

ASSUME ListenAssumption == Listen \notin Fds
ASSUME BoundsAssumption ==
    /\ MaxRoutines \in Nat \ {0} /\ MaxConns \in Nat /\ MaxReqs \in Nat
    /\ ReqParts \in Nat \ {0} /\ RespParts \in Nat \ {0}
    /\ SndBuf \in Nat \ {0}
ASSUME FaultsAssumption ==
    {FaultyPeers, TimeoutsOn, EpollAddMayFail, ClockMayStall} \subseteq BOOLEAN

VARIABLES
    routines, finished, capacity, current, fate,   \* see Coroutine
    frames,       \* locals of connectionCallback, on each routine's stack
    connections,  \* ThreadWork::m_connections
    coroutines,   \* ThreadWork::m_coroutines; 0 where it has no entry
    idle,         \* the descriptors in ThreadWork::m_idleTime
    older,        \* its order: <<a, b>> when a's stamp is less than b's
    expired,      \* the ones whose stamp is more than m_timeout ago
    pc,           \* where ThreadWork::run is
    handling,     \* handleConnection's fd; Listen when it is not running
    batch,        \* the rest of the events epoll_wait returned
    interest,     \* descriptors the thread's epoll watches
    ready,        \* the epoll's ready list
    socks,        \* the kernel's side of each accepted connection
    backlog,      \* connections waiting in the listening socket
    connects      \* connections the peers have opened so far

Co == INSTANCE Coroutine WITH Jobs <- Fds

coVars     == <<routines, finished, capacity, current, fate>>
workVars   == <<connections, coroutines, idle, older, expired>>
loopVars   == <<pc, handling, batch>>
epollVars  == <<interest, ready>>
kernelVars == <<socks, backlog, connects>>
vars == <<coVars, frames, workVars, loopVars, epollVars, kernelVars>>

(***************************************************************************)
(* m_opened and m_socket of a ConnectionAsync, in one state: "open" has    *)
(* both; "eof" is after read() returned 0, which clears m_opened but keeps *)
(* the socket; "closed" is after close(); "absent" is not in the map.      *)
(***************************************************************************)
ConnState == {"absent", "open", "eof", "closed"}
Connection == [st : ConnState, buf : Nat]
Absent == [st |-> "absent", buf |-> 0]
Opened == [st |-> "open", buf |-> 0]

Present == {fd \in Fds : connections[fd].st # "absent"}

(***************************************************************************)
(* live is FALSE once the ConnectionAsync that the routine holds by        *)
(* reference has been erased from m_connections.                           *)
(***************************************************************************)
Frame == [pc : {"read", "write"}, left : Nat, keep : BOOLEAN, live : BOOLEAN]
NewFrame == [pc |-> "read", left |-> 0, keep |-> FALSE, live |-> TRUE]

Sock == [open : BOOLEAN, inq : Nat, fin : BOOLEAN,
         rst : {"none", "pending", "taken"},
         outq : Nat, nospace : BOOLEAN, sent : Nat, wrote : Nat,
         last : BOOLEAN]
NoSock == [open |-> FALSE, inq |-> 0, fin |-> FALSE, rst |-> "none",
           outq |-> 0, nospace |-> FALSE, sent |-> 0, wrote |-> 0,
           last |-> FALSE]

\* A peer may have sent (part of) its first request before accept4 returns.
Early == {parts \in 0 .. ReqParts : parts <= ReqParts * MaxReqs}
Accepted(parts, last) == [NoSock EXCEPT !.open = TRUE, !.inq = parts,
                                        !.sent = parts, !.last = last]

\* What the peer has received so far.
Got(fd) == socks[fd].wrote - socks[fd].outq

\* epoll_wait reports a listed descriptor only if it finds events on it.
Pollable(fd) == \/ socks[fd].inq > 0 \/ socks[fd].fin \/ socks[fd].rst # "none"
                \/ socks[fd].outq < SndBuf

\* A socket event wakes the epoll that watches the socket (EPOLLET).
Wake(fd) == ready' = IF fd \in interest THEN ready \union {fd} ELSE ready

-----------------------------------------------------------------------------
(* m_idleTime *)

\* Mutant: disconnectClient returns before its last erase.
ForgetNothing(fd) == UNCHANGED <<idle, older, expired>>

Forget(fd) ==
    /\ idle' = idle \ {fd}
    /\ older' = {p \in older : p[1] # fd /\ p[2] # fd}
    /\ expired' = expired \ {fd}

\* A stamp taken now is the greatest; one that equals another is not stored.
Stamp(fd) ==
    /\ \/ /\ idle' = idle \union {fd}
          /\ older' = {p \in older : p[1] # fd /\ p[2] # fd}
                        \union ((idle \ {fd}) \X {fd})
       \/ /\ ClockMayStall /\ idle \ {fd} # {}
          /\ idle' = idle \ {fd}
          /\ older' = {p \in older : p[1] # fd /\ p[2] # fd}
    /\ expired' = expired \ {fd}

-----------------------------------------------------------------------------
(* The coroutine of a connection *)

\* create(connectionCallback, m_pServer, std::ref(m_connections[fd]))
CreateFor(fd) ==
    \E id \in 1 .. MaxRoutines :
        /\ Co!Create(fd, id)
        /\ frames' = [frames EXCEPT ![id] = NewFrame]
        /\ coroutines' = [coroutines EXCEPT ![fd] = id]

\* The routine that runs, its locals and the connection it serves.
Frm == frames[current]
Own == routines[current].func

Undefined == Co!Leave /\ fate' = "undefined"

(***************************************************************************)
(* Control is back in resume() after the routine ended or yielded: its     *)
(* exception goes on to the catch of run(), past the rest of the batch.    *)
(***************************************************************************)
BackInResume ==
    IF routines'[current].exception
    THEN pc' = "drop" /\ batch' = {} /\ handling' = Listen
    ELSE pc' = "after" /\ UNCHANGED <<batch, handling>>

Throw == Co!Finish(TRUE) /\ BackInResume
\* Mutant: readRequest does not catch what an incomplete request throws.
YieldThrows == Throw

YieldToLoop == Co!Yield /\ BackInResume

\* The last reference to a socket is closed: epoll forgets it.
CloseSock(fd) ==
    /\ socks' = [socks EXCEPT ![fd] = NoSock]
    /\ interest' = interest \ {fd}
    /\ ready' = ready \ {fd}

Runs(where) == /\ fate = "running" /\ pc = "coro" /\ Frm.pc = where /\ Frm.live

\* HTTPRequest::fromString accepts the buffer.
AnythingParses(fd) == TRUE              \* mutant: no check for the end
RequestComplete(fd) == connections[fd].buf >= ReqParts

\* What writeResponse still has to send after a write of n parts.
RemainingSwapped(left, n) == n - left   \* mutant: operands swapped
Remaining(left, n) == left - n

Drained == socks[Own].inq = 0

ReadClosed ==
    /\ Runs("read") /\ connections[Own].st # "open"
    /\ Throw
    /\ UNCHANGED <<frames, workVars, epollVars, kernelVars>>

ReadData ==
    /\ Runs("read") /\ connections[Own].st = "open" /\ ~Drained
    /\ connections' = [connections EXCEPT ![Own].buf = @ + 1]
    /\ socks' = [socks EXCEPT ![Own].inq = @ - 1]
    /\ UNCHANGED <<coVars, frames, coroutines, idle, older, expired,
                   loopVars, epollVars, backlog, connects>>

ReadEof ==
    /\ Runs("read") /\ connections[Own].st = "open" /\ Drained
    /\ socks[Own].fin \/ socks[Own].rst = "taken"
    /\ connections' = [connections EXCEPT ![Own].st = "eof"]
    /\ UNCHANGED <<coVars, frames, coroutines, idle, older, expired,
                   loopVars, epollVars, kernelVars>>

ReadError ==
    /\ Runs("read") /\ connections[Own].st = "open" /\ Drained
    /\ ~socks[Own].fin /\ socks[Own].rst = "pending"
    /\ socks' = [socks EXCEPT ![Own].rst = "taken"]
    /\ Throw
    /\ UNCHANGED <<frames, workVars, epollVars, backlog, connects>>

\* EAGAIN: the request parses (onRequest answers it) or the routine yields.
ReadAgain ==
    /\ Runs("read") /\ connections[Own].st = "open" /\ Drained
    /\ ~socks[Own].fin /\ socks[Own].rst = "none"
    /\ \/ /\ RequestComplete(Own)
          /\ frames' = [frames EXCEPT ![current] = [@ EXCEPT
                !.pc = "write", !.left = RespParts, !.keep = ~socks[Own].last]]
          /\ UNCHANGED <<coVars, loopVars>>
       \/ /\ ~RequestComplete(Own)
          /\ YieldToLoop
          /\ UNCHANGED frames
    /\ UNCHANGED <<workVars, epollVars, kernelVars>>

WriteClosed ==
    /\ Runs("write") /\ Frm.left > 0 /\ connections[Own].st # "open"
    /\ Throw
    /\ UNCHANGED <<frames, workVars, epollVars, kernelVars>>

WriteData ==
    /\ Runs("write") /\ Frm.left > 0 /\ connections[Own].st = "open"
    /\ socks[Own].rst = "none" /\ socks[Own].outq < SndBuf
    /\ \E n \in 1 .. RespParts :
        /\ \/ n = Frm.left /\ n <= SndBuf - socks[Own].outq
           \/ n < Frm.left /\ n = SndBuf - socks[Own].outq
        /\ socks' = [socks EXCEPT ![Own].outq = @ + n, ![Own].wrote = @ + n]
        /\ frames' = [frames EXCEPT ![current].left = Remaining(@, n)]
    /\ UNCHANGED <<coVars, workVars, loopVars, epollVars, backlog, connects>>

WriteAgain ==
    /\ Runs("write") /\ Frm.left > 0 /\ connections[Own].st = "open"
    /\ socks[Own].rst = "none" /\ socks[Own].outq = SndBuf
    /\ socks' = [socks EXCEPT ![Own].nospace = TRUE]
    /\ YieldToLoop
    /\ UNCHANGED <<frames, workVars, epollVars, backlog, connects>>

(***************************************************************************)
(* write() after the peer reset: ECONNRESET is reported once, and then, or *)
(* at once if the peer had shut down first, EPIPE comes with a SIGPIPE     *)
(* that nothing in the program ignores.                                    *)
(***************************************************************************)
Pipe(fd) == socks[fd].fin \/ socks[fd].rst = "taken"

WriteReset ==
    /\ Runs("write") /\ Frm.left > 0 /\ connections[Own].st = "open"
    /\ socks[Own].rst = "pending" /\ ~Pipe(Own)
    /\ socks' = [socks EXCEPT ![Own].rst = "taken"]
    /\ Throw
    /\ UNCHANGED <<frames, workVars, epollVars, backlog, connects>>

WriteSigpipe ==
    /\ Runs("write") /\ Frm.left > 0 /\ connections[Own].st = "open"
    /\ socks[Own].rst # "none" /\ Pipe(Own)
    /\ Co!Leave /\ fate' = "killed"
    /\ UNCHANGED <<frames, workVars, loopVars, epollVars, kernelVars>>

\* Mutant: c.close() when the request asks to keep the connection.
AnswerInverted ==
    /\ Runs("write") /\ Frm.left = 0
    /\ IF ~Frm.keep \/ connections[Own].st # "open"
       THEN /\ connections' = [connections EXCEPT ![Own].buf = 0]
            /\ UNCHANGED <<socks, epollVars>>
       ELSE /\ connections' = [connections EXCEPT
                    ![Own] = [@ EXCEPT !.buf = 0, !.st = "closed"]]
            /\ CloseSock(Own)
    /\ Co!Finish(FALSE) /\ BackInResume
    /\ UNCHANGED <<frames, coroutines, idle, older, expired, backlog, connects>>

\* The response is out: connectionCallback clears the buffer and returns.
Answer ==
    /\ Runs("write") /\ Frm.left = 0
    /\ IF Frm.keep \/ connections[Own].st # "open"
       THEN /\ connections' = [connections EXCEPT ![Own].buf = 0]
            /\ UNCHANGED <<socks, epollVars>>
       ELSE /\ connections' = [connections EXCEPT
                    ![Own] = [@ EXCEPT !.buf = 0, !.st = "closed"]]
            /\ CloseSock(Own)
    /\ Co!Finish(FALSE) /\ BackInResume
    /\ UNCHANGED <<frames, coroutines, idle, older, expired, backlog, connects>>

\* The routine's ConnectionAsync was erased while it was suspended.
UseErased ==
    /\ fate = "running" /\ pc = "coro" /\ ~Frm.live /\ Undefined
    /\ UNCHANGED <<frames, workVars, loopVars, epollVars, kernelVars>>

CoroutineStep ==
    \/ ReadClosed \/ ReadData \/ ReadEof \/ ReadError \/ ReadAgain
    \/ WriteClosed \/ WriteData \/ WriteAgain \/ WriteReset \/ WriteSigpipe
    \/ Answer \/ UseErased

-----------------------------------------------------------------------------
(* ThreadWork::run *)

\* Mutant: ConnectionAsync has no SocketAsync to close what read() gave up.
DisconnectLeaks(fd) ==
    /\ connections' = [connections EXCEPT ![fd] = Absent]
    /\ coroutines' = [coroutines EXCEPT ![fd] = 0]
    /\ UNCHANGED frames
    /\ IF connections[fd].st = "open"
       THEN CloseSock(fd) ELSE UNCHANGED <<socks, epollVars>>

\* disconnectClient, up to the m_idleTime.erase that ends it.
Disconnect(fd) ==
    /\ connections' = [connections EXCEPT ![fd] = Absent]
    /\ coroutines' = [coroutines EXCEPT ![fd] = 0]
    /\ frames' = [id \in 1 .. MaxRoutines |->
            IF id \in Co!Ids /\ routines[id].func = fd
            THEN [frames[id] EXCEPT !.live = FALSE] ELSE frames[id]]
    /\ IF connections[fd].st \in {"open", "eof"}
       THEN CloseSock(fd)
       ELSE UNCHANGED <<socks, epollVars>>

(***************************************************************************)
(* dropTimeoutedConnections: disconnectClient erases the element under the *)
(* loop's iterator; the ++i that follows reads a freed node, and goes on   *)
(* with the set's next element or leaves defined behaviour.                *)
(***************************************************************************)
DropExpired(fd) ==
    /\ pc = "drop" /\ fd \in expired
    /\ \A g \in idle : <<g, fd>> \notin older
    /\ Disconnect(fd) /\ Forget(fd)
    /\ Co!Leave /\ fate' \in {"running", "undefined"}
    /\ UNCHANGED <<loopVars, backlog, connects>>

\* Mutant: the comparison with m_timeout never lets the loop drop.
DropNone ==
    /\ fate = "running" /\ pc = "drop" /\ pc' = "wait"
    /\ UNCHANGED <<coVars, frames, workVars, handling, batch,
                   epollVars, kernelVars>>

DropDone ==
    /\ fate = "running" /\ pc = "drop" /\ expired = {}
    /\ pc' = "wait"
    /\ UNCHANGED <<coVars, frames, workVars, handling, batch,
                   epollVars, kernelVars>>

\* The listening socket is level-triggered: it stays listed.
Delivered == {fd \in ready : Pollable(fd)}
                \union (IF backlog > 0 THEN {Listen} ELSE {})

EpollWait ==
    /\ fate = "running" /\ pc = "wait" /\ Delivered # {}
    /\ pc' = "batch" /\ batch' = Delivered /\ ready' = {}
    /\ UNCHANGED <<coVars, frames, workVars, handling, interest, kernelVars>>

EpollTimeout ==
    /\ fate = "running" /\ pc = "wait" /\ Delivered = {}
    /\ pc' = "drop" /\ ready' = {}
    /\ UNCHANGED <<coVars, frames, workVars, handling, batch,
                   interest, kernelVars>>

BatchDone ==
    /\ fate = "running" /\ pc = "batch" /\ batch = {}
    /\ pc' = "drop"
    /\ UNCHANGED <<coVars, frames, workVars, handling, batch,
                   epollVars, kernelVars>>

\* accept4 fails: another thread was faster, or no descriptor is left.
AcceptFails ==
    /\ fate = "running" /\ pc = "batch" /\ Listen \in batch
    /\ backlog = 0 \/ \A fd \in Fds : socks[fd].open
    /\ batch' = batch \ {Listen}
    /\ UNCHANGED <<coVars, frames, workVars, pc, handling,
                   epollVars, kernelVars>>

Accepting(fd) ==
    /\ fate = "running" /\ pc = "batch" /\ Listen \in batch
    /\ backlog > 0 /\ ~socks[fd].open
    /\ backlog' = backlog - 1

\* addToEpoll throws out of accept() and of the batch.
AcceptThrows == pc' = "drop" /\ batch' = {}

\* m_connections still has the number: emplace keeps the old element, the
\* temporary closes the new socket, and epoll refuses the closed descriptor.
AcceptStale(fd) ==
    /\ Accepting(fd) /\ fd \in Present
    /\ AcceptThrows
    /\ UNCHANGED <<coVars, frames, workVars, handling,
                   epollVars, socks, connects>>

AcceptNoEpoll(fd) ==
    /\ EpollAddMayFail /\ Accepting(fd) /\ fd \notin Present
    /\ connections' = [connections EXCEPT ![fd] = Opened]
    /\ \E parts \in Early, last \in BOOLEAN :
          /\ last => parts > 0
          /\ socks' = [socks EXCEPT ![fd] = Accepted(parts, last)]
    /\ AcceptThrows
    /\ UNCHANGED <<coVars, frames, coroutines, idle, older, expired, handling,
                   epollVars, connects>>

Accept(fd) ==
    /\ Accepting(fd) /\ fd \notin Present
    /\ connections' = [connections EXCEPT ![fd] = Opened]
    /\ \E parts \in Early, last \in BOOLEAN :
          /\ last => parts > 0
          /\ socks' = [socks EXCEPT ![fd] = Accepted(parts, last)]
    /\ interest' = interest \union {fd}
    /\ ready' = ready \union {fd}
    /\ CreateFor(fd)
    /\ Stamp(fd)
    /\ batch' = batch \ {Listen}
    /\ UNCHANGED <<pc, handling, connects>>

\* handleConnection up to resume(); a refused resume returns at once.
HandleConnection(fd) ==
    /\ fate = "running" /\ pc = "batch" /\ fd \in batch \ {Listen}
    /\ batch' = batch \ {fd} /\ handling' = fd
    /\ \/ Co!Resume(coroutines[fd]) /\ pc' = "coro"
       \/ Co!ResumeEnded(coroutines[fd]) /\ pc' = "coro"
       \/ Co!Refuses(coroutines[fd]) /\ pc' = "after" /\ UNCHANGED coVars
    /\ UNCHANGED <<frames, workVars, epollVars, kernelVars>>

\* Mutant: a connection with an empty buffer is taken for a closed one.
AfterEmpty ==
    /\ fate = "running" /\ pc = "after" /\ connections[handling].buf = 0
    /\ Disconnect(handling) /\ Forget(handling)
    /\ IF handling \in idle THEN UNCHANGED coVars ELSE Undefined
    /\ pc' = "batch" /\ handling' = Listen
    /\ UNCHANGED <<batch, backlog, connects>>

\* The rest of handleConnection, and run's resetConnectionTime.
AfterClosed ==
    /\ fate = "running" /\ pc = "after" /\ connections[handling].st # "open"
    /\ Disconnect(handling) /\ Forget(handling)
    /\ IF handling \in idle THEN UNCHANGED coVars ELSE Undefined
    /\ pc' = "batch" /\ handling' = Listen
    /\ UNCHANGED <<batch, backlog, connects>>

\* Mutant: no coroutine for the connection's next request.
AfterOpenOnce ==
    /\ fate = "running" /\ pc = "after" /\ connections[handling].st = "open"
    /\ handling \in idle /\ Stamp(handling)
    /\ pc' = "batch" /\ handling' = Listen
    /\ UNCHANGED <<coVars, frames, coroutines, connections, batch,
                   epollVars, kernelVars>>

\* Mutant: the connection's routine is reset where create() would be called.
AfterOpenResets ==
    /\ fate = "running" /\ pc = "after" /\ connections[handling].st = "open"
    /\ coroutines[handling] \in Co!Ids
    /\ routines' = [routines EXCEPT ![coroutines[handling]] =
                        Co!NewRoutine(handling, @.moved)]
    /\ handling \in idle /\ Stamp(handling)
    /\ pc' = "batch" /\ handling' = Listen
    /\ UNCHANGED <<finished, capacity, current, fate, frames, coroutines,
                   connections, batch, epollVars, kernelVars>>

AfterOpen ==
    /\ fate = "running" /\ pc = "after" /\ connections[handling].st = "open"
    /\ IF connections[handling].buf = 0
       THEN CreateFor(handling)
       ELSE UNCHANGED <<coVars, frames, coroutines>>
    /\ handling \in idle /\ Stamp(handling)
    /\ pc' = "batch" /\ handling' = Listen
    /\ UNCHANGED <<connections, batch, epollVars, kernelVars>>

\* resetConnectionTime erases end().
AfterUntimed ==
    /\ fate = "running" /\ pc = "after" /\ connections[handling].st = "open"
    /\ handling \notin idle /\ Undefined
    /\ UNCHANGED <<frames, workVars, loopVars, epollVars, kernelVars>>

LoopStep ==
    \/ \E fd \in Fds : DropExpired(fd)
    \/ DropDone \/ EpollWait \/ EpollTimeout \/ BatchDone \/ AcceptFails
    \/ \E fd \in Fds : AcceptStale(fd)
    \/ \E fd \in Fds : AcceptNoEpoll(fd)
    \/ \E fd \in Fds : Accept(fd)
    \/ \E fd \in Fds : HandleConnection(fd)
    \/ AfterClosed \/ AfterOpen \/ AfterUntimed

Worker == CoroutineStep \/ LoopStep

-----------------------------------------------------------------------------
(* Peers, other threads and the clock *)

PeerConnect ==
    /\ fate = "running" /\ connects < MaxConns
    /\ connects' = connects + 1 /\ backlog' = backlog + 1
    /\ UNCHANGED <<coVars, frames, workVars, loopVars, epollVars, socks>>

OtherThreadAccepts ==
    /\ fate = "running" /\ backlog > 0
    /\ backlog' = backlog - 1
    /\ UNCHANGED <<coVars, frames, workVars, loopVars, epollVars,
                   socks, connects>>

Connected(fd) == socks[fd].open /\ socks[fd].rst = "none"

Peer(fd) == /\ fate = "running" /\ Connected(fd) /\ Wake(fd)
            /\ UNCHANGED <<coVars, frames, workVars, loopVars, interest,
                           backlog, connects>>

\* A peer asks again only when it has the whole last response.
PeerSend(fd) ==
    /\ Peer(fd) /\ ~socks[fd].fin
    /\ \E k \in 1 .. MaxReqs :
         /\ Got(fd) >= RespParts * (k - 1)
         /\ socks[fd].sent < ReqParts * k
    /\ \E last \in BOOLEAN :
         /\ IF socks[fd].sent % ReqParts = 0
            THEN ~socks[fd].last ELSE last = socks[fd].last
         /\ socks' = [socks EXCEPT ![fd].inq = @ + 1, ![fd].sent = @ + 1,
                                   ![fd].last = last]

PeerReceive(fd) ==
    /\ fate = "running" /\ Connected(fd) /\ socks[fd].outq > 0
    /\ socks' = [socks EXCEPT ![fd].outq = @ - 1, ![fd].nospace = FALSE]
    /\ IF socks[fd].nospace THEN Wake(fd) ELSE UNCHANGED ready
    /\ UNCHANGED <<coVars, frames, workVars, loopVars, interest,
                   backlog, connects>>

PeerShutdown(fd) ==
    /\ FaultyPeers /\ Peer(fd) /\ ~socks[fd].fin
    /\ socks' = [socks EXCEPT ![fd].fin = TRUE]

PeerReset(fd) ==
    /\ FaultyPeers /\ Peer(fd)
    /\ socks' = [socks EXCEPT ![fd].rst = "pending", ![fd].outq = 0]

Expire(fd) ==
    /\ TimeoutsOn /\ fate = "running" /\ fd \in idle \ expired
    /\ \A g \in idle : <<g, fd>> \in older => g \in expired
    /\ expired' = expired \union {fd}
    /\ UNCHANGED <<coVars, frames, connections, coroutines, idle, older,
                   loopVars, epollVars, kernelVars>>

Environment ==
    \/ PeerConnect \/ OtherThreadAccepts
    \/ \E fd \in Fds : \/ PeerSend(fd) \/ PeerReceive(fd) \/ PeerShutdown(fd)
                       \/ PeerReset(fd) \/ Expire(fd)

-----------------------------------------------------------------------------

Init ==
    /\ Co!CoInit
    /\ frames = [id \in 1 .. MaxRoutines |-> NewFrame]
    /\ connections = [fd \in Fds |-> Absent]
    /\ coroutines = [fd \in Fds |-> 0]
    /\ idle = {} /\ older = {} /\ expired = {}
    /\ pc = "drop" /\ handling = Listen /\ batch = {}
    /\ interest = {} /\ ready = {}
    /\ socks = [fd \in Fds |-> NoSock]
    /\ backlog = 0 /\ connects = 0

Next == Worker \/ Environment

Spec == Init /\ [][Next]_vars

(***************************************************************************)
(* The thread runs whenever it can, peers read what they are sent, and     *)
(* time passes.                                                            *)
(***************************************************************************)
Fairness ==
    /\ WF_vars(Worker)
    /\ \A fd \in Fds : WF_vars(PeerReceive(fd)) /\ WF_vars(Expire(fd))

FairSpec == Spec /\ Fairness

-----------------------------------------------------------------------------
(* Properties *)

TypeOK ==
    /\ Co!CoTypeOK
    /\ frames \in [1 .. MaxRoutines -> Frame]
    /\ connections \in [Fds -> Connection]
    /\ coroutines \in [Fds -> 0 .. MaxRoutines]
    /\ idle \subseteq Fds /\ older \subseteq idle \X idle
    /\ expired \subseteq idle
    /\ pc \in {"drop", "wait", "batch", "coro", "after"}
    /\ handling \in Fds \union {Listen}
    /\ batch \subseteq Fds \union {Listen}
    /\ interest \subseteq Fds /\ ready \subseteq interest
    /\ socks \in [Fds -> Sock]
    /\ backlog \in Nat /\ connects \in Nat

\* Every event the loop holds or epoll lists is about a connection of
\* m_connections: handleConnection's m_connections[fd] never default-constructs
\* a ConnectionAsync (whose socket would be a new one).
NoPhantomEvent == (batch \union ready) \ {Listen} \subseteq Present

\* An accepted socket is open exactly as long as the ConnectionAsync under its
\* number owns it: none leaks, and close() never hits a reused number.
SocketsOwned ==
    \A fd \in Fds : socks[fd].open <=> connections[fd].st \in {"open", "eof"}

\* m_idleTime only names connections that exist, so that a timeout never
\* makes disconnectClient default-construct one.
IdleKnown == idle \subseteq Present

\* Every connection has an idle time: the find_if of disconnectClient and of
\* resetConnectionTime never returns the end() that erase would be given.
IdleTracksConnections == idle = Present

\* While peers stay, a request that is there in part is not lost: the coroutine
\* that the next event will resume has not ended and serves this very connection.
\* (A peer that leaves can make a coroutine end by an exception, and its stale
\* element of m_coroutines can end the coroutine of another connection.)
PartialRequestKept ==
    fate = "running" /\ pc \notin {"coro", "after"} =>
        \A fd \in Fds :
            /\ connections[fd].st = "open" /\ connections[fd].buf > 0
            /\ Connected(fd) /\ ~socks[fd].fin
            => LET id == coroutines[fd] IN
                /\ id \in Co!Ids /\ frames[id].live
                /\ routines[id].func = fd
                /\ routines[id].phase \in {"fresh", "suspended"}

\* While peers stay, no request is answered twice or before it has been read
\* to its end, even when two routines hold the same connection.
OneResponsePerRequest ==
    \A fd \in Fds :
        socks[fd].wrote <= RespParts * ((socks[fd].sent - socks[fd].inq)
                                            \div ReqParts)

\* Without timeouts the server does not close on a peer that is there and
\* waits for (the rest of) an answer.
NoSilentClose ==
    [][\A fd \in Fds :
          /\ Connected(fd) /\ ~socks[fd].fin
          /\ socks[fd].sent * RespParts > socks[fd].wrote * ReqParts
          => socks'[fd].open]_vars

\* The worker uses the coroutine pool as its interface asks.
CoSpec == Co!CoSpec

\* A whole request has been sent and the response is not all written.
Unanswered(fd) ==
    /\ socks[fd].open /\ ~socks[fd].fin /\ socks[fd].rst = "none"
    /\ socks[fd].wrote < RespParts * (socks[fd].sent \div ReqParts)

\* While peers stay, every request that one has sent is answered, however the
\* requests and answers of the others fall between its own: in the end, there
\* being MaxReqs of them, none is left.  (An exception over a peer that leaves
\* loses the events of the batch behind it.)
Answered == <>[](fate # "running" \/ \A fd \in Fds : ~Unanswered(fd))

\* A connection whose peer is gone is dropped in the end.
DeadDropped ==
    \A fd \in Fds :
        (fd \in Present /\ (socks[fd].fin \/ socks[fd].rst # "none"))
            ~> (fd \notin Present \/ fate # "running")

\* Each connection is handled by its own coroutine.
ServesOwnConnection ==
    fate = "running" /\ pc = "coro" => Own = handling

=============================================================================
