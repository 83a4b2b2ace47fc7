--------------------------- MODULE TcpConnection ---------------------------
(***************************************************************************)
(* A blocking Connection (hw3, with copies in hw4, hw6 and hw7) over its   *)
(* Socket, and the kernel's side of the one TCP connection it has at a     *)
(* time.  One action per system call that read(), write(), close() and     *)
(* connect() make and per way it can end; readExact(), writeExact() and    *)
(* readToBuffer() are loops of them, which the user of the module runs.    *)
(***************************************************************************)
EXTENDS Integers, Sequences

CONSTANT Cap      \* what the kernel holds in each direction
ASSUME CapAssumption == Cap \in Nat \ {0}

VARIABLES
    opened,   \* Connection::m_opened
    socket,   \* m_socket: no descriptor, an unused one, a connected one
    buffer,   \* m_buffer, or the string that readExact fills
    eagain,   \* is errno still EAGAIN from an earlier call?
    outbox,   \* written, and not yet read by the peer
    inbox,    \* written by the peer, and not yet read
    peer,     \* has the peer closed its end?
    rst       \* has the peer's kernel answered with a reset?

objectVars == <<opened, socket, buffer, eagain>>
wireVars   == <<outbox, inbox, peer, rst>>
tcpVars    == <<objectVars, wireVars>>

Prefix(s, n) == SubSeq(s, 1, n)
Suffix(s, n) == SubSeq(s, n + 1, Len(s))
AtMost(n, m) == IF n < m THEN n ELSE m

TcpInit ==
    /\ opened = FALSE /\ socket = "unused" /\ buffer = <<>> /\ eagain = FALSE
    /\ outbox = <<>> /\ inbox = <<>> /\ peer = "closed" /\ rst = FALSE

\* ::read returns up to size of what is there, whatever errno says.
ReadSome(size) ==
    /\ opened /\ inbox # <<>>
    /\ buffer' = buffer \o Prefix(inbox, AtMost(size, Len(inbox)))
    /\ inbox' = Suffix(inbox, AtMost(size, Len(inbox)))
    /\ UNCHANGED <<opened, socket, eagain, outbox, peer, rst>>

\* SO_RCVTIMEO ran out: read() returns 0 and leaves errno behind.
ReadTimesOut ==
    /\ opened /\ inbox = <<>> /\ peer = "open" /\ ~rst
    /\ eagain' = TRUE
    /\ UNCHANGED <<opened, socket, buffer, wireVars>>

\* Mutant: the end of the file is taken for a time-out.
ReadEndMissed ==
    /\ opened /\ inbox = <<>> /\ peer = "closed" /\ ~rst
    /\ UNCHANGED tcpVars

\* ::read returns 0; an errno left by a time-out hides it.
ReadEnd ==
    /\ opened /\ inbox = <<>> /\ peer = "closed" /\ ~rst
    /\ opened' = eagain
    /\ UNCHANGED <<socket, buffer, eagain, wireVars>>

\* ECONNRESET: IOError; the next read() finds the end of the file.
ReadFails ==
    /\ opened /\ inbox = <<>> /\ rst
    /\ rst' = FALSE /\ eagain' = FALSE
    /\ UNCHANGED <<opened, socket, buffer, outbox, inbox, peer>>

\* ::write takes the first n of data.
WriteSome(data, n) ==
    /\ opened /\ peer = "open" /\ ~rst
    /\ n \in 1 .. AtMost(Len(data), Cap - Len(outbox))
    /\ outbox' = outbox \o Prefix(data, n)
    /\ UNCHANGED <<objectVars, inbox, peer, rst>>

\* SO_SNDTIMEO ran out: write() returns 0 and leaves errno behind.
WriteTimesOut ==
    /\ opened /\ peer = "open" /\ ~rst /\ Len(outbox) = Cap
    /\ eagain' = TRUE
    /\ UNCHANGED <<opened, socket, buffer, wireVars>>

\* The peer is gone: the kernel takes data, and gets a reset for it.
WriteToNobody ==
    /\ opened /\ peer = "closed" /\ ~rst
    /\ rst' = TRUE
    /\ UNCHANGED <<objectVars, outbox, inbox, peer>>

\* EPIPE after a reset: SIGPIPE ends the process and what it holds.
WriteKills ==
    /\ opened /\ rst
    /\ opened' = FALSE /\ socket' = "none"
    /\ UNCHANGED <<buffer, eagain, wireVars>>

\* close() of an open connection; it does nothing after an end of file.
CloseConnection ==
    /\ opened' = FALSE
    /\ socket' = IF opened THEN "none" ELSE socket

\* connect(): Socket::open() makes a descriptor only if there is none.
Connect ==
    /\ ~opened /\ socket \in {"none", "unused"}
    /\ opened' = TRUE /\ socket' = "used"
    /\ outbox' = <<>> /\ inbox' = <<>> /\ peer' = "open" /\ rst' = FALSE
    /\ UNCHANGED <<buffer, eagain>>

\* EISCONN: after an end of file the old descriptor is still there.
ConnectFails ==
    /\ ~opened /\ socket = "used"
    /\ UNCHANGED tcpVars
=============================================================================
