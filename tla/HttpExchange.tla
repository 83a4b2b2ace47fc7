---------------------------- MODULE HttpExchange ----------------------------
(***************************************************************************)
(* A client and the HTTP server of hw6 and hw7 from end to end: requests   *)
(* turned into text, written to a blocking Connection, read by the         *)
(* connection's coroutine in pieces, parsed, handled by onRequest, and the *)
(* same way back.                                                          *)
(*                                                                         *)
(* The client asks as hw7's example/client.cpp does, as often as its       *)
(* program says: toString, write, read the answer.  It reads in one of     *)
(* three ways the library offers: readExact() of a size that it takes the  *)
(* answer to have, readToBuffer() until tryReadResponse() accepts the      *)
(* buffer, or readToBuffer() while the connection is open.  The example is *)
(* of the first kind, with a constant size of 128: longer than any answer  *)
(* of the example's server, so that it always meets the end of the file.   *)
(* The client here writes with writeExact(), where the example has one     *)
(* write(), and parses what it has read, where the example prints it.      *)
(* After a request without keep-alive it closes its connection and         *)
(* connects again.                                                         *)
(* The server side is one connection's coroutine (HttpWorker has the       *)
(* thread, its epoll and its other connections).                           *)
(***************************************************************************)
EXTENDS HttpMessage, TcpConnection

CONSTANTS
    Programs,    \* sequences of requests a client may make
    Services,    \* which onRequest the server has: "canned" or "file"
    Readers,     \* how the client reads: "exact", "parse" or "end"
    AnswerSizes, \* the sizes that a client may read exactly
    Entries,     \* the entries of the served file, from key 0 on
    ReadSize,    \* readSize of BaseHTTPServer.cpp, and of the client
    MayTimeOut,  \* are receive and send time-outs set, and may they end?
    MayDrop      \* may the server drop the connection as idle?

\* Programs ask with messages that a text can carry, entries are short enough
\* for their length to be a number, and reads ask for something.
ASSUME ExchangeAssumption ==
    /\ \A p \in Programs :
          /\ p = [i \in 1 .. Len(p) |-> p[i]] /\ Len(p) \in Nat
          /\ \A i \in 1 .. Len(p) : IsRequest(p[i])
    /\ Readers \subseteq {"exact", "parse", "end"}
    /\ DOMAIN Entries = 1 .. Len(Entries) /\ Len(Entries) \in Nat
    /\ \A i \in DOMAIN Entries :
          Entries[i] \in Seq(Token) /\ Len(Entries[i]) + 2 <= MaxNumber
    /\ AnswerSizes \subseteq Nat \ {0}
    /\ ReadSize \in Nat \ {0}

VARIABLES
    service, program, asked, handled, replies,   \* see RequestReply
    reader, pc,  \* the client
    msg,         \* what it still has to write
    answerSize,  \* how long it takes the answer to be, if it reads exactly
    failure,     \* why it has given up
    copc, cobuf, coleft, cokeep,   \* the coroutine and its connection
    timedout, dropped              \* what has happened so far

clientVars == <<reader, pc, msg, answerSize, failure>>
serverVars == <<copc, cobuf, coleft, cokeep>>
vars == <<service, program, asked, handled, replies, clientVars, serverVars,
          timedout, dropped, tcpVars>>

-----------------------------------------------------------------------------
(* onRequest *)

Plain(status) == [version |-> "1.1", status |-> status, body |-> <<>>,
                  headers |-> [name \in {Server} |-> <<"MyFileServer">>]]

\* operator>> makes 0 of what is no number, as sscanf does.
FileAnswer(request) ==
    LET target == request.target
        key    == Scan(Suffix(target, 2))
    IN  IF Len(target) < 3 \/ Prefix(target, 2) # <<Slash, "?entry=">>
           \/ key >= Len(Entries)
        THEN Plain(404)
        ELSE [Plain(200) EXCEPT !.body = <<Digits(key), Blank>>
                                            \o Entries[key + 1]]

CannedText == <<"HTTP", Slash, "1.1", Blank, "200", Blank, "OK", CRLF,
                ContentLength, Colon, "5", CRLF, CRLF,
                "A", "B", "C", "D", "E">>

CannedAnswer(request) ==
    IF DoKeepAlive(request)
    THEN [ResponseOf(CannedText) EXCEPT
            !.headers = AddLine(@, Connection, <<"Keep-Alive">>)]
    ELSE ResponseOf(CannedText)

OnRequest(which, request) ==
    IF which = "file" THEN FileAnswer(request) ELSE CannedAnswer(request)

-----------------------------------------------------------------------------
(* The client *)

Init ==
    /\ TcpInit
    /\ service \in Services /\ program \in Programs /\ reader \in Readers
    /\ reader = "end" => \A i \in DOMAIN program : ~DoKeepAlive(program[i])
    /\ asked = 0 /\ handled = <<>> /\ replies = <<>>
    /\ pc = "connect" /\ msg = <<>> /\ answerSize = 0 /\ failure = "none"
    /\ copc = "gone" /\ cobuf = <<>> /\ coleft = <<>> /\ cokeep = FALSE
    /\ timedout = FALSE /\ dropped = FALSE

\* The client has closed its socket, or its program has ended.
ClientGone == socket # "used" \/ pc \in {"done", "failed"}

Others == <<service, program, reader, timedout, dropped>>
History == <<asked, handled, replies>>

\* The exception leaves the client's program, whose end closes the socket.
GiveUp(why) ==
    /\ pc' = "failed" /\ failure' = why /\ msg' = <<>>
    /\ UNCHANGED <<Others, History, answerSize, serverVars>>

\* The server's thread accepts it and makes its coroutine.
ClientConnects ==
    /\ pc = "connect" /\ Connect
    /\ pc' = "ask"
    /\ copc' = "read" /\ cobuf' = <<>> /\ coleft' = <<>> /\ cokeep' = FALSE
    /\ UNCHANGED <<Others, History, msg, answerSize, failure>>

ClientCannotConnect ==
    /\ pc = "connect" /\ ConnectFails /\ GiveUp("connected")

Ask ==
    /\ pc = "ask" /\ asked < Len(program)
    /\ asked' = asked + 1
    /\ msg' = RequestText(program[asked + 1])
    /\ answerSize' \in IF reader = "exact" THEN AnswerSizes ELSE {0}
    /\ pc' = "write"
    /\ UNCHANGED <<Others, handled, replies, failure, serverVars, tcpVars>>

Stop ==
    /\ pc = "ask" /\ asked = Len(program)
    /\ CloseConnection
    /\ pc' = "done"
    /\ UNCHANGED <<Others, History, msg, answerSize, failure, serverVars,
                   buffer, eagain, wireVars>>

\* A round of writeExact().
ClientWrites ==
    /\ pc = "write"
    /\ \E n \in 1 .. Len(msg) :
        /\ WriteSome(msg, n)
        /\ msg' = Suffix(msg, n)
        /\ pc' = IF n = Len(msg) THEN "read" ELSE "write"
    /\ UNCHANGED <<Others, History, answerSize, failure, serverVars>>

ClientWritesToNobody ==
    /\ pc = "write" /\ WriteToNobody
    /\ msg' = Suffix(msg, AtMost(Len(msg), Cap))
    /\ pc' = IF msg' = <<>> THEN "read" ELSE "write"
    /\ UNCHANGED <<Others, History, answerSize, failure, serverVars>>

ClientKilled == pc = "write" /\ WriteKills /\ GiveUp("sigpipe")

ClientWriteTimesOut ==
    /\ pc = "write" /\ MayTimeOut /\ WriteTimesOut
    /\ timedout' = TRUE
    /\ UNCHANGED <<service, program, reader, dropped, History, clientVars,
                   serverVars>>

\* How much the client asks for, and when it has read enough.
Wanted == IF reader = "exact" THEN answerSize - Len(buffer) ELSE ReadSize
Enough == CASE reader = "exact" -> Len(buffer) = answerSize
            [] reader = "parse" -> ResponseParses(buffer)
            [] reader = "end"   -> ~opened

ClientReads ==
    /\ pc = "read" /\ ~Enough /\ ReadSome(Wanted)
    /\ UNCHANGED <<Others, History, clientVars, serverVars>>

\* readExact() takes the 0 that a time-out returns for the end of the file.
ClientReadTimesOut ==
    /\ pc = "read" /\ ~Enough /\ MayTimeOut /\ ReadTimesOut
    /\ timedout' = TRUE
    /\ IF reader = "exact"
       THEN pc' = "failed" /\ failure' = "eof"
       ELSE UNCHANGED <<pc, failure>>
    /\ UNCHANGED <<service, program, reader, dropped, History, msg,
                   answerSize, serverVars>>

\* The next read() would throw: the connection is closed.
ClientReadsEnd ==
    /\ pc = "read" /\ ~Enough /\ ReadEnd
    /\ IF reader # "exact"
          /\ (opened' \/ (reader = "end" /\ ResponseParses(buffer)))
       THEN UNCHANGED <<pc, failure>>
       ELSE pc' = "failed" /\ failure' = "eof"
    /\ UNCHANGED <<Others, History, msg, answerSize, serverVars>>

ClientReadFails == pc = "read" /\ ~Enough /\ ReadFails /\ GiveUp("reset")

\* tryReadResponse accepts the answer, clearBuffer, perhaps close().
ClientAccepts ==
    /\ pc = "read" /\ Enough /\ ResponseParses(buffer)
    /\ replies' = Append(replies, ResponseOf(buffer))
    /\ buffer' = <<>>
    /\ IF DoKeepAlive(program[asked])
       THEN UNCHANGED <<opened, socket>>
       ELSE CloseConnection
    /\ pc' = IF opened' THEN "ask"
             ELSE IF asked = Len(program) THEN "done" ELSE "connect"
    /\ UNCHANGED <<Others, asked, handled, msg, answerSize, failure,
                   serverVars, eagain, wireVars>>

\* What readExact() has read is a part of the answer: fromString throws.
ClientCannotParse ==
    /\ pc = "read" /\ Enough /\ ~ResponseParses(buffer)
    /\ GiveUp("cut")
    /\ UNCHANGED tcpVars

Client ==
    \/ ClientConnects \/ ClientCannotConnect \/ Ask \/ Stop
    \/ ClientWrites \/ ClientWritesToNobody \/ ClientKilled
    \/ ClientReads \/ ClientReadsEnd \/ ClientReadFails
    \/ ClientAccepts \/ ClientCannotParse

-----------------------------------------------------------------------------
(* The server's coroutine *)

\* readToBuffer(readSize) in the loop of readRequest.
ServerReads ==
    /\ copc = "read" /\ outbox # <<>>
    /\ cobuf' = cobuf \o Prefix(outbox, AtMost(ReadSize, Len(outbox)))
    /\ outbox' = Suffix(outbox, AtMost(ReadSize, Len(outbox)))
    /\ UNCHANGED <<Others, History, clientVars, copc, coleft, cokeep,
                   objectVars, inbox, peer, rst>>

\* EAGAIN: the buffer is parsed; what does not parse waits for more.
ServerHandles ==
    /\ copc = "read" /\ outbox = <<>> /\ ~ClientGone
    /\ RequestParses(cobuf)
    /\ LET request == RequestOf(cobuf)
       IN  /\ handled' = Append(handled, request)
           /\ coleft' = ResponseText(OnRequest(service, request))
           /\ cokeep' = DoKeepAlive(request)
    /\ copc' = "write"
    /\ UNCHANGED <<Others, asked, replies, clientVars, cobuf, tcpVars>>

\* The server's close(): unread data make it a reset.
ServerCloses ==
    /\ copc' = "gone" /\ peer' = "closed"
    /\ outbox' = <<>> /\ rst' = (outbox # <<>>)
    /\ UNCHANGED <<objectVars, inbox>>

\* The client's socket is closed when its program ends or it says so.
ServerReadsEnd ==
    /\ copc = "read" /\ outbox = <<>> /\ ClientGone
    /\ ServerCloses
    /\ UNCHANGED <<Others, History, clientVars, cobuf, coleft, cokeep>>

\* Mutant: the connection is closed whatever the request asked.
ServerWritesAndCloses ==
    /\ copc = "write"
    /\ \E n \in 1 .. AtMost(Len(coleft), Cap - Len(inbox)) :
        /\ inbox' = inbox \o Prefix(coleft, n)
        /\ coleft' = Suffix(coleft, n)
    /\ cobuf' = IF coleft' = <<>> THEN <<>> ELSE cobuf
    /\ IF coleft' = <<>>
       THEN copc' = "gone" /\ peer' = "closed" /\ rst' = (outbox # <<>>)
       ELSE UNCHANGED <<copc, peer, rst>>
    /\ UNCHANGED <<Others, History, clientVars, cokeep, objectVars, outbox>>

\* A round of writeResponse; after the last one the buffer is cleared, and
\* the connection closed unless the request asked to keep it.
ServerWrites ==
    /\ copc = "write"
    /\ \E n \in 1 .. AtMost(Len(coleft), Cap - Len(inbox)) :
        /\ inbox' = inbox \o Prefix(coleft, n)
        /\ coleft' = Suffix(coleft, n)
    /\ cobuf' = IF coleft' = <<>> THEN <<>> ELSE cobuf
    /\ IF coleft' = <<>> /\ ~cokeep
       THEN copc' = "gone" /\ peer' = "closed" /\ rst' = (outbox # <<>>)
       ELSE /\ copc' = IF coleft' = <<>> THEN "read" ELSE "write"
            /\ UNCHANGED <<peer, rst>>
    /\ UNCHANGED <<Others, History, clientVars, cokeep, objectVars, outbox>>

\* The client went away before its answer was written.
ServerWriteFails ==
    /\ copc = "write" /\ ClientGone
    /\ ServerCloses
    /\ UNCHANGED <<Others, History, clientVars, cobuf, coleft, cokeep>>

\* dropTimeoutedConnections, while the coroutine is suspended.
ServerDrops ==
    /\ MayDrop
    /\ \/ copc = "read" /\ outbox = <<>> /\ ~RequestParses(cobuf)
       \/ copc = "write" /\ Len(inbox) = Cap
    /\ ServerCloses
    /\ dropped' = TRUE
    /\ UNCHANGED <<service, program, reader, timedout, History, clientVars,
                   cobuf, coleft, cokeep>>

Coroutine ==
    ServerReads \/ ServerHandles \/ ServerReadsEnd \/ ServerWrites
        \/ ServerWriteFails

Next == Client \/ Coroutine \/ ServerDrops
            \/ ClientWriteTimesOut \/ ClientReadTimesOut

Spec == Init /\ [][Next]_vars

\* The client's program runs, the server's thread runs, the network delivers.
FairSpec == Spec /\ WF_vars(Client) /\ WF_vars(Coroutine)

-----------------------------------------------------------------------------
(* Properties *)

ReplyTo(which, request) == WithLength(OnRequest(which, request))
RR == INSTANCE RequestReply WITH Sent <- WithLength, Reply <- ReplyTo

\* From end to end the library is a service that handles requests in order:
\* however the texts are cut into reads, no part of a request is handled as
\* a request, none is handled twice or changed, and every answer the client
\* accepts is the whole answer to the request it has asked.
RequestReply == RR!RrSpec

\* readExact() was given another size than the answer's.
AnswerLength == Len(ResponseText(OnRequest(service, program[asked])))
WrongSize    == reader = "exact" /\ answerSize # AnswerLength

\* A client that reads until the answer parses fails only when the server
\* dropped it, though its time-outs may end at any time; one that reads an
\* exact length also when a time-out ends (readExact takes it for the end of
\* the file) and when the length is not the answer's; and one that reads to
\* the end when it connects again (connect after an end of file finds the old
\* socket).
FailsForCause ==
    pc = "failed" =>
        \/ dropped
        \/ reader = "exact" /\ timedout /\ failure = "eof"
        \/ reader = "end" /\ failure = "connected"
        \/ WrongSize /\ failure \in {"eof", "cut"}

\* Every client's program ends, except that errno left by a time-out can
\* hide the end of the file from it (read() looks at errno first), and that
\* a client of readExact() that takes the answer for longer than it is waits
\* for the rest of it on a connection that it has asked to be kept.
ClientEnds ==
    <>(\/ pc \in {"done", "failed"}
       \/ eagain /\ peer = "closed"
       \/ /\ pc = "read" /\ reader = "exact" /\ answerSize > AnswerLength
          /\ DoKeepAlive(program[asked]))
=============================================================================
