---------------------------- MODULE RequestReply ----------------------------
(***************************************************************************)
(* What a client and a server of the HTTP library promise each other: the  *)
(* requests of the client's program are handled one at a time, in order,   *)
(* each at most once and exactly as they were asked, and what the client   *)
(* gets is the reply to the request it asked last.                         *)
(***************************************************************************)
EXTENDS Naturals, Sequences

CONSTANTS
    Sent(_),      \* a request as it is sent
    Reply(_, _)   \* the service's reply to a request

VARIABLES
    service,   \* the service that the server provides
    program,   \* the requests the client is going to make
    asked,     \* how many of them it has made
    handled,   \* the requests the service has been given
    replies    \* the replies the client has got

rrVars == <<service, program, asked, handled, replies>>

RrInit == asked = 0 /\ handled = <<>> /\ replies = <<>>

Ask ==
    /\ asked < Len(program) /\ asked = Len(replies)
    /\ asked' = asked + 1
    /\ UNCHANGED <<service, program, handled, replies>>

Handle ==
    /\ Len(handled) < asked
    /\ handled' = Append(handled, Sent(program[asked]))
    /\ UNCHANGED <<service, program, asked, replies>>

Get ==
    /\ Len(replies) < Len(handled)
    /\ replies' = Append(replies, Reply(service, program[asked]))
    /\ UNCHANGED <<service, program, asked, handled>>

RrNext == Ask \/ Handle \/ Get

RrSpec == RrInit /\ [][RrNext]_rrVars
=============================================================================
