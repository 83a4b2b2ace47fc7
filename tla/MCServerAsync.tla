---------------------------- MODULE MCServerAsync ----------------------------
(* A small instance of ServerAsync. *)
EXTENDS ServerAsync

\* Memory that held nothing, or EPOLLIN and EPOLLERR; EPOLLOUT is always reported
\* with a connection's first event.
SomeJunk == {{}, {"in", "err"}}

=============================================================================
