---------------------------- MODULE MCHttpWorker ----------------------------
(* Small instances of HttpWorker: two descriptor numbers that the peers'    *)
(* connections reuse, requests and responses of one or two parts.           *)
EXTENDS HttpWorker, FiniteSets, TLC

\* The descriptor numbers are interchangeable (safety runs only).
FdSymmetry == Permutations(Fds)

\* Bound of http_faults: at any moment one of the connected peers at most has
\* left, and once the last peer is there no request that asks to close is.
FewLeave ==
    /\ Cardinality({fd \in Fds : socks[fd].fin \/ socks[fd].rst # "none"}) <= 1
    /\ connects = MaxConns => \A fd \in Fds : ~socks[fd].last
=============================================================================
