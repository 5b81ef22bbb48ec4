----------------------------- MODULE Connections -----------------------------
(* The processes, and the connections each of them makes to the server.    *)

CONSTANTS
    Pids,      \* processes that may register
    Sockets,   \* connections between a plugin and the server
    Owner,     \* the process at the other end of each connection
    None       \* no connection

ASSUME ConnectionsAssumption ==
    /\ Owner \in [Sockets -> Pids]
    /\ None \notin Sockets

SocketsOf(P) == {s \in Sockets : Owner[s] \in P}
=============================================================================
