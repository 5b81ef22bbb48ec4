---------------------------- MODULE ClientManager ----------------------------
(***************************************************************************)
(* TasClientManager and its TasClients: which process is registered with   *)
(* qttasserver over which socket, and which processes the server has       *)
(* started.  Everything here runs in the server's one thread and none of   *)
(* it waits, so every operation is one action.                             *)
(*                                                                         *)
(* A TasClient listens to socketClosed and destroyed of every socket it    *)
(* was ever given, not only of its current one: setSocket connects and     *)
(* only the end of the client disconnects.                                 *)
(***************************************************************************)
EXTENDS Connections, FiniteSets

VARIABLES
    mClients,      \* the processes with a TasClient in mClients
    mSocket,       \* the socket of each TasClient
    listens,       \* the sockets whose signals their owner's client listens to
    live,          \* the TasServerSockets that exist
    mStartedPids   \* processes the server has started and not forgotten

registry == <<mClients, mSocket, listens, live, mStartedPids>>

RegistryTypeOK ==
    /\ mClients \subseteq Pids
    /\ mSocket \in [Pids -> Sockets \cup {None}]
    /\ listens \subseteq Sockets
    /\ live \subseteq Sockets
    /\ mStartedPids \subseteq Pids

RegistryInit ==
    /\ mClients = {}
    /\ mSocket = [p \in Pids |-> None]
    /\ listens = {}
    /\ live = {}
    /\ mStartedPids = {}

(* The clients of the processes P are taken out of mClients and deleted.   *)
Forget(P) ==
    /\ mClients' = mClients \ P
    /\ mSocket' = [p \in Pids |-> IF p \in P THEN None ELSE mSocket[p]]
    /\ listens' = listens \ SocketsOf(P)

-----------------------------------------------------------------------------
(* A new connection: TasLocalServer::incomingConnection.                   *)
IncomingConnection(s) ==
    /\ s \notin live
    /\ live' = live \cup {s}
    /\ UNCHANGED <<mClients, mSocket, listens, mStartedPids>>

(* A client without a socket, for a memory logger that is being started.   *)
AddClient(p) ==
    /\ mClients' = mClients \cup {p}
    /\ UNCHANGED <<mSocket, listens, live, mStartedPids>>

(* Mutant of AddRegisteredClient: only a new client listens to its socket. *)
AddRegisteredClientDeaf(p, s) ==
    /\ mClients' = mClients \cup {p}
    /\ mSocket' = [mSocket EXCEPT ![p] = s]
    /\ listens' = IF p \in mClients THEN listens ELSE listens \cup {s}
    /\ UNCHANGED <<live, mStartedPids>>

(* A client that exists keeps listening to the sockets it had before.      *)
AddRegisteredClient(p, s) ==
    /\ mClients' = mClients \cup {p}
    /\ mSocket' = [mSocket EXCEPT ![p] = s]
    /\ listens' = listens \cup {s}
    /\ UNCHANGED <<live, mStartedPids>>

AddStartedPid(p) ==
    /\ mStartedPids' = mStartedPids \cup {p}
    /\ UNCHANGED <<mClients, mSocket, listens, live>>

(* Mutant of RemoveClient: the connection is left open.                    *)
RemoveClientOpen(p) ==
    IF p \in mClients
    THEN /\ Forget({p})
         /\ mStartedPids' = mStartedPids \ {p}
         /\ UNCHANGED live
    ELSE UNCHANGED registry

(* The client's connection is closed, which its client no longer hears.    *)
RemoveClient(p) ==
    IF p \in mClients
    THEN /\ Forget({p})
         /\ live' = live \ {mSocket[p]}
         /\ mStartedPids' = mStartedPids \ {p}
    ELSE UNCHANGED registry

RemoveAllClients ==
    /\ Forget(mClients)
    /\ live' = live \ {mSocket[p] : p \in mClients}
    /\ mStartedPids' = mStartedPids \ mClients

(* The peer of a connection has gone and the device is destroyed:          *)
(* TasClient::disconnected removes the client that listens, whether the    *)
(* socket is its current one or not.                                       *)
SocketClosed(s) ==
    /\ s \in live
    /\ live' = live \ {s}
    /\ IF s \in listens
       THEN /\ Forget({Owner[s]})
            /\ mStartedPids' = mStartedPids \ {Owner[s]}
       ELSE UNCHANGED <<mClients, mSocket, listens, mStartedPids>>

(* A look-up finds that the process has vanished.  Only clients with a     *)
(* socket are looked at; the socket itself is left alone.                  *)
VerifyClient(p) ==
    /\ mSocket[p] # None
    /\ Forget({p})
    /\ mStartedPids' = mStartedPids \ {p}
    /\ UNCHANGED live

(* The server ends; whoever comes after it starts with nothing.            *)
Shutdown ==
    /\ mClients' = {}
    /\ mSocket' = [p \in Pids |-> None]
    /\ listens' = {}
    /\ live' = {}
    /\ mStartedPids' = {}

RegistryNext ==
    \/ \E s \in Sockets : IncomingConnection(s) \/ SocketClosed(s)
    \/ \E s \in live : AddRegisteredClient(Owner[s], s)
    \/ \E p \in Pids : \/ AddClient(p) \/ AddStartedPid(p)
                       \/ RemoveClient(p) \/ VerifyClient(p)
    \/ RemoveAllClients
    \/ Shutdown

RegistrySpec == RegistryInit /\ [][RegistryNext]_registry

-----------------------------------------------------------------------------
(* A TasClient holds a plain pointer to its socket.  Whatever connections  *)
(* a process makes, registers on and loses, and in whatever order, the     *)
(* pointer is to a socket that exists, and the client will hear of its end.*)
NoDanglingSocket ==
    \A p \in Pids : mSocket[p] # None =>
        /\ p \in mClients
        /\ Owner[mSocket[p]] = p
        /\ mSocket[p] \in live \cap listens
=============================================================================
