----------------------------- MODULE Registration -----------------------------
(***************************************************************************)
(* Plugins that register, lose their connection and register again         *)
(* (TestabilityService), with the server that accepts their connections,   *)
(* registers, removes and kills them (ClientManager), dies and is started  *)
(* again.                                                                  *)
(*                                                                         *)
(* The server is one thread: a handler runs to its end before another one  *)
(* begins.  What happens inside handlers that wait is the subject of       *)
(* ServerServiceManager.                                                   *)
(***************************************************************************)
EXTENDS ClientManager, TestabilityService

CONSTANT
    MaxDisturbances    \* bound on what does not happen of itself: starts,
                       \* crashes, late answers, requests to close or kill

ASSUME RegistrationAssumption == MaxDisturbances \in Nat

VARIABLES
    serverUp,
    backlog,        \* connections the server has not accepted yet
    overtaken,      \* connections on which a registration was read while the
                    \* server still held an older one of the process (history)
    disturbances    \* how many there have been

vars == <<registry, service, connections, serverUp, backlog, overtaken, disturbances>>

(* The server's end of a connection exists.                                *)
Held == live \cup backlog

TypeOK ==
    /\ RegistryTypeOK
    /\ ServiceTypeOK
    /\ serverUp \in BOOLEAN
    /\ backlog \subseteq Sockets \ live
    /\ overtaken \subseteq Sockets
    /\ disturbances \in 0..MaxDisturbances
    /\ \A s \in Sockets \ Held : toServer[s] = <<>>
    /\ \A s \in Sockets \ opened : toPlugin[s] = <<>>

Init ==
    /\ RegistryInit /\ ServiceInit
    /\ serverUp = TRUE
    /\ backlog = {}
    /\ overtaken = {}
    /\ disturbances = 0

Disturb ==
    /\ disturbances < MaxDisturbances
    /\ disturbances' = disturbances + 1

(* What the server has closed is no longer read by it.                     *)
Unread(q) == [s \in Sockets |-> IF s \in live' \cup backlog' THEN q[s] ELSE <<>>]

(* An action of the plugins that leaves the server alone.                  *)
PluginOnly == UNCHANGED <<registry, serverUp, backlog, overtaken>>

-----------------------------------------------------------------------------
(* The test framework starts an application, or its user does.             *)
StartByServer(p) ==
    /\ serverUp /\ Disturb
    /\ Start(p) /\ AddStartedPid(p)
    /\ UNCHANGED <<serverUp, backlog, overtaken>>

StartByUser(p) ==
    /\ Disturb
    /\ Start(p)
    /\ PluginOnly

(* The timers and paint events of a plugin.                                *)
PluginTimers(p) ==
    /\ \/ Paint(p)
       \/ RegisterNot(p)
       \/ ~serverUp /\ RegisterPluginRefused(p)
    /\ PluginOnly /\ UNCHANGED disturbances

Connect(p, s) ==
    /\ serverUp
    /\ s \notin opened \cup Held
    /\ RegisterPlugin(p, s)
    /\ backlog' = backlog \cup {s}
    /\ overtaken' = overtaken \ {s}
    /\ UNCHANGED <<registry, serverUp, disturbances>>

(* The answer to a registration is late, or there will be none.            *)
RegisterTimeout(p) ==
    /\ Timeout(p)
    /\ IF link[p] \in Held THEN Disturb ELSE UNCHANGED disturbances
    /\ PluginOnly

(* The device of the plugin's socket reports that the server has closed it,*)
(* by aboutToClose, the only signal of it that TasSocket listens to.  Qt   *)
(* emits it from close(), and need not when the other end hangs up: this   *)
(* may happen, and may not.                                                *)
LinkLost(p) ==
    /\ Running(p)
    /\ link[p] # None /\ link[p] \notin Held /\ toPlugin[link[p]] = <<>>
    /\ ConnectionClosed(p)
    /\ PluginOnly /\ UNCHANGED disturbances

PluginReads(p) ==
    /\ ServiceResponse(p) \/ RequestQuit(p)
    /\ PluginOnly /\ UNCHANGED disturbances

(* quit() was called by the plugin or by the application itself.           *)
Quits(p) ==
    /\ Quit(p, link[p] \in Held)
    /\ IF app[p] = "running" THEN Disturb ELSE UNCHANGED disturbances
    /\ PluginOnly

Crash(p) ==
    /\ Disturb
    /\ Die({p}) /\ UNCHANGED toServer
    /\ PluginOnly

-----------------------------------------------------------------------------
(* The server's event loop.                                                *)
Accept(s) ==
    /\ s \in backlog
    /\ IncomingConnection(s)
    /\ backlog' = backlog \ {s}
    /\ UNCHANGED <<service, connections, serverUp, overtaken, disturbances>>

HasRequest(s, what) ==
    /\ s \in live
    /\ toServer[s] # <<>> /\ Head(toServer[s]).what = what

Respond(s) ==
    toPlugin' = IF s \notin opened THEN toPlugin
                ELSE [toPlugin EXCEPT ![s] =
                        Append(@, [what |-> "response", id |-> Head(toServer[s]).id])]

(* The server reads its connections in any order: a registration may       *)
(* overtake what comes on a connection that the plugin has left, and that  *)
(* one's end.                                                              *)
Overtakes(s) == ~(SocketsOf({Owner[s]}) \cap Held \subseteq opened)

(* RegisterService.                                                        *)
ReadRegister(s) ==
    /\ HasRequest(s, "register")
    /\ overtaken' = IF Overtakes(s) THEN overtaken \cup {s} ELSE overtaken
    /\ AddRegisteredClient(Owner[s], s)
    /\ Respond(s)
    /\ toServer' = [toServer EXCEPT ![s] = Tail(@)]
    /\ UNCHANGED <<service, opened, serverUp, backlog, disturbances>>

(* The connection is closed before the response could be sent.             *)
ReadUnregister(s) ==
    /\ HasRequest(s, "unregister")
    /\ RemoveClient(Owner[s])
    /\ UNCHANGED backlog
    /\ toServer' = Unread([toServer EXCEPT ![s] = Tail(@)])
    /\ UNCHANGED <<service, opened, toPlugin, serverUp, overtaken, disturbances>>

Eof(s) ==
    /\ s \in live \ opened /\ toServer[s] = <<>>
    /\ SocketClosed(s)
    /\ UNCHANGED <<service, connections, serverUp, backlog, overtaken, disturbances>>

(* findByProcessId comes upon a process that has vanished.                 *)
LookUp(p) ==
    /\ ~Running(p)
    /\ VerifyClient(p)
    /\ UNCHANGED <<service, connections, serverUp, backlog, overtaken, disturbances>>

(* The framework asks for an application to be closed: the request is      *)
(* relayed over the client's connection.                                   *)
AskToClose(p) ==
    /\ Disturb
    /\ Running(p) /\ mSocket[p] \in opened
    /\ toPlugin' = [toPlugin EXCEPT ![mSocket[p]] =
                      Append(@, [what |-> "close", id |-> 0])]
    /\ UNCHANGED <<registry, service, opened, toServer, serverUp, backlog, overtaken>>

(* The processes P are killed with SIGKILL or have ended before.           *)
Kill(P) ==
    LET killed == {p \in P : Running(p)} IN
    IF killed = {} THEN UNCHANGED <<service, opened, toPlugin>> ELSE Die(killed)

(* CloseFilter has seen the application end, or has waited long enough and *)
(* kills it if the request says so.                                        *)
CloseFilter(p) ==
    /\ serverUp /\ Disturb
    /\ RemoveClient(p)
    /\ Kill({p}) \/ Kill({})
    /\ UNCHANGED <<serverUp, backlog, overtaken>>
    /\ toServer' = Unread(toServer)

(* KillService: everything the server has started is killed.               *)
KillAll ==
    /\ serverUp /\ Disturb
    /\ RemoveAllClients
    /\ Kill(mClients \cap mStartedPids)
    /\ UNCHANGED <<serverUp, backlog, overtaken>>
    /\ toServer' = Unread(toServer)

ServerEnds ==
    /\ serverUp /\ Disturb
    /\ Shutdown
    /\ serverUp' = FALSE
    /\ backlog' = {}
    /\ toServer' = Unread(toServer)
    /\ UNCHANGED <<service, opened, toPlugin, overtaken>>

ServerStarts ==
    /\ ~serverUp
    /\ serverUp' = TRUE
    /\ UNCHANGED <<registry, service, connections, backlog, overtaken, disturbances>>

-----------------------------------------------------------------------------
Next ==
    \/ \E p \in Pids :
         \/ StartByServer(p) \/ StartByUser(p)
         \/ PluginTimers(p) \/ RegisterTimeout(p) \/ LinkLost(p)
         \/ PluginReads(p) \/ Quits(p) \/ Crash(p)
         \/ LookUp(p) \/ AskToClose(p) \/ CloseFilter(p)
    \/ \E p \in Pids, s \in Sockets : Connect(p, s)
    \/ \E s \in Sockets : Accept(s) \/ ReadRegister(s) \/ ReadUnregister(s) \/ Eof(s)
    \/ KillAll
    \/ ServerEnds
    \/ ServerStarts

Spec == Init /\ [][Next]_vars

(* Timers fire, both event loops run, a process that was told to quit      *)
(* does, and a server that has ended is started again.  The server destroys*)
(* a local socket whose peer has gone, which closes it, so Eof comes; that *)
(* the plugin notices the end of a connection is not promised.             *)
Fairness ==
    /\ \A p \in Pids :
         /\ WF_vars(PluginTimers(p) \/ \E s \in Sockets : Connect(p, s))
         /\ WF_vars(RegisterTimeout(p))
         /\ WF_vars(PluginReads(p))
         /\ WF_vars(app[p] = "closing" /\ Quits(p))
    /\ \A s \in Sockets :
         WF_vars(Accept(s) \/ ReadRegister(s) \/ ReadUnregister(s) \/ Eof(s))
    /\ WF_vars(ServerStarts)

FairSpec == Spec /\ Fairness

-----------------------------------------------------------------------------
(* A plugin that is not registered will try again of itself: one of its    *)
(* two timers runs, at every point of connecting, sending, waiting, losing *)
(* the connection and starting over.                                       *)
NeverForgotten ==
    \A p \in Pids : app[p] = "running" /\ ~mRegistered[p] =>
        mRegisterTime[p] \/ mRegisterWatchDog[p]

(* An application that was asked to close does not connect again while it  *)
(* is quitting, even if it loses its connection meanwhile.                 *)
ClosingNeverReturns ==
    [][\A p \in Pids : app[p] = "closing" =>
          link'[p] \in {link[p], None}]_vars

(* A plugin that takes itself for registered, on a connection whose other  *)
(* end the server holds, is the one the server will send requests for the  *)
(* process to.  There is one exception: where the registration has         *)
(* overtaken what came on an older connection, the end of that one takes   *)
(* the new client away, or its late registration takes its place.          *)
RegisteredMeansKnown ==
    \A p \in Pids : mRegistered[p] /\ link[p] \in live \ overtaken =>
        p \in mClients /\ mSocket[p] = link[p]

(* When nothing happens of itself any more, every running application that *)
(* is not told to close takes itself for registered, whatever went wrong   *)
(* before, and the server knows it, unless its connection has ended and    *)
(* the plugin was not told, or its registration has overtaken an older one.*)
EventuallyRegistered ==
    <>[](\A p \in Pids : app[p] = "running" =>
            /\ mRegistered[p]
            /\ link[p] \in Held \ overtaken => p \in mClients)
=============================================================================
