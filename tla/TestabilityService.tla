-------------------------- MODULE TestabilityService --------------------------
(***************************************************************************)
(* TestabilityService, the part of the plugin that registers the           *)
(* application it was loaded into with qttasserver, notices when the       *)
(* connection is lost and registers again, one for each process.           *)
(*                                                                         *)
(* The connection itself is a pair of queues.  Connecting to the local     *)
(* socket of a server that listens succeeds at once, and connected() is    *)
(* emitted before connectToServer returns.                                 *)
(***************************************************************************)
EXTENDS Connections, Naturals, Sequences, FiniteSets

CONSTANT MaxId   \* message ids count modulo MaxId + 1 (qint32 in the code)

ASSUME MaxIdAssumption == MaxId \in Nat

VARIABLES
    app,                \* "off", "running", or "closing" (CLOSE_REQUESTED)
    eventFilter,        \* paint events are still counted
    mPaintTracker,      \* the 300 ms timer after a paint event is running
    mRegisterWatchDog,  \* the timer that starts a registration is running
    mRegisterTime,      \* the timer of a registration in progress is running
    mRegistered,
    mMessageId,
    responseHandler,    \* the socket has a response handler
    link,               \* the connection of mSocket, None if not connected
    opened,             \* connections whose plugin end is open
    toServer,           \* messages on each connection, not read yet
    toPlugin

service == <<app, eventFilter, mPaintTracker, mRegisterWatchDog, mRegisterTime,
             mRegistered, mMessageId, responseHandler, link>>

connections == <<opened, toServer, toPlugin>>

ToServer == [what : {"register", "unregister"}, id : 0..MaxId]
ToPlugin == [what : {"response", "close"}, id : 0..MaxId]

ServiceTypeOK ==
    /\ app \in [Pids -> {"off", "running", "closing"}]
    /\ eventFilter \in [Pids -> BOOLEAN]
    /\ mPaintTracker \in [Pids -> BOOLEAN]
    /\ mRegisterWatchDog \in [Pids -> BOOLEAN]
    /\ mRegisterTime \in [Pids -> BOOLEAN]
    /\ mRegistered \in [Pids -> BOOLEAN]
    /\ mMessageId \in [Pids -> 0..MaxId]
    /\ responseHandler \in [Pids -> BOOLEAN]
    /\ link \in [Pids -> Sockets \cup {None}]
    /\ opened \subseteq Sockets
    /\ toServer \in [Sockets -> Seq(ToServer)]
    /\ toPlugin \in [Sockets -> Seq(ToPlugin)]

ServiceInit ==
    /\ app = [p \in Pids |-> "off"]
    /\ eventFilter = [p \in Pids |-> FALSE]
    /\ mPaintTracker = [p \in Pids |-> FALSE]
    /\ mRegisterWatchDog = [p \in Pids |-> FALSE]
    /\ mRegisterTime = [p \in Pids |-> FALSE]
    /\ mRegistered = [p \in Pids |-> FALSE]
    /\ mMessageId = [p \in Pids |-> 0]
    /\ responseHandler = [p \in Pids |-> FALSE]
    /\ link = [p \in Pids |-> None]
    /\ opened = {}
    /\ toServer = [s \in Sockets |-> <<>>]
    /\ toPlugin = [s \in Sockets |-> <<>>]

Running(p) == app[p] # "off"

NextId(p) == (mMessageId[p] + 1) % (MaxId + 1)

-----------------------------------------------------------------------------
(* The application is started: the constructor arms the watchdog.          *)
Start(p) ==
    /\ app[p] = "off"
    /\ app' = [app EXCEPT ![p] = "running"]
    /\ eventFilter' = [eventFilter EXCEPT ![p] = TRUE]
    /\ mRegisterWatchDog' = [mRegisterWatchDog EXCEPT ![p] = TRUE]
    /\ UNCHANGED <<mPaintTracker, mRegisterTime, mRegistered, mMessageId,
                   responseHandler, link, connections>>

(* eventFilter: a paint event restarts the paint tracker.                  *)
Paint(p) ==
    /\ Running(p) /\ eventFilter[p]
    /\ mPaintTracker' = [mPaintTracker EXCEPT ![p] = TRUE]
    /\ UNCHANGED <<app, eventFilter, mRegisterWatchDog, mRegisterTime,
                   mRegistered, mMessageId, responseHandler, link, connections>>

(* What makes registerPlugin run: the watchdog, the paint tracker, or the  *)
(* eleventh paint event; the timers are single shots.                      *)
Triggered(p, begins) ==
    \/ /\ mRegisterWatchDog[p]
       /\ mRegisterWatchDog' = [mRegisterWatchDog EXCEPT ![p] = FALSE]
       /\ UNCHANGED mPaintTracker
    \/ /\ mPaintTracker[p]
       /\ mPaintTracker' = [mPaintTracker EXCEPT ![p] = FALSE]
       /\ mRegisterWatchDog' = [mRegisterWatchDog EXCEPT ![p] = @ /\ ~begins]
    \/ /\ eventFilter[p]
       /\ mPaintTracker' = [mPaintTracker EXCEPT ![p] = TRUE]
       /\ mRegisterWatchDog' = [mRegisterWatchDog EXCEPT ![p] = @ /\ ~begins]

(* Mutant of MayRegister: an application that is closing registers too.    *)
MayRegisterWhenClosing(p) == ~mRegistered[p] /\ ~mRegisterTime[p]

MayRegister(p) ==
    /\ app[p] = "running"
    /\ ~mRegistered[p] /\ ~mRegisterTime[p]

(* registerPlugin when there is nothing to do.                             *)
RegisterNot(p) ==
    /\ Running(p) /\ ~MayRegister(p)
    /\ Triggered(p, FALSE)
    /\ eventFilter' = [eventFilter EXCEPT ![p] = @ /\ app[p] = "closing"]
    /\ UNCHANGED <<app, mRegisterTime, mRegistered, mMessageId, responseHandler,
                   link, connections>>

(* Mutant of RegisterBegins: the register timer is not started.            *)
RegisterBeginsNoTimer(p) ==
    /\ Running(p) /\ MayRegister(p)
    /\ Triggered(p, TRUE)
    /\ eventFilter' = [eventFilter EXCEPT ![p] = FALSE]
    /\ UNCHANGED mRegisterTime

(* registerPlugin: the register timer starts, and with it the connection.  *)
RegisterBegins(p) ==
    /\ Running(p) /\ MayRegister(p)
    /\ Triggered(p, TRUE)
    /\ eventFilter' = [eventFilter EXCEPT ![p] = FALSE]
    /\ mRegisterTime' = [mRegisterTime EXCEPT ![p] = TRUE]

(* No server listens: there is only the register timer to wait for.        *)
RegisterPluginRefused(p) ==
    /\ RegisterBegins(p)
    /\ UNCHANGED <<app, mRegistered, mMessageId, responseHandler, link,
                   connections>>

(* connected() and sendRegisterMessage.                                    *)
SendRegisterMessage(p, s) ==
    /\ responseHandler' = [responseHandler EXCEPT ![p] = TRUE]
    /\ mMessageId' = [mMessageId EXCEPT ![p] = NextId(p)]
    /\ toServer' = [toServer EXCEPT ![s] =
                      Append(@, [what |-> "register", id |-> NextId(p)])]

RegisterPlugin(p, s) ==
    /\ RegisterBegins(p)
    /\ Owner[s] = p
    /\ link' = [link EXCEPT ![p] = s]
    /\ opened' = opened \cup {s}
    /\ SendRegisterMessage(p, s)
    /\ UNCHANGED <<app, mRegistered, toPlugin>>

-----------------------------------------------------------------------------
(* connectionClosed: closes the connection, makes a new TasClientSocket    *)
(* and arms the watchdog.  Closing the device emits socketClosed, which    *)
(* runs the slot again; what it leaves is the same.                        *)

(* Mutant of ConnectionClosed: the watchdog is not armed.                  *)
ConnectionClosedNoWatchDog(p) ==
    /\ mRegistered' = [mRegistered EXCEPT ![p] = FALSE]
    /\ mRegisterTime' = [mRegisterTime EXCEPT ![p] = FALSE]
    /\ responseHandler' = [responseHandler EXCEPT ![p] = FALSE]
    /\ opened' = opened \ {link[p]}
    /\ toPlugin' = [s \in Sockets |-> IF s = link[p] THEN <<>> ELSE toPlugin[s]]
    /\ link' = [link EXCEPT ![p] = None]
    /\ UNCHANGED <<app, eventFilter, mPaintTracker, mRegisterWatchDog, mMessageId,
                   toServer>>

ConnectionClosed(p) ==
    /\ mRegistered' = [mRegistered EXCEPT ![p] = FALSE]
    /\ mRegisterTime' = [mRegisterTime EXCEPT ![p] = FALSE]
    /\ mRegisterWatchDog' = [mRegisterWatchDog EXCEPT ![p] = TRUE]
    /\ responseHandler' = [responseHandler EXCEPT ![p] = FALSE]
    /\ opened' = opened \ {link[p]}
    /\ toPlugin' = [s \in Sockets |-> IF s = link[p] THEN <<>> ELSE toPlugin[s]]
    /\ link' = [link EXCEPT ![p] = None]
    /\ UNCHANGED <<app, eventFilter, mPaintTracker, mMessageId, toServer>>

(* The register timer fires.                                               *)
Timeout(p) ==
    /\ Running(p) /\ mRegisterTime[p]
    /\ ConnectionClosed(p)

(* A message from the server is read.                                      *)
HasMessage(p, what) ==
    /\ Running(p) /\ link[p] # None
    /\ toPlugin[link[p]] # <<>>
    /\ Head(toPlugin[link[p]]).what = what

ServiceResponse(p) ==
    /\ HasMessage(p, "response")
    /\ IF responseHandler[p] /\ Head(toPlugin[link[p]]).id # mMessageId[p]
       THEN ConnectionClosed(p)
       ELSE /\ toPlugin' = [toPlugin EXCEPT ![link[p]] = Tail(@)]
            /\ IF responseHandler[p]
               THEN /\ mRegisterTime' = [mRegisterTime EXCEPT ![p] = FALSE]
                    /\ mRegistered' = [mRegistered EXCEPT ![p] = TRUE]
                    /\ responseHandler' = [responseHandler EXCEPT ![p] = FALSE]
               ELSE UNCHANGED <<mRegisterTime, mRegistered, responseHandler>>
            /\ UNCHANGED <<app, eventFilter, mPaintTracker, mRegisterWatchDog,
                           mMessageId, link, opened, toServer>>

(* CloseAppService of the plugin: the application quits a little later.    *)
RequestQuit(p) ==
    /\ HasMessage(p, "close")
    /\ app' = [app EXCEPT ![p] = "closing"]
    /\ toPlugin' = [toPlugin EXCEPT ![link[p]] = Tail(@)]
    /\ UNCHANGED <<eventFilter, mPaintTracker, mRegisterWatchDog, mRegisterTime,
                   mRegistered, mMessageId, responseHandler, link, opened, toServer>>

-----------------------------------------------------------------------------
(* The processes P end, their connections with them.                       *)
End(P) ==
    LET Off(f, x) == [p \in Pids |-> IF p \in P THEN x ELSE f[p]] IN
    /\ app' = Off(app, "off")
    /\ eventFilter' = Off(eventFilter, FALSE)
    /\ mPaintTracker' = Off(mPaintTracker, FALSE)
    /\ mRegisterWatchDog' = Off(mRegisterWatchDog, FALSE)
    /\ mRegisterTime' = Off(mRegisterTime, FALSE)
    /\ mRegistered' = Off(mRegistered, FALSE)
    /\ mMessageId' = Off(mMessageId, 0)
    /\ responseHandler' = Off(responseHandler, FALSE)
    /\ link' = Off(link, None)
    /\ opened' = {s \in opened : Owner[s] \notin P}
    /\ toPlugin' = [s \in Sockets |-> IF Owner[s] \in P THEN <<>> ELSE toPlugin[s]]

(* aboutToQuit: a plugin that was not asked to close unregisters, on a     *)
(* connection that one hears at the other end.                             *)
Quit(p, heard) ==
    /\ Running(p)
    /\ toServer' = IF app[p] = "running" /\ mRegistered[p] /\ heard
                   THEN [toServer EXCEPT ![link[p]] =
                           Append(@, [what |-> "unregister", id |-> NextId(p)])]
                   ELSE toServer
    /\ End({p})

Die(P) ==
    /\ P # {} /\ \A p \in P : Running(p)
    /\ End(P)
=============================================================================
