---------------------------- MODULE ServerMonitor ----------------------------
(***************************************************************************)
(* qttasserver_ui: the window by which the server is looked at, started,   *)
(* stopped and restarted, its ServerMonitor, and the TasClient by which    *)
(* that sends messages to the server.  The server and what becomes of the  *)
(* connection to it are the environment.                                   *)
(*                                                                         *)
(* An error of the client is handled where it occurs: inside of what a     *)
(* click has called, and twice when an answer does not come in time, as    *)
(* the connection that is closed then tells of it too.                     *)
(***************************************************************************)
EXTENDS Integers

CONSTANTS MaxDue,    \* status timers that run at once
          MaxServers \* processes that are started

VARIABLES ui,        \* the window: buttons and radios are enabled, shown: the state of
                     \* the server; the monitor: state, due: its status timers, bound:
                     \* a binding was chosen; the client: connected, waiting for an
                     \* answer; started: processes
          wire,      \* what is on its way in the connection of the client
          left,      \* its other end is gone
          server,    \* "down", "up", "hanging" or "quitting"
          asked,     \* the server was reached by a restart, and has neither quit nor
                     \* had its time to answer, nor has the user asked for more
          besides    \* one was started nevertheless (both are history)

monitor == <<ui, wire, left, server, asked, besides>>

MonitorInit ==
    /\ ui = [buttons |-> TRUE, radios |-> FALSE, shown |-> "Unknown", state |-> "none", due |-> 0,
             bound |-> FALSE, connected |-> FALSE, waiting |-> FALSE, started |-> 0]
    /\ wire = "nothing" /\ left = FALSE
    /\ server \in {"down", "up"}
    /\ asked = FALSE /\ besides = FALSE

ServerListens == server \in {"up", "hanging"}

-----------------------------------------------------------------------------
(* ServerMonitor, as functions of what it, the window and the client are.  *)
Begin(u, state) == [u EXCEPT !.buttons = FALSE, !.radios = FALSE, !.state = state]

StartServer(u) == [Begin(u, "start") EXCEPT !.due = @ + 1, !.started = @ + 1]

(* A new client, which is not connected.                                   *)
KillServer(u) == [u EXCEPT !.connected = FALSE, !.waiting = FALSE]

(* Mutant of Unlocked: who stops the server has nothing more to do.        *)
UnlockedNot(u) == u.buttons \/ u.state \notin {"restart", "stop"}

Unlocked(u) == u.buttons \/ u.state # "restart"

MonitorError(u) ==
    LET v == [u EXCEPT !.shown = "Down", !.buttons = Unlocked(u)] IN
    CASE u.state = "stop"    -> KillServer(v)
      [] u.state = "restart" -> StartServer(KillServer(v))
      [] OTHER               -> v

(* Mutant of ServerResponse: the server has said that it will quit.        *)
ServerResponseStarts(u, addressed) ==
    CASE u.state = "stop"    -> u
      [] u.state = "restart" -> StartServer(KillServer(u))
      [] OTHER               -> [u EXCEPT !.shown = "Running", !.buttons = TRUE,
                                          !.radios = @ \/ (addressed /\ u.state = "status") \/ u.bound]

(* That the server will quit is not the end of it.  The radio buttons come *)
(* back with an address, or once one was chosen.                           *)
ServerResponse(u, addressed) ==
    IF u.state \in {"stop", "restart"} THEN u
    ELSE [u EXCEPT !.shown = "Running", !.buttons = TRUE,
                   !.radios = @ \/ (addressed /\ u.state = "status") \/ u.bound]

-----------------------------------------------------------------------------
(* TasClient.  A new client has a new connection.                          *)
Becomes(u, w, l) ==
    /\ ui' = u
    /\ wire' = IF u.connected THEN w ELSE "nothing"
    /\ left' = (u.connected /\ l)

SendMessage(u, message) ==
    LET sent == [u EXCEPT !.connected = TRUE, !.waiting = TRUE]
        notSent == MonitorError([u EXCEPT !.connected = FALSE])
    IN  \/ u.waiting /\ Becomes(MonitorError(u), wire, left)
        \/ ~u.waiting /\ ~u.connected /\ Becomes(IF ServerListens THEN sent ELSE notSent, message, FALSE)
        \/ ~u.waiting /\ u.connected /\ ~left /\ Becomes(sent, message, FALSE)
        \/ ~u.waiting /\ left /\ (Becomes(sent, wire, TRUE) \/ Becomes(notSent, wire, TRUE))

Closed(u) == IF u.connected THEN MonitorError([u EXCEPT !.connected = FALSE]) ELSE u

TimedOut(u) ==
    LET v == Closed([u EXCEPT !.waiting = FALSE]) IN MonitorError([v EXCEPT !.connected = FALSE])

-----------------------------------------------------------------------------
(* A server that was asked to quit has not done so when another is started.*)
Asks(asks) ==
    /\ asked' = asks
    /\ besides' = (besides \/ (asks /\ ui'.started > ui.started))

Click == ui.buttons /\ UNCHANGED server

MayStart == ui.due < MaxDue /\ ui.started < MaxServers

ServerState ==
    /\ Click
    /\ SendMessage([ui EXCEPT !.state = "status"], "ping")
    /\ Asks(asked)

ClickStart ==
    /\ Click /\ MayStart
    /\ Becomes(StartServer(ui), wire, left)
    /\ Asks(FALSE)

StopServer ==
    /\ Click
    /\ SendMessage(Begin(ui, "stop"), "close")
    /\ Asks(asked)

RestartServer ==
    /\ Click /\ MayStart
    /\ SendMessage(Begin(ui, "restart"), "close")
    /\ Asks(wire' = "close" /\ ~left')

SetBinding ==
    /\ ui.radios /\ MayStart
    /\ SendMessage([Begin(ui, "restart") EXCEPT !.bound = TRUE], "close")
    /\ Asks(wire' = "close" /\ ~left')
    /\ UNCHANGED server

(* The server is asked for its state a while after it was started.         *)
StatusTimer ==
    /\ ui.due > 0
    /\ SendMessage([ui EXCEPT !.due = @ - 1, !.state = "status"], "ping")
    /\ Asks(asked)
    /\ UNCHANGED server

ServiceResponse ==
    /\ wire = "answer"
    /\ \E addressed \in BOOLEAN :
           Becomes(ServerResponse([ui EXCEPT !.waiting = FALSE], addressed), "nothing", left)
    /\ Asks(asked)
    /\ UNCHANGED server

(* The client hears of the end of a connection by the aboutToClose of its  *)
(* device, which Qt emits from close() but need not when the server hangs  *)
(* up: this may happen, and may not.                                       *)
ConnectionClosed ==
    /\ left /\ wire # "answer"
    /\ Becomes(Closed(ui), "nothing", FALSE)
    /\ Asks(asked)
    /\ UNCHANGED server

ConnectionTimeout ==
    /\ ui.waiting
    /\ Becomes(TimedOut(ui), "nothing", FALSE)
    /\ Asks(FALSE)
    /\ UNCHANGED server

-----------------------------------------------------------------------------
(* A server quits once it has answered that it will.                       *)
Answer ==
    /\ wire \in {"ping", "close"} /\ server = "up" /\ ~left
    /\ wire' = "answer"
    /\ server' = IF wire = "close" THEN "quitting" ELSE server
    /\ UNCHANGED <<ui, left, asked, besides>>

Gone ==
    /\ server' = "down"
    /\ left' = ui.connected
    /\ wire' = IF wire = "answer" THEN wire ELSE "nothing"
    /\ asked' = FALSE
    /\ UNCHANGED <<ui, besides>>

ServerQuits == server = "quitting" /\ Gone
ServerCrashes == ServerListens /\ Gone

Hangs ==
    /\ server \in {"up", "hanging"}
    /\ server' \in {"up", "hanging"} \ {server}
    /\ UNCHANGED <<ui, wire, left, asked, besides>>

(* A process that was started serves, if there is no other.                *)
ServerStarts ==
    /\ server = "down" /\ ui.started > 0
    /\ server' = "up"
    /\ UNCHANGED <<ui, wire, left, asked, besides>>

MonitorNext ==
    \/ ServerState \/ ClickStart \/ StopServer \/ RestartServer \/ SetBinding
    \/ StatusTimer \/ ServiceResponse \/ ConnectionClosed \/ ConnectionTimeout
    \/ Answer \/ ServerQuits \/ ServerCrashes \/ Hangs \/ ServerStarts

(* Timers fire and what has arrived is read.  Nothing is promised of the   *)
(* server, nor that the end of a connection is noticed.                    *)
MonitorFairness ==
    /\ WF_monitor(StatusTimer) /\ WF_monitor(ConnectionTimeout)
    /\ WF_monitor(ServiceResponse)

MonitorSpec == MonitorInit /\ [][MonitorNext]_monitor /\ MonitorFairness

-----------------------------------------------------------------------------

(* A restart, by button or by binding, that has reached the server starts  *)
(* the new one only when the old one is gone or did not answer in time,    *)
(* however timers and clicks come between: its answer, which comes before  *)
(* it quits, is not enough (ServerMonitor::error, serverResponse).         *)
NoneBesides == ~besides

(* The server has said that it will quit.  No timer runs any more, and     *)
(* only the end of the connection tells more.                              *)
WaitsForTheEnd == ui.state \in {"stop", "restart"} /\ ui.connected /\ ~ui.waiting

(* Whatever is clicked and happens to the server and the connection, the   *)
(* buttons are enabled again (beginMonitor and stopMonitor), through       *)
(* refused messages, time-outs, nested errors and status timers, unless    *)
(* the server has agreed to quit and the client does not hear that it has. *)
ButtonsComeBack == ~ui.buttons ~> ui.buttons \/ WaitsForTheEnd
=============================================================================
