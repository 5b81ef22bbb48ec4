--------------------------- MODULE ResourceLogging ---------------------------
(***************************************************************************)
(* Requests to log the memory of a process, which qttasserver passes to    *)
(* qttasmemlog_srv, a server it starts when none is registered: the        *)
(* ResourceLoggingService and MemLogServerWaiter of qttasserver, and       *)
(* TasQtMemLogService and ResourceLoggingService of qttasmemlog_srv.       *)
(*                                                                         *)
(* A request that has a server started waits for it to register; any other *)
(* is passed on at once, to whichever logger is registered.  A logger      *)
(* that has nothing to log quits a moment after its answer, whatever comes *)
(* in between.                                                             *)
(***************************************************************************)
EXTENDS Naturals, SequencesExt

CONSTANTS
    LogRequests,  \* the requests, each made once
    Resources,    \* what a request may ask to log
    Loggers,      \* the processes of qttasmemlog_srv
    NoLogger

VARIABLES
    request,    \* where each request is
    command,    \* what it asks for: an action and a resource
    waitsFor,   \* the process its MemLogServerWaiter waits for
    logger,     \* each process of qttasmemlog_srv
    inbox,      \* the requests passed to it and not read yet
    mLoggingTimers,  \* the resources it logs, in the order they were started
    quitAsked   \* the timer of requestQuit runs

logging == <<request, command, waitsFor, logger, inbox, mLoggingTimers, quitAsked>>

Actions == {"ProcessMemLoggingStart", "ProcessMemLoggingStop", "CpuLoadStart"}

LoggingInit ==
    /\ request = [r \in LogRequests |-> "none"]
    /\ command = [r \in LogRequests |-> <<>>]
    /\ waitsFor = [r \in LogRequests |-> NoLogger]
    /\ logger = [l \in Loggers |-> "none"]
    /\ inbox = [l \in Loggers |-> <<>>]
    /\ mLoggingTimers = [l \in Loggers |-> <<>>]
    /\ quitAsked = [l \in Loggers |-> FALSE]

-----------------------------------------------------------------------------
(* qttasserver.                                                            *)

(* A logger that has quit is registered until its connection has ended.    *)
Registered == {l \in Loggers : logger[l] \in {"registered", "quit"}}

(* A request is answered, or its connection is closed and with it what     *)
(* waits to answer on it.                                                  *)
EndRequest(r, how) == request' = [request EXCEPT ![r] = how]

(* The service of the server is only asked when logMemClient finds none.   *)
PassOn(r, l) ==
    /\ EndRequest(r, "passed")
    /\ inbox' = [inbox EXCEPT ![l] = Append(@, r)]

StartLogger(r) ==
    \/ \E l \in Loggers :
        /\ logger[l] = "none"
        /\ logger' = [logger EXCEPT ![l] = "starting"]
        /\ EndRequest(r, "waiting")
        /\ waitsFor' = [waitsFor EXCEPT ![r] = l]
    \/ EndRequest(r, "refused") /\ UNCHANGED <<logger, waitsFor>>

AskLogging(r) ==
    /\ request[r] = "none"
    /\ \E c \in Actions \X Resources : command' = [command EXCEPT ![r] = c]
    /\ \/ \E l \in Registered : PassOn(r, l) /\ UNCHANGED <<logger, waitsFor>>
       \/ Registered = {} /\ StartLogger(r) /\ UNCHANGED inbox
    /\ UNCHANGED <<mLoggingTimers, quitAsked>>

(* Mutant of Waiting: a waiter outlives its timer.                         *)
WaitingLong(l) == {r \in LogRequests : request[r] \in {"waiting", "refused"} /\ waitsFor[r] = l}

(* The requests with a MemLogServerWaiter for process l, at most one.      *)
Waiting(l) == {r \in LogRequests : request[r] = "waiting" /\ waitsFor[r] = l}

(* The client of process l is registered and the request that waits for it *)
(* is handled as if it came now: any logger may be the one that is found.  *)
RegisterLogger(l) ==
    /\ logger[l] = "starting"
    /\ logger' = [logger EXCEPT ![l] = "registered"]
    /\ IF Waiting(l) = {} THEN UNCHANGED <<request, inbox>>
       ELSE \E r \in Waiting(l), m \in Registered \cup {l} : PassOn(r, m)
    /\ UNCHANGED <<command, waitsFor, mLoggingTimers, quitAsked>>

(* Nobody has registered in time: MemLogServerWaiter answers with an error *)
(* and is gone.                                                            *)
WaiterTimeout(r) ==
    /\ request[r] = "waiting"
    /\ EndRequest(r, "refused")
    /\ UNCHANGED <<command, waitsFor, logger, inbox, mLoggingTimers, quitAsked>>

(* The logger has not answered in time: the ResponseWaiter does.           *)
ResponseTimeout(r) ==
    /\ request[r] = "passed"
    /\ EndRequest(r, "answered")
    /\ UNCHANGED <<command, waitsFor, logger, inbox, mLoggingTimers, quitAsked>>

RequesterCloses(r) ==
    /\ request[r] \in {"waiting", "passed"}
    /\ EndRequest(r, "closed")
    /\ UNCHANGED <<command, waitsFor, logger, inbox, mLoggingTimers, quitAsked>>

(* The end of a logger's connection takes its client out of the registry.  *)
ForgetLogger(l) ==
    /\ logger[l] = "quit"
    /\ logger' = [logger EXCEPT ![l] = "ended"]
    /\ UNCHANGED <<request, command, waitsFor, inbox, mLoggingTimers, quitAsked>>

LoggingServerNext ==
    \/ \E r \in LogRequests : AskLogging(r) \/ WaiterTimeout(r) \/ ResponseTimeout(r)
                              \/ RequesterCloses(r)
    \/ \E l \in Loggers : RegisterLogger(l) \/ ForgetLogger(l)

-----------------------------------------------------------------------------
(* qttasmemlog_srv.                                                        *)

(* startLogging: another timer, also for a resource that has one.          *)
StartLogging(l, what) == Append(mLoggingTimers[l], what)

(* stopLogging ends the first timer of the resource, if there is any.      *)
StopLogging(l, what) ==
    LET at == {i \in DOMAIN mLoggingTimers[l] : mLoggingTimers[l][i] = what}
    IN IF at = {} THEN mLoggingTimers[l] ELSE RemoveAt(mLoggingTimers[l], Min(at))

(* startLoad and stopLoad: nothing is generated.                           *)
NoLoad(l) == mLoggingTimers[l]

Timers(l, r) ==
    CASE command[r][1] = "ProcessMemLoggingStart" -> StartLogging(l, command[r][2])
      [] command[r][1] = "ProcessMemLoggingStop" -> StopLogging(l, command[r][2])
      [] OTHER -> NoLoad(l)

(* The log file cannot be opened: the new timer has no data gatherer, the  *)
(* first entry is asked of a null pointer and the logger dies.             *)
LogFileFails(l) ==
    /\ logger[l] = "registered"
    /\ inbox[l] # <<>>
    /\ command[Head(inbox[l])][1] = "ProcessMemLoggingStart"
    /\ logger' = [logger EXCEPT ![l] = "quit"]
    /\ UNCHANGED <<request, command, waitsFor, inbox, mLoggingTimers, quitAsked>>

(* executeService; once a logger was idle it quits.                        *)
Execute(l) ==
    /\ logger[l] = "registered"
    /\ inbox[l] # <<>>
    /\ LET r == Head(inbox[l]) IN
       /\ mLoggingTimers' = [mLoggingTimers EXCEPT ![l] = Timers(l, r)]
       /\ quitAsked' = [quitAsked EXCEPT ![l] = @ \/ Timers(l, r) = <<>>]
       /\ IF request[r] = "passed" THEN EndRequest(r, "answered") ELSE UNCHANGED request
    /\ inbox' = [inbox EXCEPT ![l] = Tail(@)]
    /\ UNCHANGED <<command, waitsFor, logger>>

(* requestQuit, which unregisters; and a logger that cannot register.      *)
Quit(l) ==
    /\ \/ logger[l] = "registered" /\ quitAsked[l]
       \/ logger[l] = "starting"
    /\ logger' = [logger EXCEPT ![l] = IF @ = "starting" THEN "ended" ELSE "quit"]
    /\ UNCHANGED <<request, command, waitsFor, inbox, mLoggingTimers, quitAsked>>

LoggerNext == \E l \in Loggers : Execute(l) \/ LogFileFails(l) \/ Quit(l)

-----------------------------------------------------------------------------
(* A request is passed on once, however many loggers are started and       *)
(* registered; one that was refused because none had registered in time,   *)
(* or that nobody waits for any more, is not passed on later, so that      *)
(* nothing is logged that was reported as failed.                          *)
PassedOnce ==
    [][\A l \in Loggers : Len(inbox'[l]) > Len(inbox[l]) =>
            request[Last(inbox'[l])] \in {"none", "waiting"}]_logging
=============================================================================
