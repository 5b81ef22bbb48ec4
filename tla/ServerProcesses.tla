--------------------------- MODULE ServerProcesses ---------------------------
(***************************************************************************)
(* The services of qttasserver that start processes, together: they share  *)
(* the server's one thread, which starting an application or a shell task  *)
(* blocks, and every request of theirs may come between the steps of the   *)
(* processes that the others have started.                                 *)
(***************************************************************************)
EXTENDS StartAppService, ShellCommandService, ResourceLogging

CONSTANT MaxRequests  \* requests that start something, over all services

vars == <<starting, shell, logging>>

Init == StartInit /\ ShellInit /\ LoggingInit

Requests ==
    launch + Cardinality({t \in Tasks : thread[t] # "none"})
           + Cardinality({r \in LogRequests : request[r] # "none"})

(* One service at a time has the server's thread.                          *)
ServerNext ==
    /\ ~aborted
    /\ \/ sleepingFor = NoTask /\ StartServerNext /\ UNCHANGED <<shell, logging>>
       \/ at = "idle" /\ ShellServerNext /\ UNCHANGED <<starting, logging>>
       \/ /\ at = "idle" /\ sleepingFor = NoTask
          /\ LoggingServerNext
          /\ UNCHANGED <<starting, shell>>
    /\ Requests' <= MaxRequests

OthersNext ==
    \/ StartOtherNext /\ UNCHANGED <<shell, logging>>
    \/ ShellOtherNext /\ UNCHANGED <<starting, logging>>
    \/ LoggerNext /\ UNCHANGED <<starting, shell>>

Next == ServerNext \/ OthersNext

Spec == Init /\ [][Next]_vars

(* Tasks, requests and loggers are alike.                                  *)
Alike == Permutations(Tasks) \cup Permutations(LogRequests) \cup Permutations(Loggers)
=============================================================================
