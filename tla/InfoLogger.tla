------------------------------ MODULE InfoLogger ------------------------------
(***************************************************************************)
(* InfoLogger writes the resources that the process uses to a file for     *)
(* each, at every tick of its timer.  A request may have a command for     *)
(* each of the resources.                                                  *)
(***************************************************************************)
EXTENDS Integers

CONSTANTS Resources,   \* cpu, mem, gpu, pwr
          LogCommands, \* action, path: it is given, opens: it can be written to,
                       \* append, clear
          MaxLines

VARIABLES bits,        \* mState
          file,        \* file[r]: mCpu, ...: "none", "open" or "closed"
          lines,       \* lines[r]: of the file on the disk
          infoTimer    \* mTimer is active

resourceLogs == <<bits, file, lines, infoTimer>>

InfoInit ==
    /\ bits = {} /\ infoTimer = FALSE
    /\ file = [r \in Resources |-> "none"]
    /\ lines = [r \in Resources |-> 0]

(* What there is of a resource.                                            *)
Now(r) == [on |-> r \in bits, file |-> file[r], lines |-> lines[r]]

(* A logger that is on already goes on in a new file.                      *)
StartLog(s, c) ==
    IF ~c.path THEN s
    ELSE [on    |-> TRUE,
          file  |-> IF c.opens THEN "open" ELSE "closed",
          lines |-> IF c.append \/ ~c.opens THEN s.lines ELSE 0]

(* The file is removed unless it is to be kept.                            *)
LoadData(s, c) ==
    IF ~c.clear THEN s
    ELSE [s EXCEPT !.lines = 0, !.file = IF c.opens THEN "open" ELSE "closed"]

StopOrLoad(s, c) ==
    IF s.file = "none" THEN s
    ELSE IF c.action # "stop" THEN LoadData(s, c)
    ELSE [LoadData(s, c) EXCEPT !.file = "none", !.on = ~@]

LogService(s, c) == IF c.action = "start" THEN StartLog(s, c) ELSE StopOrLoad(s, c)

(* Reading stops the timer.  In the end it is started again when something *)
(* is logged, and stopped otherwise.                                       *)
CheckLoggerState(logged) == infoTimer' = (logged # {})

(* The commands of a request are each about a resource of their own.       *)
PerformLogService(commands) ==
    \E after \in {[r \in Resources |-> IF r \in DOMAIN commands
                                     THEN LogService(Now(r), commands[r]) ELSE Now(r)]} :
        /\ bits' = {r \in Resources : after[r].on}
        /\ file' = [r \in Resources |-> after[r].file]
        /\ lines' = [r \in Resources |-> after[r].lines]
        /\ CheckLoggerState(bits')

InfoTimerEvent ==
    /\ infoTimer
    /\ \A r \in bits : lines[r] < MaxLines
    /\ lines' = [r \in Resources |-> IF r \in bits /\ file[r] = "open" THEN lines[r] + 1
                                     ELSE lines[r]]
    /\ UNCHANGED <<bits, file, infoTimer>>

InfoRequest == \E R \in SUBSET Resources : \E commands \in [R -> LogCommands] :
                   PerformLogService(commands)

ResourceTypes ==
    /\ bits \subseteq Resources /\ infoTimer \in BOOLEAN
    /\ file \in [Resources -> {"none", "open", "closed"}] /\ lines \in [Resources -> Nat]

-----------------------------------------------------------------------------
(* Whatever is started twice, loaded, or stopped without a start, and in   *)
(* requests for several resources at once: the timer runs exactly while    *)
(* some resource has a file, and every one that has is logged              *)
(* (InfoLogger::checkLoggerState, load...Data).                            *)
TicksWhileLogging ==
    LET started == {r \in Resources : file[r] # "none"} IN
    bits = started /\ (infoTimer <=> started # {})
=============================================================================
