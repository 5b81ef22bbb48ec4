------------------------------ MODULE TasLogger ------------------------------
(***************************************************************************)
(* TasLogger, the log of a process, as it is configured by requests and    *)
(* rolled when it has become too large: the threads of the application     *)
(* write to it when it intercepts the messages of Qt, so that one may roll *)
(* it while another writes.  Lines are numbered in the order in which they *)
(* are put out; a configuration is taken as one step.                      *)
(***************************************************************************)
EXTENDS Widgets, Sequences, SequencesExt

CONSTANTS LogThreads,
          Main,          \* the one that performs requests
          Folders,       \* that exist, or can be made, and
          ReadOnly,      \* those where no file can be opened
          Configurations,\* level, toQDebug, intercept, size, clear, folder, enable
          NotGiven,      \* of a parameter
          LogPath,       \* where the log is at first
          LogSize        \* mLogSize, in lines

ASSUME LoggerAssumption ==
    /\ Main \in LogThreads /\ LogPath \in Folders /\ LogSize \in Nat
    /\ \A c \in Configurations :
          /\ c.folder = NotGiven \/ c.folder \in Folders
          /\ c.level = NotGiven \/ c.level \in Nat
          /\ c.size = NotGiven \/ c.size \in Nat
          /\ {c.toQDebug, c.intercept} \subseteq {NotGiven, TRUE, FALSE}

VARIABLES log,           \* the logger: level, toQDebug, size, folder, enabled, its file
                         \* out, rollDue: it is time to check the size
          intercepted,   \* the messages of Qt come to the logger
          logsEvents,    \* the filters of the EventLogger, when it is installed
          folders,       \* in each, the file, the old one, and kept: the lines that
                         \* reached a file and were not cleared (history)
          writing        \* writing[t]: what t is about to do with a line

logger == <<log, intercepted, logsEvents, folders, writing>>

Error == 1
Warning == 3
Debug == 4
NotInstalled == {"not installed"}

Opened(folder) == IF folder \in ReadOnly THEN "closed" ELSE "open"

LoggerInit ==
    /\ log = [level |-> Debug, toQDebug |-> FALSE, size |-> LogSize, folder |-> LogPath,
              enabled |-> TRUE, out |-> Opened(LogPath), rollDue |-> FALSE]
    /\ intercepted = FALSE /\ logsEvents = NotInstalled
    /\ folders = [f \in Folders |-> [now |-> <<>>, old |-> <<>>, kept |-> <<>>]]
    /\ writing = [t \in LogThreads |-> "nothing"]

-----------------------------------------------------------------------------
(* Mutant of Rolled: an old file is not removed, and not replaced then.    *)
RolledOnce(f) == [f EXCEPT !.now = <<>>, !.old = IF @ = <<>> THEN f.now ELSE @]

(* Where files can be opened they are taken to be removed and renamed too:  *)
(* whether they were is not looked at before the file is truncated.        *)
Rolled(f) == [f EXCEPT !.now = <<>>, !.old = f.now]

(* The operations go from a logger and its folders to new ones.            *)
EnableLogger(s) ==
    LET l == s.log
        f == s.folders[l.folder]
    IN  IF l.enabled THEN [s EXCEPT !.log.rollDue = FALSE]
        ELSE [log     |-> [l EXCEPT !.rollDue = FALSE, !.enabled = TRUE, !.out = Opened(l.folder)],
              folders |-> IF Len(f.now) > l.size
                          THEN [s.folders EXCEPT ![l.folder] = Rolled(f)] ELSE s.folders]

DisableLogger(s) == [s EXCEPT !.log.enabled = FALSE, !.log.out = "none"]

(* The old file stays.                                                     *)
ClearLogFile(s) ==
    LET f == s.folders[s.log.folder] IN
    [s EXCEPT !.folders[s.log.folder] =
        [f EXCEPT !.now = <<>>, !.kept = SubSeq(@, 1, Len(@) - Len(f.now))]]

Given(x, old) == IF x = NotGiven THEN old ELSE x

(* To be cleared or moved, the log is turned off, and on again unless it   *)
(* is to go to qDebug or was off.                                          *)
Relocates(c) == c.clear \/ c.folder # NotGiven

Relocated(s, c) ==
    LET d == DisableLogger(s)
        e == IF c.clear THEN ClearLogFile(d) ELSE d
    IN  [e EXCEPT !.log.folder = Given(c.folder, @)]

TurnsOn(c) ==
    IF Relocates(c)
    THEN /\ ~Given(c.toQDebug, log.toQDebug)
         /\ c.enable = TRUE \/ (log.enabled /\ c.enable # FALSE)
    ELSE c.enable = TRUE

Configured(c) ==
    LET s == [log |-> [log EXCEPT !.level = Given(c.level, @), !.toQDebug = Given(c.toQDebug, @),
                                  !.size = Given(c.size, @)],
              folders |-> folders]
        placed == IF Relocates(c) THEN Relocated(s, c)
                  ELSE IF c.enable = FALSE THEN DisableLogger(s) ELSE s
    IN  IF TurnsOn(c) THEN EnableLogger(placed) ELSE placed

-----------------------------------------------------------------------------
(* A line for qDebug that is intercepted comes back, a file that is not    *)
(* open makes Qt warn of it: either ends in the logger again.              *)
Returns(l, caught) == caught /\ (l.toQDebug \/ l.out = "closed")

Output(fs, l) ==
    IF l.toQDebug \/ l.out # "open" THEN fs
    ELSE LET f == fs[l.folder]
             line == Len(f.kept) + 1
         IN  [fs EXCEPT ![l.folder] =
                 [f EXCEPT !.now = Append(@, line), !.kept = Append(@, line)]]

(* A logger that was turned on says so, inside the lock of its instance,   *)
(* which it would have to take again for a message that comes back.        *)
ConfigureLogger(c) ==
    LET s == Configured(c)
        says == TurnsOn(c) /\ s.log.enabled /\ s.log.level = Debug
        caught == Given(c.intercept, intercepted)
    IN  /\ writing[Main] = "nothing"
        /\ log' = s.log
        /\ folders' = IF says THEN Output(s.folders, s.log) ELSE s.folders
        /\ intercepted' = caught
        /\ CrashIf(says /\ Returns(s.log, caught))
        /\ UNCHANGED <<logsEvents, writing>>

-----------------------------------------------------------------------------
IsWritten(type) == log.enabled /\ type <= log.level

Begun(t) ==
    [writing EXCEPT ![t] = IF ~log.toQDebug /\ log.rollDue THEN "rolling" ELSE "output"]

WriteLogLine(t, type) ==
    /\ writing[t] = "nothing" /\ IsWritten(type)
    /\ writing' = Begun(t)
    /\ UNCHANGED <<log, intercepted, logsEvents, folders, application>>

(* That events will be logged is logged; without a filter, all are.        *)
ConfigureEventLogger(on, names) ==
    /\ writing[Main] = "nothing"
    /\ logsEvents' = IF on THEN names ELSE NotInstalled
    /\ writing' = IF on /\ IsWritten(Debug) THEN Begun(Main) ELSE writing
    /\ UNCHANGED <<log, intercepted, folders, application>>

(* The messages of other threads come when they are intercepted.           *)
LogLine(t) ==
    /\ t = Main \/ intercepted
    /\ \E type \in {Error, Debug} : WriteLogLine(t, type)

EventFiltered(name) ==
    /\ logsEvents # NotInstalled /\ (logsEvents = {} \/ name \in logsEvents)
    /\ WriteLogLine(Main, Debug)

(* The check whether to roll, the end of the old file and the begin of the *)
(* new one are not one step.                                               *)
RollOff(t) ==
    /\ writing[t] = "rolling"
    /\ log' = DisableLogger([log |-> log, folders |-> folders]).log
    /\ writing' = [writing EXCEPT ![t] = "opening"]
    /\ UNCHANGED <<intercepted, logsEvents, folders, application>>

RollOn(t) ==
    LET s == EnableLogger([log |-> log, folders |-> folders]) IN
    /\ writing[t] = "opening"
    /\ log' = s.log /\ folders' = s.folders
    /\ writing' = [writing EXCEPT ![t] = "output"]
    /\ UNCHANGED <<intercepted, logsEvents, application>>

(* Whether a message that comes back is written is asked of the level.     *)
OutPut(t) ==
    /\ writing[t] = "output"
    /\ folders' = Output(folders, log)
    /\ CrashIf(Returns(log, intercepted)
               /\ log.level >= (IF log.toQDebug THEN Debug ELSE Warning))
    /\ writing' = [writing EXCEPT ![t] = "nothing"]
    /\ UNCHANGED <<log, intercepted, logsEvents>>

TimePasses ==
    /\ ~log.rollDue
    /\ log' = [log EXCEPT !.rollDue = TRUE]
    /\ UNCHANGED <<intercepted, logsEvents, folders, writing, application>>

LoggerRequest ==
    \/ \E c \in Configurations : ConfigureLogger(c)
    \/ \E on \in BOOLEAN, names \in {{}, {"press"}} : ConfigureEventLogger(on, names)

LoggerStep ==
    \/ \E t \in LogThreads : LogLine(t)
    \/ \E name \in {"press", "show"} : EventFiltered(name)

LoggerGoesOn ==
    \/ \E t \in LogThreads : RollOff(t) \/ RollOn(t) \/ OutPut(t)
    \/ TimePasses

LoggerTypes ==
    /\ log \in [level : Nat, toQDebug : BOOLEAN, size : Nat, folder : Folders, enabled : BOOLEAN,
                out : {"open", "closed", "none"}, rollDue : BOOLEAN]
    /\ intercepted \in BOOLEAN
    /\ logsEvents \in {NotInstalled, {}, {"press"}}
    /\ folders \in [Folders -> [now : Seq(Nat), old : Seq(Nat), kept : Seq(Nat)]]
    /\ writing \in [LogThreads -> {"nothing", "rolling", "opening", "output"}]

-----------------------------------------------------------------------------
(* Whoever rolls the log while others write or it is moved, cleared and    *)
(* turned on and off: the old file and the new one have, together and in   *)
(* order, the last of the lines that reached a file; those that came while *)
(* there was none, between the end of one and the begin of the next, are   *)
(* not among them (TasLogger::enableLogger).                               *)
KeptIsRecent ==
    \A f \in Folders : IsSuffix(folders[f].old \o folders[f].now, folders[f].kept)
=============================================================================
