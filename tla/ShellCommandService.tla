------------------------- MODULE ShellCommandService -------------------------
(***************************************************************************)
(* ShellCommandService and ShellTask: shell commands that run in a thread  *)
(* of their own, and the requests that ask for their status and output or  *)
(* kill them.                                                              *)
(*                                                                         *)
(* The thread of a task owns the QProcess; the task itself lives in the    *)
(* server's thread, so what the process signals is queued and handled      *)
(* there, between requests.  The thread does not end with its process but  *)
(* when endTask tells it to, and the signal of its end deletes the task.   *)
(* While a task is being started the server's thread sleeps for a second   *)
(* and handles nothing.                                                    *)
(***************************************************************************)
EXTENDS Naturals, Sequences, Functions

CONSTANTS
    Tasks,      \* the ShellTasks of a behaviour
    ShellPids,  \* process ids, given again when a process has ended
    MaxOutput,  \* pieces of output a process may write
    NoTask

ASSUME ShellAssumption ==
    NoTask \notin Tasks /\ ShellPids \subseteq Nat \ {0}

VARIABLES
    thread,     \* the thread of each task
    process,    \* its process
    mPid,       \* the id of the process, 0 for none
    mStatus,    \* what the task believes of the process
    written,    \* pieces of output the process has written
    taken,      \* how many of them the task has read
    mResponse,  \* those nobody has been given yet
    queued,     \* signals queued to the server's thread, in order
    mTasks,     \* the task of each process id
    sleepingFor,  \* the task the server is starting
    reported,   \* what the status requests were given of each task
    ended,      \* the status a last request was given, "" before
    aborted     \* the server has deleted a thread that runs

shell == <<thread, process, mPid, mStatus, written, taken, mResponse, queued,
           mTasks, sleepingFor, reported, ended, aborted>>

ShellInit ==
    /\ thread = [t \in Tasks |-> "none"]
    /\ process = [t \in Tasks |-> "none"]
    /\ mPid = [t \in Tasks |-> 0]
    /\ mStatus = [t \in Tasks |-> "NOT_STARTED"]
    /\ written = [t \in Tasks |-> 0]
    /\ taken = [t \in Tasks |-> 0]
    /\ mResponse = [t \in Tasks |-> <<>>]
    /\ queued = <<>>
    /\ mTasks = [p \in ShellPids |-> NoTask]
    /\ sleepingFor = NoTask
    /\ reported = [t \in Tasks |-> <<>>]
    /\ ended = [t \in Tasks |-> ""]
    /\ aborted = FALSE

-----------------------------------------------------------------------------
(* The thread of a task and its process.                                   *)

Signal(t, s) == queued' = Append(queued, <<t, s>>)

NotServer == <<mStatus, taken, mResponse, mTasks, sleepingFor, reported, ended,
               aborted>>

(* ShellTask::run: the process starts, or its program cannot be executed,  *)
(* or there is none at all.                                                *)
RunTask(t) ==
    /\ thread[t] = "starting"
    /\ thread' = [thread EXCEPT ![t] = "exec"]
    /\ \/ \E p \in ShellPids \ {mPid[u] : u \in {v \in Tasks : process[v] = "running"}} :
            /\ mPid' = [mPid EXCEPT ![t] = p]
            /\ \/ process' = [process EXCEPT ![t] = "running"] /\ Signal(t, "started")
               \/ process' = [process EXCEPT ![t] = "failed"] /\ Signal(t, "error")
       \/ /\ process' = [process EXCEPT ![t] = "failed"]
          /\ Signal(t, "error")
          /\ UNCHANGED mPid
    /\ UNCHANGED <<written, NotServer>>

(* In mResponse, the text of an error; pieces of output are numbered.      *)
Error == 0

Listening(t) == thread[t] = "exec" /\ process[t] = "running"

Write(t) ==
    /\ Listening(t)
    /\ written[t] < MaxOutput
    /\ written' = [written EXCEPT ![t] = @ + 1]
    /\ Signal(t, "readyRead")
    /\ UNCHANGED <<thread, process, mPid, NotServer>>

Exit(t) ==
    /\ Listening(t)
    /\ process' = [process EXCEPT ![t] = "exited"]
    /\ Signal(t, "finished")
    /\ UNCHANGED <<thread, mPid, written, NotServer>>

Crash(t) ==
    /\ Listening(t)
    /\ process' = [process EXCEPT ![t] = "crashed"]
    /\ queued' = queued \o << <<t, "error">>, <<t, "finished">> >>
    /\ UNCHANGED <<thread, mPid, written, NotServer>>

(* The event loop of a thread that was told to quit is left.               *)
EndThread(t) ==
    /\ thread[t] = "quitting"
    /\ thread' = [thread EXCEPT ![t] = "ended"]
    /\ Signal(t, "threadFinished")
    /\ UNCHANGED <<process, mPid, written, NotServer>>

ShellOtherNext == ~aborted /\ \E t \in Tasks :
    RunTask(t) \/ Write(t) \/ Exit(t) \/ Crash(t) \/ EndThread(t)

-----------------------------------------------------------------------------
(* The server's thread: signals that are delivered.                        *)

(* QProcess::readAll.                                                      *)
Unread(t) == [i \in 1..(written[t] - taken[t]) |-> taken[t] + i]

Read(t) ==
    /\ mResponse' = [mResponse EXCEPT ![t] = @ \o Unread(t)]
    /\ taken' = [taken EXCEPT ![t] = written[t]]

Status(t, s) == mStatus' = [mStatus EXCEPT ![t] = s]

(* A slot of the task, or ShellCommandService::finished, which deletes it  *)
(* and with it what is still queued for it.                                *)
Deliver ==
    /\ sleepingFor = NoTask
    /\ queued # <<>>
    /\ LET t == Head(queued)[1]
           s == Head(queued)[2]
       IN \/ /\ s = "started" /\ Status(t, "RUNNING")
             /\ UNCHANGED <<taken, mResponse, thread>>
          \/ /\ s = "readyRead" /\ Read(t)
             /\ UNCHANGED <<mStatus, thread>>
          \/ /\ s = "finished" /\ Read(t) /\ Status(t, "FINISHED")
             /\ UNCHANGED thread
          \/ /\ s = "error" /\ Status(t, "ERR")
             /\ mResponse' = [mResponse EXCEPT ![t] = <<Error>>]
             /\ UNCHANGED <<taken, thread>>
          \/ /\ s = "threadFinished"
             /\ thread' = [thread EXCEPT ![t] = "deleted"]
             /\ UNCHANGED <<mStatus, taken, mResponse>>
    /\ queued' = Tail(queued)
    /\ UNCHANGED <<process, mPid, written, mTasks, sleepingFor, reported, ended,
                   aborted>>

-----------------------------------------------------------------------------
(* The server's thread: requests.                                          *)

ShellTask(t) ==
    /\ sleepingFor = NoTask
    /\ thread[t] = "none"
    /\ thread' = [thread EXCEPT ![t] = "starting"]
    /\ sleepingFor' = t
    /\ UNCHANGED <<process, mPid, mStatus, written, taken, mResponse, queued,
                   mTasks, reported, ended, aborted>>

(* The second is over.  A task without a process is deleted, and its       *)
(* thread is running: Qt ends the server.                                  *)
Started ==
    /\ sleepingFor # NoTask
    /\ LET t == sleepingFor IN
       IF mPid[t] # 0
       THEN mTasks' = [mTasks EXCEPT ![mPid[t]] = t] /\ UNCHANGED aborted
       ELSE aborted' = TRUE /\ UNCHANGED mTasks
    /\ sleepingFor' = NoTask
    /\ UNCHANGED <<thread, process, mPid, mStatus, written, taken, mResponse,
                   queued, reported, ended>>

(* endTask: the process is killed and the thread told to quit; what the    *)
(* process still signals is not heard.                                     *)
EndTask(t) ==
    /\ process' = [process EXCEPT ![t] = IF @ = "running" THEN "killed" ELSE @]
    /\ thread' = [thread EXCEPT ![t] = "quitting"]

KillTask(p) ==
    /\ sleepingFor = NoTask
    /\ mTasks[p] # NoTask
    /\ EndTask(mTasks[p])
    /\ mTasks' = [mTasks EXCEPT ![p] = NoTask]
    /\ UNCHANGED <<mPid, mStatus, written, taken, mResponse, queued,
                   sleepingFor, reported, ended, aborted>>

(* Mutant of Forgotten: a task that is done stays in the table.            *)
ForgottenNot(p, t) == mTasks

(* Mutant of ResponseData: what is returned is kept.                       *)
ResponseDataKept(t) == mResponse' = mResponse

ResponseData(t) == mResponse' = [mResponse EXCEPT ![t] = <<>>]

(* A task that is not running is ended and forgotten.                      *)
Forgotten(p, t) == [mTasks EXCEPT ![p] = IF mStatus[t] = "RUNNING" THEN @ ELSE NoTask]

ShellStatus(p) ==
    /\ sleepingFor = NoTask
    /\ mTasks[p] # NoTask
    /\ LET t == mTasks[p] IN
       /\ reported' = [reported EXCEPT ![t] = @ \o mResponse[t]]
       /\ ResponseData(t)
       /\ ended' = [ended EXCEPT ![t] = IF mStatus[t] = "RUNNING" THEN "" ELSE mStatus[t]]
       /\ mTasks' = Forgotten(p, t)
       /\ IF mStatus[t] = "RUNNING" THEN UNCHANGED <<process, thread>> ELSE EndTask(t)
    /\ UNCHANGED <<mPid, mStatus, written, taken, queued, sleepingFor, aborted>>

ShellServerNext == ~aborted /\
    \/ Deliver
    \/ \E t \in Tasks : ShellTask(t)
    \/ Started
    \/ \E p \in ShellPids : KillTask(p) \/ ShellStatus(p)

-----------------------------------------------------------------------------
(* No request finds a task in the table that has been deleted: whatever    *)
(* lets a thread end takes its task out of the table first.                *)
TasksAreAlive ==
    \A p \in ShellPids : mTasks[p] # NoTask =>
        thread[mTasks[p]] = "exec" /\ mPid[mTasks[p]] = p

(* Status requests are given the output of a command once and in order     *)
(* until an error replaces it, and one that says FINISHED completes it.    *)
ReportedOnce ==
    \A t \in Tasks : Error \notin Range(reported[t]) =>
        /\ reported[t] = [i \in 1..Len(reported[t]) |-> i]
        /\ ended[t] = "FINISHED" /\ process[t] = "exited"
                => Len(reported[t]) = written[t]
=============================================================================
