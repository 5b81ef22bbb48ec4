---------------------- MODULE CucumberApplicationManager ----------------------
(***************************************************************************)
(* CucumberApplicationManager: the steps that start, find and select an    *)
(* application, the steps that a fixture of the application performs, and  *)
(* the retrying of steps that found no application yet.                    *)
(*                                                                         *)
(* A step is called, and answers, through the event loop: posted holds the *)
(* calls that Qt::QueuedConnection has queued in the server's one thread.  *)
(* The handlers here say what one call does; the module of the server says *)
(* when it comes.  Time is counted in retry intervals of half a second.    *)
(***************************************************************************)
EXTENDS Integers, Sequences, FiniteSets, Functions

CONSTANTS
    Ids,           \* application ids of the steps
    DefaultId,     \* the empty id, which is also the current one at first
    Pids,          \* process ids
    Retries,       \* how often a step that fails is retried: 8
    LaunchTime,    \* at most so long does it take to start a process
    SyncTime,      \* so long is a fixture waited for: 20
    None, Empty    \* no entry of mPidMap; an entry without a process id

Steps == [op : {"start", "attach", "select", "plugin", "nocommand", "wrongargs"},
          id : Ids]

ASSUME ManagerAssumption ==
    /\ DefaultId \in Ids
    /\ None \notin Pids /\ Empty \notin Pids /\ None # Empty
    /\ Retries \in Nat \ {0}
    /\ None \notin [step : Steps, left : 1..Retries]
    /\ LaunchTime \in Nat /\ SyncTime \in Nat

VARIABLES
    mPidMap,                 \* the process of each id
    mCurrentApplicationId,
    mRetryData,              \* the step that is retried and the retries left
    retryDue,                \* the retry timer has run out
    mPendingSender,          \* a fixture's result is waited for
    posted,                  \* the calls queued in the event loop, oldest first
    running,                 \* processes that run
    registered               \* processes with a TasClient

manager == <<mPidMap, mCurrentApplicationId, mRetryData, retryDue, mPendingSender,
             posted, running, registered>>

ManagerTypeOK ==
    /\ mPidMap \in [Ids -> Pids \cup {None, Empty}]
    /\ mCurrentApplicationId \in Ids
    /\ mRetryData = None \/ mRetryData \in [step : Steps, left : 1..Retries]
    /\ retryDue \in BOOLEAN /\ (retryDue => mRetryData # None)
    /\ mPendingSender \in BOOLEAN
    /\ registered \subseteq running /\ running \subseteq Pids

ManagerInit ==
    /\ mPidMap = [i \in Ids |-> None]
    /\ mCurrentApplicationId = DefaultId
    /\ mRetryData = None
    /\ retryDue = FALSE
    /\ mPendingSender = FALSE
    /\ posted = <<>>
    /\ running = {}
    /\ registered = {}

-----------------------------------------------------------------------------
Call(s) == [what |-> "step", step |-> s]
PluginResult(s, ok) == [what |-> "result", step |-> s, ok |-> ok]
Response(s, ok) == [what |-> "respond", step |-> s, ok |-> ok]

(* Mutant of InvokePlainSender: the retrying goes on.                      *)
InvokePlainSenderRetrying(s, ok, queue) ==
    /\ posted' = Append(queue, Response(s, ok))
    /\ UNCHANGED <<mRetryData, retryDue>>

(* mRetryData.clear and mRetryTimer->stop come with every answer.          *)
InvokePlainSender(s, ok, queue) ==
    /\ mRetryData' = None
    /\ retryDue' = FALSE
    /\ posted' = Append(queue, Response(s, ok))

(* Mutant of RetriesLeft: a retry is not counted.                          *)
RetriesLeftUncounted(s) ==
    IF mRetryData = None \/ mRetryData.step # s THEN Retries ELSE mRetryData.left

RetriesLeft(s) ==
    IF mRetryData = None \/ mRetryData.step # s THEN Retries ELSE mRetryData.left - 1

Cancelled(s) ==
    IF mRetryData = None \/ mRetryData.step = s THEN <<>>
    ELSE <<Response(mRetryData.step, FALSE)>>

(* Another step that is being retried is cancelled.  A step that failed is *)
(* retried until nothing is left of its retries.  The timer goes on with   *)
(* its rhythm, so it is due again at once if the step took its time.       *)
ReplyOrRetry(s, ok, queue, time) ==
    IF ok \/ RetriesLeft(s) = 0
    THEN InvokePlainSender(s, ok, queue \o Cancelled(s))
    ELSE /\ mRetryData' = [step |-> s, left |-> RetriesLeft(s)]
         /\ retryDue' = (mRetryData # None /\ mRetryData.step = s /\ time > 0)
         /\ posted' = queue \o Cancelled(s)

-----------------------------------------------------------------------------
Unmanaged == UNCHANGED <<mPendingSender, running, registered>>

SelectApp(s, queue, time) ==
    /\ s.op = "select" /\ time = 0
    /\ IF mPidMap[s.id] = None
       THEN /\ InvokePlainSender(s, FALSE, queue)
            /\ UNCHANGED mCurrentApplicationId
       ELSE /\ ReplyOrRetry(s, TRUE, queue, time)
            /\ mCurrentApplicationId' = s.id
    /\ UNCHANGED <<mPidMap>> /\ Unmanaged

(* Any client may be the one that has the name.                            *)
AttachApp(s, queue, time) ==
    /\ s.op = "attach" /\ time = 0
    /\ \/ /\ mPidMap[s.id] # None
          /\ InvokePlainSender(s, FALSE, queue)
          /\ UNCHANGED mPidMap
       \/ /\ mPidMap[s.id] = None
          /\ \E p \in registered : mPidMap' = [mPidMap EXCEPT ![s.id] = p]
          /\ InvokePlainSender(s, TRUE, queue)
       \/ /\ mPidMap[s.id] = None
          /\ ReplyOrRetry(s, FALSE, queue, time)
          /\ UNCHANGED mPidMap
    /\ UNCHANGED <<mCurrentApplicationId>> /\ Unmanaged

Started(i, p) ==
    /\ mPidMap' = [mPidMap EXCEPT ![i] = p]
    /\ mCurrentApplicationId' = i

(* doStartOrWaitApp: an id that has an entry is waited for, any other is   *)
(* launched, which may fail.  A launched one has still to register.        *)
StartApp(s, queue, time) ==
    /\ s.op = "start"
    /\ \/ /\ mPidMap[s.id] # None /\ time = 0
          /\ ReplyOrRetry(s, mPidMap[s.id] \in registered, queue, time)
          /\ UNCHANGED <<mPidMap, mCurrentApplicationId, running>>
       \/ /\ mPidMap[s.id] = None /\ time = 0
          /\ ReplyOrRetry(s, FALSE, queue, time)
          /\ UNCHANGED <<mPidMap, mCurrentApplicationId, running>>
       \/ /\ mPidMap[s.id] = None /\ time \in 0..LaunchTime
          /\ \E p \in Pids \ (running \cup Range(mPidMap)) :
               /\ Started(s.id, p)
               /\ running' = running \cup {p}
          /\ ReplyOrRetry(s, FALSE, queue, time)
    /\ UNCHANGED <<mPendingSender, registered>>

(* startAppTable with an empty table fails each time it is tried.          *)
StartNothing(s, queue, time) ==
    /\ s.op = "nocommand" /\ time = 0
    /\ ReplyOrRetry(s, FALSE, queue, time)
    /\ UNCHANGED <<mPidMap, mCurrentApplicationId>> /\ Unmanaged

WrongArguments(s, queue, time) ==
    /\ s.op = "wrongargs" /\ time = 0
    /\ InvokePlainSender(s, FALSE, queue)
    /\ UNCHANGED <<mPidMap, mCurrentApplicationId>> /\ Unmanaged

(* checkPendingSender: a result that is still waited for is given up.      *)
GivenUp(s) == IF mPendingSender THEN <<Response(s, FALSE)>> ELSE <<>>

(* The look-up mPidMap[mCurrentApplicationId] leaves an entry behind.  The *)
(* fixture is called synchronously; its result is posted.                  *)
CallStepInPlugin(s, queue, time) ==
    /\ s.op = "plugin"
    /\ mPidMap' = [mPidMap EXCEPT ![mCurrentApplicationId] = IF @ = None THEN Empty ELSE @]
    /\ \/ /\ mPidMap[mCurrentApplicationId] \notin registered /\ time = 0
          /\ ReplyOrRetry(s, FALSE, queue \o GivenUp(s), time)
          /\ mPendingSender' = FALSE
       \/ /\ mPidMap[mCurrentApplicationId] \in registered /\ time \in {0, SyncTime}
          /\ mRetryData' = None
          /\ retryDue' = FALSE
          /\ mPendingSender' = TRUE
          /\ \E ok \in BOOLEAN :
               /\ ok => time = 0
               /\ posted' = Append(queue \o GivenUp(s), PluginResult(s, ok))
    /\ UNCHANGED <<mCurrentApplicationId, running, registered>>

(* One call of a step, from the event loop or from the retry timer.        *)
RunStep(s, queue, time) ==
    \/ SelectApp(s, queue, time)
    \/ AttachApp(s, queue, time)
    \/ StartApp(s, queue, time)
    \/ StartNothing(s, queue, time)
    \/ WrongArguments(s, queue, time)
    \/ CallStepInPlugin(s, queue, time)

PluginResultCB(r, queue) ==
    /\ posted' = IF mPendingSender THEN Append(queue, Response(r.step, r.ok)) ELSE queue
    /\ mPendingSender' = FALSE
    /\ UNCHANGED <<mPidMap, mCurrentApplicationId, mRetryData, retryDue,
                   running, registered>>

-----------------------------------------------------------------------------
BeginScenario ==
    /\ mPidMap' = [i \in Ids |-> None]
    /\ UNCHANGED <<mCurrentApplicationId, mRetryData, retryDue, mPendingSender, posted,
                   running, registered>>

(* removeClient(pid, true) kills the process, whether it has a client or   *)
(* has not registered yet.                                                 *)
EndScenario ==
    /\ mPidMap' = [i \in Ids |-> None]
    /\ running' = running \ Range(mPidMap)
    /\ registered' = registered \ Range(mPidMap)
    /\ UNCHANGED <<mCurrentApplicationId, mRetryData, retryDue, mPendingSender, posted>>

(* The applications: they are started by others too, register and end.     *)
ApplicationStarts(p) ==
    /\ p \notin running \cup Range(mPidMap)
    /\ running' = running \cup {p}
    /\ UNCHANGED registered

ApplicationRegisters(p) ==
    /\ p \in running \ registered
    /\ registered' = registered \cup {p}
    /\ UNCHANGED running

ApplicationEnds(p) ==
    /\ p \in running
    /\ running' = running \ {p}
    /\ registered' = registered \ {p}

Applications ==
    /\ \E p \in Pids : ApplicationStarts(p) \/ ApplicationRegisters(p) \/ ApplicationEnds(p)
    /\ UNCHANGED <<mPidMap, mCurrentApplicationId, mRetryData, retryDue, mPendingSender,
                   posted>>
=============================================================================
