---------------------- MODULE CucumberWireprotocolServer ----------------------
(***************************************************************************)
(* CucumberWireprotocolServer: the server that Cucumber's wire protocol    *)
(* talks to.  It performs one step at a time.  Every request but invoke is *)
(* answered when it is read; an invoked step is called through the event   *)
(* loop, and the first answer, or the timeout, goes to the connection that *)
(* asked.  An answer does not say which step it is of.                     *)
(***************************************************************************)
EXTENDS CucumberApplicationManager

CONSTANTS
    Connections,        \* connections of Cucumber, used over and over
    ResponseTimeout,    \* so long may a step take: 20
    Invoked             \* the steps that Cucumber invokes

Immediate == [op : {"begin_scenario", "end_scenario", "step_matches", "unknown"},
              id : {DefaultId}]

(* The retries, and the start of a process, end before the step times out. *)
ASSUME ServerAssumption ==
    /\ ResponseTimeout \in Nat /\ LaunchTime + Retries < ResponseTimeout
    /\ Invoked \subseteq Steps
    /\ None \notin Connections \cup Immediate \cup Invoked

VARIABLES
    connection,           \* of each connection: "none", "open" or "closed"
    asked,                \* the request that is not answered yet
    unread,               \* connections whose request has not been read, in order
    mPendingResponse,
    mPendingConnection,
    waiting,              \* the step that the pending response is of
    responseLeft,         \* of the response timer
    scenario,             \* a scenario has begun and not ended
    cucumber,             \* the connection of the Cucumber that runs now
    begun                 \* it has begun a scenario

vars == <<mPidMap, mCurrentApplicationId, mRetryData, retryDue, mPendingSender, posted,
          running, registered, connection, asked, unread, mPendingResponse,
          mPendingConnection, waiting, responseLeft, scenario, cucumber, begun>>

wire == <<connection, asked, unread>>
client == <<cucumber, begun>>
pending == <<mPendingResponse, mPendingConnection, waiting, responseLeft>>

TypeOK ==
    /\ ManagerTypeOK
    /\ connection \in [Connections -> {"none", "open", "closed"}]
    /\ asked \in [Connections -> Immediate \cup Invoked \cup {None}]
    /\ unread \in Seq(Connections)
    /\ \A c \in Range(unread) : connection[c] = "open" /\ asked[c] # None
    /\ mPendingResponse \in BOOLEAN
    /\ mPendingConnection \in Connections \cup {None}
    /\ waiting \in Invoked \cup {None}
    /\ mPendingResponse <=> waiting # None
    /\ responseLeft \in 0..ResponseTimeout
    /\ scenario \in BOOLEAN
    /\ cucumber \in Connections \cup {None}
    /\ begun \in BOOLEAN

Init ==
    /\ ManagerInit
    /\ connection = [c \in Connections |-> "none"]
    /\ asked = [c \in Connections |-> None]
    /\ unread = <<>>
    /\ mPendingResponse = FALSE
    /\ mPendingConnection = None
    /\ waiting = None
    /\ responseLeft = 0
    /\ scenario = FALSE
    /\ cucumber = None
    /\ begun = FALSE

-----------------------------------------------------------------------------
(* One Cucumber runs at a time, but the connection of the last one may     *)
(* still be open.  It sends a request when it has the answer to the last,  *)
(* and invokes steps within the scenarios it has begun.                    *)
Connect(c) ==
    /\ connection[c] = "none"
    /\ connection' = [connection EXCEPT ![c] = "open"]
    /\ cucumber' = c
    /\ begun' = FALSE
    /\ UNCHANGED <<asked, unread, scenario, pending, manager>>

Ask(r) ==
    /\ cucumber # None /\ connection[cucumber] = "open" /\ asked[cucumber] = None
    /\ r \in Invoked => begun
    /\ asked' = [asked EXCEPT ![cucumber] = r]
    /\ unread' = Append(unread, cucumber)
    /\ begun' = (begun /\ r.op # "end_scenario")
    /\ UNCHANGED <<connection, cucumber, scenario, pending, manager>>

(* What a connection has asked is not read any more.                       *)
Unasked(c) ==
    IF c \in Range(unread)
    THEN \E k \in DOMAIN unread :
            /\ unread[k] = c
            /\ unread' = SubSeq(unread, 1, k - 1) \o SubSeq(unread, k + 1, Len(unread))
    ELSE UNCHANGED unread

(* Of a connection that has ended the device is deleted later.             *)
Closed(c) ==
    /\ connection' = [connection EXCEPT ![c] = "closed"]
    /\ asked' = [asked EXCEPT ![c] = None]
    /\ Unasked(c)
    /\ posted' = Append(posted, [what |-> "delete", connection |-> c])

ManagerButPosted == UNCHANGED <<mPidMap, mCurrentApplicationId, mRetryData, retryDue,
                                mPendingSender, running, registered>>

ConnectionDisconnect(c) ==
    /\ connection[c] = "open"
    /\ Closed(c)
    /\ ManagerButPosted
    /\ UNCHANGED <<pending, scenario, client>>

(* writeResponse: nothing is written to a connection that has ended.       *)
WriteResponse(c) ==
    asked' = IF connection[c] = "open" THEN [asked EXCEPT ![c] = None] ELSE asked

-----------------------------------------------------------------------------
(* A request has been read as a whole.  What was posted before the answer  *)
(* it follows has been handled: the answer and the request travel.         *)
Read(c) == unread # <<>> /\ c = Head(unread) /\ posted = <<>>

(* Mutant of Refuse: the request is only ignored.                          *)
RefuseSilently(c) ==
    /\ unread' = Tail(unread)
    /\ UNCHANGED <<connection, asked, posted>>

Refuse(c) == Closed(c)

HandleWhilePending(c) ==
    /\ Read(c) /\ mPendingResponse
    /\ Refuse(c)
    /\ ManagerButPosted
    /\ UNCHANGED <<pending, scenario, client>>

HandleUnknown(c) ==
    /\ Read(c) /\ ~mPendingResponse /\ asked[c].op = "unknown"
    /\ Closed(c)
    /\ ManagerButPosted
    /\ UNCHANGED <<pending, scenario, client>>

(* step_matches stands for the requests that are answered and change       *)
(* nothing: a snippet, a malformed request, a step that is not registered. *)
HandleImmediate(c) ==
    /\ Read(c) /\ ~mPendingResponse
    /\ \/ /\ asked[c].op = "begin_scenario" /\ BeginScenario
          /\ scenario' = TRUE /\ begun' = (begun \/ c = cucumber)
       \/ /\ asked[c].op = "end_scenario" /\ EndScenario
          /\ scenario' = FALSE /\ UNCHANGED begun
       \/ /\ asked[c].op = "step_matches"
          /\ UNCHANGED <<manager, scenario, begun>>
    /\ WriteResponse(c)
    /\ unread' = Tail(unread)
    /\ UNCHANGED <<connection, pending, cucumber>>

StartStep(c) ==
    /\ Read(c) /\ ~mPendingResponse /\ asked[c] \in Invoked
    /\ posted' = Append(posted, Call(asked[c]))
    /\ mPendingResponse' = TRUE
    /\ mPendingConnection' = c
    /\ waiting' = asked[c]
    /\ responseLeft' = ResponseTimeout
    /\ unread' = Tail(unread)
    /\ ManagerButPosted
    /\ UNCHANGED <<connection, asked, scenario, client>>

-----------------------------------------------------------------------------
ResetResponseTimeout ==
    /\ mPendingResponse' = FALSE
    /\ mPendingConnection' = None
    /\ waiting' = None
    /\ responseLeft' = 0

(* The connection is forgotten when its device is deleted.                 *)
CucumberResponse ==
    IF ~mPendingResponse THEN UNCHANGED <<asked, pending>>
    ELSE /\ ResetResponseTimeout
         /\ IF mPendingConnection = None THEN UNCHANGED asked
            ELSE WriteResponse(mPendingConnection)

Elapse(time) ==
    responseLeft' = IF responseLeft > time THEN responseLeft - time ELSE 0

CallPosted ==
    /\ posted # <<>> /\ Head(posted).what = "step"
    /\ \E time \in {0, LaunchTime, SyncTime} :
         /\ RunStep(Head(posted).step, Tail(posted), time)
         /\ Elapse(time)
    /\ UNCHANGED <<wire, mPendingResponse, mPendingConnection, waiting, scenario, client>>

ResultPosted ==
    /\ posted # <<>> /\ Head(posted).what = "result"
    /\ PluginResultCB(Head(posted), Tail(posted))
    /\ UNCHANGED <<wire, pending, scenario, client>>

ResponsePosted ==
    /\ posted # <<>> /\ Head(posted).what = "respond"
    /\ CucumberResponse
    /\ posted' = Tail(posted)
    /\ ManagerButPosted
    /\ UNCHANGED <<connection, unread, scenario, client>>

DeletePosted ==
    /\ posted # <<>> /\ Head(posted).what = "delete"
    /\ connection' = [connection EXCEPT ![Head(posted).connection] = "none"]
    /\ mPendingConnection' = IF mPendingConnection = Head(posted).connection
                             THEN None ELSE mPendingConnection
    /\ posted' = Tail(posted)
    /\ ManagerButPosted
    /\ UNCHANGED <<asked, unread, mPendingResponse, waiting, responseLeft, scenario, client>>

TimedOut == mPendingResponse /\ responseLeft = 0

ResponseTimesOut ==
    /\ TimedOut
    /\ CucumberResponse
    /\ UNCHANGED <<connection, unread, scenario, client, manager>>

DoRetryTimer ==
    /\ retryDue /\ mRetryData # None
    /\ \E time \in {0, LaunchTime, SyncTime} :
         /\ RunStep(mRetryData.step, posted, time)
         /\ Elapse(time)
    /\ UNCHANGED <<wire, mPendingResponse, mPendingConnection, waiting, scenario, client>>

(* Half a second passes: what was posted, or is due, does not wait.        *)
Tick ==
    /\ posted = <<>> /\ ~retryDue /\ ~TimedOut
    /\ mPendingResponse \/ mRetryData # None
    /\ Elapse(1)
    /\ retryDue' = (mRetryData # None)
    /\ UNCHANGED <<mPidMap, mCurrentApplicationId, mRetryData, mPendingSender, posted,
                   running, registered, wire, mPendingResponse,
                   mPendingConnection, waiting, scenario, client>>

HandleRequest(c) ==
    HandleWhilePending(c) \/ HandleUnknown(c) \/ HandleImmediate(c) \/ StartStep(c)

Posted == CallPosted \/ ResultPosted \/ ResponsePosted \/ DeletePosted

Next ==
    \/ \E c \in Connections : Connect(c) \/ ConnectionDisconnect(c) \/ HandleRequest(c)
    \/ \E r \in Immediate \cup Invoked : Ask(r)
    \/ Posted
    \/ ResponseTimesOut
    \/ DoRetryTimer
    \/ Tick
    \/ Applications /\ UNCHANGED <<wire, pending, scenario, client>>

Spec == Init /\ [][Next]_vars

(* The event loop runs what was posted and what is due, time passes        *)
(* however busy the clients are, and requests are read when it is idle.    *)
FairSpec ==
    /\ Spec
    /\ WF_vars(Posted)
    /\ WF_vars(ResponseTimesOut)
    /\ WF_vars(DoRetryTimer)
    /\ SF_vars(Tick)
    /\ SF_vars(\E c \in Connections : HandleRequest(c))

-----------------------------------------------------------------------------

(* A step is retried only while Cucumber waits for that very step.  If it  *)
(* went on, it would launch applications for a scenario that is over.      *)
RetriedIsAwaited == mRetryData # None => mRetryData.step = waiting

(* While a response is pending, no answer is under way but that of the     *)
(* step it is pending for: a late result never answers the next step.      *)
AnswersItsOwnStep ==
    mPendingResponse =>
        \A k \in DOMAIN posted : posted[k].what # "delete" => posted[k].step = waiting

(* A request that Cucumber waits for has not been read yet, or is what the *)
(* response is pending for: none is dropped without an answer.             *)
NoneForgotten ==
    \A c \in Connections : asked[c] # None =>
        \/ c \in Range(unread)
        \/ mPendingResponse /\ mPendingConnection = c

(* Cucumber never waits for ever: every request is answered or its         *)
(* connection ends.                                                        *)
EveryRequestAnswered == \A c \in Connections : asked[c] # None ~> asked[c] = None
=============================================================================
