------------------ MODULE CucumberWireprotocolServer_proofs ------------------
(***************************************************************************)
(* For any steps, applications and connections, and any number of retries  *)
(* that together with the start of one process take less time than a step  *)
(* may take: what is retried is waited for, and no answer is under way but *)
(* that of the step a response is pending for.                             *)
(*                                                                         *)
(* There is never more than one trace of a step: its call, the result of   *)
(* its fixture, its answer, or its retry data.  While it is retried, what  *)
(* is left of the response timer suffices for all its retries, and for the *)
(* start of a process if there has not been one.                           *)
(*                                                                         *)
(* A connection that asks waits to be read, once, or a response is pending *)
(* for it, until its device is deleted: no request is forgotten.           *)
(***************************************************************************)
EXTENDS CucumberWireprotocolServer, TLAPS

Posts == [what : {"step"}, step : Steps]
         \cup [what : {"result", "respond"}, step : Steps, ok : BOOLEAN]
         \cup [what : {"delete"}, connection : Connections]

IsTrace(e) == e.what # "delete"

(* In a queue without traces only devices wait to be deleted.              *)
NoTrace(q) == \A k \in DOMAIN q : ~IsTrace(q[k])

OneTrace ==
    /\ \A j, k \in DOMAIN posted : IsTrace(posted[j]) /\ IsTrace(posted[k]) => j = k
    /\ mRetryData # None => NoTrace(posted)

(* What a step may still need for the start of a process.                  *)
StartLeft(s) == IF s.op = "start" /\ mPidMap[s.id] = None THEN LaunchTime ELSE 0

InTime ==
    mRetryData # None =>
        responseLeft >= mRetryData.left + StartLeft(mRetryData.step)
                        + (IF retryDue THEN 0 ELSE 1)

CallsAreNew ==
    \A k \in DOMAIN posted : posted[k].what = "step" =>
        mPendingResponse /\ responseLeft = ResponseTimeout

SenderHasTrace ==
    mPendingSender => \E k \in DOMAIN posted : posted[k].what = "result"

StepInv ==
    /\ posted \in Seq(Posts)
    /\ mPidMap \in [Ids -> Pids \cup {None, Empty}]
    /\ mRetryData = None \/ mRetryData \in [step : Steps, left : 1..Retries]
    /\ retryDue \in BOOLEAN
    /\ mPendingSender \in BOOLEAN
    /\ mPendingResponse \in BOOLEAN
    /\ responseLeft \in 0..ResponseTimeout
    /\ mRetryData # None => mPendingResponse
    /\ RetriedIsAwaited
    /\ AnswersItsOwnStep
    /\ OneTrace
    /\ InTime
    /\ CallsAreNew
    /\ SenderHasTrace

-----------------------------------------------------------------------------
(* What is put at the end of a queue that has no traces is the only one.   *)
LEMMA AppendTrace ==
    ASSUME NEW q \in Seq(Posts), NoTrace(q), NEW e \in Posts
    PROVE  LET p == Append(q, e) IN
           /\ p \in Seq(Posts)
           /\ \A k \in DOMAIN p : IsTrace(p[k]) => k = Len(q) + 1 /\ p[k] = e
           /\ Len(q) + 1 \in DOMAIN p /\ p[Len(q) + 1] = e
<1> DEFINE p == Append(q, e)
<1>1. p \in Seq(Posts) /\ DOMAIN p = 1..(Len(q) + 1) /\ p[Len(q) + 1] = e
  OBVIOUS
<1>2. \A k \in DOMAIN p : k # Len(q) + 1 => k \in DOMAIN q /\ p[k] = q[k]
  BY <1>1
<1> QED
  BY <1>1, <1>2 DEF NoTrace

(* After the only trace of a queue has been taken from its head, none is   *)
(* left.                                                                   *)
LEMMA TakeTrace ==
    ASSUME StepInv, posted # <<>>, IsTrace(Head(posted))
    PROVE  /\ Tail(posted) \in Seq(Posts) /\ NoTrace(Tail(posted))
           /\ mRetryData = None
           /\ Head(posted) \in Posts
           /\ mPendingResponse => Head(posted).step = waiting
           /\ mPendingSender => Head(posted).what = "result"
<1>1. posted \in Seq(Posts) /\ OneTrace /\ AnswersItsOwnStep /\ SenderHasTrace
  BY DEF StepInv
<1>2. /\ 1 \in DOMAIN posted /\ Head(posted) = posted[1] /\ posted[1] \in Posts
      /\ Tail(posted) \in Seq(Posts)
      /\ \A k \in DOMAIN Tail(posted) :
            k + 1 \in DOMAIN posted /\ Tail(posted)[k] = posted[k + 1] /\ k + 1 # 1
  BY <1>1
<1>3. NoTrace(Tail(posted))
  BY <1>1, <1>2 DEF OneTrace, NoTrace
<1>4. mRetryData = None
  BY <1>1, <1>2 DEF OneTrace, NoTrace
<1>5. mPendingSender => Head(posted).what = "result"
  BY <1>1, <1>2 DEF SenderHasTrace, OneTrace, IsTrace
<1> QED
  BY <1>1, <1>2, <1>3, <1>4, <1>5 DEF AnswersItsOwnStep, IsTrace

(* A connection that ends only adds the deletion of its device.            *)
LEMMA AppendDelete ==
    ASSUME StepInv, NEW c \in Connections,
           posted' = Append(posted, [what |-> "delete", connection |-> c]),
           UNCHANGED <<mPidMap, mRetryData, retryDue, mPendingSender>>,
           UNCHANGED pending
    PROVE  StepInv'
<1> DEFINE e == [what |-> "delete", connection |-> c]
<1>1. posted \in Seq(Posts) /\ e \in Posts
  BY DEF StepInv, Posts
<1>2. /\ posted' \in Seq(Posts)
      /\ DOMAIN posted \subseteq DOMAIN posted'
      /\ \A k \in DOMAIN posted' : \/ k \in DOMAIN posted /\ posted'[k] = posted[k]
                                   \/ posted'[k].what = "delete"
      /\ \A k \in DOMAIN posted : posted'[k] = posted[k]
  BY <1>1
<1>3. OneTrace'
  BY <1>2 DEF StepInv, OneTrace, NoTrace, IsTrace
<1>4. AnswersItsOwnStep'
  BY <1>2 DEF StepInv, AnswersItsOwnStep, pending
<1>5. CallsAreNew'
  BY <1>2 DEF StepInv, CallsAreNew, pending
<1>6. SenderHasTrace'
  BY <1>2 DEF StepInv, SenderHasTrace
<1>7. InTime' /\ RetriedIsAwaited'
  BY DEF StepInv, InTime, StartLeft, RetriedIsAwaited, pending
<1> QED
  BY <1>2, <1>3, <1>4, <1>5, <1>6, <1>7 DEF StepInv, pending

-----------------------------------------------------------------------------
(* A step that is run: nothing else of it is left, and it is waited for.   *)
StepRuns(s, queue, time) ==
    /\ StepInv
    /\ s \in Steps /\ s = waiting /\ mPendingResponse
    /\ queue \in Seq(Posts) /\ NoTrace(queue)
    /\ time \in Nat
    /\ ~mPendingSender
    /\ \/ mRetryData = None /\ responseLeft = ResponseTimeout
       \/ mRetryData # None /\ mRetryData.step = s /\ retryDue
    /\ Elapse(time)
    /\ mPidMap' \in [Ids -> Pids \cup {None, Empty}]
    /\ UNCHANGED <<mPendingResponse, waiting>>

LEMMA Elapsed ==
    ASSUME NEW time \in Nat, responseLeft \in 0..ResponseTimeout, Elapse(time)
    PROVE  /\ responseLeft' \in 0..ResponseTimeout
           /\ responseLeft' >= responseLeft - time
  BY ServerAssumption DEF Elapse

(* It leaves an answer, or the result of a fixture.                        *)
LEMMA StepAnswers ==
    ASSUME NEW s, NEW queue, NEW time, StepRuns(s, queue, time),
           NEW e \in Posts, e.what \in {"result", "respond"}, e.step = s,
           posted' = Append(queue, e),
           mRetryData' = None, retryDue' = FALSE,
           mPendingSender' \in BOOLEAN, mPendingSender' => e.what = "result"
    PROVE  StepInv'
<1> USE DEF StepRuns
<1>1. /\ posted' \in Seq(Posts)
      /\ \A k \in DOMAIN posted' : IsTrace(posted'[k]) => k = Len(queue) + 1 /\ posted'[k] = e
      /\ Len(queue) + 1 \in DOMAIN posted' /\ posted'[Len(queue) + 1] = e
  BY AppendTrace
<1>2. responseLeft' \in 0..ResponseTimeout
  BY Elapsed DEF StepInv
<1>3. OneTrace'
  BY <1>1 DEF OneTrace
<1>4. AnswersItsOwnStep'
  BY <1>1 DEF AnswersItsOwnStep, IsTrace
<1>5. CallsAreNew'
  BY <1>1 DEF CallsAreNew, IsTrace
<1>6. SenderHasTrace'
  BY <1>1 DEF SenderHasTrace
<1> QED
  BY <1>1, <1>2, <1>3, <1>4, <1>5, <1>6 DEF StepInv, RetriedIsAwaited, InTime

(* Or it is retried: the time it took, and what it may still need to start *)
(* a process, it might have needed before.                                 *)
LEMMA StepIsRetried ==
    ASSUME NEW s, NEW queue, NEW time, StepRuns(s, queue, time),
           posted' = queue,
           RetriesLeft(s) # 0,
           mRetryData' = [step |-> s, left |-> RetriesLeft(s)],
           retryDue' = (mRetryData # None /\ mRetryData.step = s /\ time > 0),
           mPendingSender' = FALSE,
           time + StartLeft(s)' <= StartLeft(s)
    PROVE  StepInv'
<1> USE DEF StepRuns
<1>1. responseLeft' \in 0..ResponseTimeout /\ responseLeft' >= responseLeft - time
  BY Elapsed DEF StepInv
<1>2. RetriesLeft(s) \in 1..Retries
  BY ManagerAssumption DEF StepInv, RetriesLeft
<1>3. StartLeft(s) \in {0, LaunchTime} /\ StartLeft(s)' \in {0, LaunchTime}
  BY DEF StartLeft
<1>4. InTime'
  <2>1. CASE mRetryData = None /\ responseLeft = ResponseTimeout
    <3>1. RetriesLeft(s) = Retries /\ retryDue' = FALSE
      BY <2>1 DEF RetriesLeft
    <3>2. responseLeft' >= Retries + StartLeft(s)' + 1
      BY <1>1, <1>3, <2>1, ManagerAssumption, ServerAssumption
    <3> QED
      BY <3>1, <3>2 DEF InTime, StartLeft
  <2>2. CASE mRetryData # None /\ mRetryData.step = s /\ retryDue
    <3>1. RetriesLeft(s) = mRetryData.left - 1 /\ mRetryData.left \in 1..Retries
      BY <2>2 DEF RetriesLeft, StepInv
    <3>2. responseLeft >= mRetryData.left + StartLeft(s)
      BY <2>2, <3>1, <1>3, ManagerAssumption DEF StepInv, InTime
    <3>3. responseLeft' >= RetriesLeft(s) + StartLeft(s)' + (IF time > 0 THEN 0 ELSE 1)
      BY <1>1, <1>3, <3>1, <3>2, ManagerAssumption, ServerAssumption DEF StepInv
    <3> QED
      BY <2>2, <3>3 DEF InTime, StartLeft
  <2> QED
    BY <2>1, <2>2
<1>5. AnswersItsOwnStep' /\ OneTrace' /\ CallsAreNew' /\ SenderHasTrace'
  BY DEF NoTrace, IsTrace, AnswersItsOwnStep, OneTrace, CallsAreNew, SenderHasTrace
<1>6. mRetryData' \in [step : Steps, left : 1..Retries]
  BY <1>2
<1> QED
  BY <1>1, <1>4, <1>5, <1>6 DEF StepInv, RetriedIsAwaited

(* What doReplyOrRetry does is one of the two.                             *)
LEMMA StepReplies ==
    ASSUME NEW s, NEW queue, NEW time, StepRuns(s, queue, time),
           NEW ok \in BOOLEAN, ReplyOrRetry(s, ok, queue, time),
           mPendingSender' = FALSE, time + StartLeft(s)' <= StartLeft(s)
    PROVE  StepInv'
<1>1. Cancelled(s) = <<>> /\ queue \o Cancelled(s) = queue
  BY DEF Cancelled, StepRuns
<1>2. Response(s, ok) \in Posts
  BY DEF Response, Posts, StepRuns
<1>3. CASE ok \/ RetriesLeft(s) = 0
  BY <1>1, <1>2, <1>3, StepAnswers DEF ReplyOrRetry, InvokePlainSender, Response
<1>4. CASE ~(ok \/ RetriesLeft(s) = 0)
  BY <1>1, <1>4, StepIsRetried DEF ReplyOrRetry
<1> QED
  BY <1>3, <1>4

LEMMA StepFails ==
    ASSUME NEW s, NEW queue, NEW time, StepRuns(s, queue, time),
           NEW ok \in BOOLEAN, InvokePlainSender(s, ok, queue),
           mPendingSender' = FALSE
    PROVE  StepInv'
<1>1. Response(s, ok) \in Posts
  BY DEF Response, Posts, StepRuns
<1> QED
  BY <1>1, StepAnswers DEF InvokePlainSender, Response

(* Every step keeps mPidMap a table.                                       *)
LEMMA PidMapStaysTable ==
    ASSUME NEW s \in Steps, NEW queue, NEW time, RunStep(s, queue, time),
           mPidMap \in [Ids -> Pids \cup {None, Empty}], registered \subseteq Pids
    PROVE  mPidMap' \in [Ids -> Pids \cup {None, Empty}]
  BY DEF RunStep, SelectApp, AttachApp, StartApp, Started, StartNothing, WrongArguments,
         CallStepInPlugin

(* No step but one that starts an application needs time to start one.     *)
LEMMA StartLeftOnlyForStart ==
    ASSUME NEW s, s.op # "start"
    PROVE  StartLeft(s) = 0 /\ StartLeft(s)' = 0
  BY DEF StartLeft

LEMMA RunStepKeeps ==
    ASSUME NEW s, NEW queue, NEW time, StepRuns(s, queue, time), RunStep(s, queue, time)
    PROVE  StepInv'
<1>1. mPendingSender = FALSE
  BY DEF StepRuns, StepInv
<1>2. CASE SelectApp(s, queue, time)
  <2>1. time + StartLeft(s)' <= StartLeft(s) /\ mPendingSender' = FALSE
    BY <1>1, <1>2, StartLeftOnlyForStart DEF SelectApp, Unmanaged
  <2> QED
    BY <1>2, <2>1, StepReplies, StepFails DEF SelectApp
<1>3. CASE AttachApp(s, queue, time)
  <2>1. time + StartLeft(s)' <= StartLeft(s) /\ mPendingSender' = FALSE
    BY <1>1, <1>3, StartLeftOnlyForStart DEF AttachApp, Unmanaged
  <2> QED
    BY <1>3, <2>1, StepReplies, StepFails DEF AttachApp
<1>4. CASE StartApp(s, queue, time)
  <2>1. mPendingSender' = FALSE
    BY <1>1, <1>4 DEF StartApp
  <2>2. \/ ReplyOrRetry(s, mPidMap[s.id] \in registered, queue, time)
        \/ ReplyOrRetry(s, FALSE, queue, time)
    BY <1>4 DEF StartApp
  <2>3. time + StartLeft(s)' <= StartLeft(s)
    <3>1. s.op = "start" /\ s.id \in Ids /\ mPidMap \in [Ids -> Pids \cup {None, Empty}]
      BY <1>4 DEF StartApp, StepRuns, StepInv, Steps
    <3>2. CASE time = 0 /\ mPidMap' = mPidMap
      BY <3>2, ManagerAssumption DEF StartLeft
    <3>3. CASE /\ mPidMap[s.id] = None /\ time \in 0..LaunchTime
               /\ \E p \in Pids : mPidMap' = [mPidMap EXCEPT ![s.id] = p]
      <4>1. mPidMap'[s.id] # None
        BY <3>1, <3>3, ManagerAssumption
      <4>2. StartLeft(s) = LaunchTime /\ StartLeft(s)' = 0
        BY <3>1, <3>3, <4>1 DEF StartLeft
      <4> QED
        BY <3>3, <4>2, ManagerAssumption
    <3> QED
      BY <1>4, <3>2, <3>3 DEF StartApp, Started
  <2>4. (mPidMap[s.id] \in registered) \in BOOLEAN
    OBVIOUS
  <2>5. CASE ReplyOrRetry(s, mPidMap[s.id] \in registered, queue, time)
    BY <2>1, <2>3, <2>4, <2>5, StepReplies, Zenon
  <2>6. CASE ReplyOrRetry(s, FALSE, queue, time)
    BY <2>1, <2>3, <2>6, StepReplies
  <2> QED
    BY <2>2, <2>5, <2>6
<1>5. CASE StartNothing(s, queue, time)
  <2>1. time + StartLeft(s)' <= StartLeft(s) /\ mPendingSender' = FALSE
    BY <1>1, <1>5, StartLeftOnlyForStart DEF StartNothing, Unmanaged
  <2> QED
    BY <1>5, <2>1, StepReplies DEF StartNothing
<1>6. CASE WrongArguments(s, queue, time)
  <2>1. mPendingSender' = FALSE
    BY <1>1, <1>6 DEF WrongArguments, Unmanaged
  <2> QED
    BY <1>6, <2>1, StepFails DEF WrongArguments
<1>7. CASE CallStepInPlugin(s, queue, time)
  <2>1. GivenUp(s) = <<>> /\ queue \o GivenUp(s) = queue
    BY <1>1 DEF GivenUp, StepRuns
  <2>2. CASE time = 0 /\ ReplyOrRetry(s, FALSE, queue, time) /\ mPendingSender' = FALSE
    <3>1. time + StartLeft(s)' <= StartLeft(s)
      BY <1>7, <2>2, StartLeftOnlyForStart DEF CallStepInPlugin
    <3> QED
      BY <2>2, <3>1, StepReplies
  <2>3. CASE /\ mRetryData' = None /\ retryDue' = FALSE /\ mPendingSender' = TRUE
             /\ \E ok \in BOOLEAN : posted' = Append(queue, PluginResult(s, ok))
    <3>1. PICK ok \in BOOLEAN : posted' = Append(queue, PluginResult(s, ok))
      BY <2>3
    <3>2. PluginResult(s, ok) \in Posts
      BY DEF PluginResult, Posts, StepRuns
    <3> QED
      BY <2>3, <3>1, <3>2, StepAnswers DEF PluginResult
  <2> QED
    BY <1>7, <2>1, <2>2, <2>3 DEF CallStepInPlugin
<1> QED
  BY <1>2, <1>3, <1>4, <1>5, <1>6, <1>7 DEF RunStep

-----------------------------------------------------------------------------
PidInv == registered \subseteq Pids /\ running \subseteq Pids

LEMMA RunStepKeepsPids ==
    ASSUME NEW s, NEW queue, NEW time, RunStep(s, queue, time), PidInv
    PROVE  PidInv'
  BY DEF RunStep, SelectApp, AttachApp, StartApp, StartNothing, WrongArguments,
         CallStepInPlugin, Unmanaged, PidInv

LEMMA NextPids == PidInv /\ [Next]_vars => PidInv'
<1> SUFFICES ASSUME PidInv, [Next]_vars PROVE PidInv'
  OBVIOUS
<1> USE DEF PidInv
<1>1. ASSUME NEW c \in Connections, HandleRequest(c) PROVE PidInv'
  BY <1>1 DEF HandleRequest, HandleWhilePending, HandleUnknown, HandleImmediate, StartStep,
       ManagerButPosted, manager, BeginScenario, EndScenario
<1>2. ASSUME NEW c \in Connections, Connect(c) \/ ConnectionDisconnect(c) PROVE PidInv'
  BY <1>2 DEF Connect, ConnectionDisconnect, ManagerButPosted, manager
<1>3. ASSUME NEW r, Ask(r) PROVE PidInv'
  BY <1>3 DEF Ask, manager
<1>4. CASE CallPosted
  BY <1>4, RunStepKeepsPids DEF CallPosted
<1>5. CASE ResultPosted \/ ResponsePosted \/ DeletePosted \/ ResponseTimesOut \/ Tick
  BY <1>5 DEF ResultPosted, PluginResultCB, ResponsePosted, DeletePosted, ResponseTimesOut,
       Tick, ManagerButPosted, manager
<1>6. CASE DoRetryTimer
  BY <1>6, RunStepKeepsPids DEF DoRetryTimer
<1>7. CASE Applications
  BY <1>7 DEF Applications, ApplicationStarts, ApplicationRegisters, ApplicationEnds
<1>8. CASE UNCHANGED vars
  BY <1>8 DEF vars
<1> QED
  BY <1>1, <1>2, <1>3, <1>4, <1>5, <1>6, <1>7, <1>8 DEF Next, Posted

LEMMA InitStep == Init => StepInv /\ PidInv
<1> SUFFICES ASSUME Init PROVE StepInv /\ PidInv
  OBVIOUS
<1>1. posted \in Seq(Posts) /\ DOMAIN posted = {}
  BY DEF Init, ManagerInit
<1>2. mRetryData = None /\ ~mPendingSender /\ 0 \in 0..ResponseTimeout
  BY ServerAssumption DEF Init, ManagerInit
<1>3. AnswersItsOwnStep /\ OneTrace /\ CallsAreNew
  BY <1>1, <1>2 DEF AnswersItsOwnStep, OneTrace, CallsAreNew
<1>4. RetriedIsAwaited /\ InTime /\ SenderHasTrace
  BY <1>2 DEF RetriedIsAwaited, InTime, SenderHasTrace
<1> QED
  BY <1>1, <1>2, <1>3, <1>4 DEF Init, ManagerInit, StepInv, PidInv

(* What leaves the steps, the pending response and the table alone.        *)
LEMMA StepUntouched ==
    ASSUME StepInv, UNCHANGED <<posted, mPidMap, mRetryData, retryDue, mPendingSender,
                                mPendingResponse, waiting, responseLeft>>
    PROVE  StepInv'
  BY DEF StepInv, RetriedIsAwaited, AnswersItsOwnStep, OneTrace, InTime, StartLeft,
         CallsAreNew, SenderHasTrace, NoTrace

(* Without a pending response nothing is retried, and mPidMap is free.     *)
LEMMA ScenarioKeeps ==
    ASSUME StepInv, ~mPendingResponse, mPidMap' = [i \in Ids |-> None],
           UNCHANGED <<posted, mRetryData, retryDue, mPendingSender, pending>>
    PROVE  StepInv'
<1>1. mRetryData = None
  BY DEF StepInv
<1> QED
  BY <1>1 DEF StepInv, RetriedIsAwaited, AnswersItsOwnStep, OneTrace, InTime, StartLeft,
         CallsAreNew, SenderHasTrace, NoTrace, pending

(* The only trace leaves the queue.                                        *)
LEMMA TraceTaken ==
    ASSUME StepInv, posted # <<>>, IsTrace(Head(posted)), posted' = Tail(posted),
           mPendingSender' = FALSE, UNCHANGED <<mPidMap, mRetryData, retryDue>>,
           mPendingResponse' \in BOOLEAN, responseLeft' \in 0..ResponseTimeout
    PROVE  StepInv'
<1>1. posted' \in Seq(Posts) /\ NoTrace(posted)' /\ mRetryData = None
  BY TakeTrace DEF NoTrace
<1> QED
  BY <1>1 DEF StepInv, RetriedIsAwaited, AnswersItsOwnStep, OneTrace, InTime,
         CallsAreNew, SenderHasTrace, NoTrace, IsTrace

LEMMA ResponseKept ==
    ASSUME StepInv, CucumberResponse
    PROVE  /\ mPendingResponse' = FALSE
           /\ responseLeft' \in 0..ResponseTimeout
  BY ServerAssumption DEF CucumberResponse, ResetResponseTimeout, StepInv, pending

-----------------------------------------------------------------------------
(* A step that is called, or retried, is run as StepRuns says.             *)
LEMMA CallRuns ==
    ASSUME StepInv, PidInv, CallPosted
    PROVE  \E time \in {0, LaunchTime, SyncTime} :
               /\ StepRuns(Head(posted).step, Tail(posted), time)
               /\ RunStep(Head(posted).step, Tail(posted), time)
<1>1. PICK time \in {0, LaunchTime, SyncTime} :
          RunStep(Head(posted).step, Tail(posted), time) /\ Elapse(time)
  BY DEF CallPosted
<1> DEFINE s == Head(posted).step
<1>2. posted # <<>> /\ Head(posted).what = "step" /\ IsTrace(Head(posted))
  BY DEF CallPosted, IsTrace
<1>3. /\ Tail(posted) \in Seq(Posts) /\ NoTrace(Tail(posted))
      /\ mRetryData = None /\ ~mPendingSender
      /\ mPendingResponse => s = waiting
      /\ s \in Steps
  BY <1>2, TakeTrace DEF Posts
<1>4. mPendingResponse /\ responseLeft = ResponseTimeout
  BY <1>2 DEF StepInv, CallsAreNew
<1>5. mPidMap' \in [Ids -> Pids \cup {None, Empty}]
  BY <1>1, <1>3, PidMapStaysTable DEF StepInv, PidInv
<1>6. StepRuns(s, Tail(posted), time)
  BY <1>1, <1>3, <1>4, <1>5, ManagerAssumption DEF StepRuns, CallPosted
<1> QED
  BY <1>1, <1>6

LEMMA RetryRuns ==
    ASSUME StepInv, PidInv, DoRetryTimer
    PROVE  \E time \in {0, LaunchTime, SyncTime} :
               /\ StepRuns(mRetryData.step, posted, time)
               /\ RunStep(mRetryData.step, posted, time)
<1>1. PICK time \in {0, LaunchTime, SyncTime} :
          RunStep(mRetryData.step, posted, time) /\ Elapse(time)
  BY DEF DoRetryTimer
<1> DEFINE s == mRetryData.step
<1>2. /\ mRetryData # None /\ retryDue /\ s \in Steps
      /\ mPendingResponse /\ s = waiting /\ NoTrace(posted)
  BY DEF DoRetryTimer, StepInv, RetriedIsAwaited, OneTrace
<1>3. ~mPendingSender
  BY <1>2 DEF StepInv, SenderHasTrace, NoTrace, IsTrace
<1>4. mPidMap' \in [Ids -> Pids \cup {None, Empty}]
  BY <1>1, <1>2, PidMapStaysTable DEF StepInv, PidInv
<1>5. StepRuns(s, posted, time)
  BY <1>1, <1>2, <1>3, <1>4, ManagerAssumption DEF StepRuns, DoRetryTimer, StepInv
<1> QED
  BY <1>1, <1>5

LEMMA NextStep == StepInv /\ PidInv /\ [Next]_vars => StepInv'
<1> SUFFICES ASSUME StepInv, PidInv, [Next]_vars PROVE StepInv'
  OBVIOUS
<1>1. ASSUME NEW c \in Connections, HandleRequest(c) PROVE StepInv'
  <2>1. CASE HandleWhilePending(c) \/ HandleUnknown(c)
    BY <2>1, AppendDelete DEF HandleWhilePending, HandleUnknown, Refuse, Closed, ManagerButPosted
  <2>2. CASE HandleImmediate(c)
    BY <2>2, ScenarioKeeps, StepUntouched
    DEF HandleImmediate, BeginScenario, EndScenario, manager, pending
  <2>3. CASE StartStep(c)
    <3> DEFINE e == Call(asked[c])
    <3>1. /\ posted = <<>> /\ ~mPendingResponse /\ mRetryData = None
          /\ asked[c] \in Steps /\ e \in Posts
      BY <2>3, ServerAssumption DEF StartStep, Read, StepInv, Call, Posts
    <3>2. posted' = <<e>> /\ posted' \in Seq(Posts) /\ DOMAIN posted' = {1} /\ posted'[1] = e
      BY <2>3, <3>1 DEF StartStep
    <3>3. ~mPendingSender
      BY <3>1 DEF StepInv, SenderHasTrace
    <3>4. AnswersItsOwnStep' /\ OneTrace' /\ CallsAreNew'
      BY <2>3, <3>1, <3>2
      DEF StartStep, AnswersItsOwnStep, OneTrace, CallsAreNew, ManagerButPosted, Call
    <3> QED
      BY <2>3, <3>1, <3>2, <3>3, <3>4, ServerAssumption
      DEF StartStep, StepInv, ManagerButPosted, RetriedIsAwaited, InTime, SenderHasTrace
  <2> QED
    BY <1>1, <2>1, <2>2, <2>3 DEF HandleRequest
<1>2. ASSUME NEW c \in Connections, Connect(c) PROVE StepInv'
  BY <1>2, StepUntouched DEF Connect, manager, pending
<1>3. ASSUME NEW c \in Connections, ConnectionDisconnect(c) PROVE StepInv'
  BY <1>3, AppendDelete DEF ConnectionDisconnect, Closed, ManagerButPosted
<1>4. ASSUME NEW r, Ask(r) PROVE StepInv'
  BY <1>4, StepUntouched DEF Ask, manager, pending
<1>5. CASE CallPosted
  BY <1>5, CallRuns, RunStepKeeps
<1>6. CASE ResultPosted
  <2>1. responseLeft' \in 0..ResponseTimeout /\ mPendingResponse' \in BOOLEAN
    BY <1>6 DEF ResultPosted, StepInv, pending
  <2>2. posted # <<>> /\ Head(posted).what = "result" /\ IsTrace(Head(posted))
    BY <1>6 DEF ResultPosted, IsTrace
  <2>3. CASE ~mPendingSender
    BY <1>6, <2>1, <2>2, <2>3, TraceTaken DEF ResultPosted, PluginResultCB
  <2>4. CASE mPendingSender
    <3> DEFINE e == Response(Head(posted).step, Head(posted).ok)
    <3>1. /\ Tail(posted) \in Seq(Posts) /\ NoTrace(Tail(posted)) /\ mRetryData = None
          /\ mPendingResponse => Head(posted).step = waiting
          /\ e \in Posts
      BY <2>2, TakeTrace DEF Posts, Response
    <3>2. /\ posted' = Append(Tail(posted), e)
          /\ mPendingSender' = FALSE
          /\ UNCHANGED <<mPidMap, mRetryData, retryDue, mPendingResponse, waiting, responseLeft>>
      BY <1>6, <2>4 DEF ResultPosted, PluginResultCB, pending
    <3>3. /\ posted' \in Seq(Posts)
          /\ \A k \in DOMAIN posted' :
                IsTrace(posted'[k]) => k = Len(Tail(posted)) + 1 /\ posted'[k] = e
      BY <3>1, <3>2, AppendTrace
    <3>4. e.what = "respond" /\ e.step = Head(posted).step
      BY DEF Response
    <3> HIDE DEF e
    <3>5. OneTrace' /\ AnswersItsOwnStep' /\ CallsAreNew'
      BY <3>1, <3>2, <3>3, <3>4 DEF OneTrace, AnswersItsOwnStep, CallsAreNew, IsTrace
    <3> QED
      BY <3>1, <3>2, <3>3, <3>5 DEF StepInv, RetriedIsAwaited, InTime, SenderHasTrace
  <2> QED
    BY <2>3, <2>4 DEF StepInv
<1>7. CASE ResponsePosted
  <2>1. posted # <<>> /\ IsTrace(Head(posted)) /\ Head(posted).what # "result"
    BY <1>7 DEF ResponsePosted, IsTrace
  <2>2. ~mPendingSender
    BY <2>1, TakeTrace
  <2> QED
    BY <1>7, <2>1, <2>2, TraceTaken, ResponseKept
    DEF ResponsePosted, ManagerButPosted, StepInv
<1>8. CASE DeletePosted
  <2>1. posted # <<>> /\ posted' = Tail(posted) /\ Head(posted).what = "delete"
    BY <1>8 DEF DeletePosted
  <2>2. UNCHANGED <<mPidMap, mRetryData, retryDue, mPendingSender, mPendingResponse,
                    waiting, responseLeft>>
    BY <1>8 DEF DeletePosted, ManagerButPosted
  <2>3. /\ posted' \in Seq(Posts)
        /\ \A k \in DOMAIN posted' : k + 1 \in DOMAIN posted /\ posted'[k] = posted[k + 1]
        /\ \A k \in DOMAIN posted : k = 1 \/ (k - 1 \in DOMAIN posted'
                                               /\ posted'[k - 1] = posted[k])
        /\ posted[1].what = "delete"
        /\ DOMAIN posted \subseteq Nat /\ DOMAIN posted' \subseteq Nat
    BY <2>1 DEF StepInv
  <2>4. OneTrace'
    BY <2>2, <2>3 DEF StepInv, OneTrace, NoTrace
  <2>5. AnswersItsOwnStep' /\ CallsAreNew'
    BY <2>2, <2>3 DEF StepInv, AnswersItsOwnStep, CallsAreNew
  <2>6. SenderHasTrace'
    BY <2>2, <2>3 DEF StepInv, SenderHasTrace
  <2> QED
    BY <2>2, <2>3, <2>4, <2>5, <2>6 DEF StepInv, RetriedIsAwaited, InTime, StartLeft
<1>9. CASE ResponseTimesOut
  <2>1. mRetryData = None
    <3>1. responseLeft = 0
      BY <1>9 DEF ResponseTimesOut, TimedOut
    <3>2. ASSUME mRetryData # None PROVE FALSE
      <4>1. mRetryData.left \in 1..Retries /\ StartLeft(mRetryData.step) \in {0, LaunchTime}
        BY <3>2 DEF StepInv, StartLeft
      <4> QED
        BY <3>1, <3>2, <4>1, ManagerAssumption DEF StepInv, InTime
    <3> QED
      BY <3>2
  <2>2. \A k \in DOMAIN posted : posted[k].what # "step"
    BY <1>9, ServerAssumption, ManagerAssumption
    DEF ResponseTimesOut, TimedOut, StepInv, CallsAreNew
  <2>3. UNCHANGED <<posted, mPidMap, mRetryData, retryDue, mPendingSender>>
    BY <1>9 DEF ResponseTimesOut, manager
  <2>4. mPendingResponse' = FALSE /\ responseLeft' \in 0..ResponseTimeout
    BY <1>9, ResponseKept DEF ResponseTimesOut
  <2> QED
    BY <2>1, <2>2, <2>3, <2>4
    DEF StepInv, RetriedIsAwaited, AnswersItsOwnStep, OneTrace, NoTrace, InTime, CallsAreNew,
        SenderHasTrace
<1>10. CASE DoRetryTimer
  BY <1>10, RetryRuns, RunStepKeeps
<1>11. CASE Tick
  <2>1. /\ posted = <<>> /\ ~retryDue /\ Elapse(1) /\ retryDue' = (mRetryData # None)
        /\ UNCHANGED <<mPidMap, mRetryData, mPendingSender, posted, mPendingResponse, waiting>>
    BY <1>11 DEF Tick
  <2>2. responseLeft' \in 0..ResponseTimeout /\ responseLeft' >= responseLeft - 1
    BY <2>1, Elapsed DEF StepInv
  <2>3. InTime'
    <3>1. ASSUME mRetryData # None
          PROVE  responseLeft' >= mRetryData.left + StartLeft(mRetryData.step)
      <4>1. /\ mRetryData.left \in 1..Retries
            /\ StartLeft(mRetryData.step) \in {0, LaunchTime}
        BY <3>1 DEF StepInv, StartLeft
      <4>2. responseLeft >= mRetryData.left + StartLeft(mRetryData.step) + 1
        BY <2>1, <3>1 DEF StepInv, InTime
      <4> QED
        BY <2>2, <4>1, <4>2, ManagerAssumption DEF StepInv
    <3>2. StartLeft(mRetryData.step)' = StartLeft(mRetryData.step)
      BY <2>1 DEF StartLeft
    <3>3. ASSUME mRetryData # None
          PROVE  /\ retryDue'
                 /\ mRetryData.left + StartLeft(mRetryData.step) + 0
                      = mRetryData.left + StartLeft(mRetryData.step)
      <4>1. mRetryData.left \in Nat /\ StartLeft(mRetryData.step) \in Nat
        BY <3>3, ManagerAssumption DEF StepInv, StartLeft
      <4>2. retryDue'
        BY <2>1, <3>3, Zenon
      <4> QED
        BY <4>1, <4>2
    <3> QED
      BY <2>1, <3>1, <3>2, <3>3 DEF InTime
  <2> QED
    BY <2>1, <2>2, <2>3
    DEF StepInv, RetriedIsAwaited, AnswersItsOwnStep, OneTrace, NoTrace, CallsAreNew,
        SenderHasTrace
<1>12. CASE Applications /\ UNCHANGED <<wire, pending, scenario, client>>
  BY <1>12, StepUntouched DEF Applications, pending
<1>13. CASE UNCHANGED vars
  BY <1>13, StepUntouched DEF vars
<1> QED
  BY <1>1, <1>2, <1>3, <1>4, <1>5, <1>6, <1>7, <1>8, <1>9, <1>10, <1>11, <1>12, <1>13
  DEF Next, Posted

-----------------------------------------------------------------------------
(* The connections: their requests are read once each, and the device of   *)
(* one is deleted once, when it has ended.                                 *)
WireTypes ==
    /\ connection \in [Connections -> {"none", "open", "closed"}]
    /\ asked \in [Connections -> Immediate \cup Invoked \cup {None}]
    /\ unread \in Seq(Connections)
    /\ mPendingConnection \in Connections \cup {None}
    /\ waiting \in Invoked \cup {None}
    /\ mPendingResponse <=> waiting # None
    /\ scenario \in BOOLEAN
    /\ cucumber \in Connections \cup {None}
    /\ begun \in BOOLEAN

Once == \A j, k \in DOMAIN unread : unread[j] = unread[k] => j = k

UnreadFits ==
    \A c \in Range(unread) : asked[c] # None /\ mPendingConnection # c

AskedIsOpen == \A c \in Connections : asked[c] # None => connection[c] = "open"

(* Who asked is remembered until the device is deleted.                    *)
PendingFits ==
    mPendingConnection # None =>
        /\ mPendingResponse
        /\ connection[mPendingConnection] # "none"
        /\ connection[mPendingConnection] = "open" => asked[mPendingConnection] # None

DevicesFit ==
    /\ \A k \in DOMAIN posted :
          posted[k].what = "delete" => connection[posted[k].connection] = "closed"
    /\ \A j, k \in DOMAIN posted :
          (/\ posted[j].what = "delete" /\ posted[k].what = "delete"
           /\ posted[j].connection = posted[k].connection) => j = k

WireInv ==
    /\ WireTypes /\ Once /\ UnreadFits /\ AskedIsOpen /\ PendingFits /\ DevicesFit
    /\ NoneForgotten

(* What is read, or given up, was there once.                              *)
Leaves(c) ==
    /\ unread' \in Seq(Connections) /\ Once'
    /\ \A d : d \in Range(unread)' <=> d \in Range(unread) /\ d # c

LEMMA UnaskedLeaves ==
    ASSUME WireInv, NEW c, Unasked(c)
    PROVE  Leaves(c)
<1>1. unread \in Seq(Connections) /\ Once
  BY DEF WireInv, WireTypes
<1>2. CASE c \notin Range(unread)
  <2>1. unread' = unread
    BY <1>2 DEF Unasked
  <2> QED
    BY <1>1, <1>2, <2>1 DEF Leaves, Once
<1>3. CASE c \in Range(unread)
  <2>1. PICK k \in DOMAIN unread :
            /\ unread[k] = c
            /\ unread' = SubSeq(unread, 1, k - 1) \o SubSeq(unread, k + 1, Len(unread))
    BY <1>3 DEF Unasked
  <2>2. Len(unread) \in Nat /\ k \in 1..Len(unread) /\ DOMAIN unread = 1..Len(unread)
    BY <1>1
  <2>3. /\ unread' \in Seq(Connections)
        /\ Len(unread') = Len(unread) - 1
        /\ \A j \in 1..(Len(unread) - 1) : unread'[j] = unread[IF j < k THEN j ELSE j + 1]
    <3> DEFINE before == SubSeq(unread, 1, k - 1)
               after == SubSeq(unread, k + 1, Len(unread))
    <3>1. /\ before \in Seq(Connections) /\ Len(before) = k - 1
          /\ \A j \in 1..(k - 1) : before[j] = unread[j]
      BY <1>1, <2>2
    <3>2. /\ after \in Seq(Connections) /\ Len(after) = Len(unread) - k
          /\ \A j \in 1..(Len(unread) - k) : after[j] = unread[k + j]
      BY <1>1, <2>2
    <3>3. unread' = before \o after
      BY <2>1
    <3> HIDE DEF before, after
    <3>4. unread' \in Seq(Connections) /\ Len(unread') = Len(unread) - 1
      <4>1. \A a, b \in Seq(Connections) :
                a \o b \in Seq(Connections) /\ Len(a \o b) = Len(a) + Len(b)
        OBVIOUS
      <4>2. unread' \in Seq(Connections) /\ Len(unread') = Len(before) + Len(after)
        BY ONLY <3>1, <3>2, <3>3, <4>1
      <4> QED
        BY <2>2, <3>1, <3>2, <4>2
    <3>5. ASSUME NEW j \in 1..(Len(unread) - 1)
          PROVE  unread'[j] = unread[IF j < k THEN j ELSE j + 1]
      <4>1. CASE j < k
        BY <2>2, <3>1, <3>2, <3>3, <4>1
      <4>2. CASE ~(j < k)
        <5>1. unread'[j] = after[j - Len(before)]
          BY <2>2, <3>1, <3>2, <3>3, <4>2
        <5>2. j - Len(before) \in 1..(Len(unread) - k) /\ k + (j - Len(before)) = j + 1
          BY <2>2, <3>1, <4>2
        <5> QED
          BY <3>2, <4>2, <5>1, <5>2
      <4> QED
        BY <4>1, <4>2
    <3> QED
      BY <3>4, <3>5
  <2>4. DOMAIN unread' = 1..(Len(unread) - 1)
    BY <2>3
  <2>5. Once'
    <3> SUFFICES ASSUME NEW i \in DOMAIN unread', NEW j \in DOMAIN unread', unread'[i] = unread'[j]
                 PROVE  i = j
      BY DEF Once
    <3> DEFINE from(n) == IF n < k THEN n ELSE n + 1
    <3>1. /\ from(i) \in DOMAIN unread /\ from(j) \in DOMAIN unread
          /\ from(i) = from(j) => i = j
      BY <2>2, <2>4
    <3>2. unread[from(i)] = unread[from(j)]
      BY <2>3, <2>4
    <3> HIDE DEF from
    <3> QED
      BY <1>1, <3>1, <3>2 DEF Once
  <2>6. ASSUME NEW d \in Range(unread)' PROVE d \in Range(unread) /\ d # c
    <3>1. PICK j \in DOMAIN unread' : unread'[j] = d
      BY <2>6 DEF Range
    <3>2. PICK i \in DOMAIN unread : i # k /\ d = unread[i]
      BY <2>2, <2>3, <2>4, <3>1
    <3> QED
      BY <1>1, <2>1, <3>2 DEF Range, Once
  <2>7. ASSUME NEW d \in Range(unread), d # c PROVE d \in Range(unread)'
    <3>1. PICK i \in DOMAIN unread : i # k /\ d = unread[i]
      BY <2>1, <2>7 DEF Range
    <3>2. CASE i < k
      BY <2>2, <2>3, <2>4, <3>1, <3>2 DEF Range
    <3>3. CASE i > k
      <4>1. i - 1 \in DOMAIN unread' /\ unread'[i - 1] = d
        BY <2>2, <2>3, <2>4, <3>1, <3>3
      <4> QED
        BY <4>1 DEF Range
    <3> QED
      BY <2>2, <3>1, <3>2, <3>3
  <2> QED
    BY <2>3, <2>5, <2>6, <2>7 DEF Leaves
<1> QED
  BY <1>2, <1>3

LEMMA ReadLeaves ==
    ASSUME WireInv, NEW c, Read(c), unread' = Tail(unread)
    PROVE  c \in Range(unread) /\ c \in Connections /\ Leaves(c)
<1>1. unread \in Seq(Connections) /\ Once /\ unread # <<>>
  BY DEF WireInv, WireTypes, Read
<1>2. /\ Len(unread) \in Nat /\ Len(unread) > 0 /\ DOMAIN unread = 1..Len(unread)
      /\ c = unread[1]
      /\ unread' \in Seq(Connections) /\ DOMAIN unread' = 1..(Len(unread) - 1)
      /\ \A j \in DOMAIN unread' : unread'[j] = unread[j + 1]
  BY <1>1 DEF Read
<1>3. c \in Range(unread) /\ c \in Connections
  BY <1>1, <1>2 DEF Range
<1>4. Once'
  BY <1>1, <1>2 DEF Once
<1>5. ASSUME NEW d \in Range(unread)' PROVE d \in Range(unread) /\ d # c
  <2>1. PICK j \in DOMAIN unread' : unread'[j] = d
    BY <1>5 DEF Range
  <2>2. j + 1 \in DOMAIN unread /\ unread[j + 1] = d /\ j + 1 # 1 /\ 1 \in DOMAIN unread
    BY <1>2, <2>1
  <2> QED
    BY <1>1, <1>2, <2>2 DEF Range, Once
<1>6. ASSUME NEW d \in Range(unread), d # c PROVE d \in Range(unread)'
  <2>1. PICK i \in DOMAIN unread : i # 1 /\ d = unread[i]
    BY <1>2, <1>6 DEF Range
  <2>2. i - 1 \in DOMAIN unread' /\ unread'[i - 1] = d
    BY <1>2, <2>1
  <2> QED
    BY <2>2 DEF Range
<1> QED
  BY <1>2, <1>3, <1>4, <1>5, <1>6 DEF Leaves


(* A connection ends: all that it has asked is forgotten, and its device   *)
(* is deleted once.                                                        *)
LEMMA ClosedKeeps ==
    ASSUME StepInv, WireInv, NEW c \in Connections, connection[c] = "open", Closed(c),
           UNCHANGED <<pending, scenario, client>>
    PROVE  WireInv'
<1>1. /\ WireTypes /\ Once /\ UnreadFits /\ AskedIsOpen /\ PendingFits /\ DevicesFit
      /\ NoneForgotten
  BY DEF WireInv
<1>2. Leaves(c)
  BY UnaskedLeaves DEF Closed
<1>3. /\ connection' \in [Connections -> {"none", "open", "closed"}]
      /\ asked' \in [Connections -> Immediate \cup Invoked \cup {None}]
      /\ connection'[c] = "closed" /\ asked'[c] = None
      /\ \A d \in Connections \ {c} : connection'[d] = connection[d] /\ asked'[d] = asked[d]
  BY <1>1 DEF Closed, WireTypes
<1>4. WireTypes'
  BY <1>1, <1>2, <1>3 DEF WireTypes, Leaves, pending, client
<1>5. UnreadFits'
  <2>1. \A d \in Range(unread) : d \in Connections
    BY <1>1 DEF WireTypes, Range
  <2> QED
    BY <1>1, <1>2, <1>3, <2>1 DEF UnreadFits, Leaves, pending
<1>6. AskedIsOpen' /\ NoneForgotten'
  BY <1>1, <1>2, <1>3 DEF AskedIsOpen, NoneForgotten, Leaves, pending
<1>7. PendingFits'
  BY <1>1, <1>3 DEF PendingFits, WireTypes, pending
<1>8. DevicesFit'
  <2> DEFINE e == [what |-> "delete", connection |-> c]
  <2>1. /\ DOMAIN posted' = 1..(Len(posted) + 1) /\ Len(posted) \in Nat
        /\ DOMAIN posted = 1..Len(posted)
        /\ posted'[Len(posted) + 1] = e
        /\ \A k \in DOMAIN posted : posted'[k] = posted[k]
        /\ \A k \in DOMAIN posted : posted[k] \in Posts
    BY DEF Closed, StepInv
  <2>2. \A k \in DOMAIN posted' : k # Len(posted) + 1 => k \in DOMAIN posted
    BY <2>1
  <2>3. \A k \in DOMAIN posted : posted[k].what = "delete" => /\ posted[k].connection # c
                                                              /\ posted[k].connection \in Connections
    BY <1>1, <2>1 DEF DevicesFit, Posts
  <2>4. e.what = "delete" /\ e.connection = c
    OBVIOUS
  <2> HIDE DEF e
  <2>5. \A k \in DOMAIN posted' :
            posted'[k].what = "delete" => connection'[posted'[k].connection] = "closed"
    BY <1>1, <1>3, <2>1, <2>2, <2>3, <2>4 DEF DevicesFit
  <2>6. ASSUME NEW j \in DOMAIN posted', NEW k \in DOMAIN posted',
               posted'[j].what = "delete", posted'[k].what = "delete",
               posted'[j].connection = posted'[k].connection
        PROVE  j = k
    BY <1>1, <2>1, <2>2, <2>3, <2>4, <2>6 DEF DevicesFit
  <2> QED
    BY <2>5, <2>6 DEF DevicesFit
<1> QED
  BY <1>2, <1>4, <1>5, <1>6, <1>7, <1>8 DEF WireInv, Leaves

(* What is read and answered.                                              *)
LEMMA AnsweredKeeps ==
    ASSUME WireInv, NEW c, Read(c), unread' = Tail(unread), WriteResponse(c),
           scenario' \in BOOLEAN, begun' \in BOOLEAN,
           UNCHANGED <<connection, pending, cucumber, posted>>
    PROVE  WireInv'
<1>1. /\ WireTypes /\ Once /\ UnreadFits /\ AskedIsOpen /\ PendingFits /\ DevicesFit
      /\ NoneForgotten
  BY DEF WireInv
<1>2. c \in Range(unread) /\ c \in Connections /\ Leaves(c)
  BY ReadLeaves
<1>3. connection[c] = "open" /\ mPendingConnection # c
  BY <1>1, <1>2 DEF UnreadFits, AskedIsOpen
<1>4. /\ asked' \in [Connections -> Immediate \cup Invoked \cup {None}] /\ asked'[c] = None
      /\ \A d \in Connections \ {c} : asked'[d] = asked[d]
  BY <1>1, <1>2, <1>3 DEF WriteResponse, WireTypes
<1>5. WireTypes'
  BY <1>1, <1>2, <1>4 DEF WireTypes, Leaves, pending
<1>6. UnreadFits'
  BY <1>1, <1>2, <1>4 DEF UnreadFits, Leaves, pending, WireTypes, Range
<1>7. AskedIsOpen' /\ NoneForgotten'
  BY <1>1, <1>2, <1>4 DEF AskedIsOpen, NoneForgotten, Leaves, pending
<1>8. PendingFits'
  BY <1>1, <1>3, <1>4 DEF PendingFits, WireTypes, pending
<1>9. DevicesFit'
  BY <1>1 DEF DevicesFit
<1> QED
  BY <1>2, <1>5, <1>6, <1>7, <1>8, <1>9 DEF WireInv, Leaves

(* A step is called, for the connection that asked for it.                 *)
LEMMA StartStepKeeps ==
    ASSUME StepInv, WireInv, NEW c, StartStep(c)
    PROVE  WireInv'
<1>1. /\ WireTypes /\ Once /\ UnreadFits /\ AskedIsOpen /\ PendingFits /\ DevicesFit
      /\ NoneForgotten
  BY DEF WireInv
<1>2. c \in Range(unread) /\ c \in Connections /\ Leaves(c)
  BY ReadLeaves DEF StartStep
<1>3. asked[c] # None /\ connection[c] = "open"
  BY <1>1, <1>2 DEF UnreadFits, AskedIsOpen
<1>4. mPendingConnection = None
  BY <1>1 DEF PendingFits, StartStep
<1>5. WireTypes'
  BY <1>1, <1>2, <1>3 DEF WireTypes, Leaves, StartStep, client
<1>6. UnreadFits'
  BY <1>1, <1>2 DEF UnreadFits, Leaves, StartStep
<1>7. AskedIsOpen' /\ NoneForgotten'
  BY <1>1, <1>2, <1>4, ServerAssumption DEF AskedIsOpen, NoneForgotten, Leaves, StartStep
<1>8. PendingFits'
  BY <1>3 DEF PendingFits, StartStep
<1>9. DevicesFit'
  <2>1. posted = <<>> /\ posted' = <<Call(asked[c])>>
    BY DEF StartStep, Read
  <2>2. DOMAIN posted' = {1} /\ posted'[1].what = "step"
    BY <2>1 DEF Call
  <2> QED
    BY <2>2 DEF DevicesFit
<1> QED
  BY <1>2, <1>5, <1>6, <1>7, <1>8, <1>9 DEF WireInv, Leaves

LEMMA ConnectKeeps ==
    ASSUME WireInv, NEW c \in Connections, Connect(c)
    PROVE  WireInv'
<1>1. /\ WireTypes /\ Once /\ UnreadFits /\ AskedIsOpen /\ PendingFits /\ DevicesFit
      /\ NoneForgotten
  BY DEF WireInv
<1>2. /\ connection' \in [Connections -> {"none", "open", "closed"}] /\ connection[c] = "none"
      /\ connection'[c] = "open"
      /\ \A d \in Connections \ {c} : connection'[d] = connection[d]
  BY <1>1 DEF Connect, WireTypes
<1>3. /\ UNCHANGED <<asked, unread, scenario, posted>> /\ UNCHANGED pending
      /\ cucumber' = c /\ begun' = FALSE
  BY DEF Connect, manager, pending
<1>4. WireTypes'
  <2>1. cucumber' \in Connections \cup {None} /\ begun' \in BOOLEAN
    BY <1>3
  <2> QED
    BY <1>1, <1>2, <1>3, <2>1 DEF WireTypes, pending
<1>5. Once' /\ UnreadFits' /\ AskedIsOpen' /\ NoneForgotten'
  BY <1>1, <1>2, <1>3 DEF Once, UnreadFits, AskedIsOpen, NoneForgotten, pending
<1>6. PendingFits'
  BY <1>1, <1>2, <1>3 DEF PendingFits, WireTypes, pending
<1>7. DevicesFit'
  <2>1. ASSUME NEW k \in DOMAIN posted, posted[k].what = "delete"
        PROVE  connection'[posted[k].connection] = "closed"
    <3>1. connection[posted[k].connection] = "closed"
      BY <1>1, <2>1 DEF DevicesFit
    <3> QED
      BY <1>2, <3>1 DEF Connect
  <2> QED
    BY <1>1, <1>3, <2>1 DEF DevicesFit
<1> QED
  BY <1>4, <1>5, <1>6, <1>7 DEF WireInv

LEMMA AskKeeps ==
    ASSUME WireInv, NEW r \in Immediate \cup Invoked, Ask(r)
    PROVE  WireInv'
<1> DEFINE c == cucumber
<1>1. /\ WireTypes /\ Once /\ UnreadFits /\ AskedIsOpen /\ PendingFits /\ DevicesFit
      /\ NoneForgotten
  BY DEF WireInv
<1>2. /\ c \in Connections /\ connection[c] = "open" /\ asked[c] = None /\ r # None
      /\ c \notin Range(unread) /\ mPendingConnection # c
  BY <1>1, ServerAssumption DEF Ask, WireTypes, UnreadFits, PendingFits
<1>3. /\ asked' \in [Connections -> Immediate \cup Invoked \cup {None}] /\ asked'[c] = r
      /\ \A d \in Connections \ {c} : asked'[d] = asked[d]
  BY <1>1, <1>2 DEF WireTypes, Ask
<1>4. UNCHANGED <<connection, cucumber, scenario, posted>> /\ UNCHANGED pending
  BY DEF Ask, manager, pending
<1>5. /\ unread' \in Seq(Connections) /\ DOMAIN unread' = 1..(Len(unread) + 1)
      /\ Len(unread) \in Nat /\ DOMAIN unread = 1..Len(unread)
      /\ unread'[Len(unread) + 1] = c
      /\ \A k \in DOMAIN unread : unread'[k] = unread[k]
  BY <1>1, <1>2 DEF WireTypes, Ask
<1>6. \A k \in DOMAIN unread : unread[k] # c
  BY <1>2 DEF Range
<1> HIDE DEF c
<1>7. Once'
  BY <1>1, <1>5, <1>6 DEF Once
<1>8. \A d : d \in Range(unread)' <=> d \in Range(unread) \/ d = c
  <2>1. ASSUME NEW d \in Range(unread)' PROVE d \in Range(unread) \/ d = c
    <3>1. PICK k \in DOMAIN unread' : unread'[k] = d
      BY <2>1 DEF Range
    <3>2. k \in DOMAIN unread \/ k = Len(unread) + 1
      BY <1>5, <3>1
    <3> QED
      BY <1>5, <3>1, <3>2 DEF Range
  <2>2. ASSUME NEW d \in Range(unread) PROVE d \in Range(unread)'
    <3>1. PICK k \in DOMAIN unread : unread[k] = d
      BY <2>2 DEF Range
    <3>2. k \in DOMAIN unread' /\ unread'[k] = d
      BY <1>5, <3>1
    <3> QED
      BY <3>2 DEF Range
  <2>3. c \in Range(unread)'
    <3>1. Len(unread) + 1 \in DOMAIN unread'
      BY <1>5
    <3> QED
      BY <1>5, <3>1 DEF Range
  <2> QED
    BY <2>1, <2>2, <2>3
<1>9. WireTypes'
  BY <1>1, <1>3, <1>4, <1>5 DEF WireTypes, Ask, pending
<1>10. UnreadFits'
  <2>1. \A d \in Range(unread) : d \in Connections
    BY <1>1 DEF WireTypes, Range
  <2> QED
    BY <1>1, <1>2, <1>3, <1>4, <1>8, <2>1 DEF UnreadFits, pending
<1>11. AskedIsOpen' /\ NoneForgotten'
  BY <1>1, <1>2, <1>3, <1>4, <1>8 DEF AskedIsOpen, NoneForgotten, pending
<1>12. PendingFits'
  BY <1>1, <1>2, <1>3, <1>4 DEF PendingFits, WireTypes, pending
<1>13. DevicesFit'
  BY <1>1, <1>4 DEF DevicesFit
<1> QED
  BY <1>7, <1>9, <1>10, <1>11, <1>12, <1>13 DEF WireInv

(* The answer goes to the connection that asked for the step.              *)
LEMMA CucumberResponseKeeps ==
    ASSUME WireInv, CucumberResponse, DevicesFit', UNCHANGED <<connection, unread, scenario, client>>
    PROVE  WireInv'
<1>1. /\ WireTypes /\ Once /\ UnreadFits /\ AskedIsOpen /\ PendingFits /\ NoneForgotten
  BY DEF WireInv
<1>2. CASE ~mPendingResponse
  BY <1>1, <1>2
  DEF WireInv, WireTypes, Once, UnreadFits, AskedIsOpen, PendingFits, NoneForgotten,
      CucumberResponse, pending, client
<1>3. CASE mPendingResponse
  <2> DEFINE c == mPendingConnection
  <2>1. /\ mPendingResponse' = FALSE /\ mPendingConnection' = None /\ waiting' = None
        /\ c \notin Range(unread)
    BY <1>1, <1>3 DEF CucumberResponse, ResetResponseTimeout, UnreadFits
  <2>2. /\ asked' \in [Connections -> Immediate \cup Invoked \cup {None}]
        /\ c # None => c \in Connections /\ asked'[c] = None
        /\ \A d \in Connections \ {c} : asked'[d] = asked[d]
    <3>1. CASE c = None
      BY <1>1, <1>3, <3>1 DEF CucumberResponse, WireTypes
    <3>2. CASE c # None /\ connection[c] = "open"
      BY <1>1, <1>3, <3>2 DEF CucumberResponse, WireTypes, WriteResponse
    <3>3. CASE c # None /\ connection[c] # "open"
      <4>1. c \in Connections /\ asked' = asked
        BY <1>1, <1>3, <3>3 DEF CucumberResponse, WireTypes, WriteResponse
      <4>2. asked[c] = None
        BY <1>1, <3>3, <4>1 DEF AskedIsOpen
      <4> QED
        BY <1>1, <4>1, <4>2 DEF WireTypes
    <3> QED
      BY <3>1, <3>2, <3>3
  <2>3. WireTypes'
    BY <1>1, <2>1, <2>2 DEF WireTypes, client
  <2>4. Once' /\ PendingFits'
    BY <1>1, <2>1 DEF Once, PendingFits
  <2>5. UnreadFits'
    <3>1. \A d \in Range(unread) : d \in Connections
      BY <1>1 DEF WireTypes, Range
    <3>2. None \notin Connections
      BY ServerAssumption
    <3> QED
      BY <1>1, <2>1, <2>2, <3>1, <3>2 DEF UnreadFits
  <2>6. ASSUME NEW d \in Connections, asked'[d] # None
        PROVE  connection'[d] = "open" /\ d \in Range(unread)'
    <3>1. d # c /\ asked[d] # None
      BY <2>2, <2>6, ServerAssumption
    <3> QED
      BY <1>1, <3>1 DEF AskedIsOpen, NoneForgotten
  <2> QED
    BY <2>3, <2>4, <2>5, <2>6 DEF WireInv, AskedIsOpen, NoneForgotten
<1> QED
  BY <1>2, <1>3 DEF WireInv, WireTypes

-----------------------------------------------------------------------------
(* What is taken from the queue, and what is put there.                    *)
LEMMA DevicesTaken ==
    ASSUME posted \in Seq(Posts), DevicesFit, posted # <<>>, posted' = Tail(posted),
           connection' = connection
    PROVE  DevicesFit'
<1>1. /\ DOMAIN posted' \subseteq Nat /\ DOMAIN posted \subseteq Nat
      /\ \A k \in DOMAIN posted' : k + 1 \in DOMAIN posted /\ posted'[k] = posted[k + 1]
  OBVIOUS
<1>2. \A j, k \in DOMAIN posted' : j + 1 = k + 1 => j = k
  BY <1>1
<1> QED
  BY <1>1, <1>2 DEF DevicesFit

(* A call that a step leaves in the queue is no device.                    *)
LEMMA DevicesAppend ==
    ASSUME NEW q \in Seq(Posts), NEW e, e.what # "delete", posted' = Append(q, e),
           \A k \in DOMAIN q : q[k].what = "delete" => connection[q[k].connection] = "closed",
           \A j, k \in DOMAIN q : (/\ q[j].what = "delete" /\ q[k].what = "delete"
                                   /\ q[j].connection = q[k].connection) => j = k,
           connection' = connection
    PROVE  DevicesFit'
<1>1. /\ DOMAIN q = 1..Len(q) /\ Len(q) \in Nat /\ DOMAIN posted' = 1..(Len(q) + 1)
      /\ posted'[Len(q) + 1] = e
      /\ \A k \in DOMAIN q : posted'[k] = q[k]
  OBVIOUS
<1>2. \A k \in DOMAIN posted' : posted'[k].what = "delete" => k \in DOMAIN q
  BY <1>1
<1> QED
  BY <1>1, <1>2 DEF DevicesFit

LEMMA DevicesMoved ==
    ASSUME posted \in Seq(Posts), DevicesFit, posted # <<>>, NEW e, e.what # "delete",
           posted' = Append(Tail(posted), e), connection' = connection
    PROVE  DevicesFit'
<1> DEFINE q == Tail(posted)
<1>1. /\ q \in Seq(Posts) /\ DOMAIN q \subseteq Nat
      /\ \A k \in DOMAIN q : k + 1 \in DOMAIN posted /\ q[k] = posted[k + 1]
  OBVIOUS
<1>2. \A j, k \in DOMAIN q : j + 1 = k + 1 => j = k
  BY <1>1
<1> HIDE DEF q
<1>3. /\ \A k \in DOMAIN q : q[k].what = "delete" => connection[q[k].connection] = "closed"
      /\ \A j, k \in DOMAIN q : (/\ q[j].what = "delete" /\ q[k].what = "delete"
                                 /\ q[j].connection = q[k].connection) => j = k
  BY <1>1, <1>2 DEF DevicesFit
<1> QED
  BY <1>1, <1>3, DevicesAppend DEF q

(* The device of a connection is deleted: it can be used again.            *)
LEMMA DeleteKeeps ==
    ASSUME StepInv, WireInv, DeletePosted
    PROVE  WireInv'
<1> DEFINE c == Head(posted).connection
<1>1. /\ WireTypes /\ Once /\ UnreadFits /\ AskedIsOpen /\ PendingFits /\ DevicesFit
      /\ NoneForgotten
  BY DEF WireInv
<1>2. /\ posted \in Seq(Posts) /\ posted # <<>> /\ posted' = Tail(posted)
      /\ Head(posted).what = "delete"
  BY DEF StepInv, DeletePosted
<1>3. /\ Head(posted) = posted[1] /\ 1 \in DOMAIN posted /\ posted[1] \in Posts
      /\ DOMAIN posted' \subseteq Nat
      /\ \A k \in DOMAIN posted' : /\ k + 1 \in DOMAIN posted /\ posted'[k] = posted[k + 1]
                                   /\ k + 1 # 1
      /\ \A j, k \in DOMAIN posted' : j + 1 = k + 1 => j = k
  BY <1>2
<1>4. c \in Connections /\ connection[c] = "closed"
  BY <1>1, <1>2, <1>3 DEF Posts, DevicesFit
<1>5. \A k \in DOMAIN posted' : posted'[k].what = "delete" => posted'[k].connection # c
  BY <1>1, <1>2, <1>3 DEF DevicesFit
<1>6. /\ UNCHANGED <<asked, unread, mPendingResponse, waiting, scenario, client>>
      /\ connection' = [connection EXCEPT ![c] = "none"]
      /\ mPendingConnection' = IF mPendingConnection = c THEN None ELSE mPendingConnection
  BY DEF DeletePosted
<1> HIDE DEF c
<1>7. /\ connection' \in [Connections -> {"none", "open", "closed"}] /\ connection'[c] = "none"
      /\ \A d : d # c => connection'[d] = connection[d]
  BY <1>1, <1>4, <1>6 DEF WireTypes
<1>8. asked[c] = None
  BY <1>1, <1>4 DEF AskedIsOpen
<1>9. WireTypes'
  BY <1>1, <1>6, <1>7 DEF WireTypes, client
<1>10. UnreadFits'
  <2>1. None \notin Range(unread)
    BY <1>1, ServerAssumption DEF WireTypes, Range
  <2> QED
    BY <1>1, <1>6, <2>1 DEF UnreadFits
<1>11. AskedIsOpen' /\ NoneForgotten'
  BY <1>1, <1>6, <1>7, <1>8 DEF AskedIsOpen, NoneForgotten
<1>12. PendingFits'
  BY <1>1, <1>6, <1>7 DEF PendingFits
<1>13. DevicesFit'
  BY <1>1, <1>3, <1>5, <1>7 DEF DevicesFit
<1> QED
  BY <1>1, <1>6, <1>9, <1>10, <1>11, <1>12, <1>13 DEF WireInv, Once

(* A step that is run leaves one call behind the queue at most.            *)
LEMMA RunStepPosts ==
    ASSUME NEW s, NEW queue, NEW time, StepRuns(s, queue, time), RunStep(s, queue, time)
    PROVE  posted' = queue \/ \E e : e.what # "delete" /\ posted' = Append(queue, e)
<1>1. /\ Cancelled(s) = <<>> /\ queue \o Cancelled(s) = queue
      /\ GivenUp(s) = <<>> /\ queue \o GivenUp(s) = queue
  BY DEF StepRuns, Cancelled, GivenUp
<1>2. \A ok : Response(s, ok).what # "delete" /\ PluginResult(s, ok).what # "delete"
  BY DEF Response, PluginResult
<1>3. ASSUME NEW ok, InvokePlainSender(s, ok, queue)
      PROVE  \E e : e.what # "delete" /\ posted' = Append(queue, e)
  BY <1>2, <1>3 DEF InvokePlainSender
<1>4. ASSUME NEW ok, ReplyOrRetry(s, ok, queue, time)
      PROVE  posted' = queue \/ \E e : e.what # "delete" /\ posted' = Append(queue, e)
  <2>1. \/ InvokePlainSender(s, ok, queue \o Cancelled(s))
        \/ posted' = queue \o Cancelled(s)
    BY <1>4, Zenon DEF ReplyOrRetry
  <2> QED
    BY <1>1, <1>3, <2>1
<1>5. CASE SelectApp(s, queue, time) \/ AttachApp(s, queue, time)
  BY <1>3, <1>4, <1>5 DEF SelectApp, AttachApp
<1>6. CASE StartApp(s, queue, time) \/ StartNothing(s, queue, time) \/ WrongArguments(s, queue, time)
  <2>1. (\E ok : ReplyOrRetry(s, ok, queue, time)) \/ (\E ok : InvokePlainSender(s, ok, queue))
    BY <1>6, Zenon DEF StartApp, StartNothing, WrongArguments
  <2> QED
    BY <1>3, <1>4, <2>1
<1>7. CASE CallStepInPlugin(s, queue, time)
  <2>1. \/ ReplyOrRetry(s, FALSE, queue \o GivenUp(s), time)
        \/ \E ok : posted' = Append(queue \o GivenUp(s), PluginResult(s, ok))
    BY <1>7, Zenon DEF CallStepInPlugin
  <2> QED
    BY <1>1, <1>2, <1>4, <2>1
<1> QED
  BY <1>5, <1>6, <1>7 DEF RunStep

(* Nothing of the wire changes but what the queue has.                     *)
LEMMA WireUntouched ==
    ASSUME WireInv, DevicesFit', UNCHANGED <<wire, scenario, client>>,
           UNCHANGED <<mPendingResponse, mPendingConnection, waiting>>
    PROVE  WireInv'
  BY DEF WireInv, WireTypes, Once, UnreadFits, AskedIsOpen, PendingFits, NoneForgotten,
         wire, client

LEMMA NextWire == StepInv /\ PidInv /\ WireInv /\ [Next]_vars => WireInv'
<1> SUFFICES ASSUME StepInv, PidInv, WireInv, [Next]_vars PROVE WireInv'
  OBVIOUS
<1>1. DevicesFit /\ posted \in Seq(Posts)
  BY DEF WireInv, StepInv
<1>2. ASSUME NEW c \in Connections, HandleRequest(c) PROVE WireInv'
  <2>1. ASSUME Read(c) PROVE connection[c] = "open"
    <3>1. c \in Range(unread)
      BY <2>1 DEF Read, WireInv, WireTypes, Range
    <3> QED
      BY <3>1 DEF WireInv, UnreadFits, AskedIsOpen
  <2>2. CASE HandleWhilePending(c) \/ HandleUnknown(c)
    BY <2>1, <2>2, ClosedKeeps DEF HandleWhilePending, HandleUnknown, Refuse
  <2>3. CASE HandleImmediate(c)
    <3>1. scenario' \in BOOLEAN /\ begun' \in BOOLEAN /\ posted' = posted
      BY <2>3 DEF HandleImmediate, WireInv, WireTypes, BeginScenario, EndScenario, manager
    <3> QED
      BY <2>3, <3>1, AnsweredKeeps DEF HandleImmediate
  <2>4. CASE StartStep(c)
    BY <2>4, StartStepKeeps
  <2> QED
    BY <1>2, <2>2, <2>3, <2>4 DEF HandleRequest
<1>3. ASSUME NEW c \in Connections, Connect(c) PROVE WireInv'
  BY <1>3, ConnectKeeps
<1>4. ASSUME NEW c \in Connections, ConnectionDisconnect(c) PROVE WireInv'
  BY <1>4, ClosedKeeps DEF ConnectionDisconnect
<1>5. ASSUME NEW r \in Immediate \cup Invoked, Ask(r) PROVE WireInv'
  BY <1>5, AskKeeps
<1>6. CASE CallPosted
  <2>1. PICK time \in {0, LaunchTime, SyncTime} :
            StepRuns(Head(posted).step, Tail(posted), time)
            /\ RunStep(Head(posted).step, Tail(posted), time)
    BY <1>6, CallRuns
  <2> DEFINE q == Tail(posted)
  <2>2. /\ q \in Seq(Posts)
        /\ \A k \in DOMAIN q : q[k].what = "delete" => connection[q[k].connection] = "closed"
        /\ \A j, k \in DOMAIN q : (/\ q[j].what = "delete" /\ q[k].what = "delete"
                                   /\ q[j].connection = q[k].connection) => j = k
    <3>1. /\ q \in Seq(Posts) /\ DOMAIN q \subseteq Nat
          /\ \A k \in DOMAIN q : k + 1 \in DOMAIN posted /\ q[k] = posted[k + 1]
      BY <1>1, <1>6 DEF CallPosted
    <3>2. \A j, k \in DOMAIN q : j + 1 = k + 1 => j = k
      BY <3>1
    <3> HIDE DEF q
    <3> QED
      BY <1>1, <3>1, <3>2 DEF DevicesFit
  <2> HIDE DEF q
  <2>3. posted' = q \/ \E e : e.what # "delete" /\ posted' = Append(q, e)
    BY <2>1, RunStepPosts DEF q
  <2>4. connection' = connection
    BY <1>6 DEF CallPosted, wire
  <2>5. DevicesFit'
    <3>1. CASE posted' = q
      BY <2>2, <2>4, <3>1 DEF DevicesFit
    <3>2. CASE \E e : e.what # "delete" /\ posted' = Append(q, e)
      BY <2>2, <2>4, <3>2, DevicesAppend
    <3> QED
      BY <2>3, <3>1, <3>2
  <2> QED
    BY <1>6, <2>5, WireUntouched DEF CallPosted
<1>7. CASE ResultPosted
  <2>1. /\ posted # <<>> /\ connection' = connection
        /\ posted' \in {Tail(posted), Append(Tail(posted), Response(Head(posted).step, Head(posted).ok))}
    BY <1>7 DEF ResultPosted, PluginResultCB, wire
  <2>2. DevicesFit'
    <3>1. Response(Head(posted).step, Head(posted).ok).what # "delete"
      BY DEF Response
    <3> QED
      BY <1>1, <2>1, <3>1, DevicesTaken, DevicesMoved
  <2> QED
    BY <1>7, <2>2, WireUntouched DEF ResultPosted, pending
<1>8. CASE ResponsePosted
  <2>1. DevicesFit'
    BY <1>1, <1>8, DevicesTaken DEF ResponsePosted
  <2> QED
    BY <1>8, <2>1, CucumberResponseKeeps DEF ResponsePosted
<1>9. CASE DeletePosted
  BY <1>9, DeleteKeeps
<1>10. CASE ResponseTimesOut
  <2>1. DevicesFit'
    BY <1>1, <1>10 DEF ResponseTimesOut, DevicesFit, manager
  <2> QED
    BY <1>10, <2>1, CucumberResponseKeeps DEF ResponseTimesOut
<1>11. CASE DoRetryTimer
  <2>1. PICK time \in {0, LaunchTime, SyncTime} :
            StepRuns(mRetryData.step, posted, time) /\ RunStep(mRetryData.step, posted, time)
    BY <1>11, RetryRuns
  <2>2. posted' = posted \/ \E e : e.what # "delete" /\ posted' = Append(posted, e)
    BY <2>1, RunStepPosts
  <2>3. connection' = connection
    BY <1>11 DEF DoRetryTimer, wire
  <2>4. DevicesFit'
    <3>1. CASE posted' = posted
      BY <1>1, <2>3, <3>1 DEF DevicesFit
    <3>2. CASE \E e : e.what # "delete" /\ posted' = Append(posted, e)
      BY <1>1, <2>3, <3>2, DevicesAppend DEF DevicesFit
    <3> QED
      BY <2>2, <3>1, <3>2
  <2> QED
    BY <1>11, <2>4, WireUntouched DEF DoRetryTimer
<1>12. CASE Tick
  BY <1>1, <1>12, WireUntouched DEF Tick, DevicesFit, wire
<1>13. CASE Applications /\ UNCHANGED <<wire, pending, scenario, client>>
  BY <1>1, <1>13, WireUntouched DEF Applications, DevicesFit, wire, pending
<1>14. CASE UNCHANGED vars
  BY <1>1, <1>14, WireUntouched DEF vars, DevicesFit, wire, client
<1> QED
  BY <1>2, <1>3, <1>4, <1>5, <1>6, <1>7, <1>8, <1>9, <1>10, <1>11, <1>12, <1>13, <1>14
  DEF Next, Posted

-----------------------------------------------------------------------------
(* The types that are left: those of the applications.                     *)
ManagerInv ==
    /\ mCurrentApplicationId \in Ids
    /\ retryDue => mRetryData # None
    /\ registered \subseteq running

LEMMA RunStepKeepsManager ==
    ASSUME StepInv, ManagerInv, NEW s \in Steps, NEW queue, NEW time, RunStep(s, queue, time)
    PROVE  ManagerInv'
<1>1. \A ok, q : InvokePlainSender(s, ok, q) => ~retryDue'
  BY DEF InvokePlainSender
<1>2. \A ok, q : ReplyOrRetry(s, ok, q, time) => (retryDue' => mRetryData' # None)
  <2>1. SUFFICES ASSUME NEW ok, NEW q, ReplyOrRetry(s, ok, q, time), ~(ok \/ RetriesLeft(s) = 0),
                        retryDue'
                 PROVE  mRetryData' # None
    BY <1>1 DEF ReplyOrRetry
  <2>2. mRetryData # None /\ mRetryData.step = s /\ mRetryData' = [step |-> s, left |-> RetriesLeft(s)]
    BY <2>1 DEF ReplyOrRetry
  <2>3. RetriesLeft(s) \in 1..Retries
    BY <2>1, <2>2, ManagerAssumption DEF RetriesLeft, StepInv
  <2> QED
    BY <2>2, <2>3, ManagerAssumption
<1>3. s.id \in Ids
  BY DEF Steps
<1>4. CASE SelectApp(s, queue, time)
  BY <1>1, <1>2, <1>3, <1>4 DEF SelectApp, Unmanaged, ManagerInv
<1>5. CASE AttachApp(s, queue, time)
  BY <1>1, <1>2, <1>5 DEF AttachApp, Unmanaged, ManagerInv
<1>6. CASE StartApp(s, queue, time)
  BY <1>1, <1>2, <1>3, <1>6 DEF StartApp, Started, ManagerInv
<1>7. CASE StartNothing(s, queue, time) \/ WrongArguments(s, queue, time)
  BY <1>1, <1>2, <1>7 DEF StartNothing, WrongArguments, Unmanaged, ManagerInv
<1>8. CASE CallStepInPlugin(s, queue, time)
  BY <1>1, <1>2, <1>8 DEF CallStepInPlugin, ManagerInv
<1> QED
  BY <1>4, <1>5, <1>6, <1>7, <1>8 DEF RunStep

LEMMA NextManager == StepInv /\ PidInv /\ ManagerInv /\ [Next]_vars => ManagerInv'
<1> SUFFICES ASSUME StepInv, PidInv, ManagerInv, [Next]_vars PROVE ManagerInv'
  OBVIOUS
<1>1. ASSUME NEW c \in Connections, HandleRequest(c) PROVE ManagerInv'
  BY <1>1 DEF HandleRequest, HandleWhilePending, HandleUnknown, HandleImmediate, StartStep,
       ManagerButPosted, manager, BeginScenario, EndScenario, ManagerInv
<1>2. ASSUME NEW c \in Connections, Connect(c) \/ ConnectionDisconnect(c) PROVE ManagerInv'
  BY <1>2 DEF Connect, ConnectionDisconnect, ManagerButPosted, manager, ManagerInv
<1>3. ASSUME NEW r, Ask(r) PROVE ManagerInv'
  BY <1>3 DEF Ask, manager, ManagerInv
<1>4. CASE CallPosted
  BY <1>4, CallRuns, RunStepKeepsManager DEF StepRuns
<1>5. CASE ResultPosted \/ ResponsePosted \/ DeletePosted \/ ResponseTimesOut
  BY <1>5 DEF ResultPosted, PluginResultCB, ResponsePosted, DeletePosted, ResponseTimesOut,
       ManagerButPosted, manager, ManagerInv
<1>6. CASE DoRetryTimer
  BY <1>6, RetryRuns, RunStepKeepsManager DEF StepRuns
<1>7. CASE Tick
  BY <1>7, Zenon DEF Tick, ManagerInv
<1>8. CASE Applications
  BY <1>8 DEF Applications, ApplicationStarts, ApplicationRegisters, ApplicationEnds, ManagerInv
<1>9. CASE UNCHANGED vars
  BY <1>9 DEF vars, ManagerInv
<1> QED
  BY <1>1, <1>2, <1>3, <1>4, <1>5, <1>6, <1>7, <1>8, <1>9 DEF Next, Posted

LEMMA InitWire == Init => WireInv /\ ManagerInv
<1> SUFFICES ASSUME Init PROVE WireInv /\ ManagerInv
  OBVIOUS
<1>1. DOMAIN unread = {} /\ Range(unread) = {} /\ DOMAIN posted = {} /\ unread \in Seq(Connections)
  BY DEF Init, ManagerInit, Range
<1>2. WireTypes
  BY <1>1 DEF Init, WireTypes
<1> QED
  BY <1>1, <1>2, ManagerAssumption
  DEF Init, ManagerInit, WireInv, Once, UnreadFits, AskedIsOpen, PendingFits, DevicesFit,
      NoneForgotten, ManagerInv

(* What holds of the steps holds of every reachable state.                 *)
THEOREM StepInvariant == Spec => [](StepInv /\ PidInv)
<1>1. StepInv /\ PidInv /\ [Next]_vars => (StepInv /\ PidInv)'
  BY NextStep, NextPids
<1> QED
  BY <1>1, InitStep, PTL DEF Spec

(* mRetryData never outlives the step that Cucumber waits for: the retries *)
(* of doReplyOrRetry are over before responseTimeout gives the step up.    *)
THEOREM RetriesEndInTime == Spec => []RetriedIsAwaited
<1>1. StepInv /\ PidInv => RetriedIsAwaited
  BY DEF StepInv
<1> QED
  BY <1>1, StepInvariant, PTL

(* cucumberResponse does not look whose answer it is given, and needs not: *)
(* while a response is pending, only its own step has anything posted.     *)
THEOREM AnswersAreNotMixedUp == Spec => []AnswersItsOwnStep
<1>1. StepInv /\ PidInv => AnswersItsOwnStep
  BY DEF StepInv
<1> QED
  BY <1>1, StepInvariant, PTL

(* The connections and the applications, as the lemmas above describe them *)
(* together, in every reachable state.                                     *)
THEOREM WireInvariant == Spec => [](WireInv /\ ManagerInv)
<1>1. StepInv /\ PidInv /\ WireInv /\ ManagerInv /\ [Next]_vars => (WireInv /\ ManagerInv)'
  BY NextWire, NextManager
<1> QED
  BY <1>1, InitWire, StepInvariant, PTL DEF Spec

(* The types of the server and of the applications.                        *)
THEOREM ServerTypes == Spec => []TypeOK
<1>1. StepInv /\ PidInv /\ WireInv /\ ManagerInv => TypeOK
  <2>1. ASSUME WireInv, NEW c \in Range(unread) PROVE connection[c] = "open" /\ asked[c] # None
    <3>1. c \in Connections
      BY <2>1 DEF WireInv, WireTypes, Range
    <3> QED
      BY <2>1, <3>1 DEF WireInv, UnreadFits, AskedIsOpen
  <2> QED
    BY <2>1 DEF TypeOK, ManagerTypeOK, StepInv, PidInv, WireInv, WireTypes, ManagerInv
<1> QED
  BY <1>1, StepInvariant, WireInvariant, PTL

(* No request is dropped: until it is answered, or its connection has      *)
(* ended, it waits to be read or a response is pending for it.             *)
THEOREM NoRequestIsForgotten == Spec => []NoneForgotten
<1>1. WireInv /\ ManagerInv => NoneForgotten
  BY DEF WireInv
<1> QED
  BY <1>1, WireInvariant, PTL
=============================================================================
