---------------------------- MODULE BackgroundWork ----------------------------
(***************************************************************************)
(* What goes on in an application after the command that started it has    *)
(* returned: gestures, the recording of events, fixtures and their queue,  *)
(* and logs of resources, while the application creates and destroys the   *)
(* widgets they are about.  A behaviour uses one of the Suites: gestures,  *)
(* events, the recorder, resources, the log and names of fixtures; and the *)
(* addresses of widgets again, or not.                                     *)
(***************************************************************************)
EXTENDS GestureRunner, EventRecording, FixtureService, InfoLogger, TasLogger

CONSTANTS Suites,
          MaxRequests, \* of a behaviour, the commands of a script aside
          MaxSteps     \* events, signals, frames, ticks and timeouts

VARIABLES uses, requests, steps

bounds == <<uses, requests, steps>>
services == <<gestures, recording, queued, fixtures, resourceLogs, logger>>
vars == <<application, services, bounds>>

Init ==
    /\ uses \in Suites /\ requests = 0 /\ steps = 0
    /\ WidgetsInit /\ EventInit /\ FixtureInit /\ InfoInit /\ LoggerInit
    /\ GestureInit(IF "gestures" \in uses THEN Scripts ELSE {<<>>})

Request ==
    /\ ~crashed
    /\ requests < MaxRequests /\ requests' = requests + 1
    /\ UNCHANGED <<uses, steps, gestures>>
    /\ \/ /\ "log" \in uses /\ LoggerRequest
          /\ UNCHANGED <<recording, queued, fixtures, resourceLogs>>
       \/ /\ \/ "events" \in uses /\ EventRequest
             \/ "recorder" \in uses /\ RecorderRequest
          /\ UNCHANGED <<queued, fixtures, resourceLogs, logger>>
       \/ /\ \E r \in FixtureRequests : r.plugin \in uses /\ FixtureRequest(r)
          /\ UNCHANGED <<recording, resourceLogs, logger>>
       \/ /\ "resources" \in uses /\ InfoRequest
          /\ UNCHANGED <<application, recording, queued, fixtures, logger>>

(* What is pending goes on; the bound is on what comes from elsewhere.     *)
Step ==
    /\ ~crashed
    /\ steps < MaxSteps /\ steps' = steps + 1
    /\ UNCHANGED <<uses, requests, gestures>>
    /\ \/ /\ "log" \in uses /\ LoggerStep
          /\ UNCHANGED <<recording, queued, fixtures, resourceLogs>>
       \/ /\ uses \cap {"events", "recorder"} # {} /\ EventStep
          /\ UNCHANGED <<queued, fixtures, resourceLogs, logger>>
       \/ /\ FixtureStep(uses)
          /\ UNCHANGED <<recording, resourceLogs, logger>>
       \/ /\ InfoTimerEvent
          /\ UNCHANGED <<application, recording, queued, fixtures, logger>>

Gesture ==
    /\ ~crashed /\ GestureNext
    /\ UNCHANGED <<recording, queued, fixtures, resourceLogs, logger, bounds>>

Logging ==
    /\ ~crashed /\ "log" \in uses /\ LoggerGoesOn
    /\ UNCHANGED <<gestures, recording, queued, fixtures, resourceLogs, bounds>>

(* The application handles events whenever it is let to.                   *)
ApplicationStep ==
    /\ ~crashed /\ EventsProcessed
    /\ \E t \in Targets : Close(t) \/ ("reuse" \in uses /\ Open(t))
    /\ UNCHANGED <<services, bounds>>

Next == Request \/ Step \/ Gesture \/ Logging \/ ApplicationStep

Spec == Init /\ [][Next]_vars

-----------------------------------------------------------------------------
TypeOK ==
    /\ uses \in Suites /\ requests \in Nat /\ steps \in Nat
    /\ alive \subseteq Targets /\ life \in [Targets -> Nat \ {0}] /\ crashed \in BOOLEAN
    /\ GestureTypes /\ EventTypes /\ FixtureTypes /\ ResourceTypes /\ LoggerTypes

(* Both logs go on as configured: that of resources has a timer exactly    *)
(* while it has a file, and that of the application keeps its last lines.  *)
LogsGoOn == TicksWhileLogging /\ KeptIsRecent
=============================================================================
