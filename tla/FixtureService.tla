---------------------------- MODULE FixtureService ----------------------------
(***************************************************************************)
(* FixtureService of the plugin and the fixtures it loads.  A synchronous  *)
(* request is performed at once, an asynchronous one from a queue when the *)
(* timer fires.  The target is looked up when the fixture is executed, so  *)
(* that one whose address has a new widget by then is that widget.         *)
(*                                                                         *)
(* contextMenu of the "tas" fixture does not return until the menu it      *)
(* opens is closed; requests are served and timers fire meanwhile, but     *)
(* not, unless it is started again, the one in whose handler it was        *)
(* executed.                                                               *)
(***************************************************************************)
EXTENDS SignalFixture, PropertyLogger, FpsFixture, PopupFixture

CONSTANTS FixtureRequests,  \* plugin, method, target, what
          MaxQueue

(* What a request names is known to its fixture.                           *)
ASSUME FixtureAssumption == \A r \in FixtureRequests :
    /\ r.plugin = "signal" => r.what \in Signals
    /\ r.plugin = "tas" => r.what \in Properties
    /\ r.plugin = "popup" => r.what \in Classes

VARIABLES commandQueue,
          fixtureTimer,     \* Off, Ready, or the menu in whose handler it is
          menus             \* those opened by delayed requests

queued == <<commandQueue, fixtureTimer, menus>>
fixtures == <<signals, properties, frameRates, popups>>

Off == 0
Ready == -1

FixtureInit ==
    /\ SignalInit /\ PropertyInit /\ FpsInit /\ PopupInit
    /\ commandQueue = <<>> /\ fixtureTimer = Off /\ menus = 0

OpensMenu(r) == r.method = "contextMenu"

PerformFixture(r) ==
    \/ OpensMenu(r) /\ UNCHANGED <<application, fixtures>>
    \/ r.plugin = "signal" /\ SignalExecute(r) /\ UNCHANGED <<properties, frameRates, popups>>
    \/ r.plugin = "tas"    /\ PropertyExecute(r) /\ UNCHANGED <<signals, frameRates, popups>>
    \/ r.plugin = "fps"    /\ FpsExecute(r) /\ UNCHANGED <<signals, properties, popups>>
    \/ r.plugin = "popup"  /\ PopupExecute(r) /\ UNCHANGED <<signals, properties, frameRates>>

PerformNow(r) == PerformFixture(r) /\ UNCHANGED queued

(* The timer is started again by every request.                            *)
Delay(r) ==
    /\ Len(commandQueue) < MaxQueue
    /\ commandQueue' = Append(commandQueue, r)
    /\ fixtureTimer' = Ready
    /\ UNCHANGED <<menus, fixtures, application>>

(* Mutant of Handled: the timer is not stopped when nothing is left.       *)
HandledAlways(queue, timer) == timer

Handled(queue, timer) == IF queue = <<>> THEN Off ELSE timer

DelayedEvent ==
    /\ fixtureTimer = Ready
    /\ LET r == Head(commandQueue) IN
       /\ PerformFixture(r)
       /\ commandQueue' = Tail(commandQueue)
       /\ IF OpensMenu(r)
          THEN menus' = menus + 1 /\ fixtureTimer' = menus'
          ELSE fixtureTimer' = Handled(Tail(commandQueue), Ready) /\ UNCHANGED menus

(* The innermost menu is closed: its handler goes on, and its timer may    *)
(* fire again, if it was not started again or stopped meanwhile.           *)
MenuClosed ==
    /\ menus > 0
    /\ menus' = menus - 1
    /\ fixtureTimer' = Handled(commandQueue, IF fixtureTimer = menus THEN Ready ELSE fixtureTimer)
    /\ UNCHANGED <<commandQueue, fixtures, application>>

FixtureRequest(r) == PerformNow(r) \/ Delay(r)

FixtureStep(plugins) ==
    \/ DelayedEvent \/ MenuClosed
    \/ /\ UNCHANGED queued
       /\ \/ "signal" \in plugins /\ SignalStep /\ UNCHANGED <<properties, frameRates, popups>>
          \/ LogTimerEvent /\ UNCHANGED <<signals, frameRates, popups>>
          \/ "fps" \in plugins /\ FpsStep /\ UNCHANGED <<signals, properties, popups>>
          \/ "popup" \in plugins /\ PopupStep /\ UNCHANGED <<signals, properties, frameRates>>

-----------------------------------------------------------------------------
(* However the requests come while menus are open and timers are started   *)
(* again: when the timer fires there is a request in the queue to take,    *)
(* which FixtureService::delayedEvent does not ask.                        *)
NeverEmptyDequeue == fixtureTimer = Ready => commandQueue # <<>>

(* Whoever waits in the queue has a timer, though it may have to wait for   *)
(* a menu to be closed: the timer is only stopped when nothing is left     *)
(* (FixtureService::delayedEvent).                                         *)
NothingStalls ==
    commandQueue # <<>> => fixtureTimer = Ready \/ fixtureTimer \in 1..menus

(* Which spies write to a model that is deleted, and which files are used   *)
(* after they are deleted: only what was enabled again, and what is logged *)
(* beside another property of its object.                                  *)
NothingDangles == SpiesHaveTheirModel /\ LogsAreOpen

(* What fixtures keep for later requests fits what goes on in between: a   *)
(* popup that is awaited will be seen, who comes to fetch the next fixture *)
(* of the queue finds one, and someone comes for each that is there.       *)
FixturesFit == AwaitedIsWatched /\ NeverEmptyDequeue /\ NothingStalls

-----------------------------------------------------------------------------
(* The types of what the fixtures keep.                                    *)
FixtureTypes ==
    /\ commandQueue \in Seq(FixtureRequests) /\ menus \in Nat
    /\ fixtureTimer \in {Off, Ready} \cup 1..menus
    /\ SignalTypes /\ PropertyTypes /\ FpsTypes /\ PopupTypes
=============================================================================
