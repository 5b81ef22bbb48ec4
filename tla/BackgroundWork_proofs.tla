------------------------- MODULE BackgroundWork_proofs -------------------------
(***************************************************************************)
(* What is proved of BackgroundWork for every application, every set of    *)
(* requests and every way in which the widgets come and go.  The services  *)
(* share nothing but the widgets: for each, a lemma says which steps       *)
(* change it, and its invariant has to stand these steps and the widgets'. *)
(***************************************************************************)
EXTENDS BackgroundWork, SequenceTheorems, FiniteSetTheorems, WellFoundedInduction, TLAPS

-----------------------------------------------------------------------------
(* Which steps change what.                                                *)

WidgetsChange == (\E t \in Targets : Close(t) \/ Open(t)) /\ UNCHANGED services

LEMMA GesturesLeaveWidgets == GestureNext => UNCHANGED <<alive, life>>
<1> SUFFICES ASSUME GestureNext PROVE UNCHANGED <<alive, life>>
  OBVIOUS
<1>1. CASE \E i \in TimeLines : StartGesture(i) \/ ReleaseMouse(i)
  BY <1>1 DEF StartGesture, ReleaseMouse, application
<1>2. CASE \E i \in TimeLines, k \in 1..Steps : GestureTimerEvent(i, k)
  BY <1>2 DEF GestureTimerEvent, application
<1>3. CASE StartGestures
  BY <1>3 DEF StartGestures
<1>4. CASE \E k \in 1..Steps : GesturesTimerEvent(k)
  BY <1>4 DEF GesturesTimerEvent, application
<1>5. CASE \E i \in Ids \ TimeLines : Tap(i) \/ TapperTap(i)
  BY <1>5 DEF Tap, TapperTap, application
<1>6. CASE Send \/ Return
  BY <1>6 DEF Send, Return, application
<1> QED
  BY <1>1, <1>2, <1>3, <1>4, <1>5, <1>6 DEF GestureNext

LEMMA EventsLeaveWidgets ==
    EventRequest \/ RecorderRequest \/ EventStep => UNCHANGED <<alive, life>>
  BY DEF EventRequest, RecorderRequest, EventStep, EnableEvents, DisableEvents, RecorderCommand,
         Event, AddProcessStartEvent, CrashIf, application

LEMMA LoggerLeavesWidgets ==
    LoggerRequest \/ LoggerStep \/ LoggerGoesOn => UNCHANGED <<alive, life>>
<1> SUFFICES ASSUME LoggerRequest \/ LoggerStep \/ LoggerGoesOn
             PROVE  UNCHANGED <<alive, life>>
  OBVIOUS
<1>1. CASE LoggerRequest
  BY <1>1 DEF LoggerRequest, ConfigureLogger, ConfigureEventLogger, CrashIf, application
<1>2. CASE LoggerStep
  BY <1>2 DEF LoggerStep, LogLine, EventFiltered, WriteLogLine, application
<1>3. CASE LoggerGoesOn
  BY <1>3 DEF LoggerGoesOn, RollOff, RollOn, OutPut, TimePasses, CrashIf, application
<1> QED
  BY <1>1, <1>2, <1>3

LEMMA SignalsLeaveWidgets ==
    ASSUME (\E r : SignalExecute(r)) \/ SignalStep
    PROVE  UNCHANGED <<alive, life>>
  BY DEF SignalExecute, SignalStep, EnableSignal, ClearSignals, SignalHasOccured, CrashIf,
         application

LEMMA PropertiesLeaveWidgets ==
    ASSUME (\E r : PropertyExecute(r)) \/ LogTimerEvent
    PROVE  UNCHANGED <<alive, life>>
  BY DEF PropertyExecute, LogTimerEvent, StartPropertyLog, GetLogData, StopLogProperty, CrashIf,
         application

LEMMA FpsLeavesWidgets ==
    ASSUME (\E r : FpsExecute(r)) \/ FpsStep
    PROVE  UNCHANGED <<alive, life>>
  BY DEF FpsExecute, FpsStep, StartFps, CollectData, StopFps, Frame, application

LEMMA PopupsLeaveWidgets ==
    ASSUME (\E r : PopupExecute(r)) \/ PopupStep
    PROVE  UNCHANGED <<alive, life>>
  BY DEF PopupExecute, PopupStep, WaitPopup, PrintPopup, PopupShown, PopupTimeout, application

(* A step of the fixtures is one of one fixture, or of none.               *)
FixtureChanges ==
    \/ UNCHANGED <<alive, life, fixtures>>
    \/ ((\E r : SignalExecute(r)) \/ SignalStep) /\ UNCHANGED <<properties, frameRates, popups>>
    \/ ((\E r : PropertyExecute(r)) \/ LogTimerEvent) /\ UNCHANGED <<signals, frameRates, popups>>
    \/ ((\E r : FpsExecute(r)) \/ FpsStep) /\ UNCHANGED <<signals, properties, popups>>
    \/ ((\E r : PopupExecute(r)) \/ PopupStep) /\ UNCHANGED <<signals, properties, frameRates>>

LEMMA PerformChanges ==
    ASSUME NEW r, PerformFixture(r)
    PROVE  FixtureChanges
  BY DEF FixtureChanges, PerformFixture, application

LEMMA FixtureSteps ==
    ASSUME (\E r : FixtureRequest(r)) \/ \E plugins : FixtureStep(plugins)
    PROVE  FixtureChanges
<1>1. CASE \E r : PerformNow(r)
  BY <1>1, PerformChanges DEF PerformNow
<1>2. CASE \E r : Delay(r)
  BY <1>2 DEF Delay, FixtureChanges, application
<1>3. CASE DelayedEvent
  BY <1>3, PerformChanges DEF DelayedEvent
<1>4. CASE MenuClosed
  BY <1>4 DEF MenuClosed, FixtureChanges, application
<1>5. CASE \E plugins : FixtureStep(plugins) /\ ~DelayedEvent /\ ~MenuClosed
  BY <1>5 DEF FixtureStep, FixtureChanges
<1> QED
  BY <1>1, <1>2, <1>3, <1>4, <1>5 DEF FixtureRequest

LEMMA FixturesLeaveWidgets == FixtureChanges => UNCHANGED <<alive, life>>
  BY SignalsLeaveWidgets, PropertiesLeaveWidgets, FpsLeavesWidgets, PopupsLeaveWidgets
  DEF FixtureChanges

(* The steps, by the service that they change.                             *)
LEMMA StepsOfServices ==
    ASSUME [Next]_vars
    PROVE  \/ UNCHANGED <<alive, life, recording, queued, fixtures, resourceLogs, logger>>
           \/ WidgetsChange
           \/ /\ LoggerRequest \/ LoggerStep \/ LoggerGoesOn
              /\ UNCHANGED <<recording, queued, fixtures, resourceLogs>>
           \/ /\ EventRequest \/ RecorderRequest \/ EventStep
              /\ UNCHANGED <<queued, fixtures, resourceLogs, logger>>
           \/ /\ (\E r \in FixtureRequests : FixtureRequest(r)) \/ FixtureStep(uses)
              /\ UNCHANGED <<recording, resourceLogs, logger>>
           \/ /\ InfoRequest \/ InfoTimerEvent
              /\ UNCHANGED <<alive, life, recording, queued, fixtures, logger>>
<1>1. CASE Request
  BY <1>1 DEF Request, application
<1>2. CASE Step
  BY <1>2 DEF Step, application
<1>3. CASE Gesture
  BY <1>3, GesturesLeaveWidgets DEF Gesture
<1>4. CASE Logging
  BY <1>4 DEF Logging
<1>5. CASE ApplicationStep
  BY <1>5 DEF ApplicationStep, WidgetsChange
<1>6. CASE UNCHANGED vars
  BY <1>6 DEF vars, application, services
<1> QED
  BY <1>1, <1>2, <1>3, <1>4, <1>5, <1>6 DEF Next

-----------------------------------------------------------------------------
(* What is in a set of addresses, and the first life of each is 1.         *)
Lives == alive \subseteq Targets /\ life \in [Targets -> Nat \ {0}]

LEMMA LivesInit == Init => Lives
  BY DEF Init, WidgetsInit, Lives

LEMMA LivesStay ==
    ASSUME [Next]_vars
    PROVE  UNCHANGED <<alive, life>> \/ WidgetsChange
  BY StepsOfServices, LoggerLeavesWidgets, EventsLeaveWidgets, FixtureSteps, FixturesLeaveWidgets

LEMMA LivesStep == Lives /\ [Next]_vars => Lives'
<1> SUFFICES ASSUME Lives, [Next]_vars PROVE Lives'
  OBVIOUS
<1>1. CASE UNCHANGED <<alive, life>>
  BY <1>1 DEF Lives
<1>2. CASE WidgetsChange
  BY <1>2 DEF Lives, WidgetsChange, Close, Open
<1> QED
  BY <1>1, <1>2, LivesStay

LEMMA LivesAlways == Spec => []Lives
  BY LivesInit, LivesStep, PTL DEF Spec

-----------------------------------------------------------------------------
(* The queue of fixtures, and the popups that are awaited.                 *)

QueueInv ==
    /\ commandQueue \in Seq(FixtureRequests) /\ menus \in Nat
    /\ fixtureTimer \in {Off, Ready} \cup 1..menus
    /\ NeverEmptyDequeue /\ NothingStalls

(* Who performs a fixture leaves its own queue alone.                      *)
LEMMA QueueStays ==
    ASSUME [Next]_vars
    PROVE  \/ UNCHANGED queued
           \/ \E r \in FixtureRequests : Delay(r)
           \/ DelayedEvent
           \/ MenuClosed
  BY StepsOfServices DEF WidgetsChange, services, FixtureRequest, PerformNow, FixtureStep

LEMMA QueueStep == QueueInv /\ [Next]_vars => QueueInv'
<1> SUFFICES ASSUME QueueInv, [Next]_vars PROVE QueueInv'
  OBVIOUS
<1> USE DEF QueueInv, NeverEmptyDequeue, NothingStalls, Off, Ready
<1>1. CASE UNCHANGED queued
  BY <1>1 DEF queued
<1>2. CASE \E r \in FixtureRequests : Delay(r)
  BY <1>2 DEF Delay
<1>3. CASE DelayedEvent
  <2>1. commandQueue # <<>> /\ commandQueue' = Tail(commandQueue)
    BY <1>3 DEF DelayedEvent
  <2>2. commandQueue' \in Seq(FixtureRequests)
    BY <2>1
  <2>3. CASE OpensMenu(Head(commandQueue))
    BY <1>3, <2>2, <2>3 DEF DelayedEvent
  <2>4. CASE ~OpensMenu(Head(commandQueue))
    BY <1>3, <2>1, <2>2, <2>4 DEF DelayedEvent, Handled
  <2> QED
    BY <2>3, <2>4
<1>4. CASE MenuClosed
  BY <1>4 DEF MenuClosed, Handled
<1> QED
  BY <1>1, <1>2, <1>3, <1>4, QueueStays

LEMMA PopupsStep == AwaitedIsWatched /\ [Next]_vars => AwaitedIsWatched'
<1> SUFFICES ASSUME AwaitedIsWatched, [Next]_vars PROVE AwaitedIsWatched'
  OBVIOUS
<1>1. UNCHANGED popups \/ (\E r : PopupExecute(r)) \/ PopupStep
  BY StepsOfServices, FixtureSteps DEF FixtureChanges, WidgetsChange, services, fixtures
<1>2. CASE UNCHANGED popups
  BY <1>2 DEF AwaitedIsWatched, popups
<1>3. CASE \E r : PopupExecute(r)
  BY <1>3 DEF PopupExecute, WaitPopup, PrintPopup, StillFiltering, AwaitedIsWatched
<1>4. CASE PopupStep
  BY <1>4 DEF PopupStep, PopupShown, PopupTimeout, AwaitedIsWatched
<1> QED
  BY <1>1, <1>2, <1>3, <1>4

(* Whatever fixtures are asked for, at once or delayed, however many menus *)
(* are open and whoever starts the timer again meanwhile: when the timer   *)
(* fires there is a request to take, a request that is there has a timer,  *)
(* if only once a menu is closed, and the events of the application are    *)
(* watched while a popup is awaited (FixtureService::delayedEvent,         *)
(* PopupFixture::execute).                                                 *)
THEOREM FixturesAlwaysFit == Spec => []FixturesFit
<1>1. Init => QueueInv /\ AwaitedIsWatched
  BY DEF Init, FixtureInit, PopupInit, QueueInv, NeverEmptyDequeue, NothingStalls, AwaitedIsWatched,
         Off, Ready
<1>2. QueueInv /\ AwaitedIsWatched => FixturesFit
  BY DEF QueueInv, FixturesFit
<1> QED
  BY <1>1, <1>2, QueueStep, PopupsStep, PTL DEF Spec

-----------------------------------------------------------------------------
(* The loggers of properties and the spies of signals.                     *)

(* A file goes with the object whose only one it is, and joins those that  *)
(* are there.                                                              *)
LogsInv == LogsAreOpen

LEMMA LogsStep == LogsInv /\ [Next]_vars => LogsInv'
<1> SUFFICES ASSUME LogsInv, [Next]_vars PROVE LogsInv'
  OBVIOUS
<1>1. UNCHANGED properties \/ (\E r : PropertyExecute(r)) \/ LogTimerEvent
  BY StepsOfServices, FixtureSteps DEF FixtureChanges, WidgetsChange, services, fixtures
<1>2. CASE logged' = logged
  BY <1>2 DEF LogsInv, LogsAreOpen
<1>3. ASSUME NEW t, NEW p, NEW opens, StartPropertyLog(t, p, opens), logged' # logged
      PROVE  LogsInv'
  <2> DEFINE files == IF t \in DOMAIN logged THEN logged[t] ELSE <<>>
             kept == IF IsLogged(t, p) THEN files ELSE With(files, p, "open")
  <2>1. logged' = With(logged, t, kept)
    BY <1>3 DEF StartPropertyLog, properties
  <2>2. ASSUME NEW q \in DOMAIN kept
        PROVE  kept[q] = "open" \/ DOMAIN kept # {q}
    <3>1. CASE IsLogged(t, p)
      BY <2>2, <3>1 DEF IsLogged, LogsInv, LogsAreOpen
    <3>2. CASE ~IsLogged(t, p)
      <4>1. p \in DOMAIN kept /\ kept[p] = "open"
        BY <3>2 DEF With
      <4> QED
        BY <4>1
    <3> QED
      BY <3>1, <3>2
  <2> HIDE DEF kept
  <2>3. ASSUME NEW u \in DOMAIN logged', NEW q \in DOMAIN logged'[u]
        PROVE  logged'[u][q] = "open" \/ DOMAIN logged'[u] # {q}
    <3>1. CASE u = t
      BY <2>1, <2>2, <2>3, <3>1 DEF With
    <3>2. CASE u # t
      BY <2>1, <2>3, <3>2 DEF With, LogsInv, LogsAreOpen
    <3> QED
      BY <3>1, <3>2
  <2> QED
    BY <2>3 DEF LogsInv, LogsAreOpen
<1>4. ASSUME NEW t, NEW p, StopLogProperty(t, p)
      PROVE  LogsInv'
  <2>1. CASE logged' = LeftLogged(t, p) /\ IsLogged(t, p)
    <3>1. CASE DOMAIN logged[t] = {p}
      BY <2>1, <3>1 DEF LeftLogged, Restrict, LogsInv, LogsAreOpen
    <3>2. CASE DOMAIN logged[t] # {p}
      <4>1. logged' = [logged EXCEPT ![t][p] = "deleted"]
        BY <2>1, <3>2 DEF LeftLogged
      <4>2. \A u \in DOMAIN logged' : /\ u \in DOMAIN logged /\ DOMAIN logged'[u] = DOMAIN logged[u]
                                      /\ u = t \/ logged'[u] = logged[u]
        BY <4>1
      <4>3. ASSUME t \in DOMAIN logged', NEW q \in DOMAIN logged'[t]
            PROVE  q = p \/ logged'[t][q] = logged[t][q]
        BY <4>1, <4>2, <4>3
      <4> QED
        BY <3>2, <4>2, <4>3 DEF LogsInv, LogsAreOpen
    <3> QED
      BY <3>1, <3>2
  <2> QED
    BY <1>2, <1>4, <2>1 DEF StopLogProperty
<1> QED
  BY <1>1, <1>2, <1>3, <1>4 DEF PropertyExecute, LogTimerEvent, GetLogData, properties

Spies(names) ==
    [of : Targets, life : Nat, signal : names, container : Nat \ {0}, deleted : BOOLEAN]

(* The spies of one model: who is called is kept, and for its own signal,   *)
(* or forgotten.                                                           *)
KeptInModel(n) ==
    /\ spies[n].container = container
    /\ <<spies[n].of, spies[n].signal>> \in DOMAIN spyContainer
    /\ spyContainer[<<spies[n].of, spies[n].signal>>] = n

SpiesInv ==
    /\ \E names : spies \in Seq(Spies(names))
    /\ cleared \in Nat /\ container \in {0, cleared + 1}
    /\ \A n \in DOMAIN spies : spies[n].life <= life[spies[n].of]
    /\ \A n \in DOMAIN spies : Connected(n) => Forgotten(n) \/ KeptInModel(n)

LEMMA ElementsOf ==
    ASSUME NEW S, NEW s \in Seq(S)
    PROVE  DOMAIN s = 1..Len(s) /\ Len(s) \in Nat /\ \A n \in DOMAIN s : s[n] \in S
  OBVIOUS

LEMMA LargerSeq ==
    ASSUME NEW S, NEW T, S \subseteq T, NEW s \in Seq(S), NEW e \in T
    PROVE  Append(s, e) \in Seq(T)
<1>1. DOMAIN s = 1..Len(s) /\ Len(s) \in Nat /\ \A n \in 1..Len(s) : s[n] \in T
  BY ElementsOf
<1>2. s = [n \in 1..Len(s) |-> s[n]]
  BY <1>1
<1>3. s \in Seq(T)
  BY <1>1, <1>2
<1> QED
  BY <1>3

LEMMA SpiesInit == Init => SpiesInv
<1> SUFFICES ASSUME Init PROVE SpiesInv
  OBVIOUS
<1>1. spies = <<>> /\ cleared = 0 /\ container = 0
  BY DEF Init, FixtureInit, SignalInit
<1>2. DOMAIN spies = {} /\ spies \in Seq(Spies({}))
  BY <1>1
<1> QED
  BY <1>1, <1>2 DEF SpiesInv

LEMMA SpiesStandWidgets ==
    ASSUME Lives, SpiesInv, WidgetsChange
    PROVE  SpiesInv'
<1>1. UNCHANGED signals
  BY DEF WidgetsChange, services, fixtures
<1>2. PICK t \in Targets : Close(t) \/ Open(t)
  BY DEF WidgetsChange
<1>3. \A n \in DOMAIN spies : spies[n].of \in Targets /\ spies[n].life \in Nat
  <2>1. PICK names : spies \in Seq(Spies(names))
    BY DEF SpiesInv
  <2>2. \A n \in DOMAIN spies : spies[n] \in Spies(names)
    BY <2>1, ElementsOf
  <2> QED
    BY <2>2 DEF Spies
<1>4. \A n \in DOMAIN spies : spies'[n].life <= life'[spies[n].of]
  BY <1>1, <1>2, <1>3 DEF Lives, Close, Open, signals, SpiesInv
<1>5. \A n \in DOMAIN spies : Connected(n)' => Connected(n)
  <2> SUFFICES ASSUME NEW n \in DOMAIN spies, Connected(n)' PROVE Connected(n)
    OBVIOUS
  <2>1. spies' = spies
    BY <1>1 DEF signals
  <2>2. ~spies[n].deleted /\ spies[n].of \in alive' /\ life'[spies[n].of] = spies[n].life
    BY <2>1 DEF Connected, StillLives
  <2>3. spies[n].life <= life[spies[n].of]
    BY DEF SpiesInv
  <2>4. CASE Close(t)
    BY <2>2, <2>4 DEF Close, Connected, StillLives
  <2>5. CASE Open(t)
    BY <1>3, <2>2, <2>3, <2>5 DEF Open, Lives, Connected, StillLives
  <2> QED
    BY <1>2, <2>4, <2>5
<1> QED
  BY <1>1, <1>4, <1>5 DEF SpiesInv, KeptInModel, Forgotten, signals

LEMMA SpyIsEnabled ==
    ASSUME Lives, SpiesInv, NEW t, NEW s, EnableSignal(t, s)
    PROVE  SpiesInv'
<1>1. UNCHANGED <<alive, life>>
  BY DEF EnableSignal, CrashIf
<1>2. CASE UNCHANGED signals
  BY <1>1, <1>2 DEF SpiesInv, KeptInModel, Forgotten, signals, Connected, StillLives
<1>3. CASE t \in alive
  <2> DEFINE spy == [of |-> t, life |-> life[t], signal |-> s, container |-> cleared + 1,
                     deleted |-> FALSE]
  <2>1. /\ container' = cleared + 1 /\ cleared' = cleared /\ spies' = Append(spies, spy)
        /\ spyContainer' = With(spyContainer, <<t, s>>, Len(spies'))
    BY <1>3 DEF EnableSignal
  <2>2. PICK names : spies \in Seq(Spies(names))
    BY DEF SpiesInv
  <2>3. t \in Targets /\ life[t] \in Nat /\ cleared \in Nat /\ container \in {0, cleared + 1}
    BY <1>3 DEF Lives, SpiesInv
  <2>4. spy \in Spies(names \cup {s})
    BY <2>3 DEF Spies
  <2>5. Spies(names) \subseteq Spies(names \cup {s})
    BY DEF Spies
  <2>6. spies' \in Seq(Spies(names \cup {s}))
    BY <2>1, <2>2, <2>4, <2>5, LargerSeq
  <2>7. DOMAIN spies' = DOMAIN spies \cup {Len(spies) + 1} /\ Len(spies') = Len(spies) + 1
    BY <2>1, <2>2
  <2>8. \A n \in DOMAIN spies : n \in 1..Len(spies) /\ spies'[n] = spies[n]
    BY <2>1, <2>2
  <2>9. spies'[Len(spies) + 1] = spy
    BY <2>1, <2>2
  <2>10. \A n \in DOMAIN spies' : spies'[n].life <= life'[spies'[n].of]
    BY <1>1, <2>3, <2>7, <2>8, <2>9 DEF SpiesInv
  <2>11. ASSUME NEW n \in DOMAIN spies', Connected(n)', ~Forgotten(n)'
         PROVE  KeptInModel(n)'
    <3>1. CASE n = Len(spies) + 1
      BY <2>1, <2>7, <2>9, <3>1 DEF With, KeptInModel
    <3>2. CASE n \in DOMAIN spies
      <4>1. Connected(n)
        BY <1>1, <2>8, <2>11, <3>2 DEF Connected, StillLives
      <4>2. ~(spies[n].of = t /\ spies[n].signal = s)
        <5> SUFFICES ASSUME spies[n].of = t, spies[n].signal = s PROVE Forgotten(n)'
          BY <2>11
        <5>1. spies[n].life = life[t]
          BY <4>1 DEF Connected, StillLives
        <5>2. Len(spies) + 1 > n /\ Len(spies) + 1 \in DOMAIN spies'
          BY <2>2, <2>7, <3>2
        <5>3. spies'[Len(spies) + 1].of = t /\ spies'[Len(spies) + 1].life = life[t]
              /\ spies'[Len(spies) + 1].signal = s
          BY <2>9
        <5> QED
          BY <2>8, <3>2, <5>1, <5>2, <5>3 DEF Forgotten
      <4>3. ~Forgotten(n)
        BY <2>7, <2>8, <2>11, <3>2 DEF Forgotten
      <4>5. /\ spies[n].container = container
            /\ <<spies[n].of, spies[n].signal>> \in DOMAIN spyContainer
            /\ spyContainer[<<spies[n].of, spies[n].signal>>] = n
        BY <3>2, <4>1, <4>3 DEF SpiesInv, KeptInModel
      <4>4. spies[n].container # 0
        <5>1. spies[n] \in Spies(names)
          BY <2>2, <3>2, ElementsOf
        <5> QED
          BY <5>1 DEF Spies
      <4> QED
        BY <2>1, <2>3, <2>8, <3>2, <4>2, <4>4, <4>5 DEF With, KeptInModel
    <3> QED
      BY <2>7, <3>1, <3>2
  <2> HIDE DEF spy
  <2> QED
    BY <2>1, <2>3, <2>6, <2>10, <2>11 DEF SpiesInv
<1> QED
  BY <1>2, <1>3 DEF EnableSignal

LEMMA MaxOfTwo ==
    ASSUME NEW a \in Nat, NEW b \in Nat
    PROVE  Max({a, b}) \in Nat
<1>1. \E x \in {a, b} : \A y \in {a, b} : x >= y
  <2>1. CASE a >= b
    BY <2>1
  <2>2. CASE b >= a
    BY <2>2
  <2> QED
    BY <2>1, <2>2
<1>2. Max({a, b}) \in {a, b}
  BY <1>1 DEF Max
<1> QED
  BY <1>2

LEMMA SpiesAreCleared ==
    ASSUME SpiesInv, ClearSignals
    PROVE  SpiesInv'
<1>1. PICK names : spies \in Seq(Spies(names))
  BY DEF SpiesInv
<1>2. /\ UNCHANGED <<alive, life>> /\ container' = 0
      /\ cleared' = Max({container, cleared})
      /\ spies' = [n \in DOMAIN spies |-> [spies[n] EXCEPT !.deleted = @ \/ n \in Deleted]]
  BY DEF ClearSignals, application
<1>3. DOMAIN spies' = DOMAIN spies /\ DOMAIN spies = 1..Len(spies) /\ Len(spies) \in Nat
  BY <1>1, <1>2
<1>4. ASSUME NEW n \in DOMAIN spies
      PROVE  /\ spies'[n] \in Spies(names)
             /\ spies'[n].of = spies[n].of /\ spies'[n].life = spies[n].life
             /\ spies'[n].signal = spies[n].signal
             /\ spies'[n].deleted = (spies[n].deleted \/ n \in Deleted)
  <2>1. spies[n] \in Spies(names)
    BY <1>1, <1>4
  <2>2. spies'[n] = [spies[n] EXCEPT !.deleted = spies[n].deleted \/ n \in Deleted]
    BY <1>2, <1>4
  <2> QED
    BY <2>1, <2>2 DEF Spies
<1>5. spies' \in Seq(Spies(names))
  <2>1. spies' = [n \in 1..Len(spies) |-> spies'[n]]
    BY <1>2, <1>3
  <2> QED
    BY <1>3, <1>4, <2>1
<1>6. cleared' \in Nat
  <2>1. container \in Nat /\ cleared \in Nat
    BY DEF SpiesInv
  <2> QED
    BY <1>2, <2>1, MaxOfTwo
<1>7. \A n \in DOMAIN spies' : spies'[n].life <= life'[spies'[n].of]
  BY <1>2, <1>3, <1>4 DEF SpiesInv
<1>8. ASSUME NEW n \in DOMAIN spies', Connected(n)'
      PROVE  Forgotten(n)'
  <2>0. ~spies'[n].deleted /\ spies'[n].of \in alive' /\ life'[spies'[n].of] = spies'[n].life
    BY <1>8 DEF Connected, StillLives
  <2>1. ~spies[n].deleted /\ n \notin Deleted /\ Connected(n)
    <3>1. n \in DOMAIN spies
      BY <1>3, <1>8
    <3>2. /\ spies'[n].of = spies[n].of /\ spies'[n].life = spies[n].life
          /\ spies'[n].deleted = (spies[n].deleted \/ n \in Deleted)
      BY <1>4, <3>1
    <3>3. ~spies[n].deleted /\ n \notin Deleted
      BY <2>0, <3>2, Zenon
    <3> QED
      BY <1>2, <2>0, <3>2, <3>3 DEF Connected, StillLives
  <2>2. \A k \in DOMAIN spyContainer : spyContainer[k] # n
    BY <2>1 DEF Deleted, Range
  <2>3. Forgotten(n)
    BY <1>3, <1>8, <2>1, <2>2 DEF SpiesInv, KeptInModel
  <2> QED
    BY <1>3, <1>4, <1>8, <2>3 DEF Forgotten
<1> QED
  BY <1>2, <1>5, <1>6, <1>7, <1>8 DEF SpiesInv

LEMMA SpiesStep == Lives /\ SpiesInv /\ [Next]_vars => SpiesInv'
<1> SUFFICES ASSUME Lives, SpiesInv, [Next]_vars PROVE SpiesInv'
  OBVIOUS
<1>1. \/ WidgetsChange
      \/ UNCHANGED <<signals, alive, life>>
      \/ (\E r : SignalExecute(r)) \/ SignalStep
  BY StepsOfServices, FixtureSteps, PropertiesLeaveWidgets, FpsLeavesWidgets, PopupsLeaveWidgets,
     EventsLeaveWidgets, LoggerLeavesWidgets DEF FixtureChanges, fixtures
<1>2. ASSUME UNCHANGED <<signals, alive, life>>
      PROVE  SpiesInv'
  BY <1>2 DEF SpiesInv, KeptInModel, Forgotten, signals, Connected, StillLives
<1>3. CASE (\E r : SignalExecute(r)) \/ SignalStep
  BY <1>2, <1>3, SpyIsEnabled, SpiesAreCleared
  DEF SignalExecute, SignalStep, SignalHasOccured, CrashIf, application
<1> QED
  BY <1>1, <1>2, <1>3, SpiesStandWidgets

(* Whatever signals are enabled and removed while the objects they are of  *)
(* are destroyed and others get their addresses: the only spies that may   *)
(* be called with a container that was deleted are those whose signal was  *)
(* enabled again, on the same object, before remove_signals; and the only  *)
(* files that are kept after they were deleted are those beside another    *)
(* property of their object (TasSignalPlugin::clearSignals,                *)
(* TasPropertyLogger::stopLogger).                                         *)
THEOREM NothingEverDangles == Spec => []NothingDangles
<1>1. Init => LogsInv
  BY DEF Init, FixtureInit, PropertyInit, LogsInv, LogsAreOpen
<1>2. LogsInv /\ SpiesInv => NothingDangles
  BY DEF LogsInv, SpiesInv, KeptInModel, SpiesHaveTheirModel, NothingDangles
<1> QED
  BY <1>1, <1>2, LivesInit, LivesStep, SpiesInit, SpiesStep, LogsStep, PTL DEF Spec

-----------------------------------------------------------------------------
(* The frames of widgets.                                                  *)

Measurers == [on : Nat, times : Nat, told : Nat, values : Nat, counter : Nat]

(* What a measurer keeps of t; a widget that is no window is counted once. *)
Measures(m, t, lives, frames0) ==
    /\ m \in Measurers
    /\ m.on <= lives /\ (m.on # 0 => m.times > 0)
    /\ t \notin QuickWindows =>
          /\ m.on # 0 => m.times = 1
          /\ m.on = lives => m.told + m.values + m.counter = frames0

FpsInv ==
    /\ shown \in [Targets -> Nat] /\ DOMAIN fpsCounters \subseteq Targets
    /\ \A t \in DOMAIN fpsCounters : Measures(fpsCounters[t], t, life[t], shown[t])

(* A frame is one more in the end, and only windows are told it again.     *)
LEMMA FrameIsCounted ==
    ASSUME NEW m, NEW t, NEW l \in Nat \ {0}, NEW n \in Nat, Measures(m, t, l, n), m.on = l,
           NEW late \in BOOLEAN
    PROVE  Measures([CollectFps(m, late) EXCEPT !.counter = @ + m.times - 1], t, l, n + 1)
<1>1. /\ m \in Measurers /\ m.on \in Nat /\ m.times \in Nat \ {0} /\ m.told \in Nat /\ m.values \in Nat
      /\ m.counter \in Nat
  BY DEF Measures, Measurers
<1>2. PICK q : q = CollectFps(m, late)
  OBVIOUS
<1>3. /\ q \in Measurers /\ q.on = m.on /\ q.times = m.times /\ q.told = m.told
      /\ q.values + q.counter = m.values + m.counter + 1
  <2>1. CASE m.counter = 0 \/ ~late
    <3>1. q = [m EXCEPT !.counter = m.counter + 1]
      BY <1>2, <2>1 DEF CollectFps
    <3>2. /\ q \in Measurers /\ q.on = m.on /\ q.times = m.times /\ q.told = m.told
          /\ q.values = m.values /\ q.counter = m.counter + 1
      BY <1>1, <3>1 DEF Measurers
    <3> QED
      BY <1>1, <3>2
  <2>2. CASE ~(m.counter = 0 \/ ~late)
    <3>0. PICK k \in Nat : k = m.values + m.counter
      BY <1>1
    <3>1. q = [m EXCEPT !.values = k, !.counter = 1]
      BY <1>2, <2>2, <3>0 DEF CollectFps
    <3>2. /\ q \in Measurers /\ q.on = m.on /\ q.times = m.times /\ q.told = m.told
          /\ q.values = k /\ q.counter = 1
      BY <1>1, <3>1 DEF Measurers
    <3> QED
      BY <1>1, <3>0, <3>2
  <2> QED
    BY <2>1, <2>2
<1>4. PICK r : r = [q EXCEPT !.counter = q.counter + m.times - 1]
  OBVIOUS
<1>5. q.counter + m.times - 1 \in Nat /\ q.counter \in Nat /\ q.values \in Nat
  BY <1>1, <1>3 DEF Measurers
<1>6. /\ r \in Measurers /\ r.on = m.on /\ r.times = m.times /\ r.told = m.told
      /\ r.values = q.values /\ r.counter = q.counter + m.times - 1
  BY <1>3, <1>4, <1>5 DEF Measurers
<1>7. ASSUME t \notin QuickWindows
      PROVE  m.times = 1 /\ m.told + m.values + m.counter = n
  BY <1>7 DEF Measures
<1>8. t \notin QuickWindows => r.told + r.values + r.counter = n + 1
  BY <1>1, <1>3, <1>5, <1>6, <1>7
<1>9. Measures(r, t, l, n + 1)
  BY <1>1, <1>6, <1>7, <1>8 DEF Measures
<1> QED
  BY <1>2, <1>4, <1>9

LEMMA CollectingKeeps ==
    ASSUME NEW m, NEW t, NEW l \in Nat \ {0}, NEW n \in Nat, Measures(m, t, l, n)
    PROVE  /\ Measures(Restarted(m), t, l, n)
           /\ Measures([Restarted(m) EXCEPT !.on = 0, !.times = 0], t, l, n)
<1>1. /\ m \in Measurers /\ m.on \in Nat /\ m.times \in Nat /\ m.told \in Nat /\ m.values \in Nat
      /\ m.counter \in Nat
  BY DEF Measures, Measurers
<1>2. PICK r : r = Restarted(m)
  OBVIOUS
<1>20. PICK k \in Nat : k = m.told + (m.values + m.counter)
  BY <1>1
<1>3. r = [m EXCEPT !.told = k, !.values = 0, !.counter = 0]
  BY <1>2, <1>20 DEF Restarted, CollectedData
<1>4. /\ r \in Measurers /\ r.on = m.on /\ r.times = m.times /\ r.values = 0 /\ r.counter = 0
      /\ r.told = k
  BY <1>1, <1>3 DEF Measurers
<1>5. Measures(r, t, l, n)
  BY <1>1, <1>20, <1>4 DEF Measures
<1>6. PICK s : s = [r EXCEPT !.on = 0, !.times = 0]
  OBVIOUS
<1>7. s \in Measurers /\ s.on = 0
  BY <1>4, <1>6 DEF Measurers
<1>8. Measures(s, t, l, n)
  BY <1>7 DEF Measures
<1> QED
  BY <1>2, <1>5, <1>6, <1>8

LEMMA StartingMeasures ==
    ASSUME NEW t, NEW l \in Nat \ {0}, NEW k \in Nat \ {0}, t \notin QuickWindows => k = 1
    PROVE  Measures([NotMeasured(t) EXCEPT !.on = l, !.times = k], t, l, 0)
<1>1. PICK m : m = NotMeasured(t)
  OBVIOUS
<1>2. m \in Measurers /\ m.told = 0 /\ m.values = 0 /\ m.counter = 0
  BY <1>1 DEF NotMeasured, Measurers
<1>3. PICK r : r = [m EXCEPT !.on = l, !.times = k]
  OBVIOUS
<1>4. /\ r \in Measurers /\ r.on = l /\ r.times = k /\ r.told = 0 /\ r.values = 0
      /\ r.counter = 0
  BY <1>2, <1>3 DEF Measurers
<1>5. Measures(r, t, l, 0)
  BY <1>4 DEF Measures
<1> QED
  BY <1>1, <1>3, <1>5

LEMMA FpsStands ==
    ASSUME Lives, FpsInv, (\E r : FpsExecute(r)) \/ FpsStep
    PROVE  FpsInv'
<1> USE DEF FpsInv, Lives
<1>1. ASSUME UNCHANGED <<fpsCounters, shown, life>>
      PROVE  FpsInv'
  BY <1>1
<1>2. ASSUME NEW t, StartFps(t)
      PROVE  FpsInv'
  <2>1. CASE t \notin alive
    BY <1>1, <1>2, <2>1 DEF StartFps, frameRates, application
  <2>2. CASE t \in alive
    <3>1. /\ fpsCounters' = With(fpsCounters, t, [NotMeasured(t) EXCEPT
                                !.on = life[t], !.times = Connections(Measurer(t), t)])
          /\ shown' = [shown EXCEPT ![t] = 0] /\ life' = life
      BY <1>2, <2>2 DEF StartFps, application
    <3>2. /\ Connections(Measurer(t), t) \in Nat \ {0}
          /\ t \notin QuickWindows => Connections(Measurer(t), t) = 1
      BY <2>2 DEF Connections, Measurer, NotMeasured, Measures, Measurers
    <3>3. t \in Targets /\ life[t] \in Nat \ {0}
      BY <2>2
    <3>4. \A u \in DOMAIN fpsCounters' : Measures(fpsCounters'[u], u, life[u], shown'[u])
      BY <3>1, <3>2, <3>3, StartingMeasures DEF With
    <3> QED
      BY <3>1, <3>3, <3>4 DEF With
  <2> QED
    BY <2>1, <2>2
<1>3. ASSUME NEW t \in alive \cap DOMAIN fpsCounters, NEW m,
             fpsCounters' = [fpsCounters EXCEPT ![t] = m], UNCHANGED <<shown, life>>,
             Measures(m, t, life[t], shown[t])
      PROVE  FpsInv'
  BY <1>3
<1>4. ASSUME NEW t, CollectData(t) \/ StopFps(t)
      PROVE  FpsInv'
  <2>1. CASE t \in alive /\ t \in DOMAIN fpsCounters
    <3>1. life[t] \in Nat \ {0} /\ shown[t] \in Nat
          /\ Measures(fpsCounters[t], t, life[t], shown[t])
      BY <2>1
    <3>2. /\ Measures(Restarted(fpsCounters[t]), t, life[t], shown[t])
          /\ Measures([Restarted(fpsCounters[t]) EXCEPT !.on = 0, !.times = 0], t, life[t], shown[t])
      BY <3>1, CollectingKeeps
    <3>3. \/ fpsCounters' = [fpsCounters EXCEPT ![t] = Restarted(fpsCounters[t])]
          \/ fpsCounters' = [fpsCounters EXCEPT ![t] =
                                [Restarted(fpsCounters[t]) EXCEPT !.on = 0, !.times = 0]]
      BY <1>4, <2>1 DEF CollectData, StopFps
    <3>4. UNCHANGED <<shown, life>>
      BY <1>4 DEF CollectData, StopFps, application
    <3> QED
      BY <1>3, <2>1, <3>2, <3>3, <3>4
  <2>2. CASE ~(t \in alive /\ t \in DOMAIN fpsCounters)
    BY <1>1, <1>4, <2>2 DEF CollectData, StopFps, application
  <2> QED
    BY <2>1, <2>2
<1>5. ASSUME NEW t \in Targets, NEW late \in BOOLEAN, Frame(t, late)
      PROVE  FpsInv'
  <2>1. t \in alive /\ shown' = [shown EXCEPT ![t] = shown[t] + 1] /\ life' = life
    BY <1>5 DEF Frame, application
  <2>2. life[t] \in Nat \ {0} /\ shown[t] \in Nat /\ shown' \in [Targets -> Nat]
    BY <2>1
  <2>3. CASE t \in DOMAIN fpsCounters /\ fpsCounters[t].on = life[t]
    <3>1. fpsCounters' = [fpsCounters EXCEPT ![t] =
              [CollectFps(fpsCounters[t], late) EXCEPT !.counter = @ + fpsCounters[t].times - 1]]
      BY <1>5, <2>1, <2>3 DEF Frame, Measurer, StillLives
    <3>2. Measures([CollectFps(fpsCounters[t], late) EXCEPT
                        !.counter = @ + fpsCounters[t].times - 1], t, life[t], shown[t] + 1)
      BY <2>2, <2>3, FrameIsCounted
    <3> QED
      BY <2>1, <2>2, <3>1, <3>2
  <2>4. CASE ~(t \in DOMAIN fpsCounters /\ fpsCounters[t].on = life[t])
    <3>1. fpsCounters' = fpsCounters
      BY <1>5, <2>2, <2>4 DEF Frame, Measurer, NotMeasured, StillLives
    <3>2. \A u \in DOMAIN fpsCounters : Measures(fpsCounters[u], u, life[u], shown'[u])
      BY <2>1, <2>4 DEF Measures
    <3> QED
      BY <2>1, <2>2, <3>1, <3>2
  <2> QED
    BY <2>3, <2>4
<1> QED
  BY <1>2, <1>4, <1>5 DEF FpsExecute, FpsStep

LEMMA FpsStandsWidgets ==
    ASSUME Lives, FpsInv, WidgetsChange
    PROVE  FpsInv'
<1>1. UNCHANGED <<fpsCounters, shown>>
  BY DEF WidgetsChange, services, fixtures, frameRates
<1>2. PICK t \in Targets : Close(t) \/ Open(t)
  BY DEF WidgetsChange
<1>3. life' = life \/ life' = [life EXCEPT ![t] = life[t] + 1]
  BY <1>2 DEF Close, Open
<1>4. \A u \in DOMAIN fpsCounters : Measures(fpsCounters[u], u, life'[u], shown[u])
  BY <1>3 DEF FpsInv, Lives, Measures, Measurers
<1> QED
  BY <1>1, <1>4 DEF FpsInv

LEMMA FpsInvStep == Lives /\ FpsInv /\ [Next]_vars => FpsInv'
<1> SUFFICES ASSUME Lives, FpsInv, [Next]_vars PROVE FpsInv'
  OBVIOUS
<1>1. \/ WidgetsChange
      \/ UNCHANGED <<frameRates, alive, life>>
      \/ (\E r : FpsExecute(r)) \/ FpsStep
  BY StepsOfServices, FixtureSteps, PropertiesLeaveWidgets, SignalsLeaveWidgets,
     PopupsLeaveWidgets, EventsLeaveWidgets, LoggerLeavesWidgets DEF FixtureChanges, fixtures
<1>2. CASE UNCHANGED <<frameRates, alive, life>>
  BY <1>2 DEF FpsInv, frameRates
<1> QED
  BY <1>1, <1>2, FpsStands, FpsStandsWidgets

(* However the measuring of a widget is started again, collected and       *)
(* stopped between its frames, and whoever gets its address: what was      *)
(* reported and what is kept add up to the frames it had                   *)
(* (FspMeasurer::collectFps, collectedData).                               *)
THEOREM FramesAlwaysAddUp == Spec => []FramesAddUp
<1>1. Init => FpsInv
  BY DEF Init, WidgetsInit, FixtureInit, FpsInit, FpsInv
<1>2. Lives /\ FpsInv => FramesAddUp
  BY DEF FpsInv, Lives, Measures, Measurers, FramesAddUp, StillLives, CollectedData
<1> QED
  BY <1>1, <1>2, LivesInit, LivesStep, FpsInvStep, PTL DEF Spec

-----------------------------------------------------------------------------
(* The records of events.                                                  *)

FilterFields == {"on", "listens", "track", "found", "events"}
DueFields == {"request", "life", "events"}

(* A filter f does what the last request that enabled it, of d, asked for. *)
Follows(f, d, k) ==
    /\ DOMAIN f = FilterFields /\ DOMAIN d = DueFields
    /\ d.request.target = k /\ d.life = f.on
    /\ d.request.listens = f.listens /\ d.request.track = f.track
    /\ ~f.found => f.events = d.events

RecordingInv ==
    /\ DOMAIN due = DOMAIN filters
    /\ \A k \in DOMAIN filters : Follows(filters[k], due[k], k)

LEMMA EnablingFollows ==
    ASSUME RecordingInv, NEW r, EnableEvents(r)
    PROVE  RecordingInv'
<1>1. CASE UNCHANGED <<filters, due>>
  BY <1>1 DEF RecordingInv
<1>2. CASE Exists(r.target)
  <2> DEFINE known == r.target \in DOMAIN filters
  <2>1. PICK f : f = IF known THEN filters[r.target]
                     ELSE [on |-> 0, listens |-> {}, track |-> NoTrack, found |-> FALSE,
                           events |-> <<>>]
    OBVIOUS
  <2>2. PICK told1 : told1 = IF known THEN due[r.target].events ELSE <<>>
    OBVIOUS
  <2>3. PICK g : g = StartFiltering(f, r)
    OBVIOUS
  <2>4. PICK d : d = [request |-> r, life |-> LifeOf(r.target), events |-> told1]
    OBVIOUS
  <2>5. filters' = With(filters, r.target, g) /\ due' = With(due, r.target, d)
    BY <1>2, <2>1, <2>2, <2>3, <2>4 DEF EnableEvents
  <2>6. DOMAIN f = FilterFields /\ (~f.found => f.events = told1)
    BY <2>1, <2>2 DEF RecordingInv, Follows, FilterFields
  <2>7. /\ DOMAIN g = FilterFields /\ g.on = LifeOf(r.target) /\ g.listens = r.listens
        /\ g.track = r.track /\ g.found = f.found /\ g.events = f.events
    BY <2>3, <2>6 DEF StartFiltering, FilterFields
  <2>8. Follows(g, d, r.target)
    BY <2>4, <2>6, <2>7 DEF Follows, DueFields
  <2> QED
    BY <2>5, <2>8 DEF RecordingInv, With
<1> QED
  BY <1>1, <1>2 DEF EnableEvents

LEMMA EventFollows ==
    ASSUME RecordingInv, NEW k, NEW e, Event(k, e)
    PROVE  RecordingInv'
<1> DEFINE gets(j, l) == j = App \/ (j = k /\ l = LifeOf(k))
           told1(d) == IF gets(d.request.target, d.life) /\ Listens(d.request, e)
                          /\ d.request.track = NoTrack
                       THEN [d EXCEPT !.events = Append(@, <<e, k, LifeOf(k)>>)] ELSE d
           seen(j) == IF gets(j, filters[j].on) THEN EventFilter(filters[j], k, e) ELSE filters[j]
<1>1. /\ filters' = [j \in DOMAIN filters |-> seen(j)]
      /\ due' = [j \in DOMAIN due |-> told1(due[j])]
  BY DEF Event
<1>2. ASSUME NEW j \in DOMAIN filters
      PROVE  Follows(seen(j), told1(due[j]), j)
  <2>1. PICK f, d : f = filters[j] /\ d = due[j]
    OBVIOUS
  <2>2. Follows(f, d, j)
    BY <2>1 DEF RecordingInv
  <2>3. gets(d.request.target, d.life) <=> gets(j, f.on)
    BY <2>2 DEF Follows
  <2>4. Listens(d.request, e) <=> Listens(f, e)
    BY <2>2 DEF Follows, Listens
  <2>5. PICK g : g = IF gets(j, f.on) THEN EventFilter(f, k, e) ELSE f
    OBVIOUS
  <2>6. PICK c : c = told1(d)
    OBVIOUS
  <2> HIDE DEF gets
  <2>7. /\ DOMAIN g = FilterFields /\ g.on = f.on /\ g.listens = f.listens /\ g.track = f.track
    BY <2>2, <2>5 DEF EventFilter, Follows, FilterFields
  <2>8. /\ DOMAIN c = DueFields /\ c.request = d.request /\ c.life = d.life
    BY <2>2, <2>6 DEF Follows, DueFields
  <2>9. ASSUME ~g.found
        PROVE  g.events = c.events
    <3>1. CASE gets(j, f.on) /\ ~f.found /\ Listens(f, e) /\ f.track = NoTrack /\ f.track # k
      <4>1. g.events = Append(f.events, <<e, k, LifeOf(k)>>)
        BY <2>2, <2>5, <3>1 DEF EventFilter, Follows, FilterFields
      <4>2. d.request.track = NoTrack
        BY <2>2, <3>1 DEF Follows
      <4>3. c = [d EXCEPT !.events = Append(d.events, <<e, k, LifeOf(k)>>)]
        BY <2>3, <2>4, <2>6, <3>1, <4>2
      <4>4. c.events = Append(d.events, <<e, k, LifeOf(k)>>)
        BY <2>2, <4>3 DEF Follows, DueFields
      <4> QED
        BY <2>2, <3>1, <4>1, <4>4 DEF Follows
    <3>2. CASE gets(j, f.on) /\ ~f.found /\ Listens(f, e) /\ f.track = k
      BY <2>2, <2>5, <2>9, <3>2 DEF EventFilter, Follows, FilterFields
    <3>3. CASE ~(gets(j, f.on) /\ Listens(f, e) /\ f.track \in {NoTrack, k})
      <4>1. g = f
        BY <2>5, <3>3 DEF EventFilter
      <4>2. c = d
        BY <2>2, <2>3, <2>4, <2>6, <3>3 DEF Follows
      <4> QED
        BY <2>2, <2>9, <4>1, <4>2 DEF Follows
    <3>4. CASE f.found
      BY <2>2, <2>5, <2>9, <3>4 DEF EventFilter, Follows, FilterFields
    <3> QED
      BY <3>1, <3>2, <3>3, <3>4
  <2>10. Follows(g, c, j)
    BY <2>2, <2>7, <2>8, <2>9 DEF Follows
  <2> QED
    BY <2>1, <2>5, <2>6, <2>10
<1> HIDE DEF seen, told1
<1> QED
  BY <1>1, <1>2 DEF RecordingInv

LEMMA StartFollows ==
    ASSUME RecordingInv, AddProcessStartEvent
    PROVE  RecordingInv'
<1> DEFINE start(x) == [x EXCEPT !.events = Append(@, <<"start", App, 0>>)]
<1>1. ASSUME NEW f, NEW d, Follows(f, d, App)
      PROVE  Follows(start(f), start(d), App)
  BY <1>1 DEF Follows, FilterFields, DueFields
<1>2. /\ filters' = [j \in DOMAIN filters |-> IF j = App THEN start(filters[j]) ELSE filters[j]]
      /\ due' = [j \in DOMAIN due |-> IF j = App THEN start(due[j]) ELSE due[j]]
  BY DEF AddProcessStartEvent
<1> HIDE DEF start
<1> QED
  BY <1>1, <1>2 DEF RecordingInv

LEMMA RecordingStep == RecordingInv /\ [Next]_vars => RecordingInv'
<1> SUFFICES ASSUME RecordingInv, [Next]_vars PROVE RecordingInv'
  OBVIOUS
<1>1. UNCHANGED recording \/ EventRequest \/ RecorderRequest \/ EventStep
  BY StepsOfServices DEF WidgetsChange, services
<1>2. ASSUME UNCHANGED <<filters, due>> PROVE RecordingInv'
  BY <1>2 DEF RecordingInv
<1>3. CASE UNCHANGED recording
  BY <1>2, <1>3 DEF recording
<1>4. CASE EventRequest
  <2>1. PICK r : EnableEvents(r) \/ DisableEvents(r)
    BY <1>4 DEF EventRequest
  <2>2. CASE DisableEvents(r)
    BY <2>2 DEF DisableEvents, RecordingInv, Restrict
  <2> QED
    BY <2>1, <2>2, EnablingFollows
<1>5. CASE RecorderRequest
  BY <1>2, <1>5 DEF RecorderRequest, RecorderCommand
<1>6. CASE EventStep
  BY <1>6, EventFollows, StartFollows DEF EventStep
<1> QED
  BY <1>1, <1>3, <1>4, <1>5, <1>6

(* Whatever filters are enabled again, found, or left behind by an object  *)
(* whose address another one gets: a filter that has not found what it     *)
(* waited for has recorded the events it was enabled for, each once and in *)
(* order (TasEventFilter::eventFilter).                                    *)
THEOREM NothingIsMissed == Spec => []NothingMissed
<1>1. Init => RecordingInv
  BY DEF Init, EventInit, RecordingInv
<1>2. RecordingInv => NothingMissed
  BY DEF RecordingInv, Follows, NothingMissed
<1> QED
  BY <1>1, <1>2, RecordingStep, PTL DEF Spec

-----------------------------------------------------------------------------
(* The logs of resources.                                                  *)

LEMMA ResourceStands ==
    ASSUME NEW s, NEW c, DOMAIN s = {"on", "file", "lines"}, s.on \in BOOLEAN,
           s.on <=> s.file # "none"
    PROVE  LogService(s, c).on <=> LogService(s, c).file # "none"
<1>1. CASE c.action = "start"
  BY <1>1 DEF LogService, StartLog
<1>2. CASE c.action # "start" /\ s.file = "none"
  BY <1>2 DEF LogService, StopOrLoad
<1>3. CASE c.action # "start" /\ s.file # "none"
  <2>1. PICK l : l = LoadData(s, c)
    OBVIOUS
  <2>2. DOMAIN l = {"on", "file", "lines"} /\ l.on = TRUE /\ l.file # "none"
    BY <1>3, <2>1 DEF LoadData
  <2>3. CASE c.action # "stop"
    BY <1>3, <2>1, <2>2, <2>3 DEF LogService, StopOrLoad
  <2>4. CASE c.action = "stop"
    BY <1>3, <2>1, <2>2, <2>4 DEF LogService, StopOrLoad
  <2> QED
    BY <2>3, <2>4
<1> QED
  BY <1>1, <1>2, <1>3

LEMMA ResourcesStep == TicksWhileLogging /\ [Next]_vars => TicksWhileLogging'
<1> SUFFICES ASSUME TicksWhileLogging, [Next]_vars PROVE TicksWhileLogging'
  OBVIOUS
<1>1. UNCHANGED resourceLogs \/ InfoRequest \/ InfoTimerEvent
  BY StepsOfServices DEF WidgetsChange, services
<1>2. CASE UNCHANGED resourceLogs \/ InfoTimerEvent
  BY <1>2 DEF resourceLogs, InfoTimerEvent, TicksWhileLogging
<1>3. CASE InfoRequest
  <2>1. PICK R \in SUBSET Resources : \E commands \in [R -> LogCommands] :
            PerformLogService(commands)
    BY <1>3 DEF InfoRequest
  <2>2. PICK commands \in [R -> LogCommands] : PerformLogService(commands)
    BY <2>1
  <2> DEFINE after == [r \in Resources |-> IF r \in DOMAIN commands
                                         THEN LogService(Now(r), commands[r]) ELSE Now(r)]
  <2>3. /\ bits' = {r \in Resources : after[r].on}
        /\ file' = [r \in Resources |-> after[r].file]
        /\ infoTimer' = (bits' # {})
    BY <2>2 DEF PerformLogService, CheckLoggerState
  <2>4. ASSUME NEW r \in Resources
        PROVE  after[r].on <=> after[r].file # "none"
    <3>0. r \in bits <=> file[r] # "none"
      BY DEF TicksWhileLogging
    <3>1. DOMAIN Now(r) = {"on", "file", "lines"} /\ Now(r).file = file[r]
      BY DEF Now
    <3>2. Now(r).on = (r \in bits)
      BY Zenon DEF Now
    <3>3. Now(r).on \in BOOLEAN /\ (Now(r).on <=> Now(r).file # "none")
      <4>1. Now(r).on \in BOOLEAN
        BY <3>2
      <4>2. Now(r).on <=> r \in bits
        BY <3>2, Zenon
      <4> QED
        BY <3>0, <3>1, <4>1, <4>2
    <3>4. CASE r \in DOMAIN commands
      BY <3>1, <3>3, <3>4, ResourceStands
    <3>5. CASE r \notin DOMAIN commands
      BY <3>3, <3>5
    <3> QED
      BY <3>4, <3>5
  <2> HIDE DEF after
  <2> QED
    BY <2>3, <2>4 DEF TicksWhileLogging
<1> QED
  BY <1>1, <1>2, <1>3

-----------------------------------------------------------------------------
(* The log of the application.                                             *)

(* The lines of a folder are those that were written last: the old file    *)
(* has the earlier ones.                                                   *)
EndsWith(old, now, kept) == \E gone \in Seq(Nat) : kept = (gone \o old) \o now

FolderFiles == [now : Seq(Nat), old : Seq(Nat), kept : Seq(Nat)]

FoldersKeep(fs) ==
    /\ fs \in [Folders -> FolderFiles]
    /\ \A f \in Folders : EndsWith(fs[f].old, fs[f].now, fs[f].kept)

(* Of a logger and its folders.                                            *)
LogFits(l) ==
    l \in [level : Nat, toQDebug : BOOLEAN, size : Nat, folder : Folders, enabled : BOOLEAN,
          out : {"open", "closed", "none"}, rollDue : BOOLEAN]
Keeps(s) == DOMAIN s = {"log", "folders"} /\ LogFits(s.log) /\ FoldersKeep(s.folders)

LEMMA OfThree ==
    ASSUME NEW a \in Seq(Nat), NEW b \in Seq(Nat), NEW c \in Seq(Nat)
    PROVE  (a \o b) \o c = a \o (b \o c)
  BY ConcatAssociative

LEMMA OfTwo ==
    ASSUME NEW a \in Seq(Nat), NEW b \in Seq(Nat)
    PROVE  a \o b \in Seq(Nat) /\ a \o <<>> = a
<1>1. a \o b \in Seq(Nat)
  BY ConcatProperties
<1>2. a \o <<>> = a
  BY ConcatEmptySeq
<1> QED
  BY <1>1, <1>2

LEMMA OneMore ==
    ASSUME NEW a \in Seq(Nat), NEW n \in Nat
    PROVE  Append(a, n) \in Seq(Nat) /\ <<n>> \in Seq(Nat) /\ Append(a, n) = a \o <<n>>
<1>1. Append(a, n) \in Seq(Nat) /\ <<n>> \in Seq(Nat)
  OBVIOUS
<1>2. a \o <<n>> \in Seq(Nat)
  BY <1>1, ConcatProperties
<1>3. Len(a \o <<n>>) = Len(a) + 1 /\ Len(Append(a, n)) = Len(a) + 1
  OBVIOUS
<1>4. \A i \in 1..Len(a) + 1 : (a \o <<n>>)[i] = Append(a, n)[i]
  OBVIOUS
<1> QED
  BY <1>1, <1>2, <1>3, <1>4, SeqEqual

LEMMA AppendToEnd ==
    ASSUME NEW a \in Seq(Nat), NEW b \in Seq(Nat), NEW n \in Nat
    PROVE  Append(a \o b, n) = a \o Append(b, n)
<1>1. PICK e \in Seq(Nat) : e = <<n>> /\ Append(b, n) = b \o e
  BY OneMore
<1>2. PICK ab \in Seq(Nat) : ab = a \o b
  BY OfTwo
<1>3. Append(ab, n) = ab \o <<n>>
  BY ONLY OneMore, ab \in Seq(Nat), n \in Nat
<1>4. (a \o b) \o e = a \o (b \o e)
  BY ONLY a \in Seq(Nat), b \in Seq(Nat), e \in Seq(Nat), OfThree
<1> QED
  BY ONLY <1>1, <1>2, <1>3, <1>4

LEMMA Reversed ==
    ASSUME NEW s \in Seq(Nat)
    PROVE  /\ Reverse(s) \in Seq(Nat) /\ Len(Reverse(s)) = Len(s)
           /\ \A i \in 1..Len(s) : Reverse(s)[i] = s[(Len(s) - i) + 1]
<1>1. PICK n \in Nat : n = Len(s)
  BY LenProperties
<1>2. ASSUME NEW i \in 1..n PROVE s[(n - i) + 1] \in Nat
  <2>1. (n - i) + 1 \in 1..Len(s)
    BY ONLY <1>1, i \in 1..n, n \in Nat
  <2> QED
    BY <2>1, ElementOfSeq
<1>3. Reverse(s) = [i \in 1..n |-> s[(n - i) + 1]]
  BY <1>1 DEF Reverse
<1>4. Reverse(s) \in Seq(Nat) /\ Len(Reverse(s)) = n
  BY <1>2, <1>3
<1> QED
  BY <1>1, <1>3, <1>4

LEMMA EndIsSuffix ==
    ASSUME NEW old \in Seq(Nat), NEW now \in Seq(Nat), NEW kept \in Seq(Nat),
           EndsWith(old, now, kept)
    PROVE  IsSuffix(old \o now, kept)
<1>1. PICK p \in Seq(Nat) : kept = (p \o old) \o now
  BY DEF EndsWith
<1>2. (p \o old) \o now = p \o (old \o now)
  BY ONLY OfThree, p \in Seq(Nat), old \in Seq(Nat), now \in Seq(Nat)
<1>3. PICK s : s = old \o now /\ kept = p \o s
  BY ONLY <1>1, <1>2
<1>4. s \in Seq(Nat)
  BY <1>3, ConcatProperties
<1>5. /\ Len(kept) = Len(p) + Len(s) /\ Len(s) \in Nat /\ Len(p) \in Nat
      /\ \A i \in 1..Len(p) + Len(s) : kept[i] = IF i <= Len(p) THEN p[i] ELSE s[i - Len(p)]
  BY <1>3, <1>4, ConcatProperties, LenProperties
<1>6. PICK r, q : r = Reverse(s) /\ q = Reverse(kept)
  OBVIOUS
<1>7. /\ r \in Seq(Nat) /\ Len(r) = Len(s)
      /\ \A i \in 1..Len(s) : r[i] = s[(Len(s) - i) + 1]
  BY <1>4, <1>6, Reversed
<1>8. /\ q \in Seq(Nat) /\ Len(q) = Len(kept)
      /\ \A i \in 1..Len(kept) : q[i] = kept[(Len(kept) - i) + 1]
  BY <1>6, Reversed
<1>9. \A i \in 1..Len(s) : r[i] = q[i]
  <2> SUFFICES ASSUME NEW i \in 1..Len(s) PROVE r[i] = q[i]
    OBVIOUS
  <2>1. (Len(kept) - i) + 1 \in Nat
    BY <1>5
  <2> DEFINE k == (Len(kept) - i) + 1
  <2>2. /\ k \in 1..Len(p) + Len(s) /\ ~(k <= Len(p)) /\ k - Len(p) = (Len(s) - i) + 1
        /\ i \in 1..Len(kept)
    BY <1>5, <2>1
  <2>3. kept[k] = s[(Len(s) - i) + 1]
    <3> HIDE DEF k
    <3>1. kept[k] = s[k - Len(p)]
      BY <1>5, <2>1, <2>2
    <3> QED
      BY <2>2, <3>1
  <2> QED
    BY <1>7, <1>8, <2>1, <2>2, <2>3
<1>10. SubSeq(r, 1, Len(r)) = SubSeq(q, 1, Len(r))
  BY <1>5, <1>7, <1>8, <1>9
<1>11. Len(r) <= Len(q)
  BY <1>5, <1>7, <1>8
<1> QED
  BY <1>3, <1>6, <1>10, <1>11 DEF IsSuffix, IsPrefix

LEMMA FolderChanges ==
    ASSUME NEW fs, FoldersKeep(fs), NEW f \in Folders, NEW g \in FolderFiles,
           EndsWith(g.old, g.now, g.kept)
    PROVE  FoldersKeep([fs EXCEPT ![f] = g])
  BY DEF FoldersKeep

LEMMA FilesOf ==
    ASSUME NEW g \in FolderFiles
    PROVE  /\ g.now \in Seq(Nat) /\ g.old \in Seq(Nat) /\ g.kept \in Seq(Nat)
           /\ DOMAIN g = {"now", "old", "kept"}
  BY DEF FolderFiles

LEMMA RollingKeeps ==
    ASSUME NEW g \in FolderFiles, EndsWith(g.old, g.now, g.kept)
    PROVE  /\ Rolled(g) \in FolderFiles
           /\ EndsWith(Rolled(g).old, Rolled(g).now, Rolled(g).kept)
<1>1. PICK h : h = Rolled(g)
  OBVIOUS
<1>2. <<>> \in Seq(Nat) /\ g.now \in Seq(Nat)
  BY FilesOf
<1>3. h \in FolderFiles /\ h.now = <<>> /\ h.old = g.now /\ h.kept = g.kept
  BY <1>1, <1>2 DEF Rolled, FolderFiles
<1>4. PICK q \in Seq(Nat) : g.kept = q \o g.now
  BY FilesOf, ConcatProperties DEF EndsWith
<1>5. g.kept = (q \o g.now) \o <<>>
  <2>1. g.kept \o <<>> = g.kept
    BY FilesOf, OfTwo
  <2> QED
    BY <1>4, <2>1
<1>6. EndsWith(h.old, h.now, h.kept)
  BY <1>3, <1>5 DEF EndsWith
<1> QED
  BY <1>1, <1>3, <1>6

LEMMA ClearingKeeps ==
    ASSUME NEW g \in FolderFiles, EndsWith(g.old, g.now, g.kept),
           NEW h, h = [g EXCEPT !.now = <<>>, !.kept = SubSeq(@, 1, Len(@) - Len(g.now))]
    PROVE  h \in FolderFiles /\ EndsWith(h.old, h.now, h.kept)
<1>1. PICK p \in Seq(Nat) : g.kept = (p \o g.old) \o g.now
  BY DEF EndsWith
<1>2. PICK q \in Seq(Nat) : q = p \o g.old
  BY FilesOf, ConcatProperties
<1>3. g.kept = q \o g.now
  BY <1>1, <1>2
<1>4. PICK k : k = SubSeq(g.kept, 1, Len(g.kept) - Len(g.now))
  OBVIOUS
<1>5. /\ Len(g.kept) = Len(q) + Len(g.now) /\ Len(q) \in Nat /\ Len(g.now) \in Nat
      /\ \A i \in 1..Len(q) : g.kept[i] = q[i]
  BY <1>3, FilesOf, ConcatProperties, LenProperties
<1>6. Len(g.kept) - Len(g.now) = Len(q)
  BY <1>5
<1>7. \A i \in 1..Len(q) : g.kept[i] \in Nat
  BY <1>5, ElementOfSeq
<1>8. /\ k \in Seq(Nat) /\ Len(k) = Len(q)
      /\ \A i \in 1..Len(q) : k[i] = g.kept[i]
  <2>1. k = SubSeq(g.kept, 1, Len(q))
    BY <1>4, <1>6
  <2> QED
    BY <1>5, <1>7, <2>1, SubSeqProperties
<1>9. k = q
  BY <1>5, <1>8, SeqEqual
<1>10. <<>> \in Seq(Nat)
  OBVIOUS
<1>11. h = [g EXCEPT !.now = <<>>, !.kept = q]
  BY <1>4, <1>9
<1>12. h \in FolderFiles /\ h.now = <<>> /\ h.kept = q /\ h.old = g.old
  BY <1>10, <1>11 DEF FolderFiles
<1>13. q = (p \o g.old) \o <<>>
  <2>1. q \o <<>> = q
    BY OfTwo
  <2> QED
    BY <1>2, <2>1
<1> QED
  BY <1>12, <1>13 DEF EndsWith

LEMMA WritingKeeps ==
    ASSUME NEW g \in FolderFiles, EndsWith(g.old, g.now, g.kept), NEW n \in Nat,
           NEW h, h = [g EXCEPT !.now = Append(@, n), !.kept = Append(@, n)]
    PROVE  h \in FolderFiles /\ EndsWith(h.old, h.now, h.kept)
<1>1. PICK p \in Seq(Nat) : g.kept = (p \o g.old) \o g.now
  BY DEF EndsWith
<1>2. PICK q \in Seq(Nat) : q = p \o g.old
  BY FilesOf, ConcatProperties
<1>3. PICK k \in Seq(Nat), m \in Seq(Nat) : k = Append(g.kept, n) /\ m = Append(g.now, n)
  BY FilesOf, OneMore
<1>4. Append(q \o g.now, n) = q \o Append(g.now, n)
  BY FilesOf, AppendToEnd
<1>5. k = (p \o g.old) \o m
  BY <1>1, <1>2, <1>3, <1>4
<1>6. h = [g EXCEPT !.now = m, !.kept = k]
  BY <1>3
<1>7. h \in FolderFiles /\ h.now = m /\ h.kept = k /\ h.old = g.old
  BY <1>6 DEF FolderFiles
<1> QED
  BY <1>5, <1>7 DEF EndsWith

(* The operations of the logger leave one that fits, with its folders.     *)
LEMMA OutputKeeps ==
    ASSUME NEW fs, FoldersKeep(fs), NEW l, LogFits(l)
    PROVE  FoldersKeep(Output(fs, l))
<1>1. CASE l.toQDebug \/ l.out # "open"
  BY <1>1 DEF Output
<1>2. CASE ~(l.toQDebug \/ l.out # "open")
  <2>1. PICK g \in FolderFiles : g = fs[l.folder] /\ EndsWith(g.old, g.now, g.kept)
    BY DEF FoldersKeep, LogFits
  <2>2. PICK n \in Nat : n = Len(g.kept) + 1
    BY FilesOf, LenProperties
  <2>3. PICK h : h = [g EXCEPT !.now = Append(@, n), !.kept = Append(@, n)]
    OBVIOUS
  <2>4. Output(fs, l) = [fs EXCEPT ![l.folder] = h]
    BY <1>2, <2>1, <2>2, <2>3 DEF Output
  <2>5. h \in FolderFiles /\ EndsWith(h.old, h.now, h.kept)
    BY <2>1, <2>3, WritingKeeps
  <2> QED
    <3>1. l.folder \in Folders
      BY DEF LogFits
    <3>2. FoldersKeep([fs EXCEPT ![l.folder] = h])
      BY <2>5, <3>1, FolderChanges
    <3> QED
      BY <2>4, <3>2
<1> QED
  BY <1>1, <1>2

LEMMA EnablingKeeps ==
    ASSUME NEW s, Keeps(s)
    PROVE  Keeps(EnableLogger(s))
<1>1. PICK l, fs : l = s.log /\ fs = s.folders
  OBVIOUS
<1>2. LogFits(l) /\ FoldersKeep(fs) /\ DOMAIN s = {"log", "folders"}
  BY <1>1 DEF Keeps
<1>3. PICK g \in FolderFiles : g = fs[l.folder] /\ EndsWith(g.old, g.now, g.kept)
  BY <1>2 DEF FoldersKeep, LogFits
<1>4. PICK t : t = EnableLogger(s)
  OBVIOUS
<1>5. CASE l.enabled
  <2>1. t = [s EXCEPT !.log = [l EXCEPT !.rollDue = FALSE]]
    BY <1>1, <1>4, <1>5 DEF EnableLogger
  <2>2. LogFits([l EXCEPT !.rollDue = FALSE])
    BY <1>2 DEF LogFits
  <2>3. DOMAIN t = {"log", "folders"} /\ t.folders = fs /\ t.log = [l EXCEPT !.rollDue = FALSE]
    BY <1>1, <1>2, <2>1
  <2> QED
    BY <1>2, <1>4, <2>2, <2>3 DEF Keeps
<1>6. CASE ~l.enabled
  <2>1. PICK m, gs : /\ m = [l EXCEPT !.rollDue = FALSE, !.enabled = TRUE, !.out = Opened(l.folder)]
                     /\ gs = IF Len(g.now) > l.size THEN [fs EXCEPT ![l.folder] = Rolled(g)] ELSE fs
    OBVIOUS
  <2>2. t = [log |-> m, folders |-> gs]
    BY <1>1, <1>3, <1>4, <1>6, <2>1 DEF EnableLogger
  <2>3. LogFits(m)
    BY <1>2, <2>1 DEF LogFits, Opened
  <2>4. FoldersKeep([fs EXCEPT ![l.folder] = Rolled(g)])
    BY <1>2, <1>3, RollingKeeps, FolderChanges DEF LogFits
  <2>5. FoldersKeep(gs)
    BY <1>2, <2>1, <2>4
  <2> QED
    BY <1>4, <2>2, <2>3, <2>5 DEF Keeps
<1> QED
  BY <1>5, <1>6

LEMMA DisablingKeeps ==
    ASSUME NEW s, Keeps(s)
    PROVE  Keeps(DisableLogger(s))
<1>1. PICK l, m : l = s.log /\ m = [l EXCEPT !.enabled = FALSE, !.out = "none"]
  OBVIOUS
<1>2. LogFits(m)
  BY <1>1 DEF Keeps, LogFits
<1>3. PICK t : t = DisableLogger(s)
  OBVIOUS
<1>4. DOMAIN t = {"log", "folders"} /\ t.folders = s.folders /\ t.log = m
  BY <1>1, <1>3 DEF Keeps, LogFits, DisableLogger
<1> QED
  BY <1>2, <1>3, <1>4 DEF Keeps

LEMMA ClearingLogKeeps ==
    ASSUME NEW s, Keeps(s)
    PROVE  Keeps(ClearLogFile(s))
<1>1. PICK fs, f : fs = s.folders /\ f = s.log.folder
  OBVIOUS
<1>2. FoldersKeep(fs) /\ f \in Folders
  BY <1>1 DEF Keeps, LogFits
<1>3. PICK g \in FolderFiles : g = fs[f] /\ EndsWith(g.old, g.now, g.kept)
  BY <1>2 DEF FoldersKeep
<1>4. PICK h : h = [g EXCEPT !.now = <<>>, !.kept = SubSeq(@, 1, Len(@) - Len(g.now))]
  OBVIOUS
<1>5. PICK t : t = ClearLogFile(s)
  OBVIOUS
<1>6. DOMAIN t = {"log", "folders"} /\ t.log = s.log /\ t.folders = [fs EXCEPT ![f] = h]
  BY <1>1, <1>3, <1>4, <1>5 DEF Keeps, ClearLogFile
<1>7. FoldersKeep([fs EXCEPT ![f] = h])
  BY <1>2, <1>3, <1>4, ClearingKeeps, FolderChanges
<1> QED
  BY <1>5, <1>6, <1>7 DEF Keeps

LEMMA RelocatingKeeps ==
    ASSUME NEW s, Keeps(s), NEW c \in Configurations
    PROVE  Keeps(Relocated(s, c))
<1>1. PICK e : e = IF c.clear THEN ClearLogFile(DisableLogger(s)) ELSE DisableLogger(s)
  OBVIOUS
<1>2. Keeps(e)
  BY <1>1, DisablingKeeps, ClearingLogKeeps
<1>3. PICK l, m : l = e.log /\ m = [l EXCEPT !.folder = Given(c.folder, @)]
  OBVIOUS
<1>4. LogFits(m)
  BY <1>2, <1>3, LoggerAssumption DEF Keeps, LogFits, Given
<1>5. PICK t : t = Relocated(s, c)
  OBVIOUS
<1>6. t = [e EXCEPT !.log.folder = Given(c.folder, @)]
  BY <1>1, <1>5 DEF Relocated
<1>7. DOMAIN t = {"log", "folders"} /\ t.folders = e.folders /\ t.log = m
  BY <1>2, <1>3, <1>6 DEF Keeps
<1> QED
  BY <1>2, <1>4, <1>5, <1>7 DEF Keeps

LoggerInv == LogFits(log) /\ FoldersKeep(folders)

LEMMA ConfiguringKeeps ==
    ASSUME LoggerInv, NEW c \in Configurations
    PROVE  Keeps(Configured(c))
<1>1. PICK m : m = [log EXCEPT !.level = Given(c.level, @), !.toQDebug = Given(c.toQDebug, @),
                               !.size = Given(c.size, @)]
  OBVIOUS
<1>2. LogFits(m)
  <2>1. /\ Given(c.level, log.level) \in Nat /\ Given(c.size, log.size) \in Nat
        /\ Given(c.toQDebug, log.toQDebug) \in BOOLEAN
    BY LoggerAssumption DEF LoggerInv, LogFits, Given
  <2> QED
    BY <1>1, <2>1 DEF LoggerInv, LogFits
<1>3. PICK s : s = [log |-> m, folders |-> folders]
  OBVIOUS
<1>4. Keeps(s)
  BY <1>2, <1>3 DEF Keeps, LoggerInv
<1>5. PICK placed : placed = IF Relocates(c) THEN Relocated(s, c)
                             ELSE IF c.enable = FALSE THEN DisableLogger(s) ELSE s
  OBVIOUS
<1>6. Keeps(placed)
  BY <1>4, <1>5, RelocatingKeeps, DisablingKeeps
<1>7. Configured(c) = IF TurnsOn(c) THEN EnableLogger(placed) ELSE placed
  BY <1>1, <1>3, <1>5, Zenon DEF Configured
<1> QED
  BY <1>6, <1>7, EnablingKeeps

LEMMA LoggerInvInit == Init => LoggerInv
<1> SUFFICES ASSUME Init PROVE LoggerInv
  OBVIOUS
<1>1. LogFits(log)
  BY LoggerAssumption DEF Init, LoggerInit, LogFits, Opened, Debug
<1>2. folders = [f \in Folders |-> [now |-> <<>>, old |-> <<>>, kept |-> <<>>]]
  BY DEF Init, LoggerInit
<1>3. PICK g : g = [now |-> <<>>, old |-> <<>>, kept |-> <<>>]
  OBVIOUS
<1>4. <<>> \in Seq(Nat) /\ (<<>> \o <<>>) \o <<>> = <<>>
  OBVIOUS
<1>5. g \in FolderFiles /\ EndsWith(g.old, g.now, g.kept)
  BY <1>3, <1>4 DEF FolderFiles, EndsWith
<1> QED
  BY <1>1, <1>2, <1>3, <1>5 DEF LoggerInv, FoldersKeep

LEMMA LoggerStepKeeps == LoggerInv /\ [Next]_vars => LoggerInv'
<1> SUFFICES ASSUME LoggerInv, [Next]_vars PROVE LoggerInv'
  OBVIOUS
<1>1. UNCHANGED logger \/ LoggerRequest \/ LoggerStep \/ LoggerGoesOn
  BY StepsOfServices DEF WidgetsChange, services
<1>2. ASSUME UNCHANGED <<log, folders>> PROVE LoggerInv'
  BY <1>2 DEF LoggerInv
<1>3. PICK s0 : s0 = [log |-> log, folders |-> folders]
  OBVIOUS
<1>4. Keeps(s0)
  BY <1>3 DEF Keeps, LoggerInv
<1>5. CASE LoggerRequest
  <2>1. ASSUME NEW c \in Configurations, ConfigureLogger(c)
        PROVE  LoggerInv'
    <3>1. PICK s : s = Configured(c)
      OBVIOUS
    <3>2. log' = s.log /\ (folders' = Output(s.folders, s.log) \/ folders' = s.folders)
      BY <2>1, <3>1 DEF ConfigureLogger
    <3>3. LogFits(s.log) /\ FoldersKeep(s.folders)
      BY <3>1, ConfiguringKeeps DEF Keeps
    <3> QED
      BY <3>2, <3>3, OutputKeeps DEF LoggerInv
  <2> QED
    BY <1>2, <1>5, <2>1 DEF LoggerRequest, ConfigureEventLogger
<1>6. CASE LoggerStep
  BY <1>2, <1>6 DEF LoggerStep, LogLine, EventFiltered, WriteLogLine
<1>7. CASE LoggerGoesOn
  <2>1. ASSUME NEW t, RollOff(t) PROVE LoggerInv'
    <3>1. log' = DisableLogger(s0).log /\ folders' = folders
      BY <1>3, <2>1 DEF RollOff
    <3> QED
      BY <1>4, <3>1, DisablingKeeps DEF Keeps, LoggerInv
  <2>2. ASSUME NEW t, RollOn(t) PROVE LoggerInv'
    <3>1. log' = EnableLogger(s0).log /\ folders' = EnableLogger(s0).folders
      BY <1>3, <2>2 DEF RollOn
    <3> QED
      BY <1>4, <3>1, EnablingKeeps DEF Keeps, LoggerInv
  <2>3. ASSUME NEW t, OutPut(t) PROVE LoggerInv'
    BY <2>3, OutputKeeps DEF OutPut, LoggerInv
  <2>4. ASSUME TimePasses PROVE LoggerInv'
    BY <2>4 DEF TimePasses, LoggerInv, LogFits
  <2> QED
    BY <1>7, <2>1, <2>2, <2>3, <2>4 DEF LoggerGoesOn
<1> QED
  BY <1>1, <1>2, <1>5, <1>6, <1>7 DEF logger

LEMMA LoggerInvIsRecent == LoggerInv => KeptIsRecent
<1> SUFFICES ASSUME LoggerInv, NEW f \in Folders
             PROVE  IsSuffix(folders[f].old \o folders[f].now, folders[f].kept)
  BY DEF KeptIsRecent
<1>1. folders[f] \in FolderFiles /\ EndsWith(folders[f].old, folders[f].now, folders[f].kept)
  BY DEF LoggerInv, FoldersKeep
<1> QED
  BY <1>1, FilesOf, EndIsSuffix

(* Whatever is started twice, loaded, stopped without a start, or asked of *)
(* several resources at once, their timer runs exactly while one of them   *)
(* has a file; and whoever rolls the log of the application while others   *)
(* write to it, or it is moved, cleared and turned on and off, the old     *)
(* file and the new one have the last lines that were written, in order    *)
(* (InfoLogger::checkLoggerState, TasLogger::enableLogger).                *)
THEOREM LogsAlwaysGoOn == Spec => []LogsGoOn
<1>1. Init => TicksWhileLogging
  BY DEF Init, InfoInit, TicksWhileLogging
<1>2. LoggerInv /\ TicksWhileLogging => LogsGoOn
  BY LoggerInvIsRecent DEF LogsGoOn
<1> QED
  BY <1>1, <1>2, ResourcesStep, LoggerInvInit, LoggerStepKeeps, PTL DEF Spec

-----------------------------------------------------------------------------
(* Gestures. The invariant says of each command what is still to come of   *)
(* it. What a gesture has pressed it owes (Owed) until its release is on   *)
(* its way (IsSent), so that nothing is left down when all is over; and    *)
(* what the runner remembers to have sent is what was told (RestFits), so  *)
(* that comparing with it finds every rest. A turn of one owner of calls   *)
(* touches only its own commands (TurnOf), which is how gestures and taps  *)
(* go on inside each other.                                                *)

(* A sequence, of whatever.                                                *)
IsSequence(s) == s \in Seq(Range(s))

(* The calls that go on, and those of an owner: a command that is          *)
(* performed alone, or Together.                                           *)
Calls == Range(frames)
CallsOf(o) == {f \in Calls : f.owner = o}
Owner(i) == IF i \in pair.all THEN Together ELSE i
Stage(i) == IF i \in pair.all THEN pair.stage ELSE runner[i].stage

(* The runner of several is not done with the gesture.                     *)
Pending(i) == i \in pair.all => i \in pair.left

(* Nothing was done yet for a command; so it is with all that the script   *)
(* still has, and once there are several gestures together no more come.   *)
Fresh(i) ==
    /\ i \in Ids /\ i \notin pair.all /\ runner[i].stage = "none" /\ CallsOf(i) = {}
    /\ \A p \in Pointers : told[i][p].what # "move"
ScriptInv ==
    /\ ScriptFits(script)
    /\ \A n \in DOMAIN script : /\ \A i \in script[n] : Fresh(i)
                                /\ pair.stage # "none" => Cardinality(script[n]) <= 1

(* What runs for a command is what its name, and its being performed       *)
(* together, allow.                                                        *)
RunnerFits(i) ==
    /\ runner[i] = [stage |-> runner[i].stage, step |-> runner[i].step, last |-> runner[i].last,
                    previous |-> runner[i].previous, left |-> runner[i].left]
    /\ runner[i].stage \in IF i \notin TimeLines THEN {"none", "tapping", "over"}
                           ELSE IF i \in pair.all THEN {"together", "over"}
                           ELSE {"none", "starting", "moving", "pausing", "over"}
    /\ runner[i].stage = "starting" => CallsOf(i) # {}
RunnerInv == DOMAIN runner = Ids /\ \A i \in Ids : RunnerFits(i)

(* As long as the gestures together go on, one of them is left that no     *)
(* step of the time line takes beyond its end.                             *)
PairInv ==
    /\ pair = [stage |-> pair.stage, step |-> pair.step, left |-> pair.left, all |-> pair.all]
    /\ pair.stage \in {"none", "starting", "moving", "over"}
    /\ pair.left \subseteq pair.all /\ pair.all \subseteq TimeLines /\ IsFiniteSet(pair.all)
    /\ pair.stage = "none" => pair.all = {}
    /\ pair.stage \in {"starting", "moving"} => \E l \in pair.left : \A k \in 1..Steps : ~Finishing(l, k)
    /\ pair.stage = "starting" => CallsOf(Together) # {}

(* An owner has one call at most, and only while what runs for it may have *)
(* one.                                                                    *)
StackInv ==
    /\ IsSequence(frames)
    /\ \A m, n \in DOMAIN frames : frames[m].owner = frames[n].owner => m = n
CallFits(f) ==
    /\ f = [owner |-> f.owner, todo |-> f.todo, then |-> f.then, sent |-> f.sent]
    /\ IsSequence(f.todo)
    /\ \/ /\ f.owner = Together /\ pair.stage \in {"starting", "moving"}
          /\ f.then \in {"moving", "finished", "over"}
       \/ /\ f.owner \in TimeLines \ pair.all /\ runner[f.owner].stage \in {"starting", "moving", "pausing"}
          /\ f.then \in {"moving", "finished", "pausing", "over"}
       \/ f.owner \in Ids \ TimeLines /\ f.then \in {"tapping", "over"}
CallsInv == StackInv /\ \A f \in Calls : CallFits(f)

(* Events are about the commands of the owner of the call, once each.      *)
PartsFit(o, e) ==
    /\ e.by \in Pointers
    /\ \A x \in e.parts : x.of \in Ids /\ Owner(x.of) = o
    /\ \A x, y \in e.parts : x.of = y.of => x = y
PartsInv == \A f \in Calls : \A m \in DOMAIN f.todo : PartsFit(f.owner, f.todo[m])

(* More is to come of the call, or of the timer, of a command: the end of  *)
(* its time line with the release.                                         *)
Coming(i) ==
    IF CallsOf(Owner(i)) = {} THEN Stage(i) \in {"moving", "pausing"}
    ELSE \E f \in CallsOf(Owner(i)) : f.then \in {"moving", "finished", "pausing"}

(* The pointers by which the events of a gesture go, alone and together.   *)
OwnPointers(i) ==
    IF Command[i].screen THEN {"screen", "screen2"} ELSE PointerType(i) \cap {"touch", "mouse"}
PairPointers(is) == IF Screen(is) THEN {"screen", "screen2"} ELSE {"touch"}
PointersOf(i) == IF i \in pair.all THEN PairPointers(pair.all) ELSE OwnPointers(i)

(* A gesture may have pressed by a pointer: its own, which it is to        *)
(* release in the end, or any if it is not to release.                     *)
Owed(i, p) ==
    /\ i \in TimeLines /\ p \in Pointers
    /\ \/ ~Command[i].release /\ runner[i].stage # "none"
       \/ Command[i].release /\ Pending(i) /\ Coming(i) /\ p \in PointersOf(i)

(* An event presses, moves or releases for a command.                      *)
Says(e, i, what) == \E x \in e.parts : x.of = i /\ x.what = what

(* What is pressed is owed a release; taps bring theirs with them.         *)
PressFits(todo, m, i) ==
    IF i \in TimeLines THEN Owed(i, todo[m].by)
    ELSE \E n \in DOMAIN todo : n > m /\ todo[n].by = todo[m].by /\ Says(todo[n], i, "release")
PressInv ==
    \A f \in Calls : \A m \in DOMAIN f.todo : \A i \in Ids :
        Says(f.todo[m], i, "press") => PressFits(f.todo, m, i)

(* Taps that were begun; while all of them go by the screen, or none, so   *)
(* does the generator of MouseHandler.                                     *)
Started == {i \in Ids \ TimeLines : runner[i].stage # "none" \/ CallsOf(i) # {}}
Agree == \A i, j \in Started : Command[i].screen = Command[j].screen
TapInv == Agree => \A i \in Started : tapScreen = Command[i].screen

(* What is down was pressed by a gesture that is to go on, or its release  *)
(* is on its way.                                                          *)
IsOwed(d) == \E i \in TimeLines, p \in Pointers : d = Pressed(i, p) /\ Owed(i, p)
IsSent(d) ==
    \E f \in Calls : \E m \in DOMAIN f.todo : \E i \in Ids :
        Says(f.todo[m], i, "release") /\ d = Pressed(i, f.todo[m].by)
DownInv == Agree => \A d \in down : IsOwed(d) \/ IsSent(d)

(* The points of an event by a pointer; the points a runner remembers to   *)
(* have sent, and those where it is.                                       *)
View(p, points) == IF p = "touch" THEN points ELSE <<Head(points)>>
Remembers(i) ==
    /\ runner[i].previous = Previous(i, runner[i].step)
    /\ runner[i].last = At(Command[i], runner[i].step)
PointsNow(i, p) == View(p, At(Command[i], runner[i].step))
IsMove(e, i, p) == e.by = p /\ Says(e, i, "move")

(* The time line of a gesture has a next step.                             *)
Goes(i) ==
    /\ Pending(i)
    /\ IF CallsOf(Owner(i)) = {} THEN Stage(i) = "moving"
       ELSE \E f \in CallsOf(Owner(i)) : f.then \in {"moving", "finished"}

(* What a call moves by a pointer: once, to another place than it was told *)
(* last, which is the one the runner remembers.                            *)
MoveFits(i, p, todo) ==
    /\ \A m \in DOMAIN todo : IsMove(todo[m], i, p) => p \in PointersOf(i)
    /\ \A m, n \in DOMAIN todo : IsMove(todo[m], i, p) /\ IsMove(todo[n], i, p) => m = n
    /\ \A m \in DOMAIN todo : todo[m].by = p => \A x \in todo[m].parts : x.of = i /\ x.what = "move" =>
          /\ told[i][p].what = "move" => told[i][p].points # x.points
          /\ Goes(i) => Remembers(i) /\ x.points = PointsNow(i, p)

(* What was told last by a pointer was no rest; it is the place the runner *)
(* remembers, unless a move is still on its way.                           *)
RestFits(i, p) ==
    /\ ~told[i][p].rest
    /\ told[i][p].what = "move" => p \in PointersOf(i)
    /\ told[i][p].what = "move" /\ Goes(i)
         /\ (\A f \in CallsOf(Owner(i)) : \A m \in DOMAIN f.todo : ~IsMove(f.todo[m], i, p))
       => Remembers(i) /\ told[i][p].points = PointsNow(i, p)
    /\ \A f \in CallsOf(Owner(i)) : MoveFits(i, p, f.todo)

(* At the end of the time line the last point is known, with which the end *)
(* is compared.                                                            *)
RestInv ==
    /\ told = [i \in Ids |-> [p \in Pointers |-> told[i][p]]]
    /\ \A f \in Calls : f.then = "finished" =>
          \A i \in TimeLines : f.owner = Owner(i) /\ Pending(i) => Remembers(i)
    /\ \A i \in Ids, p \in {"touch", "mouse"} : RestFits(i, p)

-----------------------------------------------------------------------------
(* What the operators on sequences return.                                 *)

LEMMA SequenceIs ==
    ASSUME NEW s, IsSequence(s)
    PROVE  /\ Len(s) \in Nat /\ DOMAIN s = 1..Len(s)
           /\ s = [m \in 1..Len(s) |-> s[m]]
           /\ s # <<>> => Len(s) > 0 /\ Len(s) \in DOMAIN s
           /\ s = <<>> => Len(s) = 0
  BY DEF IsSequence

LEMMA IsOfFunction ==
    ASSUME NEW n \in Nat, NEW s, s = [m \in 1..n |-> s[m]]
    PROVE  IsSequence(s) /\ Len(s) = n /\ DOMAIN s = 1..n
  BY DEF IsSequence, Range

LEMMA IsInSeq ==
    ASSUME NEW R, NEW s \in Seq(R)
    PROVE  IsSequence(s)
<1>1. Len(s) \in Nat /\ s = [m \in 1..Len(s) |-> s[m]]
  OBVIOUS
<1> QED
  BY <1>1, IsOfFunction

LEMMA NoneIn == IsSequence(<<>>) /\ Len(<<>>) = 0 /\ DOMAIN <<>> = {}
  BY DEF IsSequence, Range

LEMMA OneIn ==
    ASSUME NEW x
    PROVE  IsSequence(<<x>>) /\ Len(<<x>>) = 1 /\ DOMAIN <<x>> = {1} /\ <<x>>[1] = x /\ Range(<<x>>) = {x}
  BY DEF IsSequence, Range

LEMMA AppendedIs ==
    ASSUME NEW s, IsSequence(s), NEW x
    PROVE  /\ IsSequence(Append(s, x))
           /\ DOMAIN Append(s, x) = 1..Len(s) + 1
           /\ \A m \in DOMAIN s : Append(s, x)[m] = s[m]
           /\ Append(s, x)[Len(s) + 1] = x
           /\ Range(Append(s, x)) = Range(s) \cup {x}
<1> DEFINE R == Range(s) \cup {x}
<1>1. s \in Seq(R)
  BY DEF IsSequence
<1>2. /\ DOMAIN Append(s, x) = 1..Len(s) + 1
      /\ \A m \in DOMAIN s : Append(s, x)[m] = s[m]
      /\ Append(s, x)[Len(s) + 1] = x
      /\ Append(s, x) \in Seq(R)
  BY <1>1
<1>3. Range(Append(s, x)) = R
  BY <1>2, <1>1 DEF Range
<1> QED
  BY <1>2, <1>3 DEF IsSequence

LEMMA TailIs ==
    ASSUME NEW s, IsSequence(s), s # <<>>
    PROVE  /\ IsSequence(Tail(s)) /\ Len(Tail(s)) = Len(s) - 1 /\ DOMAIN Tail(s) = 1..(Len(s) - 1)
           /\ \A m \in DOMAIN Tail(s) : m + 1 \in DOMAIN s /\ Tail(s)[m] = s[m + 1]
           /\ 1 \in DOMAIN s /\ Head(s) = s[1]
<1>1. s \in Seq(Range(s))
  BY DEF IsSequence
<1>2. /\ Len(Tail(s)) = Len(s) - 1 /\ DOMAIN Tail(s) = 1..(Len(s) - 1)
      /\ Len(s) \in Nat \ {0} /\ DOMAIN s = 1..Len(s)
      /\ \A m \in DOMAIN Tail(s) : Tail(s)[m] = s[m + 1]
      /\ Head(s) = s[1]
      /\ Tail(s) \in Seq(Range(s))
  BY <1>1
<1>3. IsSequence(Tail(s))
  BY <1>2, IsInSeq
<1> QED
  BY <1>2, <1>3

LEMMA FrontIs ==
    ASSUME NEW s, IsSequence(s), s # <<>>
    PROVE  /\ IsSequence(Front(s)) /\ DOMAIN Front(s) = 1..(Len(s) - 1)
           /\ \A m \in DOMAIN Front(s) : m \in DOMAIN s /\ Front(s)[m] = s[m]
           /\ Len(Front(s)) = Len(s) - 1
<1>1. s \in Seq(Range(s)) /\ Len(s) \in Nat \ {0} /\ DOMAIN s = 1..Len(s)
  BY SequenceIs DEF IsSequence
<1>2. Front(s) = [m \in 1..(Len(s) - 1) |-> s[m]]
  BY <1>1 DEF Front
<1>3. Front(s) = [m \in 1..(Len(s) - 1) |-> Front(s)[m]]
  BY <1>2
<1> QED
  BY <1>1, <1>2, <1>3, IsOfFunction

LEMMA ConcatIs ==
    ASSUME NEW s, NEW t, IsSequence(s), IsSequence(t)
    PROVE  /\ IsSequence(s \o t) /\ Len(s \o t) = Len(s) + Len(t)
           /\ DOMAIN (s \o t) = 1..(Len(s) + Len(t))
           /\ \A m \in DOMAIN s : m \in DOMAIN (s \o t) /\ (s \o t)[m] = s[m]
           /\ \A m \in DOMAIN t : Len(s) + m \in DOMAIN (s \o t) /\ (s \o t)[Len(s) + m] = t[m]
           /\ \A m \in DOMAIN (s \o t) : \/ m \in DOMAIN s /\ (s \o t)[m] = s[m]
                                         \/ m - Len(s) \in DOMAIN t /\ (s \o t)[m] = t[m - Len(s)]
<1> DEFINE R == Range(s) \cup Range(t)
<1>1. s \in Seq(R) /\ t \in Seq(R)
  BY DEF IsSequence
<1>2. /\ Len(s \o t) = Len(s) + Len(t) /\ Len(s) \in Nat /\ Len(t) \in Nat
      /\ DOMAIN (s \o t) = 1..(Len(s) + Len(t)) /\ DOMAIN s = 1..Len(s) /\ DOMAIN t = 1..Len(t)
      /\ s \o t \in Seq(R)
  BY <1>1
<1>3. \A m \in 1..(Len(s) + Len(t)) : (s \o t)[m] = IF m <= Len(s) THEN s[m] ELSE t[m - Len(s)]
  BY <1>1
<1>5. IsSequence(s \o t)
  BY <1>2, IsInSeq
<1> QED
  BY <1>2, <1>3, <1>5

(* Induction over the naturals, for a set: by the least number that is not *)
(* in it.                                                                  *)
LEMMA AllNaturals ==
    ASSUME NEW S, 0 \in S, \A n \in Nat : n \in S => n + 1 \in S
    PROVE  \A n \in Nat : n \in S
<1> DEFINE T == Nat \ S
<1> SUFFICES ASSUME T # {} PROVE FALSE
  OBVIOUS
<1>1. PICK n \in T : \A k \in T : ~(<<k, n>> \in OpToRel(<, Nat))
  BY NatLessThanWellFounded, WFMin
<1>2. n # 0 /\ n - 1 \in Nat
  OBVIOUS
<1>3. n - 1 \notin T
  <2>1. <<n - 1, n>> \in Nat \X Nat /\ <<n - 1, n>>[1] < <<n - 1, n>>[2]
    BY <1>2
  <2>2. <<n - 1, n>> \in OpToRel(<, Nat)
    BY <2>1 DEF OpToRel
  <2> QED
    BY <2>2, <1>1
<1> QED
  BY <1>2, <1>3

(* FlattenSeq without its recursion.                                       *)
Flattening(s, f, n) == f = [i \in 1..n |-> IF i = 1 THEN s[i] ELSE f[i - 1] \o s[i]]

LEMMA FlattenIs ==
    ASSUME NEW s, Len(s) # 0, NEW g, Flattening(s, g, Len(s))
    PROVE  \E f : Flattening(s, f, Len(s)) /\ FlattenSeq(s) = f[Len(s)]
  BY Zenon DEF FlattenSeq, Flattening

LEMMA FlatteningExists ==
    ASSUME NEW s
    PROVE  \A n \in Nat : \E f : Flattening(s, f, n)
<1> DEFINE S == {n \in Nat : \E f : Flattening(s, f, n)}
<1>1. 0 \in S
  <2>1. Flattening(s, [i \in 1..0 |-> s[i]], 0)
    BY DEF Flattening
  <2> QED
    BY <2>1
<1>2. ASSUME NEW n \in Nat, n \in S PROVE n + 1 \in S
  <2>1. PICK f : Flattening(s, f, n)
    BY <1>2
  <2> DEFINE g == [i \in 1..n + 1 |-> IF i = 1 THEN s[i] ELSE f[i - 1] \o s[i]]
  <2>a. \A i \in 1..n : f[i] = IF i = 1 THEN s[i] ELSE f[i - 1] \o s[i]
    BY <2>1 DEF Flattening
  <2>2. \A i \in 1..n : g[i] = f[i]
    BY <2>a
  <2>3. \A i \in 1..n + 1 : i # 1 => i - 1 \in 1..n
    OBVIOUS
  <2>4. g = [i \in 1..n + 1 |-> IF i = 1 THEN s[i] ELSE g[i - 1] \o s[i]]
    BY <2>2, <2>3
  <2> HIDE DEF g
  <2>5. Flattening(s, g, n + 1)
    BY <2>4 DEF Flattening
  <2> QED
    BY <2>5
<1> HIDE DEF S
<1>3. \A n \in Nat : n \in S
  BY <1>1, <1>2, AllNaturals
<1> QED
  BY <1>3 DEF S

(* What is so of each of some sequences, and of two put together, is so of *)
(* all of them put together.                                               *)
LEMMA FlattenedIs ==
    ASSUME NEW s, IsSequence(s), s # <<>>, NEW Q, \A m \in DOMAIN s : s[m] \in Q,
           \A a, b \in Q : a \o b \in Q
    PROVE  FlattenSeq(s) \in Q
<1>1. Len(s) \in Nat \ {0} /\ DOMAIN s = 1..Len(s)
  BY SequenceIs
<1>2. PICK g : Flattening(s, g, Len(s))
  BY <1>1, FlatteningExists
<1>3. PICK f : Flattening(s, f, Len(s)) /\ FlattenSeq(s) = f[Len(s)]
  BY <1>1, <1>2, FlattenIs
<1>4. \A i \in 1..Len(s) : f[i] = IF i = 1 THEN s[i] ELSE f[i - 1] \o s[i]
  BY <1>3 DEF Flattening
<1> DEFINE S == {n \in Nat : n \in 1..Len(s) => f[n] \in Q}
<1>5. 0 \in S
  OBVIOUS
<1>6. ASSUME NEW n \in Nat, n \in S PROVE n + 1 \in S
  <2> SUFFICES ASSUME n + 1 \in 1..Len(s) PROVE f[n + 1] \in Q
    OBVIOUS
  <2>1. CASE n = 0
    BY <2>1, <1>4, <1>1
  <2>2. CASE n # 0
    <3>1. n \in 1..Len(s)
      BY <2>2, <1>1
    <3>2. f[n] \in Q /\ s[n + 1] \in Q
      BY <3>1, <1>6, <1>1
    <3>3. f[n + 1] = f[n] \o s[n + 1]
      <4>1. (n + 1) - 1 = n /\ n + 1 # 1
        BY <2>2
      <4> QED
        BY <4>1, <1>4, Zenon
    <3> QED
      BY <3>2, <3>3
  <2> QED
    BY <2>1, <2>2
<1> HIDE DEF S
<1>7. \A n \in Nat : n \in S
  BY <1>5, <1>6, AllNaturals
<1> QED
  BY <1>1, <1>3, <1>7 DEF S

LEMMA FlattenedNone == FlattenSeq(<<>>) = <<>>
  BY NoneIn DEF FlattenSeq

-----------------------------------------------------------------------------
(* What the operators of GestureRunner send.                               *)

(* A gesture is a line, or one of the others, and never a tap.             *)
LEMMA NamesDiffer ==
    ASSUME NEW i \in TimeLines
    PROVE  /\ i \in Ids
           /\ \/ Command[i].name \in LineNames /\ Command[i].name \notin {"MouseGesturePoints", "PinchZoom", "Rotate"}
              \/ Command[i].name \in {"MouseGesturePoints", "PinchZoom", "Rotate"} /\ Command[i].name \notin LineNames
           /\ Command[i].name # "Tap"
  BY DEF TimeLines, IsGesture, LineNames

(* A gesture has one point or two, two only if it is a pinch or a          *)
(* rotation.                                                               *)
PointsFit(points) == DOMAIN points = 1..1 \/ DOMAIN points = 1..2
IsSingle(points) == points = <<Head(points)>>

LEMMA OneFits == ASSUME NEW x PROVE PointsFit(<<x>>) /\ IsSingle(<<x>>)
  BY DEF PointsFit, IsSingle

LEMMA AtFits ==
    ASSUME NEW i \in TimeLines, NEW k
    PROVE  /\ PointsFit(At(Command[i], k))
           /\ Command[i].name \notin {"PinchZoom", "Rotate"} => IsSingle(At(Command[i], k))
<1> DEFINE c == Command[i]
<1>1. CASE c.name \in LineNames
  <2>1. At(c, k) = <<PointAt(Line(c), k)>>
    BY <1>1, NamesDiffer, Zenon DEF At
  <2> QED
    BY <2>1, OneFits
<1>2. CASE c.name = "MouseGesturePoints"
  <2>1. At(c, k) = <<Passed(CalculateAnimation(c), k)>>
    BY <1>2, NamesDiffer, Zenon DEF At
  <2> QED
    BY <2>1, OneFits
<1>3. CASE c.name = "PinchZoom"
  <2>1. At(c, k) = [n \in 1..2 |-> PointAt(PinchLines(c)[n], k)]
    BY <1>3, NamesDiffer, Zenon DEF At
  <2>2. DOMAIN At(c, k) = 1..2
    BY <2>1, Zenon
  <2> QED
    BY <2>2, <1>3 DEF PointsFit
<1>4. CASE c.name = "Rotate"
  <2>1. At(c, k) = [n \in 1..2 |-> PointAt(Arcs(c)[n], k)]
    BY <1>4, NamesDiffer, Zenon DEF At
  <2>2. DOMAIN At(c, k) = 1..2
    BY <2>1, Zenon
  <2> QED
    BY <2>2, <1>4 DEF PointsFit
<1> QED
  BY <1>1, <1>2, <1>3, <1>4, NamesDiffer

LEMMA EndsFit ==
    ASSUME NEW i \in TimeLines
    PROVE  /\ PointsFit(Start(Command[i])) /\ PointsFit(End(Command[i]))
           /\ Command[i].name \notin {"PinchZoom", "Rotate"} =>
                  IsSingle(Start(Command[i])) /\ IsSingle(End(Command[i]))
  BY AtFits, OneFits DEF Start, End

(* The fields of an event and its parts.                                   *)
LEMMA EventIs ==
    ASSUME NEW t, NEW p, NEW ps
    PROVE  InputEvent(t, p, ps).by = p /\ InputEvent(t, p, ps).parts = ps /\ InputEvent(t, p, ps).targets = t
  BY DEF InputEvent

LEMMA PartIs ==
    ASSUME NEW i, NEW what, NEW points
    PROVE  /\ Part(i, what, points).of = i /\ Part(i, what, points).what = what
           /\ Part(i, what, points).points = points
  BY DEF Part

(* An event by each of the pointers of a command: Sent, ByPointers and     *)
(* OnScreen.                                                               *)
LEMMA OnScreenIs ==
    ASSUME NEW i, NEW what, NEW points, PointsFit(points)
    PROVE  /\ IsSequence(OnScreen(i, what, points)) /\ DOMAIN OnScreen(i, what, points) = DOMAIN points
           /\ 1 \in DOMAIN points
           /\ \A m \in DOMAIN points :
                 /\ OnScreen(i, what, points)[m].by = IF m = 1 THEN "screen" ELSE "screen2"
                 /\ OnScreen(i, what, points)[m].parts = {Part(i, what, <<points[m]>>)}
<1> DEFINE s == OnScreen(i, what, points)
<1>1. s = [m \in DOMAIN points |-> InputEvent({Command[i].target}, <<"screen", "screen2">>[m],
                                              {Part(i, what, <<points[m]>>)})]
  BY Zenon DEF OnScreen
<1>2. DOMAIN s = DOMAIN points /\ s = [m \in DOMAIN points |-> s[m]]
  BY <1>1, Zenon
<1>3. \A m \in DOMAIN points : s[m] = InputEvent({Command[i].target}, <<"screen", "screen2">>[m],
                                              {Part(i, what, <<points[m]>>)})
  BY <1>1, Zenon
<1> HIDE DEF s
<1>4. IsSequence(s)
  BY <1>2, IsOfFunction DEF PointsFit
<1>5. \A m \in DOMAIN points : <<"screen", "screen2">>[m] = IF m = 1 THEN "screen" ELSE "screen2"
  BY DEF PointsFit
<1>6. 1 \in DOMAIN points
  BY DEF PointsFit
<1>7. \A m \in DOMAIN points : s[m].by = (IF m = 1 THEN "screen" ELSE "screen2") /\ s[m].parts = {Part(i, what, <<points[m]>>)}
  <2> SUFFICES ASSUME NEW m \in DOMAIN points
               PROVE  s[m].by = (IF m = 1 THEN "screen" ELSE "screen2") /\ s[m].parts = {Part(i, what, <<points[m]>>)}
    OBVIOUS
  <2> DEFINE p == <<"screen", "screen2">>[m]
             ps == {Part(i, what, <<points[m]>>)}
             t == {Command[i].target}
  <2>0. s[m] = InputEvent(t, p, ps)
    BY <1>3
  <2> HIDE DEF p, ps, t
  <2>a. s[m].by = p /\ s[m].parts = ps
    BY ONLY <2>0 DEF InputEvent
  <2>1. s[m].by = <<"screen", "screen2">>[m] /\ s[m].parts = {Part(i, what, <<points[m]>>)}
    BY <2>a DEF p, ps
  <2> QED
    BY <2>1, <1>5
<1> QED
  BY <1>2, <1>4, <1>6, <1>7 DEF s

ByTouch(i, what, points) == InputEvent({Command[i].target}, "touch", {Part(i, what, points)})
ByMouse(i, what, points) == InputEvent({Command[i].target}, "mouse", {Part(i, what, <<Head(points)>>)})

LEMMA ByPointersIs ==
    ASSUME NEW i, NEW what, NEW points
    PROVE  LET s == ByPointers(i, what, points)
               T == "touch" \in PointerType(i)
               M == "mouse" \in PointerType(i)
           IN  /\ T /\ M => s = <<ByTouch(i, what, points), ByMouse(i, what, points)>>
               /\ T /\ ~M => s = <<ByTouch(i, what, points)>>
               /\ ~T /\ M => s = <<ByMouse(i, what, points)>>
               /\ ~T /\ ~M => s = <<>>
<1> DEFINE a == IF "touch" \in PointerType(i) THEN <<ByTouch(i, what, points)>> ELSE <<>>
           b == IF "mouse" \in PointerType(i) THEN <<ByMouse(i, what, points)>> ELSE <<>>
<1>1. ByPointers(i, what, points) = a \o b
  BY DEF ByPointers, ByTouch, ByMouse
<1>2. ASSUME NEW x, NEW y
      PROVE  /\ <<x>> \o <<y>> = <<x, y>> /\ <<x>> \o <<>> = <<x>>
             /\ <<>> \o <<y>> = <<y>> /\ <<>> \o <<>> = <<>>
  <2>1. <<x>> \in Seq({x, y}) /\ <<y>> \in Seq({x, y}) /\ <<>> \in Seq({x, y})
    OBVIOUS
  <2>2. <<x>> \o <<>> = <<x>> /\ <<>> \o <<y>> = <<y>> /\ <<>> \o <<>> = <<>>
    BY <2>1, ConcatEmptySeq
  <2>3. <<x>> \o <<y>> = <<x, y>>
    <3> DEFINE c == <<x>> \o <<y>>
    <3>1. c \in Seq({x, y}) /\ Len(c) = 2 /\ c[1] = x /\ c[2] = y
      BY <2>1
    <3> HIDE DEF c
    <3>2. c = <<x, y>>
      BY <3>1
    <3> QED
      BY <3>2 DEF c
  <2> QED
    BY <2>2, <2>3
<1> QED
  BY <1>1, <1>2, Zenon

(* Both pointers of the screen are the same to the system.                 *)
SameWay(p, q) == p = q \/ {p, q} \subseteq {"screen", "screen2"}

SentBy(todo, by, i, what, points) ==
    /\ IsSequence(todo)
    /\ \A m \in DOMAIN todo :
          /\ todo[m].by \in by
          /\ \E ps : /\ todo[m].parts = {Part(i, what, ps)}
                     /\ todo[m].by \in {"touch", "mouse"} => ps = View(todo[m].by, points)
    /\ \A m, n \in DOMAIN todo : todo[m].by = todo[n].by => m = n
    /\ \A p \in by : \E m \in DOMAIN todo : SameWay(p, todo[m].by)

LEMMA ByPointersFits ==
    ASSUME NEW i, NEW what, NEW points
    PROVE  SentBy(ByPointers(i, what, points), PointerType(i) \cap {"touch", "mouse"}, i, what, points)
<1> DEFINE s == ByPointers(i, what, points)
           T == ByTouch(i, what, points)
           M == ByMouse(i, what, points)
           by == PointerType(i) \cap {"touch", "mouse"}
<1>1. /\ T.by = "touch" /\ T.parts = {Part(i, what, points)} /\ points = View("touch", points)
      /\ M.by = "mouse" /\ M.parts = {Part(i, what, <<Head(points)>>)}
      /\ <<Head(points)>> = View("mouse", points)
  BY EventIs DEF ByTouch, ByMouse, View
<1> HIDE DEF T, M
<1>2. CASE "touch" \in PointerType(i) /\ "mouse" \in PointerType(i)
  <2>1. s = <<T, M>>
    BY <1>2, ByPointersIs DEF T, M
  <2>2. DOMAIN s = {1, 2} /\ s[1] = T /\ s[2] = M /\ s = [m \in 1..2 |-> s[m]]
    BY <2>1
  <2>3. IsSequence(s)
    BY <2>2, IsOfFunction
  <2> HIDE DEF s
  <2>4. \A m \in DOMAIN s :
          /\ s[m].by \in by
          /\ \E ps : s[m].parts = {Part(i, what, ps)} /\ ps = View(s[m].by, points)
    BY <2>2, <1>1, <1>2
  <2>5. \A m, n \in DOMAIN s : s[m].by = s[n].by => m = n
    BY <2>2, <1>1
  <2>6. \A p \in by : \E m \in DOMAIN s : p = s[m].by
    BY <2>2, <1>1
  <2> QED
    BY <2>3, <2>4, <2>5, <2>6 DEF SentBy, SameWay, s
<1>3. CASE "touch" \in PointerType(i) /\ "mouse" \notin PointerType(i)
  <2>1. s = <<T>> /\ DOMAIN s = {1} /\ s[1] = T /\ IsSequence(s)
    BY <1>3, ByPointersIs, OneIn DEF T
  <2> HIDE DEF s
  <2> QED
    BY <2>1, <1>1, <1>3 DEF SentBy, SameWay, s
<1>4. CASE "touch" \notin PointerType(i) /\ "mouse" \in PointerType(i)
  <2>1. s = <<M>> /\ DOMAIN s = {1} /\ s[1] = M /\ IsSequence(s)
    BY <1>4, ByPointersIs, OneIn DEF M
  <2> HIDE DEF s
  <2> QED
    BY <2>1, <1>1, <1>4 DEF SentBy, SameWay, s
<1>5. CASE "touch" \notin PointerType(i) /\ "mouse" \notin PointerType(i)
  <2>1. s = <<>> /\ DOMAIN s = {} /\ IsSequence(s)
    BY <1>5, ByPointersIs, NoneIn
  <2> HIDE DEF s
  <2> QED
    BY <2>1, <1>5 DEF SentBy, SameWay, s
<1> QED
  BY <1>2, <1>3, <1>4, <1>5

LEMMA SentFits ==
    ASSUME NEW i, NEW what, NEW points, PointsFit(points)
    PROVE  SentBy(Sent(i, what, points), OwnPointers(i), i, what, points)
<1>1. CASE ~Command[i].screen
  BY <1>1, ByPointersFits DEF Sent, OwnPointers
<1>2. CASE Command[i].screen
  <2> DEFINE s == OnScreen(i, what, points)
  <2>1. Sent(i, what, points) = s /\ OwnPointers(i) = {"screen", "screen2"}
    BY <1>2 DEF Sent, OwnPointers
  <2>2. /\ IsSequence(s) /\ DOMAIN s = DOMAIN points /\ 1 \in DOMAIN points
        /\ \A m \in DOMAIN points :
              /\ s[m].by = IF m = 1 THEN "screen" ELSE "screen2"
              /\ s[m].parts = {Part(i, what, <<points[m]>>)}
    BY OnScreenIs
  <2> HIDE DEF s
  <2>a. \A m \in DOMAIN s : m = 1 \/ m = 2
    BY <2>2 DEF PointsFit
  <2>3. \A m, n \in DOMAIN s : s[m].by = s[n].by => m = n
    BY <2>2, <2>a
  <2>4. \A p \in {"screen", "screen2"} : SameWay(p, s[1].by)
    BY <2>2 DEF SameWay
  <2>5. \A m \in DOMAIN s : s[m].by \in {"screen", "screen2"} /\ s[m].by \notin {"touch", "mouse"}
    BY <2>2
  <2>6. \A m \in DOMAIN s : \E ps : s[m].parts = {Part(i, what, ps)}
    BY <2>2
  <2> QED
    BY <2>1, <2>2, <2>3, <2>4, <2>5, <2>6, Zenon DEF SentBy
<1> QED
  BY <1>1, <1>2

LEMMA NothingFits == SentBy(<<>>, {}, 0, 0, 0)
  BY NoneIn DEF SentBy

(* What is pressed by a pointer.                                           *)
LEMMA PressedBy ==
    ASSUME NEW i \in TimeLines, NEW p, NEW q, SameWay(p, q)
    PROVE  Pressed(i, p) = Pressed(i, q)
<1>1. Route(i, p) = p /\ Route(i, q) = q
  BY NamesDiffer DEF Route
<1>2. CASE p = q
  BY <1>2
<1>3. CASE p # q
  <2>1. p \notin {"touch", "mouse"} /\ q \notin {"touch", "mouse"}
    BY <1>3 DEF SameWay
  <2>2. Pressed(i, p) = <<"screen", "system">> /\ Pressed(i, q) = <<"screen", "system">>
    BY <1>1, <2>1, Zenon DEF Pressed
  <2> QED
    BY <2>2
<1> QED
  BY <1>2, <1>3

LEMMA PressedOnScreen ==
    ASSUME NEW i \in TimeLines, NEW p \in {"screen", "screen2"}
    PROVE  Pressed(i, p) = <<"screen", "system">>
<1>1. Route(i, p) = p
  BY NamesDiffer DEF Route
<1> QED
  BY <1>1, Zenon DEF Pressed

(* The largest of some numbers.                                            *)
LEMMA LargestExists ==
    ASSUME NEW S, IsFiniteSet(S), S # {}, S \subseteq Nat
    PROVE  Max(S) \in S /\ \A y \in S : Max(S) >= y
<1> DEFINE HasLargest(Z) == \E x \in Z : \A y \in Z : x >= y
           T == {n \in Nat : \A Z \in SUBSET Nat :
                     IsFiniteSet(Z) /\ Z # {} /\ Cardinality(Z) = n => HasLargest(Z)}
<1>1. 0 \in T
  BY FS_EmptySet
<1>2. ASSUME NEW n \in Nat, n \in T PROVE n + 1 \in T
  <2> SUFFICES ASSUME NEW Z \in SUBSET Nat, IsFiniteSet(Z), Z # {}, Cardinality(Z) = n + 1
               PROVE  HasLargest(Z)
    OBVIOUS
  <2>1. PICK x \in Z : TRUE
    OBVIOUS
  <2>2. IsFiniteSet(Z \ {x}) /\ Cardinality(Z \ {x}) = n
    <3>1. IsFiniteSet(Z \ {x}) /\ Cardinality(Z \ {x}) = Cardinality(Z) - 1
      BY ONLY <2>1, IsFiniteSet(Z), FS_RemoveElement
    <3>2. (n + 1) - 1 = n
      OBVIOUS
    <3> QED
      BY <3>1, <3>2
  <2>3. CASE Z \ {x} = {}
    BY <2>1, <2>3
  <2>4. CASE Z \ {x} # {}
    <3>1. Z \ {x} \in SUBSET Nat
      OBVIOUS
    <3>2. PICK y \in Z \ {x} : \A z \in Z \ {x} : y >= z
      BY <2>2, <2>4, <3>1, <1>2
    <3>3. CASE y >= x
      BY <3>2, <3>3
    <3>4. CASE ~(y >= x)
      <4>1. \A z \in Z : x >= z
        BY <3>2, <3>4, <2>1
      <4> QED
        BY <4>1, <2>1
    <3> QED
      BY <3>3, <3>4
  <2> QED
    BY <2>3, <2>4
<1> HIDE DEF T
<1>3. \A n \in Nat : n \in T
  BY <1>1, <1>2, AllNaturals
<1>4. Cardinality(S) \in Nat
  BY FS_CardinalityType
<1>5. HasLargest(S)
  BY <1>3, <1>4 DEF T
<1> QED
  BY <1>5, Zenon DEF Max

(* The longest of some gestures goes to its end.                           *)
LEMMA LongestLasts ==
    ASSUME NEW is, is # {}, IsFiniteSet(is), \A i \in is : Command[i].speed \in Nat \ {0}
    PROVE  \E l \in is : \A k \in 1..Steps : ~(k * Multiplier(l, is) > Steps)
<1> DEFINE S == {Command[i].speed : i \in is}
           f == [i \in is |-> Command[i].speed]
<1>1. f \in Surjection(is, S)
  BY DEF Surjection
<1>2. IsFiniteSet(S)
  <2> HIDE DEF f, S
  <2> QED
    BY <1>1, FS_Surjection
<1>3. S # {} /\ S \subseteq Nat
  OBVIOUS
<1>4. Max(S) \in S
  BY <1>2, <1>3, LargestExists
<1>5. PICK l \in is : Command[l].speed = Max(S)
  BY <1>4
<1>6. Multiplier(l, is) = Max(S) \div Command[l].speed
  BY DEF Multiplier, MaxSpeed
<1>7. Command[l].speed \in Nat \ {0}
  OBVIOUS
<1> HIDE DEF S
<1>8. Multiplier(l, is) = 1
  <2>1. \A n \in Nat \ {0} : n \div n = 1
    OBVIOUS
  <2> QED
    BY <2>1, <1>5, <1>6, <1>7
<1> QED
  BY <1>8, PathAssumption

(* There is one part at most of each of some commands, and a list of them. *)
LEMMA PartsAreFinite ==
    ASSUME NEW is, IsFiniteSet(is), NEW parts, \A x \in parts : x.of \in is,
           \A x, y \in parts : x.of = y.of => x = y
    PROVE  IsFiniteSet(parts)
<1> DEFINE f == [x \in parts |-> x.of]
<1>1. f \in Injection(parts, is)
  BY DEF Injection, IsInjective
<1> HIDE DEF f
<1> QED
  BY <1>1, FS_Injection

LEMMA ListOf ==
    ASSUME NEW S, IsFiniteSet(S)
    PROVE  /\ Cardinality(S) \in Nat /\ SetToSeq(S) \in [1..Cardinality(S) -> S]
           /\ S # {} => Cardinality(S) # 0
<1>1. Cardinality(S) \in Nat /\ ExistsBijection(1..Cardinality(S), S)
  BY FS_CardinalityType
<1>2. \E f \in [1..Cardinality(S) -> S] : IsInjective(f)
  BY <1>1 DEF ExistsBijection, Bijection, Injection
<1> QED
  BY <1>1, <1>2, FS_EmptySet, Zenon DEF SetToSeq

(* The events of the system for several commands.                          *)
LEMMA TouchOfScreen ==
    ASSUME NEW t, NEW what, NEW parts, IsFiniteSet(parts), \A x \in parts : PointsFit(x.points)
    PROVE  LET todo == Touch(t, what, parts, TRUE) IN
           /\ IsSequence(todo)
           /\ \A m \in DOMAIN todo :
                 /\ todo[m].by \in {"screen", "screen2"}
                 /\ \E x \in parts : \E ps : todo[m].parts = {Part(x.of, what, ps)}
           /\ parts # {} => DOMAIN todo # {}
<1> DEFINE N == Cardinality(parts)
           s == [n \in 1..N |-> LET x == SetToSeq(parts)[n] IN OnScreen(x.of, what, x.points)]
           todo == Touch(t, what, parts, TRUE)
<1>1. todo = FlattenSeq(s)
  BY DEF Touch
<1>2. N \in Nat /\ SetToSeq(parts) \in [1..N -> parts] /\ (parts # {} => N # 0)
  BY ListOf
<1>3. IsSequence(s) /\ DOMAIN s = 1..N /\ Len(s) = N
  <2>1. s = [m \in 1..N |-> s[m]]
    OBVIOUS
  <2> HIDE DEF s
  <2> QED
    BY <2>1, <1>2, IsOfFunction
<1> DEFINE Fits(e) == /\ e.by \in {"screen", "screen2"}
                      /\ \E x \in parts : \E ps : e.parts = {Part(x.of, what, ps)}
           E == {e \in UNION {Range(s[m]) : m \in 1..N} : Fits(e)}
           Q == {q \in Seq(E) : q # <<>>}
<1>4. ASSUME NEW m \in 1..N PROVE s[m] \in Q
  <2> DEFINE x == SetToSeq(parts)[m]
  <2>1. x \in parts /\ PointsFit(x.points) /\ s[m] = OnScreen(x.of, what, x.points)
    BY <1>2
  <2> HIDE DEF x, s
  <2>2. /\ IsSequence(s[m]) /\ DOMAIN s[m] = DOMAIN x.points /\ 1 \in DOMAIN s[m]
        /\ \A n \in DOMAIN s[m] : /\ s[m][n].by = IF n = 1 THEN "screen" ELSE "screen2"
                                  /\ s[m][n].parts = {Part(x.of, what, <<x.points[n]>>)}
    BY <2>1, OnScreenIs
  <2>3. \A n \in DOMAIN s[m] : s[m][n] \in E
    <3> SUFFICES ASSUME NEW n \in DOMAIN s[m] PROVE s[m][n] \in E
      OBVIOUS
    <3>1. s[m][n] \in Range(s[m])
      BY DEF Range
    <3>2. Fits(s[m][n])
      BY <2>1, <2>2
    <3> QED
      BY <3>1, <3>2
  <2> HIDE DEF E
  <2>4. s[m] \in Seq(E)
    BY <2>2, <2>3, SequenceIs
  <2>5. s[m] # <<>>
    BY <2>2
  <2> QED
    BY <2>4, <2>5
<1> HIDE DEF E
<1>5. \A a, b \in Q : a \o b \in Q
  <2> SUFFICES ASSUME NEW a \in Q, NEW b \in Q PROVE a \o b \in Q
    OBVIOUS
  <2>1. a \o b \in Seq(E) /\ Len(a \o b) = Len(a) + Len(b) /\ Len(a) # 0 /\ Len(a) \in Nat /\ Len(b) \in Nat
    OBVIOUS
  <2> QED
    BY <2>1
<1>6. CASE parts # {}
  <2> HIDE DEF s
  <2>1. s # <<>>
    BY <1>2, <1>3, <1>6
  <2>2. todo \in Q
    <3> HIDE DEF Q, todo
    <3> QED
      BY <1>1, <1>3, <1>4, <1>5, <2>1, FlattenedIs
  <2> HIDE DEF todo
  <2>3. todo \in Seq(E) /\ todo # <<>>
    BY <2>2
  <2>4. IsSequence(todo)
    BY <2>3, IsInSeq
  <2>a. \A m \in DOMAIN todo : todo[m] \in E
    BY <2>3
  <2>5. \A m \in DOMAIN todo : Fits(todo[m])
    BY <2>a DEF E
  <2>6. DOMAIN todo # {}
    BY <2>3
  <2> QED
    BY <2>4, <2>5, <2>6 DEF todo
<1>7. CASE parts = {}
  <2>0. N = 0
    BY <1>7, FS_EmptySet
  <2> HIDE DEF s
  <2>1. s = <<>>
    BY <2>0, <1>3, SequenceIs
  <2>2. todo = <<>>
    BY <1>1, <2>1, FlattenedNone
  <2> HIDE DEF todo
  <2> QED
    BY <2>2, <1>7, NoneIn DEF todo
<1> QED
  BY <1>6, <1>7

(* Taps: what is pressed is released by the same pointer after it.         *)
TapsBy(todo, i) ==
    /\ IsSequence(todo)
    /\ \A m \in DOMAIN todo :
          /\ todo[m].by \in {"touch", "mouse"}
          /\ \E what \in {"press", "release"} : \E ps : todo[m].parts = {Part(i, what, ps)}
    /\ \A m \in DOMAIN todo : Says(todo[m], i, "press") =>
          \E n \in DOMAIN todo : n > m /\ todo[n].by = todo[m].by /\ Says(todo[n], i, "release")

LEMMA SaysPart ==
    ASSUME NEW e, NEW i, NEW what, NEW ps, e.parts = {Part(i, what, ps)}
    PROVE  \A j, w : Says(e, j, w) <=> j = i /\ w = what
  BY PartIs DEF Says

LEMMA TapsFit == ASSUME NEW i PROVE TapsBy(Taps(i), i)
<1> DEFINE center == <<Command[i].center>>
           a == ByPointers(i, "press", center)
           b == ByPointers(i, "release", center)
           by == PointerType(i) \cap {"touch", "mouse"}
           s == a \o b
<1>1. SentBy(a, by, i, "press", center) /\ SentBy(b, by, i, "release", center)
  BY ByPointersFits
<1>2. Taps(i) = s
  BY DEF Taps
<1> HIDE DEF a, b
<1>3. /\ IsSequence(s)
      /\ DOMAIN a = 1..Len(a) /\ Len(a) \in Nat /\ DOMAIN b = 1..Len(b) /\ Len(b) \in Nat
      /\ \A m \in DOMAIN a : m \in DOMAIN s /\ s[m] = a[m]
      /\ \A m \in DOMAIN b : Len(a) + m \in DOMAIN s /\ s[Len(a) + m] = b[m]
      /\ \A m \in DOMAIN s : \/ m \in DOMAIN a /\ s[m] = a[m]
                             \/ m - Len(a) \in DOMAIN b /\ s[m] = b[m - Len(a)]
  BY <1>1, ConcatIs, SequenceIs DEF SentBy
<1> HIDE DEF s
<1>4. \A m \in DOMAIN a : a[m].by \in by /\ \E ps : a[m].parts = {Part(i, "press", ps)}
  BY <1>1 DEF SentBy
<1>5. \A m \in DOMAIN b : b[m].by \in by /\ \E ps : b[m].parts = {Part(i, "release", ps)}
  BY <1>1 DEF SentBy
<1>6. ASSUME NEW m \in DOMAIN s
      PROVE  /\ s[m].by \in {"touch", "mouse"}
             /\ \E what \in {"press", "release"} : \E ps : s[m].parts = {Part(i, what, ps)}
  <2>1. CASE m \in DOMAIN a /\ s[m] = a[m]
    BY <2>1, <1>4
  <2>2. CASE m - Len(a) \in DOMAIN b /\ s[m] = b[m - Len(a)]
    BY <2>2, <1>5
  <2> QED
    BY <2>1, <2>2, <1>3
<1>7. ASSUME NEW m \in DOMAIN s, Says(s[m], i, "press")
      PROVE  \E n \in DOMAIN s : n > m /\ s[n].by = s[m].by /\ Says(s[n], i, "release")
  <2>1. CASE m - Len(a) \in DOMAIN b /\ s[m] = b[m - Len(a)]
    <3>1. PICK ps : s[m].parts = {Part(i, "release", ps)}
      BY <2>1, <1>5
    <3> QED
      BY <3>1, SaysPart, <1>7
  <2>2. CASE m \in DOMAIN a /\ s[m] = a[m]
    <3>1. s[m].by \in by /\ s[m].by \in {"touch", "mouse"}
      BY <2>2, <1>4
    <3>2. PICK n \in DOMAIN b : SameWay(s[m].by, b[n].by)
      BY <1>1, <3>1 DEF SentBy
    <3>3. b[n].by = s[m].by
      BY <3>1, <3>2 DEF SameWay
    <3>4. PICK ps : b[n].parts = {Part(i, "release", ps)}
      BY <1>5
    <3>5. Says(b[n], i, "release")
      BY <3>4, SaysPart
    <3>6. Len(a) + n \in DOMAIN s /\ s[Len(a) + n] = b[n] /\ Len(a) + n > m
      BY <1>3, <2>2
    <3> QED
      BY <3>3, <3>5, <3>6
  <2> QED
    BY <2>1, <2>2, <1>3
<1> QED
  BY <1>2, <1>3, <1>6, <1>7 DEF TapsBy

LEMMA TapsAndTaps ==
    ASSUME NEW i, NEW a, NEW b, TapsBy(a, i), TapsBy(b, i)
    PROVE  TapsBy(a \o b, i)
<1> DEFINE s == a \o b
<1>3. /\ IsSequence(s)
      /\ DOMAIN a = 1..Len(a) /\ Len(a) \in Nat /\ DOMAIN b = 1..Len(b) /\ Len(b) \in Nat
      /\ \A m \in DOMAIN a : m \in DOMAIN s /\ s[m] = a[m]
      /\ \A m \in DOMAIN b : Len(a) + m \in DOMAIN s /\ s[Len(a) + m] = b[m]
      /\ \A m \in DOMAIN s : \/ m \in DOMAIN a /\ s[m] = a[m]
                             \/ m - Len(a) \in DOMAIN b /\ s[m] = b[m - Len(a)]
      /\ DOMAIN s = 1..(Len(a) + Len(b))
  BY ConcatIs, SequenceIs DEF TapsBy
<1> HIDE DEF s
<1>4. ASSUME NEW m \in DOMAIN s
      PROVE  /\ s[m].by \in {"touch", "mouse"}
             /\ \E what \in {"press", "release"} : \E ps : s[m].parts = {Part(i, what, ps)}
  <2>1. CASE m \in DOMAIN a /\ s[m] = a[m]
    BY <2>1 DEF TapsBy
  <2>2. CASE m - Len(a) \in DOMAIN b /\ s[m] = b[m - Len(a)]
    BY <2>2 DEF TapsBy
  <2> QED
    BY <2>1, <2>2, <1>3
<1>5. ASSUME NEW m \in DOMAIN s, Says(s[m], i, "press")
      PROVE  \E n \in DOMAIN s : n > m /\ s[n].by = s[m].by /\ Says(s[n], i, "release")
  <2>1. CASE m \in DOMAIN a /\ s[m] = a[m]
    <3>1. PICK n \in DOMAIN a : n > m /\ a[n].by = a[m].by /\ Says(a[n], i, "release")
      BY <2>1, <1>5 DEF TapsBy
    <3> QED
      BY <3>1, <2>1, <1>3
  <2>2. CASE m - Len(a) \in DOMAIN b /\ s[m] = b[m - Len(a)]
    <3> DEFINE k == m - Len(a)
    <3>1. PICK n \in DOMAIN b : n > k /\ b[n].by = b[k].by /\ Says(b[n], i, "release")
      BY <2>2, <1>5 DEF TapsBy
    <3>2. Len(a) + n \in DOMAIN s /\ s[Len(a) + n] = b[n] /\ Len(a) + n > m
      BY <3>1, <1>3
    <3> QED
      BY <3>1, <3>2, <2>2
  <2> QED
    BY <2>1, <2>2, <1>3
<1> QED
  BY <1>3, <1>4, <1>5 DEF TapsBy, s

LEMMA ManyTapsFit ==
    ASSUME NEW i, NEW c \in Int
    PROVE  TapsBy(FlattenSeq([n \in 1..c |-> Taps(i)]), i)
<1> DEFINE s == [n \in 1..c |-> Taps(i)]
           k == IF c < 0 THEN 0 ELSE c
           Q == {q \in Seq(Range(Taps(i))) : TapsBy(q, i)}
<1>1. IsSequence(s) /\ DOMAIN s = 1..k /\ Len(s) = k
  <2>1. k \in Nat /\ 1..c = 1..k
    OBVIOUS
  <2>2. s = [m \in 1..k |-> s[m]]
    BY <2>1
  <2> HIDE DEF s
  <2> QED
    BY <2>1, <2>2, IsOfFunction
<1>2. Taps(i) \in Q
  <2>1. TapsBy(Taps(i), i)
    BY TapsFit
  <2> QED
    BY <2>1 DEF TapsBy, IsSequence
<1>3. \A a, b \in Q : a \o b \in Q
  BY TapsAndTaps
<1>4. CASE s # <<>>
  <2>1. \A m \in DOMAIN s : s[m] \in Q
    BY <1>2
  <2> HIDE DEF s, Q
  <2>2. FlattenSeq(s) \in Q
    BY <1>1, <1>3, <1>4, <2>1, FlattenedIs
  <2> QED
    BY <2>2 DEF Q, s
<1>5. CASE s = <<>>
  <2>1. FlattenSeq(s) = <<>>
    BY <1>5, FlattenedNone
  <2>2. TapsBy(<<>>, i)
    BY NoneIn DEF TapsBy
  <2> QED
    BY <2>1, <2>2
<1> QED
  BY <1>4, <1>5

-----------------------------------------------------------------------------
(* The turn of one owner, and what it keeps.                               *)

(* Only the calls of one owner change.                                     *)
CallsChange(o, S) ==
    /\ StackInv'
    /\ Calls' = {f \in Calls : f.owner # o} \cup S
    /\ \A q : CallsOf(q)' = IF q = o THEN S ELSE CallsOf(q)

(* The stack of calls: one is added, replaced or taken.                    *)
LEMMA Pushed ==
    ASSUME StackInv, NEW g, CallsOf(g.owner) = {}, frames' = Append(frames, g)
    PROVE  CallsChange(g.owner, {g})
<1>1. IsSequence(frames)
  BY DEF StackInv
<1>2. Len(frames) \in Nat /\ DOMAIN frames = 1..Len(frames)
  BY <1>1, SequenceIs
<1>3. /\ IsSequence(frames') /\ DOMAIN frames' = 1..Len(frames) + 1
      /\ \A m \in DOMAIN frames : frames'[m] = frames[m]
      /\ frames'[Len(frames) + 1] = g
      /\ Range(frames') = Range(frames) \cup {g}
  BY <1>1, AppendedIs
<1>4. \A f \in Calls : f.owner # g.owner
  BY DEF CallsOf
<1>5. \A m \in DOMAIN frames : frames[m] \in Calls
  BY DEF Calls, Range
<1>6. ASSUME NEW m \in DOMAIN frames', NEW n \in DOMAIN frames', frames'[m].owner = frames'[n].owner
      PROVE  m = n
  <2>1. m \in DOMAIN frames \/ m = Len(frames) + 1
    BY <1>2, <1>3
  <2>2. n \in DOMAIN frames \/ n = Len(frames) + 1
    BY <1>2, <1>3
  <2>3. CASE m \in DOMAIN frames /\ n \in DOMAIN frames
    BY <2>3, <1>3, <1>6 DEF StackInv
  <2> QED
    BY <2>1, <2>2, <2>3, <1>3, <1>4, <1>5, <1>6
<1>7. StackInv'
  BY <1>3, <1>6 DEF StackInv
<1>8. Calls' = {f \in Calls : f.owner # g.owner} \cup {g}
  BY <1>3, <1>4 DEF Calls
<1>9. \A q : CallsOf(q)' = IF q = g.owner THEN {g} ELSE CallsOf(q)
  BY <1>8 DEF CallsOf
<1> QED
  BY ONLY <1>7, <1>8, <1>9 DEF CallsChange

LEMMA TopIs ==
    ASSUME StackInv, frames # <<>>
    PROVE  /\ Last(frames) \in Calls /\ CallsOf(Last(frames).owner) = {Last(frames)}
           /\ Len(frames) \in DOMAIN frames /\ Len(frames) \in Nat /\ DOMAIN frames = 1..Len(frames)
           /\ Last(frames) = frames[Len(frames)]
           /\ \A m \in DOMAIN frames : frames[m] \in Calls
           /\ \A f \in Calls : \E m \in DOMAIN frames : f = frames[m]
           /\ \A m \in DOMAIN frames : frames[m].owner = Last(frames).owner => m = Len(frames)
  BY SequenceIs DEF StackInv, Last, CallsOf, Calls, Range

LEMMA Replaced ==
    ASSUME StackInv, frames # <<>>, NEW g, g.owner = Last(frames).owner,
           \/ frames' = [frames EXCEPT ![Len(frames)] = g]
           \/ frames' = Append(Front(frames), g)
    PROVE  CallsChange(g.owner, {g})
<1> DEFINE l == Len(frames)
<1>1. /\ Last(frames) \in Calls /\ l \in Nat /\ DOMAIN frames = 1..l /\ l \in DOMAIN frames
      /\ \A m \in DOMAIN frames : frames[m] \in Calls
      /\ \A f \in Calls : \E m \in DOMAIN frames : f = frames[m]
      /\ \A m \in DOMAIN frames : frames[m].owner = Last(frames).owner => m = l
      /\ IsSequence(frames) /\ Last(frames) = frames[l]
  BY TopIs DEF StackInv
<1>a. l \in Nat /\ l >= 1 /\ (l - 1) + 1 = l /\ \A m \in 1..l : m # l => m \in 1..l - 1
  <2>1. l \in Nat /\ l \in 1..l
    BY <1>1
  <2> HIDE DEF l
  <2> QED
    BY ONLY <2>1
<1>2. /\ IsSequence(frames') /\ DOMAIN frames' = 1..l
      /\ \A m \in DOMAIN frames : frames'[m] = IF m = l THEN g ELSE frames[m]
  <2>1. CASE frames' = [frames EXCEPT ![l] = g]
    <3>1. DOMAIN frames' = 1..l /\ frames' = [m \in 1..l |-> IF m = l THEN g ELSE frames[m]]
      BY <2>1, <1>1, SequenceIs
    <3>2. frames' = [m \in 1..l |-> frames'[m]]
      BY <3>1
    <3>3. IsSequence(frames')
      BY <3>2, <1>1, IsOfFunction
    <3> QED
      BY <3>1, <3>3, <1>1
  <2>2. CASE frames' = Append(Front(frames), g)
    <3>1. /\ IsSequence(Front(frames)) /\ DOMAIN Front(frames) = 1..l - 1 /\ Len(Front(frames)) = l - 1
          /\ \A m \in DOMAIN Front(frames) : Front(frames)[m] = frames[m]
      BY <1>1, FrontIs
    <3>2. /\ IsSequence(frames') /\ DOMAIN frames' = 1..(l - 1) + 1
          /\ \A m \in DOMAIN Front(frames) : frames'[m] = Front(frames)[m]
          /\ frames'[(l - 1) + 1] = g
      BY <2>2, <3>1, AppendedIs
    <3> QED
      BY <3>1, <3>2, <1>a, <1>1
  <2> QED
    BY <2>1, <2>2
<1>3. \A m \in DOMAIN frames : frames'[m].owner = frames[m].owner
  BY <1>1, <1>2
<1>4. StackInv'
  BY <1>1, <1>2, <1>3 DEF StackInv
<1>5. Calls' = {f \in Calls : f.owner # g.owner} \cup {g}
  <2>1. \A f : f \in Calls' <=> \E m \in 1..l : f = frames'[m]
    BY <1>2 DEF Calls, Range
  <2>2. ASSUME NEW f \in Calls' PROVE f \in {h \in Calls : h.owner # g.owner} \cup {g}
    <3>1. PICK m \in 1..l : f = frames'[m]
      BY <2>1
    <3>2. f = IF m = l THEN g ELSE frames[m]
      BY <3>1, <1>1, <1>2
    <3>3. m # l => frames[m] \in Calls /\ frames[m].owner # g.owner
      BY <1>1
    <3> QED
      BY <3>2, <3>3
  <2>3. ASSUME NEW f \in Calls, f.owner # g.owner PROVE f \in Calls'
    <3>1. PICK m \in DOMAIN frames : f = frames[m]
      BY <1>1
    <3>2. m # l
      BY <3>1, <2>3, <1>1
    <3> QED
      BY <3>1, <3>2, <2>1, <1>1, <1>2
  <2>4. g \in Calls'
    <3>1. l \in 1..l /\ g = frames'[l]
      BY <1>1, <1>2
    <3> QED
      BY <3>1, <2>1
  <2> QED
    BY <2>2, <2>3, <2>4
<1>9. \A q : CallsOf(q)' = IF q = g.owner THEN {g} ELSE CallsOf(q)
  BY ONLY <1>5 DEF CallsOf
<1> QED
  BY ONLY <1>4, <1>5, <1>9 DEF CallsChange

LEMMA Popped ==
    ASSUME StackInv, frames # <<>>, frames' = Front(frames)
    PROVE  CallsChange(Last(frames).owner, {})
<1> DEFINE l == Len(frames)
<1>1. /\ Last(frames) \in Calls /\ l \in Nat /\ DOMAIN frames = 1..l /\ l \in DOMAIN frames
      /\ \A m \in DOMAIN frames : frames[m] \in Calls
      /\ \A f \in Calls : \E m \in DOMAIN frames : f = frames[m]
      /\ \A m \in DOMAIN frames : frames[m].owner = Last(frames).owner => m = l
      /\ IsSequence(frames) /\ Last(frames) = frames[l]
  BY TopIs DEF StackInv
<1>a. \A m \in 1..l - 1 : m \in 1..l /\ m # l
  <2>1. l \in Nat
    BY <1>1
  <2> HIDE DEF l
  <2> QED
    BY ONLY <2>1
<1>b. \A m \in 1..l : m # l => m \in 1..l - 1
  <2>1. l \in Nat
    BY <1>1
  <2> HIDE DEF l
  <2> QED
    BY ONLY <2>1
<1>2. /\ IsSequence(frames') /\ DOMAIN frames' = 1..l - 1
      /\ \A m \in DOMAIN frames' : m \in DOMAIN frames /\ frames'[m] = frames[m]
  BY <1>1, FrontIs
<1>4. StackInv'
  BY <1>1, <1>2 DEF StackInv
<1>5. Calls' = {f \in Calls : f.owner # Last(frames).owner} \cup {}
  <2>1. \A f : f \in Calls' <=> \E m \in 1..l - 1 : f = frames'[m]
    BY <1>2 DEF Calls, Range
  <2>2. ASSUME NEW f \in Calls' PROVE f \in Calls /\ f.owner # Last(frames).owner
    <3>1. PICK m \in 1..l - 1 : f = frames[m]
      BY <2>1, <1>2
    <3>2. m \in DOMAIN frames /\ m # l
      BY <1>1, <1>a
    <3> QED
      BY <3>1, <3>2, <1>1
  <2>3. ASSUME NEW f \in Calls, f.owner # Last(frames).owner PROVE f \in Calls'
    <3>1. PICK m \in DOMAIN frames : f = frames[m]
      BY <1>1
    <3>2. m \in 1..l - 1
      BY <3>1, <2>3, <1>1, <1>b
    <3> QED
      BY <3>1, <3>2, <2>1, <1>2
  <2> QED
    BY <2>2, <2>3
<1>9. \A q : CallsOf(q)' = IF q = Last(frames).owner THEN {} ELSE CallsOf(q)
  BY ONLY <1>5 DEF CallsOf
<1> QED
  BY ONLY <1>4, <1>5, <1>9 DEF CallsChange

(* What is known of a command stays as it is.                              *)
Unaffected(i) ==
    /\ Owner(i)' = Owner(i) /\ CallsOf(Owner(i))' = CallsOf(Owner(i))
    /\ runner'[i] = runner[i] /\ Stage(i)' = Stage(i) /\ (Pending(i)' <=> Pending(i))
    /\ PointersOf(i)' = PointersOf(i)

(* A command has itself for its owner, or Together.                        *)
LEMMA OwnerIs ==
    ASSUME NEW i \in Ids
    PROVE  /\ Owner(i) = i <=> i \notin pair.all
           /\ Owner(i) = Together <=> i \in pair.all
           /\ Together # i
  BY GestureAssumption DEF Owner

LEMMA OwnerIsThen ==
    ASSUME NEW i \in Ids
    PROVE  /\ Owner(i)' = i <=> i \notin pair'.all
           /\ Owner(i)' = Together <=> i \in pair'.all
  BY GestureAssumption DEF Owner

(* What is not touched is unaffected, and so is what is said of it.        *)
LEMMA KeptAlone ==
    ASSUME NEW i \in Ids, i \notin pair.all, i \notin pair'.all, runner'[i] = runner[i],
           CallsOf(i)' = CallsOf(i)
    PROVE  Unaffected(i)
  BY DEF Unaffected, Owner, Stage, Pending, PointersOf

LEMMA KeptTogether ==
    ASSUME NEW i \in Ids, pair' = pair, runner'[i] = runner[i],
           CallsOf(Owner(i))' = CallsOf(Owner(i))
    PROVE  Unaffected(i)
  BY DEF Unaffected, Owner, Stage, Pending, PointersOf

LEMMA KeptIsSame ==
    ASSUME NEW i \in Ids, Unaffected(i)
    PROVE  /\ Coming(i)' <=> Coming(i)
           /\ Goes(i)' <=> Goes(i)
           /\ \A p : Owed(i, p)' <=> Owed(i, p)
           /\ Remembers(i)' <=> Remembers(i)
           /\ \A p : PointsNow(i, p)' = PointsNow(i, p)
<1>1. Coming(i)' <=> Coming(i)
  BY DEF Coming, Unaffected
<1>2. Goes(i)' <=> Goes(i)
  BY DEF Goes, Unaffected
<1>3. \A p : Owed(i, p)' <=> Owed(i, p)
  BY <1>1 DEF Owed, Unaffected
<1>4. Remembers(i)' <=> Remembers(i)
  BY DEF Remembers, Unaffected, Previous, PointsAt
<1>5. \A p : PointsNow(i, p)' = PointsNow(i, p)
  BY DEF PointsNow, Unaffected
<1> QED
  BY <1>1, <1>2, <1>3, <1>4, <1>5

(* The turn of one owner: its calls become S, and nothing is changed but   *)
(* what is known of the commands in C, which are its own.                  *)
TurnOf(o, S, C) ==
    /\ CallsChange(o, S)
    /\ DOMAIN runner' = Ids
    /\ C \subseteq Ids
    /\ \A i \in Ids \ C : Unaffected(i)
    /\ \A i \in C : Owner(i)' = o
    /\ \A i \in C, f \in Calls : f.owner \in {i, Owner(i)} => f.owner = o
    /\ o # Together => pair' = pair

(* A turn keeps each part of the invariant if what it touches does.        *)
LEMMA TurnOfRunners ==
    ASSUME RunnerInv, NEW o, NEW S, NEW C, TurnOf(o, S, C), \A i \in C : RunnerFits(i)'
    PROVE  RunnerInv'
<1>1. ASSUME NEW i \in Ids \ C PROVE RunnerFits(i)'
  <2>1. Unaffected(i) /\ RunnerFits(i)
    BY DEF TurnOf, RunnerInv
  <2>2. i \in pair'.all <=> i \in pair.all
    BY <2>1, OwnerIs, OwnerIsThen DEF Unaffected
  <2>3. i \notin pair.all => CallsOf(i)' = CallsOf(i)
    BY <2>1, <2>2 DEF Unaffected, Owner
  <2>4. i \in pair.all => runner[i].stage # "starting"
    BY <2>1 DEF RunnerFits
  <2> QED
    BY <2>1, <2>2, <2>3, <2>4 DEF RunnerFits, Unaffected
<1> QED
  BY <1>1 DEF RunnerInv, TurnOf

LEMMA TurnOfCalls ==
    ASSUME CallsInv, NEW o, NEW S, NEW C, TurnOf(o, S, C), \A f \in S : CallFits(f)'
    PROVE  CallsInv'
<1>1. ASSUME NEW f \in Calls, f.owner # o PROVE CallFits(f)'
  <2>1. CallFits(f)
    BY DEF CallsInv
  <2>2. CASE f.owner = Together
    <3>1. pair' = pair
      BY <1>1, <2>2 DEF TurnOf
    <3> QED
      BY <2>1, <2>2, <3>1, GestureAssumption DEF CallFits, TimeLines
  <2>3. CASE f.owner # Together
    <3>1. f.owner \in Ids /\ (f.owner \in TimeLines => f.owner \notin pair.all)
      BY <2>1, <2>3 DEF CallFits, TimeLines
    <3>2. Unaffected(f.owner)
      BY <1>1, <3>1 DEF TurnOf
    <3>3. f.owner \in TimeLines => f.owner \notin pair'.all
      BY <3>1, <3>2, OwnerIs, OwnerIsThen DEF Unaffected
    <3> QED
      BY <2>1, <2>3, <3>1, <3>2, <3>3 DEF CallFits, Unaffected
  <2> QED
    BY <2>2, <2>3
<1> QED
  BY <1>1 DEF CallsInv, TurnOf, CallsChange

LEMMA OtherCalls ==
    ASSUME PartsInv, NEW o, NEW S, NEW C, TurnOf(o, S, C), NEW f \in Calls, f.owner # o,
           NEW m \in DOMAIN f.todo, NEW x \in f.todo[m].parts
    PROVE  x.of \in Ids /\ Owner(x.of) = f.owner /\ Unaffected(x.of)
<1>1. x.of \in Ids /\ Owner(x.of) = f.owner
  BY DEF PartsInv, PartsFit
<1>2. x.of \notin C
  BY <1>1 DEF TurnOf
<1> QED
  BY <1>1, <1>2 DEF TurnOf

LEMMA TurnOfParts ==
    ASSUME PartsInv, NEW o, NEW S, NEW C, TurnOf(o, S, C),
           \A f \in S : \A m \in DOMAIN f.todo : PartsFit(f.owner, f.todo[m])'
    PROVE  PartsInv'
<1>1. ASSUME NEW f \in Calls, f.owner # o, NEW m \in DOMAIN f.todo
      PROVE  PartsFit(f.owner, f.todo[m])'
  <2>1. PartsFit(f.owner, f.todo[m])
    BY DEF PartsInv
  <2>2. \A x \in f.todo[m].parts : Unaffected(x.of)
    BY <1>1, OtherCalls
  <2> QED
    BY <2>1, <2>2 DEF PartsFit, Unaffected
<1> QED
  BY <1>1 DEF PartsInv, TurnOf, CallsChange

LEMMA TurnOfPresses ==
    ASSUME PartsInv, PressInv, NEW o, NEW S, NEW C, TurnOf(o, S, C),
           \A f \in S : \A m \in DOMAIN f.todo : \A i \in Ids :
               Says(f.todo[m], i, "press") => PressFits(f.todo, m, i)'
    PROVE  PressInv'
<1>1. ASSUME NEW f \in Calls, f.owner # o, NEW m \in DOMAIN f.todo, NEW i \in Ids,
             Says(f.todo[m], i, "press")
      PROVE  PressFits(f.todo, m, i)'
  <2>1. PressFits(f.todo, m, i)
    BY <1>1 DEF PressInv
  <2>2. Unaffected(i)
    BY <1>1, OtherCalls DEF Says
  <2>3. \A p : Owed(i, p)' <=> Owed(i, p)
    BY <2>2, KeptIsSame
  <2> QED
    BY <2>1, <2>3 DEF PressFits, Says
<1>2. \A f \in Calls' : f \in S \/ (f \in Calls /\ f.owner # o)
  BY DEF TurnOf, CallsChange
<1>3. \A e, i : Says(e, i, "press")' <=> Says(e, i, "press")
  BY DEF Says
<1> QED
  BY <1>1, <1>2, <1>3 DEF PressInv

LEMMA FreshStays ==
    ASSUME NEW i, Fresh(i), Unaffected(i), told' = told
    PROVE  Fresh(i)'
<1>1. i \in Ids /\ i \notin pair.all
  BY DEF Fresh
<1>2. i \notin pair'.all
  BY <1>1, OwnerIs, OwnerIsThen DEF Unaffected
<1>3. CallsOf(i)' = CallsOf(i)
  BY <1>1, <1>2 DEF Unaffected, Owner
<1> QED
  BY <1>1, <1>2, <1>3 DEF Fresh, Unaffected

LEMMA TurnOfScript ==
    ASSUME ScriptInv, NEW o, NEW S, NEW C, TurnOf(o, S, C), told' = told, script' = script,
           \A i \in C : ~Fresh(i), pair'.stage # "none" => pair.stage # "none"
    PROVE  ScriptInv'
<1>1. ASSUME NEW n \in DOMAIN script, NEW i \in script[n] PROVE Fresh(i)'
  <2>1. Fresh(i) /\ i \in Ids
    BY DEF ScriptInv, Fresh
  <2>2. Unaffected(i)
    BY <2>1 DEF TurnOf
  <2> QED
    BY <2>1, <2>2, FreshStays
<1>2. ScriptFits(script')
  BY DEF ScriptInv
<1> QED
  BY <1>1, <1>2 DEF ScriptInv

LEMMA ScriptTail ==
    ASSUME NEW s, ScriptFits(s), s # <<>>
    PROVE  /\ ScriptFits(Tail(s)) /\ 1 \in DOMAIN s /\ Head(s) = s[1]
           /\ \A n \in DOMAIN Tail(s) : /\ n + 1 \in DOMAIN s /\ Tail(s)[n] = s[n + 1]
                                        /\ n + 1 # 1
  <1>1. s \in Seq(SUBSET Ids)
    BY DEF ScriptFits
  <1>2. /\ Tail(s) \in Seq(SUBSET Ids) /\ 1 \in DOMAIN s /\ Head(s) = s[1]
        /\ \A n \in DOMAIN Tail(s) : /\ n + 1 \in DOMAIN s /\ Tail(s)[n] = s[n + 1]
                                     /\ n + 1 # 1 /\ n \in Nat
    BY <1>1
  <1>3. \A m, n \in DOMAIN Tail(s) : m # n => m + 1 # n + 1
    BY <1>2
  <1> HIDE DEF ScriptFits
  <1>4. \A n \in DOMAIN s : IsFiniteSet(s[n]) /\ (Cardinality(s[n]) > 1 => \A i \in s[n] : IsGesture(Command[i]))
    BY DEF ScriptFits
  <1>5. \A m, n \in DOMAIN s : m # n =>
          s[m] \cap s[n] = {} /\ (Cardinality(s[m]) <= 1 \/ Cardinality(s[n]) <= 1)
    BY DEF ScriptFits
  <1>6. \A m, n \in DOMAIN Tail(s) : m # n =>
          Tail(s)[m] \cap Tail(s)[n] = {} /\ (Cardinality(Tail(s)[m]) <= 1 \/ Cardinality(Tail(s)[n]) <= 1)
    BY <1>2, <1>3, <1>5
  <1>7. \A n \in DOMAIN Tail(s) : IsFiniteSet(Tail(s)[n]) /\ (Cardinality(Tail(s)[n]) > 1 => \A i \in Tail(s)[n] : IsGesture(Command[i]))
    BY <1>2, <1>4
  <1> QED
    BY <1>2, <1>6, <1>7 DEF ScriptFits

LEMMA NextOfScript ==
    ASSUME ScriptInv, script # <<>>, NEW o, NEW S, NEW C, TurnOf(o, S, C), told' = told,
           script' = Tail(script), C \subseteq Head(script),
           pair'.stage # "none" => pair.stage # "none" \/ Cardinality(Head(script)) > 1
    PROVE  ScriptInv'
<1>0. ScriptFits(script)
  BY DEF ScriptInv
<1>1. /\ ScriptFits(script') /\ 1 \in DOMAIN script /\ Head(script) = script[1]
      /\ \A n \in DOMAIN script' : /\ n + 1 \in DOMAIN script /\ script'[n] = script[n + 1]
                                   /\ n + 1 # 1
  BY <1>0, ScriptTail
<1>2. ASSUME NEW n \in DOMAIN script', NEW i \in script'[n] PROVE Fresh(i)'
  <2>1. Fresh(i) /\ i \in Ids
    BY <1>1 DEF ScriptInv, Fresh
  <2>2. i \notin Head(script)
    <3>1. script[n + 1] \cap script[1] = {}
      BY <1>0, <1>1 DEF ScriptFits
    <3> QED
      BY <1>1, <3>1
  <2>3. Unaffected(i)
    BY <2>1, <2>2 DEF TurnOf
  <2> QED
    BY <2>1, <2>3, FreshStays
<1>3. ASSUME NEW n \in DOMAIN script', pair'.stage # "none" PROVE Cardinality(script'[n]) <= 1
  <2>1. CASE pair.stage # "none"
    BY <2>1, <1>1 DEF ScriptInv
  <2>2. CASE Cardinality(script[1]) > 1
    <3>1. Cardinality(script[1]) <= 1 \/ Cardinality(script[n + 1]) <= 1
      BY <1>0, <1>1 DEF ScriptFits
    <3>2. IsFiniteSet(script[1])
      BY <1>0, <1>1 DEF ScriptFits
    <3>3. Cardinality(script[1]) \in Nat
      BY <3>2, FS_CardinalityType
    <3> QED
      BY <3>1, <3>3, <2>2, <1>1
  <2> QED
    BY <1>1, <1>3, <2>1, <2>2
<1> QED
  BY <1>1, <1>2, <1>3 DEF ScriptInv

LEMMA PairStays ==
    ASSUME PairInv, NEW o, NEW S, NEW C, TurnOf(o, S, C), o # Together
    PROVE  PairInv'
<1>1. pair' = pair /\ CallsOf(Together)' = CallsOf(Together)
  BY DEF TurnOf, CallsChange
<1> QED
  BY <1>1 DEF PairInv, Finishing

LEMMA TurnOfRest ==
    ASSUME RestInv, NEW o, NEW S, NEW C, TurnOf(o, S, C), told' = told,
           \A i \in C : \A p \in {"touch", "mouse"} : RestFits(i, p)',
           \A f \in S : f.then = "finished" =>
               \A i \in TimeLines : f.owner = Owner(i)' /\ Pending(i)' => Remembers(i)'
    PROVE  RestInv'
<1>1. ASSUME NEW i \in Ids \ C, NEW p \in {"touch", "mouse"} PROVE RestFits(i, p)'
  <2>1. RestFits(i, p)
    BY DEF RestInv
  <2>2. Unaffected(i)
    BY DEF TurnOf
  <2>3. /\ Goes(i)' <=> Goes(i)
        /\ Remembers(i)' <=> Remembers(i)
        /\ PointsNow(i, p)' = PointsNow(i, p)
        /\ CallsOf(Owner(i))' = CallsOf(Owner(i))
        /\ PointersOf(i)' = PointersOf(i)
    BY <2>2, KeptIsSame DEF Unaffected
  <2>4. \A todo : MoveFits(i, p, todo) => MoveFits(i, p, todo)'
    BY <2>3 DEF MoveFits, IsMove, Says
  <2> QED
    BY <2>1, <2>3, <2>4 DEF RestFits, IsMove, Says
<1>2. ASSUME NEW f \in Calls, f.owner # o, f.then = "finished", NEW i \in TimeLines,
             f.owner = Owner(i)', Pending(i)'
      PROVE  Remembers(i)'
  <2>1. i \in Ids
    BY DEF TimeLines
  <2>2. Unaffected(i)
    BY <1>2, <2>1 DEF TurnOf
  <2>3. Remembers(i)
    BY <1>2, <2>2 DEF RestInv, Unaffected
  <2> QED
    BY <2>1, <2>2, <2>3, KeptIsSame
<1>3. \A f \in Calls' : f \in S \/ (f \in Calls /\ f.owner # o)
  BY DEF TurnOf, CallsChange
<1>4. \A f \in Calls' : f.then = "finished" =>
          \A i \in TimeLines : f.owner = Owner(i)' /\ Pending(i)' => Remembers(i)'
  BY <1>2, <1>3
<1>5. C \subseteq Ids
  BY DEF TurnOf
<1>6. told' = [i \in Ids |-> [p \in Pointers |-> told'[i][p]]]
  BY DEF RestInv
<1> QED
  BY <1>1, <1>4, <1>5, <1>6 DEF RestInv

LEMMA StartedStays ==
    ASSUME NEW o, NEW S, NEW C, TurnOf(o, S, C), NEW i \in Ids \ C, i \notin pair.all
    PROVE  i \in Started' <=> i \in Started
<1>1. Unaffected(i)
  BY DEF TurnOf
<1>2. i \notin pair'.all
  BY <1>1, OwnerIs, OwnerIsThen DEF Unaffected
<1>3. CallsOf(i)' = CallsOf(i)
  BY <1>1, <1>2 DEF Unaffected, Owner
<1> QED
  BY <1>1, <1>3 DEF Started, Unaffected

LEMMA TurnOfTaps ==
    ASSUME TapInv, PairInv, NEW o, NEW S, NEW C, TurnOf(o, S, C), tapScreen' = tapScreen,
           \A i \in C \ TimeLines : i \in Started' <=> i \in Started
    PROVE  TapInv' /\ Started' = Started
<1>1. \A i \in Ids \ TimeLines : i \in Started' <=> i \in Started
  <2> SUFFICES ASSUME NEW i \in Ids \ TimeLines, i \notin C PROVE i \in Started' <=> i \in Started
    OBVIOUS
  <2>1. i \notin pair.all
    BY DEF PairInv
  <2> QED
    BY <2>1, StartedStays
<1>2. Started' = Started
  BY <1>1 DEF Started
<1> QED
  BY <1>2 DEF TapInv, Agree

LEMMA PressedStays ==
    ASSUME NEW i \in TimeLines, NEW p
    PROVE  Pressed(i, p)' = Pressed(i, p)
<1>1. Route(i, p) = p /\ Route(i, p)' = p
  BY NamesDiffer DEF Route
<1>2. CASE p = "touch"
  BY <1>1, <1>2, Zenon DEF Pressed
<1>3. CASE p = "mouse"
  BY <1>1, <1>3, Zenon DEF Pressed
<1>4. CASE p \notin {"touch", "mouse"}
  <2>1. p # "touch" /\ p # "mouse"
    BY <1>4
  <2>2. Pressed(i, p) = <<"screen", "system">>
    BY <1>1, <2>1, Zenon DEF Pressed
  <2>3. Pressed(i, p)' = <<"screen", "system">>
    BY <1>1, <2>1, Zenon DEF Pressed
  <2> QED
    BY <2>2, <2>3
<1> QED
  BY <1>2, <1>3, <1>4

(* A release of the command, or of any where all of them go by the screen. *)
Releases(S, i, p) ==
    \E f \in S : \E m \in DOMAIN f.todo :
        \/ Says(f.todo[m], i, "release") /\ SameWay(p, f.todo[m].by)
        \/ /\ {p, f.todo[m].by} \subseteq {"screen", "screen2"}
           /\ \E j \in TimeLines : Says(f.todo[m], j, "release")

(* What is down stays accounted for if the turn of an owner keeps what it  *)
(* owes, or sends the release.                                             *)
LEMMA TurnOfDown ==
    ASSUME DownInv, NEW o, NEW S, NEW C, TurnOf(o, S, C), down' = down,
           Agree' => Agree,
           Agree' => \A f \in Calls : \A m \in DOMAIN f.todo : \A i \in Ids :
               Says(f.todo[m], i, "release") => Pressed(i, f.todo[m].by)' = Pressed(i, f.todo[m].by),
           \A f \in Calls : f.owner = o => f.todo = <<>>,
           \A i \in C \cap TimeLines : \A p \in Pointers :
               Owed(i, p) => IsOwed(Pressed(i, p))' \/ Releases(S, i, p)
    PROVE  DownInv'
<1> SUFFICES ASSUME Agree', NEW d \in down PROVE IsOwed(d)' \/ IsSent(d)'
  BY DEF DownInv
<1>0. TimeLines \subseteq Ids
  BY DEF TimeLines
<1>1. CASE IsOwed(d)
  <2>1. PICK i \in TimeLines, p \in Pointers : d = Pressed(i, p) /\ Owed(i, p)
    BY <1>1 DEF IsOwed
  <2>2. CASE i \notin C
    <3>1. Unaffected(i)
      BY <2>2, <1>0 DEF TurnOf
    <3>2. Owed(i, p)' /\ d = Pressed(i, p)'
      BY <2>1, <3>1, <1>0, KeptIsSame, PressedStays
    <3> QED
      BY <3>2 DEF IsOwed
  <2>3. CASE i \in C
    <3>1. IsOwed(Pressed(i, p))' \/ Releases(S, i, p)
      BY <2>1, <2>3
    <3>2. CASE IsOwed(Pressed(i, p))'
      BY <3>2, <2>1, PressedStays DEF IsOwed
    <3>3. CASE Releases(S, i, p)
      <4>0. PICK f \in S : \E m \in DOMAIN f.todo :
                \/ Says(f.todo[m], i, "release") /\ SameWay(p, f.todo[m].by)
                \/ /\ {p, f.todo[m].by} \subseteq {"screen", "screen2"}
                   /\ \E j \in TimeLines : Says(f.todo[m], j, "release")
        BY <3>3 DEF Releases
      <4>1. PICK m \in DOMAIN f.todo :
                \/ Says(f.todo[m], i, "release") /\ SameWay(p, f.todo[m].by)
                \/ /\ {p, f.todo[m].by} \subseteq {"screen", "screen2"}
                   /\ \E j \in TimeLines : Says(f.todo[m], j, "release")
        BY <4>0
      <4>2. f \in Calls'
        BY <4>0 DEF TurnOf, CallsChange
      <4>3. PICK j \in TimeLines : Says(f.todo[m], j, "release") /\ Pressed(i, p) = Pressed(j, f.todo[m].by)
        <5>1. CASE Says(f.todo[m], i, "release") /\ SameWay(p, f.todo[m].by)
          BY <5>1, PressedBy
        <5>2. CASE /\ {p, f.todo[m].by} \subseteq {"screen", "screen2"}
                   /\ \E j \in TimeLines : Says(f.todo[m], j, "release")
          <6>1. PICK j \in TimeLines : Says(f.todo[m], j, "release")
            BY <5>2
          <6>2. Pressed(i, p) = <<"screen", "system">> /\ Pressed(j, f.todo[m].by) = <<"screen", "system">>
            BY <5>2, PressedOnScreen
          <6> QED
            BY <6>1, <6>2
        <5> QED
          BY <4>1, <5>1, <5>2
      <4>4. d = Pressed(j, f.todo[m].by)' /\ Says(f.todo[m], j, "release")'
        BY <4>3, <2>1, PressedStays DEF Says
      <4> QED
        BY <4>1, <4>2, <4>3, <4>4, <1>0 DEF IsSent
    <3> QED
      BY <3>1, <3>2, <3>3
  <2> QED
    BY <2>2, <2>3
<1>2. CASE IsSent(d)
  <2>1. PICK f \in Calls : \E m \in DOMAIN f.todo : \E i \in Ids :
            Says(f.todo[m], i, "release") /\ d = Pressed(i, f.todo[m].by)
    BY <1>2 DEF IsSent
  <2>2. PICK m \in DOMAIN f.todo : \E i \in Ids :
            Says(f.todo[m], i, "release") /\ d = Pressed(i, f.todo[m].by)
    BY <2>1
  <2>3. PICK i \in Ids : Says(f.todo[m], i, "release") /\ d = Pressed(i, f.todo[m].by)
    BY <2>2
  <2>4. f.owner # o
    BY <2>2, NoneIn
  <2>5. f \in Calls'
    BY <2>4 DEF TurnOf, CallsChange
  <2>6. d = Pressed(i, f.todo[m].by)'
    BY <2>3
  <2>7. Says(f.todo[m], i, "release")'
    BY <2>3 DEF Says
  <2> QED
    BY <2>5, <2>6, <2>7 DEF IsSent
<1> QED
  BY <1>1, <1>2 DEF DownInv

LEMMA SamePressed ==
    ASSUME tapScreen' = tapScreen
    PROVE  \A i, p : Pressed(i, p)' = Pressed(i, p)
<1>1. \A i, p : Route(i, p)' = Route(i, p)
  BY DEF Route
<1>2. ASSUME NEW i, NEW p PROVE Pressed(i, p)' = Pressed(i, p)
  BY <1>1, Zenon DEF Pressed
<1> QED
  BY <1>2

(* The invariant of what goes on.                                          *)
GestureInv ==
    /\ ScriptInv /\ RunnerInv /\ PairInv /\ CallsInv /\ PartsInv
    /\ PressInv /\ TapInv /\ DownInv /\ RestInv

(* All of it, for a turn that sends nothing.                               *)
LEMMA OrdinaryTurn ==
    ASSUME GestureInv, NEW o, NEW S, NEW C, TurnOf(o, S, C),
           UNCHANGED <<tapScreen, down, told>>,
           \A i \in C \ TimeLines : i \in Started' <=> i \in Started,
           \A f \in Calls : f.owner = o => f.todo = <<>>,
           ScriptInv', PairInv',
           \A i \in C : RunnerFits(i)',
           \A f \in S : CallFits(f)',
           \A f \in S : \A m \in DOMAIN f.todo : PartsFit(f.owner, f.todo[m])',
           \A f \in S : \A m \in DOMAIN f.todo : \A i \in Ids :
               Says(f.todo[m], i, "press") => PressFits(f.todo, m, i)',
           \A i \in C \cap TimeLines : \A p \in Pointers :
               Owed(i, p) => IsOwed(Pressed(i, p))' \/ Releases(S, i, p),
           \A i \in C : \A p \in {"touch", "mouse"} : RestFits(i, p)',
           \A f \in S : f.then = "finished" =>
               \A i \in TimeLines : f.owner = Owner(i)' /\ Pending(i)' => Remembers(i)'
    PROVE  GestureInv'
<1>1. TapInv' /\ Started' = Started
  BY TurnOfTaps DEF GestureInv
<1>2. RunnerInv'
  BY TurnOfRunners DEF GestureInv
<1>3. CallsInv'
  BY TurnOfCalls DEF GestureInv
<1>4. PartsInv'
  BY TurnOfParts DEF GestureInv
<1>5. PressInv'
  BY TurnOfPresses DEF GestureInv
<1>6. DownInv'
  <2>1. Agree' => Agree
    BY <1>1 DEF Agree
  <2>2. \A i, p : Pressed(i, p)' = Pressed(i, p)
    BY SamePressed
  <2> QED
    BY <2>1, <2>2, TurnOfDown DEF GestureInv
<1>7. RestInv'
  BY TurnOfRest DEF GestureInv
<1> QED
  BY <1>1, <1>2, <1>3, <1>4, <1>5, <1>6, <1>7 DEF GestureInv

-----------------------------------------------------------------------------
(* Gestures that are performed alone.                                      *)

(* The turn of a command that is performed alone.                          *)
LEMMA SoloTurn ==
    ASSUME GestureInv, NEW i \in Ids, i \notin pair.all, NEW S, CallsChange(i, S), pair' = pair,
           DOMAIN runner' = Ids, \A j \in Ids \ {i} : runner'[j] = runner[j]
    PROVE  /\ TurnOf(i, S, {i}) /\ PairInv'
           /\ Owner(i) = i /\ Owner(i)' = i /\ CallsOf(i)' = S
           /\ Stage(i)' = runner'[i].stage /\ Pending(i)' /\ PointersOf(i)' = OwnPointers(i)
<1>1. ASSUME NEW j \in Ids \ {i} PROVE Unaffected(j)
  <2>1. CallsOf(Owner(j))' = CallsOf(Owner(j))
    <3>1. Owner(j)' = Owner(j) /\ Owner(j) # i
      BY OwnerIs DEF Owner
    <3> QED
      BY <3>1 DEF CallsChange
  <2> QED
    BY <2>1, KeptTogether
<1>2. Owner(i) = i /\ Owner(i)' = i
  BY DEF Owner
<1>3. TurnOf(i, S, {i})
  BY <1>1, <1>2 DEF TurnOf
<1>4. i # Together
  BY OwnerIs
<1>5. PairInv'
  BY <1>3, <1>4, PairStays DEF GestureInv
<1>6. CallsOf(i)' = S
  BY DEF CallsChange
<1> QED
  BY <1>2, <1>3, <1>5, <1>6 DEF Stage, Pending, PointersOf, OwnPointers, PointerType

OfOne(todo, i) ==
    /\ IsSequence(todo)
    /\ \A m \in DOMAIN todo :
          todo[m].by \in Pointers /\ \E what, ps : todo[m].parts = {Part(i, what, ps)}

LEMMA OfOneFits ==
    ASSUME NEW i \in Ids, Owner(i)' = i, NEW todo, OfOne(todo, i)
    PROVE  \A m \in DOMAIN todo : PartsFit(i, todo[m])'
<1> SUFFICES ASSUME NEW m \in DOMAIN todo PROVE PartsFit(i, todo[m])'
  OBVIOUS
<1>1. PICK what, ps : todo[m].parts = {Part(i, what, ps)}
  BY DEF OfOne
<1>2. \A x \in todo[m].parts : x.of = i
  BY <1>1, PartIs
<1> QED
  BY <1>1, <1>2 DEF OfOne, PartsFit

(* The whole of a step of one gesture: what is to be shown of it.          *)
LEMMA SoloTimeLine ==
    ASSUME GestureInv, NEW i \in TimeLines, i \notin pair.all,
           NEW g, g = [owner |-> i, todo |-> g.todo, then |-> g.then, sent |-> g.sent],
           CallsChange(i, {g}), pair' = pair, OfOne(g.todo, i),
           DOMAIN runner' = Ids, \A j \in Ids \ {i} : runner'[j] = runner[j],
           runner'[i] = [stage |-> runner'[i].stage, step |-> runner'[i].step,
                         last |-> runner'[i].last, previous |-> runner'[i].previous,
                         left |-> runner'[i].left],
           runner'[i].stage \in {"starting", "moving", "pausing"},
           g.then \in {"moving", "finished", "pausing", "over"},
           UNCHANGED <<tapScreen, down, told>>, ScriptInv',
           \A f \in CallsOf(i) : f.todo = <<>>,
           \A m \in DOMAIN g.todo : Says(g.todo[m], i, "press") => Owed(i, g.todo[m].by)',
           \A p \in Pointers : Owed(i, p) => Owed(i, p)' \/ Releases({g}, i, p),
           \A p \in {"touch", "mouse"} : RestFits(i, p)',
           g.then = "finished" => Remembers(i)'
    PROVE  GestureInv'
<1>0. i \in Ids /\ i # Together
  BY OwnerIs DEF TimeLines
<1>1. /\ TurnOf(i, {g}, {i}) /\ PairInv'
      /\ Owner(i) = i /\ Owner(i)' = i /\ CallsOf(i)' = {g}
  BY <1>0, SoloTurn
<1>2. \A f \in Calls : f.owner = i => f.todo = <<>>
  BY DEF CallsOf
<1>3. RunnerFits(i)'
  BY <1>0, <1>1 DEF RunnerFits
<1>4. CallFits(g)'
  <2>1. g.owner = i
    OBVIOUS
  <2> QED
    BY <2>1 DEF CallFits, OfOne
<1>5. \A m \in DOMAIN g.todo : PartsFit(g.owner, g.todo[m])'
  <2>1. g.owner = i
    OBVIOUS
  <2> QED
    BY <2>1, <1>0, <1>1, OfOneFits
<1>6. ASSUME NEW m \in DOMAIN g.todo, NEW j \in Ids, Says(g.todo[m], j, "press")
      PROVE  PressFits(g.todo, m, j)'
  <2>1. PICK what, ps : g.todo[m].parts = {Part(i, what, ps)}
    BY DEF OfOne
  <2>2. j = i
    BY <2>1, <1>6, SaysPart
  <2> QED
    BY <2>2, <1>6 DEF PressFits
<1>7. \A p \in Pointers : Owed(i, p) => IsOwed(Pressed(i, p))' \/ Releases({g}, i, p)
  <2>1. \A p \in Pointers : Owed(i, p)' => IsOwed(Pressed(i, p))'
    BY DEF IsOwed
  <2> QED
    BY <2>1
<1>8. \A j \in TimeLines : g.owner = Owner(j)' => j = i
  BY <1>0, OwnerIsThen DEF TimeLines, Owner
<1>17. PICK S : S = {g}
  OBVIOUS
<1>18. PICK C : C = {i}
  OBVIOUS
<1>19. TurnOf(i, S, C)
  BY ONLY <1>1, <1>17, <1>18, Zenon
<1>9. \A j \in C \ TimeLines : j \in Started' <=> j \in Started
  BY <1>18
<1>10. \A j \in C : RunnerFits(j)'
  BY ONLY <1>3, <1>18
<1>11. \A f \in S : CallFits(f)'
  BY ONLY <1>4, <1>17
<1>12. \A f \in S : \A m \in DOMAIN f.todo : PartsFit(f.owner, f.todo[m])'
  BY ONLY <1>5, <1>17
<1>13. \A f \in S : \A m \in DOMAIN f.todo : \A j \in Ids :
           Says(f.todo[m], j, "press") => PressFits(f.todo, m, j)'
  BY ONLY <1>6, <1>17
<1>14. \A j \in C \cap TimeLines : \A p \in Pointers :
           Owed(j, p) => IsOwed(Pressed(j, p))' \/ Releases(S, j, p)
  BY ONLY <1>7, <1>17, <1>18
<1>15. \A j \in C : \A p \in {"touch", "mouse"} : RestFits(j, p)'
  BY <1>18
<1>16. \A f \in S : f.then = "finished" =>
           \A j \in TimeLines : f.owner = Owner(j)' /\ Pending(j)' => Remembers(j)'
  <2>1. g.then = "finished" => \A j \in TimeLines : g.owner = Owner(j)' => Remembers(j)'
    BY <1>8
  <2> QED
    BY ONLY <2>1, <1>17
<1> QED
  <2>1. UNCHANGED <<tapScreen, down, told>>
    OBVIOUS
  <2>2. GestureInv /\ ScriptInv'
    OBVIOUS
  <2> QED
    BY ONLY <1>1, <1>2, <1>19, <1>9, <1>10, <1>11, <1>12, <1>13, <1>14, <1>15, <1>16, <2>1, <2>2, OrdinaryTurn

LEMMA OwnPointersFit ==
    ASSUME NEW i PROVE OwnPointers(i) \subseteq Pointers
  BY DEF OwnPointers, Pointers

(* What is sent for a command, event by event.                             *)
SentOf(todo, by, i, what, points) ==
    /\ OfOne(todo, i)
    /\ \A m \in DOMAIN todo :
          /\ todo[m].by \in by
          /\ \A x \in todo[m].parts :
                /\ x.of = i /\ x.what = what
                /\ todo[m].by \in {"touch", "mouse"} => x.points = View(todo[m].by, points)
    /\ \A m, n \in DOMAIN todo : todo[m].by = todo[n].by => m = n
    /\ \A p \in by : \E m \in DOMAIN todo : SameWay(p, todo[m].by) /\ Says(todo[m], i, what)

LEMMA SentIs ==
    ASSUME NEW i, NEW what, NEW points, PointsFit(points)
    PROVE  SentOf(Sent(i, what, points), OwnPointers(i), i, what, points)
<1>1. PICK s : s = Sent(i, what, points)
  OBVIOUS
<1>2. PICK by : by = OwnPointers(i)
  OBVIOUS
<1>3. SentBy(s, by, i, what, points) /\ by \subseteq Pointers
  BY <1>1, <1>2, SentFits, OwnPointersFit
<1>4. ASSUME NEW m \in DOMAIN s
      PROVE  /\ s[m].by \in by /\ s[m].by \in Pointers /\ Says(s[m], i, what)
             /\ \E w, q : s[m].parts = {Part(i, w, q)}
             /\ \A x \in s[m].parts :
                   /\ x.of = i /\ x.what = what
                   /\ s[m].by \in {"touch", "mouse"} => x.points = View(s[m].by, points)
  <2>1. s[m].by \in by /\ s[m].by \in Pointers
    BY <1>3 DEF SentBy
  <2>2. PICK ps : /\ s[m].parts = {Part(i, what, ps)}
                  /\ s[m].by \in {"touch", "mouse"} => ps = View(s[m].by, points)
    BY <1>3 DEF SentBy
  <2> QED
    BY <2>1, <2>2, PartIs, SaysPart
<1>5. OfOne(s, i)
  BY <1>3, <1>4 DEF OfOne, SentBy
<1>6. \A m, n \in DOMAIN s : s[m].by = s[n].by => m = n
  BY <1>3 DEF SentBy
<1>7. \A p \in by : \E m \in DOMAIN s : SameWay(p, s[m].by) /\ Says(s[m], i, what)
  BY <1>3, <1>4 DEF SentBy
<1>8. SentOf(s, by, i, what, points)
  BY <1>4, <1>5, <1>6, <1>7 DEF SentOf
<1> QED
  BY <1>1, <1>2, <1>8

LEMMA NothingSent == ASSUME NEW i PROVE OfOne(<<>>, i) /\ DOMAIN <<>> = {}
  BY NoneIn DEF OfOne

(* Other points are others by each of the pointers of a command.           *)
LEMMA ViewsDiffer ==
    ASSUME NEW i \in TimeLines, NEW p \in OwnPointers(i) \cap {"touch", "mouse"}, NEW a, NEW b,
           Command[i].name \notin {"PinchZoom", "Rotate"} => IsSingle(a) /\ IsSingle(b), a # b
    PROVE  View(p, a) # View(p, b)
<1>1. CASE p = "touch"
  BY <1>1 DEF View
<1>2. CASE p = "mouse"
  <2>1. Command[i].name \notin {"PinchZoom", "Rotate"}
    BY <1>2 DEF OwnPointers, PointerType
  <2> QED
    BY <2>1, <1>2 DEF View, IsSingle
<1> QED
  BY <1>1, <1>2

(* A pointer of a command was told where it is now, if of any place on its *)
(* way.                                                                    *)
TellsNow(i, p) ==
    told[i][p].what = "move" => Remembers(i) /\ told[i][p].points = PointsNow(i, p)

(* Moves of a command to a place it has not told.                          *)
MovesTo(todo, i, at) ==
    /\ OfOne(todo, i)
    /\ \A m \in DOMAIN todo : todo[m].by \in OwnPointers(i)
    /\ \A m \in DOMAIN todo : \A x \in todo[m].parts : x.of = i /\ x.what = "move"
    /\ \A m, n \in DOMAIN todo : todo[m].by = todo[n].by => m = n
    /\ \A p \in {"touch", "mouse"} : TellsNow(i, p) =>
          /\ \A m \in DOMAIN todo : todo[m].by = p => \A x \in todo[m].parts :
                x.points = View(p, at) /\ (told[i][p].what = "move" => told[i][p].points # x.points)
          /\ told[i][p].what = "move" /\ p \in OwnPointers(i)
               /\ (\A m \in DOMAIN todo : ~IsMove(todo[m], i, p))
             => at = At(Command[i], runner[i].step)

(* Points are left out exactly if they were told: MouseGesture::move.      *)
LEMMA MoveTells ==
    ASSUME NEW i \in TimeLines, NEW at, PointsFit(at),
           Command[i].name \notin {"PinchZoom", "Rotate"} => IsSingle(at),
           NEW points, points = [at |-> at, last |-> runner[i].last, from |-> Start(Command[i])]
    PROVE  MovesTo(Move(i, points), i, at)
<1>1. points.at = at
  OBVIOUS
<1>2. ASSUME NEW p, TellsNow(i, p), told[i][p].what = "move"
      PROVE  (points = runner[i].previous) <=> at = At(Command[i], runner[i].step)
  BY <1>2 DEF TellsNow, Remembers, Previous, PointsAt
<1>3. CASE points = runner[i].previous
  <2>1. Move(i, points) = <<>>
    BY <1>3 DEF Move
  <2>2. MovesTo(<<>>, i, at)
    BY <1>2, <1>3, NothingSent DEF MovesTo
  <2> QED
    BY <2>1, <2>2
<1>4. CASE points # runner[i].previous
  <2>1. PICK s : s = Move(i, points)
    OBVIOUS
  <2>2. SentOf(s, OwnPointers(i), i, "move", at)
    BY <2>1, <1>1, <1>4, SentIs DEF Move
  <2>3. /\ OfOne(s, i)
        /\ \A m \in DOMAIN s : s[m].by \in OwnPointers(i)
        /\ \A m \in DOMAIN s : \A x \in s[m].parts : x.of = i /\ x.what = "move"
        /\ \A m, n \in DOMAIN s : s[m].by = s[n].by => m = n
    BY <2>2 DEF SentOf
  <2>4. ASSUME NEW p \in {"touch", "mouse"}, TellsNow(i, p), NEW m \in DOMAIN s, s[m].by = p,
               NEW x \in s[m].parts
        PROVE  x.points = View(p, at) /\ (told[i][p].what = "move" => told[i][p].points # x.points)
    <3>1. x.points = View(p, at) /\ p \in OwnPointers(i)
      BY <2>2, <2>4 DEF SentOf
    <3>2. ASSUME told[i][p].what = "move" PROVE told[i][p].points # View(p, at)
      <4>1. at # At(Command[i], runner[i].step)
        BY <1>2, <1>4, <2>4, <3>2
      <4>2. Command[i].name \notin {"PinchZoom", "Rotate"} => IsSingle(At(Command[i], runner[i].step))
        BY AtFits
      <4>3. View(p, At(Command[i], runner[i].step)) # View(p, at)
        BY <3>1, <4>1, <4>2, ViewsDiffer
      <4> QED
        BY <4>3, <2>4, <3>2 DEF TellsNow, PointsNow
    <3> QED
      BY <3>1, <3>2
  <2>5. ASSUME NEW p \in {"touch", "mouse"}, p \in OwnPointers(i) PROVE \E m \in DOMAIN s : IsMove(s[m], i, p)
    <3>1. PICK m \in DOMAIN s : SameWay(p, s[m].by) /\ Says(s[m], i, "move")
      BY <2>2, <2>5 DEF SentOf
    <3> QED
      BY <3>1 DEF SameWay, IsMove
  <2>6. MovesTo(s, i, at)
    BY <2>3, <2>4, <2>5 DEF MovesTo
  <2> QED
    BY <2>1, <2>6
<1> QED
  BY <1>3, <1>4

(* What is known of a command that is performed alone.                     *)
LEMMA SoloIs ==
    ASSUME GestureInv, NEW i \in Ids, i \notin pair.all
    PROVE  /\ Owner(i) = i /\ Stage(i) = runner[i].stage /\ Pending(i)
           /\ PointersOf(i) = OwnPointers(i) /\ DOMAIN runner = Ids /\ RunnerFits(i)
           /\ i # Together
           /\ \A p \in {"touch", "mouse"} : RestFits(i, p)
  BY OwnerIs DEF Owner, Stage, Pending, PointersOf, GestureInv, RunnerInv, RestInv

LEMMA NotRunning ==
    ASSUME NEW o, ~Running(o)
    PROVE  CallsOf(o) = {}
  BY DEF Running, CallsOf, Calls

LEMMA SoloPushed ==
    ASSUME GestureInv, NEW o, CallsOf(o) = {}, NEW todo, NEW then, Call(o, todo, then)
    PROVE  \E g : /\ g = [owner |-> o, todo |-> todo, then |-> then, sent |-> FALSE]
                  /\ CallsChange(o, {g})
<1>1. PICK g : g = [owner |-> o, todo |-> todo, then |-> then, sent |-> FALSE]
  OBVIOUS
<1>2. StackInv /\ g.owner = o
  BY <1>1 DEF GestureInv, CallsInv
<1>3. frames' = Append(frames, g)
  BY <1>1 DEF Call
<1> QED
  BY <1>1, <1>2, <1>3, Pushed

(* Nothing is told of a command that presses or releases.                  *)
LEMMA StillFits ==
    ASSUME NEW i \in Ids, NEW p, told' = told, ~told[i][p].rest,
           told[i][p].what = "move" => p \in PointersOf(i)',
           \A f \in CallsOf(Owner(i))' : \A m \in DOMAIN f.todo : ~Says(f.todo[m], i, "move"),
           told[i][p].what = "move" /\ Goes(i)' =>
               Remembers(i)' /\ told[i][p].points = PointsNow(i, p)'
    PROVE  RestFits(i, p)'
<1>1. ASSUME NEW f \in CallsOf(Owner(i))' PROVE MoveFits(i, p, f.todo)'
  <2>1. \A m \in DOMAIN f.todo : ~Says(f.todo[m], i, "move")
    OBVIOUS
  <2>2. \A m \in DOMAIN f.todo : ~Says(f.todo[m], i, "move")'
    BY <2>1 DEF Says
  <2> QED
    BY <2>2 DEF MoveFits, IsMove, Says
<1> QED
  BY <1>1 DEF RestFits

(* Where nothing of the gestures but the script changes.                   *)
LEMMA GoesOn ==
    ASSUME GestureInv, ScriptInv', UNCHANGED <<runner, pair, frames, tapScreen, down, told>>
    PROVE  GestureInv'
<1>1. Calls' = Calls /\ \A o : CallsOf(o)' = CallsOf(o)
  BY DEF Calls, CallsOf
<1>2. ASSUME NEW i \in Ids PROVE Unaffected(i)
  <2>1. Owner(i)' = Owner(i)
    BY DEF Owner
  <2>2. CallsOf(Owner(i))' = CallsOf(Owner(i))
    BY <2>1, <1>1
  <2> QED
    BY <2>2, KeptTogether
<1>3. \A i, p : Pressed(i, p)' = Pressed(i, p)
  BY SamePressed
<1>4. RunnerInv'
  BY <1>1 DEF GestureInv, RunnerInv, RunnerFits
<1>5. PairInv'
  BY <1>1 DEF GestureInv, PairInv, Finishing
<1>6. CallsInv'
  BY <1>1 DEF GestureInv, CallsInv, StackInv, CallFits
<1>7. PartsInv'
  BY <1>1 DEF GestureInv, PartsInv, PartsFit, Owner
<1>8. PressInv'
  <2>1. ASSUME NEW f \in Calls, NEW m \in DOMAIN f.todo, NEW i \in Ids, Says(f.todo[m], i, "press")
        PROVE  PressFits(f.todo, m, i)'
    <3>1. PressFits(f.todo, m, i)
      BY <2>1 DEF GestureInv, PressInv
    <3>2. \A p : Owed(i, p)' <=> Owed(i, p)
      BY <1>2, KeptIsSame
    <3> QED
      BY <3>1, <3>2 DEF PressFits, Says
  <2>2. \A e, i : Says(e, i, "press")' <=> Says(e, i, "press")
    BY DEF Says
  <2> QED
    BY <1>1, <2>1, <2>2 DEF PressInv
<1>9. TapInv' /\ Started' = Started
  <2>1. Started' = Started
    BY <1>1 DEF Started
  <2> QED
    BY <2>1 DEF GestureInv, TapInv, Agree
<1>10. DownInv'
  <2>1. Agree' => Agree
    BY <1>9 DEF Agree
  <2>2. ASSUME NEW d, IsOwed(d) PROVE IsOwed(d)'
    <3>1. PICK i \in TimeLines, p \in Pointers : d = Pressed(i, p) /\ Owed(i, p)
      BY <2>2 DEF IsOwed
    <3>2. Owed(i, p)' /\ d = Pressed(i, p)'
      BY <3>1, <1>2, <1>3, KeptIsSame DEF TimeLines
    <3> QED
      BY <3>2 DEF IsOwed
  <2>3. ASSUME NEW d, IsSent(d) PROVE IsSent(d)'
    <3>1. PICK f \in Calls : \E m \in DOMAIN f.todo : \E i \in Ids :
              Says(f.todo[m], i, "release") /\ d = Pressed(i, f.todo[m].by)
      BY <2>3 DEF IsSent
    <3>2. PICK m \in DOMAIN f.todo : \E i \in Ids :
              Says(f.todo[m], i, "release") /\ d = Pressed(i, f.todo[m].by)
      BY <3>1
    <3>3. PICK i \in Ids : Says(f.todo[m], i, "release") /\ d = Pressed(i, f.todo[m].by)
      BY <3>2
    <3>4. d = Pressed(i, f.todo[m].by)' /\ Says(f.todo[m], i, "release")'
      BY <3>3, <1>3 DEF Says
    <3> QED
      BY <3>4, <1>1 DEF IsSent
  <2> QED
    BY <2>1, <2>2, <2>3 DEF GestureInv, DownInv
<1>11. RestInv'
  <2>1. ASSUME NEW i \in Ids, NEW p \in {"touch", "mouse"} PROVE RestFits(i, p)'
    <3>1. RestFits(i, p)
      BY DEF GestureInv, RestInv
    <3>2. /\ Goes(i)' <=> Goes(i)
          /\ Remembers(i)' <=> Remembers(i)
          /\ PointsNow(i, p)' = PointsNow(i, p)
          /\ CallsOf(Owner(i))' = CallsOf(Owner(i))
          /\ PointersOf(i)' = PointersOf(i)
      BY <1>2, KeptIsSame DEF Unaffected
    <3>3. \A todo : MoveFits(i, p, todo) => MoveFits(i, p, todo)'
      BY <3>2 DEF MoveFits, IsMove, Says
    <3> QED
      BY <3>1, <3>2, <3>3 DEF RestFits, IsMove, Says
  <2>2. ASSUME NEW f \in Calls, f.then = "finished", NEW i \in TimeLines,
               f.owner = Owner(i)', Pending(i)'
        PROVE  Remembers(i)'
    <3>1. Unaffected(i) /\ i \in Ids
      BY <1>2 DEF TimeLines
    <3>2. Remembers(i)
      BY <2>2, <3>1 DEF GestureInv, RestInv, Unaffected
    <3> QED
      BY <3>1, <3>2, KeptIsSame
  <2>3. told' = [i \in Ids |-> [p \in Pointers |-> told'[i][p]]]
    BY DEF GestureInv, RestInv
  <2> QED
    BY <1>1, <2>1, <2>2, <2>3 DEF RestInv
<1> QED
  BY <1>4, <1>5, <1>6, <1>7, <1>8, <1>9, <1>10, <1>11 DEF GestureInv

(* What is not found, or not survived, is left out of the script.          *)
LEMMA LeftOut ==
    ASSUME GestureInv, script # <<>>, script' = Tail(script),
           UNCHANGED <<runner, pair, frames, tapScreen, down, told>>
    PROVE  GestureInv'
<1>1. ScriptFits(script)
  BY DEF GestureInv, ScriptInv
<1>2. /\ ScriptFits(script')
      /\ \A n \in DOMAIN script' : n + 1 \in DOMAIN script /\ script'[n] = script[n + 1]
  BY <1>1, ScriptTail
<1>3. \A i : Fresh(i) => Fresh(i)'
  BY DEF Fresh, CallsOf, Calls
<1>4. ScriptInv'
  BY <1>2, <1>3 DEF GestureInv, ScriptInv
<1> QED
  BY <1>4, GoesOn

(* What is first of the script, and goes out of it.                        *)
LEMMA HeadIsFresh ==
    ASSUME GestureInv, script # <<>>
    PROVE  \A i \in Head(script) : Fresh(i)
<1>1. ScriptFits(script)
  BY DEF GestureInv, ScriptInv
<1>2. 1 \in DOMAIN script /\ Head(script) = script[1]
  BY <1>1, ScriptTail
<1> QED
  BY <1>2 DEF GestureInv, ScriptInv

LEMMA SoloTurnWith ==
    ASSUME GestureInv, NEW i \in Ids, i \notin pair.all, NEW g, CallsChange(i, {g}), pair' = pair,
           DOMAIN runner' = Ids, \A j \in Ids \ {i} : runner'[j] = runner[j]
    PROVE  /\ Owner(i)' = i /\ CallsOf(i)' = {g} /\ Stage(i)' = runner'[i].stage /\ Pending(i)'
           /\ PointersOf(i)' = OwnPointers(i)
<1>1. PICK S : S = {g}
  OBVIOUS
<1>2. CallsChange(i, S)
  BY <1>1
<1>3. /\ Owner(i)' = i /\ CallsOf(i)' = S /\ Stage(i)' = runner'[i].stage /\ Pending(i)'
      /\ PointersOf(i)' = OwnPointers(i)
  BY <1>2, SoloTurn
<1> QED
  BY <1>1, <1>3

LEMMA SoloSameScript ==
    ASSUME GestureInv, NEW i \in Ids, i \notin pair.all, ~Fresh(i), NEW S, CallsChange(i, S),
           UNCHANGED <<script, pair, told>>,
           DOMAIN runner' = Ids, \A j \in Ids \ {i} : runner'[j] = runner[j]
    PROVE  ScriptInv'
<1>1. PICK C : C = {i}
  OBVIOUS
<1>2. TurnOf(i, S, C)
  BY <1>1, SoloTurn
<1> QED
  BY <1>1, <1>2, TurnOfScript DEF GestureInv

LEMMA SoloScript ==
    ASSUME GestureInv, NEW i \in Ids, script # <<>>, {i} = Head(script), script' = Tail(script),
           NEW S, CallsChange(i, S), UNCHANGED <<pair, told>>,
           DOMAIN runner' = Ids, \A j \in Ids \ {i} : runner'[j] = runner[j]
    PROVE  ScriptInv' /\ Fresh(i)
<1>1. Fresh(i)
  BY HeadIsFresh
<1>2. i \notin pair.all /\ ScriptInv
  BY <1>1 DEF Fresh, GestureInv
<1>3. PICK C : C = {i}
  OBVIOUS
<1>4. TurnOf(i, S, C)
  BY <1>2, <1>3, SoloTurn
<1> QED
  BY <1>1, <1>2, <1>3, <1>4, NextOfScript

LEMMA FreshOwesNothing ==
    ASSUME NEW i, Fresh(i)
    PROVE  \A p : ~Owed(i, p)
  BY DEF Fresh, Owed, Coming, Owner, Stage

(* A gesture starts: it presses, and owes the release.                     *)
LEMMA StartGestureKeeps ==
    ASSUME GestureInv, NEW i \in TimeLines, StartGesture(i)
    PROVE  GestureInv'
<1>1. /\ script # <<>> /\ {i} = Head(script) /\ script' = Tail(script)
      /\ UNCHANGED <<pair, tapScreen, down, told>> /\ i \in Ids
  BY DEF StartGesture, Performed, TimeLines
<1>2. Fresh(i)
  BY <1>1, HeadIsFresh
<1>3. CASE UNCHANGED <<runner, frames>>
  BY <1>1, <1>3, LeftOut
<1>4. CASE ~UNCHANGED <<runner, frames>>
  <2>1. PICK todo : todo = IF Command[i].press THEN Sent(i, "press", Start(Command[i])) ELSE <<>>
    OBVIOUS
  <2>2. /\ runner' = [runner EXCEPT ![i] =
                   [Idle EXCEPT !.stage = "starting", !.last = Start(Command[i]),
                                !.previous = StartPoints(i)]]
        /\ Call(i, todo, "moving")
    BY <1>4, <2>1 DEF StartGesture
  <2>3. i \notin pair.all /\ CallsOf(i) = {} /\ \A p \in Pointers : told[i][p].what # "move"
    BY <1>2 DEF Fresh
  <2>4. PICK g : /\ g = [owner |-> i, todo |-> todo, then |-> "moving", sent |-> FALSE]
                 /\ CallsChange(i, {g})
    BY <2>2, <2>3, SoloPushed
  <2>5. /\ OfOne(todo, i)
        /\ \A m \in DOMAIN todo : /\ todo[m].by \in OwnPointers(i)
                                  /\ \A x \in todo[m].parts : x.of = i /\ x.what = "press"
    <3>1. CASE Command[i].press
      <4>1. SentOf(todo, OwnPointers(i), i, "press", Start(Command[i]))
        BY <2>1, <3>1, SentIs, EndsFit
      <4> QED
        BY <4>1 DEF SentOf
    <3>2. CASE ~Command[i].press
      BY <2>1, <3>2, NothingSent
    <3> QED
      BY <3>1, <3>2
  <2>6. /\ DOMAIN runner' = Ids /\ \A j \in Ids \ {i} : runner'[j] = runner[j]
        /\ runner'[i] = [stage |-> "starting", step |-> 0, last |-> Start(Command[i]),
                         previous |-> StartPoints(i), left |-> 0]
    BY <1>1, <2>2 DEF Idle, GestureInv, RunnerInv
  <2>7. /\ Owner(i)' = i /\ CallsOf(i)' = {g} /\ Stage(i)' = "starting" /\ Pending(i)'
        /\ PointersOf(i)' = OwnPointers(i)
    <3>1. /\ Owner(i)' = i /\ CallsOf(i)' = {g} /\ Stage(i)' = runner'[i].stage /\ Pending(i)'
          /\ PointersOf(i)' = OwnPointers(i)
      <4>1. /\ i \in Ids /\ i \notin pair.all /\ CallsChange(i, {g}) /\ pair' = pair
            /\ DOMAIN runner' = Ids /\ \A j \in Ids \ {i} : runner'[j] = runner[j]
        BY <1>1, <2>3, <2>4, <2>6
      <4> QED
        BY <4>1, SoloTurnWith
    <3> QED
      BY <2>6, <3>1
  <2>8. ScriptInv'
    BY <1>1, <2>4, <2>6, SoloScript
  <2>9. ASSUME NEW m \in DOMAIN todo PROVE Owed(i, todo[m].by)'
    <3>1. Coming(i)'
      BY <2>4, <2>7 DEF Coming
    <3>2. todo[m].by \in OwnPointers(i) /\ todo[m].by \in Pointers
      BY <2>5, OwnPointersFit
    <3> QED
      BY <3>1, <3>2, <2>6, <2>7 DEF Owed
  <2>10. ASSUME NEW p \in {"touch", "mouse"} PROVE RestFits(i, p)'
    <3>1. \A f \in CallsOf(Owner(i))' : \A m \in DOMAIN f.todo : ~Says(f.todo[m], i, "move")
      BY <2>4, <2>5, <2>7 DEF Says
    <3>2. ~told[i][p].rest /\ told[i][p].what # "move"
      BY <1>1, <2>3 DEF GestureInv, RestInv, RestFits, Pointers
    <3> QED
      BY <1>1, <3>1, <3>2, StillFits
  <2>11. \A p \in Pointers : ~Owed(i, p)
    BY <1>2, FreshOwesNothing
  <2>12. /\ g = [owner |-> i, todo |-> g.todo, then |-> g.then, sent |-> g.sent]
         /\ g.todo = todo /\ g.then = "moving"
    BY <2>4
  <2>13. /\ runner'[i] = [stage |-> runner'[i].stage, step |-> runner'[i].step, last |-> runner'[i].last,
                          previous |-> runner'[i].previous, left |-> runner'[i].left]
         /\ runner'[i].stage = "starting"
    BY <2>6
  <2>14. \A f \in CallsOf(i) : f.todo = <<>>
    BY <2>3
  <2>15. /\ OfOne(g.todo, i)
         /\ \A m \in DOMAIN g.todo : Says(g.todo[m], i, "press") => Owed(i, g.todo[m].by)'
    BY <2>5, <2>9, <2>12
  <2> QED
    BY <1>1, <2>3, <2>4, <2>6, <2>8, <2>10, <2>11, <2>12, <2>13, <2>14, <2>15, SoloTimeLine
<1> QED
  BY <1>3, <1>4

(* Between two steps the last point was told.                              *)
LEMMA TellsWhileGoing ==
    ASSUME GestureInv, NEW i \in Ids, NEW p \in {"touch", "mouse"}, Goes(i),
           \A f \in CallsOf(Owner(i)) : f.todo = <<>>
    PROVE  TellsNow(i, p)
<1>1. RestFits(i, p)
  BY DEF GestureInv, RestInv
<1>2. \A f \in CallsOf(Owner(i)) : \A m \in DOMAIN f.todo : FALSE
  BY NoneIn
<1> QED
  BY <1>1, <1>2 DEF RestFits, TellsNow

(* The calls of a command go where it is told to be now.                   *)
LEMMA MovesFit ==
    ASSUME NEW i \in TimeLines, NEW p \in {"touch", "mouse"}, NEW todo, NEW at,
           MovesTo(todo, i, at), TellsNow(i, p), told' = told, PointersOf(i)' = OwnPointers(i),
           Goes(i)' => Remembers(i)' /\ at = At(Command[i], runner'[i].step)
    PROVE  MoveFits(i, p, todo)'
<1>1. /\ \A m \in DOMAIN todo : todo[m].by \in OwnPointers(i)
      /\ \A m, n \in DOMAIN todo : todo[m].by = todo[n].by => m = n
      /\ \A m \in DOMAIN todo : todo[m].by = p => \A x \in todo[m].parts :
            x.points = View(p, at) /\ (told[i][p].what = "move" => told[i][p].points # x.points)
  BY DEF MovesTo
<1>2. Goes(i)' => PointsNow(i, p)' = View(p, at)
  BY DEF PointsNow
<1>3. \A m \in DOMAIN todo : IsMove(todo[m], i, p)' => todo[m].by = p
  BY DEF IsMove
<1> QED
  BY <1>1, <1>2, <1>3 DEF MoveFits

(* Moves, and what comes after them.                                       *)
LEMMA ConcatMovesFitThen ==
    ASSUME NEW i, NEW p, NEW a, NEW b, IsSequence(a), IsSequence(b),
           MoveFits(i, p, a)', ~Goes(i)', \A m \in DOMAIN b : ~Says(b[m], i, "move")
    PROVE  MoveFits(i, p, a \o b)'
<1>1. PICK c : c = a \o b
  OBVIOUS
<1>2. \A m \in DOMAIN c : \/ m \in DOMAIN a /\ c[m] = a[m]
                          \/ \E n \in DOMAIN b : c[m] = b[n]
  BY <1>1, ConcatIs
<1>3. \A m \in DOMAIN c : Says(c[m], i, "move") => m \in DOMAIN a /\ c[m] = a[m]
  BY <1>2
<1>4. MoveFits(i, p, c)'
  <2>1. \A m \in DOMAIN c : IsMove(c[m], i, p) => p \in PointersOf(i)'
    BY <1>3 DEF MoveFits, IsMove, Says
  <2>2. \A m, n \in DOMAIN c : IsMove(c[m], i, p) /\ IsMove(c[n], i, p) => m = n
    BY <1>3 DEF MoveFits, IsMove, Says
  <2>3. ASSUME NEW m \in DOMAIN c, c[m].by = p, NEW x \in c[m].parts, x.of = i, x.what = "move"
        PROVE  told'[i][p].what = "move" => told'[i][p].points # x.points
    <3>1. m \in DOMAIN a /\ c[m] = a[m]
      BY <1>3, <2>3 DEF Says
    <3> QED
      BY <3>1, <2>3 DEF MoveFits
  <2>4. \A m \in DOMAIN c : IsMove(c[m], i, p)' <=> IsMove(c[m], i, p)
    BY DEF IsMove, Says
  <2> QED
    BY <2>1, <2>2, <2>3, <2>4 DEF MoveFits
<1> QED
  BY <1>1, <1>4

LEMMA ConcatOfOne ==
    ASSUME NEW i, NEW a, NEW b, OfOne(a, i), OfOne(b, i)
    PROVE  OfOne(a \o b, i)
<1>1. IsSequence(a) /\ IsSequence(b)
  BY DEF OfOne
<1>2. PICK c : c = a \o b
  OBVIOUS
<1>3. IsSequence(c) /\ \A m \in DOMAIN c : \/ m \in DOMAIN a /\ c[m] = a[m]
                                           \/ \E n \in DOMAIN b : c[m] = b[n]
  BY <1>1, <1>2, ConcatIs
<1>4. OfOne(c, i)
  BY <1>3 DEF OfOne
<1> QED
  BY <1>2, <1>4

(* A step of the time line of one gesture.                                 *)
LEMMA GestureTimerEventKeeps ==
    ASSUME GestureInv, NEW i \in TimeLines, NEW k \in 1..Steps, GestureTimerEvent(i, k)
    PROVE  GestureInv'
<1>1. /\ UNCHANGED <<script, pair, tapScreen, down, told>> /\ i \in Ids
      /\ runner[i].stage = "moving" /\ runner' = [runner EXCEPT ![i] = Moved(i, k)]
  BY DEF GestureTimerEvent, TimeLines
<1>2. CallsOf(i) = {}
  BY NotRunning DEF GestureTimerEvent
<1>3. i \notin pair.all
  BY <1>1 DEF GestureInv, RunnerInv, RunnerFits
<1>4. /\ Owner(i) = i /\ Stage(i) = "moving" /\ Pending(i)
      /\ PointersOf(i) = OwnPointers(i) /\ DOMAIN runner = Ids /\ RunnerFits(i)
      /\ \A p \in {"touch", "mouse"} : RestFits(i, p)
  BY <1>1, <1>3, SoloIs
<1>5. PICK points : points = PointsAt(i, k, runner[i].last)
  OBVIOUS
<1>6. PICK at : at = At(Command[i], k)
  OBVIOUS
<1>7. PICK todo : todo = Move(i, points)
  OBVIOUS
<1>8. PICK g : /\ g = [owner |-> i, todo |-> todo,
                       then |-> IF k = Steps THEN "finished" ELSE "moving", sent |-> FALSE]
               /\ CallsChange(i, {g})
  <2>1. Call(i, todo, IF k = Steps THEN "finished" ELSE "moving")
    BY <1>5, <1>7 DEF GestureTimerEvent
  <2> QED
    BY <2>1, <1>2, SoloPushed
<1>9. /\ DOMAIN runner' = Ids /\ \A j \in Ids \ {i} : runner'[j] = runner[j]
      /\ runner'[i] = [stage |-> "moving", step |-> k, last |-> at,
                       previous |-> Previous(i, k), left |-> runner[i].left]
  BY <1>1, <1>4, <1>6 DEF Moved, RunnerFits
<1>10. /\ Owner(i)' = i /\ CallsOf(i)' = {g} /\ Stage(i)' = "moving" /\ Pending(i)'
       /\ PointersOf(i)' = OwnPointers(i)
  <2>1. /\ i \in Ids /\ i \notin pair.all /\ CallsChange(i, {g}) /\ pair' = pair
        /\ DOMAIN runner' = Ids /\ \A j \in Ids \ {i} : runner'[j] = runner[j]
    BY <1>1, <1>3, <1>8, <1>9
  <2>2. /\ Owner(i)' = i /\ CallsOf(i)' = {g} /\ Stage(i)' = runner'[i].stage /\ Pending(i)'
        /\ PointersOf(i)' = OwnPointers(i)
    BY <2>1, SoloTurnWith
  <2> QED
    BY <1>9, <2>2
<1>11. ScriptInv'
  <2>1. ~Fresh(i)
    BY <1>1 DEF Fresh
  <2>2. PICK S : S = {g}
    OBVIOUS
  <2>3. CallsChange(i, S)
    BY <1>8, <2>2
  <2> QED
    BY <1>1, <1>3, <1>9, <2>1, <2>3, SoloSameScript
<1>12. MovesTo(todo, i, at)
  <2>1. points = [at |-> at, last |-> runner[i].last, from |-> Start(Command[i])]
    BY <1>5, <1>6 DEF PointsAt
  <2>2. PointsFit(at) /\ (Command[i].name \notin {"PinchZoom", "Rotate"} => IsSingle(at))
    BY <1>6, AtFits
  <2> QED
    BY <1>7, <2>1, <2>2, MoveTells
<1>13. Goes(i) /\ Goes(i)'
  BY <1>2, <1>4, <1>8, <1>10 DEF Goes
<1>14. Remembers(i)' /\ at = At(Command[i], runner'[i].step)
  BY <1>6, <1>9 DEF Remembers, Previous, PointsAt
<1>15. ASSUME NEW p \in {"touch", "mouse"} PROVE RestFits(i, p)'
  <2>1. TellsNow(i, p)
    BY <1>1, <1>2, <1>4, <1>13, TellsWhileGoing
  <2>2. MoveFits(i, p, todo)'
    BY <1>1, <1>10, <1>12, <1>14, <2>1, MovesFit
  <2>3. told[i][p].what = "move" => p \in OwnPointers(i) /\ ~told[i][p].rest
    BY <1>4 DEF RestFits
  <2>4. ASSUME told[i][p].what = "move", \A m \in DOMAIN todo : ~IsMove(todo[m], i, p)
        PROVE  told[i][p].points = PointsNow(i, p)'
    <3>1. at = At(Command[i], runner[i].step)
      BY <1>12, <2>1, <2>3, <2>4 DEF MovesTo
    <3> QED
      BY <3>1, <1>14, <2>1, <2>4 DEF TellsNow, PointsNow
  <2>5. g.todo = todo
    BY <1>8
  <2>6. \A m \in DOMAIN todo : IsMove(todo[m], i, p)' <=> IsMove(todo[m], i, p)
    BY DEF IsMove, Says
  <2>7. ~told'[i][p].rest /\ told' = told
    BY <1>1, <1>4 DEF RestFits
  <2> QED
    BY <1>10, <1>14, <2>2, <2>3, <2>4, <2>5, <2>6, <2>7 DEF RestFits
<1>16. ASSUME NEW p \in Pointers, Owed(i, p) PROVE Owed(i, p)'
  <2>1. Coming(i)'
    BY <1>8, <1>10 DEF Coming
  <2> QED
    BY <1>1, <1>4, <1>9, <1>10, <1>16, <2>1 DEF Owed
<1>17. /\ g = [owner |-> i, todo |-> g.todo, then |-> g.then, sent |-> g.sent]
       /\ g.todo = todo /\ g.then \in {"finished", "moving"}
  BY <1>8
<1>18. /\ runner'[i] = [stage |-> runner'[i].stage, step |-> runner'[i].step, last |-> runner'[i].last,
                        previous |-> runner'[i].previous, left |-> runner'[i].left]
       /\ runner'[i].stage = "moving"
  BY <1>9
<1>19. \A f \in CallsOf(i) : f.todo = <<>>
  BY <1>2
<1>20. /\ OfOne(g.todo, i)
       /\ \A m \in DOMAIN g.todo : Says(g.todo[m], i, "press") => Owed(i, g.todo[m].by)'
  BY <1>12, <1>17 DEF MovesTo, Says
<1> QED
  BY <1>1, <1>3, <1>8, <1>9, <1>11, <1>14, <1>15, <1>16, <1>17, <1>18, <1>19, <1>20, SoloTimeLine

(* A drag has paused: its release is sent.                                 *)
LEMMA ReleaseMouseKeeps ==
    ASSUME GestureInv, NEW i \in TimeLines, ReleaseMouse(i)
    PROVE  GestureInv'
<1>1. /\ UNCHANGED <<script, runner, pair, tapScreen, down, told>> /\ i \in Ids
      /\ runner[i].stage = "pausing"
  BY DEF ReleaseMouse, TimeLines
<1>2. CallsOf(i) = {}
  BY NotRunning DEF ReleaseMouse
<1>3. i \notin pair.all
  BY <1>1 DEF GestureInv, RunnerInv, RunnerFits
<1>4. /\ Owner(i) = i /\ Stage(i) = "pausing" /\ Pending(i)
      /\ PointersOf(i) = OwnPointers(i) /\ DOMAIN runner = Ids /\ RunnerFits(i)
      /\ \A p \in {"touch", "mouse"} : RestFits(i, p)
  BY <1>1, <1>3, SoloIs
<1>5. PICK todo : todo = Sent(i, "release", End(Command[i]))
  OBVIOUS
<1>6. SentOf(todo, OwnPointers(i), i, "release", End(Command[i]))
  BY <1>5, EndsFit, SentIs
<1>7. PICK g : /\ g = [owner |-> i, todo |-> todo, then |-> "over", sent |-> FALSE]
               /\ CallsChange(i, {g})
  <2>1. Call(i, todo, "over")
    BY <1>5 DEF ReleaseMouse
  <2> QED
    BY <2>1, <1>2, SoloPushed
<1>8. DOMAIN runner' = Ids /\ (\A j \in Ids \ {i} : runner'[j] = runner[j]) /\ runner'[i] = runner[i]
  BY <1>1, <1>4
<1>9. /\ Owner(i)' = i /\ CallsOf(i)' = {g} /\ Stage(i)' = runner'[i].stage /\ Pending(i)'
      /\ PointersOf(i)' = OwnPointers(i)
  <2>1. /\ i \in Ids /\ i \notin pair.all /\ CallsChange(i, {g}) /\ pair' = pair
        /\ DOMAIN runner' = Ids /\ \A j \in Ids \ {i} : runner'[j] = runner[j]
    BY <1>1, <1>3, <1>7, <1>8
  <2> QED
    BY <2>1, SoloTurnWith
<1>10. ScriptInv'
  <2>1. ~Fresh(i)
    BY <1>1 DEF Fresh
  <2>2. PICK S : S = {g}
    OBVIOUS
  <2>3. CallsChange(i, S)
    BY <1>7, <2>2
  <2> QED
    BY <1>1, <1>3, <1>8, <2>1, <2>3, SoloSameScript
<1>11. ASSUME NEW p \in {"touch", "mouse"} PROVE RestFits(i, p)'
  <2>1. \A f \in CallsOf(Owner(i))' : \A m \in DOMAIN f.todo : ~Says(f.todo[m], i, "move")
    BY <1>6, <1>7, <1>9 DEF Says, SentOf
  <2>2. ~told[i][p].rest /\ (told[i][p].what = "move" => p \in PointersOf(i)')
    BY <1>4, <1>9 DEF RestFits
  <2>3. ~Goes(i)'
    BY <1>7, <1>9 DEF Goes
  <2> QED
    BY <1>1, <2>1, <2>2, <2>3, StillFits
<1>12. ASSUME NEW p \in Pointers, Owed(i, p) PROVE Owed(i, p)' \/ Releases({g}, i, p)
  <2>1. CASE ~Command[i].release
    BY <2>1, <1>8, <1>12 DEF Owed
  <2>2. CASE Command[i].release
    <3>1. p \in OwnPointers(i)
      BY <2>2, <1>4, <1>12 DEF Owed
    <3>2. PICK m \in DOMAIN todo : SameWay(p, todo[m].by) /\ Says(todo[m], i, "release")
      BY <3>1, <1>6 DEF SentOf
    <3> QED
      BY <3>2, <1>7 DEF Releases
  <2> QED
    BY <2>1, <2>2
<1>13. /\ g = [owner |-> i, todo |-> g.todo, then |-> g.then, sent |-> g.sent]
       /\ g.todo = todo /\ g.then = "over"
  BY <1>7
<1>14. /\ runner'[i] = [stage |-> runner'[i].stage, step |-> runner'[i].step, last |-> runner'[i].last,
                        previous |-> runner'[i].previous, left |-> runner'[i].left]
       /\ runner'[i].stage = "pausing"
  BY <1>1, <1>4 DEF RunnerFits
<1>15. \A f \in CallsOf(i) : f.todo = <<>>
  BY <1>2
<1>16. /\ OfOne(g.todo, i)
       /\ \A m \in DOMAIN g.todo : Says(g.todo[m], i, "press") => Owed(i, g.todo[m].by)'
  BY <1>6, <1>13 DEF SentOf, Says
<1> QED
  BY <1>1, <1>3, <1>7, <1>8, <1>10, <1>11, <1>12, <1>13, <1>14, <1>15, <1>16, SoloTimeLine

(* The innermost call.                                                     *)
LEMMA InnermostIs ==
    ASSUME GestureInv, frames # <<>>
    PROVE  /\ Last(frames) \in Calls /\ CallsOf(Last(frames).owner) = {Last(frames)}
           /\ CallFits(Last(frames)) /\ StackInv
  BY TopIs DEF GestureInv, CallsInv

Going(f, todo, then) == [f EXCEPT !.todo = todo, !.sent = FALSE, !.then = then]

(* The innermost call goes on with something else.                         *)
LEMMA GoesOnWith ==
    ASSUME NEW r, NEW o, r = [owner |-> o, todo |-> r.todo, then |-> r.then, sent |-> r.sent],
           NEW todo, NEW then
    PROVE  Going(r, todo, then) = [owner |-> o, todo |-> todo, then |-> then, sent |-> FALSE]
<1>1. PICK x, y, z : r = [owner |-> o, todo |-> x, then |-> y, sent |-> z]
  OBVIOUS
<1>2. PICK s : s = [r EXCEPT !.todo = todo]
  OBVIOUS
<1>3. PICK t : t = [s EXCEPT !.sent = FALSE]
  OBVIOUS
<1>4. PICK u : u = [t EXCEPT !.then = then]
  OBVIOUS
<1>5. s = [owner |-> o, todo |-> todo, then |-> y, sent |-> z]
  BY <1>1, <1>2
<1>6. t = [owner |-> o, todo |-> todo, then |-> y, sent |-> FALSE]
  BY <1>5, <1>3
<1>7. u = [owner |-> o, todo |-> todo, then |-> then, sent |-> FALSE]
  BY <1>6, <1>4
<1>8. u = [r EXCEPT !.todo = todo, !.sent = FALSE, !.then = then]
  BY <1>2, <1>3, <1>4, Zenon
<1> QED
  BY <1>7, <1>8 DEF Going

(* The time line of one gesture is at its end: the last move, and the      *)
(* release unless a drag pauses before it.                                 *)
LEMMA FinishedAloneKeeps ==
    ASSUME GestureInv, Return, Last(frames).owner # Together, Last(frames).then = "finished"
    PROVE  GestureInv'
<1>1. PICK f : f = Last(frames)
  OBVIOUS
<1>2. /\ frames # <<>> /\ f.todo = <<>> /\ f.owner # Together /\ f.then = "finished" /\ Finished(f)
      /\ UNCHANGED <<script, runner, pair, tapScreen, down, told>>
  BY <1>1 DEF Return, Finished
<1>3. f \in Calls /\ CallsOf(f.owner) = {f} /\ CallFits(f) /\ StackInv
  BY <1>1, <1>2, InnermostIs
<1>4. PICK i \in TimeLines : i = f.owner /\ i \notin pair.all /\ i \in Ids
  BY <1>2, <1>3 DEF CallFits, TimeLines
<1>5. /\ f = [owner |-> i, todo |-> f.todo, then |-> f.then, sent |-> f.sent]
      /\ runner[i].stage \in {"starting", "moving", "pausing"}
  BY <1>2, <1>3, <1>4 DEF CallFits
<1>6. /\ Owner(i) = i /\ Pending(i)
      /\ PointersOf(i) = OwnPointers(i) /\ DOMAIN runner = Ids /\ RunnerFits(i)
      /\ \A p \in {"touch", "mouse"} : RestFits(i, p)
  BY <1>4, SoloIs
<1>7. Remembers(i)
  BY <1>2, <1>3, <1>4, <1>6 DEF GestureInv, RestInv
<1>8. PICK drag \in BOOLEAN : drag <=> Command[i].drag /\ Command[i].release
  OBVIOUS
<1>9. PICK a : a = Move(i, EndPoints(i))
  OBVIOUS
<1>10. PICK b : b = IF Command[i].release /\ ~Command[i].drag
                    THEN Sent(i, "release", End(Command[i])) ELSE <<>>
  OBVIOUS
<1>11. PICK todo : todo = a \o b
  OBVIOUS
<1>12. AtEnd(i) = todo
  BY <1>2, <1>4, <1>9, <1>10, <1>11 DEF AtEnd
<1>13. PICK g : /\ g = [owner |-> i, todo |-> todo, then |-> IF drag THEN "pausing" ELSE "over",
                        sent |-> FALSE]
                /\ CallsChange(i, {g})
  <2>1. PICK g : g = [owner |-> i, todo |-> todo, then |-> IF drag THEN "pausing" ELSE "over",
                      sent |-> FALSE]
    OBVIOUS
  <2>2. PICK then : then = IF drag THEN "pausing" ELSE "over"
    OBVIOUS
  <2>3. frames' = Append(Front(frames), Going(f, todo, then)) /\ Going(f, todo, then) = g
    <3>1. frames' = Append(Front(frames), Going(f, todo, then))
      BY <1>2, <1>4, <1>8, <1>12, <2>2 DEF Finished, Going
    <3>2. Going(f, todo, then) = [owner |-> i, todo |-> todo, then |-> then, sent |-> FALSE]
      BY <1>5, GoesOnWith
    <3> QED
      BY <3>1, <3>2, <2>1, <2>2
  <2>4. frames' = Append(Front(frames), g) /\ g.owner = i /\ Last(frames).owner = i
    BY <2>1, <2>3, <1>1, <1>4
  <2>5. CallsChange(g.owner, {g})
    BY <2>4, <1>2, <1>3, Replaced
  <2> QED
    BY <2>1, <2>4, <2>5
<1>14. DOMAIN runner' = Ids /\ (\A j \in Ids \ {i} : runner'[j] = runner[j]) /\ runner'[i] = runner[i]
  BY <1>2, <1>6
<1>15. /\ Owner(i)' = i /\ CallsOf(i)' = {g} /\ Stage(i)' = runner'[i].stage /\ Pending(i)'
       /\ PointersOf(i)' = OwnPointers(i)
  <2>1. /\ i \in Ids /\ i \notin pair.all /\ CallsChange(i, {g}) /\ pair' = pair
        /\ DOMAIN runner' = Ids /\ \A j \in Ids \ {i} : runner'[j] = runner[j]
    BY <1>2, <1>4, <1>13, <1>14
  <2> QED
    BY <2>1, SoloTurnWith
<1>16. ScriptInv'
  <2>1. ~Fresh(i)
    BY <1>5 DEF Fresh
  <2>2. PICK S : S = {g}
    OBVIOUS
  <2>3. CallsChange(i, S)
    BY <1>13, <2>2
  <2> QED
    BY <1>2, <1>4, <1>14, <2>1, <2>3, SoloSameScript
<1>17. PICK at : at = End(Command[i])
  OBVIOUS
<1>18. MovesTo(a, i, at)
  <2>1. EndPoints(i) = [at |-> at, last |-> runner[i].last, from |-> Start(Command[i])]
    BY <1>17 DEF EndPoints
  <2>2. PointsFit(at) /\ (Command[i].name \notin {"PinchZoom", "Rotate"} => IsSingle(at))
    BY <1>17, EndsFit
  <2> QED
    BY <1>9, <2>1, <2>2, MoveTells
<1>19. /\ OfOne(b, i)
       /\ \A m \in DOMAIN b : \A x \in b[m].parts : x.of = i /\ x.what = "release"
       /\ Command[i].release /\ ~Command[i].drag =>
             \A p \in OwnPointers(i) : \E m \in DOMAIN b : SameWay(p, b[m].by) /\ Says(b[m], i, "release")
  <2>1. CASE Command[i].release /\ ~Command[i].drag
    <3>1. SentOf(b, OwnPointers(i), i, "release", End(Command[i]))
      BY <1>10, <2>1, EndsFit, SentIs
    <3> QED
      BY <3>1 DEF SentOf
  <2>2. CASE ~(Command[i].release /\ ~Command[i].drag)
    BY <1>10, <2>2, NothingSent
  <2> QED
    BY <2>1, <2>2
<1>20. OfOne(todo, i) /\ IsSequence(a) /\ IsSequence(b)
  <2>1. OfOne(a, i) /\ OfOne(b, i)
    BY <1>18, <1>19 DEF MovesTo
  <2>2. OfOne(a \o b, i)
    BY <2>1, ConcatOfOne
  <2> QED
    BY <2>1, <2>2, <1>11 DEF OfOne
<1>21. \A m \in DOMAIN todo : ~Says(todo[m], i, "press")
  <2>1. \A m \in DOMAIN todo : \/ m \in DOMAIN a /\ todo[m] = a[m]
                               \/ \E n \in DOMAIN b : todo[m] = b[n]
    BY <1>11, <1>20, ConcatIs
  <2>2. \A m \in DOMAIN a : ~Says(a[m], i, "press")
    BY <1>18 DEF MovesTo, Says
  <2>3. \A m \in DOMAIN b : ~Says(b[m], i, "press")
    BY <1>19 DEF Says
  <2> QED
    BY <2>1, <2>2, <2>3
<1>22. ~Goes(i)' /\ Goes(i)
  BY <1>2, <1>3, <1>4, <1>6, <1>13, <1>15 DEF Goes
<1>23. ASSUME NEW p \in {"touch", "mouse"} PROVE RestFits(i, p)'
  <2>1. TellsNow(i, p)
    BY <1>2, <1>3, <1>4, <1>6, <1>22, TellsWhileGoing
  <2>2. MoveFits(i, p, a)'
    BY <1>2, <1>15, <1>18, <1>22, <2>1, MovesFit
  <2>3. \A m \in DOMAIN b : ~Says(b[m], i, "move")
    BY <1>19 DEF Says
  <2>4. MoveFits(i, p, todo)'
    <3>1. \A m \in DOMAIN b : ~Says(b[m], i, "move")'
      BY <2>3 DEF Says
    <3>2. OfOne(a, i) /\ OfOne(b, i)
      BY <1>18, <1>19 DEF MovesTo
    <3>3. IsSequence(a) /\ IsSequence(b) /\ ~Goes(i)'
      BY <1>20, <1>22
    <3> QED
      BY <1>11, <2>2, <2>3, <3>3, ConcatMovesFitThen
  <2>5. ~told'[i][p].rest /\ (told'[i][p].what = "move" => p \in PointersOf(i)')
    BY <1>2, <1>6, <1>15 DEF RestFits
  <2> QED
    BY <1>13, <1>15, <1>22, <2>4, <2>5 DEF RestFits
<1>24. ASSUME NEW p \in Pointers, Owed(i, p) PROVE Owed(i, p)' \/ Releases({g}, i, p)
  <2>1. CASE ~Command[i].release
    BY <2>1, <1>14, <1>24 DEF Owed
  <2>2. CASE Command[i].release /\ drag
    <3>1. Coming(i)'
      BY <2>2, <1>13, <1>15 DEF Coming
    <3> QED
      BY <3>1, <2>2, <1>6, <1>15, <1>24 DEF Owed
  <2>3. CASE Command[i].release /\ ~drag
    <3>1. p \in OwnPointers(i)
      BY <2>3, <1>6, <1>24 DEF Owed
    <3>2. PICK m \in DOMAIN b : SameWay(p, b[m].by) /\ Says(b[m], i, "release")
      BY <2>3, <1>8, <3>1, <1>19
    <3>3. PICK n \in DOMAIN todo : todo[n] = b[m]
      <4>1. Len(a) + m \in DOMAIN (a \o b) /\ (a \o b)[Len(a) + m] = b[m]
        <5>1. \A n \in DOMAIN b : Len(a) + n \in DOMAIN (a \o b) /\ (a \o b)[Len(a) + n] = b[n]
          BY ONLY <1>20, ConcatIs
        <5> QED
          BY <5>1, <3>2, Zenon
      <4> QED
        BY <4>1, <1>11
    <3> QED
      BY <3>2, <3>3, <1>13 DEF Releases
  <2> QED
    BY <2>1, <2>2, <2>3
<1>25. /\ g = [owner |-> i, todo |-> g.todo, then |-> g.then, sent |-> g.sent]
       /\ g.todo = todo /\ g.then \in {"over", "pausing"}
  BY <1>13
<1>26. /\ runner'[i] = [stage |-> runner'[i].stage, step |-> runner'[i].step, last |-> runner'[i].last,
                        previous |-> runner'[i].previous, left |-> runner'[i].left]
       /\ runner'[i].stage \in {"starting", "moving", "pausing"}
  BY <1>5, <1>6, <1>14 DEF RunnerFits
<1>27. \A h \in CallsOf(i) : h.todo = <<>>
  BY <1>2, <1>3, <1>4
<1>28. /\ OfOne(g.todo, i)
       /\ \A m \in DOMAIN g.todo : Says(g.todo[m], i, "press") => Owed(i, g.todo[m].by)'
  BY <1>20, <1>21, <1>25
<1> QED
  BY <1>2, <1>4, <1>13, <1>14, <1>16, <1>23, <1>24, <1>25, <1>26, <1>27, <1>28, SoloTimeLine

(* The innermost call is over, of a command that is performed alone.       *)
LEMMA ReturnedAloneKeeps ==
    ASSUME GestureInv, Return, Last(frames).owner # Together, Last(frames).then # "finished"
    PROVE  GestureInv'
<1>1. PICK f : f = Last(frames)
  OBVIOUS
<1>2. /\ frames # <<>> /\ f.todo = <<>> /\ f.owner # Together /\ f.then # "finished"
      /\ frames' = Front(frames) /\ runner' = [runner EXCEPT ![f.owner].stage = f.then]
      /\ UNCHANGED <<script, pair, tapScreen, down, told>>
  BY <1>1 DEF Return, SetStage
<1>3. f \in Calls /\ CallsOf(f.owner) = {f} /\ CallFits(f) /\ StackInv
  BY <1>1, <1>2, InnermostIs
<1>4. PICK i : i = f.owner
  OBVIOUS
<1>5. /\ i \in Ids /\ i \notin pair.all
      /\ f.then \in IF i \in TimeLines THEN {"moving", "pausing", "over"} ELSE {"tapping", "over"}
      /\ i \in TimeLines => runner[i].stage # "none"
  <2>1. pair.all \subseteq TimeLines
    BY DEF GestureInv, PairInv
  <2> QED
    BY <2>1, <1>2, <1>3, <1>4 DEF CallFits, TimeLines
<1>6. /\ Owner(i) = i /\ Stage(i) = runner[i].stage /\ Pending(i)
      /\ PointersOf(i) = OwnPointers(i) /\ DOMAIN runner = Ids /\ RunnerFits(i)
      /\ i # Together /\ \A p \in {"touch", "mouse"} : RestFits(i, p)
  BY <1>5, SoloIs
<1>7. /\ DOMAIN runner' = Ids /\ \A j \in Ids \ {i} : runner'[j] = runner[j]
      /\ runner'[i] = [stage |-> f.then, step |-> runner[i].step, last |-> runner[i].last,
                       previous |-> runner[i].previous, left |-> runner[i].left]
  BY <1>2, <1>4, <1>5, <1>6 DEF RunnerFits
<1>8. PICK S : S = {}
  OBVIOUS
<1>9. PICK C : C = {i}
  OBVIOUS
<1>10. CallsChange(i, S)
  BY <1>1, <1>2, <1>3, <1>4, <1>8, Popped
<1>11. /\ TurnOf(i, S, C) /\ PairInv'
       /\ Owner(i)' = i /\ CallsOf(i)' = S /\ Stage(i)' = runner'[i].stage /\ Pending(i)'
       /\ PointersOf(i)' = OwnPointers(i)
  BY <1>2, <1>5, <1>7, <1>9, <1>10, SoloTurn
<1>12. ScriptInv'
  <2>1. ~Fresh(i)
    BY <1>3, <1>4 DEF Fresh
  <2> QED
    BY <1>2, <1>5, <1>7, <1>10, <2>1, SoloSameScript
<1>13. \A j \in C : RunnerFits(j)'
  BY <1>2, <1>5, <1>7, <1>9 DEF RunnerFits
<1>14. \A j \in C \ TimeLines : j \in Started' <=> j \in Started
  <2>1. runner'[i].stage # "none" /\ CallsOf(i) # {}
    BY <1>3, <1>4, <1>5, <1>7
  <2> QED
    BY <1>5, <1>9, <2>1 DEF Started
<1>15. \A h \in Calls : h.owner = i => h.todo = <<>>
  BY <1>2, <1>3, <1>4 DEF CallsOf
<1>16. \A j \in C \cap TimeLines : \A p \in Pointers :
           Owed(j, p) => IsOwed(Pressed(j, p))' \/ Releases(S, j, p)
  <2> SUFFICES ASSUME i \in TimeLines, NEW p \in Pointers, Owed(i, p) PROVE Owed(i, p)'
    BY <1>9 DEF IsOwed
  <2>1. Coming(i) => Coming(i)'
    <3>1. Coming(i) => f.then \in {"moving", "finished", "pausing"}
      BY <1>3, <1>4, <1>6 DEF Coming
    <3> QED
      BY <3>1, <1>2, <1>7, <1>8, <1>11 DEF Coming
  <2> QED
    BY <2>1, <1>2, <1>5, <1>6, <1>7, <1>11 DEF Owed
<1>17. ASSUME NEW p \in {"touch", "mouse"} PROVE RestFits(i, p)'
  <2>1. \A h \in CallsOf(Owner(i))' : \A m \in DOMAIN h.todo : ~Says(h.todo[m], i, "move")
    BY <1>8, <1>11
  <2>2. ~told[i][p].rest /\ (told[i][p].what = "move" => p \in PointersOf(i)')
    BY <1>6, <1>11 DEF RestFits
  <2>3. Goes(i)' => Goes(i)
    BY <1>3, <1>4, <1>6, <1>7, <1>8, <1>11 DEF Goes
  <2>4. Goes(i) => TellsNow(i, p)
    BY <1>2, <1>3, <1>4, <1>5, <1>6, TellsWhileGoing
  <2>5. TellsNow(i, p) /\ told[i][p].what = "move" =>
            Remembers(i)' /\ told[i][p].points = PointsNow(i, p)'
    BY <1>7 DEF TellsNow, Remembers, PointsNow, Previous, PointsAt
  <2> QED
    BY <1>2, <1>5, <2>1, <2>2, <2>3, <2>4, <2>5, StillFits
<1>18. /\ \A h \in S : CallFits(h)'
       /\ \A h \in S : \A m \in DOMAIN h.todo : PartsFit(h.owner, h.todo[m])'
       /\ \A h \in S : \A m \in DOMAIN h.todo : \A j \in Ids :
             Says(h.todo[m], j, "press") => PressFits(h.todo, m, j)'
       /\ \A h \in S : h.then = "finished" =>
             \A j \in TimeLines : h.owner = Owner(j)' /\ Pending(j)' => Remembers(j)'
  BY <1>8
<1>19. \A j \in C : \A p \in {"touch", "mouse"} : RestFits(j, p)'
  BY <1>9, <1>17
<1> QED
  BY <1>2, <1>11, <1>12, <1>13, <1>14, <1>15, <1>16, <1>18, <1>19, OrdinaryTurn

-----------------------------------------------------------------------------
(* Taps.                                                                   *)

LEMMA TapsOfOne ==
    ASSUME NEW i \in Ids \ TimeLines, Owner(i)' = i, NEW todo, TapsBy(todo, i)
    PROVE  /\ IsSequence(todo)
           /\ \A m \in DOMAIN todo : PartsFit(i, todo[m])' /\ ~Says(todo[m], i, "move")
           /\ \A m \in DOMAIN todo : \A j \in Ids :
                 Says(todo[m], j, "press") => PressFits(todo, m, j)'
<1>1. ASSUME NEW m \in DOMAIN todo
      PROVE  /\ PartsFit(i, todo[m])' /\ ~Says(todo[m], i, "move")
             /\ \A j : Says(todo[m], j, "press") => j = i
  <2>1. PICK what \in {"press", "release"} : \E ps : todo[m].parts = {Part(i, what, ps)}
    BY DEF TapsBy
  <2>2. PICK ps : todo[m].parts = {Part(i, what, ps)}
    BY <2>1
  <2>3. todo[m].by \in Pointers
    BY DEF TapsBy, Pointers
  <2>4. \A j, w : Says(todo[m], j, w) <=> j = i /\ w = what
    BY <2>2, SaysPart
  <2>5. \A x \in todo[m].parts : x.of = i
    BY <2>2, PartIs
  <2>6. \A x, y \in todo[m].parts : x = y
    BY <2>2
  <2> QED
    BY <2>3, <2>4, <2>5, <2>6 DEF PartsFit
<1>2. ASSUME NEW m \in DOMAIN todo, NEW j \in Ids, Says(todo[m], j, "press")
      PROVE  PressFits(todo, m, j)'
  <2>1. j = i
    BY <1>1, <1>2
  <2>2. PICK n \in DOMAIN todo : n > m /\ todo[n].by = todo[m].by /\ Says(todo[n], i, "release")
    BY <1>2, <2>1 DEF TapsBy
  <2> QED
    BY <2>1, <2>2 DEF PressFits, Says
<1>3. IsSequence(todo)
  BY DEF TapsBy
<1> QED
  BY <1>1, <1>2, <1>3

(* The calls of a tap, none or one.                                        *)
TapCalls(S, i) ==
    \A f \in S : /\ f = [owner |-> i, todo |-> f.todo, then |-> f.then, sent |-> f.sent]
                 /\ f.then \in {"tapping", "over"} /\ TapsBy(f.todo, i)

LEMMA TapCallsFit ==
    ASSUME NEW i \in Ids \ TimeLines, NEW S, TapCalls(S, i), Owner(i)' = i, CallsOf(i)' = S,
           i \notin pair.all, pair' = pair, told' = told, runner'[i].stage # "moving",
           \A p \in {"touch", "mouse"} : RestFits(i, p)
    PROVE  /\ \A f \in S : CallFits(f)'
           /\ \A f \in S : \A m \in DOMAIN f.todo : PartsFit(f.owner, f.todo[m])'
           /\ \A f \in S : \A m \in DOMAIN f.todo : \A j \in Ids :
                 Says(f.todo[m], j, "press") => PressFits(f.todo, m, j)'
           /\ \A p \in {"touch", "mouse"} : RestFits(i, p)'
           /\ \A f \in S : f.then # "finished"
<1>1. ASSUME NEW f \in S
      PROVE  /\ f = [owner |-> i, todo |-> f.todo, then |-> f.then, sent |-> f.sent] /\ f.owner = i
             /\ f.then \in {"tapping", "over"} /\ IsSequence(f.todo)
             /\ \A m \in DOMAIN f.todo : PartsFit(i, f.todo[m])' /\ ~Says(f.todo[m], i, "move")
             /\ \A m \in DOMAIN f.todo : \A j \in Ids :
                   Says(f.todo[m], j, "press") => PressFits(f.todo, m, j)'
  <2>1. /\ f = [owner |-> i, todo |-> f.todo, then |-> f.then, sent |-> f.sent]
        /\ f.then \in {"tapping", "over"} /\ TapsBy(f.todo, i)
    BY DEF TapCalls
  <2>2. f.owner = i
    BY <2>1
  <2> QED
    BY <2>1, <2>2, TapsOfOne
<1>2. \A f \in S : CallFits(f)'
  BY <1>1 DEF CallFits
<1>3. ~Goes(i)'
  <2>1. Stage(i)' = runner'[i].stage
    BY DEF Stage
  <2>2. \A f \in S : f.then \notin {"moving", "finished"}
    BY <1>1
  <2> QED
    BY <2>1, <2>2 DEF Goes
<1>4. ASSUME NEW p \in {"touch", "mouse"} PROVE RestFits(i, p)'
  <2>1. ~told[i][p].rest /\ (told[i][p].what = "move" => p \in PointersOf(i)')
    BY DEF RestFits, PointersOf, OwnPointers, PointerType
  <2>2. \A f \in CallsOf(Owner(i))' : \A m \in DOMAIN f.todo : ~Says(f.todo[m], i, "move")
    BY <1>1
  <2> QED
    BY <2>1, <2>2, <1>3, StillFits
<1> QED
  BY <1>1, <1>2, <1>4

(* The Tapper taps once more.                                              *)
LEMMA TapperTapKeeps ==
    ASSUME GestureInv, NEW i \in Ids \ TimeLines, TapperTap(i)
    PROVE  GestureInv'
<1>1. /\ UNCHANGED <<script, pair, tapScreen, down, told>>
      /\ runner[i].stage = "tapping" /\ runner' = [runner EXCEPT ![i].left = @ - 1]
  BY DEF TapperTap
<1>2. CallsOf(i) = {}
  BY NotRunning DEF TapperTap
<1>3. i \notin pair.all
  BY DEF GestureInv, PairInv
<1>4. /\ Owner(i) = i /\ DOMAIN runner = Ids /\ RunnerFits(i)
      /\ \A p \in {"touch", "mouse"} : RestFits(i, p)
  BY <1>1, <1>3, SoloIs
<1>5. PICK g : /\ g = [owner |-> i, todo |-> Taps(i),
                       then |-> IF runner[i].left > 1 THEN "tapping" ELSE "over", sent |-> FALSE]
               /\ CallsChange(i, {g})
  <2>1. Call(i, Taps(i), IF runner[i].left > 1 THEN "tapping" ELSE "over")
    BY DEF TapperTap
  <2> QED
    BY <2>1, <1>2, SoloPushed
<1>6. PICK S : S = {g}
  OBVIOUS
<1>7. PICK C : C = {i}
  OBVIOUS
<1>8. CallsChange(i, S)
  BY <1>5, <1>6
<1>9. /\ DOMAIN runner' = Ids /\ \A j \in Ids \ {i} : runner'[j] = runner[j]
      /\ runner'[i] = [stage |-> "tapping", step |-> runner[i].step, last |-> runner[i].last,
                       previous |-> runner[i].previous, left |-> runner[i].left - 1]
  BY <1>1, <1>4 DEF RunnerFits
<1>10. TurnOf(i, S, C) /\ PairInv' /\ Owner(i)' = i /\ CallsOf(i)' = S
  BY <1>1, <1>3, <1>7, <1>8, <1>9, SoloTurn
<1>11. ScriptInv'
  <2>1. ~Fresh(i)
    BY <1>1 DEF Fresh
  <2> QED
    BY <1>1, <1>3, <1>8, <1>9, <2>1, SoloSameScript
<1>12. TapCalls(S, i)
  <2>1. TapsBy(Taps(i), i)
    BY TapsFit
  <2> QED
    BY <2>1, <1>5, <1>6 DEF TapCalls
<1>13. /\ \A f \in S : CallFits(f)'
       /\ \A f \in S : \A m \in DOMAIN f.todo : PartsFit(f.owner, f.todo[m])'
       /\ \A f \in S : \A m \in DOMAIN f.todo : \A j \in Ids :
             Says(f.todo[m], j, "press") => PressFits(f.todo, m, j)'
       /\ \A p \in {"touch", "mouse"} : RestFits(i, p)'
       /\ \A f \in S : f.then # "finished"
  <2>1. runner'[i].stage # "moving"
    BY <1>9
  <2> QED
    BY <1>1, <1>3, <1>4, <1>10, <1>12, <2>1, TapCallsFit
<1>14. \A j \in C : RunnerFits(j)'
  BY <1>7, <1>9 DEF RunnerFits
<1>15. \A j \in C \ TimeLines : j \in Started' <=> j \in Started
  <2>1. runner'[i].stage = "tapping"
    BY <1>9
  <2> QED
    BY <2>1, <1>1, <1>7 DEF Started
<1>16. \A h \in Calls : h.owner = i => h.todo = <<>>
  BY <1>2 DEF CallsOf
<1>17. \A j \in C \cap TimeLines : \A p \in Pointers :
           Owed(j, p) => IsOwed(Pressed(j, p))' \/ Releases(S, j, p)
  BY <1>7
<1>18. \A j \in C : \A p \in {"touch", "mouse"} : RestFits(j, p)'
  BY <1>7, <1>13
<1> QED
  BY <1>1, <1>10, <1>11, <1>13, <1>14, <1>15, <1>16, <1>17, <1>18, OrdinaryTurn

(* What a command that taps changes: nothing of the gestures.              *)
LEMMA TapTurn ==
    ASSUME GestureInv, NEW i \in Ids \ TimeLines, Fresh(i), NEW S, NEW C, C = {i},
           TurnOf(i, S, C), TapCalls(S, i), Owner(i)' = i, CallsOf(i)' = S,
           i \notin pair.all, pair' = pair,
           UNCHANGED <<down, told>>, tapScreen' = Command[i].screen, i \in Started',
           runner'[i].stage # "moving", RunnerFits(i)', ScriptInv', PairInv'
    PROVE  GestureInv'
<1>1. CallsOf(i) = {} /\ i \in C
  BY DEF Fresh
<1>2. ASSUME NEW j \in Started PROVE j \in Started'
  <2>1. CASE j = i
    BY <2>1
  <2>2. CASE j # i
    <3>1. j \in Ids \ C /\ j \notin pair.all
      BY <2>2 DEF Started, GestureInv, PairInv
    <3> QED
      BY <3>1, StartedStays
  <2> QED
    BY <2>1, <2>2
<1>3. Agree' => Agree
  BY <1>2 DEF Agree
<1>4. TapInv'
  BY DEF TapInv, Agree
<1>5. \A p \in {"touch", "mouse"} : RestFits(i, p)
  BY DEF GestureInv, RestInv
<1>6. /\ \A f \in S : CallFits(f)'
      /\ \A f \in S : \A m \in DOMAIN f.todo : PartsFit(f.owner, f.todo[m])'
      /\ \A f \in S : \A m \in DOMAIN f.todo : \A j \in Ids :
            Says(f.todo[m], j, "press") => PressFits(f.todo, m, j)'
      /\ \A p \in {"touch", "mouse"} : RestFits(i, p)'
      /\ \A f \in S : f.then # "finished"
  BY <1>5, TapCallsFit
<1>7. ASSUME Agree', NEW f \in Calls, NEW m \in DOMAIN f.todo, NEW j \in Ids,
             Says(f.todo[m], j, "release")
      PROVE  Pressed(j, f.todo[m].by)' = Pressed(j, f.todo[m].by)
  <2>1. CASE j \in TimeLines
    BY <2>1, PressedStays
  <2>2. CASE j \notin TimeLines
    <3>1. j \notin pair.all
      BY <2>2 DEF GestureInv, PairInv
    <3>2. f.owner = j
      BY <1>7, <3>1 DEF GestureInv, PartsInv, PartsFit, Says, Owner
    <3>3. j \in Started
      BY <2>2, <3>2 DEF Started, CallsOf
    <3>4. tapScreen = Command[j].screen
      BY <1>3, <1>7, <3>3 DEF GestureInv, TapInv
    <3>5. Command[j].screen = Command[i].screen
      BY <1>2, <1>7, <3>3 DEF Agree
    <3> QED
      BY <3>4, <3>5, SamePressed
  <2> QED
    BY <2>1, <2>2
<1>8. DownInv'
  <2>1. \A f \in Calls : f.owner = i => f.todo = <<>>
    BY <1>1 DEF CallsOf
  <2>2. \A j \in C \cap TimeLines : \A p \in Pointers :
            Owed(j, p) => IsOwed(Pressed(j, p))' \/ Releases(S, j, p)
    OBVIOUS
  <2>3. DownInv /\ down' = down
    BY DEF GestureInv
  <2> QED
    BY <1>3, <1>7, <2>1, <2>2, <2>3, TurnOfDown
<1>9. RunnerInv'
  BY TurnOfRunners DEF GestureInv
<1>10. CallsInv'
  BY <1>6, TurnOfCalls DEF GestureInv
<1>11. PartsInv'
  BY <1>6, TurnOfParts DEF GestureInv
<1>12. PressInv'
  BY <1>6, TurnOfPresses DEF GestureInv
<1>13. RestInv'
  BY <1>6, TurnOfRest DEF GestureInv
<1> QED
  BY <1>4, <1>8, <1>9, <1>10, <1>11, <1>12, <1>13 DEF GestureInv

LEMMA NothingCalled ==
    ASSUME GestureInv, frames' = frames, NEW o, CallsOf(o) = {}, NEW S, S = {}
    PROVE  CallsChange(o, S)
<1>1. StackInv'
  BY DEF GestureInv, CallsInv, StackInv
<1>2. Calls' = Calls /\ \A q : CallsOf(q)' = CallsOf(q)
  BY DEF Calls, CallsOf
<1>3. \A f \in Calls : f.owner # o
  BY DEF CallsOf
<1>4. Calls = {f \in Calls : f.owner # o} \cup S
  BY <1>3
<1> QED
  BY <1>1, <1>2, <1>4 DEF CallsChange

(* MouseHandler taps, at once or by a Tapper, and sets its generator.      *)
LEMMA TapKeeps ==
    ASSUME GestureInv, NEW i \in Ids \ TimeLines, Tap(i)
    PROVE  GestureInv'
<1>1. /\ script # <<>> /\ {i} = Head(script) /\ script' = Tail(script)
      /\ UNCHANGED <<pair, down, told>>
  BY DEF Tap, Performed
<1>2. CASE Command[i].target \notin alive
  BY <1>1, <1>2, LeftOut DEF Tap
<1>3. CASE Command[i].target \in alive
  <2>1. Fresh(i) /\ i \notin pair.all /\ CallsOf(i) = {}
    BY <1>1, HeadIsFresh DEF Fresh
  <2>2. DOMAIN runner = Ids /\ RunnerFits(i)
    BY <2>1, SoloIs
  <2>3. PICK C : C = {i}
    OBVIOUS
  <2>4. tapScreen' = Command[i].screen
    BY <1>3 DEF Tap
  <2>5. CASE Command[i].repeated
    <3>1. frames' = frames /\ runner' = [runner EXCEPT ![i] = [Idle EXCEPT !.stage = "tapping",
                                                                     !.left = Command[i].count]]
      BY <1>3, <2>5 DEF Tap
    <3>2. PICK S : S = {}
      OBVIOUS
    <3>3. CallsChange(i, S)
      BY <2>1, <3>1, <3>2, NothingCalled
    <3>4. /\ DOMAIN runner' = Ids /\ \A j \in Ids \ {i} : runner'[j] = runner[j]
          /\ runner'[i] = [stage |-> "tapping", step |-> 0, last |-> <<>>, previous |-> <<>>,
                           left |-> Command[i].count]
      BY <2>2, <3>1 DEF Idle
    <3>5. TurnOf(i, S, C) /\ PairInv' /\ Owner(i)' = i /\ CallsOf(i)' = S
      BY <1>1, <2>1, <2>3, <3>3, <3>4, SoloTurn
    <3>6. ScriptInv'
      BY <1>1, <3>3, <3>4, SoloScript
    <3>7. TapCalls(S, i)
      BY <3>2 DEF TapCalls
    <3>8. RunnerFits(i)' /\ i \in Started' /\ runner'[i].stage # "moving"
      BY <3>4 DEF RunnerFits, Started
    <3> QED
      BY <1>1, <2>1, <2>3, <2>4, <3>5, <3>6, <3>7, <3>8, TapTurn
  <2>6. CASE ~Command[i].repeated
    <3>1. PICK todo : todo = FlattenSeq([n \in 1..Command[i].count |-> Taps(i)])
      OBVIOUS
    <3>2. Call(i, todo, "over") /\ runner' = runner
      BY <1>3, <2>6, <3>1 DEF Tap
    <3>3. PICK g : /\ g = [owner |-> i, todo |-> todo, then |-> "over", sent |-> FALSE]
                   /\ CallsChange(i, {g})
      BY <2>1, <3>2, SoloPushed
    <3>4. PICK S : S = {g}
      OBVIOUS
    <3>5. CallsChange(i, S)
      BY <3>3, <3>4
    <3>6. DOMAIN runner' = Ids /\ \A j \in Ids \ {i} : runner'[j] = runner[j]
      BY <2>2, <3>2
    <3>7. TurnOf(i, S, C) /\ PairInv' /\ Owner(i)' = i /\ CallsOf(i)' = S
      BY <1>1, <2>1, <2>3, <3>5, <3>6, SoloTurn
    <3>8. ScriptInv'
      BY <1>1, <3>5, <3>6, SoloScript
    <3>9. TapCalls(S, i)
      <4>1. Command[i].count \in Int
        BY GestureAssumption DEF TimeLines
      <4>2. TapsBy(todo, i)
        BY <3>1, <4>1, ManyTapsFit
      <4> QED
        BY <4>2, <3>3, <3>4 DEF TapCalls
    <3>10. i \in Started'
      BY <3>4, <3>7 DEF Started
    <3>11. RunnerFits(i)' /\ runner'[i].stage # "moving"
      BY <1>1, <2>1, <2>2, <3>2 DEF RunnerFits, Fresh
    <3> QED
      BY <1>1, <2>1, <2>3, <2>4, <3>7, <3>8, <3>9, <3>10, <3>11, TapTurn
  <2> QED
    BY <2>5, <2>6
<1> QED
  BY <1>2, <1>3

-----------------------------------------------------------------------------
(* Sending.                                                                *)

(* What is left of a sequence without its head.                            *)
LEMMA TailHas ==
    ASSUME NEW t, IsSequence(t), t # <<>>, NEW u, u = Tail(t)
    PROVE  /\ IsSequence(u) /\ 1 \in DOMAIN t /\ Head(t) = t[1]
           /\ \A m \in DOMAIN u : m + 1 \in DOMAIN t /\ u[m] = t[m + 1] /\ m + 1 # 1 /\ m \in Int /\ m > 0
           /\ \A n \in DOMAIN t : n = 1 \/ \E m \in DOMAIN u : n = m + 1 /\ u[m] = t[n]
<1>1. /\ IsSequence(u) /\ Len(t) \in Nat /\ DOMAIN t = 1..Len(t) /\ DOMAIN u = 1..(Len(t) - 1)
      /\ \A m \in DOMAIN u : m + 1 \in DOMAIN t /\ u[m] = t[m + 1]
      /\ 1 \in DOMAIN t /\ Head(t) = t[1]
  BY SequenceIs, TailIs
<1>2. PICK l \in Nat : l = Len(t)
  BY <1>1
<1>3. \A m \in 1..(l - 1) : m + 1 # 1 /\ m \in Int /\ m > 0
  OBVIOUS
<1>4. \A n \in 1..l : n = 1 \/ (n - 1 \in 1..(l - 1) /\ n = (n - 1) + 1)
  OBVIOUS
<1>5. ASSUME NEW n \in DOMAIN t, n # 1 PROVE \E m \in DOMAIN u : n = m + 1 /\ u[m] = t[n]
  <2>1. PICK m : m = n - 1
    OBVIOUS
  <2>2. m \in DOMAIN u /\ n = m + 1
    BY <1>1, <1>2, <1>4, <1>5, <2>1
  <2> QED
    BY <1>1, <2>2
<1> QED
  BY <1>1, <1>2, <1>3, <1>5

(* Sending changes what is still to be sent and what has been told.        *)
SendOf(f, g) ==
    /\ f \in Calls /\ CallsOf(f.owner) = {f} /\ IsSequence(f.todo) /\ f.todo # <<>>
    /\ g = [owner |-> f.owner, todo |-> Tail(f.todo), then |-> f.then, sent |-> TRUE]
    /\ CallsChange(f.owner, {g})
    /\ UNCHANGED <<script, runner, pair, tapScreen>>

LEMMA SentStays ==
    ASSUME NEW f, NEW g, SendOf(f, g)
    PROVE  /\ \A q : (CallsOf(q)' = {} <=> CallsOf(q) = {})
           /\ \A i : /\ Owner(i)' = Owner(i) /\ (Goes(i)' <=> Goes(i)) /\ (Coming(i)' <=> Coming(i))
                     /\ (Remembers(i)' <=> Remembers(i)) /\ (Pending(i)' <=> Pending(i))
                     /\ PointersOf(i)' = PointersOf(i)
           /\ \A i, p : (Owed(i, p)' <=> Owed(i, p)) /\ PointsNow(i, p)' = PointsNow(i, p)
           /\ Started' = Started
<1>1. /\ CallsOf(f.owner) = {f} /\ g.owner = f.owner /\ g.then = f.then
      /\ UNCHANGED <<runner, pair>>
  BY DEF SendOf
<1>2. \A q : CallsOf(q)' = IF q = f.owner THEN {g} ELSE CallsOf(q)
  BY DEF SendOf, CallsChange
<1>3. \A q : (CallsOf(q)' = {} <=> CallsOf(q) = {})
  BY <1>1, <1>2
<1>4. \A q, T : (\E h \in CallsOf(q)' : h.then \in T) <=> (\E h \in CallsOf(q) : h.then \in T)
  BY <1>1, <1>2
<1>5. ASSUME NEW i
      PROVE  /\ Owner(i)' = Owner(i) /\ Stage(i)' = Stage(i) /\ (Pending(i)' <=> Pending(i))
             /\ PointersOf(i)' = PointersOf(i) /\ (Remembers(i)' <=> Remembers(i))
  BY <1>1 DEF Owner, Stage, Pending, PointersOf, OwnPointers, PointerType, Remembers, Previous, PointsAt
<1>6. ASSUME NEW i PROVE (Coming(i)' <=> Coming(i)) /\ (Goes(i)' <=> Goes(i))
  <2>1. PICK q : q = Owner(i)
    OBVIOUS
  <2>2. (CallsOf(q)' = {} <=> CallsOf(q) = {})
    BY <1>3
  <2>3. (\E h \in CallsOf(q)' : h.then \in {"moving", "finished", "pausing"})
          <=> (\E h \in CallsOf(q) : h.then \in {"moving", "finished", "pausing"})
    BY <1>4
  <2>4. (\E h \in CallsOf(q)' : h.then \in {"moving", "finished"})
          <=> (\E h \in CallsOf(q) : h.then \in {"moving", "finished"})
    BY <1>4
  <2> QED
    BY <1>5, <2>1, <2>2, <2>3, <2>4 DEF Coming, Goes
<1>7. ASSUME NEW i, NEW p PROVE (Owed(i, p)' <=> Owed(i, p)) /\ PointsNow(i, p)' = PointsNow(i, p)
  BY <1>1, <1>5, <1>6 DEF Owed, PointsNow
<1>8. Started' = Started
  BY <1>1, <1>3 DEF Started
<1> QED
  BY <1>3, <1>5, <1>6, <1>7, <1>8

SentNow(e, what) == {Pressed(x.of, e.by) : x \in {y \in e.parts : y.what = what}}

(* What Send makes of told.                                                *)
ToldBy(e, i, p, x) ==
    [what |-> x.what, points |-> x.points,
     rest |-> x.what = "move" /\ told[i][p].what = "move" /\ x.points = told[i][p].points]
ToldNow(e) ==
    [i \in Ids |-> [p \in Pointers |->
        IF p # e.by \/ \A x \in e.parts : x.of # i THEN told[i][p]
        ELSE ToldBy(e, i, p, CHOOSE y \in e.parts : y.of = i)]]

LEMMA ToldIs ==
    ASSUME NEW e, \A x, y \in e.parts : x.of = y.of => x = y, told' = ToldNow(e)
    PROVE  /\ told' = [i \in Ids |-> [p \in Pointers |-> told'[i][p]]]
           /\ \A i \in Ids, p \in Pointers :
                 (p # e.by \/ \A x \in e.parts : x.of # i) => told'[i][p] = told[i][p]
           /\ \A i \in Ids, p \in Pointers : \A x \in e.parts :
                 p = e.by /\ x.of = i => told'[i][p] = ToldBy(e, i, p, x)
<1>1. told' = [i \in Ids |-> [p \in Pointers |-> told'[i][p]]]
  BY DEF ToldNow
<1>2. ASSUME NEW i \in Ids, NEW p \in Pointers, p # e.by \/ \A x \in e.parts : x.of # i
      PROVE  told'[i][p] = told[i][p]
  BY <1>2 DEF ToldNow
<1>3. ASSUME NEW i \in Ids, NEW p \in Pointers, NEW x \in e.parts, p = e.by, x.of = i
      PROVE  told'[i][p] = ToldBy(e, i, p, x)
  <2>1. (CHOOSE y \in e.parts : y.of = i) = x
    BY <1>3
  <2>2. ~(p # e.by \/ \A y \in e.parts : y.of # i)
    BY <1>3
  <2>3. told'[i][p] = ToldBy(e, i, p, CHOOSE y \in e.parts : y.of = i)
    BY <2>2 DEF ToldNow
  <2> QED
    BY <2>1, <2>3
<1> QED
  BY <1>1, <1>2, <1>3

(* What an event presses is owed or has its release after it; what it      *)
(* releases is down no more.                                               *)
LEMMA SentDown ==
    ASSUME GestureInv, NEW f, NEW g, SendOf(f, g), NEW e, e = Head(f.todo),
           down' = (down \cup SentNow(e, "press")) \ SentNow(e, "release")
    PROVE  DownInv'
<1> SUFFICES ASSUME Agree', NEW d \in down' PROVE IsOwed(d)' \/ IsSent(d)'
  BY DEF DownInv
<1>1. Agree
  BY SentStays DEF Agree
<1>2. /\ f \in Calls /\ CallsOf(f.owner) = {f} /\ IsSequence(f.todo) /\ f.todo # <<>>
      /\ g.todo = Tail(f.todo) /\ g.owner = f.owner
      /\ Calls' = {h \in Calls : h.owner # f.owner} \cup {g} /\ tapScreen' = tapScreen
  BY DEF SendOf, CallsChange
<1>3. PICK t, u : t = f.todo /\ u = Tail(t) /\ u = g.todo
  BY <1>2
<1>4. /\ 1 \in DOMAIN t /\ e = t[1]
      /\ \A n \in DOMAIN t : n = 1 \/ \E m \in DOMAIN u : n = m + 1 /\ u[m] = t[n]
  <2>1. IsSequence(t) /\ t # <<>> /\ u = Tail(t)
    BY <1>2, <1>3
  <2>2. /\ 1 \in DOMAIN t /\ Head(t) = t[1]
        /\ \A n \in DOMAIN t : n = 1 \/ \E m \in DOMAIN u : n = m + 1 /\ u[m] = t[n]
    BY ONLY <2>1, TailHas
  <2> QED
    BY <2>2, <1>3
<1>5. \A i, p : Pressed(i, p)' = Pressed(i, p)
  BY <1>2, SamePressed
<1>6. ASSUME NEW i \in TimeLines, NEW p \in Pointers, d = Pressed(i, p), Owed(i, p) PROVE IsOwed(d)'
  <2>1. Owed(i, p)' /\ d = Pressed(i, p)'
    BY <1>5, <1>6, SentStays
  <2> QED
    BY <2>1 DEF IsOwed
<1>7. ASSUME NEW h \in Calls', NEW m \in DOMAIN h.todo, NEW i \in Ids, Says(h.todo[m], i, "release"),
             d = Pressed(i, h.todo[m].by)
      PROVE  IsSent(d)'
  <2>1. Says(h.todo[m], i, "release")' /\ d = Pressed(i, h.todo[m].by)'
    BY <1>5, <1>7 DEF Says
  <2> QED
    BY <2>1 DEF IsSent
<1>8. ASSUME NEW n \in DOMAIN t, NEW i \in Ids, Says(t[n], i, "release"), d = Pressed(i, t[n].by)
      PROVE  IsSent(d)'
  <2>1. n # 1
    <3>1. ASSUME n = 1 PROVE FALSE
      <4>1. PICK x \in e.parts : x.of = i /\ x.what = "release"
        BY <1>4, <1>8, <3>1 DEF Says
      <4>2. d \in SentNow(e, "release")
        BY <4>1, <1>4, <1>8, <3>1 DEF SentNow
      <4> QED
        BY <4>2
    <3> QED
      BY <3>1
  <2>2. PICK m \in DOMAIN u : n = m + 1 /\ u[m] = t[n]
    BY <1>4, <2>1
  <2>3. g \in Calls'
    BY <1>2
  <2> QED
    BY <1>3, <1>7, <1>8, <2>2, <2>3
<1>9. CASE d \in down
  <2>1. IsOwed(d) \/ IsSent(d)
    BY <1>1, <1>9 DEF GestureInv, DownInv
  <2>2. CASE IsOwed(d)
    BY <2>2, <1>6 DEF IsOwed
  <2>3. CASE IsSent(d)
    <3>1. PICK h \in Calls : \E m \in DOMAIN h.todo : \E i \in Ids :
              Says(h.todo[m], i, "release") /\ d = Pressed(i, h.todo[m].by)
      BY <2>3 DEF IsSent
    <3>2. PICK m \in DOMAIN h.todo : \E i \in Ids :
              Says(h.todo[m], i, "release") /\ d = Pressed(i, h.todo[m].by)
      BY <3>1
    <3>3. PICK i \in Ids : Says(h.todo[m], i, "release") /\ d = Pressed(i, h.todo[m].by)
      BY <3>2
    <3>4. CASE h.owner = f.owner
      <4>1. h = f
        BY <3>4, <1>2 DEF CallsOf
      <4> QED
        BY <4>1, <1>3, <1>8, <3>2, <3>3
    <3>5. CASE h.owner # f.owner
      <4>1. h \in Calls'
        BY <3>5, <1>2
      <4> QED
        BY <4>1, <1>7, <3>2, <3>3
    <3> QED
      BY <3>4, <3>5
  <2> QED
    BY <2>1, <2>2, <2>3
<1>10. CASE d \in SentNow(e, "press")
  <2>1. PICK x \in e.parts : x.what = "press" /\ d = Pressed(x.of, e.by)
    BY <1>10 DEF SentNow
  <2>2. PICK i : i = x.of
    OBVIOUS
  <2>3. i \in Ids
    BY <1>2, <1>3, <1>4, <2>2 DEF GestureInv, PartsInv, PartsFit
  <2>4. Says(t[1], i, "press")
    BY <1>4, <2>1, <2>2 DEF Says
  <2>5. PressFits(t, 1, i)
    BY <1>2, <1>3, <1>4, <2>3, <2>4 DEF GestureInv, PressInv
  <2>6. CASE i \in TimeLines
    <3>1. Owed(i, e.by) /\ e.by \in Pointers
      BY <2>5, <2>6, <1>4 DEF PressFits, Owed
    <3> QED
      BY <3>1, <2>1, <2>2, <2>6, <1>6
  <2>7. CASE i \notin TimeLines
    <3>1. PICK n \in DOMAIN t : t[n].by = t[1].by /\ Says(t[n], i, "release")
      BY <2>5, <2>7 DEF PressFits
    <3> QED
      BY <3>1, <1>4, <1>8, <2>1, <2>2, <2>3
  <2> QED
    BY <2>6, <2>7
<1> QED
  BY <1>9, <1>10

(* What is left to send is what was, without its head.                     *)
LEMMA LeftToSend ==
    ASSUME NEW f, NEW g, SendOf(f, g)
    PROVE  /\ 1 \in DOMAIN f.todo /\ Head(f.todo) = f.todo[1]
           /\ IsSequence(g.todo) /\ g.owner = f.owner /\ g.then = f.then
           /\ \A m \in DOMAIN g.todo : /\ m + 1 \in DOMAIN f.todo /\ g.todo[m] = f.todo[m + 1]
                                       /\ m + 1 # 1 /\ m \in Int /\ m > 0
           /\ \A n \in DOMAIN f.todo : n = 1 \/ \E m \in DOMAIN g.todo : n = m + 1 /\ g.todo[m] = f.todo[n]
           /\ \A q : CallsOf(q)' = IF q = f.owner THEN {g} ELSE CallsOf(q)
           /\ \A h \in Calls' : h = g \/ (h \in Calls /\ h.owner # f.owner)
           /\ f \in Calls /\ CallsOf(f.owner) = {f}
<1>1. IsSequence(f.todo) /\ f.todo # <<>> /\ g.todo = Tail(f.todo) /\ g.owner = f.owner /\ g.then = f.then
  BY DEF SendOf
<1>2. PICK t, u : t = f.todo /\ u = g.todo
  OBVIOUS
<1>3. IsSequence(t) /\ t # <<>> /\ u = Tail(t)
  BY <1>1, <1>2
<1>4. /\ IsSequence(u) /\ 1 \in DOMAIN t /\ Head(t) = t[1]
      /\ \A m \in DOMAIN u : m + 1 \in DOMAIN t /\ u[m] = t[m + 1] /\ m + 1 # 1 /\ m \in Int /\ m > 0
      /\ \A n \in DOMAIN t : n = 1 \/ \E m \in DOMAIN u : n = m + 1 /\ u[m] = t[n]
  <2>1. IsSequence(u) /\ 1 \in DOMAIN t /\ Head(t) = t[1]
    BY ONLY <1>3, TailHas
  <2>2. \A m \in DOMAIN u : m + 1 \in DOMAIN t /\ u[m] = t[m + 1] /\ m + 1 # 1 /\ m \in Int /\ m > 0
    BY ONLY <1>3, TailHas
  <2>3. \A n \in DOMAIN t : n = 1 \/ \E m \in DOMAIN u : n = m + 1 /\ u[m] = t[n]
    BY ONLY <1>3, TailHas
  <2> QED
    BY ONLY <2>1, <2>2, <2>3
<1>5. /\ \A q : CallsOf(q)' = IF q = f.owner THEN {g} ELSE CallsOf(q)
      /\ \A h \in Calls' : h = g \/ (h \in Calls /\ h.owner # f.owner)
      /\ f \in Calls /\ CallsOf(f.owner) = {f}
  BY DEF SendOf, CallsChange
<1> QED
  BY ONLY <1>1, <1>2, <1>4, <1>5

(* What is known of the commands an event is about.                        *)
LEMMA SentOfOwner ==
    ASSUME GestureInv, NEW f, NEW g, SendOf(f, g), NEW m \in DOMAIN f.todo
    PROVE  /\ f.todo[m].by \in Pointers
           /\ \A x \in f.todo[m].parts : x.of \in Ids /\ Owner(x.of) = f.owner
           /\ \A x, y \in f.todo[m].parts : x.of = y.of => x = y
<1>1. f \in Calls
  BY DEF SendOf
<1> QED
  BY <1>1 DEF GestureInv, PartsInv, PartsFit

LEMMA SentRest ==
    ASSUME GestureInv, NEW f, NEW g, SendOf(f, g), NEW e, e = Head(f.todo), told' = ToldNow(e)
    PROVE  RestInv'
<1>1. PICK t, u : t = f.todo /\ u = g.todo
  OBVIOUS
<1>2. /\ 1 \in DOMAIN t /\ e = t[1] /\ g.owner = f.owner /\ g.then = f.then
      /\ \A m \in DOMAIN u : m + 1 \in DOMAIN t /\ u[m] = t[m + 1] /\ m + 1 # 1
      /\ \A m, n \in DOMAIN u : m + 1 = n + 1 => m = n
      /\ \A n \in DOMAIN t : n = 1 \/ \E m \in DOMAIN u : n = m + 1 /\ u[m] = t[n]
      /\ \A q : CallsOf(q)' = IF q = f.owner THEN {g} ELSE CallsOf(q)
      /\ \A h \in Calls' : h = g \/ (h \in Calls /\ h.owner # f.owner)
      /\ f \in Calls /\ CallsOf(f.owner) = {f}
  BY <1>1, LeftToSend
<1>3. /\ e.by \in Pointers
      /\ \A x \in e.parts : x.of \in Ids /\ Owner(x.of) = f.owner
      /\ \A x, y \in e.parts : x.of = y.of => x = y
  BY <1>1, <1>2, SentOfOwner
<1>4. /\ told' = [i \in Ids |-> [p \in Pointers |-> told'[i][p]]]
      /\ \A i \in Ids, p \in Pointers :
            (p # e.by \/ \A x \in e.parts : x.of # i) => told'[i][p] = told[i][p]
      /\ \A i \in Ids, p \in Pointers : \A x \in e.parts :
            p = e.by /\ x.of = i => told'[i][p] = ToldBy(e, i, p, x)
  BY <1>3, ToldIs
<1>5. \A i : /\ Owner(i)' = Owner(i) /\ (Goes(i)' <=> Goes(i))
             /\ (Remembers(i)' <=> Remembers(i)) /\ (Pending(i)' <=> Pending(i))
             /\ PointersOf(i)' = PointersOf(i)
             /\ \A p : PointsNow(i, p)' = PointsNow(i, p)
  BY SentStays
<1>6. \A h \in Calls' : h.then = "finished" => \A i \in TimeLines : h.owner = Owner(i)' /\ Pending(i)' => Remembers(i)'
  <2>1. \A h \in Calls : h.then = "finished" => \A i \in TimeLines : h.owner = Owner(i) /\ Pending(i) => Remembers(i)
    BY DEF GestureInv, RestInv
  <2> QED
    BY <2>1, <1>2, <1>5
<1>7. ASSUME NEW i \in Ids, NEW p \in {"touch", "mouse"} PROVE RestFits(i, p)'
  <2>1. RestFits(i, p) /\ p \in Pointers
    BY DEF GestureInv, RestInv, Pointers
  <2>2. \A x, n : IsMove(x, n, p)' <=> IsMove(x, n, p)
    BY DEF IsMove, Says
  <2>3. CASE p # e.by \/ \A x \in e.parts : x.of # i
    <3>1. told'[i][p] = told[i][p]
      BY <1>4, <2>1, <2>3
    <3>2. \A todo : MoveFits(i, p, todo) => MoveFits(i, p, todo)'
      BY <1>5, <2>2, <3>1 DEF MoveFits
    <3>3. CASE Owner(i) # f.owner
      <4>1. CallsOf(Owner(i))' = CallsOf(Owner(i))
        BY <1>2, <1>5, <3>3
      <4> QED
        BY <2>1, <2>2, <1>5, <3>1, <3>2, <4>1 DEF RestFits
    <3>4. CASE Owner(i) = f.owner
      <4>1. CallsOf(Owner(i))' = {g} /\ CallsOf(Owner(i)) = {f}
        BY <1>2, <1>5, <3>4
      <4>2. ~IsMove(t[1], i, p)
        BY <1>2, <2>3 DEF IsMove, Says
      <4>3. MoveFits(i, p, t)
        BY <4>1, <1>1, <2>1 DEF RestFits
      <4>4. MoveFits(i, p, u)
        BY <4>3, <1>2 DEF MoveFits
      <4>5. (\A m \in DOMAIN u : ~IsMove(u[m], i, p)) => \A m \in DOMAIN t : ~IsMove(t[m], i, p)
        BY <4>2, <1>2
      <4>6. told[i][p].what = "move" /\ Goes(i) /\ (\A m \in DOMAIN u : ~IsMove(u[m], i, p))
              => Remembers(i) /\ told[i][p].points = PointsNow(i, p)
        BY <4>1, <4>5, <1>1, <2>1 DEF RestFits
      <4>7. ~told[i][p].rest /\ (told[i][p].what = "move" => p \in PointersOf(i))
        BY <2>1 DEF RestFits
      <4>8. MoveFits(i, p, u)'
        BY <4>4, <3>2
      <4> QED
        BY <1>1, <1>5, <2>2, <3>1, <4>1, <4>6, <4>7, <4>8 DEF RestFits
    <3> QED
      BY <3>3, <3>4
  <2>4. CASE p = e.by /\ \E x \in e.parts : x.of = i
    <3>1. PICK x \in e.parts : x.of = i
      BY <2>4
    <3>2. Owner(i) = f.owner
      BY <1>3, <3>1
    <3>3. CallsOf(Owner(i))' = {g} /\ CallsOf(Owner(i)) = {f}
      BY <1>2, <1>5, <3>2
    <3>4. MoveFits(i, p, t)
      BY <3>3, <1>1, <2>1 DEF RestFits
    <3>5. told'[i][p] = ToldBy(e, i, p, x)
      BY <1>4, <2>1, <2>4, <3>1
    <3>6. /\ told'[i][p].what = x.what /\ told'[i][p].points = x.points
          /\ told'[i][p].rest = (x.what = "move" /\ told[i][p].what = "move" /\ x.points = told[i][p].points)
      BY <3>5 DEF ToldBy
    <3>7. x.what = "move" => /\ IsMove(t[1], i, p)
                             /\ told[i][p].what = "move" => told[i][p].points # x.points
                             /\ Goes(i) => Remembers(i) /\ x.points = PointsNow(i, p)
                             /\ p \in PointersOf(i)
      <4> SUFFICES ASSUME x.what = "move"
                   PROVE  /\ IsMove(t[1], i, p)
                          /\ told[i][p].what = "move" => told[i][p].points # x.points
                          /\ Goes(i) => Remembers(i) /\ x.points = PointsNow(i, p)
                          /\ p \in PointersOf(i)
        OBVIOUS
      <4>1. IsMove(t[1], i, p)
        BY <1>2, <2>4, <3>1 DEF IsMove, Says
      <4>2. t[1].by = p /\ x \in t[1].parts /\ 1 \in DOMAIN t
        BY <1>2, <2>4
      <4> QED
        BY <3>1, <3>4, <4>1, <4>2 DEF MoveFits
    <3>8. ~told'[i][p].rest
      BY <3>6, <3>7
    <3>9. x.what = "move" => \A m \in DOMAIN u : ~IsMove(u[m], i, p)
      BY <3>4, <3>7, <1>2 DEF MoveFits
    <3>10. MoveFits(i, p, u)'
      <4>1. \A m \in DOMAIN u : IsMove(u[m], i, p) => p \in PointersOf(i)
        BY <1>2, <3>4 DEF MoveFits
      <4>2. \A m, n \in DOMAIN u : IsMove(u[m], i, p) /\ IsMove(u[n], i, p) => m = n
        BY <1>2, <3>4 DEF MoveFits
      <4>3. ASSUME NEW m \in DOMAIN u, u[m].by = p, NEW y \in u[m].parts, y.of = i, y.what = "move"
            PROVE  /\ told'[i][p].what = "move" => told'[i][p].points # y.points
                   /\ Goes(i) => Remembers(i) /\ y.points = PointsNow(i, p)
        <5>1. IsMove(u[m], i, p)
          BY <4>3 DEF IsMove, Says
        <5>2. told'[i][p].what # "move"
          BY <3>6, <3>9, <5>1
        <5>3. m + 1 \in DOMAIN t /\ u[m] = t[m + 1]
          BY <1>2
        <5>4. Goes(i) => Remembers(i) /\ y.points = PointsNow(i, p)
          BY <3>4, <4>3, <5>3 DEF MoveFits
        <5> QED
          BY <5>2, <5>4
      <4> QED
        BY <1>5, <2>2, <4>1, <4>2, <4>3 DEF MoveFits
    <3> QED
      BY <1>1, <1>5, <2>2, <3>3, <3>6, <3>7, <3>8, <3>10 DEF RestFits
  <2> QED
    BY <2>3, <2>4
<1> QED
  BY <1>4, <1>6, <1>7 DEF RestInv

LEMMA SentScript ==
    ASSUME GestureInv, NEW f, NEW g, SendOf(f, g), NEW e, e = Head(f.todo), told' = ToldNow(e)
    PROVE  ScriptInv'
<1>1. UNCHANGED <<script, runner, pair>>
  BY DEF SendOf
<1>2. e = f.todo[1] /\ 1 \in DOMAIN f.todo /\ f \in Calls
  BY LeftToSend
<1>3. /\ \A x \in e.parts : x.of \in Ids /\ Owner(x.of) = f.owner
      /\ \A x, y \in e.parts : x.of = y.of => x = y
  BY <1>2, SentOfOwner
<1>4. ASSUME NEW i, Fresh(i) PROVE Fresh(i)'
  <2>1. i \in Ids /\ i \notin pair.all /\ CallsOf(i) = {}
    BY <1>4 DEF Fresh
  <2>2. Owner(i) # f.owner
    BY <1>2, <2>1 DEF Owner, CallsOf
  <2>3. \A x \in e.parts : x.of # i
    BY <1>3, <2>2
  <2>4. \A p \in Pointers : told'[i][p] = told[i][p]
    <3>1. /\ told' = [j \in Ids |-> [p \in Pointers |-> told'[j][p]]]
          /\ \A j \in Ids, p \in Pointers :
                (p # e.by \/ \A x \in e.parts : x.of # j) => told'[j][p] = told[j][p]
          /\ \A j \in Ids, p \in Pointers : \A x \in e.parts :
                p = e.by /\ x.of = j => told'[j][p] = ToldBy(e, j, p, x)
      BY <1>3, ToldIs
    <3> QED
      BY <2>1, <2>3, <3>1
  <2>5. CallsOf(i)' = {}
    BY <2>1, SentStays
  <2> QED
    BY <1>1, <1>4, <2>4, <2>5 DEF Fresh
<1> QED
  BY <1>1, <1>4 DEF GestureInv, ScriptInv

LEMMA SentCalls ==
    ASSUME GestureInv, NEW f, NEW g, SendOf(f, g)
    PROVE  RunnerInv' /\ PairInv' /\ CallsInv' /\ PartsInv' /\ PressInv' /\ TapInv'
<1>1. /\ UNCHANGED <<script, runner, pair, tapScreen>> /\ StackInv'
      /\ g = [owner |-> g.owner, todo |-> g.todo, then |-> g.then, sent |-> g.sent]
  BY DEF SendOf, CallsChange
<1>2. /\ \A q : (CallsOf(q)' = {} <=> CallsOf(q) = {})
      /\ \A i : Owner(i)' = Owner(i)
      /\ \A i, p : (Owed(i, p)' <=> Owed(i, p))
      /\ Started' = Started
  BY SentStays
<1>3. /\ IsSequence(g.todo) /\ g.owner = f.owner /\ g.then = f.then
      /\ \A m \in DOMAIN g.todo : m + 1 \in DOMAIN f.todo /\ g.todo[m] = f.todo[m + 1]
      /\ \A h \in Calls' : h = g \/ (h \in Calls /\ h.owner # f.owner)
      /\ f \in Calls
  BY LeftToSend
<1>4. RunnerInv'
  BY <1>1, <1>2 DEF GestureInv, RunnerInv, RunnerFits
<1>5. PairInv'
  BY <1>1, <1>2 DEF GestureInv, PairInv, Finishing
<1>6. CallsInv'
  <2>1. ASSUME NEW h \in Calls PROVE CallFits(h)'
    BY <1>1 DEF GestureInv, CallsInv, CallFits
  <2>2. CallFits(g)'
    BY <2>1, <1>1, <1>3 DEF CallFits
  <2> QED
    BY <1>1, <1>3, <2>1, <2>2 DEF CallsInv
<1>7. PartsInv'
  <2>1. ASSUME NEW h \in Calls, NEW m \in DOMAIN h.todo PROVE PartsFit(h.owner, h.todo[m])'
    BY <1>2 DEF GestureInv, PartsInv, PartsFit
  <2>2. ASSUME NEW m \in DOMAIN g.todo PROVE PartsFit(g.owner, g.todo[m])'
    BY <2>1, <1>3
  <2> QED
    BY <1>3, <2>1, <2>2 DEF PartsInv
<1>8. PressInv'
  <2>1. ASSUME NEW h \in Calls, NEW m \in DOMAIN h.todo, NEW i \in Ids, Says(h.todo[m], i, "press")
        PROVE  PressFits(h.todo, m, i)'
    <3>1. PressFits(h.todo, m, i)
      BY <2>1 DEF GestureInv, PressInv
    <3> QED
      BY <3>1, <1>2 DEF PressFits, Says
  <2>2. ASSUME NEW m \in DOMAIN g.todo, NEW i \in Ids, Says(g.todo[m], i, "press")
        PROVE  PressFits(g.todo, m, i)'
    <3>1. PICK t, u : t = f.todo /\ u = g.todo
      OBVIOUS
    <3>2. /\ 1 \in DOMAIN t
          /\ \A k \in DOMAIN u : k + 1 \in DOMAIN t /\ u[k] = t[k + 1] /\ k \in Int /\ k > 0
          /\ \A n \in DOMAIN t : n = 1 \/ \E k \in DOMAIN u : n = k + 1 /\ u[k] = t[n]
      BY <3>1, LeftToSend
    <3>3. m + 1 \in DOMAIN t /\ u[m] = t[m + 1] /\ m \in Int /\ m > 0 /\ Says(t[m + 1], i, "press")
      BY <2>2, <3>1, <3>2
    <3>4. PressFits(t, m + 1, i)
      BY <1>3, <3>1, <3>3 DEF GestureInv, PressInv
    <3>5. CASE i \in TimeLines
      BY <3>3, <3>4, <3>5, <3>1, <1>2 DEF PressFits
    <3>6. CASE i \notin TimeLines
      <4>1. PICK n \in DOMAIN t : n > m + 1 /\ t[n].by = t[m + 1].by /\ Says(t[n], i, "release")
        BY <3>4, <3>6 DEF PressFits
      <4>2. n # 1
        BY <3>3, <4>1
      <4>3. PICK k \in DOMAIN u : n = k + 1 /\ u[k] = t[n]
        BY <3>2, <4>2
      <4>4. k > m
        BY <3>2, <3>3, <4>1, <4>3
      <4> QED
        BY <3>1, <3>3, <3>6, <4>1, <4>3, <4>4 DEF PressFits, Says
    <3> QED
      BY <3>5, <3>6
  <2>3. \A e, i : Says(e, i, "press")' <=> Says(e, i, "press")
    BY DEF Says
  <2> QED
    BY <1>3, <2>1, <2>2, <2>3 DEF PressInv
<1>9. TapInv'
  BY <1>1, <1>2 DEF GestureInv, TapInv, Agree
<1> QED
  BY <1>4, <1>5, <1>6, <1>7, <1>8, <1>9

(* What leaves the gestures alone leaves the invariant alone.              *)
LEMMA GestureStutters ==
    ASSUME GestureInv, UNCHANGED gestures
    PROVE  GestureInv'
<1>1. UNCHANGED <<script, runner, pair, frames, tapScreen, down, told>>
  BY DEF gestures
<1>2. \A i : Fresh(i) => Fresh(i)'
  BY <1>1 DEF Fresh, CallsOf, Calls
<1>3. ScriptInv'
  BY <1>1, <1>2 DEF GestureInv, ScriptInv
<1> QED
  BY <1>1, <1>3, GoesOn

SentOn(f) == [f EXCEPT !.todo = Tail(@), !.sent = TRUE]

LEMMA SentOnIs ==
    ASSUME NEW r, NEW o, r = [owner |-> o, todo |-> r.todo, then |-> r.then, sent |-> r.sent]
    PROVE  SentOn(r) = [owner |-> o, todo |-> Tail(r.todo), then |-> r.then, sent |-> TRUE]
<1>1. PICK x, y, z : r = [owner |-> o, todo |-> x, then |-> y, sent |-> z]
  OBVIOUS
<1>2. PICK w : w = Tail(r.todo)
  OBVIOUS
<1>3. PICK s : s = [r EXCEPT !.todo = w]
  OBVIOUS
<1>4. PICK t : t = [s EXCEPT !.sent = TRUE]
  OBVIOUS
<1>5. s = [owner |-> o, todo |-> w, then |-> y, sent |-> z]
  BY <1>1, <1>3
<1>6. t = [owner |-> o, todo |-> w, then |-> y, sent |-> TRUE]
  BY <1>5, <1>4
<1>7. t = SentOn(r)
  BY <1>2, <1>3, <1>4, Zenon DEF SentOn
<1>8. r.then = y
  BY <1>1
<1> QED
  BY <1>2, <1>6, <1>7, <1>8

(* The next event of the innermost call is sent.                           *)
LEMMA SendKeeps ==
    ASSUME GestureInv, Send
    PROVE  GestureInv'
<1>1. PICK f : f = Last(frames)
  OBVIOUS
<1>2. PICK e : e = Head(f.todo)
  OBVIOUS
<1>3. frames # <<>> /\ f.todo # <<>> /\ UNCHANGED <<script, runner, pair, tapScreen>>
  BY <1>1 DEF Send
<1>4. CASE ~(e.targets \subseteq alive)
  <2>1. UNCHANGED <<frames, down, told>>
    BY <1>1, <1>2, <1>4 DEF Send
  <2> QED
    BY <1>3, <2>1, GestureStutters DEF gestures
<1>5. CASE e.targets \subseteq alive
  <2>1. /\ frames' = [frames EXCEPT ![Len(frames)] = SentOn(f)]
        /\ down' = (down \cup SentNow(e, "press")) \ SentNow(e, "release")
        /\ told' = ToldNow(e)
    BY <1>1, <1>2, <1>5 DEF Send, SentOn, SentNow, ToldNow, ToldBy
  <2>2. f \in Calls /\ CallsOf(f.owner) = {f} /\ CallFits(f) /\ StackInv
    BY <1>1, <1>3, InnermostIs
  <2>3. /\ f = [owner |-> f.owner, todo |-> f.todo, then |-> f.then, sent |-> f.sent]
        /\ IsSequence(f.todo)
    BY <2>2 DEF CallFits
  <2>4. PICK g : g = [owner |-> f.owner, todo |-> Tail(f.todo), then |-> f.then, sent |-> TRUE]
    OBVIOUS
  <2>5. SentOn(f) = g /\ g.owner = f.owner
    BY <2>3, <2>4, SentOnIs
  <2>6. CallsChange(f.owner, {g})
    <3>1. frames' = [frames EXCEPT ![Len(frames)] = g] /\ g.owner = Last(frames).owner
      BY <1>1, <2>1, <2>5
    <3>2. CallsChange(g.owner, {g})
      BY <3>1, <2>2, <1>3, Replaced
    <3> QED
      BY <3>2, <2>5
  <2>7. SendOf(f, g)
    BY <1>3, <2>2, <2>3, <2>4, <2>6 DEF SendOf
  <2>8. ScriptInv' /\ RestInv' /\ DownInv'
    BY <1>2, <2>1, <2>7, SentScript, SentRest, SentDown
  <2>9. RunnerInv' /\ PairInv' /\ CallsInv' /\ PartsInv' /\ PressInv' /\ TapInv'
    BY <2>7, SentCalls
  <2> QED
    BY <2>8, <2>9 DEF GestureInv
<1> QED
  BY <1>4, <1>5

-----------------------------------------------------------------------------
(* Gestures that are performed together.                                   *)

(* The pointers of several commands together.                              *)
ScreenBy(screen) == IF screen THEN {"screen", "screen2"} ELSE {"touch"}

(* One event of all that several commands say, or events of the system,    *)
(* one for each point.                                                     *)
TouchBy(todo, what, parts, screen) ==
    /\ IsSequence(todo)
    /\ \A m \in DOMAIN todo : todo[m].by \in ScreenBy(screen)
    /\ \A m \in DOMAIN todo : \A y \in todo[m].parts :
          \E x \in parts : y.of = x.of /\ IF screen THEN y.what = what ELSE y = x
    /\ \A m \in DOMAIN todo : \A y, z \in todo[m].parts : y.of = z.of => y = z
    /\ ~screen => DOMAIN todo = {1} /\ todo[1].parts = parts
    /\ screen /\ parts # {} =>
          \E m \in DOMAIN todo : \E x \in parts : Says(todo[m], x.of, what)

LEMMA TouchIs ==
    ASSUME NEW t, NEW what, NEW is, IsFiniteSet(is), NEW parts, \A x \in parts : x.of \in is,
           \A x, y \in parts : x.of = y.of => x = y, \A x \in parts : PointsFit(x.points),
           NEW screen \in BOOLEAN
    PROVE  TouchBy(Touch(t, what, parts, screen), what, parts, screen)
<1>1. CASE screen
  <2> DEFINE todo == Touch(t, what, parts, TRUE)
  <2>2. IsFiniteSet(parts)
    BY PartsAreFinite
  <2>3. /\ IsSequence(todo)
        /\ \A m \in DOMAIN todo :
              /\ todo[m].by \in {"screen", "screen2"}
              /\ \E x \in parts : \E ps : todo[m].parts = {Part(x.of, what, ps)}
        /\ parts # {} => DOMAIN todo # {}
    BY <2>2, TouchOfScreen
  <2> HIDE DEF todo
  <2>4. ASSUME NEW m \in DOMAIN todo
        PROVE  /\ \A y \in todo[m].parts : \E x \in parts : y.of = x.of /\ y.what = what
               /\ \A y, z \in todo[m].parts : y = z
               /\ \E x \in parts : Says(todo[m], x.of, what)
    <3>1. PICK x \in parts : \E ps : todo[m].parts = {Part(x.of, what, ps)}
      BY <2>3
    <3>2. PICK ps : todo[m].parts = {Part(x.of, what, ps)}
      BY <3>1
    <3>3. Part(x.of, what, ps).of = x.of /\ Part(x.of, what, ps).what = what
      BY PartIs
    <3>4. Says(todo[m], x.of, what)
      BY <3>2, SaysPart
    <3> QED
      BY <3>1, <3>2, <3>3, <3>4
  <2>5. TouchBy(todo, what, parts, TRUE)
    BY <2>3, <2>4 DEF TouchBy, ScreenBy
  <2> QED
    BY <1>1, <2>5 DEF todo
<1>2. CASE ~screen
  <2> DEFINE todo == Touch(t, what, parts, FALSE)
  <2>2. /\ IsSequence(todo) /\ DOMAIN todo = {1}
        /\ todo[1].by = "touch" /\ todo[1].parts = parts
    BY OneIn, EventIs DEF Touch
  <2> HIDE DEF todo
  <2>3. TouchBy(todo, what, parts, FALSE)
    BY <2>2 DEF TouchBy, ScreenBy
  <2> QED
    BY <1>2, <2>3 DEF todo
<1> QED
  BY <1>1, <1>2

(* The turn of the gestures that are performed together.                   *)
LEMMA TogetherTurn ==
    ASSUME GestureInv, NEW S, CallsChange(Together, S), pair'.all = pair.all,
           DOMAIN runner' = Ids, \A j \in Ids \ pair.all : runner'[j] = runner[j],
           NEW C, C = pair.all
    PROVE  /\ TurnOf(Together, S, C)
           /\ CallsOf(Together)' = S
           /\ \A j \in C : /\ j \in TimeLines /\ j \in Ids /\ ~Fresh(j)
                           /\ Owner(j) = Together /\ Owner(j)' = Together
                           /\ Stage(j) = pair.stage /\ Stage(j)' = pair'.stage
                           /\ PointersOf(j) = PairPointers(C) /\ PointersOf(j)' = PairPointers(C)
                           /\ (Pending(j) <=> j \in pair.left) /\ (Pending(j)' <=> j \in pair'.left)
<1>1. C \subseteq TimeLines /\ C \subseteq Ids
  BY DEF GestureInv, PairInv, TimeLines
<1>2. ASSUME NEW j \in Ids \ C PROVE Unaffected(j)
  <2>1. j # Together
    BY OwnerIs
  <2>2. CallsOf(j)' = CallsOf(j)
    BY <2>1 DEF CallsChange
  <2> QED
    BY <2>2, KeptAlone
<1>3. \A j \in C : Owner(j) = Together /\ Owner(j)' = Together
  BY DEF Owner
<1>4. ASSUME NEW j \in C, NEW f \in Calls, f.owner \in {j, Owner(j)} PROVE f.owner = Together
  <2>1. CallFits(f)
    BY DEF GestureInv, CallsInv
  <2> QED
    BY <1>1, <1>3, <1>4, <2>1 DEF CallFits
<1>5. TurnOf(Together, S, C)
  BY <1>1, <1>2, <1>3, <1>4 DEF TurnOf
<1>6. CallsOf(Together)' = S
  BY DEF CallsChange
<1>7. \A j \in C : /\ ~Fresh(j)
                   /\ Stage(j) = pair.stage /\ Stage(j)' = pair'.stage
                   /\ PointersOf(j) = PairPointers(C) /\ PointersOf(j)' = PairPointers(C)
                   /\ (Pending(j) <=> j \in pair.left) /\ (Pending(j)' <=> j \in pair'.left)
  BY DEF Fresh, Stage, PointersOf, Pending, PairPointers, Screen
<1> QED
  BY <1>1, <1>3, <1>5, <1>6, <1>7

(* What the gestures together still tell when nothing more goes its way.   *)
LEMMA ElsewhereStill ==
    ASSUME NEW i, NEW p, told' = told, RestFits(i, p), p \notin PointersOf(i),
           PointersOf(i)' = PointersOf(i),
           \A f \in CallsOf(Owner(i))' : \A m \in DOMAIN f.todo : f.todo[m].by # p
    PROVE  RestFits(i, p)'
<1>1. ~told[i][p].rest /\ told[i][p].what # "move"
  BY DEF RestFits
<1>2. \A f \in CallsOf(Owner(i))' : MoveFits(i, p, f.todo)'
  BY DEF MoveFits, IsMove
<1> QED
  BY <1>1, <1>2 DEF RestFits

(* The first of the script are several gestures, and no others are         *)
(* performed together before.                                              *)
LEMMA SeveralAre ==
    ASSUME GestureInv, script # <<>>, Cardinality(Head(script)) > 1
    PROVE  /\ IsFiniteSet(Head(script)) /\ Head(script) \subseteq TimeLines
           /\ \A i \in Head(script) : Fresh(i) /\ Command[i].speed \in Nat
           /\ pair.stage = "none" /\ pair.all = {} /\ CallsOf(Together) = {}
<1>1. ScriptFits(script)
  BY DEF GestureInv, ScriptInv
<1>2. 1 \in DOMAIN script /\ Head(script) = script[1]
  BY <1>1, ScriptTail
<1>3. /\ IsFiniteSet(script[1]) /\ \A i \in script[1] : IsGesture(Command[i])
  BY <1>1, <1>2 DEF ScriptFits
<1>4. \A i \in script[1] : Fresh(i)
  BY <1>2 DEF GestureInv, ScriptInv
<1>5. pair.stage = "none"
  <2>1. pair.stage # "none" => Cardinality(script[1]) <= 1
    BY <1>2 DEF GestureInv, ScriptInv
  <2>2. Cardinality(script[1]) \in Nat
    BY <1>3, FS_CardinalityType
  <2> QED
    BY <1>2, <2>1, <2>2
<1>6. pair.all = {}
  BY <1>5 DEF GestureInv, PairInv
<1>7. CallsOf(Together) = {}
  <2>1. ASSUME NEW f \in Calls, f.owner = Together PROVE FALSE
    <3>1. CallFits(f)
      BY DEF GestureInv, CallsInv
    <3> QED
      BY <1>5, <2>1, <3>1, GestureAssumption DEF CallFits, TimeLines
  <2> QED
    BY <2>1 DEF CallsOf
<1>8. \A i \in script[1] : i \in TimeLines /\ Command[i].speed \in Nat
  BY <1>3, <1>4, GestureAssumption DEF TimeLines, Fresh
<1> QED
  BY <1>2, <1>3, <1>4, <1>5, <1>6, <1>7, <1>8

(* Several gestures start.                                                 *)
LEMMA TogetherStarts ==
    ASSUME GestureInv, NEW is, NEW S, CallsChange(Together, S), pair.all = {}, pair'.all = is,
           is \subseteq Ids, \A i \in is : Fresh(i),
           runner' = [j \in Ids |-> IF j \notin is THEN runner[j] ELSE runner'[j]]
    PROVE  /\ TurnOf(Together, S, is) /\ CallsOf(Together)' = S
           /\ \A j \in is : /\ Owner(j)' = Together /\ Stage(j)' = pair'.stage
                            /\ PointersOf(j)' = PairPointers(is) /\ (Pending(j)' <=> j \in pair'.left)
<1>1. ASSUME NEW j \in Ids \ is PROVE Unaffected(j)
  <2>1. j # Together
    BY OwnerIs
  <2>2. CallsOf(j)' = CallsOf(j)
    BY <2>1 DEF CallsChange
  <2> QED
    BY <2>2, KeptAlone
<1>2. \A j \in is : Owner(j)' = Together /\ Owner(j) = j
  BY DEF Owner
<1>3. ASSUME NEW j \in is, NEW f \in Calls, f.owner \in {j, Owner(j)} PROVE f.owner = Together
  BY <1>2, <1>3 DEF Fresh, CallsOf
<1>4. TurnOf(Together, S, is)
  BY <1>1, <1>2, <1>3 DEF TurnOf
<1>5. CallsOf(Together)' = S
  BY DEF CallsChange
<1>6. \A j \in is : /\ Stage(j)' = pair'.stage /\ PointersOf(j)' = PairPointers(is)
                    /\ (Pending(j)' <=> j \in pair'.left)
  BY DEF Stage, PointersOf, Pending, PairPointers, Screen
<1> QED
  BY <1>2, <1>4, <1>5, <1>6

LEMMA StartGesturesKeeps ==
    ASSUME GestureInv, StartGestures
    PROVE  GestureInv'
<1>1. /\ script # <<>> /\ Cardinality(Head(script)) > 1 /\ script' = Tail(script)
      /\ UNCHANGED <<tapScreen, down, told>>
  BY DEF StartGestures, Performed
<1>2. /\ IsFiniteSet(Head(script)) /\ Head(script) \subseteq TimeLines
      /\ \A i \in Head(script) : Fresh(i) /\ Command[i].speed \in Nat
      /\ pair.stage = "none" /\ pair.all = {} /\ CallsOf(Together) = {}
  BY <1>1, SeveralAre
<1>3. PICK is : is = {i \in Head(script) : Command[i].target \in alive}
  OBVIOUS
<1>4. PICK pressed : pressed = {Part(i, "press", Start(Command[i])) : i \in {j \in is : Command[j].press}}
  OBVIOUS
<1>5. CASE UNCHANGED <<runner, pair, frames>>
  BY <1>1, <1>5, LeftOut
<1>6. CASE ~UNCHANGED <<runner, pair, frames>>
  <2>1. is # {} /\ ~\E i \in is : Crashes(Command[i]) \/ Command[i].speed = 0
    BY <1>3, <1>6 DEF StartGestures
  <2>2. PICK i \in is :
            /\ pair' = [stage |-> "starting", step |-> 0, left |-> is, all |-> is]
            /\ runner' = [j \in Ids |-> IF j \notin is THEN runner[j]
                            ELSE [Idle EXCEPT !.stage = "together", !.last = Start(Command[j]),
                                              !.previous = StartPoints(j)]]
            /\ Call(Together, Touch(Command[i].target, "press", pressed, Screen(is)), "moving")
    BY <1>3, <1>4, <1>6, <2>1, Zenon DEF StartGestures
  <2>3. is \subseteq Head(script) /\ is \subseteq TimeLines /\ is \subseteq Ids /\ IsFiniteSet(is)
    BY <1>2, <1>3, FS_Subset DEF TimeLines
  <2>4. PICK todo : todo = Touch(Command[i].target, "press", pressed, Screen(is))
    OBVIOUS
  <2>5. PICK g : /\ g = [owner |-> Together, todo |-> todo, then |-> "moving", sent |-> FALSE]
                 /\ CallsChange(Together, {g})
    BY <1>2, <2>2, <2>4, SoloPushed
  <2>6. PICK S : S = {g}
    OBVIOUS
  <2>7. CallsChange(Together, S)
    BY <2>5, <2>6
  <2>8. /\ pair' = [stage |-> "starting", step |-> 0, left |-> is, all |-> is]
        /\ DOMAIN runner' = Ids
        /\ \A j \in is : runner'[j] = [stage |-> "together", step |-> 0, last |-> Start(Command[j]),
                                       previous |-> StartPoints(j), left |-> 0]
        /\ runner' = [j \in Ids |-> IF j \notin is THEN runner[j] ELSE runner'[j]]
    BY <2>2, <2>3 DEF Idle
  <2>9. /\ TurnOf(Together, S, is) /\ CallsOf(Together)' = S
        /\ \A j \in is : /\ Owner(j)' = Together /\ Stage(j)' = pair'.stage
                         /\ PointersOf(j)' = PairPointers(is) /\ (Pending(j)' <=> j \in pair'.left)
    BY <1>2, <2>3, <2>7, <2>8, TogetherStarts
  <2>10. PICK screen \in BOOLEAN : screen = Screen(is)
    BY DEF Screen
  <2>11. TouchBy(todo, "press", pressed, screen)
    <3>1. /\ \A x \in pressed : x.of \in is /\ PointsFit(x.points)
          /\ \A x, y \in pressed : x.of = y.of => x = y
      <4>1. \A x \in pressed : \E j \in is : x = Part(j, "press", Start(Command[j]))
        BY <1>4
      <4>2. \A j \in is : LET x == Part(j, "press", Start(Command[j])) IN x.of = j /\ PointsFit(x.points)
        BY <2>3, EndsFit, PartIs
      <4> QED
        BY <4>1, <4>2
    <3> QED
      BY <2>3, <2>4, <2>10, <3>1, TouchIs
  <2>12. /\ IsSequence(todo)
         /\ \A m \in DOMAIN todo :
               /\ todo[m].by \in PairPointers(is)
               /\ \A y \in todo[m].parts : y.of \in is /\ y.what = "press"
               /\ \A y, z \in todo[m].parts : y.of = z.of => y = z
    <3>1. \A x \in pressed : x.of \in is /\ x.what = "press"
      BY <1>4, PartIs
    <3> QED
      BY <2>10, <2>11, <3>1 DEF TouchBy, ScreenBy, PairPointers
  <2>13. PairPointers(is) \subseteq Pointers
    BY DEF PairPointers, Pointers
  <2>14. ScriptInv'
    BY <1>1, <2>3, <2>9, NextOfScript DEF GestureInv
  <2>15. PairInv'
    <3>1. \A j \in is : Command[j].speed \in Nat \ {0}
      BY <1>2, <2>1, <2>3
    <3>2. \E l \in is : \A k \in 1..Steps : ~(k * Multiplier(l, is) > Steps)
      BY <2>1, <2>3, <3>1, LongestLasts
    <3>3. \A l, k : Finishing(l, k)' <=> k * Multiplier(l, is) > Steps
      BY <2>8 DEF Finishing
    <3>4. \E l \in pair'.left : \A k \in 1..Steps : ~Finishing(l, k)'
      BY <3>2, <3>3, <2>8
    <3>5. CallsOf(Together)' # {}
      BY <2>6, <2>9
    <3> QED
      BY <2>3, <2>8, <3>4, <3>5 DEF PairInv
  <2>16. \A j \in is : RunnerFits(j)'
    <3> SUFFICES ASSUME NEW j \in is PROVE RunnerFits(j)'
      OBVIOUS
    <3>1. j \in TimeLines /\ pair'.all = is
      BY <2>3, <2>8
    <3>2. runner'[j] = [stage |-> "together", step |-> 0, last |-> Start(Command[j]),
                        previous |-> StartPoints(j), left |-> 0]
      BY <2>8
    <3>3. /\ runner'[j] = [stage |-> runner'[j].stage, step |-> runner'[j].step, last |-> runner'[j].last,
                           previous |-> runner'[j].previous, left |-> runner'[j].left]
          /\ runner'[j].stage = "together"
      BY ONLY <3>2
    <3> QED
      BY <3>1, <3>3 DEF RunnerFits
  <2>17. \A f \in S : CallFits(f)'
    <3>1. CallFits(g)'
      BY <2>5, <2>8, <2>12 DEF CallFits
    <3> QED
      BY <2>6, <3>1
  <2>18. \A f \in S : \A m \in DOMAIN f.todo : PartsFit(f.owner, f.todo[m])'
    <3>1. \A m \in DOMAIN todo : PartsFit(Together, todo[m])'
      BY <2>3, <2>9, <2>12, <2>13 DEF PartsFit
    <3> QED
      BY <2>5, <2>6, <3>1
  <2>19. \A f \in S : \A m \in DOMAIN f.todo : \A j \in Ids :
             Says(f.todo[m], j, "press") => PressFits(f.todo, m, j)'
    <3>1. ASSUME NEW m \in DOMAIN todo, NEW j \in Ids, Says(todo[m], j, "press") PROVE PressFits(todo, m, j)'
      <4>1. j \in is /\ j \in TimeLines /\ todo[m].by \in PairPointers(is) /\ todo[m].by \in Pointers
        BY <2>3, <2>12, <2>13, <3>1 DEF Says
      <4>2. Coming(j)'
        BY <4>1, <2>5, <2>6, <2>9 DEF Coming
      <4>3. Owed(j, todo[m].by)'
        <5>1. j \in pair'.left /\ runner'[j].stage = "together"
          <6>1. runner'[j] = [stage |-> "together", step |-> 0, last |-> Start(Command[j]),
                              previous |-> StartPoints(j), left |-> 0]
            BY <4>1, <2>8
          <6>2. runner'[j].stage = "together"
            BY ONLY <6>1
          <6>3. pair'.left = is
            BY <2>8
          <6> QED
            BY <4>1, <6>2, <6>3
        <5> QED
          BY <4>1, <4>2, <5>1, <2>9 DEF Owed
      <4> QED
        BY <4>1, <4>3 DEF PressFits
    <3> QED
      BY <2>5, <2>6, <3>1
  <2>20. \A j \in is \cap TimeLines : \A p \in Pointers :
             Owed(j, p) => IsOwed(Pressed(j, p))' \/ Releases(S, j, p)
    BY <1>2, <2>3, FreshOwesNothing
  <2>21. \A j \in is : \A p \in {"touch", "mouse"} : RestFits(j, p)'
    <3> SUFFICES ASSUME NEW j \in is, NEW p \in {"touch", "mouse"} PROVE RestFits(j, p)'
      OBVIOUS
    <3>1. \A f \in CallsOf(Owner(j))' : \A m \in DOMAIN f.todo : ~Says(f.todo[m], j, "move")
      BY <2>5, <2>6, <2>9, <2>12 DEF Says
    <3>2. ~told[j][p].rest /\ told[j][p].what # "move"
      BY <1>2, <2>3 DEF Fresh, GestureInv, RestInv, RestFits, Pointers
    <3> QED
      BY <1>1, <2>3, <3>1, <3>2, StillFits
  <2>22. \A f \in S : f.then = "finished" =>
             \A j \in TimeLines : f.owner = Owner(j)' /\ Pending(j)' => Remembers(j)'
    BY <2>5, <2>6
  <2>23. \A f \in Calls : f.owner = Together => f.todo = <<>>
    BY <1>2 DEF CallsOf
  <2>24. \A j \in is \ TimeLines : j \in Started' <=> j \in Started
    BY <2>3
  <2> QED
    BY <1>1, <2>9, <2>14, <2>15, <2>16, <2>17, <2>18, <2>19, <2>20, <2>21, <2>22, <2>23, <2>24, OrdinaryTurn
<1> QED
  BY <1>5, <1>6

(* What is known of one of several.                                        *)
LEMMA TogetherIs ==
    ASSUME GestureInv, NEW j \in pair.all
    PROVE  /\ j \in Ids /\ j \in TimeLines /\ runner[j].stage \in {"together", "over"}
           /\ runner[j] = [stage |-> runner[j].stage, step |-> runner[j].step, last |-> runner[j].last,
                           previous |-> runner[j].previous, left |-> runner[j].left]
           /\ \A p \in {"touch", "mouse"} : RestFits(j, p)
<1>1. j \in TimeLines /\ j \in Ids
  BY DEF GestureInv, PairInv, TimeLines
<1>2. RunnerFits(j) /\ \A p \in {"touch", "mouse"} : RestFits(j, p)
  BY <1>1 DEF GestureInv, RunnerInv, RestInv
<1> QED
  BY <1>1, <1>2 DEF RunnerFits

(* The innermost call is over, of several gestures.                        *)
LEMMA ReturnedTogetherKeeps ==
    ASSUME GestureInv, Return, Last(frames).owner = Together, Last(frames).then # "finished"
    PROVE  GestureInv'
<1>1. PICK f : f = Last(frames)
  OBVIOUS
<1>2. /\ frames # <<>> /\ f.todo = <<>> /\ f.owner = Together /\ f.then # "finished"
      /\ frames' = Front(frames) /\ UNCHANGED <<script, tapScreen, down, told>>
      /\ pair' = [pair EXCEPT !.stage = f.then]
      /\ runner' = [i \in Ids |-> IF f.then = "over" /\ runner[i].stage = "together"
                                  THEN [runner[i] EXCEPT !.stage = "over"] ELSE runner[i]]
  BY <1>1 DEF Return, SetStage
<1>3. f \in Calls /\ CallsOf(Together) = {f} /\ CallFits(f) /\ StackInv
  BY <1>1, <1>2, InnermostIs
<1>4. f.then \in {"moving", "over"} /\ pair.stage \in {"starting", "moving"}
  BY <1>2, <1>3, GestureAssumption DEF CallFits, TimeLines
<1>5. /\ pair = [stage |-> pair.stage, step |-> pair.step, left |-> pair.left, all |-> pair.all]
      /\ pair.left \subseteq pair.all
      /\ pair.all \subseteq TimeLines /\ IsFiniteSet(pair.all)
      /\ \E l \in pair.left : \A k \in 1..Steps : ~Finishing(l, k)
  BY <1>4 DEF GestureInv, PairInv
<1>6. pair' = [stage |-> f.then, step |-> pair.step, left |-> pair.left, all |-> pair.all]
  BY <1>2, <1>5
<1>7. /\ pair'.all = pair.all /\ pair'.left = pair.left /\ pair'.stage = f.then
  BY ONLY <1>6
<1>8. \A j \in Ids \ pair.all : runner[j].stage # "together"
  BY DEF GestureInv, RunnerInv, RunnerFits
<1>9. DOMAIN runner' = Ids /\ \A j \in Ids \ pair.all : runner'[j] = runner[j]
  BY <1>2, <1>8
<1>10. ASSUME NEW j \in pair.all
       PROVE  /\ runner'[j].stage \in {"together", "over"} /\ runner'[j].step = runner[j].step
              /\ runner'[j].last = runner[j].last /\ runner'[j].previous = runner[j].previous
              /\ runner'[j] = [stage |-> runner'[j].stage, step |-> runner'[j].step,
                               last |-> runner'[j].last, previous |-> runner'[j].previous,
                               left |-> runner'[j].left]
  <2>1. /\ j \in Ids /\ runner[j].stage \in {"together", "over"}
        /\ runner[j] = [stage |-> runner[j].stage, step |-> runner[j].step, last |-> runner[j].last,
                        previous |-> runner[j].previous, left |-> runner[j].left]
    BY TogetherIs
  <2>2. runner'[j] = IF f.then = "over" /\ runner[j].stage = "together"
                     THEN [runner[j] EXCEPT !.stage = "over"] ELSE runner[j]
    BY <1>2, <2>1
  <2>3. [runner[j] EXCEPT !.stage = "over"] =
            [stage |-> "over", step |-> runner[j].step, last |-> runner[j].last,
             previous |-> runner[j].previous, left |-> runner[j].left]
    BY <2>1
  <2> QED
    BY <2>1, <2>2, <2>3
<1>11. PICK S : S = {}
  OBVIOUS
<1>12. PICK C : C = pair.all
  OBVIOUS
<1>13. CallsChange(Together, S)
  BY <1>1, <1>2, <1>3, <1>11, Popped
<1>14. /\ TurnOf(Together, S, C) /\ CallsOf(Together)' = S
       /\ \A j \in C : /\ j \in TimeLines /\ j \in Ids /\ ~Fresh(j)
                       /\ Owner(j) = Together /\ Owner(j)' = Together
                       /\ Stage(j) = pair.stage /\ Stage(j)' = pair'.stage
                       /\ PointersOf(j) = PairPointers(C) /\ PointersOf(j)' = PairPointers(C)
                       /\ (Pending(j) <=> j \in pair.left) /\ (Pending(j)' <=> j \in pair'.left)
  BY <1>7, <1>9, <1>12, <1>13, TogetherTurn
<1>15. ScriptInv'
  <2>1. pair'.stage # "none" => pair.stage # "none"
    BY <1>4
  <2> QED
    BY <1>2, <1>14, <2>1, TurnOfScript DEF GestureInv
<1>16. PairInv'
  <2>1. \A l, k : Finishing(l, k)' <=> Finishing(l, k)
    BY <1>7 DEF Finishing
  <2>2. \E l \in pair'.left : \A k \in 1..Steps : ~Finishing(l, k)'
    BY <1>5, <1>7, <2>1
  <2>3. pair' = [stage |-> pair'.stage, step |-> pair'.step, left |-> pair'.left, all |-> pair'.all]
    BY <1>6
  <2> QED
    BY <1>4, <1>5, <1>7, <2>2, <2>3 DEF PairInv
<1>17. \A j \in C : RunnerFits(j)'
  BY <1>7, <1>10, <1>12, <1>14 DEF RunnerFits
<1>18. \A h \in Calls : h.owner = Together => h.todo = <<>>
  BY <1>2, <1>3 DEF CallsOf
<1>19. \A j \in C \cap TimeLines : \A p \in Pointers :
           Owed(j, p) => IsOwed(Pressed(j, p))' \/ Releases(S, j, p)
  <2> SUFFICES ASSUME NEW j \in C, NEW p \in Pointers, Owed(j, p) PROVE Owed(j, p)'
    BY <1>14 DEF IsOwed
  <2>1. runner'[j].stage # "none"
    BY <1>10, <1>12
  <2>2. Coming(j) => f.then = "moving"
    BY <1>2, <1>3, <1>4, <1>14 DEF Coming
  <2>3. f.then = "moving" => Coming(j)'
    BY <1>7, <1>11, <1>14 DEF Coming
  <2> QED
    BY <1>7, <1>14, <2>1, <2>2, <2>3 DEF Owed
<1>20. \A j \in C : \A p \in {"touch", "mouse"} : RestFits(j, p)'
  <2> SUFFICES ASSUME NEW j \in C, NEW p \in {"touch", "mouse"} PROVE RestFits(j, p)'
    OBVIOUS
  <2>1. RestFits(j, p)
    BY <1>12, TogetherIs
  <2>2. ~told[j][p].rest /\ (told[j][p].what = "move" => p \in PointersOf(j)')
    BY <2>1, <1>14 DEF RestFits
  <2>3. \A h \in CallsOf(Owner(j))' : \A m \in DOMAIN h.todo : ~Says(h.todo[m], j, "move")
    BY <1>11, <1>14
  <2>4. Goes(j)' => Goes(j)
    BY <1>3, <1>4, <1>7, <1>11, <1>14 DEF Goes
  <2>5. Goes(j) => TellsNow(j, p)
    BY <1>2, <1>3, <1>14, TellsWhileGoing
  <2>6. TellsNow(j, p) /\ told[j][p].what = "move" =>
            Remembers(j)' /\ told[j][p].points = PointsNow(j, p)'
    BY <1>10, <1>12 DEF TellsNow, Remembers, PointsNow, Previous, PointsAt
  <2> QED
    BY <1>2, <1>14, <2>2, <2>3, <2>4, <2>5, <2>6, StillFits
<1>21. /\ \A h \in S : CallFits(h)'
       /\ \A h \in S : \A m \in DOMAIN h.todo : PartsFit(h.owner, h.todo[m])'
       /\ \A h \in S : \A m \in DOMAIN h.todo : \A j \in Ids :
             Says(h.todo[m], j, "press") => PressFits(h.todo, m, j)'
       /\ \A h \in S : h.then = "finished" =>
             \A j \in TimeLines : h.owner = Owner(j)' /\ Pending(j)' => Remembers(j)'
  BY <1>11
<1>22. \A j \in C \ TimeLines : j \in Started' <=> j \in Started
  BY <1>14
<1> QED
  BY <1>2, <1>14, <1>15, <1>16, <1>17, <1>18, <1>19, <1>20, <1>21, <1>22, OrdinaryTurn

(* Where a command goes now, and was told to be, is no news to it.         *)
LEMMA NewsIs ==
    ASSUME NEW j, NEW p, TellsNow(j, p), told[j][p].what = "move", NEW at, NEW points,
           points = [at |-> at, last |-> runner[j].last, from |-> Start(Command[j])]
    PROVE  (points = runner[j].previous) <=> at = At(Command[j], runner[j].step)
  BY DEF TellsNow, Remembers, Previous, PointsAt

LEMMA ConcatHas ==
    ASSUME NEW s, NEW t, IsSequence(s), IsSequence(t)
    PROVE  \A n \in DOMAIN t : \E m \in DOMAIN (s \o t) : (s \o t)[m] = t[n]
<1>1. \A n \in DOMAIN t : Len(s) + n \in DOMAIN (s \o t) /\ (s \o t)[Len(s) + n] = t[n]
  BY ConcatIs
<1> QED
  BY ONLY <1>1, Zenon

(* The time line of several gestures is at its end: those that are left    *)
(* move to their end and are released.                                     *)
LEMMA FinishedTogetherKeeps ==
    ASSUME GestureInv, Return, Last(frames).owner = Together, Last(frames).then = "finished"
    PROVE  GestureInv'
<1>1. PICK f : f = Last(frames)
  OBVIOUS
<1>2. /\ frames # <<>> /\ f.todo = <<>> /\ f.owner = Together /\ f.then = "finished" /\ Finished(f)
      /\ UNCHANGED <<script, runner, pair, tapScreen, down, told>>
  BY <1>1 DEF Return, Finished
<1>3. f \in Calls /\ CallsOf(Together) = {f} /\ CallFits(f) /\ StackInv
  BY <1>1, <1>2, InnermostIs
<1>4. /\ pair.stage \in {"starting", "moving"}
      /\ f = [owner |-> Together, todo |-> f.todo, then |-> f.then, sent |-> f.sent]
  BY <1>2, <1>3, GestureAssumption DEF CallFits, TimeLines
<1>5. PICK C : C = pair.all
  OBVIOUS
<1>6. PICK left : left = pair.left
  OBVIOUS
<1>7. left \subseteq C /\ C \subseteq TimeLines /\ TimeLines \subseteq Ids /\ IsFiniteSet(C)
  BY <1>5, <1>6 DEF GestureInv, PairInv, TimeLines
<1>8. PICK screen \in BOOLEAN : screen = Screen(C)
  BY DEF Screen
<1>9. PICK far : far = {j \in left : EndPoints(j) # runner[j].previous}
  OBVIOUS
<1>10. PICK moves : moves = {Part(j, "move", End(Command[j])) : j \in far}
  OBVIOUS
<1>11. PICK done : done = {j \in left : Command[j].release}
  OBVIOUS
<1>12. PICK releases : releases = {Part(j, "release", End(Command[j])) : j \in done}
  OBVIOUS
<1>13. PICK t : t = Command[CHOOSE i \in pair.left : TRUE].target
  OBVIOUS
<1>14. PICK a : a = Touch(t, "move", moves, screen)
  OBVIOUS
<1>15. PICK b : b = Touch(t, "release", releases, screen)
  OBVIOUS
<1>16. PICK todo : todo = a \o b
  OBVIOUS
<1>17. AtEnd(Together) = todo
  <2>1. ReleaseParts(pair.left) = releases
    BY <1>6, <1>11, <1>12 DEF ReleaseParts
  <2>2. moves = {Part(i, "move", End(Command[i])) :
                   i \in {j \in pair.left : EndPoints(j) # runner[j].previous}}
    BY <1>6, <1>9, <1>10
  <2> QED
    BY <2>1, <2>2, <1>5, <1>8, <1>13, <1>14, <1>15, <1>16, Zenon DEF AtEnd
<1>18. PICK g : /\ g = [owner |-> Together, todo |-> todo, then |-> "over", sent |-> FALSE]
                /\ CallsChange(Together, {g})
  <2>1. PICK g : g = [owner |-> Together, todo |-> todo, then |-> "over", sent |-> FALSE]
    OBVIOUS
  <2>2. frames' = Append(Front(frames), Going(f, todo, "over"))
    <3>1. frames' = Append(Front(frames), [f EXCEPT !.todo = AtEnd(f.owner), !.sent = FALSE,
                                           !.then = IF FALSE THEN "pausing" ELSE "over"])
      BY <1>2 DEF Finished
    <3> QED
      BY <3>1, <1>2, <1>17 DEF Going
  <2>3. Going(f, todo, "over") = g
    BY <2>1, <1>4, GoesOnWith
  <2>4. frames' = Append(Front(frames), g) /\ g.owner = Together /\ Last(frames).owner = Together
    <3>1. frames' = Append(Front(frames), g)
      BY <2>2, <2>3, Zenon
    <3>2. g.owner = Together
      BY <2>1
    <3>3. Last(frames).owner = Together
      OBVIOUS
    <3> QED
      BY <3>1, <3>2, <3>3
  <2>5. CallsChange(g.owner, {g})
    BY <2>4, <1>2, <1>3, Replaced
  <2> QED
    BY <2>1, <2>4, <2>5
<1>19. PICK S : S = {g}
  OBVIOUS
<1>20. CallsChange(Together, S) /\ \A h \in S : h.owner = Together /\ h.todo = todo /\ h.then = "over"
  BY <1>18, <1>19
<1>21. DOMAIN runner' = Ids /\ \A j \in Ids \ pair.all : runner'[j] = runner[j]
  BY <1>2 DEF GestureInv, RunnerInv
<1>22. /\ TurnOf(Together, S, C) /\ CallsOf(Together)' = S
       /\ \A j \in C : /\ j \in TimeLines /\ j \in Ids /\ ~Fresh(j)
                       /\ Owner(j) = Together /\ Owner(j)' = Together
                       /\ PointersOf(j) = PairPointers(C) /\ PointersOf(j)' = PairPointers(C)
                       /\ (Pending(j) <=> j \in left)
  BY <1>2, <1>5, <1>6, <1>20, <1>21, TogetherTurn
<1>23. /\ TouchBy(a, "move", moves, screen) /\ TouchBy(b, "release", releases, screen)
       /\ \A x \in moves : x.of \in far /\ x.what = "move" /\ x.points = End(Command[x.of])
       /\ \A x \in releases : x.of \in done /\ x.what = "release"
       /\ \A j \in done : \E x \in releases : x.of = j
  <2>1. far \in SUBSET TimeLines /\ done \in SUBSET TimeLines
    BY <1>7, <1>9, <1>11
  <2>2. \A j \in TimeLines : PointsFit(End(Command[j]))
    BY EndsFit
  <2>3. /\ \A x \in moves : x.of \in far /\ x.what = "move" /\ x.points = End(Command[x.of]) /\ PointsFit(x.points)
        /\ \A x, y \in moves : x.of = y.of => x = y
    BY <2>1, <2>2, <1>10, PartIs
  <2>4. /\ \A x \in releases : x.of \in done /\ x.what = "release" /\ PointsFit(x.points)
        /\ \A x, y \in releases : x.of = y.of => x = y
        /\ \A j \in done : \E x \in releases : x.of = j
    BY <2>1, <2>2, <1>12, PartIs
  <2>5. (\A x \in moves : x.of \in C) /\ (\A x \in releases : x.of \in C)
    BY <2>3, <2>4, <1>7, <1>9, <1>11
  <2>6. TouchBy(a, "move", moves, screen)
    BY <1>7, <1>14, <2>3, <2>5, TouchIs
  <2>7. TouchBy(b, "release", releases, screen)
    BY <1>7, <1>15, <2>4, <2>5, TouchIs
  <2> QED
    BY <2>3, <2>4, <2>6, <2>7
<1>24. IsSequence(a) /\ IsSequence(b) /\ ScreenBy(screen) = PairPointers(C)
  BY <1>8, <1>23 DEF TouchBy, ScreenBy, PairPointers
<1>25. /\ IsSequence(todo)
       /\ \A m \in DOMAIN todo : \/ m \in DOMAIN a /\ todo[m] = a[m]
                                 \/ \E n \in DOMAIN b : todo[m] = b[n]
       /\ \A n \in DOMAIN b : \E m \in DOMAIN todo : todo[m] = b[n]
  <2>2. \A n \in DOMAIN b : \E m \in DOMAIN todo : todo[m] = b[n]
    BY <1>16, <1>24, ConcatHas
  <2> QED
    BY <2>2, <1>16, <1>24, ConcatIs
<1>26. /\ \A m \in DOMAIN a : /\ a[m].by \in PairPointers(C)
                              /\ \A y \in a[m].parts : y.of \in C /\ y.what = "move"
                              /\ \A y, z \in a[m].parts : y.of = z.of => y = z
       /\ \A m \in DOMAIN b : /\ b[m].by \in PairPointers(C)
                              /\ \A y \in b[m].parts : y.of \in C /\ y.what = "release"
                              /\ \A y, z \in b[m].parts : y.of = z.of => y = z
  BY <1>7, <1>9, <1>11, <1>23, <1>24 DEF TouchBy
<1>27. \A m \in DOMAIN todo : /\ todo[m].by \in PairPointers(C)
                              /\ \A y \in todo[m].parts : y.of \in C /\ y.what # "press"
                              /\ \A y, z \in todo[m].parts : y.of = z.of => y = z
  BY <1>25, <1>26
<1>28. PairPointers(C) \subseteq Pointers
  BY DEF PairPointers, Pointers
<1>29. ScriptInv'
  <2>1. pair'.stage # "none" => pair.stage # "none"
    BY <1>2
  <2> QED
    BY <1>2, <1>22, <2>1, TurnOfScript DEF GestureInv
<1>30. PairInv'
  <2>1. CallsOf(Together)' # {}
    BY <1>19, <1>22
  <2> QED
    BY <1>2, <2>1 DEF GestureInv, PairInv, Finishing
<1>31. \A j \in C : RunnerFits(j)'
  BY <1>2, <1>5, <1>22, TogetherIs DEF RunnerFits
<1>32. \A h \in S : CallFits(h)'
  <2>1. CallFits(g)'
    BY <1>2, <1>4, <1>18, <1>25 DEF CallFits
  <2> QED
    BY <2>1, <1>19
<1>33. \A h \in S : \A m \in DOMAIN h.todo : PartsFit(h.owner, h.todo[m])'
  <2>1. \A m \in DOMAIN todo : PartsFit(Together, todo[m])'
    BY <1>22, <1>27, <1>28 DEF PartsFit
  <2> QED
    BY <2>1, <1>20
<1>34. \A h \in S : \A m \in DOMAIN h.todo : \A j \in Ids :
           Says(h.todo[m], j, "press") => PressFits(h.todo, m, j)'
  BY <1>20, <1>27 DEF Says
<1>35. \A j \in C \cap TimeLines : \A p \in Pointers :
           Owed(j, p) => IsOwed(Pressed(j, p))' \/ Releases(S, j, p)
  <2> SUFFICES ASSUME NEW j \in C, NEW p \in Pointers, Owed(j, p)
               PROVE  IsOwed(Pressed(j, p))' \/ Releases(S, j, p)
    OBVIOUS
  <2>1. CASE ~Command[j].release
    <3>1. Owed(j, p)'
      BY <2>1, <1>2 DEF Owed
    <3> QED
      BY <3>1, <1>22 DEF IsOwed
  <2>2. CASE Command[j].release
    <3>1. j \in done /\ p \in PairPointers(C)
      BY <2>2, <1>11, <1>22 DEF Owed
    <3>2. PICK x \in releases : x.of = j
      BY <3>1, <1>23
    <3>3. CASE ~screen
      <4>1. 1 \in DOMAIN b /\ b[1].parts = releases /\ b[1].by = p
        BY <3>1, <3>3, <1>23, <1>24 DEF TouchBy, ScreenBy
      <4>2. Says(b[1], j, "release") /\ SameWay(p, b[1].by)
        BY <3>2, <4>1, <1>23 DEF Says, SameWay
      <4>3. PICK m \in DOMAIN todo : todo[m] = b[1]
        BY <4>1, <1>25
      <4> QED
        BY <4>2, <4>3, <1>19, <1>20 DEF Releases
    <3>4. CASE screen
      <4>1. PICK n \in DOMAIN b : \E y \in releases : Says(b[n], y.of, "release")
        BY <3>2, <3>4, <1>23 DEF TouchBy
      <4>2. PICK y \in releases : Says(b[n], y.of, "release")
        BY <4>1
      <4>3. y.of \in TimeLines
        BY <1>7, <1>11, <1>23
      <4>4. {p, b[n].by} \subseteq {"screen", "screen2"}
        BY <3>1, <3>4, <1>24, <1>26 DEF ScreenBy
      <4>5. PICK m \in DOMAIN todo : todo[m] = b[n]
        BY <4>1, <1>25
      <4> QED
        BY <4>2, <4>3, <4>4, <4>5, <1>19, <1>20 DEF Releases
    <3> QED
      BY <3>3, <3>4
  <2> QED
    BY <2>1, <2>2
<1>36. \A j \in C : ~Goes(j)'
  <2>1. S # {} /\ \A h \in S : h.then = "over"
    BY <1>19, <1>20
  <2> QED
    BY <2>1, <1>22 DEF Goes
<1>37. \A j \in C : \A p \in {"touch", "mouse"} : RestFits(j, p)'
  <2> SUFFICES ASSUME NEW j \in C, NEW p \in {"touch", "mouse"} PROVE RestFits(j, p)'
    OBVIOUS
  <2>1. RestFits(j, p)
    BY <1>5, TogetherIs
  <2>2. CASE p \notin PairPointers(C)
    <3>1. \A h \in CallsOf(Owner(j))' : \A m \in DOMAIN h.todo : h.todo[m].by # p
      BY <2>2, <1>20, <1>22, <1>27
    <3> QED
      BY <2>1, <2>2, <3>1, <1>2, <1>22, ElsewhereStill
  <2>3. CASE p \in PairPointers(C)
    <3>1. ~screen /\ DOMAIN a = {1} /\ a[1].parts = moves
      BY <2>3, <1>23, <1>24 DEF TouchBy, ScreenBy
    <3>2. p = "touch"
      BY <2>3, <3>1, <1>24 DEF ScreenBy
    <3>3. ASSUME NEW x \in moves, x.of = j, told[j][p].what = "move"
          PROVE  told[j][p].points # x.points
      <4>1. j \in left /\ EndPoints(j) # runner[j].previous /\ x.points = End(Command[j])
        BY <3>3, <1>9, <1>23
      <4>2. Goes(j)
        BY <4>1, <1>2, <1>3, <1>22 DEF Goes
      <4>3. TellsNow(j, p)
        BY <4>2, <1>2, <1>3, <1>22, TellsWhileGoing
      <4>4. PICK at : at = End(Command[j])
        OBVIOUS
      <4>5. EndPoints(j) = [at |-> at, last |-> runner[j].last, from |-> Start(Command[j])]
        BY <4>4 DEF EndPoints
      <4>6. at # At(Command[j], runner[j].step)
        BY <3>3, <4>1, <4>3, <4>5, NewsIs
      <4> QED
        BY <3>2, <3>3, <4>1, <4>3, <4>4, <4>6 DEF TellsNow, PointsNow, View
    <3>4. MoveFits(j, p, a)'
      BY <1>2, <1>22, <1>36, <2>3, <3>1, <3>3 DEF MoveFits
    <3>5. \A m \in DOMAIN b : ~Says(b[m], j, "move")
      BY <1>26 DEF Says
    <3>6. MoveFits(j, p, todo)'
      BY <1>16, <1>24, <1>36, <3>4, <3>5, ConcatMovesFitThen
    <3>7. ~told'[j][p].rest /\ (told'[j][p].what = "move" => p \in PointersOf(j)')
      BY <2>1, <2>3, <1>2, <1>22 DEF RestFits
    <3> QED
      BY <1>20, <1>22, <1>36, <3>6, <3>7 DEF RestFits
  <2> QED
    BY <2>2, <2>3
<1>38. \A h \in S : h.then = "finished" =>
           \A j \in TimeLines : h.owner = Owner(j)' /\ Pending(j)' => Remembers(j)'
  BY <1>20
<1>39. \A h \in Calls : h.owner = Together => h.todo = <<>>
  BY <1>2, <1>3 DEF CallsOf
<1>40. \A j \in C \ TimeLines : j \in Started' <=> j \in Started
  BY <1>7
<1> QED
  BY <1>2, <1>22, <1>29, <1>30, <1>31, <1>32, <1>33, <1>34, <1>35, <1>37, <1>38, <1>39, <1>40, OrdinaryTurn

(* What a step of the time line makes of the gestures together: some are   *)
(* done, some of the others move.                                          *)
StepIs(k, C, left, done, step, moving, moves) ==
    /\ C = pair.all /\ left = pair.left /\ left \subseteq C
    /\ done = {i \in left : Finishing(i, k)}
    /\ step = [j \in C |-> k * Multiplier(j, C)]
    /\ moving = {i \in left \ done : PointsAt(i, step[i], runner[i].last) # runner[i].previous}
    /\ moves = {Part(i, "move", At(Command[i], step[i])) : i \in moving}

LEMMA GesturesMove ==
    ASSUME NEW k, GesturesTimerEvent(k), NEW C, NEW left, NEW done, NEW step, NEW moving, NEW moves,
           StepIs(k, C, left, done, step, moving, moves)
    PROVE  /\ \E t : Call(Together, Touch(t, "move", moves \cup ReleaseParts(done), Screen(C)),
                          IF k = Steps THEN "finished" ELSE "moving")
           /\ pair' = [pair EXCEPT !.step = k, !.left = left \ done]
           /\ runner' = [i \in Ids |-> IF i \in done THEN [runner[i] EXCEPT !.stage = "over"]
                                       ELSE IF i \in left THEN Moved(i, step[i])
                                       ELSE runner[i]]
           /\ UNCHANGED <<script, tapScreen, down, told>>
           /\ CallsOf(Together) = {} /\ pair.stage = "moving"
<1>0. /\ C = pair.all /\ left = pair.left /\ left \subseteq C
      /\ done = {i \in left : Finishing(i, k)}
      /\ step = [j \in C |-> k * Multiplier(j, C)]
      /\ moving = {i \in left \ done : PointsAt(i, step[i], runner[i].last) # runner[i].previous}
      /\ moves = {Part(i, "move", At(Command[i], step[i])) : i \in moving}
  BY DEF StepIs
<1>1. PICK dn \in {{i \in pair.left : Finishing(i, k)}} :
          /\ \E i \in pair.left :
                Call(Together, Touch(Command[i].target, "move",
                         {Part(j, "move", At(Command[j], k * Multiplier(j, pair.all))) :
                             j \in {j \in pair.left \ dn :
                                 PointsAt(j, k * Multiplier(j, pair.all), runner[j].last) # runner[j].previous}}
                         \cup ReleaseParts(dn), Screen(pair.all)),
                     IF k = Steps THEN "finished" ELSE "moving")
          /\ pair' = [pair EXCEPT !.step = k, !.left = @ \ dn]
          /\ runner' = [i \in Ids |-> IF i \in dn THEN [runner[i] EXCEPT !.stage = "over"]
                                      ELSE IF i \in pair.left THEN Moved(i, k * Multiplier(i, pair.all))
                                      ELSE runner[i]]
  BY Zenon DEF GesturesTimerEvent
<1>2. dn = done
  BY <1>0, <1>1
<1>3. \A j \in left : step[j] = k * Multiplier(j, pair.all)
  BY <1>0
<1>4. moving = {j \in pair.left \ dn :
                   PointsAt(j, k * Multiplier(j, pair.all), runner[j].last) # runner[j].previous}
  BY <1>0, <1>2, <1>3
<1>5. moving \subseteq left
  BY <1>0
<1>6. moves = {Part(j, "move", At(Command[j], k * Multiplier(j, pair.all))) : j \in moving}
  BY <1>0, <1>3, <1>5
<1>7. \E t : Call(Together, Touch(t, "move", moves \cup ReleaseParts(done), Screen(C)),
                  IF k = Steps THEN "finished" ELSE "moving")
  <2>1. PICK ms : ms = {Part(j, "move", At(Command[j], k * Multiplier(j, pair.all))) :
                             j \in {j \in pair.left \ dn :
                                 PointsAt(j, k * Multiplier(j, pair.all), runner[j].last) # runner[j].previous}}
    OBVIOUS
  <2>2. ms = moves
    BY <1>4, <1>6, <2>1
  <2>3. \E i \in pair.left : Call(Together, Touch(Command[i].target, "move", ms \cup ReleaseParts(dn),
                                                 Screen(pair.all)), IF k = Steps THEN "finished" ELSE "moving")
    BY <1>1, <2>1, Zenon
  <2> QED
    BY <1>0, <1>2, <2>2, <2>3, Zenon
<1>8. runner' = [i \in Ids |-> IF i \in done THEN [runner[i] EXCEPT !.stage = "over"]
                               ELSE IF i \in left THEN Moved(i, step[i])
                               ELSE runner[i]]
  BY <1>0, <1>1, <1>2, <1>3
<1>9. pair' = [pair EXCEPT !.step = k, !.left = left \ done]
  BY <1>0, <1>1, <1>2
<1>10. CallsOf(Together) = {} /\ pair.stage = "moving" /\ UNCHANGED <<script, tapScreen, down, told>>
  BY NotRunning DEF GesturesTimerEvent
<1> QED
  BY <1>7, <1>8, <1>9, <1>10

(* A step of the time line of several gestures: those beyond their end are *)
(* released. By the screen they are not, but one that is left will release *)
(* it.                                                                     *)
LEMMA GesturesTimerEventKeeps ==
    ASSUME GestureInv, NEW k \in 1..Steps, GesturesTimerEvent(k)
    PROVE  GestureInv'
<1>1. PICK C : C = pair.all
  OBVIOUS
<1>2. PICK left : left = pair.left
  OBVIOUS
<1>3. PICK done : done = {i \in left : Finishing(i, k)}
  OBVIOUS
<1>4. PICK step : step = [j \in C |-> k * Multiplier(j, C)]
  OBVIOUS
<1>5. PICK moving : moving = {i \in left \ done : PointsAt(i, step[i], runner[i].last) # runner[i].previous}
  OBVIOUS
<1>6. PICK moves : moves = {Part(i, "move", At(Command[i], step[i])) : i \in moving}
  OBVIOUS
<1>7. PICK released : released = {i \in done : Command[i].release}
  OBVIOUS
<1>8. PICK releases : releases = {Part(i, "release", End(Command[i])) : i \in released}
  OBVIOUS
<1>9. PICK screen \in BOOLEAN : screen = Screen(C)
  BY DEF Screen
<1>10. left \subseteq C /\ C \subseteq TimeLines /\ TimeLines \subseteq Ids /\ IsFiniteSet(C)
  BY <1>1, <1>2 DEF GestureInv, PairInv, TimeLines
<1>11. /\ \E t : Call(Together, Touch(t, "move", moves \cup ReleaseParts(done), Screen(C)),
                      IF k = Steps THEN "finished" ELSE "moving")
       /\ pair' = [pair EXCEPT !.step = k, !.left = left \ done]
       /\ runner' = [i \in Ids |-> IF i \in done THEN [runner[i] EXCEPT !.stage = "over"]
                                   ELSE IF i \in left THEN Moved(i, step[i])
                                   ELSE runner[i]]
       /\ UNCHANGED <<script, tapScreen, down, told>>
       /\ CallsOf(Together) = {} /\ pair.stage = "moving"
  <2>1. StepIs(k, C, left, done, step, moving, moves)
    BY <1>1, <1>2, <1>3, <1>4, <1>5, <1>6, <1>10 DEF StepIs
  <2> QED
    BY <2>1, GesturesMove
<1>12. ReleaseParts(done) = releases
  BY <1>7, <1>8 DEF ReleaseParts
<1>13. PICK parts : parts = moves \cup releases
  OBVIOUS
<1>14. PICK t : Call(Together, Touch(t, "move", parts, screen), IF k = Steps THEN "finished" ELSE "moving")
  BY <1>9, <1>11, <1>12, <1>13, Zenon
<1>15. PICK todo : todo = Touch(t, "move", parts, screen)
  OBVIOUS
<1>16. PICK then : then = IF k = Steps THEN "finished" ELSE "moving"
  OBVIOUS
<1>17. PICK g : /\ g = [owner |-> Together, todo |-> todo, then |-> then, sent |-> FALSE]
                /\ CallsChange(Together, {g})
  <2>1. Call(Together, todo, then)
    BY <1>14, <1>15, <1>16, Zenon
  <2> QED
    BY <2>1, <1>11, SoloPushed
<1>18. PICK S : S = {g}
  OBVIOUS
<1>19. /\ CallsChange(Together, S) /\ S # {}
       /\ \A h \in S : h.owner = Together /\ h.todo = todo /\ h.then = then
       /\ then \in {"moving", "finished"}
  BY <1>16, <1>17, <1>18
<1>20. pair' = [stage |-> "moving", step |-> k, left |-> left \ done, all |-> C]
  <2>1. pair = [stage |-> pair.stage, step |-> pair.step, left |-> pair.left, all |-> pair.all]
    BY DEF GestureInv, PairInv
  <2> QED
    BY <2>1, <1>1, <1>11
<1>21. /\ pair'.stage = "moving" /\ pair'.left = left \ done /\ pair'.all = C
       /\ pair' = [stage |-> pair'.stage, step |-> pair'.step, left |-> pair'.left, all |-> pair'.all]
  BY ONLY <1>20
<1>22. DOMAIN runner' = Ids /\ \A j \in Ids \ pair.all : runner'[j] = runner[j]
  BY <1>1, <1>3, <1>10, <1>11
<1>23. /\ TurnOf(Together, S, C) /\ CallsOf(Together)' = S
       /\ \A j \in C : /\ j \in TimeLines /\ j \in Ids /\ ~Fresh(j)
                       /\ Owner(j) = Together /\ Owner(j)' = Together
                       /\ Stage(j) = "moving" /\ Stage(j)' = "moving"
                       /\ PointersOf(j) = PairPointers(C) /\ PointersOf(j)' = PairPointers(C)
                       /\ (Pending(j) <=> j \in left) /\ (Pending(j)' <=> j \in left \ done)
  <2>1. /\ TurnOf(Together, S, C) /\ CallsOf(Together)' = S
        /\ \A j \in C : /\ j \in TimeLines /\ j \in Ids /\ ~Fresh(j)
                        /\ Owner(j) = Together /\ Owner(j)' = Together
                        /\ Stage(j) = pair.stage /\ Stage(j)' = pair'.stage
                        /\ PointersOf(j) = PairPointers(C) /\ PointersOf(j)' = PairPointers(C)
                        /\ (Pending(j) <=> j \in pair.left) /\ (Pending(j)' <=> j \in pair'.left)
    BY <1>1, <1>19, <1>21, <1>22, TogetherTurn
  <2> QED
    BY <2>1, <1>2, <1>11, <1>21
<1>24. ASSUME NEW j \in C
       PROVE  /\ runner'[j].stage \in {"together", "over"}
              /\ runner'[j] = [stage |-> runner'[j].stage, step |-> runner'[j].step,
                               last |-> runner'[j].last, previous |-> runner'[j].previous,
                               left |-> runner'[j].left]
              /\ j \in left \ done =>
                    /\ runner'[j].step = step[j] /\ runner'[j].last = At(Command[j], step[j])
                    /\ runner'[j].previous = Previous(j, step[j])
  <2>1. /\ j \in Ids /\ runner[j].stage \in {"together", "over"}
        /\ runner[j] = [stage |-> runner[j].stage, step |-> runner[j].step, last |-> runner[j].last,
                        previous |-> runner[j].previous, left |-> runner[j].left]
    BY <1>1, TogetherIs
  <2>2. CASE j \in done
    <3>1. runner'[j] = [stage |-> "over", step |-> runner[j].step, last |-> runner[j].last,
                        previous |-> runner[j].previous, left |-> runner[j].left]
      <4>1. runner'[j] = [runner[j] EXCEPT !.stage = "over"]
        BY <2>1, <2>2, <1>11
      <4> QED
        BY ONLY <2>1, <4>1
    <3>2. /\ runner'[j].stage = "over"
          /\ runner'[j] = [stage |-> runner'[j].stage, step |-> runner'[j].step,
                           last |-> runner'[j].last, previous |-> runner'[j].previous,
                           left |-> runner'[j].left]
      BY ONLY <3>1
    <3> QED
      BY <2>2, <3>2
  <2>3. CASE j \in left \ done
    <3>1. runner'[j] = [stage |-> runner[j].stage, step |-> step[j], last |-> At(Command[j], step[j]),
                        previous |-> Previous(j, step[j]), left |-> runner[j].left]
      <4>1. runner'[j] = Moved(j, step[j])
        BY <2>1, <2>3, <1>11
      <4> QED
        BY ONLY <2>1, <4>1 DEF Moved
    <3>2. /\ runner'[j].stage = runner[j].stage
          /\ runner'[j] = [stage |-> runner'[j].stage, step |-> runner'[j].step,
                           last |-> runner'[j].last, previous |-> runner'[j].previous,
                           left |-> runner'[j].left]
          /\ runner'[j].step = step[j] /\ runner'[j].last = At(Command[j], step[j])
          /\ runner'[j].previous = Previous(j, step[j])
      BY ONLY <3>1
    <3> QED
      BY <2>1, <3>2
  <2>4. CASE j \notin left
    <3>1. runner'[j] = runner[j]
      BY <2>1, <2>4, <1>3, <1>11
    <3> QED
      BY <2>1, <2>4, <3>1
  <2> QED
    BY <2>2, <2>3, <2>4
<1>25. ASSUME NEW j \in left \ done PROVE Remembers(j)'
  BY <1>10, <1>24 DEF Remembers, Previous, PointsAt
<1>26. /\ \A x \in moves : x.of \in moving /\ x.what = "move" /\ x.points = At(Command[x.of], step[x.of])
       /\ \A x, y \in moves : x.of = y.of => x = y
       /\ \A j \in moving : \E x \in moves : x.of = j
  BY <1>6, PartIs
<1>27. /\ \A x \in releases : x.of \in released /\ x.what = "release" /\ x.points = End(Command[x.of])
       /\ \A x, y \in releases : x.of = y.of => x = y
       /\ \A j \in released : \E x \in releases : x.of = j
  BY <1>8, PartIs
<1>28. moving \subseteq left \ done /\ released \subseteq done /\ done \subseteq left
  BY <1>3, <1>5, <1>7
<1>29. TouchBy(todo, "move", parts, screen)
  <2>1. \A x \in parts : x.of \in C
    BY <1>10, <1>13, <1>26, <1>27, <1>28
  <2>2. \A x \in parts : PointsFit(x.points)
    BY <1>10, <1>13, <1>26, <1>27, <1>28, AtFits, EndsFit
  <2>3. \A x, y \in parts : x.of = y.of => x = y
    BY <1>13, <1>26, <1>27, <1>28
  <2> QED
    BY <1>10, <1>15, <2>1, <2>2, <2>3, TouchIs
<1>30. /\ IsSequence(todo) /\ ScreenBy(screen) = PairPointers(C) /\ PairPointers(C) \subseteq Pointers
       /\ \A m \in DOMAIN todo : todo[m].by \in PairPointers(C)
       /\ \A m \in DOMAIN todo : \A y, z \in todo[m].parts : y.of = z.of => y = z
  BY <1>9, <1>29 DEF TouchBy, ScreenBy, PairPointers, Pointers
<1>31. \A m \in DOMAIN todo : \A y \in todo[m].parts : y.of \in C /\ y.what # "press"
  <2>1. \A x \in parts : x.of \in C /\ x.what # "press"
    BY <1>10, <1>13, <1>26, <1>27, <1>28
  <2> QED
    BY <2>1, <1>29 DEF TouchBy
<1>32. ScriptInv'
  <2>1. pair'.stage # "none" => pair.stage # "none"
    BY <1>11
  <2> QED
    BY <1>11, <1>23, <2>1, TurnOfScript DEF GestureInv
<1>33. PICK l \in left \ done : TRUE
  BY <1>2, <1>3, <1>11 DEF GestureInv, PairInv
<1>34. PairInv'
  <2>1. \A j, n : Finishing(j, n)' <=> Finishing(j, n)
    BY <1>1, <1>21 DEF Finishing
  <2>2. PICK j \in left : \A n \in 1..Steps : ~Finishing(j, n)
    BY <1>2, <1>11 DEF GestureInv, PairInv
  <2>3. j \in pair'.left /\ \A n \in 1..Steps : ~Finishing(j, n)'
    BY <2>1, <2>2, <1>3, <1>21
  <2> QED
    BY <2>3, <1>10, <1>21 DEF PairInv
<1>35. \A j \in C : RunnerFits(j)'
  BY <1>10, <1>21, <1>24 DEF RunnerFits
<1>36. \A h \in S : CallFits(h)'
  <2>1. CallFits(g)'
    BY <1>17, <1>19, <1>21, <1>30 DEF CallFits
  <2> QED
    BY <2>1, <1>18
<1>37. \A h \in S : \A m \in DOMAIN h.todo : PartsFit(h.owner, h.todo[m])'
  <2>1. \A m \in DOMAIN todo : PartsFit(Together, todo[m])'
    BY <1>23, <1>30, <1>31 DEF PartsFit
  <2> QED
    BY <2>1, <1>19
<1>38. \A h \in S : \A m \in DOMAIN h.todo : \A j \in Ids :
           Says(h.todo[m], j, "press") => PressFits(h.todo, m, j)'
  BY <1>19, <1>31 DEF Says
<1>39. \A j \in C : Coming(j)' /\ (Goes(j)' <=> j \in left \ done) /\ (Goes(j) <=> j \in left)
  BY <1>11, <1>19, <1>23 DEF Coming, Goes
<1>40. ASSUME NEW j \in C, NEW p \in Pointers, ~Command[j].release \/ (j \in left \ done /\ p \in PairPointers(C))
       PROVE  Owed(j, p)'
  BY <1>23, <1>24, <1>39, <1>40 DEF Owed
<1>41. \A j \in C \cap TimeLines : \A p \in Pointers :
           Owed(j, p) => IsOwed(Pressed(j, p))' \/ Releases(S, j, p)
  <2> SUFFICES ASSUME NEW j \in C, NEW p \in Pointers, Owed(j, p)
               PROVE  IsOwed(Pressed(j, p))' \/ Releases(S, j, p)
    OBVIOUS
  <2>1. CASE ~Command[j].release \/ j \in left \ done
    <3>1. Owed(j, p)'
      BY <2>1, <1>23, <1>40 DEF Owed
    <3> QED
      BY <3>1, <1>23 DEF IsOwed
  <2>2. CASE Command[j].release /\ j \notin left \ done
    <3>1. j \in released /\ p \in PairPointers(C)
      BY <2>2, <1>7, <1>23 DEF Owed
    <3>2. CASE ~screen
      <4>1. PICK x \in releases : x.of = j
        BY <3>1, <1>27
      <4>2. 1 \in DOMAIN todo /\ todo[1].parts = parts /\ todo[1].by = p
        BY <3>1, <3>2, <1>29, <1>30 DEF TouchBy, ScreenBy
      <4>3. Says(todo[1], j, "release") /\ SameWay(p, todo[1].by)
        BY <4>1, <4>2, <1>13, <1>27 DEF Says, SameWay
      <4> QED
        BY <4>2, <4>3, <1>18, <1>19 DEF Releases
    <3>3. CASE screen
      <4>1. p \in {"screen", "screen2"} /\ l \in C /\ l \in TimeLines
        BY <3>1, <3>3, <1>10, <1>30 DEF ScreenBy
      <4>2. Owed(l, p)'
        BY <3>1, <4>1, <1>33, <1>40
      <4>3. Pressed(l, p) = <<"screen", "system">> /\ Pressed(j, p) = <<"screen", "system">>
        BY <4>1, <1>23, PressedOnScreen
      <4>4. Pressed(l, p)' = Pressed(l, p) /\ Pressed(j, p)' = Pressed(j, p)
        BY <4>1, <1>23, PressedStays
      <4>5. Pressed(j, p)' = Pressed(l, p)'
        BY <4>3, <4>4
      <4> QED
        BY <4>1, <4>2, <4>5 DEF IsOwed
    <3> QED
      BY <3>2, <3>3
  <2> QED
    BY <2>1, <2>2
<1>42. \A j \in C : \A p \in {"touch", "mouse"} : RestFits(j, p)'
  <2> SUFFICES ASSUME NEW j \in C, NEW p \in {"touch", "mouse"} PROVE RestFits(j, p)'
    OBVIOUS
  <2>1. RestFits(j, p)
    BY <1>1, TogetherIs
  <2>2. CASE p \notin PairPointers(C)
    <3>1. \A h \in CallsOf(Owner(j))' : \A m \in DOMAIN h.todo : h.todo[m].by # p
      BY <2>2, <1>19, <1>23, <1>30
    <3> QED
      BY <2>1, <2>2, <3>1, <1>11, <1>23, ElsewhereStill
  <2>3. CASE p \in PairPointers(C)
    <3>1. ~screen /\ DOMAIN todo = {1} /\ todo[1].parts = parts /\ todo[1].by = p /\ p = "touch"
      BY <2>3, <1>29, <1>30 DEF TouchBy, ScreenBy
    <3>2. PICK at : at = At(Command[j], step[j])
      OBVIOUS
    <3>3. ASSUME j \in left \ done, told[j][p].what = "move"
          PROVE  /\ j \in moving <=> at # At(Command[j], runner[j].step)
                 /\ told[j][p].points = View(p, At(Command[j], runner[j].step))
      <4>1. TellsNow(j, p)
        BY <3>3, <1>11, <1>23, <1>39, TellsWhileGoing
      <4>2. PICK points : points = PointsAt(j, step[j], runner[j].last)
        OBVIOUS
      <4>3. points = [at |-> at, last |-> runner[j].last, from |-> Start(Command[j])]
        BY <3>2, <4>2 DEF PointsAt
      <4>4. (points = runner[j].previous) <=> at = At(Command[j], runner[j].step)
        BY <3>3, <4>1, <4>3, NewsIs
      <4> QED
        BY <3>3, <4>1, <4>2, <4>4, <1>5 DEF TellsNow, PointsNow
    <3>4. j \in left \ done => Remembers(j)' /\ PointsNow(j, p)' = View(p, at)
      BY <3>2, <1>24, <1>25 DEF PointsNow
    <3>5. ASSUME NEW x \in parts, x.of = j, x.what = "move"
          PROVE  /\ told[j][p].what = "move" => told[j][p].points # x.points
                 /\ Remembers(j)' /\ x.points = PointsNow(j, p)'
      <4>1. j \in moving /\ x.points = at
        BY <3>2, <3>5, <1>13, <1>26, <1>27
      <4> QED
        BY <4>1, <3>1, <3>3, <3>4, <1>28 DEF View
    <3>6. MoveFits(j, p, todo)'
      BY <1>11, <1>23, <2>3, <3>1, <3>5 DEF MoveFits
    <3>7. ASSUME told[j][p].what = "move", Goes(j)', ~IsMove(todo[1], j, p)
          PROVE  Remembers(j)' /\ told[j][p].points = PointsNow(j, p)'
      <4>1. j \in left \ done
        BY <3>7, <1>39
      <4>2. j \notin moving
        BY <3>1, <3>7, <1>13, <1>26 DEF IsMove, Says
      <4> QED
        BY <4>1, <4>2, <3>3, <3>4, <3>7
    <3>8. ~told'[j][p].rest /\ (told'[j][p].what = "move" => p \in PointersOf(j)')
      BY <2>1, <2>3, <1>11, <1>23 DEF RestFits
    <3>9. IsMove(todo[1], j, p)' <=> IsMove(todo[1], j, p)
      BY DEF IsMove, Says
    <3>10. g \in CallsOf(Owner(j))' /\ g.todo = todo /\ 1 \in DOMAIN todo /\ \A h \in CallsOf(Owner(j))' : h.todo = todo
      BY <1>18, <1>19, <1>23, <3>1
    <3> QED
      BY <1>11, <3>6, <3>7, <3>8, <3>9, <3>10 DEF RestFits
  <2> QED
    BY <2>2, <2>3
<1>43. \A h \in S : h.then = "finished" =>
           \A j \in TimeLines : h.owner = Owner(j)' /\ Pending(j)' => Remembers(j)'
  <2> SUFFICES ASSUME NEW j \in TimeLines, Together = Owner(j)', Pending(j)' PROVE Remembers(j)'
    BY <1>19
  <2>1. j \in C
    BY <1>10, <1>21, OwnerIsThen
  <2> QED
    BY <2>1, <1>23, <1>25
<1>44. \A h \in Calls : h.owner = Together => h.todo = <<>>
  BY <1>11 DEF CallsOf
<1>45. \A j \in C \ TimeLines : j \in Started' <=> j \in Started
  BY <1>10
<1> QED
  BY <1>11, <1>23, <1>32, <1>34, <1>35, <1>36, <1>37, <1>38, <1>41, <1>42, <1>43, <1>44, <1>45, OrdinaryTurn

-----------------------------------------------------------------------------
(* All of them.                                                            *)

LEMMA ScriptOfNone == ScriptFits(<<>>)
  BY DEF ScriptFits

(* Nothing was performed yet, and the scripts fit.                         *)
LEMMA GestureInvInit ==
    ASSUME NEW scripts, \A s \in scripts : ScriptFits(s), GestureInit(scripts)
    PROVE  GestureInv
<1>1. /\ ScriptFits(script) /\ runner = [i \in Ids |-> Idle]
      /\ pair = [stage |-> "none", step |-> 0, left |-> {}, all |-> {}]
      /\ frames = <<>> /\ tapScreen = FALSE /\ down = {}
      /\ told = [i \in Ids |-> [p \in Pointers |-> Silence]]
  BY DEF GestureInit
<1>2. pair.stage = "none" /\ pair.left = {} /\ pair.all = {}
      /\ pair = [stage |-> pair.stage, step |-> pair.step, left |-> pair.left, all |-> pair.all]
  BY ONLY <1>1
<1>3. Calls = {} /\ IsSequence(frames) /\ DOMAIN frames = {} /\ \A o : CallsOf(o) = {}
  <2>1. Calls = {} /\ IsSequence(frames) /\ DOMAIN frames = {}
    BY <1>1, NoneIn DEF Calls, Range
  <2> QED
    BY <2>1 DEF CallsOf
<1>4. \A i \in Ids : /\ runner[i].stage = "none"
                     /\ runner[i] = [stage |-> runner[i].stage, step |-> runner[i].step, last |-> runner[i].last,
                                     previous |-> runner[i].previous, left |-> runner[i].left]
  <2>1. \A i \in Ids : runner[i] = [stage |-> "none", step |-> 0, last |-> <<>>, previous |-> <<>>, left |-> 0]
    BY <1>1 DEF Idle
  <2> QED
    BY ONLY <2>1
<1>5. \A i \in Ids : \A p \in Pointers : told[i][p].what = "nothing" /\ told[i][p].rest = FALSE
  BY <1>1 DEF Silence
<1>6. \A i \in Ids : Fresh(i)
  BY <1>2, <1>3, <1>4, <1>5 DEF Fresh
<1>7. ScriptInv
  <2>1. \A n \in DOMAIN script : script[n] \subseteq Ids
    BY <1>1 DEF ScriptFits
  <2> QED
    BY <1>1, <1>2, <1>6, <2>1 DEF ScriptInv
<1>8. RunnerInv
  BY <1>1, <1>2, <1>3, <1>4 DEF RunnerInv, RunnerFits
<1>9. PairInv
  BY <1>2, FS_EmptySet DEF PairInv
<1>10. CallsInv /\ PartsInv /\ PressInv
  BY <1>3 DEF CallsInv, StackInv, PartsInv, PressInv
<1>11. TapInv
  BY <1>3, <1>4 DEF TapInv, Started
<1>12. DownInv
  BY <1>1 DEF DownInv
<1>13. RestInv
  <2>1. \A i \in Ids, p \in {"touch", "mouse"} : RestFits(i, p)
    BY <1>3, <1>5 DEF RestFits, Pointers
  <2>2. told = [i \in Ids |-> [p \in Pointers |-> told[i][p]]]
    BY <1>1
  <2> QED
    BY <1>3, <2>1, <2>2 DEF RestInv
<1> QED
  BY <1>7, <1>8, <1>9, <1>10, <1>11, <1>12, <1>13 DEF GestureInv

(* Every step of the gestures, by its kind.                                *)
LEMMA GestureNextKeeps ==
    ASSUME GestureInv, GestureNext
    PROVE  GestureInv'
<1>1. CASE \E i \in TimeLines : StartGesture(i) \/ ReleaseMouse(i)
  BY <1>1, StartGestureKeeps, ReleaseMouseKeeps
<1>2. CASE \E i \in TimeLines, k \in 1..Steps : GestureTimerEvent(i, k)
  BY <1>2, GestureTimerEventKeeps
<1>3. CASE StartGestures
  BY <1>3, StartGesturesKeeps
<1>4. CASE \E k \in 1..Steps : GesturesTimerEvent(k)
  BY <1>4, GesturesTimerEventKeeps
<1>5. CASE \E i \in Ids \ TimeLines : Tap(i) \/ TapperTap(i)
  BY <1>5, TapKeeps, TapperTapKeeps
<1>6. CASE Send
  BY <1>6, SendKeeps
<1>7. CASE Return
  <2>1. CASE Last(frames).owner = Together /\ Last(frames).then = "finished"
    BY <1>7, <2>1, FinishedTogetherKeeps
  <2>2. CASE Last(frames).owner = Together /\ Last(frames).then # "finished"
    BY <1>7, <2>2, ReturnedTogetherKeeps
  <2>3. CASE Last(frames).owner # Together /\ Last(frames).then = "finished"
    BY <1>7, <2>3, FinishedAloneKeeps
  <2>4. CASE Last(frames).owner # Together /\ Last(frames).then # "finished"
    BY <1>7, <2>4, ReturnedAloneKeeps
  <2> QED
    BY <2>1, <2>2, <2>3, <2>4
<1> QED
  BY <1>1, <1>2, <1>3, <1>4, <1>5, <1>6, <1>7 DEF GestureNext

(* The gestures share only the widgets with the other services: their      *)
(* steps are no steps of the gestures.                                     *)
LEMMA GestureInvStep == GestureInv /\ [Next]_vars => GestureInv'
<1> SUFFICES ASSUME GestureInv, [Next]_vars PROVE GestureInv'
  OBVIOUS
<1>1. CASE Gesture
  BY <1>1, GestureNextKeeps DEF Gesture
<1>2. CASE UNCHANGED gestures
  BY <1>2, GestureStutters
<1>3. CASE Request \/ Step \/ Logging \/ ApplicationStep \/ UNCHANGED vars
  BY <1>3, <1>2 DEF Request, Step, Logging, ApplicationStep, services, vars
<1> QED
  BY <1>1, <1>3 DEF Next

(* When all is over, nothing is on its way to a release any more: what is  *)
(* still pressed is so by a gesture that was not to release.               *)
LEMMA OverIsReleased ==
    ASSUME GestureInv, Over, TapsAgree, NEW d \in down
    PROVE  \E p \in Pointers, i \in TimeLines :
               runner[i].stage = "over" /\ ~Command[i].release /\ d = Pressed(i, p)
<1>1. /\ frames = <<>> /\ pair.stage \in {"none", "over"}
      /\ \A i \in Ids : runner[i].stage \in {"none", "over"}
  BY DEF Over
<1>2. Calls = {} /\ \A o : CallsOf(o) = {}
  <2>1. Calls = {}
    BY <1>1, NoneIn DEF Calls, Range
  <2> QED
    BY <2>1 DEF CallsOf
<1>3. Agree
  BY <1>1, <1>2 DEF Agree, Started, TapsAgree
<1>4. ~IsSent(d)
  BY <1>2 DEF IsSent
<1>5. PICK i \in TimeLines, p \in Pointers : d = Pressed(i, p) /\ Owed(i, p)
  BY <1>3, <1>4 DEF GestureInv, DownInv, IsOwed
<1>6. i \in Ids
  BY <1>5 DEF TimeLines
<1>7. ~Coming(i)
  BY <1>1, <1>2, <1>6 DEF Coming, Stage
<1>8. ~Command[i].release /\ runner[i].stage # "none"
  BY <1>5, <1>7 DEF Owed
<1> QED
  BY <1>1, <1>5, <1>6, <1>8

LEMMA GesturesAreTrueThen == GestureInv => GesturesAreTrue
<1> SUFFICES ASSUME GestureInv PROVE GesturesAreTrue
  OBVIOUS
<1>1. NeverRests
  BY DEF GestureInv, RestInv, RestFits, NeverRests
<1>2. NothingLeftDown
  <2> SUFFICES ASSUME Over, TapsAgree, NEW d \in down
               PROVE  \E p \in Pointers, i \in {j \in TimeLines : runner[j].stage = "over" /\ ~Command[j].release} :
                          d = Pressed(i, p)
    BY DEF NothingLeftDown
  <2>1. PICK p \in Pointers, i \in TimeLines :
            runner[i].stage = "over" /\ ~Command[i].release /\ d = Pressed(i, p)
    BY OverIsReleased
  <2> QED
    BY <2>1
<1> QED
  BY <1>1, <1>2 DEF GesturesAreTrue

LEMMA GestureInvStart == Init => GestureInv
<1> SUFFICES ASSUME Init PROVE GestureInv
  OBVIOUS
<1>1. PICK scripts : scripts = IF "gestures" \in uses THEN Scripts ELSE {<<>>}
  OBVIOUS
<1>2. GestureInit(scripts)
  BY <1>1 DEF Init
<1>3. \A s \in scripts : ScriptFits(s)
  BY <1>1, ScriptOfNone, GestureAssumption
<1> QED
  BY <1>2, <1>3, GestureInvInit

(* Gestures are true: when all is over nothing is left pressed but by a    *)
(* gesture that is not to release, and on its way no gesture rests, however*)
(* gestures, taps and the deletion of their widgets go on inside each other*)
(* (TasGestureRunner::timerEvent, TasMultiGestureRunner::timerEvent).      *)
THEOREM GesturesStayTrue == Spec => []GesturesAreTrue
  BY GestureInvStart, GestureInvStep, GesturesAreTrueThen, PTL DEF Spec

-----------------------------------------------------------------------------
(* The types.  What a fixture is asked for is one of the requests: those   *)
(* in the queue were such.                                                 *)

Asks(plugin, r) == r \in FixtureRequests /\ r.plugin = plugin

LEMMA PerformedAreAsked ==
    ASSUME NEW r \in FixtureRequests, PerformFixture(r)
    PROVE  /\ UNCHANGED signals \/ (Asks("signal", r) /\ SignalExecute(r))
           /\ UNCHANGED properties \/ (Asks("tas", r) /\ PropertyExecute(r))
           /\ UNCHANGED popups \/ (Asks("popup", r) /\ PopupExecute(r))
  BY DEF PerformFixture, Asks, fixtures

LEMMA FixturesAreAsked ==
    ASSUME QueueInv, [Next]_vars
    PROVE  /\ UNCHANGED signals \/ SignalStep \/ \E r : Asks("signal", r) /\ SignalExecute(r)
           /\ UNCHANGED properties \/ LogTimerEvent \/ \E r : Asks("tas", r) /\ PropertyExecute(r)
           /\ UNCHANGED popups \/ PopupStep \/ \E r : Asks("popup", r) /\ PopupExecute(r)
<1>1. CASE UNCHANGED fixtures
  BY <1>1 DEF fixtures
<1>2. CASE \E r \in FixtureRequests : PerformFixture(r)
  BY <1>2, PerformedAreAsked
<1>3. CASE \E r \in FixtureRequests : FixtureRequest(r)
  BY <1>1, <1>2, <1>3 DEF FixtureRequest, PerformNow, Delay
<1>4. CASE FixtureStep(uses)
  <2>1. CASE DelayedEvent
    <3>1. PerformFixture(Head(commandQueue)) /\ commandQueue # <<>>
      BY <2>1 DEF DelayedEvent, QueueInv, NeverEmptyDequeue
    <3>2. Head(commandQueue) \in FixtureRequests
      BY <3>1 DEF QueueInv
    <3> QED
      BY <1>2, <3>1, <3>2
  <2>2. CASE MenuClosed
    BY <1>1, <2>2 DEF MenuClosed
  <2> QED
    BY <1>4, <2>1, <2>2 DEF FixtureStep
<1> QED
  BY <1>1, <1>3, <1>4, StepsOfServices DEF WidgetsChange, services

LEMMA SignalTypesStep == Lives /\ QueueInv /\ SignalTypes /\ [Next]_vars => SignalTypes'
<1> SUFFICES ASSUME Lives, QueueInv, SignalTypes, [Next]_vars PROVE SignalTypes'
  OBVIOUS
<1> DEFINE Spy == [of : Targets, life : Nat, signal : Signals, container : Nat, deleted : BOOLEAN]
<1>1. CASE UNCHANGED signals
  BY <1>1 DEF signals, SignalTypes
<1>2. ASSUME NEW t, NEW s \in Signals, EnableSignal(t, s)
      PROVE  SignalTypes'
  <2>1. CASE t \notin alive
    BY <1>1, <1>2, <2>1 DEF EnableSignal
  <2>2. CASE t \in alive
    <3>1. PICK spy : spy = [of |-> t, life |-> life[t], signal |-> s,
                            container |-> container', deleted |-> FALSE]
      OBVIOUS
    <3>2. /\ spies' = Append(spies, spy) /\ container' = cleared + 1 /\ cleared' = cleared
          /\ spyContainer' = With(spyContainer, <<t, s>>, Len(spies'))
      BY <1>2, <2>2, <3>1 DEF EnableSignal, SignalTypes
    <3>3. t \in Targets /\ life[t] \in Nat
      BY <2>2 DEF Lives
    <3>4. spy \in Spy /\ container' \in Nat
      BY <3>1, <3>2, <3>3 DEF SignalTypes
    <3>5. spies' \in Seq(Spy) /\ DOMAIN spies' = 1..(Len(spies) + 1) /\ Len(spies') = Len(spies) + 1
      BY <3>2, <3>4 DEF SignalTypes
    <3>6. DOMAIN spies = 1..Len(spies) /\ Len(spies) \in Nat
      BY ElementsOf DEF SignalTypes
    <3>7. DOMAIN spyContainer' \subseteq Targets \X Signals
      BY <3>2, <3>3 DEF With, SignalTypes
    <3>8. ASSUME NEW x \in DOMAIN spyContainer'
          PROVE  spyContainer'[x] \in DOMAIN spies'
      <4>1. CASE x = <<t, s>>
        BY <3>2, <3>5, <3>6, <4>1 DEF With
      <4>2. CASE x # <<t, s>>
        <5>1. x \in DOMAIN spyContainer /\ spyContainer'[x] = spyContainer[x]
          BY <3>2, <4>2 DEF With
        <5>2. spyContainer[x] \in DOMAIN spies
          BY <5>1 DEF SignalTypes, Range
        <5> QED
          BY <3>5, <3>6, <5>1, <5>2
      <4> QED
        BY <4>1, <4>2
    <3> QED
      BY <3>2, <3>4, <3>5, <3>7, <3>8 DEF SignalTypes, Range
  <2> QED
    BY <2>1, <2>2
<1>3. CASE ClearSignals
  <2>1. spies' \in Seq(Spy)
    <3>1. \A n \in DOMAIN spies : spies[n] \in Spy
      BY ElementsOf DEF SignalTypes
    <3>2. \A n \in DOMAIN spies : spies'[n] \in Spy
      BY <1>3, <3>1 DEF ClearSignals
    <3>3. DOMAIN spies' = 1..Len(spies) /\ Len(spies) \in Nat
      BY <1>3 DEF ClearSignals, SignalTypes
    <3> QED
      BY <1>3, <3>2, <3>3 DEF ClearSignals, SignalTypes
  <2>2. cleared' \in Nat
    BY <1>3, MaxOfTwo DEF ClearSignals, SignalTypes
  <2>3. DOMAIN spyContainer' = {} /\ Range(spyContainer') = {}
    BY <1>3 DEF ClearSignals, Range
  <2> QED
    BY <1>3, <2>1, <2>2, <2>3 DEF ClearSignals, SignalTypes
<1>4. ASSUME NEW r, Asks("signal", r), SignalExecute(r)
      PROVE  SignalTypes'
  BY <1>1, <1>2, <1>3, <1>4, FixtureAssumption DEF SignalExecute, Asks
<1> QED
  BY <1>1, <1>4, FixturesAreAsked DEF SignalStep, SignalHasOccured

LEMMA PropertyTypesStep == Lives /\ QueueInv /\ PropertyTypes /\ [Next]_vars => PropertyTypes'
<1> SUFFICES ASSUME Lives, QueueInv, PropertyTypes, [Next]_vars PROVE PropertyTypes'
  OBVIOUS
<1>1. CASE UNCHANGED properties
  BY <1>1 DEF properties, PropertyTypes
<1>2. ASSUME NEW t, NEW p \in Properties, NEW opens, StartPropertyLog(t, p, opens)
      PROVE  PropertyTypes'
  <2>1. CASE UNCHANGED properties
    BY <1>1, <2>1
  <2>2. CASE ~UNCHANGED properties
    <3> DEFINE files == IF t \in DOMAIN logged THEN logged[t] ELSE <<>>
               kept == IF IsLogged(t, p) THEN files ELSE With(files, p, "open")
    <3>1. /\ t \in alive
          /\ logged' = With(logged, t, kept) /\ ticking' = TRUE
      BY <1>2, <2>2 DEF StartPropertyLog
    <3>2. DOMAIN files \subseteq Properties /\ Range(files) \subseteq {"open", "deleted"}
      BY DEF PropertyTypes, Range
    <3>3. DOMAIN kept \subseteq Properties /\ Range(kept) \subseteq {"open", "deleted"}
      BY <3>2 DEF With, Range
    <3> HIDE DEF kept
    <3>4. /\ DOMAIN logged' \subseteq Targets
          /\ \A u \in DOMAIN logged' : IF u = t THEN logged'[u] = kept
                                       ELSE u \in DOMAIN logged /\ logged'[u] = logged[u]
      BY <3>1 DEF With, PropertyTypes, Lives
    <3> QED
      BY <3>1, <3>3, <3>4 DEF PropertyTypes
  <2> QED
    BY <2>1, <2>2
<1>3. ASSUME NEW t, NEW p, StopLogProperty(t, p)
      PROVE  PropertyTypes'
  <2>1. CASE logged' = logged
    BY <1>3, <2>1 DEF StopLogProperty, PropertyTypes
  <2>2. CASE logged' = LeftLogged(t, p) /\ IsLogged(t, p)
    <3>1. CASE DOMAIN logged[t] = {p}
      BY <1>3, <2>2, <3>1 DEF StopLogProperty, LeftLogged, Restrict, PropertyTypes
    <3>2. CASE DOMAIN logged[t] # {p}
      <4>1. PICK files : files = [logged[t] EXCEPT ![p] = "deleted"]
        OBVIOUS
      <4>2. DOMAIN files = DOMAIN logged[t] /\ Range(files) \subseteq Range(logged[t]) \cup {"deleted"}
        BY <4>1 DEF Range
      <4>3. logged' = [logged EXCEPT ![t] = files]
        BY <2>2, <3>2, <4>1 DEF LeftLogged
      <4>4. /\ DOMAIN logged' = DOMAIN logged
            /\ \A u \in DOMAIN logged : logged'[u] = IF u = t THEN files ELSE logged[u]
        BY <4>3
      <4> QED
        BY <1>3, <2>2, <4>2, <4>4 DEF StopLogProperty, PropertyTypes, IsLogged
    <3> QED
      BY <3>1, <3>2
  <2> QED
    BY <1>3, <2>1, <2>2 DEF StopLogProperty
<1>4. ASSUME NEW r, Asks("tas", r), PropertyExecute(r)
      PROVE  PropertyTypes'
  BY <1>1, <1>2, <1>3, <1>4, FixtureAssumption DEF PropertyExecute, GetLogData, Asks
<1> QED
  BY <1>1, <1>4, FixturesAreAsked DEF LogTimerEvent

LEMMA PopupTypesStep == QueueInv /\ PopupTypes /\ [Next]_vars => PopupTypes'
<1> SUFFICES ASSUME QueueInv, PopupTypes, [Next]_vars PROVE PopupTypes'
  OBVIOUS
<1> USE DEF PopupTypes
<1>1. CASE UNCHANGED popups
  BY <1>1 DEF popups
<1>2. ASSUME NEW r, Asks("popup", r), PopupExecute(r)
      PROVE  PopupTypes'
  BY <1>2, FixtureAssumption DEF PopupExecute, WaitPopup, PrintPopup, StillFiltering, Asks
<1>3. CASE PopupStep
  BY <1>3 DEF PopupStep, PopupShown, PopupTimeout
<1> QED
  BY <1>1, <1>2, <1>3, FixturesAreAsked

-----------------------------------------------------------------------------
LEMMA ResourceTyped ==
    ASSUME NEW s, NEW c, DOMAIN s = {"on", "file", "lines"}, s.on \in BOOLEAN,
           s.file \in {"none", "open", "closed"}, s.lines \in Nat
    PROVE  LogService(s, c).file \in {"none", "open", "closed"} /\ LogService(s, c).lines \in Nat
<1>1. CASE c.action = "start"
  BY <1>1 DEF LogService, StartLog
<1>2. CASE c.action # "start" /\ s.file = "none"
  BY <1>2 DEF LogService, StopOrLoad
<1>3. CASE c.action # "start" /\ s.file # "none"
  <2>1. PICK l : l = LoadData(s, c)
    OBVIOUS
  <2>2. DOMAIN l = {"on", "file", "lines"} /\ l.file \in {"none", "open", "closed"} /\ l.lines \in Nat
    BY <2>1 DEF LoadData
  <2>3. CASE c.action # "stop"
    BY <1>3, <2>1, <2>2, <2>3 DEF LogService, StopOrLoad
  <2>4. CASE c.action = "stop"
    BY <1>3, <2>1, <2>2, <2>4 DEF LogService, StopOrLoad
  <2> QED
    BY <2>3, <2>4
<1> QED
  BY <1>1, <1>2, <1>3

LEMMA ResourceTypesStep == ResourceTypes /\ [Next]_vars => ResourceTypes'
<1> SUFFICES ASSUME ResourceTypes, [Next]_vars PROVE ResourceTypes'
  OBVIOUS
<1>1. UNCHANGED resourceLogs \/ InfoRequest \/ InfoTimerEvent
  BY StepsOfServices DEF WidgetsChange, services
<1>2. CASE UNCHANGED resourceLogs
  BY <1>2 DEF resourceLogs, ResourceTypes
<1>3. CASE InfoTimerEvent
  BY <1>3 DEF InfoTimerEvent, ResourceTypes
<1>4. CASE InfoRequest
  <2>1. PICK R \in SUBSET Resources : \E commands \in [R -> LogCommands] :
            PerformLogService(commands)
    BY <1>4 DEF InfoRequest
  <2>2. PICK commands \in [R -> LogCommands] : PerformLogService(commands)
    BY <2>1
  <2> DEFINE after == [r \in Resources |-> IF r \in DOMAIN commands
                                         THEN LogService(Now(r), commands[r]) ELSE Now(r)]
  <2>3. /\ bits' = {r \in Resources : after[r].on}
        /\ file' = [r \in Resources |-> after[r].file]
        /\ lines' = [r \in Resources |-> after[r].lines]
        /\ infoTimer' = (bits' # {})
    BY <2>2 DEF PerformLogService, CheckLoggerState
  <2>4. ASSUME NEW r \in Resources
        PROVE  after[r].file \in {"none", "open", "closed"} /\ after[r].lines \in Nat
    <3>1. DOMAIN Now(r) = {"on", "file", "lines"} /\ Now(r).file = file[r] /\ Now(r).lines = lines[r]
      BY DEF Now
    <3>2. Now(r).on = (r \in bits)
      BY Zenon DEF Now
    <3>3. Now(r).on \in BOOLEAN
      BY <3>2
    <3> QED
      BY <3>1, <3>3, ResourceTyped DEF ResourceTypes
  <2> HIDE DEF after
  <2> QED
    BY <2>3, <2>4 DEF ResourceTypes
<1> QED
  BY <1>1, <1>2, <1>3, <1>4

-----------------------------------------------------------------------------
FilterTyped(f) ==
    f \in [on : Nat, listens : SUBSET (EventNames \cup {"ALL"}), track : Targets \cup {NoTrack},
           found : BOOLEAN, events : Seq(Records)]
DueTyped(d) == d \in [request : EventRequests, life : Nat, events : Seq(Records)]

LEMMA FilterGrows ==
    ASSUME NEW f, FilterTyped(f), NEW e \in Records
    PROVE  FilterTyped([f EXCEPT !.events = Append(@, e)])
<1>1. PICK events : events = Append(f.events, e)
  OBVIOUS
<1>2. f.events \in Seq(Records)
  BY DEF FilterTyped
<1>3. events \in Seq(Records)
  BY <1>1, <1>2, AppendProperties
<1>4. FilterTyped([f EXCEPT !.events = events])
  BY <1>3 DEF FilterTyped
<1> QED
  BY <1>1, <1>4

LEMMA DueGrows ==
    ASSUME NEW d, DueTyped(d), NEW e \in Records
    PROVE  DueTyped([d EXCEPT !.events = Append(@, e)])
<1>1. PICK events : events = Append(d.events, e)
  OBVIOUS
<1>2. d.events \in Seq(Records)
  BY DEF DueTyped
<1>3. events \in Seq(Records)
  BY <1>1, <1>2, AppendProperties
<1>4. DueTyped([d EXCEPT !.events = events])
  BY <1>3 DEF DueTyped
<1> QED
  BY <1>1, <1>4

(* What is recorded comes after the mark that the recorder is on.          *)
LEMMA RecordAppended ==
    ASSUME NEW S, NEW h, NEW t \in Seq(S), NEW x \in S
    PROVE  /\ Append(<<h>> \o t, x) = <<h>> \o Append(t, x)
           /\ Head(<<h>> \o t) = h /\ Tail(<<h>> \o t) = t
<1>1. <<h>> \in Seq({h} \cup S) /\ t \in Seq({h} \cup S) /\ x \in {h} \cup S
  BY DEF Seq
<1> QED
  BY <1>1

LEMMA EventTyped ==
    ASSUME NEW f, FilterTyped(f), NEW k \in Targets \cup {App}, NEW e \in EventNames, Lives
    PROVE  FilterTyped(EventFilter(f, k, e))
<1>1. LifeOf(k) \in Nat
  BY DEF LifeOf, Lives
<1>2. <<e, k, LifeOf(k)>> \in Records
  BY <1>1 DEF Records
<1> QED
  <2>1. FilterTyped([f EXCEPT !.found = TRUE])
    BY DEF FilterTyped
  <2> QED
    BY <1>2, <2>1, FilterGrows DEF EventFilter

LEMMA EventTypesStep == Lives /\ EventTypes /\ [Next]_vars => EventTypes'
<1> SUFFICES ASSUME Lives, EventTypes, [Next]_vars PROVE EventTypes'
  OBVIOUS
<1>1. \/ UNCHANGED recording
      \/ \E r \in EventRequests : EnableEvents(r) \/ DisableEvents(r) \/ RecorderCommand(r)
      \/ \E k \in Targets \cup {App}, e \in EventNames : Event(k, e)
      \/ AddProcessStartEvent
  BY StepsOfServices DEF WidgetsChange, services, EventRequest, RecorderRequest, EventStep
<1>2. CASE UNCHANGED recording
  BY <1>2 DEF recording, EventTypes
<1> DEFINE Typed == /\ DOMAIN due = DOMAIN filters /\ DOMAIN filters \subseteq Targets \cup {App}
                    /\ \A k \in DOMAIN filters : FilterTyped(filters[k]) /\ DueTyped(due[k])
<1>0. Typed
  BY DEF EventTypes, FilterTyped, DueTyped
<1>3. ASSUME Typed', UNCHANGED recorder
      PROVE  EventTypes'
  BY <1>3 DEF EventTypes, FilterTyped, DueTyped
<1>4. ASSUME NEW r \in EventRequests, EnableEvents(r)
      PROVE  EventTypes'
  <2>1. CASE UNCHANGED <<filters, due>>
    BY <1>2, <1>4, <2>1 DEF EnableEvents, recording
  <2>2. CASE ~UNCHANGED <<filters, due>>
    <3> DEFINE known == r.target \in DOMAIN filters
    <3>1. PICK f : f = IF known THEN filters[r.target]
                       ELSE [on |-> 0, listens |-> {}, track |-> NoTrack, found |-> FALSE,
                             events |-> <<>>]
      OBVIOUS
    <3>2. PICK events : events = IF known THEN due[r.target].events ELSE <<>>
      OBVIOUS
    <3>3. PICK g, d : /\ g = StartFiltering(f, r)
                      /\ d = [request |-> r, life |-> LifeOf(r.target), events |-> events]
      OBVIOUS
    <3>4. filters' = With(filters, r.target, g) /\ due' = With(due, r.target, d) /\ recorder' = recorder
      BY <1>4, <2>2, <3>1, <3>2, <3>3 DEF EnableEvents
    <3>5. FilterTyped(f) /\ events \in Seq(Records)
      BY <1>0, <3>1, <3>2 DEF FilterTyped, DueTyped
    <3>6. LifeOf(r.target) \in Nat
      BY EventAssumption DEF LifeOf, Lives
    <3>7. FilterTyped(g)
      BY <3>3, <3>5, <3>6, EventAssumption DEF StartFiltering, FilterTyped
    <3>8. DueTyped(d)
      BY <3>3, <3>5, <3>6 DEF DueTyped
    <3> QED
      BY <1>0, <1>3, <3>4, <3>7, <3>8, EventAssumption DEF With
  <2> QED
    BY <2>1, <2>2
<1>5. ASSUME NEW r, DisableEvents(r)
      PROVE  EventTypes'
  BY <1>0, <1>3, <1>5 DEF DisableEvents, Restrict
<1>6. ASSUME NEW r, RecorderCommand(r)
      PROVE  EventTypes'
  BY <1>6 DEF RecorderCommand, EventTypes, NotRecording
<1>7. ASSUME NEW k \in Targets \cup {App}, NEW e \in EventNames, Event(k, e)
      PROVE  EventTypes'
  <2>1. ASSUME NEW j \in DOMAIN filters'
        PROVE  FilterTyped(filters'[j])
    BY <1>0, <1>7, <2>1, EventTyped DEF Event
  <2>2. ASSUME NEW j \in DOMAIN due'
        PROVE  DueTyped(due'[j])
    <3>1. PICK x : x = <<e, k, LifeOf(k)>>
      OBVIOUS
    <3>2. x \in Records
      BY <3>1 DEF LifeOf, Lives, Records
    <3>3. j \in DOMAIN due /\ DueTyped(due[j])
      BY <1>0, <1>7 DEF Event
    <3>4. PICK d : d = due[j]
      OBVIOUS
    <3>5. due'[j] = d \/ due'[j] = [d EXCEPT !.events = Append(@, x)]
      BY <1>7, <3>1, <3>3, <3>4 DEF Event
    <3>6. DueTyped([d EXCEPT !.events = Append(@, x)])
      BY <3>2, <3>3, <3>4, DueGrows
    <3> QED
      BY <3>3, <3>4, <3>5, <3>6
  <2>3. DOMAIN filters' = DOMAIN filters /\ DOMAIN due' = DOMAIN due
    BY <1>7 DEF Event
  <2>4. CASE recorder' = recorder
    BY <1>0, <2>1, <2>2, <2>3, <2>4 DEF EventTypes, FilterTyped, DueTyped
  <2>5. CASE recorder' # recorder
    <3>1. k \in Targets /\ e \in MouseEvents /\ recorder' = Append(recorder, <<e, k>>)
      BY <1>7, <2>5 DEF Event, Recorded
    <3>2. PICK h, t : h = Head(recorder) /\ t = Tail(recorder)
      OBVIOUS
    <3>3. recorder = <<h>> \o t /\ h \in {"on", "off"} /\ t \in Seq(MouseEvents \X Targets)
      BY <3>2 DEF EventTypes
    <3>4. PICK longer : longer = Append(t, <<e, k>>)
      OBVIOUS
    <3>5. longer \in Seq(MouseEvents \X Targets) /\ <<e, k>> \in MouseEvents \X Targets
      BY <3>1, <3>3, <3>4
    <3>6. recorder' = <<h>> \o longer /\ Head(recorder') = h /\ Tail(recorder') = longer
      <4>1. recorder' = <<h>> \o longer
        <5>1. PICK S, x : S = MouseEvents \X Targets /\ x = <<e, k>>
          OBVIOUS
        <5>2. t \in Seq(S) /\ x \in S /\ recorder' = Append(<<h>> \o t, x) /\ longer = Append(t, x)
          BY <3>1, <3>3, <3>4, <3>5, <5>1
        <5> QED
          BY <5>2, RecordAppended
      <4> QED
        BY <3>5, <4>1, RecordAppended
    <3> QED
      BY <1>0, <2>1, <2>2, <2>3, <3>3, <3>5, <3>6 DEF EventTypes, FilterTyped, DueTyped
  <2> QED
    BY <2>4, <2>5
<1>8. CASE AddProcessStartEvent
  <2>1. <<"start", App, 0>> \in Records
    BY DEF Records
  <2>2. ASSUME NEW j \in DOMAIN filters
        PROVE  FilterTyped(filters'[j]) /\ DueTyped(due'[j])
    BY <1>0, <1>8, <2>1, FilterGrows, DueGrows DEF AddProcessStartEvent
  <2> QED
    BY <1>0, <1>3, <1>8, <2>2 DEF AddProcessStartEvent
<1> QED
  BY <1>1, <1>2, <1>4, <1>5, <1>6, <1>7, <1>8
-----------------------------------------------------------------------------
(* The rest of what the logger keeps.                                      *)
LogFlags ==
    /\ intercepted \in BOOLEAN /\ logsEvents \in {NotInstalled, {}, {"press"}}
    /\ writing \in [LogThreads -> {"nothing", "rolling", "opening", "output"}]

LEMMA LogFlagsStep == LogFlags /\ [Next]_vars => LogFlags'
<1> SUFFICES ASSUME LogFlags, [Next]_vars PROVE LogFlags'
  OBVIOUS
<1> USE DEF LogFlags
<1>1. UNCHANGED logger \/ LoggerRequest \/ LoggerStep \/ LoggerGoesOn
  BY StepsOfServices DEF WidgetsChange, services
<1>2. CASE UNCHANGED logger
  BY <1>2 DEF logger
<1>3. CASE LoggerRequest
  <2>1. ASSUME NEW c \in Configurations, ConfigureLogger(c)
        PROVE  LogFlags'
    BY <2>1, LoggerAssumption DEF ConfigureLogger, Given
  <2>2. ASSUME NEW on \in BOOLEAN, NEW names \in {{}, {"press"}}, ConfigureEventLogger(on, names)
        PROVE  LogFlags'
    <3>1. writing' \in [LogThreads -> {"nothing", "rolling", "opening", "output"}]
      BY <2>2, LoggerAssumption DEF ConfigureEventLogger, Begun
    <3> QED
      BY <2>2, <3>1 DEF ConfigureEventLogger
  <2> QED
    BY <1>3, <2>1, <2>2 DEF LoggerRequest
<1>4. CASE LoggerStep
  BY <1>4, LoggerAssumption DEF LoggerStep, LogLine, EventFiltered, WriteLogLine, Begun
<1>5. CASE LoggerGoesOn
  BY <1>5 DEF LoggerGoesOn, RollOff, RollOn, OutPut, TimePasses
<1> QED
  BY <1>1, <1>2, <1>3, <1>4, <1>5

LEMMA GesturesAreTyped == GestureInv => GestureTypes
<1> SUFFICES ASSUME GestureInv PROVE GestureTypes
  OBVIOUS
<1>1. ScriptFits(script)
  BY DEF GestureInv, ScriptInv
<1>2. /\ DOMAIN runner = Ids
      /\ \A i \in Ids : /\ DOMAIN runner[i] = DOMAIN Idle
                        /\ runner[i].stage \in IF i \notin TimeLines THEN {"none", "tapping", "over"}
                              ELSE {"none", "starting", "moving", "pausing", "together", "over"}
  BY DEF GestureInv, RunnerInv, RunnerFits, Idle
<1>3. /\ DOMAIN pair = {"stage", "step", "left", "all"}
      /\ pair.stage \in {"none", "starting", "moving", "over"}
      /\ pair.left \subseteq pair.all /\ pair.all \subseteq TimeLines
  BY DEF GestureInv, PairInv
<1>4. \A f \in Range(frames) :
          /\ f.owner \in Ids \cup {Together}
          /\ f.then \in {"moving", "finished", "pausing", "tapping", "over"}
  BY DEF GestureInv, CallsInv, CallFits, Calls, TimeLines
<1>5. \A i \in Ids : DOMAIN told[i] = Pointers
  BY DEF GestureInv, RestInv
<1> QED
  BY <1>1, <1>2, <1>3, <1>4, <1>5 DEF GestureTypes

-----------------------------------------------------------------------------
(* Whether the application has survived, and the bounds of a behaviour.    *)
BoundTypes == uses \in Suites /\ requests \in Nat /\ steps \in Nat /\ crashed \in BOOLEAN

LEMMA MayCrash ==
    ASSUME NEW c, CrashIf(c), crashed \in BOOLEAN
    PROVE  crashed' \in BOOLEAN
  BY DEF CrashIf

LEMMA GesturesCrash == GestureNext /\ crashed \in BOOLEAN => crashed' \in BOOLEAN
<1> SUFFICES ASSUME GestureNext, crashed \in BOOLEAN PROVE crashed' \in BOOLEAN
  OBVIOUS
<1>1. CASE \E i \in TimeLines : StartGesture(i) \/ ReleaseMouse(i)
  BY <1>1 DEF StartGesture, ReleaseMouse, application
<1>2. CASE \E i \in TimeLines, k \in 1..Steps : GestureTimerEvent(i, k)
  BY <1>2 DEF GestureTimerEvent, application
<1>3. CASE StartGestures
  BY <1>3 DEF StartGestures
<1>4. CASE \E k \in 1..Steps : GesturesTimerEvent(k)
  BY <1>4 DEF GesturesTimerEvent, application
<1>5. CASE \E i \in Ids \ TimeLines : Tap(i) \/ TapperTap(i)
  BY <1>5 DEF Tap, TapperTap, application
<1>6. CASE Send \/ Return
  BY <1>6 DEF Send, Return, application
<1> QED
  BY <1>1, <1>2, <1>3, <1>4, <1>5, <1>6 DEF GestureNext

LEMMA ServicesCrash ==
    ASSUME crashed \in BOOLEAN,
           \/ LoggerRequest \/ LoggerStep \/ LoggerGoesOn
           \/ EventRequest \/ RecorderRequest \/ EventStep
    PROVE  crashed' \in BOOLEAN
<1>1. CASE LoggerRequest \/ LoggerStep
  BY <1>1, MayCrash DEF LoggerRequest, ConfigureLogger, ConfigureEventLogger, LoggerStep, LogLine,
     EventFiltered, WriteLogLine, application
<1>2. CASE LoggerGoesOn
  BY <1>2, MayCrash DEF LoggerGoesOn, RollOff, RollOn, OutPut, TimePasses, application
<1>3. CASE EventRequest \/ RecorderRequest \/ EventStep
  BY <1>3, MayCrash DEF EventRequest, RecorderRequest, EventStep, EnableEvents, DisableEvents,
     RecorderCommand, Event, AddProcessStartEvent, application
<1> QED
  BY <1>1, <1>2, <1>3

LEMMA FixtureCrashes ==
    ASSUME crashed \in BOOLEAN,
           \/ (\E r : SignalExecute(r)) \/ SignalStep
           \/ (\E r : PropertyExecute(r)) \/ LogTimerEvent
           \/ (\E r : FpsExecute(r)) \/ FpsStep
           \/ (\E r : PopupExecute(r)) \/ PopupStep
    PROVE  crashed' \in BOOLEAN
<1>1. CASE (\E r : SignalExecute(r)) \/ SignalStep
  BY <1>1, MayCrash DEF SignalExecute, SignalStep, EnableSignal, ClearSignals, SignalHasOccured,
     application
<1>2. CASE (\E r : PropertyExecute(r)) \/ LogTimerEvent
  BY <1>2, MayCrash DEF PropertyExecute, LogTimerEvent, StartPropertyLog, GetLogData,
     StopLogProperty, application
<1>3. CASE (\E r : FpsExecute(r)) \/ FpsStep
  BY <1>3 DEF FpsExecute, FpsStep, StartFps, CollectData, StopFps, Frame, application
<1>4. CASE (\E r : PopupExecute(r)) \/ PopupStep
  BY <1>4 DEF PopupExecute, PopupStep, WaitPopup, PrintPopup, PopupShown, PopupTimeout, application
<1> QED
  BY <1>1, <1>2, <1>3, <1>4

LEMMA BoundTypesStep == BoundTypes /\ [Next]_vars => BoundTypes'
<1> SUFFICES ASSUME BoundTypes, [Next]_vars PROVE BoundTypes'
  OBVIOUS
<1>1. uses' \in Suites /\ requests' \in Nat /\ steps' \in Nat
  BY DEF BoundTypes, Next, Request, Step, Gesture, Logging, ApplicationStep, vars, bounds
<1> SUFFICES crashed' \in BOOLEAN
  BY <1>1 DEF BoundTypes
<1>0. crashed \in BOOLEAN
  BY DEF BoundTypes
<1>2. ASSUME UNCHANGED application PROVE crashed' \in BOOLEAN
  BY <1>0, <1>2 DEF application
<1>3. ASSUME NEW r, PerformFixture(r) PROVE crashed' \in BOOLEAN
  BY <1>0, <1>2, <1>3, FixtureCrashes DEF PerformFixture
<1>4. ASSUME NEW r, FixtureRequest(r) PROVE crashed' \in BOOLEAN
  BY <1>2, <1>3, <1>4 DEF FixtureRequest, PerformNow, Delay
<1>5. CASE FixtureStep(uses)
  BY <1>0, <1>2, <1>3, <1>5, FixtureCrashes DEF FixtureStep, DelayedEvent, MenuClosed
<1>6. CASE Request
  BY <1>0, <1>2, <1>4, <1>6, ServicesCrash DEF Request
<1>7. CASE Step
  BY <1>0, <1>2, <1>5, <1>7, ServicesCrash DEF Step
<1>8. CASE Gesture \/ Logging
  BY <1>0, <1>8, GesturesCrash, ServicesCrash DEF Gesture, Logging
<1>9. CASE ApplicationStep
  BY <1>0, <1>9 DEF ApplicationStep, Close, Open
<1>10. CASE UNCHANGED vars
  BY <1>2, <1>10 DEF vars
<1> QED
  BY <1>1, <1>6, <1>7, <1>8, <1>9, <1>10 DEF Next

-----------------------------------------------------------------------------
(* What the types rest on is the invariants of the services.               *)
BackgroundInv ==
    /\ BoundTypes /\ Lives /\ GestureInv /\ QueueInv /\ FpsInv /\ LoggerInv
    /\ EventTypes /\ SignalTypes /\ PropertyTypes /\ PopupTypes /\ ResourceTypes /\ LogFlags

LEMMA BackgroundInit == Init => BackgroundInv
<1> SUFFICES ASSUME Init PROVE BackgroundInv
  OBVIOUS
<1>1. BoundTypes
  BY DEF Init, WidgetsInit, BoundTypes
<1>2. QueueInv
  BY DEF Init, FixtureInit, QueueInv, NeverEmptyDequeue, NothingStalls, Off, Ready
<1>3. FpsInv
  BY DEF Init, WidgetsInit, FixtureInit, FpsInit, FpsInv
<1>4. EventTypes
  <2>1. <<"off">> = <<Head(<<"off">>)>> \o Tail(<<"off">>) /\ Tail(<<"off">>) = <<>>
    OBVIOUS
  <2> QED
    BY <2>1 DEF Init, EventInit, NotRecording, EventTypes
<1>5. SignalTypes
  <2>1. DOMAIN spyContainer = {} /\ Range(spyContainer) = {}
    BY DEF Init, FixtureInit, SignalInit, Range
  <2>2. spies = <<>> /\ container = 0 /\ cleared = 0
    BY DEF Init, FixtureInit, SignalInit
  <2>3. spies \in Seq([of : Targets, life : Nat, signal : Signals, container : Nat, deleted : BOOLEAN])
    BY <2>2, EmptySeq
  <2> QED
    BY <2>1, <2>2, <2>3 DEF SignalTypes
<1>6. PropertyTypes /\ PopupTypes
  <2>1. DOMAIN logged = {}
    BY DEF Init, FixtureInit, PropertyInit
  <2> QED
    BY <2>1 DEF Init, FixtureInit, PropertyInit, PopupInit, PropertyTypes, PopupTypes
<1>7. ResourceTypes
  BY DEF Init, InfoInit, ResourceTypes
<1>8. LogFlags
  BY DEF Init, LoggerInit, LogFlags
<1> QED
  BY <1>1, <1>2, <1>3, <1>4, <1>5, <1>6, <1>7, <1>8, LivesInit, LoggerInvInit, GestureInvStart
  DEF BackgroundInv

LEMMA BackgroundStep == BackgroundInv /\ [Next]_vars => BackgroundInv'
  BY BoundTypesStep, LivesStep, GestureInvStep, QueueStep, FpsInvStep, LoggerStepKeeps,
     EventTypesStep, SignalTypesStep, PropertyTypesStep, PopupTypesStep, ResourceTypesStep,
     LogFlagsStep
  DEF BackgroundInv

LEMMA BackgroundIsTyped == BackgroundInv => TypeOK
<1> SUFFICES ASSUME BackgroundInv PROVE TypeOK
  OBVIOUS
<1>1. FixtureTypes
  BY DEF BackgroundInv, FixtureTypes, QueueInv, FpsInv, FpsTypes, Measures, Measurers
<1>2. LoggerTypes
  BY DEF BackgroundInv, LoggerInv, LogFits, FoldersKeep, FolderFiles, LogFlags, LoggerTypes
<1> QED
  BY <1>1, <1>2, GesturesAreTyped DEF BackgroundInv, BoundTypes, Lives, TypeOK

(* Whatever goes on in an application after a command has returned, what   *)
(* its services keep has its type: a spy that is kept is one that was made,*)
(* a timer belongs to a menu that is open, and what waits is known by its  *)
(* service (TasGestureRunner, TasEventFilter, FixtureService, InfoLogger,  *)
(* TasLogger).                                                             *)
THEOREM BackgroundTypes == Spec => []TypeOK
  BY BackgroundInit, BackgroundStep, BackgroundIsTyped, PTL DEF Spec
=============================================================================
