------------------------------ MODULE FpsFixture ------------------------------
(***************************************************************************)
(* FpsFixture: an FspMeasurer counts the frames of a widget, by the paint  *)
(* events it filters, or of a window, by frameSwapped.  Frames are counted *)
(* by periods of a second; measurers are kept by addresses.                *)
(***************************************************************************)
EXTENDS Widgets, Functions

CONSTANT QuickWindows   \* the targets that are windows

VARIABLES fpsCounters,  \* mFpsCounters
          shown         \* shown[t]: frames of t since its count was started
                        \* (a history variable)

frameRates == <<fpsCounters, shown>>

FpsInit == fpsCounters = <<>> /\ shown = [t \in Targets |-> 0]

NotMeasured(t) == [on |-> 0, times |-> 0, told |-> 0, values |-> 0, counter |-> 0]
Measurer(t) == IF t \in DOMAIN fpsCounters THEN fpsCounters[t] ELSE NotMeasured(t)

(* A window is connected once more, an event filter is only moved.         *)
Connections(m, t) ==
    IF t \in QuickWindows /\ m.on = life[t] THEN m.times + 1 ELSE 1

StartFps(t) ==
    /\ IF t \notin alive THEN UNCHANGED frameRates
       ELSE /\ fpsCounters' = With(fpsCounters, t, [NotMeasured(t) EXCEPT
                                !.on = life[t], !.times = Connections(Measurer(t), t)])
            /\ shown' = [shown EXCEPT ![t] = 0]
    /\ UNCHANGED application

(* The frames of the period that has not ended are reported too.           *)
CollectedData(m) == m.values + m.counter
Restarted(m) == [m EXCEPT !.told = @ + CollectedData(m), !.values = 0, !.counter = 0]

CollectData(t) ==
    /\ IF t \in alive /\ t \in DOMAIN fpsCounters
       THEN fpsCounters' = [fpsCounters EXCEPT ![t] = Restarted(@)]
       ELSE UNCHANGED fpsCounters
    /\ UNCHANGED <<shown, application>>

StopFps(t) ==
    /\ IF t \in alive /\ t \in DOMAIN fpsCounters
       THEN fpsCounters' = [fpsCounters EXCEPT ![t] = [Restarted(@) EXCEPT !.on = 0, !.times = 0]]
       ELSE UNCHANGED fpsCounters
    /\ UNCHANGED <<shown, application>>

(* Mutant of CollectFps: the frame that begins a period is not counted.    *)
CollectFpsFromNone(m, late) ==
    IF m.counter = 0 \/ ~late THEN [m EXCEPT !.counter = @ + 1]
    ELSE [m EXCEPT !.values = @ + m.counter, !.counter = 0]

CollectFps(m, late) ==
    IF m.counter = 0 \/ ~late THEN [m EXCEPT !.counter = @ + 1]
    ELSE [m EXCEPT !.values = @ + m.counter, !.counter = 1]

(* A frame, late when a second has gone since the period began.  A window  *)
(* that is connected several times has it counted by each, of which only   *)
(* the first can begin a period.                                           *)
Frame(t, late) ==
    LET m == Measurer(t)
        counted == [CollectFps(m, late) EXCEPT !.counter = @ + m.times - 1]
    IN  /\ t \in alive
        /\ fpsCounters' = IF StillLives(t, m.on)
                          THEN [fpsCounters EXCEPT ![t] = counted] ELSE fpsCounters
        /\ shown' = [shown EXCEPT ![t] = @ + 1]
        /\ UNCHANGED application

FpsExecute(r) ==
    \/ r.method = "startFps"    /\ StartFps(r.target)
    \/ r.method = "collectData" /\ CollectData(r.target)
    \/ r.method = "stopFps"     /\ StopFps(r.target)

FpsStep == \E t \in Targets, late \in BOOLEAN : Frame(t, late)

FpsTypes ==
    /\ shown \in [Targets -> Nat] /\ DOMAIN fpsCounters \subseteq Targets
    /\ \A t \in DOMAIN fpsCounters :
          fpsCounters[t] \in [on : Nat, times : Nat, told : Nat, values : Nat, counter : Nat]

-----------------------------------------------------------------------------
(* Every frame of a widget that is measured is reported once: what was     *)
(* collected and what is kept add up to the frames it had since it was     *)
(* started last (FspMeasurer::collectFps, collectedData).                  *)
FramesAddUp ==
    \A t \in DOMAIN fpsCounters \ QuickWindows :
        StillLives(t, fpsCounters[t].on) =>
            fpsCounters[t].told + CollectedData(fpsCounters[t]) = shown[t]
=============================================================================
