--------------------------- MODULE MCBackgroundWork ---------------------------
(***************************************************************************)
(* BackgroundWork for TLC, on two widgets whose addresses are used again:  *)
(* scripts of gestures of every recognizer, alone, after each other and at *)
(* once, and of taps; requests for the recording of events, for each       *)
(* fixture, and for logs of two resources.                                 *)
(***************************************************************************)
EXTENDS BackgroundWork, TLC

CONSTANTS v, w

Plain == NoParameters @@
    [target |-> v, pointers |-> {"mouse"}, screen |-> FALSE, drag |-> FALSE, press |-> TRUE,
     release |-> TRUE, speed |-> 2, count |-> 2, repeated |-> FALSE]
Line1 == [Plain EXCEPT !.center = 5, !.distance = 6]

MCCommand == [
    line    |-> [Line1 EXCEPT !.pointers = {"touch", "mouse"}],
    drag    |-> [Line1 EXCEPT !.name = "MouseGestureTo", !.to = 6, !.drag = TRUE],
    from    |-> [Line1 EXCEPT !.name = "MouseGestureFromCoordinates", !.at = 1, !.release = FALSE],
    on      |-> [Line1 EXCEPT !.name = "MouseGestureToCoordinates", !.at = 9, !.press = FALSE],
    points  |-> [Plain EXCEPT !.name = "MouseGesturePoints", !.points = <<1, 4, 2>>,
                              !.intervals = <<20, 10, 0>>],
    short   |-> [Plain EXCEPT !.name = "MouseGesturePoints", !.points = <<1, 4>>,
                              !.intervals = <<10>>],
    pinch   |-> [Plain EXCEPT !.name = "PinchZoom", !.center = 9, !.distance = 3, !.second = 3,
                              !.apart = 4],
    zoom    |-> [Plain EXCEPT !.name = "PinchZoom", !.distance = 3, !.second = 3, !.in = FALSE,
                              !.at = 20, !.screen = TRUE],
    half    |-> [Plain EXCEPT !.name = "PinchZoom", !.complete = FALSE],
    turn    |-> [Plain EXCEPT !.name = "Rotate", !.target = w, !.distance = 90, !.speed = 1],
    sector  |-> [Plain EXCEPT !.name = "Rotate", !.target = w, !.distance = 90, !.onePoint = TRUE,
                              !.clockwise = TRUE, !.screen = TRUE, !.speed = 1],
    taps    |-> [Plain EXCEPT !.name = "Tap", !.pointers = {"touch", "mouse"}, !.repeated = TRUE],
    tap     |-> [Plain EXCEPT !.name = "Tap", !.target = w],
    finger  |-> [Plain EXCEPT !.name = "Tap", !.screen = TRUE, !.count = 1]]

MCIds == DOMAIN MCCommand

MCScripts ==
    {<<{"line"}, {"drag"}>>, <<{"from"}, {"on"}>>, <<{"points"}, {"taps"}>>, <<{"short"}>>,
     <<{"half"}>>, <<{"half", "turn"}>>, <<{"zoom"}, {"drag"}>>, <<{"pinch", "turn"}, {"tap"}>>, <<{"zoom", "sector"}>>,
     <<{"taps"}, {"tap"}>>, <<{"taps"}, {"finger"}>>, <<{"line"}, {"taps"}, {"drag"}>>,
     <<{"pinch", "turn"}, {"line"}, {"tap"}>>}

Enable(t, listens, track) ==
    [command |-> "EnableEvents", target |-> t, listens |-> listens, track |-> track]
Command0(c, t) == [command |-> c, target |-> t, listens |-> {}, track |-> NoTrack]

MCEventRequests ==
    {Enable(v, {"press"}, NoTrack), Enable(App, {"ALL"}, NoTrack), Enable(App, {"press"}, w),
     Enable(v, {"show"}, NoTrack), Command0("DisableEvents", v),
     Command0("Start", App), Command0("Stop", App)}

Ask(plugin, method, t, what) == [plugin |-> plugin, method |-> method, target |-> t, what |-> what]

MCFixtureRequests ==
    {Ask("signal", m, t, "s") : m \in {"enable_signal", "list_signals"}, t \in {v, w}}
    \cup {Ask("signal", m, v, "s") : m \in {"remove_signals", "get_signal"}}
    \cup {Ask("tas", m, t, "p") : t \in {v, w},
                                  m \in {"logProperty", "logPropertyResults", "stopLogProperty"}}
    \cup {Ask("tas", m, v, "q") : m \in {"logProperty", "stopLogProperty"}}
    \cup {Ask("fps", m, t, "") : m \in {"startFps", "collectData", "stopFps"}, t \in {v, w}}
    \cup {Ask("popup", m, v, c) : m \in {"waitPopup", "printPopup"}, c \in {"c", "d"}}
    \cup {Ask("menu", "contextMenu", v, ""), Ask("menu", "contextMenu", w, "")}

MCSuites == {{"gestures"}, {"events", "reuse"}, {"recorder"}, {"resources"}, {"signal", "reuse"},
             {"tas", "reuse"}, {"fps", "reuse"}, {"popup"}, {"menu", "fps"}, {"log"}}

MCLogCommands ==
    {[action |-> "start", path |-> p, opens |-> o, append |-> a, clear |-> TRUE] :
        p \in {TRUE}, o \in BOOLEAN, a \in {TRUE}}
    \cup {[action |-> "start", path |-> FALSE, opens |-> TRUE, append |-> FALSE, clear |-> TRUE]}
    \cup [action : {"stop", "load"}, path : {TRUE}, opens : {TRUE}, append : {FALSE}, clear : BOOLEAN]

Configure(level, toQDebug, intercept, size, clear, folder, enable) ==
    [level |-> level, toQDebug |-> toQDebug, intercept |-> intercept, size |-> size,
     clear |-> clear, folder |-> folder, enable |-> enable]

MCConfigurations ==
    {Configure(NotGiven, NotGiven, TRUE, 1, FALSE, NotGiven, NotGiven),
     Configure(Error, TRUE, NotGiven, NotGiven, FALSE, NotGiven, TRUE),
     Configure(NotGiven, FALSE, FALSE, NotGiven, TRUE, NotGiven, TRUE),
     Configure(Debug, NotGiven, NotGiven, NotGiven, FALSE, "b", NotGiven),
     Configure(NotGiven, NotGiven, TRUE, NotGiven, FALSE, "r", FALSE),
     Configure(NotGiven, NotGiven, NotGiven, NotGiven, FALSE, NotGiven, FALSE)}
================================================================================
