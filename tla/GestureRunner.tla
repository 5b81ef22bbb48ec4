---------------------------- MODULE GestureRunner ----------------------------
(***************************************************************************)
(* GestureHandler and what goes on after it has returned: TasGestureRunner *)
(* and TasMultiGestureRunner, which move a gesture, or several at once, to *)
(* its end by a time line, and the Tapper of MouseHandler, which taps at   *)
(* an interval.                                                            *)
(*                                                                         *)
(* All of them send the application events and let it process them and     *)
(* whatever else has come, timers of the others and the next command too,  *)
(* before they go on: frames holds what each call on the stack has still   *)
(* to send.  A timer does not fire inside its own handler.                 *)
(***************************************************************************)
EXTENDS GesturePaths, Widgets

CONSTANTS
    Ids,       \* of the commands, and Together
    Command,   \* Command[i]: the parameters of a gesture (see GesturePaths), its
               \* target, pointers \subseteq {"touch", "mouse"}, screen, drag, press,
               \* release, speed; or of a Tap with its count and repeated
    Scripts,   \* what UiCommandService is asked to perform: sequences of sets of
               \* commands, of several at once for a multi-touch
    Together   \* stands for the runner of several gestures

VARIABLES
    script,    \* what has still to be performed
    runner,    \* runner[i]: what runs for a command
    pair,      \* the multi gesture runner: its gestures
    frames,    \* the calls that are going on, outermost first
    tapScreen, \* MouseHandler's generator goes through the system
    down,      \* what the application, or the system, thinks is pressed
    told       \* told[i][p]: the last event of a command by pointer p

gestures == <<script, runner, pair, frames, tapScreen, down, told>>

(* The bound on what a script performs: a command once, as its runner is   *)
(* kept under its name, and several gestures at once one time, as there is *)
(* one pair. Of several targets only the gestures are performed together.  *)
ScriptFits(s) ==
    /\ s \in Seq(SUBSET Ids)
    /\ \A n \in DOMAIN s :
          IsFiniteSet(s[n]) /\ (Cardinality(s[n]) > 1 => \A i \in s[n] : IsGesture(Command[i]))
    /\ \A m, n \in DOMAIN s : m # n =>
          s[m] \cap s[n] = {} /\ (Cardinality(s[m]) <= 1 \/ Cardinality(s[n]) <= 1)

ASSUME GestureAssumption ==
    /\ Together \notin Ids
    /\ \A i \in Ids : IF IsGesture(Command[i]) THEN Command[i].speed \in Nat
                                              ELSE Command[i].name = "Tap" /\ Command[i].count \in Int
    /\ \A s \in Scripts : ScriptFits(s)

Pointers == {"touch", "mouse", "screen", "screen2"}
TimeLines == {i \in Ids : IsGesture(Command[i])}

Idle == [stage |-> "none", step |-> 0, last |-> <<>>, previous |-> <<>>, left |-> 0]
Silence == [what |-> "nothing", points |-> <<>>, rest |-> FALSE]

GestureInit(scripts) ==
    /\ script \in scripts
    /\ runner = [i \in Ids |-> Idle]
    /\ pair = [stage |-> "none", step |-> 0, left |-> {}, all |-> {}]
    /\ frames = <<>>
    /\ tapScreen = FALSE
    /\ down = {}
    /\ told = [i \in Ids |-> [p \in Pointers |-> Silence]]

-----------------------------------------------------------------------------
EventsProcessed == frames # <<>> => Last(frames).sent

Running(owner) == \E f \in Range(frames) : f.owner = owner

Call(owner, todo, then) ==
    frames' = Append(frames, [owner |-> owner, todo |-> todo, then |-> then, sent |-> FALSE])

(* An event: to the widgets it needs, by a pointer, with the points of the *)
(* commands it is about.                                                   *)
InputEvent(targets, by, parts) == [targets |-> targets, by |-> by, parts |-> parts]
Part(i, what, points) == [of |-> i, what |-> what, points |-> points]

(* A finger on the screen of the system for each point.                    *)
OnScreen(i, what, points) ==
    [n \in DOMAIN points |-> InputEvent({Command[i].target}, <<"screen", "screen2">>[n],
                                   {Part(i, what, <<points[n]>>)})]

PointerType(i) ==
    IF Command[i].name \in {"PinchZoom", "Rotate"} THEN {"touch"} ELSE Command[i].pointers

(* A touch event of all points and a mouse event of the first.             *)
ByPointers(i, what, points) ==
    LET by(p, ps) == IF p \in PointerType(i)
                     THEN <<InputEvent({Command[i].target}, p, {Part(i, what, ps)})>> ELSE <<>>
    IN  by("touch", points) \o by("mouse", <<Head(points)>>)

Sent(i, what, points) ==
    IF Command[i].screen THEN OnScreen(i, what, points) ELSE ByPointers(i, what, points)

(* The points of a gesture with the last and the first: two are compared   *)
(* with them, so that the last point is told once more.                    *)
Null(points) == [n \in DOMAIN points |-> NullPoint]
StartPoints(i) ==
    LET s == Start(Command[i]) IN [at |-> s, last |-> Null(s), from |-> Null(s)]
PointsAt(i, k, last) == [at |-> At(Command[i], k), last |-> last, from |-> Start(Command[i])]
EndPoints(i) ==
    LET e == End(Command[i]) IN [at |-> e, last |-> runner[i].last, from |-> Start(Command[i])]

Move(i, points) ==
    IF points = runner[i].previous THEN <<>> ELSE Sent(i, "move", points.at)

(* The points are made again to remember them, their own last ones now.    *)
Previous(i, k) == PointsAt(i, k, At(Command[i], k))

Moved(i, k) ==
    [runner[i] EXCEPT !.step = k, !.last = At(Command[i], k), !.previous = Previous(i, k)]

-----------------------------------------------------------------------------
(* GestureHandler: what is not found is not touched.                       *)
Performed(is) ==
    /\ script # <<>> /\ EventsProcessed /\ ~crashed
    /\ is = Head(script)
    /\ script' = Tail(script)

StartGesture(i) ==
    /\ Performed({i})
    /\ IF Command[i].target \notin alive
       THEN UNCHANGED <<runner, frames, crashed>>
       ELSE IF Crashes(Command[i])
       THEN crashed' = TRUE /\ UNCHANGED <<runner, frames>>
       ELSE /\ runner' = [runner EXCEPT ![i] =
                   [Idle EXCEPT !.stage = "starting", !.last = Start(Command[i]),
                                !.previous = StartPoints(i)]]
            /\ Call(i, IF Command[i].press THEN Sent(i, "press", Start(Command[i])) ELSE <<>>,
                    "moving")
            /\ UNCHANGED crashed
    /\ UNCHANGED <<alive, life, pair, tapScreen, down, told>>

(* The time line has a value for the runner; a busy one skips some.        *)
GestureTimerEvent(i, k) ==
    /\ EventsProcessed /\ ~crashed /\ ~Running(i)
    /\ runner[i].stage = "moving" /\ k > runner[i].step
    /\ runner' = [runner EXCEPT ![i] = Moved(i, k)]
    /\ Call(i, Move(i, PointsAt(i, k, runner[i].last)),
            IF k = Steps THEN "finished" ELSE "moving")
    /\ UNCHANGED <<script, application, pair, tapScreen, down, told>>

ReleaseMouse(i) ==
    /\ EventsProcessed /\ ~crashed /\ ~Running(i)
    /\ runner[i].stage = "pausing"
    /\ Call(i, Sent(i, "release", End(Command[i])), "over")
    /\ UNCHANGED <<script, application, runner, pair, tapScreen, down, told>>

-----------------------------------------------------------------------------
(* Several gestures are as fast as the longest allows.                     *)
MaxSpeed(is) == Max({Command[i].speed : i \in is})
Multiplier(i, is) == MaxSpeed(is) \div Command[i].speed
(* One touch event of all points, to the widget of one of the gestures, or *)
(* an event of the system for each point.                                  *)
Touch(t, what, parts, screen) ==
    IF ~screen THEN <<InputEvent({t} \cup {Command[x.of].target : x \in parts}, "touch", parts)>>
    ELSE FlattenSeq([n \in 1..Cardinality(parts) |->
             LET x == SetToSeq(parts)[n] IN OnScreen(x.of, what, x.points)])

Screen(is) == \E i \in is : Command[i].screen

StartGestures ==
    /\ script # <<>> /\ Cardinality(Head(script)) > 1 /\ Performed(Head(script))
    /\ LET is == {i \in Head(script) : Command[i].target \in alive}
           pressed == {Part(i, "press", Start(Command[i])) : i \in {j \in is : Command[j].press}}
       IN
       IF is = {} THEN UNCHANGED <<runner, pair, frames, crashed>>
       ELSE IF \E i \in is : Crashes(Command[i]) \/ Command[i].speed = 0
       THEN crashed' = TRUE /\ UNCHANGED <<runner, pair, frames>>
       ELSE \E i \in is :
            /\ pair' = [stage |-> "starting", step |-> 0, left |-> is, all |-> is]
            /\ runner' = [j \in Ids |-> IF j \notin is THEN runner[j]
                            ELSE [Idle EXCEPT !.stage = "together", !.last = Start(Command[j]),
                                              !.previous = StartPoints(j)]]
            /\ Call(Together, Touch(Command[i].target, "press", pressed, Screen(is)), "moving")
            /\ UNCHANGED crashed
    /\ UNCHANGED <<alive, life, tapScreen, down, told>>

(* Those that are beyond their end are released and done with.             *)
Finishing(i, k) == k * Multiplier(i, pair.all) > Steps

(* Mutant of ReleaseParts: gestures that are done are not released.        *)
ReleasePartsNone(is) == {}

ReleaseParts(is) ==
    {Part(i, "release", End(Command[i])) : i \in {j \in is : Command[j].release}}

GesturesTimerEvent(k) ==
    /\ EventsProcessed /\ ~crashed /\ ~Running(Together)
    /\ pair.stage = "moving" /\ k > pair.step
    /\ \E done \in {{i \in pair.left : Finishing(i, k)}} :
       LET step(i) == k * Multiplier(i, pair.all)
           moving == {i \in pair.left \ done :
                          PointsAt(i, step(i), runner[i].last) # runner[i].previous}
           moves == {Part(i, "move", At(Command[i], step(i))) : i \in moving}
       IN  /\ \E i \in pair.left :
                Call(Together, Touch(Command[i].target, "move", moves \cup ReleaseParts(done),
                                     Screen(pair.all)),
                     IF k = Steps THEN "finished" ELSE "moving")
           /\ pair' = [pair EXCEPT !.step = k, !.left = @ \ done]
           /\ runner' = [i \in Ids |-> IF i \in done THEN [runner[i] EXCEPT !.stage = "over"]
                                       ELSE IF i \in pair.left THEN Moved(i, step(i))
                                       ELSE runner[i]]
    /\ UNCHANGED <<script, application, tapScreen, down, told>>

(* What is sent when the time line is at its end.                          *)
AtEnd(owner) ==
    IF owner # Together
    THEN Move(owner, EndPoints(owner))
         \o (IF Command[owner].release /\ ~Command[owner].drag
             THEN Sent(owner, "release", End(Command[owner])) ELSE <<>>)
    ELSE LET t == Command[CHOOSE i \in pair.left : TRUE].target
             moves == {Part(i, "move", End(Command[i])) :
                           i \in {j \in pair.left : EndPoints(j) # runner[j].previous}}
         IN  Touch(t, "move", moves, Screen(pair.all))
             \o Touch(t, "release", ReleaseParts(pair.left), Screen(pair.all))

-----------------------------------------------------------------------------
(* MouseHandler taps at once, or leaves it to a Tapper.  The generator is  *)
(* set to the screen or not by every command.                              *)
Taps(i) ==
    ByPointers(i, "press", <<Command[i].center>>) \o ByPointers(i, "release", <<Command[i].center>>)

Tap(i) ==
    /\ Performed({i})
    /\ IF Command[i].target \notin alive THEN UNCHANGED <<runner, frames, tapScreen>>
       ELSE /\ tapScreen' = Command[i].screen
            /\ IF Command[i].repeated
               THEN /\ runner' = [runner EXCEPT ![i] = [Idle EXCEPT !.stage = "tapping",
                                                                    !.left = Command[i].count]]
                    /\ UNCHANGED frames
               ELSE /\ Call(i, FlattenSeq([n \in 1..Command[i].count |-> Taps(i)]), "over")
                    /\ UNCHANGED runner
    /\ UNCHANGED <<application, pair, down, told>>

TapperTap(i) ==
    /\ EventsProcessed /\ ~crashed /\ ~Running(i)
    /\ runner[i].stage = "tapping"
    /\ runner' = [runner EXCEPT ![i].left = @ - 1]
    /\ Call(i, Taps(i), IF runner[i].left > 1 THEN "tapping" ELSE "over")
    /\ UNCHANGED <<script, application, pair, tapScreen, down, told>>

-----------------------------------------------------------------------------
(* How an event goes: a tap by the way the generator is set to now.        *)
Route(i, by) ==
    IF Command[i].name = "Tap" /\ by # "touch"
    THEN (IF tapScreen THEN "screen" ELSE "mouse") ELSE by

Pressed(i, by) ==
    CASE Route(i, by) = "touch" -> <<"touch", i>>
      [] Route(i, by) = "mouse" -> <<"mouse", Command[i].target>>
      [] OTHER                  -> <<"screen", "system">>

(* The next event of the innermost call: the widgets are used whether they *)
(* are still there or not.                                                 *)
Send ==
    /\ frames # <<>> /\ ~crashed /\ Last(frames).todo # <<>>
    /\ LET f == Last(frames)
           e == Head(f.todo)
           now(what) == {Pressed(x.of, e.by) : x \in {y \in e.parts : y.what = what}}
       IN  IF ~(e.targets \subseteq alive)
           THEN crashed' = TRUE /\ UNCHANGED <<frames, down, told>>
           ELSE /\ frames' = [frames EXCEPT ![Len(frames)] =
                                  [f EXCEPT !.todo = Tail(@), !.sent = TRUE]]
                /\ down' = (down \cup now("press")) \ now("release")
                /\ told' = [i \in Ids |-> [p \in Pointers |->
                       IF p # e.by \/ \A x \in e.parts : x.of # i THEN told[i][p]
                       ELSE LET x == CHOOSE y \in e.parts : y.of = i IN
                            [what |-> x.what, points |-> x.points,
                             rest |-> x.what = "move" /\ told[i][p].what = "move"
                                      /\ x.points = told[i][p].points]]]
                /\ UNCHANGED crashed
    /\ UNCHANGED <<script, alive, life, runner, pair, tapScreen>>

SetStage(owner, stage) ==
    IF owner = Together
    THEN /\ pair' = [pair EXCEPT !.stage = stage]
         /\ runner' = [i \in Ids |-> IF stage = "over" /\ runner[i].stage = "together"
                                     THEN [runner[i] EXCEPT !.stage = "over"] ELSE runner[i]]
    ELSE runner' = [runner EXCEPT ![owner].stage = stage] /\ UNCHANGED pair

(* The innermost call is done: the time line starts or goes on, or it was  *)
(* at its end, after which a drag pauses before its release.               *)
Finished(f) ==
    LET drag == f.owner # Together /\ Command[f.owner].drag /\ Command[f.owner].release IN
    /\ frames' = Append(Front(frames), [f EXCEPT !.todo = AtEnd(f.owner), !.sent = FALSE,
                                                 !.then = IF drag THEN "pausing" ELSE "over"])
    /\ UNCHANGED <<runner, pair>>

Return ==
    /\ frames # <<>> /\ ~crashed /\ Last(frames).todo = <<>>
    /\ LET f == Last(frames) IN
       IF f.then = "finished" THEN Finished(f)
       ELSE frames' = Front(frames) /\ SetStage(f.owner, f.then)
    /\ UNCHANGED <<script, application, tapScreen, down, told>>

GestureNext ==
    \/ \E i \in TimeLines : StartGesture(i) \/ ReleaseMouse(i)
    \/ \E i \in TimeLines, k \in 1..Steps : GestureTimerEvent(i, k)
    \/ StartGestures
    \/ \E k \in 1..Steps : GesturesTimerEvent(k)
    \/ \E i \in Ids \ TimeLines : Tap(i) \/ TapperTap(i)
    \/ Send \/ Return

GestureTypes ==
    /\ ScriptFits(script)
    /\ DOMAIN runner = Ids
    /\ \A i \in Ids : /\ DOMAIN runner[i] = DOMAIN Idle
                      /\ runner[i].stage \in IF i \notin TimeLines THEN {"none", "tapping", "over"}
                            ELSE {"none", "starting", "moving", "pausing", "together", "over"}
    /\ DOMAIN pair = {"stage", "step", "left", "all"}
    /\ pair.stage \in {"none", "starting", "moving", "over"}
    /\ pair.left \subseteq pair.all /\ pair.all \subseteq TimeLines
    /\ \A f \in Range(frames) :
          /\ f.owner \in Ids \cup {Together}
          /\ f.then \in {"moving", "finished", "pausing", "tapping", "over"}
    /\ \A i \in Ids : DOMAIN told[i] = Pointers

-----------------------------------------------------------------------------
Over ==
    /\ script = <<>> /\ frames = <<>> /\ ~crashed
    /\ \A i \in Ids : runner[i].stage \in {"none", "over"}
    /\ pair.stage \in {"none", "over"}

(* Whatever goes on inside and beside it, no gesture or tap that is to     *)
(* press and release leaves anything pressed when all is done, unless the  *)
(* taps are some by the screen and some not.                               *)
TapsAgree ==
    \A i, j \in {k \in Ids \ TimeLines : runner[k].stage = "over"} :
        Command[i].screen = Command[j].screen

NothingLeftDown ==
    (Over /\ TapsAgree) =>
        down \subseteq {Pressed(i, p) : p \in Pointers,
                            i \in {j \in TimeLines : runner[j].stage = "over" /\ ~Command[j].release}}

(* A move to where the last was would make a long tap of a gesture: on its *)
(* way no gesture rests, alone or with others.                             *)
NeverRests ==
    \A i \in Ids : ~told[i]["touch"].rest /\ ~told[i]["mouse"].rest

(* A gesture is what its command says it is, to the application: it does   *)
(* not rest on its way and it ends (TasGestureRunner::timerEvent).         *)
GesturesAreTrue == NothingLeftDown /\ NeverRests
=============================================================================
