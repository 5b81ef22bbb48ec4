----------------------------- MODULE GesturePaths -----------------------------
(***************************************************************************)
(* The gesture recognizers and the TasGestures they make of a command:     *)
(* which points a gesture starts at, passes and ends at.  A gesture runs   *)
(* along a QTimeLine, whose values from 0 to 1 are the steps 0..Steps, and *)
(* has one point, or two for a pinch or a rotation.                        *)
(*                                                                         *)
(* The places are those of a line, so that a direction is forth or back;   *)
(* of a rotation they are angles.                                          *)
(***************************************************************************)
EXTENDS Integers, Sequences, SequencesExt, FiniteSets, FiniteSetsExt, Functions

CONSTANTS Steps,    \* steps of a time line
          FrameTime, \* FRAME_RANGE_DIV
          Beyond    \* what is read beyond the end of a list of intervals

ASSUME PathAssumption == Steps \in Nat \ {0} /\ FrameTime \in Nat \ {0} /\ Beyond \in Int

NullPoint == 0
NoPlace == -1000   \* of a target that is not found

(* What a command may say; a recognizer looks at the parameters it needs.  *)
NoParameters ==
    [name |-> "MouseGesture", center |-> NullPoint, at |-> NoPlace, to |-> NoPlace,
     distance |-> 0, second |-> 0, apart |-> 0, in |-> TRUE, onePoint |-> FALSE,
     clockwise |-> FALSE, points |-> <<>>, intervals |-> <<>>, complete |-> TRUE]

-----------------------------------------------------------------------------
LineNames == {"MouseGesture", "MouseGestureTo", "MouseGestureToCoordinates",
              "MouseGestureFromCoordinates"}

IsGesture(c) == c.name \in LineNames \cup {"MouseGesturePoints", "PinchZoom", "Rotate"}

(* A line is given by its ends.  A target that is not found is the null    *)
(* point.                                                                  *)
Line(c) ==
    CASE c.name = "MouseGesture"                -> <<c.center, c.center + c.distance>>
      [] c.name = "MouseGestureFromCoordinates" -> <<c.at, c.at + c.distance>>
      [] c.name = "MouseGestureToCoordinates"   -> <<c.center, c.at>>
      [] c.name = "MouseGestureTo" ->
             <<c.center, IF c.to = NoPlace THEN NullPoint ELSE c.to>>

Centre(c) == IF c.at = NoPlace THEN c.center ELSE c.at

(* The two lines of a pinch, which a zoom out goes backwards.              *)
PinchLines(c) ==
    LET half == IF c.apart > 1 THEN c.apart \div 2 ELSE 0
        line1 == <<Centre(c) + half, Centre(c) + half + c.distance>>
        line2 == <<Centre(c) - half, Centre(c) - half - c.second>>
    IN  IF c.in THEN <<line1, line2>> ELSE <<Reverse(line1), Reverse(line2)>>

(* The angles that the points of a rotation pass: of one point only one    *)
(* end of the line moves.                                                  *)
Turn(c) == IF c.clockwise THEN -c.distance ELSE c.distance
Arcs(c) == <<IF c.onePoint THEN <<Centre(c), Centre(c)>> ELSE <<180, 180 + Turn(c)>>,
             <<0, Turn(c)>>>>

PointAt(line, k) == line[1] + ((line[2] - line[1]) * k) \div Steps

-----------------------------------------------------------------------------
(* The points of MouseGesturePoints are repeated as often as the time      *)
(* until the next has frames, each at least once.  There may be fewer      *)
(* intervals than points: what is beyond them is read.                     *)
Duration(intervals) == Max({FoldSeq(+, 0, intervals), FrameTime})

CalculateAnimation(c) ==
    LET duration == Duration(c.intervals)
        frameTime == duration \div (duration \div FrameTime)
        interval(i) == IF i \in DOMAIN c.intervals THEN c.intervals[i] ELSE Beyond
        times(i) == Max({1, interval(i) \div frameTime})
    IN  FlattenSeq([i \in DOMAIN c.points |-> [j \in 1..times(i) |-> c.points[i]]])

(* qRound(value * size), or the last.                                      *)
Passed(points, k) ==
    LET step == (2 * k * Len(points) + Steps) \div (2 * Steps) IN
    IF points = <<>> THEN NullPoint ELSE points[Min({step + 1, Len(points)})]

-----------------------------------------------------------------------------
(* A recognizer gives no gesture for an incomplete command, which the      *)
(* application does not survive.                                           *)
Crashes(c) == c.name \in {"PinchZoom", "Rotate"} /\ ~c.complete

(* pointsAt, without the last and first point that go with it.             *)
At(c, k) ==
    CASE c.name \in LineNames -> <<PointAt(Line(c), k)>>
      [] c.name = "MouseGesturePoints" -> <<Passed(CalculateAnimation(c), k)>>
      [] c.name = "PinchZoom" -> [i \in 1..2 |-> PointAt(PinchLines(c)[i], k)]
      [] c.name = "Rotate"    -> [i \in 1..2 |-> PointAt(Arcs(c)[i], k)]

Start(c) ==
    IF c.name = "MouseGesturePoints" /\ c.points # <<>> THEN <<Head(c.points)>> ELSE At(c, 0)

End(c) ==
    IF c.name = "MouseGesturePoints" /\ c.points # <<>> THEN <<Last(c.points)>> ELSE At(c, Steps)
=============================================================================
