--------------------------- MODULE UiCommandService ---------------------------
(***************************************************************************)
(* UiCommandService: the queue of interaction commands of a plugin, the    *)
(* timer that performs them, and the handlers that send the application    *)
(* the touches they consist of.                                            *)
(*                                                                         *)
(* Every touch is posted to the application and qApp->processEvents()      *)
(* called.  That is where the application handles it, and also where the   *)
(* next request is read and the timer, which executeNextCommand stopped    *)
(* and a request starts anew, performs the next command inside the one     *)
(* that is going on.  frames holds the calls of executeNextCommand,        *)
(* outermost first.                                                        *)
(***************************************************************************)
EXTENDS TouchPoints

CONSTANTS
    Requests,     \* interaction requests, each sent once
    Targets,      \* Targets[r]: the targets of a request, in order
    MultiTouch,   \* the requests that are multi-touch
    ItemOf,       \* ItemOf[t]: what a target touches
    Touches,      \* Touches[t]: what its commands do; a tap is a press and a release
    Missing       \* targets whose object is not in the application

AllTargets == UNION {Range(Targets[r]) : r \in Requests}
MultiTargets == UNION {Range(Targets[r]) : r \in MultiTouch}

(* Two multi-touch targets that press, or release, one item would be two   *)
(* fingers on it, with a list of ids.  One may press what another releases.*)
ASSUME UiAssumption ==
    /\ \A r \in Requests : Targets[r] \in Seq(AllTargets) \ {<<>>}
    /\ \A q, r \in Requests : q # r => Range(Targets[q]) \cap Range(Targets[r]) = {}
    /\ \A r \in Requests : IsInjective(Targets[r])
    /\ MultiTouch \subseteq Requests
    /\ \A t, u \in MultiTargets : t # u /\ ItemOf[t] = ItemOf[u] =>
          Range(Touches[t]) \cap Range(Touches[u]) \cap {"press", "release"} = {}
    /\ IsFiniteSet(Items)
    /\ ItemOf \in [AllTargets -> Items]
    /\ Touches \in [AllTargets -> Seq({"press", "move", "release"})]
    /\ Missing \subseteq AllTargets

VARIABLES
    unread,                \* requests the plugin has not read
    mCommandQueue,
    mMultiTouchCommands,
    mTimer,                \* the timer is running
    frames,                \* what each executeNextCommand has still to do
    touch,                 \* the touch event generator
    down,                  \* the touch points the application thinks are down
    held,                  \* the items that were pressed and not released
    accepted,              \* the single targets of the requests that were answered
    started,               \* those taken up, in order
    crossed                \* items that were pressed anew while the release that a
                           \* multi-touch interaction had made of their points was
                           \* still to be sent (all three are history)

vars == <<unread, mCommandQueue, mMultiTouchCommands, mTimer, frames, touch, down,
          held, accepted, started, crossed>>

Single == AllTargets \ MultiTargets
MultiItems == {ItemOf[t] : t \in MultiTargets}

Events == [what : {"begin", "end"}, points : SUBSET (MultiItems \X Nat)]
          \cup [what : {"press", "move", "release"}, item : {ItemOf[t] : t \in Single}]

TypeOK ==
    /\ unread \subseteq Requests
    /\ mCommandQueue \in Seq(Single)
    /\ mMultiTouchCommands \in Seq(MultiTargets)
    /\ mTimer \in BOOLEAN
    /\ frames \in Seq([multi : BOOLEAN, sent : BOOLEAN, todo : Seq(Events)])
    /\ touch \in [counter : Nat, id : [Items -> 0..Cardinality(Items)]]
    /\ touch.counter <= Cardinality({i \in Items : Kept(touch, i)})
    /\ down \subseteq Items \X Nat
    /\ held \subseteq Items
    /\ accepted \in Seq(Single)
    /\ started \in Seq(Single)
    /\ crossed \subseteq Items

Init ==
    /\ unread = Requests
    /\ mCommandQueue = <<>>
    /\ mMultiTouchCommands = <<>>
    /\ mTimer = FALSE
    /\ frames = <<>>
    /\ touch = NoTouch
    /\ down = {}
    /\ held = {}
    /\ accepted = <<>>
    /\ started = <<>>
    /\ crossed = {}

-----------------------------------------------------------------------------
(* sendTouchEvent posts a touch first and then processes events.           *)
EventsProcessed == frames # <<>> => Last(frames).sent

(* Mutant of StartTimer: not while a command is being performed.           *)
StartTimerIfIdle == mTimer' = (mTimer \/ (frames = <<>> /\ mCommandQueue = <<>>))

StartTimer == mTimer' = TRUE

(* A request is read, wherever events are processed, its targets queued    *)
(* and the response sent, which starts the timer.                          *)
ExecuteService(r) ==
    /\ r \in unread /\ EventsProcessed
    /\ unread' = unread \ {r}
    /\ IF r \in MultiTouch
       THEN /\ mMultiTouchCommands' = mMultiTouchCommands \o Targets[r]
            /\ UNCHANGED <<mCommandQueue, accepted>>
       ELSE /\ mCommandQueue' = mCommandQueue \o Targets[r]
            /\ accepted' = accepted \o Targets[r]
            /\ UNCHANGED mMultiTouchCommands
    /\ StartTimer
    /\ UNCHANGED <<frames, touch, down, held, started, crossed>>

-----------------------------------------------------------------------------
Found(t) == t \notin Missing

(* The touches of a single target: nothing if its object is not found.     *)
Interaction(t) ==
    IF ~Found(t) THEN <<>>
    ELSE [k \in DOMAIN Touches[t] |-> [what |-> Touches[t][k], item |-> ItemOf[t]]]

(* The items of a multi-touch interaction that are pressed, or released.   *)
ItemsWith(ts, what) ==
    {ItemOf[t] : t \in {u \in Range(ts) : Found(u) /\ what \in Range(Touches[u])}}

Event(what, points) ==
    IF points = {} THEN <<>> ELSE <<[what |-> what, points |-> points]>>

(* The timer fires: executeNextCommand up to its first touch.  The handler *)
(* makes the points of both its events before it sends the first.          *)
PerformMultiTouch ==
    /\ mTimer /\ EventsProcessed /\ mMultiTouchCommands # <<>>
    /\ mTimer' = FALSE
    /\ \E begin \in PressAll(touch, ItemsWith(mMultiTouchCommands, "press")) :
       \E end \in ReleaseAll(begin.after, ItemsWith(mMultiTouchCommands, "release")) :
         /\ frames' = Append(frames, [multi |-> TRUE, sent |-> FALSE,
                                      todo |-> Event("begin", begin.points)
                                               \o Event("end", end.points)])
         /\ touch' = end.after
    /\ UNCHANGED <<unread, mCommandQueue, mMultiTouchCommands, down, held, accepted,
                   started, crossed>>

(* Mutant of Dequeue: the last target that was queued.                     *)
DequeueLast(q) == [next |-> Last(q), rest |-> Front(q)]

Dequeue(q) == [next |-> Head(q), rest |-> Tail(q)]

PerformNext ==
    /\ mTimer /\ EventsProcessed /\ mMultiTouchCommands = <<>> /\ mCommandQueue # <<>>
    /\ mTimer' = FALSE
    /\ mCommandQueue' = Dequeue(mCommandQueue).rest
    /\ frames' = Append(frames, [multi |-> FALSE, sent |-> FALSE,
                                 todo |-> Interaction(Dequeue(mCommandQueue).next)])
    /\ started' = Append(started, Dequeue(mCommandQueue).next)
    /\ UNCHANGED <<unread, mMultiTouchCommands, touch, down, held, accepted, crossed>>

(* The timer fires for nothing: another executeNextCommand was faster.     *)
PerformNothing ==
    /\ mTimer /\ EventsProcessed /\ mMultiTouchCommands = <<>> /\ mCommandQueue = <<>>
    /\ mTimer' = FALSE
    /\ UNCHANGED <<unread, mCommandQueue, mMultiTouchCommands, frames, touch, down,
                   held, accepted, started, crossed>>

-----------------------------------------------------------------------------
(* What the application makes of the touch events.                         *)
TouchBegin(points) ==
    /\ down' = down \cup points
    /\ held' = held \cup {pt[1] : pt \in points}

TouchEnd(points) ==
    /\ down' = down \ points
    /\ held' = held \ {pt[1] : pt \in points}

SendTouch(e) ==
    \/ /\ e.what = "press"
       /\ touch' = Touched(touch, e.item)
       /\ TouchBegin({Point(touch, e.item)})
    \/ /\ e.what = "move"
       /\ touch' = Touched(touch, e.item)
       /\ UNCHANGED <<down, held>>
    \/ /\ e.what = "release"
       /\ touch' = Released(touch, e.item)
       /\ TouchEnd({Point(touch, e.item)})
    \/ /\ e.what = "begin"
       /\ TouchBegin(e.points)
       /\ UNCHANGED touch
    \/ /\ e.what = "end"
       /\ TouchEnd(e.points)
       /\ UNCHANGED touch

(* The points that the calls in progress have still to release: those of   *)
(* both events of a multi-touch interaction are made before the first.     *)
EndOf(todo) == UNION {e.points : e \in {d \in Range(todo) : d.what = "end"}}
ToEnd == UNION {EndOf(frames[n].todo) : n \in DOMAIN frames}

(* Items that get a point of their own while another is to be released.    *)
Crossing == {pt[1] : pt \in (down' \ down) \ ToEnd} \cap {pt[1] : pt \in ToEnd}

(* The innermost executeNextCommand sends its next touch.                  *)
Interact ==
    /\ frames # <<>> /\ Last(frames).todo # <<>>
    /\ SendTouch(Head(Last(frames).todo))
    /\ crossed' = crossed \cup Crossing
    /\ frames' = [frames EXCEPT ![Len(frames)] =
                     [multi |-> @.multi, sent |-> TRUE, todo |-> Tail(@.todo)]]
    /\ UNCHANGED <<unread, mCommandQueue, mMultiTouchCommands, mTimer, accepted,
                   started>>

(* Mutant of RestartTimer: only a request starts the timer.                *)
RestartTimerNever == UNCHANGED mTimer

RestartTimer == mTimer' = (mTimer \/ mCommandQueue # <<>>)

(* The innermost executeNextCommand returns.  After a multi-touch          *)
(* interaction all multi-touch targets are deleted.                        *)
Done ==
    /\ frames # <<>> /\ Last(frames).todo = <<>>
    /\ frames' = Front(frames)
    /\ mMultiTouchCommands' = IF Last(frames).multi THEN <<>> ELSE mMultiTouchCommands
    /\ RestartTimer
    /\ UNCHANGED <<unread, mCommandQueue, touch, down, held, accepted, started, crossed>>

Next ==
    \/ \E r \in Requests : ExecuteService(r)
    \/ PerformMultiTouch
    \/ PerformNext
    \/ PerformNothing
    \/ Interact
    \/ Done

Spec == Init /\ [][Next]_vars

(* A running timer fires sooner or later, which no step but the Perform    *)
(* ones does, and the application returns from its handlers.               *)
Fires == mTimer /\ mTimer' = FALSE

FairSpec ==
    /\ Spec
    /\ WF_mTimer(Fires)
    /\ WF_vars(Interact \/ Done)

-----------------------------------------------------------------------------
(* There is no target left over that nothing would perform: the timer      *)
(* runs, or an executeNextCommand is going on that will start it.          *)
NoStall ==
    /\ mCommandQueue # <<>> => mTimer \/ frames # <<>>
    /\ mMultiTouchCommands # <<>> => mTimer \/ frames # <<>>

(* Single targets are taken up in the order in which their requests were   *)
(* answered and each only once, however the calls nest.                    *)
StartedInOrder == IsPrefix(started, accepted)

(* When all interactions are over, the items whose last touch was a press  *)
(* have a finger on them and no other item has, however single targets and *)
(* multi-touch ones share items, are nested and get their ids from one     *)
(* counter.  The exception is where the code leaves a finger: pressed      *)
(* between the events of a multi-touch tap of the same item, whose id is   *)
(* forgotten by then, the item gets another point, and the end event takes *)
(* back the first.                                                         *)
NoFingerLeft ==
    frames = <<>> => /\ \A i \in held : \E pt \in down : pt[1] = i
                     /\ \A pt \in down : pt[1] \in held \cup crossed

(* Whatever is answered, and wherever, the service comes to rest again and *)
(* again: nothing is queued, nothing going on, and every single target     *)
(* that was accepted has been performed.                                   *)
EveryTargetPerformed ==
    []<>(/\ frames = <<>> /\ mCommandQueue = <<>> /\ mMultiTouchCommands = <<>>
         /\ Range(accepted) \subseteq Range(started))
=============================================================================
