------------------------ MODULE UiCommandService_proofs ------------------------
(***************************************************************************)
(* For any requests and targets, and however deep the calls nest: the      *)
(* queues of UiCommandService do not stall, single targets are taken up in *)
(* order, and no touch point stays down that was released.                 *)
(*                                                                         *)
(* The timer is started again after an interaction only if the queue of    *)
(* single targets is not empty.  For multi-touch targets it is therefore   *)
(* not enough that some executeNextCommand is going on: it has to be one   *)
(* that performs a multi-touch interaction and will delete them.           *)
(***************************************************************************)
EXTENDS UiCommandService, FiniteSetTheorems, SequenceTheorems, TLAPS

Frame(S) == [multi : BOOLEAN, sent : BOOLEAN, todo : S]

QueueServed == mCommandQueue # <<>> => mTimer \/ frames # <<>>

MultiTouchServed ==
    mMultiTouchCommands # <<>> => mTimer \/ \E k \in DOMAIN frames : frames[k].multi

NoStallInv ==
    /\ \E S : frames \in Seq(Frame(S))
    /\ mTimer \in BOOLEAN
    /\ QueueServed
    /\ MultiTouchServed

(* A sequence stays one when its elements are taken from a larger set.     *)
LEMMA SeqOfMore ==
    ASSUME NEW S, NEW T, S \subseteq T, NEW s \in Seq(S)
    PROVE  s \in Seq(T)
  OBVIOUS

(* One more call of executeNextCommand.                                    *)
LEMMA Call ==
    ASSUME NEW S, NEW fs \in Seq(Frame(S)), NEW m \in BOOLEAN, NEW todo,
           NEW fs2, fs2 = Append(fs, [multi |-> m, sent |-> FALSE, todo |-> todo])
    PROVE  /\ \E T : fs2 \in Seq(Frame(T))
           /\ fs2 # <<>>
           /\ m => \E k \in DOMAIN fs2 : fs2[k].multi
<1> DEFINE T == S \cup {todo}
           call == [multi |-> m, sent |-> FALSE, todo |-> todo]
<1>1. Frame(S) \subseteq Frame(T)
  BY DEF Frame
<1>2. fs \in Seq(Frame(T))
  BY <1>1, SeqOfMore
<1>3. call \in Frame(T)
  BY DEF Frame
<1>4. fs2 \in Seq(Frame(T))
  BY <1>2, <1>3
<1>5. Len(fs2) \in DOMAIN fs2 /\ fs2[Len(fs2)] = call
  BY <1>2, <1>3
<1> QED
  BY <1>4, <1>5

(* The innermost call sends a touch.                                       *)
LEMMA Sends ==
    ASSUME NEW S, NEW fs \in Seq(Frame(S)), fs # <<>>, NEW todo, NEW fs2,
           fs2 = [fs EXCEPT ![Len(fs)] =
                    [multi |-> fs[Len(fs)].multi, sent |-> TRUE, todo |-> todo]]
    PROVE  /\ \E T : fs2 \in Seq(Frame(T))
           /\ fs2 # <<>>
           /\ DOMAIN fs2 = DOMAIN fs
           /\ \A k \in DOMAIN fs : fs2[k].multi = fs[k].multi
<1> DEFINE T == S \cup {todo}
           new == [multi |-> fs[Len(fs)].multi, sent |-> TRUE, todo |-> todo]
<1>1. Len(fs) \in 1..Len(fs) /\ DOMAIN fs = 1..Len(fs) /\ fs[Len(fs)] \in Frame(S)
  OBVIOUS
<1>2. Frame(S) \subseteq Frame(T) /\ new \in Frame(T)
  BY <1>1 DEF Frame
<1>3. fs \in Seq(Frame(T))
  BY <1>2, SeqOfMore
<1>4. fs2 \in Seq(Frame(T)) /\ Len(fs2) = Len(fs)
  BY <1>1, <1>2, <1>3, ExceptSeq
<1>5. \A k \in DOMAIN fs : fs2[k].multi = fs[k].multi
  BY <1>1
<1> QED
  BY <1>1, <1>4, <1>5

(* The innermost call returns.                                             *)
LEMMA Returns ==
    ASSUME NEW S, NEW fs \in Seq(Frame(S)), fs # <<>>
    PROVE  /\ Front(fs) \in Seq(Frame(S))
           /\ (~Last(fs).multi /\ \E k \in DOMAIN fs : fs[k].multi)
                => \E k \in DOMAIN Front(fs) : Front(fs)[k].multi
<1>1. Len(fs) \in Nat \ {0} /\ DOMAIN fs = 1..Len(fs)
  OBVIOUS
<1>2. /\ Front(fs) \in Seq(Frame(S))
      /\ DOMAIN Front(fs) = 1..(Len(fs) - 1)
      /\ \A k \in 1..(Len(fs) - 1) : Front(fs)[k] = fs[k]
  BY <1>1 DEF Front
<1>3. ASSUME ~Last(fs).multi, NEW k \in DOMAIN fs, fs[k].multi
      PROVE  k \in DOMAIN Front(fs) /\ Front(fs)[k].multi
  BY <1>1, <1>2, <1>3 DEF Last
<1> QED
  BY <1>2, <1>3

LEMMA InitNoStall == Init => NoStallInv
<1> SUFFICES ASSUME Init PROVE NoStallInv
  OBVIOUS
<1>1. frames \in Seq(Frame({}))
  BY DEF Init
<1> QED
  BY <1>1 DEF Init, NoStallInv, QueueServed, MultiTouchServed

LEMMA NextNoStall == NoStallInv /\ [Next]_vars => NoStallInv'
<1> SUFFICES ASSUME NoStallInv, [Next]_vars PROVE NoStallInv'
  OBVIOUS
<1> PICK S : frames \in Seq(Frame(S))
  BY DEF NoStallInv
<1>1. ASSUME NEW r \in Requests, ExecuteService(r) PROVE NoStallInv'
  BY <1>1 DEF NoStallInv, QueueServed, MultiTouchServed, ExecuteService, StartTimer
<1>2. CASE PerformMultiTouch
  <2>1. PICK todo : frames' = Append(frames, [multi |-> TRUE, sent |-> FALSE, todo |-> todo])
    BY <1>2 DEF PerformMultiTouch
  <2>2. /\ \E T : frames' \in Seq(Frame(T))
        /\ frames' # <<>>
        /\ \E k \in DOMAIN frames' : frames'[k].multi
    BY <2>1, Call
  <2> QED
    BY <1>2, <2>2 DEF NoStallInv, QueueServed, MultiTouchServed, PerformMultiTouch
<1>3. CASE PerformNext
  <2>1. PICK todo : frames' = Append(frames, [multi |-> FALSE, sent |-> FALSE, todo |-> todo])
    BY <1>3 DEF PerformNext
  <2>2. (\E T : frames' \in Seq(Frame(T))) /\ frames' # <<>>
    BY <2>1, Call
  <2> QED
    BY <1>3, <2>2 DEF NoStallInv, QueueServed, MultiTouchServed, PerformNext
<1>4. CASE PerformNothing
  BY <1>4 DEF NoStallInv, QueueServed, MultiTouchServed, PerformNothing
<1>5. CASE Interact
  <2> DEFINE todo == Tail(frames[Len(frames)].todo)
             new == [multi |-> frames[Len(frames)].multi, sent |-> TRUE, todo |-> todo]
  <2>1. frames # <<>> /\ frames[Len(frames)] \in Frame(S)
    BY <1>5 DEF Interact
  <2>2. frames' = [frames EXCEPT ![Len(frames)] = new]
    BY <1>5 DEF Interact
  <2>3. /\ \E T : frames' \in Seq(Frame(T))
        /\ frames' # <<>>
        /\ DOMAIN frames' = DOMAIN frames
        /\ \A k \in DOMAIN frames : frames'[k].multi = frames[k].multi
    BY <2>1, <2>2, Sends
  <2> QED
    BY <1>5, <2>3 DEF NoStallInv, QueueServed, MultiTouchServed, Interact
<1>6. CASE Done
  <2>1. frames # <<>> /\ frames' = Front(frames)
    BY <1>6 DEF Done
  <2>2. frames' \in Seq(Frame(S))
    BY <2>1, Returns
  <2>3. QueueServed'
    BY <1>6 DEF Done, RestartTimer, QueueServed
  <2>4. MultiTouchServed'
    <3>1. CASE Last(frames).multi
      BY <1>6, <3>1 DEF Done, MultiTouchServed
    <3>2. CASE ~Last(frames).multi
      <4>1. mMultiTouchCommands' = mMultiTouchCommands /\ (mTimer => mTimer')
        BY <1>6, <3>2 DEF Done, RestartTimer
      <4>2. (\E k \in DOMAIN frames : frames[k].multi)
              => \E k \in DOMAIN frames' : frames'[k].multi
        BY <2>1, <3>2, Returns
      <4> QED
        BY <4>1, <4>2 DEF NoStallInv, MultiTouchServed
    <3> QED
      BY <3>1, <3>2
  <2>5. mTimer' \in BOOLEAN
    BY <1>6 DEF Done, RestartTimer
  <2> QED
    BY <2>2, <2>3, <2>4, <2>5 DEF NoStallInv
<1>7. CASE UNCHANGED vars
  BY <1>7 DEF NoStallInv, QueueServed, MultiTouchServed, vars
<1> QED
  BY <1>1, <1>2, <1>3, <1>4, <1>5, <1>6, <1>7 DEF Next

(* No target that was accepted is left where nothing would take it up:     *)
(* executeNextCommand stops the timer first, and a call of it starts it    *)
(* again only for single targets, yet none is stranded by any nesting.     *)
THEOREM QueuesNeverStall == Spec => []NoStall
<1>1. NoStallInv => NoStall
  <2> SUFFICES ASSUME NoStallInv PROVE NoStall
    OBVIOUS
  <2> PICK S : frames \in Seq(Frame(S))
    BY DEF NoStallInv
  <2>1. (\E k \in DOMAIN frames : frames[k].multi) => frames # <<>>
    OBVIOUS
  <2> QED
    BY <2>1 DEF NoStallInv, NoStall, QueueServed, MultiTouchServed
<1> QED
  BY <1>1, InitNoStall, NextNoStall, PTL DEF Spec

-----------------------------------------------------------------------------
(* The order of the single targets.                                        *)

OrderInv ==
    /\ accepted \in Seq(AllTargets) /\ started \in Seq(AllTargets)
    /\ mCommandQueue \in Seq(AllTargets)
    /\ accepted = started \o mCommandQueue

LEMMA ThreeSeqs ==
    ASSUME NEW S, NEW s \in Seq(S), NEW t \in Seq(S), NEW u \in Seq(S)
    PROVE  s \o t \in Seq(S) /\ t \o u \in Seq(S) /\ (s \o t) \o u = s \o (t \o u)
<1>1. (s \o t) \o u = s \o (t \o u)
  BY ConcatAssociative
<1> QED
  BY <1>1

LEMMA OneMoved ==
    ASSUME NEW S, NEW s \in Seq(S), NEW t \in Seq(S), t # <<>>
    PROVE  /\ Tail(t) \in Seq(S) /\ Append(s, Head(t)) \in Seq(S)
           /\ Append(s, Head(t)) \o Tail(t) = s \o t
  OBVIOUS

LEMMA InitOrder == Init => OrderInv
  BY DEF Init, OrderInv

LEMMA NextOrder == OrderInv /\ [Next]_vars => OrderInv'
<1> SUFFICES ASSUME OrderInv, [Next]_vars PROVE OrderInv'
  OBVIOUS
<1>1. ASSUME NEW r \in Requests, ExecuteService(r) PROVE OrderInv'
  <2>1. Targets[r] \in Seq(AllTargets)
    BY UiAssumption
  <2>2. /\ mCommandQueue \o Targets[r] \in Seq(AllTargets)
        /\ accepted \o Targets[r] \in Seq(AllTargets)
        /\ accepted \o Targets[r] = started \o (mCommandQueue \o Targets[r])
    <3>1. /\ accepted \in Seq(AllTargets) /\ started \in Seq(AllTargets)
          /\ mCommandQueue \in Seq(AllTargets) /\ accepted = started \o mCommandQueue
      BY DEF OrderInv
    <3>2. PICK t \in Seq(AllTargets) : t = Targets[r]
      BY <2>1
    <3>3. mCommandQueue \o t \in Seq(AllTargets) /\ accepted \o t \in Seq(AllTargets)
      BY <3>1
    <3>4. (started \o mCommandQueue) \o t = started \o (mCommandQueue \o t)
      BY <3>1, ConcatAssociative
    <3> QED
      BY ONLY <3>1, <3>2, <3>3, <3>4
  <2>3. /\ started' = started
        /\ \/ mCommandQueue' = mCommandQueue /\ accepted' = accepted
           \/ mCommandQueue' = mCommandQueue \o Targets[r] /\ accepted' = accepted \o Targets[r]
    BY <1>1 DEF ExecuteService
  <2>4. CASE mCommandQueue' = mCommandQueue /\ accepted' = accepted
    BY <2>3, <2>4 DEF OrderInv
  <2>5. CASE mCommandQueue' = mCommandQueue \o Targets[r] /\ accepted' = accepted \o Targets[r]
    <3>1. accepted' = started' \o mCommandQueue'
      BY ONLY <2>2, <2>3, <2>5
    <3> QED
      BY <2>2, <2>3, <2>5, <3>1 DEF OrderInv
  <2> QED
    BY <2>3, <2>4, <2>5
<1>2. CASE PerformNext
  <2>1. mCommandQueue # <<>>
    BY <1>2 DEF PerformNext
  <2>2. /\ Tail(mCommandQueue) \in Seq(AllTargets)
        /\ Append(started, Head(mCommandQueue)) \in Seq(AllTargets)
        /\ Append(started, Head(mCommandQueue)) \o Tail(mCommandQueue) = accepted
    BY <2>1, OneMoved DEF OrderInv
  <2>3. /\ mCommandQueue' = Tail(mCommandQueue)
        /\ started' = Append(started, Head(mCommandQueue)) /\ accepted' = accepted
    BY <1>2 DEF PerformNext, Dequeue
  <2>4. accepted' = started' \o mCommandQueue'
    BY ONLY <2>2, <2>3
  <2> QED
    BY <2>2, <2>3, <2>4 DEF OrderInv
<1>3. CASE PerformMultiTouch \/ PerformNothing \/ Interact \/ Done \/ UNCHANGED vars
  BY <1>3 DEF PerformMultiTouch, PerformNothing, Interact, Done, vars, OrderInv
<1> QED
  BY <1>1, <1>2, <1>3 DEF Next

(* However deep the calls of executeNextCommand nest: the single targets   *)
(* are taken up in the order in which their requests were answered, none   *)
(* is left out and none performed twice.                                   *)
THEOREM SinglesInOrder == Spec => []StartedInOrder
<1>1. OrderInv => StartedInOrder
  <2> SUFFICES ASSUME OrderInv PROVE StartedInOrder
    OBVIOUS
  <2>1. Len(started) <= Len(accepted)
    BY DEF OrderInv
  <2>2. SubSeq(started, 1, Len(started)) = SubSeq(accepted, 1, Len(started))
    BY DEF OrderInv
  <2> QED
    BY <2>1, <2>2 DEF StartedInOrder, IsPrefix
<1> QED
  BY <1>1, InitOrder, NextOrder, PTL DEF Spec

-----------------------------------------------------------------------------
(* The touch event generator.                                              *)

KeptItems(g) == {i \in Items : Kept(g, i)}

Generates(g) ==
    /\ g \in [counter : Nat, id : [Items -> 0..Cardinality(Items)]]
    /\ g.counter <= Cardinality(KeptItems(g))

Down(g, pt) == Kept(g, pt[1]) /\ pt = Point(g, pt[1])

LEMMA KeptIsFinite ==
    ASSUME NEW g
    PROVE  /\ IsFiniteSet(KeptItems(g)) /\ Cardinality(KeptItems(g)) \in Nat
           /\ Cardinality(Items) \in Nat /\ Cardinality(KeptItems(g)) <= Cardinality(Items)
  BY UiAssumption, FS_Subset, FS_CardinalityType DEF KeptItems

LEMMA TouchedOne ==
    ASSUME NEW g, Generates(g), NEW i \in Items
    PROVE  /\ Generates(Touched(g, i))
           /\ Point(g, i) \in Items \X Nat
           /\ Down(Touched(g, i), Point(g, i))
           /\ Kept(g, i) => Touched(g, i).id = g.id
           /\ \A j \in Items \ {i} : Touched(g, i).id[j] = g.id[j]
<1>1. PICK h : h = Touched(g, i)
  OBVIOUS
<1>2. CASE Kept(g, i)
  <2>1. IdFor(g, i) = g.id[i] /\ h.id = g.id /\ h.counter = g.counter
    BY <1>1, <1>2 DEF Touched, IdFor, Generates
  <2>2. h = g
    BY <1>1, <2>1 DEF Touched, Generates
  <2>3. g.id[i] - 1 \in Nat
    BY <1>2, KeptIsFinite DEF Generates, Kept
  <2> QED
    BY <1>1, <1>2, <2>1, <2>2, <2>3 DEF Down, Point
<1>3. CASE ~Kept(g, i)
  <2>1. PICK c \in Nat : c = g.counter
    BY DEF Generates
  <2>2. IdFor(g, i) = c + 1 /\ h.counter = c + 1 /\ h.id = [g.id EXCEPT ![i] = c + 1]
    BY <1>1, <1>3, <2>1 DEF Touched, IdFor
  <2>3. KeptItems(h) = KeptItems(g) \cup {i} /\ i \notin KeptItems(g)
    BY <1>3, <2>1, <2>2 DEF KeptItems, Kept, Generates
  <2>4. Cardinality(KeptItems(h)) = Cardinality(KeptItems(g)) + 1
    BY <2>3, KeptIsFinite, FS_AddElement
  <2>5. c + 1 <= Cardinality(KeptItems(h)) /\ c + 1 \in 0..Cardinality(Items)
    BY <2>1, <2>4, KeptIsFinite DEF Generates
  <2>6. DOMAIN h = {"counter", "id"}
    BY <1>1 DEF Touched
  <2>7. h.id \in [Items -> 0..Cardinality(Items)]
    BY <2>2, <2>5 DEF Generates
  <2>8. h = [counter |-> c + 1, id |-> h.id]
    BY <1>1, <2>2 DEF Touched
  <2>9. Generates(h)
    BY <2>1, <2>2, <2>5, <2>7, <2>8 DEF Generates
  <2>10. Point(g, i) = <<i, c>> /\ Point(h, i) = <<i, c>> /\ Kept(h, i)
    BY <2>1, <2>2 DEF Point, IdFor, Kept, Generates
  <2>11. \A j \in Items \ {i} : h.id[j] = g.id[j]
    BY <2>2 DEF Generates
  <2> QED
    BY <1>1, <1>3, <2>1, <2>9, <2>10, <2>11 DEF Down
<1> QED
  BY <1>2, <1>3

LEMMA ReleasedOne ==
    ASSUME NEW g, Generates(g), NEW i \in Items
    PROVE  /\ Generates(Released(g, i))
           /\ \A j \in Items \ {i} : Released(g, i).id[j] = g.id[j]
<1>1. [g.id EXCEPT ![i] = 0] \in [Items -> 0..Cardinality(Items)]
  BY KeptIsFinite DEF Generates
<1> QED
  BY <1>1, KeptIsFinite DEF Released, Generates

LEMMA PressedAll ==
    ASSUME NEW g, Generates(g), NEW is \in SUBSET Items, NEW p \in PressAll(g, is)
    PROVE  /\ Generates(p.after)
           /\ p.points \in SUBSET (is \X Nat)
           /\ \A pt \in p.points : Down(p.after, pt)
           /\ \A i \in Items : Kept(g, i) \/ i \notin is => p.after.id[i] = g.id[i]
<1>1. PICK new : new = {i \in is : ~Kept(g, i)}
  OBVIOUS
<1>2. PICK n : n = Cardinality(new)
  OBVIOUS
<1>3. PICK rank \in Bijection(new, 1..n) :
         \E id : /\ id = [i \in Items |-> IF i \in new THEN g.counter + rank[i] ELSE g.id[i]]
                 /\ p = [points |-> {<<i, id[i] - 1>> : i \in is},
                         after  |-> [counter |-> g.counter + n, id |-> id]]
  BY <1>1, <1>2 DEF PressAll
<1>4. PICK id : /\ id = [i \in Items |-> IF i \in new THEN g.counter + rank[i] ELSE g.id[i]]
                /\ p = [points |-> {<<i, id[i] - 1>> : i \in is},
                        after  |-> [counter |-> g.counter + n, id |-> id]]
  BY <1>3
<1>5. IsFiniteSet(new) /\ n \in Nat
  BY <1>1, <1>2, UiAssumption, FS_Subset, FS_CardinalityType
<1>6. \A i \in new : rank[i] \in 1..n
  BY DEF Bijection, Injection
<1>7. PICK c \in Nat : c = g.counter
  BY DEF Generates
<1>8. PICK h : h = [counter |-> c + n, id |-> id]
  OBVIOUS
<1>9. /\ p.after = h /\ h.id = id /\ h.counter = c + n
      /\ p.points = {<<i, id[i] - 1>> : i \in is}
  BY <1>4, <1>7, <1>8
<1>10. /\ \A i \in new : id[i] \in 1..(c + n)
       /\ \A i \in Items \ new : id[i] = g.id[i]
  BY <1>1, <1>4, <1>5, <1>6, <1>7
<1>11. KeptItems(h) = KeptItems(g) \cup new /\ KeptItems(g) \cap new = {}
  <2>1. \A i \in new : id[i] # 0 /\ i \in Items /\ i \notin KeptItems(g)
    BY <1>1, <1>5, <1>7, <1>10 DEF KeptItems
  <2> QED
    BY <2>1, <1>9, <1>10 DEF KeptItems, Kept
<1>12. Cardinality(KeptItems(h)) = Cardinality(KeptItems(g)) + n
  <2>1. /\ IsFiniteSet(KeptItems(g)) /\ Cardinality(KeptItems(g)) \in Nat
        /\ Cardinality(KeptItems(g) \cap new) = 0
    BY <1>11, KeptIsFinite, FS_EmptySet
  <2>2. Cardinality(KeptItems(g) \cup new)
          = Cardinality(KeptItems(g)) + Cardinality(new) - Cardinality(KeptItems(g) \cap new)
    BY <1>5, <2>1, FS_Union
  <2> QED
    BY <1>2, <1>5, <1>11, <2>1, <2>2
<1>13. c + n <= Cardinality(KeptItems(h)) /\ c + n <= Cardinality(Items)
  BY <1>5, <1>7, <1>12, KeptIsFinite DEF Generates
<1>14. id \in [Items -> 0..Cardinality(Items)]
  <2>1. \A i \in Items : id[i] \in 0..Cardinality(Items)
    BY <1>5, <1>10, <1>13, KeptIsFinite DEF Generates
  <2>2. DOMAIN id = Items /\ id = [i \in Items |-> id[i]]
    BY <1>4
  <2> QED
    BY <2>1, <2>2
<1>15. Generates(h)
  BY <1>5, <1>8, <1>9, <1>13, <1>14 DEF Generates
<1>16. \A i \in is : id[i] - 1 \in Nat /\ id[i] # 0
  BY <1>1, <1>5, <1>7, <1>10, <1>14, KeptIsFinite DEF Kept
<1>17. p.points \in SUBSET (is \X Nat)
  BY <1>9, <1>16
<1>18. \A pt \in p.points : Down(h, pt)
  BY <1>9, <1>16 DEF Down, Kept, Point, IdFor
<1> QED
  BY <1>1, <1>9, <1>10, <1>15, <1>17, <1>18

LEMMA ReleasedAll ==
    ASSUME NEW g, Generates(g), NEW is \in SUBSET Items, NEW p \in ReleaseAll(g, is)
    PROVE  /\ Generates(p.after)
           /\ p.points \in SUBSET (is \X Nat)
           /\ \A i \in is : Kept(g, i) => Point(g, i) \in p.points
           /\ \A i \in Items \ is : p.after.id[i] = g.id[i]
<1>1. CASE is = {}
  BY <1>1 DEF ReleaseAll
<1>2. CASE is # {}
  <2> DEFINE id(i, first) ==
               IF Kept(g, i) THEN g.id[i] ELSE IF i = first THEN g.counter + 1 ELSE 1
  <2>1. PICK first \in is :
          p = [points |-> {<<i, id(i, first) - 1>> : i \in is},
               after  |-> [counter |-> 0,
                           id |-> [i \in Items |-> IF i \in is THEN 0 ELSE g.id[i]]]]
    BY <1>2 DEF ReleaseAll
  <2>2. \A i \in is : id(i, first) - 1 \in Nat
    BY KeptIsFinite DEF Kept, Generates
  <2>3. \A i \in is : Kept(g, i) => Point(g, i) = <<i, id(i, first) - 1>>
    BY DEF Point, IdFor
  <2>4. p.points = {<<i, id(i, first) - 1>> : i \in is}
    BY <2>1
  <2>5. /\ p.after.counter = 0
        /\ p.after = [counter |-> 0, id |-> p.after.id]
        /\ p.after.id = [i \in Items |-> IF i \in is THEN 0 ELSE g.id[i]]
    BY <2>1
  <2> HIDE DEF id
  <2>6. p.after.id \in [Items -> 0..Cardinality(Items)]
    BY <2>5, KeptIsFinite DEF Generates
  <2>7. Generates(p.after)
    BY <2>5, <2>6, KeptIsFinite DEF Generates
  <2> QED
    BY <2>2, <2>3, <2>4, <2>5, <2>7
<1> QED
  BY <1>1, <1>2

-----------------------------------------------------------------------------
(* The types of the variables.                                             *)

Frames == [multi : BOOLEAN, sent : BOOLEAN, todo : Seq(Events)]

LEMMA TargetsOf ==
    /\ Single \subseteq AllTargets /\ MultiTargets \subseteq AllTargets
    /\ MultiItems \subseteq Items
    /\ \A t \in AllTargets : ItemOf[t] \in Items
    /\ \A r \in Requests : Targets[r] \in Seq(IF r \in MultiTouch THEN MultiTargets ELSE Single)
<1>1. MultiTargets \subseteq AllTargets
  BY UiAssumption DEF MultiTargets, AllTargets
<1>2. \A t \in AllTargets : ItemOf[t] \in Items
  BY UiAssumption
<1>3. ASSUME NEW r \in Requests
      PROVE  Targets[r] \in Seq(IF r \in MultiTouch THEN MultiTargets ELSE Single)
  <2>1. PICK t \in Seq(AllTargets) : t = Targets[r]
    BY UiAssumption
  <2>2. Range(t) = {t[k] : k \in 1..Len(t)}
    BY <2>1 DEF Range
  <2>3. CASE r \in MultiTouch
    <3>1. \A k \in 1..Len(t) : t[k] \in MultiTargets
      BY <2>1, <2>2, <2>3 DEF MultiTargets
    <3>2. t \in Seq(MultiTargets)
      BY <3>1
    <3> QED
      BY <2>1, <2>3, <3>2
  <2>4. CASE r \notin MultiTouch
    <3>1. \A k \in 1..Len(t) : t[k] \notin MultiTargets
      <4> SUFFICES ASSUME NEW k \in 1..Len(t), t[k] \in MultiTargets PROVE FALSE
        OBVIOUS
      <4>1. PICK q \in MultiTouch : t[k] \in Range(Targets[q])
        BY DEF MultiTargets
      <4>2. q \in Requests /\ q # r
        BY <2>4, UiAssumption
      <4>3. t[k] \in Range(Targets[r])
        BY <2>1, <2>2
      <4>4. Range(Targets[q]) \cap Range(Targets[r]) = {}
        BY <4>2, UiAssumption
      <4> QED
        BY <4>1, <4>3, <4>4
    <3>2. \A k \in 1..Len(t) : t[k] \in Single
      BY <2>1, <3>1 DEF Single
    <3>3. t \in Seq(Single)
      BY <3>2
    <3> QED
      BY <2>1, <2>4, <3>3
  <2> QED
    BY <2>3, <2>4
<1> QED
  BY <1>1, <1>2, <1>3 DEF Single, MultiItems

LEMMA ItemsWithOf ==
    ASSUME NEW ts \in Seq(MultiTargets), NEW what
    PROVE  ItemsWith(ts, what) \subseteq MultiItems
<1>1. \A t \in Range(ts) : t \in MultiTargets
  BY DEF Range
<1> QED
  BY <1>1 DEF ItemsWith, MultiItems

LEMMA InteractionOf ==
    ASSUME NEW t \in Single
    PROVE  Interaction(t) \in Seq(Events)
<1>1. PICK touches \in Seq({"press", "move", "release"}) : touches = Touches[t]
  BY TargetsOf, UiAssumption
<1>2. \A k \in DOMAIN touches : [what |-> touches[k], item |-> ItemOf[t]] \in Events
  BY <1>1 DEF Events
<1>3. PICK f : f = [k \in DOMAIN touches |-> [what |-> touches[k], item |-> ItemOf[t]]]
  OBVIOUS
<1>4. f \in [1..Len(touches) -> Events] /\ Len(touches) \in Nat
  BY <1>2, <1>3
<1>5. f \in Seq(Events)
  BY <1>4
<1> QED
  BY <1>1, <1>3, <1>5 DEF Interaction

(* The touches of a multi-touch interaction, at most one of each kind.     *)
BeginsAndEnds(todo, b, e) ==
    /\ \A k \in DOMAIN todo :
          /\ todo[k].what = "begin" => k = 1 /\ todo[k].points = b
          /\ todo[k].what = "end" => todo[k].points = e
    /\ e # {} => \E l \in DOMAIN todo : todo[l].what = "end" /\ todo[l].points = e

LEMMA TodoOf ==
    ASSUME NEW b \in SUBSET (MultiItems \X Nat), NEW e \in SUBSET (MultiItems \X Nat), NEW todo,
           todo = Event("begin", b) \o Event("end", e)
    PROVE  todo \in Seq(Events) /\ BeginsAndEnds(todo, b, e)
<1>1. PICK x : x = [what |-> "begin", points |-> b]
  OBVIOUS
<1>2. PICK y : y = [what |-> "end", points |-> e]
  OBVIOUS
<1>3. x \in Events /\ y \in Events
  BY <1>1, <1>2 DEF Events
<1>a. /\ b = {} => Event("begin", b) = <<>>
      /\ b # {} => Event("begin", b) = <<x>>
      /\ e = {} => Event("end", e) = <<>>
      /\ e # {} => Event("end", e) = <<y>>
  BY <1>1, <1>2 DEF Event
<1>b. /\ <<>> \o <<>> = <<>> /\ <<>> \o <<y>> = <<y>>
      /\ <<x>> \o <<>> = <<x>> /\ <<x>> \o <<y>> = <<x, y>>
  <2>1. <<>> \in Seq(Events) /\ <<x>> \in Seq(Events) /\ <<y>> \in Seq(Events)
    BY ONLY <1>3
  <2>2. <<>> \o <<>> = <<>> /\ <<>> \o <<y>> = <<y>> /\ <<x>> \o <<>> = <<x>>
    BY ONLY <2>1, ConcatEmptySeq
  <2>3. <<x>> \o <<y>> = <<x, y>>
    <3>1. PICK z : z = <<x>> \o <<y>>
      OBVIOUS
    <3>2. z \in Seq(Events) /\ Len(z) = 2 /\ z[1] = x /\ z[2] = y
      BY ONLY <2>1, <3>1
    <3>3. z = <<x, y>>
      BY ONLY <3>2
    <3> QED
      BY <3>1, <3>3
  <2> QED
    BY ONLY <2>2, <2>3
<1>4. \/ b = {} /\ e = {} /\ todo = <<>>
      \/ b = {} /\ e # {} /\ todo = <<y>>
      \/ b # {} /\ e = {} /\ todo = <<x>>
      \/ b # {} /\ e # {} /\ todo = <<x, y>>
  BY <1>a, <1>b, Zenon
<1>5. /\ x.what = "begin" /\ x.points = b /\ y.what = "end" /\ y.points = e
  BY <1>1, <1>2
<1>6. CASE todo = <<>> /\ e = {}
  <2>1. todo \in Seq(Events) /\ DOMAIN todo = {}
    BY ONLY <1>6
  <2> QED
    BY ONLY <1>6, <2>1 DEF BeginsAndEnds
<1>7. CASE todo = <<y>>
  <2>1. todo \in Seq(Events) /\ DOMAIN todo = {1} /\ todo[1] = y
    BY ONLY <1>3, <1>7
  <2> QED
    BY ONLY <1>5, <2>1 DEF BeginsAndEnds
<1>8. CASE todo = <<x>> /\ e = {}
  <2>1. todo \in Seq(Events) /\ DOMAIN todo = {1} /\ todo[1] = x
    BY ONLY <1>3, <1>8
  <2> QED
    BY ONLY <1>5, <1>8, <2>1 DEF BeginsAndEnds
<1>9. CASE todo = <<x, y>>
  <2>1. todo \in Seq(Events) /\ DOMAIN todo = {1, 2} /\ todo[1] = x /\ todo[2] = y
    BY ONLY <1>3, <1>9
  <2> QED
    BY ONLY <1>5, <2>1 DEF BeginsAndEnds
<1> QED
  BY <1>4, <1>6, <1>7, <1>8, <1>9

LEMMA InitTypes == Init => TypeOK
<1>1. NoTouch.counter = 0 /\ NoTouch.id = [i \in Items |-> 0]
  BY DEF NoTouch
<1>2. NoTouch \in [counter : Nat, id : [Items -> 0..Cardinality(Items)]]
  BY KeptIsFinite DEF NoTouch
<1>3. Cardinality({i \in Items : Kept(NoTouch, i)}) \in Nat
  BY KeptIsFinite DEF KeptItems
<1>4. NoTouch.counter <= Cardinality({i \in Items : Kept(NoTouch, i)})
  BY <1>1, <1>3
<1> SUFFICES ASSUME Init PROVE TypeOK
  OBVIOUS
<1>5. touch = NoTouch /\ frames \in Seq([multi : BOOLEAN, sent : BOOLEAN, todo : Seq(Events)])
  BY DEF Init
<1>6. /\ touch \in [counter : Nat, id : [Items -> 0..Cardinality(Items)]]
      /\ touch.counter <= Cardinality({i \in Items : Kept(touch, i)})
  BY <1>2, <1>4, <1>5, Zenon
<1>7. /\ unread \subseteq Requests /\ mCommandQueue \in Seq(Single)
      /\ mMultiTouchCommands \in Seq(MultiTargets) /\ mTimer \in BOOLEAN
      /\ down \subseteq Items \X Nat /\ held \subseteq Items
      /\ accepted \in Seq(Single) /\ started \in Seq(Single) /\ crossed \subseteq Items
  <2>1. \A S : <<>> \in Seq(S)
    OBVIOUS
  <2>2. /\ mCommandQueue = <<>> /\ mMultiTouchCommands = <<>>
        /\ accepted = <<>> /\ started = <<>>
    BY DEF Init
  <2>3. /\ unread \subseteq Requests /\ mTimer \in BOOLEAN
        /\ down \subseteq Items \X Nat /\ held \subseteq Items /\ crossed \subseteq Items
    BY Zenon DEF Init
  <2> QED
    BY <2>1, <2>2, <2>3, Zenon
<1> QED
  BY <1>5, <1>6, <1>7, Zenon DEF TypeOK

LEMMA CallTyped ==
    ASSUME NEW fs \in Seq(Frames), NEW m \in BOOLEAN, NEW todo \in Seq(Events)
    PROVE  Append(fs, [multi |-> m, sent |-> FALSE, todo |-> todo]) \in Seq(Frames)
<1>1. [multi |-> m, sent |-> FALSE, todo |-> todo] \in Frames
  BY DEF Frames
<1> QED
  BY <1>1

(* What the innermost call has to do next.                                 *)
LEMMA InnermostTyped ==
    ASSUME NEW fs \in Seq(Frames), fs # <<>>
    PROVE  /\ Last(fs) = fs[Len(fs)] /\ Last(fs) \in Frames
           /\ Last(fs).todo \in Seq(Events) /\ Last(fs).multi \in BOOLEAN
           /\ Len(fs) \in Nat \ {0} /\ DOMAIN fs = 1..Len(fs)
           /\ Front(fs) \in Seq(Frames) /\ DOMAIN Front(fs) = 1..(Len(fs) - 1)
           /\ \A n \in 1..(Len(fs) - 1) : Front(fs)[n] = fs[n]
<1>1. Len(fs) \in Nat \ {0} /\ DOMAIN fs = 1..Len(fs) /\ fs[Len(fs)] \in Frames
  OBVIOUS
<1>2. Last(fs) = fs[Len(fs)]
  BY DEF Last
<1>3. fs[Len(fs)].todo \in Seq(Events) /\ fs[Len(fs)].multi \in BOOLEAN
  BY <1>1 DEF Frames
<1>4. /\ Front(fs) \in Seq(Frames) /\ DOMAIN Front(fs) = 1..(Len(fs) - 1)
      /\ \A n \in 1..(Len(fs) - 1) : Front(fs)[n] = fs[n]
  BY <1>1 DEF Front
<1> QED
  BY <1>1, <1>2, <1>3, <1>4

LEMMA TouchTyped ==
    ASSUME TypeOK
    PROVE  Generates(touch)
  BY DEF TypeOK, Generates, KeptItems

LEMMA NextTypes == TypeOK /\ [Next]_vars => TypeOK'
<1> SUFFICES ASSUME TypeOK, [Next]_vars PROVE TypeOK'
  OBVIOUS
<1>a. frames \in Seq(Frames) /\ Generates(touch)
  BY TouchTyped DEF TypeOK, Frames
<1>b. ASSUME frames' \in Seq(Frames), Generates(touch'),
             unread' \subseteq Requests, mCommandQueue' \in Seq(Single),
             mMultiTouchCommands' \in Seq(MultiTargets), mTimer' \in BOOLEAN,
             down' \subseteq Items \X Nat, held' \subseteq Items,
             accepted' \in Seq(Single), started' \in Seq(Single), crossed' \subseteq Items
      PROVE  TypeOK'
  BY <1>b DEF TypeOK, Frames, Generates, KeptItems
<1>1. ASSUME NEW r \in Requests, ExecuteService(r) PROVE TypeOK'
  <2>1. PICK t : t = Targets[r]
    OBVIOUS
  <2>2. t \in Seq(IF r \in MultiTouch THEN MultiTargets ELSE Single)
    BY <2>1, TargetsOf
  <2>3. CASE r \in MultiTouch
    <3>1. mMultiTouchCommands \o t \in Seq(MultiTargets)
      BY <2>2, <2>3 DEF TypeOK
    <3> QED
      BY <1>1, <1>a, <1>b, <2>1, <2>3, <3>1 DEF ExecuteService, StartTimer, TypeOK
  <2>4. CASE r \notin MultiTouch
    <3>1. mCommandQueue \o t \in Seq(Single) /\ accepted \o t \in Seq(Single)
      BY <2>2, <2>4 DEF TypeOK
    <3> QED
      BY <1>1, <1>a, <1>b, <2>1, <2>4, <3>1 DEF ExecuteService, StartTimer, TypeOK
  <2> QED
    BY <2>3, <2>4
<1>2. CASE PerformMultiTouch
  <2>1. /\ ItemsWith(mMultiTouchCommands, "press") \subseteq MultiItems
        /\ ItemsWith(mMultiTouchCommands, "release") \subseteq MultiItems
        /\ MultiItems \subseteq Items
    BY ItemsWithOf, TargetsOf DEF TypeOK
  <2>2. PICK begin \in PressAll(touch, ItemsWith(mMultiTouchCommands, "press")) :
        \E end \in ReleaseAll(begin.after, ItemsWith(mMultiTouchCommands, "release")) :
          /\ frames' = Append(frames, [multi |-> TRUE, sent |-> FALSE,
                                       todo |-> Event("begin", begin.points)
                                                \o Event("end", end.points)])
          /\ touch' = end.after
    BY <1>2 DEF PerformMultiTouch
  <2>3. PICK end \in ReleaseAll(begin.after, ItemsWith(mMultiTouchCommands, "release")) :
          /\ frames' = Append(frames, [multi |-> TRUE, sent |-> FALSE,
                                       todo |-> Event("begin", begin.points)
                                                \o Event("end", end.points)])
          /\ touch' = end.after
    BY <2>2
  <2>4. Generates(begin.after) /\ begin.points \in SUBSET (MultiItems \X Nat)
    BY <1>a, <2>1, PressedAll
  <2>5. Generates(end.after) /\ end.points \in SUBSET (MultiItems \X Nat)
    BY <2>1, <2>4, ReleasedAll
  <2>a. PICK todo : todo = Event("begin", begin.points) \o Event("end", end.points)
    OBVIOUS
  <2>6. todo \in Seq(Events)
    <3>1. PICK b \in SUBSET (MultiItems \X Nat) : b = begin.points
      BY <2>4
    <3>2. PICK e \in SUBSET (MultiItems \X Nat) : e = end.points
      BY <2>5
    <3>3. todo = Event("begin", b) \o Event("end", e)
      BY ONLY <2>a, <3>1, <3>2
    <3> QED
      BY <3>3, TodoOf, Zenon
  <2>7. frames' \in Seq(Frames)
    BY <1>a, <2>3, <2>a, <2>6, CallTyped
  <2> QED
    BY <1>2, <1>b, <2>3, <2>5, <2>7 DEF PerformMultiTouch, TypeOK
<1>3. CASE PerformNext
  <2>1. mCommandQueue # <<>> /\ mCommandQueue \in Seq(Single)
    BY <1>3 DEF PerformNext, TypeOK
  <2>2. Head(mCommandQueue) \in Single /\ Tail(mCommandQueue) \in Seq(Single)
    BY <2>1
  <2>3. Append(started, Head(mCommandQueue)) \in Seq(Single)
    BY <2>2 DEF TypeOK
  <2>4. frames' \in Seq(Frames)
    BY <1>3, <1>a, <2>2, InteractionOf, CallTyped DEF PerformNext, Dequeue
  <2> QED
    BY <1>3, <1>a, <1>b, <2>2, <2>3, <2>4 DEF PerformNext, Dequeue, TypeOK
<1>4. CASE PerformNothing
  BY <1>4, <1>a, <1>b DEF PerformNothing, TypeOK
<1>5. CASE Interact
  <2>1. PICK f : f = Last(frames)
    OBVIOUS
  <2>2. /\ frames # <<>> /\ f \in Frames /\ f.todo \in Seq(Events) /\ f.multi \in BOOLEAN
        /\ f.todo # <<>> /\ f = frames[Len(frames)] /\ Len(frames) \in DOMAIN frames
    BY <1>5, <1>a, <2>1, InnermostTyped DEF Interact
  <2>3. PICK e \in Events : e = Head(f.todo)
    BY <2>2
  <2>4. PICK g : g = [multi |-> f.multi, sent |-> TRUE, todo |-> Tail(f.todo)]
    OBVIOUS
  <2>5. Tail(f.todo) \in Seq(Events)
    BY <2>2
  <2>6. g \in Frames
    BY <2>2, <2>4, <2>5 DEF Frames
  <2>7. frames' = [frames EXCEPT ![Len(frames)] = g]
    BY <1>5, <2>1, <2>2, <2>4 DEF Interact
  <2>8. frames' \in Seq(Frames)
    <3>1. Len(frames) \in 1..Len(frames)
      BY <1>a, <2>2, InnermostTyped
    <3> QED
      BY <1>a, <2>6, <2>7, <3>1, ExceptSeq
  <2>9. Generates(touch') /\ down' \subseteq Items \X Nat /\ held' \subseteq Items
    <3>1. SendTouch(e)
      BY <1>5, <2>1, <2>3 DEF Interact
    <3>2. CASE e.what \in {"begin", "end"}
      <4>1. e.points \subseteq Items \X Nat
        BY <3>2, TargetsOf DEF Events
      <4> QED
        BY <1>a, <3>1, <3>2, <4>1 DEF SendTouch, TouchBegin, TouchEnd, TypeOK
    <3>3. CASE e.what \in {"press", "move", "release"}
      <4>1. e.item \in Items
        BY <3>3, TargetsOf DEF Events
      <4>2. Generates(Touched(touch, e.item)) /\ Point(touch, e.item) \in Items \X Nat
        BY <1>a, <4>1, TouchedOne
      <4>3. Generates(Released(touch, e.item))
        BY <1>a, <4>1, ReleasedOne
      <4>4. Point(touch, e.item)[1] = e.item
        BY DEF Point
      <4> QED
        BY <3>1, <3>3, <4>1, <4>2, <4>3, <4>4 DEF SendTouch, TouchBegin, TouchEnd, TypeOK
    <3> QED
      BY <3>2, <3>3 DEF Events
  <2>10. crossed' \subseteq Items
    <3>1. \A pt \in down' : pt[1] \in Items
      BY <2>9
    <3>2. crossed' \subseteq crossed \cup {pt[1] : pt \in down'}
      BY <1>5 DEF Interact, Crossing
    <3> QED
      BY <3>1, <3>2 DEF TypeOK
  <2> QED
    BY <1>5, <1>b, <2>8, <2>9, <2>10 DEF Interact, TypeOK
<1>6. CASE Done
  <2>1. frames' \in Seq(Frames)
    BY <1>6, <1>a, InnermostTyped DEF Done
  <2>2. mMultiTouchCommands' \in Seq(MultiTargets)
    <3>1. <<>> \in Seq(MultiTargets)
      OBVIOUS
    <3>2. mMultiTouchCommands' \in {<<>>, mMultiTouchCommands}
      BY <1>6 DEF Done
    <3> QED
      BY <3>1, <3>2 DEF TypeOK
  <2>3. mTimer' \in BOOLEAN
    BY <1>6 DEF Done, RestartTimer
  <2> QED
    BY <1>6, <1>a, <1>b, <2>1, <2>2, <2>3 DEF Done, TypeOK
<1>7. CASE UNCHANGED vars
  BY <1>7, <1>a, <1>b DEF vars, TypeOK
<1> QED
  BY <1>1, <1>2, <1>3, <1>4, <1>5, <1>6, <1>7 DEF Next

(* The variables stay what they are said to be.  More than that, the       *)
(* counter of touch points never passes the number of the items that have  *)
(* one, so that no id is larger than the number of items.                  *)
THEOREM InteractionTypes == Spec => []TypeOK
  BY InitTypes, NextTypes, PTL DEF Spec

-----------------------------------------------------------------------------
(* What is to be released by the calls in progress.                        *)
Ending(fs) == UNION {EndOf(fs[n].todo) : n \in DOMAIN fs}
Pending(i) == i \in {pt[1] : pt \in ToEnd}

(* A multi-touch interaction sends its press at once.  What it presses it  *)
(* releases, or has the id that is kept.                                   *)
BeginInv ==
    \A n \in DOMAIN frames : \A k \in DOMAIN frames[n].todo :
        frames[n].todo[k].what = "begin" =>
            /\ n = Len(frames) /\ k = 1 /\ ~frames[n].sent
            /\ \A pt \in frames[n].todo[k].points : pt \in ToEnd \/ Down(touch, pt)

(* While something of an item is to be released, all its points are.       *)
PointsInv ==
    \A pt \in down : pt[1] \notin crossed =>
        IF Pending(pt[1]) THEN pt \in ToEnd ELSE pt[1] \in held /\ Down(touch, pt)

HeldInv == \A i \in held : \E pt \in down : pt[1] = i

FingersInv == BeginInv /\ PointsInv /\ HeldInv

(* A finger that keeps its id stays down.                                  *)
LEMMA StillDown ==
    ASSUME NEW g, NEW h, NEW pt, Down(g, pt), h.id[pt[1]] = g.id[pt[1]]
    PROVE  Down(h, pt)
  BY DEF Down, Kept, Point, IdFor

LEMMA TailOf ==
    ASSUME NEW S, NEW s \in Seq(S), s # <<>>
    PROVE  /\ Tail(s) \in Seq(S)
           /\ DOMAIN s = 1..Len(s) /\ Len(s) \in Nat \ {0}
           /\ DOMAIN Tail(s) = 1..(Len(s) - 1)
           /\ \A k \in DOMAIN Tail(s) : Tail(s)[k] = s[k + 1]
  OBVIOUS

LEMMA EndsOf ==
    ASSUME NEW todo, NEW pt
    PROVE  pt \in EndOf(todo) <=>
               \E k \in DOMAIN todo : todo[k].what = "end" /\ pt \in todo[k].points
  BY DEF EndOf, Range

(* A call that begins leaves what is to be released.                       *)
LEMMA CallEnds ==
    ASSUME NEW fs \in Seq(Frames), NEW f \in Frames, NEW fs2, fs2 = Append(fs, f)
    PROVE  /\ Ending(fs2) = Ending(fs) \cup EndOf(f.todo)
           /\ DOMAIN fs2 = 1..(Len(fs) + 1) /\ Len(fs2) = Len(fs) + 1
           /\ \A n \in DOMAIN fs2 : \/ n \in DOMAIN fs /\ fs2[n] = fs[n]
                                    \/ n = Len(fs2) /\ fs2[n] = f
<1>1. /\ DOMAIN fs2 = DOMAIN fs \cup {Len(fs) + 1}
      /\ \A n \in DOMAIN fs : fs2[n] = fs[n]
      /\ fs2[Len(fs) + 1] = f
  OBVIOUS
<1>2. Ending(fs2) = Ending(fs) \cup EndOf(f.todo)
  BY <1>1 DEF Ending
<1>3. DOMAIN fs = 1..Len(fs) /\ DOMAIN fs2 = 1..Len(fs2) /\ Len(fs2) = Len(fs) + 1
  OBVIOUS
<1> QED
  BY <1>1, <1>2, <1>3

(* The touches of a single target are none of a multi-touch interaction.   *)
LEMMA SingleTouches ==
    ASSUME NEW t \in Single
    PROVE  \A k \in DOMAIN Interaction(t) : Interaction(t)[k].what \in {"press", "move", "release"}
<1>1. PICK touches \in Seq({"press", "move", "release"}) : touches = Touches[t]
  BY TargetsOf, UiAssumption
<1>2. PICK todo : todo = Interaction(t)
  OBVIOUS
<1>3. \A k \in DOMAIN todo : todo[k].what \in {"press", "move", "release"}
  <2>1. CASE Found(t)
    <3>1. todo = [k \in DOMAIN touches |-> [what |-> touches[k], item |-> ItemOf[t]]]
      BY <1>1, <1>2, <2>1 DEF Interaction
    <3>2. \A k \in DOMAIN touches : touches[k] \in {"press", "move", "release"}
      BY <1>1
    <3> QED
      BY <3>1, <3>2
  <2>2. CASE ~Found(t)
    BY <1>2, <2>2 DEF Interaction
  <2> QED
    BY <2>1, <2>2
<1> QED
  BY <1>2, <1>3

LEMMA InitFingers == Init => FingersInv
  BY DEF Init, FingersInv, BeginInv, PointsInv, HeldInv

(* What begins is the first touch; it is released in the same interaction, *)
(* or has the id that the generator keeps afterwards.                      *)
BeginFits(todo, g) ==
    \A k \in DOMAIN todo : todo[k].what = "begin" =>
        k = 1 /\ \A pt \in todo[k].points : pt \in EndOf(todo) \/ Down(g, pt)

(* Of an item with an id, this point is released, or none and it stays.    *)
EndFits(todo, g, h) ==
    \A i \in Items : Kept(g, i) =>
        \/ Point(g, i) \in EndOf(todo)
        \/ i \notin {pt[1] : pt \in EndOf(todo)} /\ h.id[i] = g.id[i]

LEMMA MultiTouchFits ==
    ASSUME NEW ts \in Seq(MultiTargets), NEW g, Generates(g),
           NEW begin \in PressAll(g, ItemsWith(ts, "press")),
           NEW end \in ReleaseAll(begin.after, ItemsWith(ts, "release")),
           NEW todo, todo = Event("begin", begin.points) \o Event("end", end.points)
    PROVE  /\ todo \in Seq(Events) /\ EndOf(todo) = end.points
           /\ BeginFits(todo, end.after) /\ EndFits(todo, g, end.after)
<1> DEFINE pressed == ItemsWith(ts, "press")
           released == ItemsWith(ts, "release")
<1>1. pressed \subseteq MultiItems /\ released \subseteq MultiItems /\ MultiItems \subseteq Items
  BY ItemsWithOf, TargetsOf
<1>2. /\ Generates(begin.after)
      /\ begin.points \in SUBSET (pressed \X Nat)
      /\ \A pt \in begin.points : Down(begin.after, pt)
      /\ \A i \in Items : Kept(g, i) => begin.after.id[i] = g.id[i]
  BY <1>1, PressedAll
<1>3. /\ end.points \in SUBSET (released \X Nat)
      /\ \A i \in released : Kept(begin.after, i) => Point(begin.after, i) \in end.points
      /\ \A i \in Items \ released : end.after.id[i] = begin.after.id[i]
  BY <1>1, <1>2, ReleasedAll
<1> HIDE DEF pressed, released
<1>4. PICK b \in SUBSET (MultiItems \X Nat) : b = begin.points
  BY <1>1, <1>2
<1>5. PICK e \in SUBSET (MultiItems \X Nat) : e = end.points
  BY <1>1, <1>3
<1>6. todo = Event("begin", b) \o Event("end", e)
  BY ONLY <1>4, <1>5, todo = Event("begin", begin.points) \o Event("end", end.points)
<1>7. todo \in Seq(Events) /\ BeginsAndEnds(todo, b, e)
  BY <1>6, TodoOf, Zenon
<1>8. EndOf(todo) = e
  <2>1. ASSUME NEW pt \in e PROVE pt \in EndOf(todo)
    <3>a. e # {}
      BY <2>1
    <3>1. \E l \in DOMAIN todo : todo[l].what = "end" /\ todo[l].points = e
      BY ONLY <1>7, <3>a DEF BeginsAndEnds
    <3>2. \E l \in DOMAIN todo : todo[l].what = "end" /\ pt \in todo[l].points
      BY <2>1, <3>1
    <3> QED
      BY ONLY <3>2, EndsOf
  <2>2. ASSUME NEW pt \in EndOf(todo) PROVE pt \in e
    <3>1. PICK l \in DOMAIN todo : todo[l].what = "end" /\ pt \in todo[l].points
      BY ONLY <2>2, EndsOf
    <3>2. todo[l].points = e
      BY <1>7, <3>1 DEF BeginsAndEnds
    <3> QED
      BY <3>1, <3>2
  <2> QED
    BY <2>1, <2>2
<1>9. ASSUME NEW pt \in b PROVE pt \in e \/ Down(end.after, pt)
  <2>1. pt[1] \in Items /\ Down(begin.after, pt)
    BY <1>1, <1>2, <1>4, <1>9
  <2>2. CASE pt[1] \in released
    BY <1>3, <1>5, <2>1, <2>2 DEF Down
  <2>3. CASE pt[1] \notin released
    BY <1>3, <2>1, <2>3, StillDown
  <2> QED
    BY <2>2, <2>3
<1>10. ASSUME NEW i \in Items, Kept(g, i)
       PROVE  \/ Point(g, i) \in e
              \/ i \notin {pt[1] : pt \in e} /\ end.after.id[i] = g.id[i]
  <2>1. Kept(begin.after, i) /\ Point(begin.after, i) = Point(g, i)
        /\ begin.after.id[i] = g.id[i]
    BY <1>2, <1>10 DEF Kept, Point, IdFor
  <2>2. CASE i \in released
    BY <1>3, <1>5, <2>1, <2>2
  <2>3. CASE i \notin released
    BY <1>3, <1>5, <2>1, <2>3
  <2> QED
    BY <2>2, <2>3
<1>11. BeginFits(todo, end.after)
  BY <1>7, <1>8, <1>9 DEF BeginsAndEnds, BeginFits
<1>12. EndFits(todo, g, end.after)
  BY <1>8, <1>10 DEF EndFits
<1> QED
  BY <1>5, <1>7, <1>8, <1>11, <1>12

LEMMA NextFingers == TypeOK /\ FingersInv /\ [Next]_vars => FingersInv'
<1> SUFFICES ASSUME TypeOK, FingersInv, [Next]_vars PROVE FingersInv'
  OBVIOUS
<1>a. /\ frames \in Seq(Frames) /\ Generates(touch)
      /\ \A n \in DOMAIN frames : frames[n] \in Frames /\ frames[n].todo \in Seq(Events)
      /\ \A pt \in down : pt[1] \in Items
      /\ ToEnd = Ending(frames) /\ ToEnd' = Ending(frames')
  <2>1. frames \in Seq(Frames) /\ Generates(touch) /\ down \subseteq Items \X Nat
    BY TouchTyped DEF TypeOK, Frames
  <2>2. \A n \in DOMAIN frames : frames[n] \in Frames
    BY <2>1
  <2>3. ToEnd = Ending(frames) /\ ToEnd' = Ending(frames')
    BY DEF ToEnd, Ending
  <2> QED
    BY <2>1, <2>2, <2>3 DEF Frames
<1>b. ASSUME UNCHANGED <<frames, touch, down, held, crossed>> PROVE FingersInv'
  BY <1>b DEF FingersInv, BeginInv, PointsInv, HeldInv, Pending, ToEnd
<1>c. ASSUME UNCHANGED <<touch, down, held, crossed>>, ToEnd' = ToEnd PROVE PointsInv' /\ HeldInv'
  BY <1>c DEF FingersInv, PointsInv, HeldInv, Pending
(* When events are processed, no press of a multi-touch interaction waits. *)
<1>d. ASSUME EventsProcessed, NEW n \in DOMAIN frames, NEW k \in DOMAIN frames[n].todo
      PROVE  frames[n].todo[k].what # "begin"
  <2>1. frames # <<>> /\ Last(frames) = frames[Len(frames)]
    <3>1. frames # <<>>
      BY <1>a
    <3> QED
      BY <1>a, <3>1, InnermostTyped
  <2> QED
    BY <1>d, <2>1 DEF EventsProcessed, FingersInv, BeginInv
<1>1. ASSUME NEW r \in Requests, ExecuteService(r) PROVE FingersInv'
  BY <1>1, <1>b DEF ExecuteService
<1>2. CASE PerformMultiTouch
  <2>1. PICK begin \in PressAll(touch, ItemsWith(mMultiTouchCommands, "press")) :
        \E end \in ReleaseAll(begin.after, ItemsWith(mMultiTouchCommands, "release")) :
          /\ frames' = Append(frames, [multi |-> TRUE, sent |-> FALSE,
                                       todo |-> Event("begin", begin.points)
                                                \o Event("end", end.points)])
          /\ touch' = end.after
    BY <1>2 DEF PerformMultiTouch
  <2>2. PICK end \in ReleaseAll(begin.after, ItemsWith(mMultiTouchCommands, "release")) :
          /\ frames' = Append(frames, [multi |-> TRUE, sent |-> FALSE,
                                       todo |-> Event("begin", begin.points)
                                                \o Event("end", end.points)])
          /\ touch' = end.after
    BY <2>1
  <2>3. PICK todo : todo = Event("begin", begin.points) \o Event("end", end.points)
    OBVIOUS
  <2>4. PICK f : f = [multi |-> TRUE, sent |-> FALSE, todo |-> todo]
    OBVIOUS
  <2>5. /\ todo \in Seq(Events)
        /\ \A k \in DOMAIN todo : todo[k].what = "begin" =>
               k = 1 /\ \A pt \in todo[k].points : pt \in EndOf(todo) \/ Down(touch', pt)
        /\ \A i \in Items : Kept(touch, i) =>
               \/ Point(touch, i) \in EndOf(todo)
               \/ i \notin {pt[1] : pt \in EndOf(todo)} /\ touch'.id[i] = touch.id[i]
    <3>1. mMultiTouchCommands \in Seq(MultiTargets) /\ touch' = end.after
      BY <2>2 DEF TypeOK
    <3>2. todo \in Seq(Events) /\ BeginFits(todo, end.after) /\ EndFits(todo, touch, end.after)
      BY <1>a, <2>3, <3>1, MultiTouchFits
    <3>3. \A pt : Down(end.after, pt) => Down(touch', pt)
      BY <3>1 DEF Down, Kept, Point, IdFor
    <3> QED
      BY <3>1, <3>2, <3>3 DEF BeginFits, EndFits
  <2>6. f \in Frames /\ f.todo = todo /\ ~f.sent /\ frames' = Append(frames, f)
    BY <2>2, <2>3, <2>4, <2>5 DEF Frames
  <2>7. ToEnd' = ToEnd \cup EndOf(todo)
    BY <1>a, <2>6, CallEnds
  <2>8. /\ DOMAIN frames' = 1..(Len(frames) + 1) /\ Len(frames') = Len(frames) + 1
        /\ \A n \in DOMAIN frames' : \/ n \in DOMAIN frames /\ frames'[n] = frames[n]
                                     \/ n = Len(frames') /\ frames'[n] = f
    BY <1>a, <2>6, CallEnds
  <2>9. EventsProcessed /\ UNCHANGED <<down, held, crossed>>
    BY <1>2 DEF PerformMultiTouch
  <2>10. BeginInv'
    <3> SUFFICES ASSUME NEW n \in DOMAIN frames', NEW k \in DOMAIN frames'[n].todo,
                        frames'[n].todo[k].what = "begin"
                 PROVE  /\ n = Len(frames') /\ k = 1 /\ ~frames'[n].sent
                        /\ \A pt \in frames'[n].todo[k].points : pt \in ToEnd' \/ Down(touch', pt)
      BY DEF BeginInv, Down, Kept, Point, IdFor
    <3>1. n = Len(frames') /\ frames'[n] = f
      BY <1>d, <2>8, <2>9
    <3> QED
      BY <2>5, <2>6, <2>7, <3>1
  <2>11. PointsInv'
    <3> SUFFICES ASSUME NEW pt \in down, pt[1] \notin crossed
                 PROVE  IF Pending(pt[1])' THEN pt \in ToEnd'
                        ELSE pt[1] \in held /\ Down(touch', pt)
      BY <2>9 DEF PointsInv, Down, Kept, Point, IdFor
    <3>1. CASE Pending(pt[1])
      BY <2>7, <3>1 DEF FingersInv, PointsInv, Pending
    <3>2. CASE ~Pending(pt[1])
      <4>1. pt[1] \in held /\ Down(touch, pt) /\ pt[1] \in Items
        BY <1>a, <3>2 DEF FingersInv, PointsInv
      <4>2. CASE pt \in EndOf(todo)
        BY <2>7, <4>2 DEF Pending
      <4>3. CASE pt \notin EndOf(todo)
        <5>1. pt[1] \notin {q[1] : q \in EndOf(todo)} /\ touch'.id[pt[1]] = touch.id[pt[1]]
          BY <2>5, <4>1, <4>3 DEF Down
        <5>2. ~Pending(pt[1])'
          BY <2>7, <3>2, <5>1 DEF Pending
        <5> QED
          BY <4>1, <5>1, <5>2, StillDown
      <4> QED
        BY <4>2, <4>3
    <3> QED
      BY <3>1, <3>2
  <2> QED
    BY <2>9, <2>10, <2>11 DEF FingersInv, HeldInv
<1>3. CASE PerformNext
  <2>1. Head(mCommandQueue) \in Single
    <3>1. mCommandQueue # <<>> /\ mCommandQueue \in Seq(Single)
      BY <1>3 DEF PerformNext, TypeOK
    <3> QED
      BY <3>1
  <2>2. PICK todo : todo = Interaction(Head(mCommandQueue))
    OBVIOUS
  <2>3. PICK f : f = [multi |-> FALSE, sent |-> FALSE, todo |-> todo]
    OBVIOUS
  <2>4. /\ f \in Frames /\ f.todo = todo
        /\ \A k \in DOMAIN todo : todo[k].what \in {"press", "move", "release"}
    BY <2>1, <2>2, <2>3, InteractionOf, SingleTouches DEF Frames
  <2>5. frames' = Append(frames, f) /\ UNCHANGED <<touch, down, held, crossed>> /\ EventsProcessed
    BY <1>3, <2>2, <2>3 DEF PerformNext, Dequeue
  <2>6. EndOf(todo) = {}
    BY <2>4, EndsOf
  <2>7. ToEnd' = ToEnd
    <3>a. frames \in Seq(Frames) /\ f \in Frames /\ frames' = Append(frames, f)
      BY <1>a, <2>4, <2>5
    <3>1. Ending(frames') = Ending(frames) \cup EndOf(f.todo)
      BY ONLY <3>a, CallEnds
    <3> QED
      BY ONLY <1>a, <2>4, <2>6, <3>1
  <2>8. \A n \in DOMAIN frames' : \/ n \in DOMAIN frames /\ frames'[n] = frames[n]
                                  \/ frames'[n] = f
    BY <1>a, <2>4, <2>5, CallEnds
  <2>9. BeginInv'
    BY <1>d, <2>4, <2>5, <2>8 DEF BeginInv
  <2> QED
    BY <1>c, <2>5, <2>7, <2>9 DEF FingersInv
<1>4. CASE PerformNothing
  BY <1>4, <1>b DEF PerformNothing
<1>5. CASE Interact
  <2>1. PICK f : f = Last(frames)
    OBVIOUS
  <2>2. /\ frames # <<>> /\ f \in Frames /\ f.todo \in Seq(Events) /\ f.todo # <<>>
        /\ f = frames[Len(frames)] /\ Len(frames) \in DOMAIN frames
    BY <1>5, <1>a, <2>1, InnermostTyped DEF Interact
  <2>3. PICK rest : rest = Tail(f.todo)
    OBVIOUS
  <2>4. /\ rest \in Seq(Events)
        /\ DOMAIN f.todo = 1..Len(f.todo) /\ Len(f.todo) \in Nat \ {0}
        /\ DOMAIN rest = 1..(Len(f.todo) - 1)
        /\ \A k \in DOMAIN rest : rest[k] = f.todo[k + 1]
    BY ONLY <2>2, <2>3, TailOf
  <2>5. PICK e \in Events : e = f.todo[1]
    BY <2>2, <2>4
  <2>6. SendTouch(e) /\ crossed' = crossed \cup Crossing
    <3>1. Head(f.todo) = f.todo[1]
      BY <2>2
    <3> QED
      BY <1>5, <2>1, <2>5, <3>1 DEF Interact
  <2>7. /\ DOMAIN frames' = DOMAIN frames
        /\ \A n \in DOMAIN frames : frames'[n].todo = IF n = Len(frames) THEN rest
                                                      ELSE frames[n].todo
    BY <1>5, <2>1, <2>2, <2>3 DEF Interact
  <2>8. \A n \in DOMAIN frames' : \A k \in DOMAIN frames'[n].todo : frames'[n].todo[k].what # "begin"
    <3> SUFFICES ASSUME NEW n \in DOMAIN frames, NEW k \in DOMAIN frames'[n].todo,
                        frames'[n].todo[k].what = "begin"
                 PROVE  FALSE
      BY <2>7
    <3>1. CASE n # Len(frames)
      BY <2>7, <3>1 DEF FingersInv, BeginInv
    <3>2. CASE n = Len(frames)
      <4>1. k \in DOMAIN rest /\ f.todo[k + 1].what = "begin" /\ k + 1 \in DOMAIN f.todo /\ k \in Nat
            /\ k # 0
        BY <2>4, <2>7, <3>2
      <4>2. k + 1 = 1
        BY <2>2, <4>1 DEF FingersInv, BeginInv
      <4> QED
        BY <4>1, <4>2
    <3> QED
      BY <3>1, <3>2
  <2>9. BeginInv'
    BY <2>8 DEF BeginInv
  <2>10. /\ e.what = "begin" => \A pt \in e.points : pt \in ToEnd \/ Down(touch, pt)
    <3>1. 1 \in DOMAIN f.todo
      BY <2>4
    <3> QED
      BY <2>2, <2>5, <3>1 DEF FingersInv, BeginInv
  <2>11. \A pt : pt \in EndOf(f.todo) <=> pt \in EndOf(rest) \/ (e.what = "end" /\ pt \in e.points)
    <3>1. \A k \in DOMAIN f.todo : k = 1 \/ (k - 1 \in DOMAIN rest /\ rest[k - 1] = f.todo[k])
      BY <2>4
    <3>2. 1 \in DOMAIN f.todo /\ \A k \in DOMAIN rest : k + 1 \in DOMAIN f.todo
      BY <2>4
    <3>3. ASSUME NEW pt, NEW k \in DOMAIN f.todo, f.todo[k].what = "end", pt \in f.todo[k].points
          PROVE  pt \in EndOf(rest) \/ (e.what = "end" /\ pt \in e.points)
      <4>1. CASE k = 1
        BY <2>5, <3>3, <4>1
      <4>2. CASE k # 1
        <5>1. \E l \in DOMAIN rest : rest[l].what = "end" /\ pt \in rest[l].points
          BY <3>1, <3>3, <4>2
        <5> QED
          BY ONLY <5>1, EndsOf
      <4> QED
        BY <4>1, <4>2
    <3>4. ASSUME NEW pt, NEW k \in DOMAIN rest, rest[k].what = "end", pt \in rest[k].points
          PROVE  pt \in EndOf(f.todo)
      <4>1. k + 1 \in DOMAIN f.todo /\ f.todo[k + 1] = rest[k]
        BY <2>4, <3>2
      <4>2. \E l \in DOMAIN f.todo : f.todo[l].what = "end" /\ pt \in f.todo[l].points
        BY <3>4, <4>1
      <4> QED
        BY ONLY <4>2, EndsOf
    <3>5. ASSUME NEW pt, e.what = "end", pt \in e.points
          PROVE  pt \in EndOf(f.todo)
      <4>1. \E l \in DOMAIN f.todo : f.todo[l].what = "end" /\ pt \in f.todo[l].points
        BY <2>5, <3>2, <3>5
      <4> QED
        BY ONLY <4>1, EndsOf
    <3>6. /\ \A pt : pt \in EndOf(f.todo) <=>
                 \E k \in DOMAIN f.todo : f.todo[k].what = "end" /\ pt \in f.todo[k].points
          /\ \A pt : pt \in EndOf(rest) <=>
                 \E k \in DOMAIN rest : rest[k].what = "end" /\ pt \in rest[k].points
      BY ONLY EndsOf
    <3> QED
      BY ONLY <3>3, <3>4, <3>5, <3>6
  <2>12. /\ ToEnd' \subseteq ToEnd
         /\ \A pt \in ToEnd : pt \in ToEnd' \/ (e.what = "end" /\ pt \in e.points)
         /\ e.what = "end" => e.points \subseteq ToEnd
    <3>1. \A pt : pt \in ToEnd <=> \E n \in DOMAIN frames : pt \in EndOf(frames[n].todo)
      BY DEF ToEnd
    <3>2. \A pt : pt \in ToEnd' <=> \E n \in DOMAIN frames : pt \in EndOf(frames'[n].todo)
      BY <1>a, <2>7 DEF Ending
    <3> QED
      BY <2>2, <2>7, <2>11, <3>1, <3>2
  <2>13. \A pt \in down' \ down : pt[1] \in crossed' \/ pt \in ToEnd \/ ~Pending(pt[1])
    BY <2>6 DEF Crossing, Pending
  <2>14. PointsInv' /\ HeldInv'
    <3>1. CASE e.what = "begin"
      <4>1. /\ down' = down \cup e.points /\ held' = held \cup {pt[1] : pt \in e.points}
            /\ touch' = touch /\ ToEnd' = ToEnd
        BY <2>6, <2>12, <3>1 DEF SendTouch, TouchBegin
      <4>2. PointsInv'
        <5> SUFFICES ASSUME NEW pt \in down', pt[1] \notin crossed'
                     PROVE  IF Pending(pt[1]) THEN pt \in ToEnd
                            ELSE pt[1] \in held' /\ Down(touch, pt)
          BY <4>1 DEF PointsInv, Pending, Down
        <5>1. CASE pt \in down
          BY <2>6, <4>1, <5>1 DEF FingersInv, PointsInv
        <5>2. CASE pt \notin down
          <6>1. pt \in e.points /\ pt[1] \in held'
            BY <4>1, <5>2
          <6>2. pt \in ToEnd => Pending(pt[1])
            BY DEF Pending
          <6> QED
            BY <2>10, <2>13, <3>1, <5>2, <6>1, <6>2
        <5> QED
          BY <5>1, <5>2
      <4>3. HeldInv'
        BY <4>1 DEF FingersInv, HeldInv
      <4> QED
        BY <4>2, <4>3
    <3>2. CASE e.what = "end"
      <4>1. /\ down' = down \ e.points /\ held' = held \ {pt[1] : pt \in e.points}
            /\ touch' = touch
        BY <2>6, <3>2 DEF SendTouch, TouchEnd
      <4>2. PointsInv'
        <5> SUFFICES ASSUME NEW pt \in down', pt[1] \notin crossed'
                     PROVE  IF Pending(pt[1])' THEN pt \in ToEnd'
                            ELSE pt[1] \in held' /\ Down(touch, pt)
          BY <4>1 DEF PointsInv, Down
        <5>1. pt \in down /\ pt \notin e.points /\ pt[1] \notin crossed
          BY <2>6, <4>1
        <5>2. CASE Pending(pt[1])
          <6>1. pt \in ToEnd'
            BY <2>12, <5>1, <5>2 DEF FingersInv, PointsInv
          <6> QED
            BY <6>1 DEF Pending
        <5>3. CASE ~Pending(pt[1])
          <6>1. pt[1] \in held /\ Down(touch, pt)
            BY <5>1, <5>3 DEF FingersInv, PointsInv
          <6>2. pt[1] \in held' /\ ~Pending(pt[1])'
            BY <2>12, <3>2, <4>1, <5>3, <6>1 DEF Pending
          <6> QED
            BY <6>1, <6>2
        <5> QED
          BY <5>2, <5>3
      <4>3. HeldInv'
        BY <4>1 DEF FingersInv, HeldInv
      <4> QED
        BY <4>2, <4>3
    <3>3. CASE e.what \in {"press", "move", "release"}
      <4>1. PICK i \in Items : i = e.item
        BY <3>3, TargetsOf DEF Events
      <4>2. ToEnd' = ToEnd
        BY <2>12, <3>3
      <4>3. ASSUME NEW pt \in down, pt[1] \notin crossed'
            PROVE  /\ Pending(pt[1]) => pt \in ToEnd
                   /\ ~Pending(pt[1]) => /\ pt[1] \in held /\ Down(touch, pt)
                                         /\ pt[1] \in Items
        BY <1>a, <2>6, <4>3 DEF FingersInv, PointsInv
      <4>4. PICK new : new = Point(touch, i)
        OBVIOUS
      <4>5. new[1] = i
        BY <4>4 DEF Point
      <4>6. /\ Down(Touched(touch, i), new)
            /\ \A j \in Items : Kept(touch, j) => Touched(touch, i).id[j] = touch.id[j]
            /\ \A j \in Items \ {i} : Released(touch, i).id[j] = touch.id[j]
        BY <1>a, <4>4, TouchedOne, ReleasedOne
      <4>7. ASSUME NEW pt, Down(touch, pt), pt[1] \in Items
            PROVE  Down(Touched(touch, i), pt)
        BY <4>6, <4>7, StillDown DEF Down
      <4>8. ASSUME \A pt \in down' : pt[1] \notin crossed' =>
                       IF Pending(pt[1]) THEN pt \in ToEnd
                       ELSE pt[1] \in held' /\ Down(touch', pt)
            PROVE  PointsInv'
        BY <4>2, <4>8 DEF PointsInv, Pending, Down, Kept, Point, IdFor
      <4>9. CASE e.what = "press"
        <5>1. /\ touch' = Touched(touch, i) /\ down' = down \cup {new}
              /\ held' = held \cup {i}
          BY <2>6, <4>1, <4>4, <4>5, <4>9 DEF SendTouch, TouchBegin
        <5>2. ASSUME NEW pt \in down', pt[1] \notin crossed'
              PROVE  IF Pending(pt[1]) THEN pt \in ToEnd
                     ELSE pt[1] \in held' /\ Down(touch', pt)
          <6>1. CASE pt \in down
            BY <4>3, <4>7, <5>1, <5>2, <6>1
          <6>2. CASE pt \notin down
            BY <2>13, <4>5, <4>6, <5>1, <5>2, <6>2
          <6> QED
            BY <6>1, <6>2
        <5>3. HeldInv'
          BY <4>5, <5>1 DEF FingersInv, HeldInv
        <5> QED
          BY <4>8, <5>2, <5>3
      <4>10. CASE e.what = "move"
        <5>1. touch' = Touched(touch, i) /\ down' = down /\ held' = held
          BY <2>6, <4>1, <4>10 DEF SendTouch
        <5>2. PointsInv'
          BY <4>3, <4>7, <4>8, <5>1
        <5>3. HeldInv'
          BY <5>1 DEF FingersInv, HeldInv
        <5> QED
          BY <5>2, <5>3
      <4>11. CASE e.what = "release"
        <5>1. /\ touch' = Released(touch, i) /\ down' = down \ {new}
              /\ held' = held \ {i}
          BY <2>6, <4>1, <4>4, <4>5, <4>11 DEF SendTouch, TouchEnd
        <5>2. ASSUME NEW pt \in down', pt[1] \notin crossed'
              PROVE  IF Pending(pt[1]) THEN pt \in ToEnd
                     ELSE pt[1] \in held' /\ Down(touch', pt)
          <6>1. pt \in down /\ pt # new
            BY <5>1, <5>2
          <6>2. CASE Pending(pt[1])
            BY <4>3, <5>2, <6>1, <6>2
          <6>3. CASE ~Pending(pt[1])
            <7>1. pt[1] \in held /\ Down(touch, pt) /\ pt[1] \in Items
              BY <4>3, <5>2, <6>1, <6>3
            <7>2. pt[1] # i
              BY <4>4, <6>1, <7>1 DEF Down
            <7>3. touch'.id[pt[1]] = touch.id[pt[1]]
              BY <4>6, <5>1, <7>1, <7>2
            <7>4. Down(touch', pt)
              BY <7>1, <7>3, StillDown
            <7> QED
              BY <5>1, <6>3, <7>1, <7>2, <7>4
          <6> QED
            BY <6>2, <6>3
        <5>3. HeldInv'
          BY <4>5, <5>1 DEF FingersInv, HeldInv
        <5> QED
          BY <4>8, <5>2, <5>3
      <4> QED
        BY <3>3, <4>9, <4>10, <4>11
    <3> QED
      BY <3>1, <3>2, <3>3 DEF Events
  <2> QED
    BY <2>9, <2>14 DEF FingersInv
<1>6. CASE Done
  <2>1. /\ frames # <<>> /\ Last(frames).todo = <<>> /\ frames' = Front(frames)
        /\ UNCHANGED <<touch, down, held, crossed>>
    BY <1>6 DEF Done
  <2>2. /\ Last(frames) = frames[Len(frames)]
        /\ Len(frames) \in Nat \ {0} /\ DOMAIN frames = 1..Len(frames)
        /\ DOMAIN frames' = 1..(Len(frames) - 1)
        /\ \A n \in 1..(Len(frames) - 1) : frames'[n] = frames[n]
    BY <1>a, <2>1, InnermostTyped
  <2>3. BeginInv'
    <3>1. \A n \in DOMAIN frames' : n \in DOMAIN frames /\ n # Len(frames) /\ frames'[n] = frames[n]
      BY <2>2
    <3> QED
      BY <3>1 DEF FingersInv, BeginInv
  <2>4. ToEnd' = ToEnd
    <3>1. EndOf(<<>>) = {}
      BY EndsOf
    <3>2. /\ \A pt : pt \in ToEnd <=> \E n \in DOMAIN frames : pt \in EndOf(frames[n].todo)
          /\ \A pt : pt \in ToEnd' <=> \E n \in DOMAIN frames' : pt \in EndOf(frames'[n].todo)
      BY <1>a DEF Ending
    <3>3. ASSUME NEW pt \in ToEnd PROVE pt \in ToEnd'
      <4>1. PICK n \in DOMAIN frames : pt \in EndOf(frames[n].todo)
        BY <3>2
      <4>2. n # Len(frames)
        BY <2>1, <2>2, <3>1, <4>1
      <4> QED
        BY <2>2, <3>2, <4>1, <4>2
    <3>4. ASSUME NEW pt \in ToEnd' PROVE pt \in ToEnd
      <4>1. PICK n \in DOMAIN frames' : pt \in EndOf(frames'[n].todo)
        BY <3>2
      <4> QED
        BY <2>2, <3>2, <4>1
    <3> QED
      BY <3>3, <3>4
  <2> QED
    BY <1>c, <2>1, <2>3, <2>4 DEF FingersInv
<1>7. CASE UNCHANGED vars
  BY <1>7, <1>b DEF vars
<1> QED
  BY <1>1, <1>2, <1>3, <1>4, <1>5, <1>6, <1>7 DEF Next

(* Whatever items single and multi-touch targets share, and however deep   *)
(* the calls nest: what was pressed last has its finger, and no finger is  *)
(* left but on an item that was pressed between the events of a multi-     *)
(* touch tap of it.                                                        *)
THEOREM ReleasesFindTheirPoints == Spec => []NoFingerLeft
<1>1. TypeOK /\ FingersInv => NoFingerLeft
  <2> SUFFICES ASSUME TypeOK, FingersInv, frames = <<>> PROVE NoFingerLeft
    BY DEF NoFingerLeft
  <2>1. \A i : ~Pending(i)
    BY DEF Pending, ToEnd
  <2> QED
    BY <2>1 DEF FingersInv, PointsInv, HeldInv, NoFingerLeft
<1>2. Init => TypeOK /\ FingersInv
  BY InitTypes, InitFingers
<1>3. TypeOK /\ FingersInv /\ [Next]_vars => (TypeOK /\ FingersInv)'
  BY NextTypes, NextFingers
<1> QED
  BY <1>1, <1>2, <1>3, PTL DEF Spec
=============================================================================
