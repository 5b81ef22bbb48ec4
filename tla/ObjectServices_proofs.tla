------------------------ MODULE ObjectServices_proofs ------------------------
(***************************************************************************)
(* Proofs about the objects that a tester is told of, finds and commands,  *)
(* for any number of addresses, names, objects and requests, any kinds of  *)
(* objects in an application, and any targets and commands; and about the  *)
(* web pages that it is told of and commands, for any frames, pages and    *)
(* lists of main frames.                                                   *)
(***************************************************************************)
EXTENDS ObjectServices, WebKit, SequenceTheorems, FiniteSetTheorems, WellFoundedInduction,
        TLAPS

LiveOnes == {a \in Objects : Live(a)}

TreeTypes ==
    /\ object \in [Objects -> [kind : Kinds \cup {"none"}, parent : Objects \cup {NoObject},
                               name : Names \cup {NoName}, shown : BOOLEAN]]
    /\ cache \in [Objects -> {"none", "live", "null"}]
    /\ known \in [Objects -> {"none", "this", "gone"}]

(* The tree hangs together: what is gone is under nothing, what is there   *)
(* is under what is there, and a window is under nothing and has content.  *)
TreeShape ==
    \A a \in Objects :
        /\ ~Live(a) => Parent(a) = NoObject
        /\ Parent(a) # NoObject => Live(Parent(a))
        /\ IsA(a, Windows) => /\ Parent(a) = NoObject
                              /\ \E c \in Objects : IsA(c, {"quick"}) /\ Parent(c) = a

CacheIsLive == \A a \in Objects : cache[a] = "live" => Live(a)

(* An id that is good: its object is there and, if it can be, stored.      *)
Held(a) == Live(a) /\ (IsA(a, Bare) \/ cache[a] = "live")

KnownIsHeld == \A a \in Objects : known[a] = "this" => Held(a)

TreeInv == TreeTypes /\ TreeShape /\ CacheIsLive /\ KnownIsHeld

-----------------------------------------------------------------------------
(* What is reached, and what is below what.                                *)

LEMMA KindOfLive ==
    ASSUME NEW a \in Objects, NEW kinds, "none" \notin kinds, IsA(a, kinds)
    PROVE  Live(a)
  BY DEF IsA, Live

LEMMA NoneIsNoKind == "none" \notin Kinds
  BY DEF Kinds, Windows, Widgets, CellWidgets, SceneItems, NonVisual

LEMMA BelowOrNot ==
    ASSUME NEW a \in Objects, NEW b \in Objects, TreeTypes, Parent(b) \in {a} \cup Below(a)
    PROVE  b \in Below(a)
<1>1. Parents(b) = {Parent(b)} /\ Parent(b) \in Objects
  BY ObjectAssumption DEF Parents, Below
<1> SUFFICES ASSUME NEW others \in SUBSET (Objects \ {a}), Parents(b) \subseteq others
             PROVE  \E c \in others : ~(Parents(c) \subseteq others)
  BY DEF Below, Above, Reached
<1>2. Parent(b) \in others /\ Parent(b) # a
  BY <1>1
<1>3. a \in Reached(Parents(Parent(b)), Parents)
  BY <1>2 DEF Below, Above
<1>4. CASE Parents(Parent(b)) \subseteq others
  BY <1>3, <1>4 DEF Reached
<1>5. CASE ~(Parents(Parent(b)) \subseteq others)
  BY <1>2, <1>5
<1> QED
  BY <1>4, <1>5

LEMMA AboveContent ==
    ASSUME NEW w \in Objects, NEW c \in Objects, Parent(w) = NoObject, Parent(c) = w
    PROVE  Above(c) \subseteq {w}
<1> SUFFICES ASSUME NEW a \in Above(c), a # w PROVE FALSE
  OBVIOUS
<1>1. Parents(c) = {w} /\ Parents(w) = {}
  BY ObjectAssumption DEF Parents
<1>2. {w} \in SUBSET (Objects \ {a}) /\ Parents(c) \subseteq {w}
  BY <1>1
<1> QED
  BY <1>1, <1>2 DEF Above, Reached

-----------------------------------------------------------------------------
(* What the application does.                                              *)

LEMMA InitTree == Init => TreeInv
<1> SUFFICES ASSUME Init PROVE TreeInv
  OBVIOUS
<1>1. /\ object = [a \in Objects |-> Free]
      /\ cache = [a \in Objects |-> "none"] /\ known = [a \in Objects |-> "none"]
  BY DEF Init, TreeInit
<1>2. \A a \in Objects : Kind(a) = "none" /\ Parent(a) = NoObject
  BY <1>1 DEF Kind, Parent, Free
<1>3. TreeTypes
  BY <1>1 DEF TreeTypes, Free
<1>4. TreeShape
  BY <1>2 DEF TreeShape, IsA, Windows, Live
<1> QED
  BY <1>1, <1>3, <1>4 DEF TreeInv, CacheIsLive, KnownIsHeld

(* A parent that an object is put under is there.                          *)
LEMMA HeldByLive ==
    ASSUME TreeTypes, NEW k \in Kinds, NEW p \in Objects \cup {NoObject}, MayHold(k, p)
    PROVE  k \notin Windows /\ (p # NoObject => Live(p))
<1>1. CASE k \in Windows
  BY <1>1 DEF MayHold, Windows, Widgets, CellWidgets, SceneItems
<1>2. CASE k \in Widgets
  BY <1>2, KindOfLive DEF MayHold, Windows, Widgets, CellWidgets, SceneItems
<1>3. CASE k \in SceneItems
  BY <1>3, KindOfLive DEF MayHold, Windows, Widgets, CellWidgets, SceneItems
<1>4. CASE k \in {"quick", "cell", "layout", "action"}
  BY <1>4, KindOfLive DEF MayHold, Windows, Widgets, CellWidgets, SceneItems
<1>5. CASE k = "object"
  <2>1. IsA(p, Kinds \ (Bare \cup {"action", "layout"}))
    BY <1>5 DEF MayHold, Windows, Widgets, CellWidgets, SceneItems
  <2>2. Live(p)
    BY <2>1, NoneIsNoKind, KindOfLive DEF IsA
  <2> QED
    BY <1>5, <2>2 DEF Windows
<1> QED
  BY <1>1, <1>2, <1>3, <1>4, <1>5 DEF Kinds, NonVisual

LEMMA CreateTree ==
    ASSUME TreeInv, NEW a \in Objects, NEW k \in Kinds, NEW p \in Objects \cup {NoObject},
           NEW n \in Names \cup {NoName}, Create(a, k, p, n)
    PROVE  TreeInv'
<1>1. /\ ~Live(a) /\ MayHold(k, p) /\ UNCHANGED <<cache, known>>
      /\ object' = [object EXCEPT ![a] = [kind |-> k, parent |-> p, name |-> n, shown |-> TRUE]]
  BY DEF Create
<1>2. k \notin Windows /\ (p # NoObject => Live(p)) /\ k # "none" /\ (p # a)
  BY <1>1, HeldByLive, NoneIsNoKind, ObjectAssumption DEF TreeInv
<1>3. /\ Kind(a)' = k /\ Parent(a)' = p
      /\ \A b \in Objects \ {a} : Kind(b)' = Kind(b) /\ Parent(b)' = Parent(b)
  BY <1>1 DEF TreeInv, TreeTypes, Kind, Parent
<1>4. TreeTypes'
  BY <1>1 DEF TreeInv, TreeTypes
<1>5. \A b \in Objects : Live(b) => b # a /\ Live(b)'
  BY <1>1, <1>3 DEF Live
<1>6. TreeShape'
  <2> SUFFICES ASSUME NEW b \in Objects
               PROVE  /\ ~Live(b)' => Parent(b)' = NoObject
                      /\ Parent(b)' # NoObject => Live(Parent(b))'
                      /\ IsA(b, Windows)' =>
                            /\ Parent(b)' = NoObject
                            /\ \E c \in Objects : IsA(c, {"quick"})' /\ Parent(c)' = b
    BY DEF TreeShape
  <2>1. CASE b = a
    BY <1>2, <1>3, <1>5, <2>1 DEF Live, IsA
  <2>2. CASE b # a
    <3>1. /\ Kind(b)' = Kind(b) /\ Parent(b)' = Parent(b) /\ Parent(b) \in Objects \cup {NoObject}
          /\ (Live(b)' <=> Live(b)) /\ (IsA(b, Windows)' <=> IsA(b, Windows))
      BY <1>3, <2>2 DEF Live, IsA, TreeInv, TreeTypes, Parent
    <3>2. Parent(b)' # NoObject => Live(Parent(b))'
      BY <1>5, <3>1 DEF TreeInv, TreeShape
    <3>3. ASSUME IsA(b, Windows)
          PROVE  \E c \in Objects : IsA(c, {"quick"})' /\ Parent(c)' = b
      <4>1. PICK c \in Objects : IsA(c, {"quick"}) /\ Parent(c) = b
        BY <3>3 DEF TreeInv, TreeShape
      <4>2. c # a
        BY <1>1, <4>1, KindOfLive
      <4> QED
        BY <1>3, <4>1, <4>2 DEF IsA
    <3> QED
      BY <3>1, <3>2, <3>3 DEF TreeInv, TreeShape
  <2> QED
    BY <2>1, <2>2
<1>7. CacheIsLive'
  BY <1>1, <1>5 DEF TreeInv, CacheIsLive
<1>8. KnownIsHeld'
  BY <1>1, <1>3, <1>5 DEF TreeInv, KnownIsHeld, Held, IsA
<1> QED
  BY <1>4, <1>6, <1>7, <1>8 DEF TreeInv

LEMMA CreateWindowTree ==
    ASSUME TreeInv, NEW a \in Objects, NEW k \in Windows, NEW w \in Objects,
           NEW n \in Names \cup {NoName}, CreateWindow(a, k, w, n)
    PROVE  TreeInv'
<1>1. /\ ~Live(a) /\ ~Live(w) /\ a # w /\ UNCHANGED <<cache, known>>
      /\ object' = [object EXCEPT
           ![a] = [kind |-> k, parent |-> NoObject, name |-> n, shown |-> TRUE],
           ![w] = [kind |-> "quick", parent |-> a, name |-> NoName, shown |-> TRUE]]
  BY DEF CreateWindow
<1>2. k \in Kinds /\ k # "none" /\ "quick" \in Kinds /\ "quick" \notin Windows
  BY NoneIsNoKind DEF Kinds, Windows
<1>3. /\ Kind(a)' = k /\ Parent(a)' = NoObject /\ Kind(w)' = "quick" /\ Parent(w)' = a
      /\ \A b \in Objects \ {a, w} : Kind(b)' = Kind(b) /\ Parent(b)' = Parent(b)
  BY <1>1 DEF TreeInv, TreeTypes, Kind, Parent
<1>4. TreeTypes'
  BY <1>1, <1>2 DEF TreeInv, TreeTypes
<1>5. \A b \in Objects : Live(b) => b \notin {a, w} /\ Live(b)'
  BY <1>1, <1>3 DEF Live
<1>6. TreeShape'
  <2> SUFFICES ASSUME NEW b \in Objects
               PROVE  /\ ~Live(b)' => Parent(b)' = NoObject
                      /\ Parent(b)' # NoObject => Live(Parent(b))'
                      /\ IsA(b, Windows)' =>
                            /\ Parent(b)' = NoObject
                            /\ \E c \in Objects : IsA(c, {"quick"})' /\ Parent(c)' = b
    BY DEF TreeShape
  <2>1. CASE b = a
    BY <1>2, <1>3, <2>1 DEF Live, IsA
  <2>2. CASE b = w
    <3>1. Live(a)' /\ Live(w)' /\ ~IsA(w, Windows)'
      BY <1>2, <1>3 DEF Live, IsA
    <3> QED
      BY <1>3, <2>2, <3>1
  <2>3. CASE b \notin {a, w}
    <3>1. /\ Kind(b)' = Kind(b) /\ Parent(b)' = Parent(b) /\ Parent(b) \in Objects \cup {NoObject}
          /\ (Live(b)' <=> Live(b)) /\ (IsA(b, Windows)' <=> IsA(b, Windows))
      BY <1>3, <2>3 DEF Live, IsA, TreeInv, TreeTypes, Parent
    <3>2. Parent(b)' # NoObject => Live(Parent(b))'
      BY <1>5, <3>1 DEF TreeInv, TreeShape
    <3>3. ASSUME IsA(b, Windows)
          PROVE  \E c \in Objects : IsA(c, {"quick"})' /\ Parent(c)' = b
      <4>1. PICK c \in Objects : IsA(c, {"quick"}) /\ Parent(c) = b
        BY <3>3 DEF TreeInv, TreeShape
      <4>2. c \notin {a, w}
        BY <1>1, <4>1, KindOfLive
      <4> QED
        BY <1>3, <4>1, <4>2 DEF IsA
    <3> QED
      BY <3>1, <3>2, <3>3 DEF TreeInv, TreeShape
  <2> QED
    BY <2>1, <2>2, <2>3
<1>7. CacheIsLive'
  BY <1>1, <1>5 DEF TreeInv, CacheIsLive
<1>8. KnownIsHeld'
  BY <1>1, <1>3, <1>5 DEF TreeInv, KnownIsHeld, Held, IsA
<1> QED
  BY <1>4, <1>6, <1>7, <1>8 DEF TreeInv

LEMMA DestroyTree ==
    ASSUME TreeInv, NEW a \in Objects, Destroy(a)
    PROVE  TreeInv'
<1>1. PICK dead : dead = {a} \cup Below(a)
  OBVIOUS
<1>2. /\ object' = [b \in Objects |-> IF b \in dead THEN Free ELSE object[b]]
      /\ cache' = [b \in Objects |-> IF b \in dead /\ cache[b] = "live" THEN "null" ELSE cache[b]]
      /\ known' = [b \in Objects |-> IF b \in dead /\ known[b] = "this" THEN "gone" ELSE known[b]]
      /\ ~(IsA(a, {"quick"}) /\ IsA(Parent(a), Windows))
  BY <1>1 DEF Destroy
<1>3. \A b \in Objects : IF b \in dead THEN Kind(b)' = "none" /\ Parent(b)' = NoObject
                         ELSE Kind(b)' = Kind(b) /\ Parent(b)' = Parent(b)
  BY <1>2 DEF Kind, Parent, Free
<1>4. \A b \in Objects : Parent(b) \in dead => b \in dead
  BY <1>1, BelowOrNot DEF TreeInv
<1>5. TreeTypes'
  BY <1>2 DEF TreeInv, TreeTypes, Free
<1>6. \A b \in Objects : Live(b)' <=> b \notin dead /\ Live(b)
  BY <1>3 DEF Live
<1>7. TreeShape'
  <2> SUFFICES ASSUME NEW b \in Objects
               PROVE  /\ ~Live(b)' => Parent(b)' = NoObject
                      /\ Parent(b)' # NoObject => Live(Parent(b))'
                      /\ IsA(b, Windows)' =>
                            /\ Parent(b)' = NoObject
                            /\ \E c \in Objects : IsA(c, {"quick"})' /\ Parent(c)' = b
    BY DEF TreeShape
  <2>1. CASE b \in dead
    BY <1>3, <1>6, <2>1 DEF IsA, Windows
  <2>2. CASE b \notin dead
    <3>1. /\ Kind(b)' = Kind(b) /\ Parent(b)' = Parent(b) /\ Parent(b) \in Objects \cup {NoObject}
          /\ (Live(b)' <=> Live(b)) /\ (IsA(b, Windows)' <=> IsA(b, Windows))
          /\ Parent(b) \notin dead
      BY <1>3, <1>4, <2>2 DEF Live, IsA, TreeInv, TreeTypes, Parent
    <3>2. Parent(b)' # NoObject => Live(Parent(b))'
      BY <1>6, <3>1 DEF TreeInv, TreeShape
    <3>3. ASSUME IsA(b, Windows)
          PROVE  \E c \in Objects : IsA(c, {"quick"})' /\ Parent(c)' = b
      <4>1. PICK c \in Objects : IsA(c, {"quick"}) /\ Parent(c) = b
        BY <3>3 DEF TreeInv, TreeShape
      <4>2. Parent(b) = NoObject
        BY <3>3 DEF TreeInv, TreeShape
      <4>3. c # a
        BY <1>2, <3>3, <4>1
      <4>4. c \notin Below(a)
        <5>1. Above(c) \subseteq {b}
          BY <4>1, <4>2, AboveContent
        <5> QED
          BY <1>1, <2>2, <5>1 DEF Below
      <4> QED
        BY <1>1, <1>3, <4>1, <4>3, <4>4 DEF IsA
    <3> QED
      BY <3>1, <3>2, <3>3 DEF TreeInv, TreeShape
  <2> QED
    BY <2>1, <2>2
<1>8. CacheIsLive'
  BY <1>2, <1>6 DEF TreeInv, CacheIsLive
<1>9. KnownIsHeld'
  <2> SUFFICES ASSUME NEW b \in Objects, known'[b] = "this" PROVE Held(b)'
    BY DEF KnownIsHeld
  <2>1. b \notin dead /\ known[b] = "this" /\ cache'[b] = cache[b]
    BY <1>2
  <2>2. Held(b) /\ Kind(b)' = Kind(b)
    BY <1>3, <2>1 DEF TreeInv, KnownIsHeld
  <2> QED
    BY <1>6, <2>1, <2>2 DEF Held, IsA
<1> QED
  BY <1>5, <1>7, <1>8, <1>9 DEF TreeInv

LEMMA ShowOrHideTree ==
    ASSUME TreeInv, NEW a \in Objects, ShowOrHide(a)
    PROVE  TreeInv'
<1>1. object' = [object EXCEPT ![a].shown = ~@] /\ UNCHANGED <<cache, known>>
  BY DEF ShowOrHide
<1>2. \A b \in Objects : Kind(b)' = Kind(b) /\ Parent(b)' = Parent(b)
  BY <1>1 DEF TreeInv, TreeTypes, Kind, Parent
<1>3. TreeTypes'
  BY <1>1 DEF TreeInv, TreeTypes
<1>4. /\ \A b \in Objects : Live(b)' <=> Live(b)
      /\ \A b, kinds : IsA(b, kinds)' <=> IsA(b, kinds)
  BY <1>2 DEF IsA, Live
<1>5. TreeShape'
  BY <1>2, <1>3, <1>4, ObjectAssumption DEF TreeInv, TreeShape, TreeTypes, Parent
<1> QED
  BY <1>1, <1>3, <1>4, <1>5 DEF TreeInv, CacheIsLive, KnownIsHeld, Held

LEMMA AppStepTree == TreeInv /\ AppStep => TreeInv'
  BY CreateTree, CreateWindowTree, DestroyTree, ShowOrHideTree DEF AppStep

-----------------------------------------------------------------------------
(* What a traversal and a search come to is there.                         *)

LEMMA ChildrenLive ==
    ASSUME NEW a, NEW kinds, "none" \notin kinds
    PROVE  Children(a, kinds) \subseteq LiveOnes
  BY DEF Children, LiveOnes, IsA, Live

LEMMA QtBelowLive == ASSUME NEW a PROVE QtBelow(a) \subseteq LiveOnes
<1>1. \A b : QtChildren(b) \subseteq LiveOnes
  BY ChildrenLive, NoneIsNoKind DEF QtChildren
<1> SUFFICES ASSUME NEW b \in QtBelow(a), b \notin LiveOnes PROVE FALSE
  OBVIOUS
<1>2. LiveOnes \in SUBSET (Objects \ {b})
  BY DEF LiveOnes
<1> QED
  BY <1>1, <1>2 DEF QtBelow, Reached

LEMMA ContentLive ==
    ASSUME TreeShape, NEW w \in Objects, IsA(w, Windows)
    PROVE  ContentOf(w) \in LiveOnes
<1>1. PICK c \in Objects : IsA(c, {"quick"}) /\ Parent(c) = w
  BY DEF TreeShape
<1>2. c \in Children(w, {"quick"})
  BY <1>1 DEF Children
<1>3. ContentOf(w) \in Children(w, {"quick"})
  BY <1>2 DEF ContentOf
<1> QED
  BY <1>3, ChildrenLive

LEMMA ReportsLive ==
    ASSUME TreeShape, NEW a \in Objects
    PROVE  NextTraversed(a) \subseteq LiveOnes
<1>1. /\ "none" \notin Widgets /\ "none" \notin NonVisual /\ "none" \notin SceneItems
      /\ \A kinds \in {{"quick"}, {"action"}, {"layout"}, {"cell"}} : "none" \notin kinds
  BY DEF Widgets, CellWidgets, NonVisual, SceneItems
<1>2. Children(a, Widgets) \subseteq LiveOnes /\ ObjectChildren(a) \subseteq LiveOnes
  BY <1>1, ChildrenLive DEF ObjectChildren
<1>3. WidgetChildren(a) \subseteq LiveOnes
  BY <1>2 DEF WidgetChildren
<1>4. VisibleItems(a) \subseteq LiveOnes
  BY <1>1, ChildrenLive DEF VisibleItems
<1>5. RootObject(a) \subseteq LiveOnes /\ Children(a, {"quick"}) \subseteq LiveOnes
  BY <1>1, ChildrenLive DEF RootObject
<1>6. IsA(a, {"window"}) => ContentOf(a) \in LiveOnes
  BY ContentLive DEF IsA, Windows
<1>7. Reports(a) \subseteq LiveOnes
  <2>1. /\ WidgetChildren(a) \cup ObjectChildren(a) \subseteq LiveOnes
        /\ VisibleItems(a) \subseteq LiveOnes
    BY <1>2, <1>3, <1>4
  <2> HIDE DEF LiveOnes
  <2> QED
    BY <1>5, <1>6, <2>1 DEF Reports
<1>8. Added(a) \subseteq LiveOnes
  <2>1. Actions(a) \subseteq LiveOnes /\ Layouts(a) \subseteq LiveOnes
    BY <1>1, ChildrenLive DEF Actions, Layouts
  <2>2. Children(a, {"cell"}) \subseteq LiveOnes
    BY <1>1, ChildrenLive
  <2> QED
    BY <2>1, <2>2 DEF Added, CellItems, TableCells, ListCells, TreeCells
<1> QED
  BY <1>7, <1>8 DEF NextTraversed

LEMMA TraversedLive ==
    ASSUME TreeShape, NEW from, from \subseteq LiveOnes
    PROVE  Traversed(from) \subseteq LiveOnes
<1> SUFFICES ASSUME NEW b \in Traversed(from), b \notin LiveOnes PROVE FALSE
  OBVIOUS
<1>1. LiveOnes \in SUBSET (Objects \ {b})
  BY DEF LiveOnes
<1>2. \A c \in LiveOnes : NextTraversed(c) \subseteq LiveOnes
  BY ReportsLive DEF LiveOnes
<1> QED
  BY <1>1, <1>2 DEF Traversed, Reached

LEMMA TraversedFrom ==
    ASSUME NEW a \in Objects PROVE a \in Traversed({a})
  BY DEF Traversed, Reached

LEMMA UiStateLive == TreeShape => UiState \subseteq LiveOnes
<1>1. "none" \notin Widgets /\ "none" \notin Windows
  BY DEF Widgets, CellWidgets, Windows
<1>2. Roots \subseteq LiveOnes
  BY <1>1 DEF Roots, LiveOnes, IsA, Live
<1> QED
  BY <1>2, TraversedLive DEF UiState

LEMMA ShapeParent ==
    ASSUME TreeTypes, TreeShape, NEW a \in Objects, Parent(a) # NoObject
    PROVE  Parent(a) \in LiveOnes
  BY DEF TreeTypes, TreeShape, LiveOnes, Parent

(* The objects whose ids are made with those of others.                    *)
LEMMA OthersLive ==
    ASSUME TreeTypes, TreeShape, NEW as, as \subseteq LiveOnes, NEW command
    PROVE  WithOthers(as, command) \subseteq LiveOnes
<1>1. ParentsOf(as, command) \subseteq LiveOnes
  <2>1. ParentsOf(as, command) \subseteq {Parent(a) : a \in as} \ {NoObject}
    BY DEF ParentsOf
  <2>2. \A a \in as : Parent(a) # NoObject => Parent(a) \in LiveOnes
    BY ShapeParent DEF LiveOnes
  <2> QED
    BY <2>1, <2>2
<1>2. LaidOut(as) \subseteq LiveOnes
  <2>1. "none" \notin Widgets
    BY DEF Widgets, CellWidgets
  <2>2. \A p : Children(p, Widgets) \subseteq LiveOnes
    BY <2>1, ChildrenLive
  <2> QED
    BY <2>2 DEF LaidOut
<1> QED
  BY <1>1, <1>2 DEF WithOthers

-----------------------------------------------------------------------------
(* What is found is in every set that has all that matches.                *)

Sought(o, t) == Matches(o, t) \/ o = t.id \/ (t.name # NoName /\ NameMatches(o, t))
HasSought(G, t) == \A o \in LiveOnes : Sought(o, t) => o \in G

LEMMA BelowLive ==
    ASSUME TreeTypes, TreeShape, NEW a PROVE Below(a) \subseteq LiveOnes
<1> SUFFICES ASSUME NEW b \in Below(a), b \notin LiveOnes PROVE FALSE
  OBVIOUS
<1>1. b \in Objects /\ a \in Above(b) /\ Parents(b) = {}
  BY DEF Below, LiveOnes, TreeShape, Parents
<1>2. {} \in SUBSET (Objects \ {a}) /\ {} \subseteq Parents(b)
  OBVIOUS
<1> QED
  BY <1>1, <1>2 DEF Above, Reached

LEMMA NamedSought ==
    ASSUME NEW t, NEW G, HasSought(G, t), NEW o
    PROVE  NamedBelow(o, t) \subseteq G
<1>1. CASE t.name = NoName
  BY <1>1 DEF NamedBelow
<1>2. CASE t.name # NoName
  BY <1>2, QtBelowLive DEF NamedBelow, HasSought, Sought
<1> QED
  BY <1>1, <1>2

LEMMA ChildrenSought ==
    ASSUME NEW t, NEW G, HasSought(G, t), NEW o
    PROVE  MatchingChildren(o, t) \subseteq G
<1>1. QtChildren(o) \subseteq LiveOnes
  BY ChildrenLive, NoneIsNoKind DEF QtChildren
<1> QED
  BY <1>1 DEF MatchingChildren, HasSought, Sought

LEMMA QuickLive ==
    ASSUME NEW o, NEW t PROVE QuickHits(o, t) \subseteq LiveOnes
  BY DEF QuickHits, LiveOnes, IsA, Live

LEMMA QuickSought ==
    ASSUME NEW t, NEW G, HasSought(G, t), NEW o, t.name # NoName
    PROVE  QuickHits(o, t) \subseteq G
<1>1. \A c \in QuickHits(o, t) : c = t.id \/ NameMatches(c, t)
  BY DEF QuickHits
<1> QED
  BY <1>1, QuickLive DEF HasSought, Sought

LEMMA WindowSought ==
    ASSUME TreeShape, NEW t, NEW G, HasSought(G, t), NEW w \in Objects, IsA(w, Windows)
    PROVE  \A r \in InWindow(w, t) : r.found \subseteq G
<1>1. Matches(w, t) => w \in G
  <2>1. w \in LiveOnes
    BY KindOfLive DEF LiveOnes, Windows
  <2> QED
    BY <2>1 DEF HasSought, Sought
<1>2. NamedBelow(w, t) \subseteq G
  BY NamedSought
<1>3. PICK items : items = UNION {QuickHits(c, t) : c \in Children(ContentOf(w), {"quick"})}
  OBVIOUS
<1>4. items \subseteq LiveOnes
  BY <1>3, QuickLive
<1>5. \A c \in items : Matches(c, t) => c \in G
  BY <1>4 DEF HasSought, Sought
<1>6. PICK matching : matching = {c \in items : Matches(c, t)}
  OBVIOUS
<1>7. InWindow(w, t) =
        IF Matches(w, t) THEN {[found |-> {w}, ends |-> TRUE]}
        ELSE IF NamedBelow(w, t) # {} THEN {[found |-> NamedBelow(w, t), ends |-> FALSE]}
        ELSE IF Matches(ContentOf(w), t) THEN {[found |-> {}, ends |-> TRUE]}
        ELSE IF matching # {} THEN {[found |-> {c}, ends |-> TRUE] : c \in matching}
        ELSE {[found |-> {}, ends |-> FALSE]}
  BY <1>3, <1>6, Zenon DEF InWindow
<1>8. SUFFICES ASSUME NEW r \in InWindow(w, t) PROVE r.found \subseteq G
  OBVIOUS
<1>9. \/ Matches(w, t) /\ r = [found |-> {w}, ends |-> TRUE]
      \/ r = [found |-> NamedBelow(w, t), ends |-> FALSE]
      \/ r = [found |-> {}, ends |-> TRUE]
      \/ \E c \in matching : r = [found |-> {c}, ends |-> TRUE]
      \/ r = [found |-> {}, ends |-> FALSE]
  BY ONLY <1>7, <1>8
<1> QED
  BY <1>1, <1>2, <1>5, <1>6, <1>9

LEMMA WindowsSought ==
    ASSUME TreeShape, NEW t, NEW G, HasSought(G, t), NEW os \in InWindows(t)
    PROVE  os \subseteq G
<1>1. PICK results : results = UNION {InWindow(w, t) : w \in {a \in Objects : IsA(a, Windows)}}
  OBVIOUS
<1>2. \A r \in results : r.found \subseteq G
  BY <1>1, WindowSought
<1>3. PICK passed : passed = {r.found : r \in {x \in results : ~x.ends}}
  OBVIOUS
<1>4. PICK ending : ending = {r \in results : r.ends}
  OBVIOUS
<1>5. InWindows(t) =
        IF ending = {} THEN {UNION passed}
        ELSE {r.found \cup UNION some : r \in ending, some \in SUBSET passed}
  BY ONLY <1>1, <1>3, <1>4 DEF InWindows
<1>6. UNION passed \subseteq G /\ \A some \in SUBSET passed : UNION some \subseteq G
  BY <1>2, <1>3
<1>7. \A r \in ending : r.found \subseteq G
  BY <1>2, <1>4
<1> QED
  BY <1>5, <1>6, <1>7

LEMMA WidgetSought ==
    ASSUME NEW t, NEW G, HasSought(G, t), NEW w \in Objects, IsA(w, Widgets)
    PROVE  InWidget(w, t) \subseteq G
<1>1. "none" \notin Widgets
  BY DEF Widgets, CellWidgets
<1>2. Matches(w, t) => w \in G
  BY <1>1, KindOfLive DEF LiveOnes, HasSought, Sought
<1>3. NamedBelow(w, t) \subseteq G /\ MatchingChildren(w, t) \subseteq G
  BY NamedSought, ChildrenSought
<1>4. PICK items :
        items = {i \in Below(w) : IsA(i, {"graphics"}) /\ IsVisible(i) /\ Matches(i, t)}
  OBVIOUS
<1>5. items \subseteq G
  BY <1>4 DEF HasSought, Sought, LiveOnes, IsA, Live
<1>6. \/ Matches(w, t) /\ InWidget(w, t) = {w}
      \/ InWidget(w, t) \in {NamedBelow(w, t), MatchingChildren(w, t), items, {}}
  BY <1>4, Zenon DEF InWidget
<1> QED
  BY <1>2, <1>3, <1>5, <1>6

LEMMA WidgetsSought ==
    ASSUME NEW t, NEW G, HasSought(G, t), NEW os \in InWidgets(t)
    PROVE  os \subseteq G
<1>1. PICK ws : ws = {a \in Objects : IsA(a, Widgets) /\ IsVisible(a)}
  OBVIOUS
<1>2. PICK own : own = {w \in ws : Matches(w, t)}
  OBVIOUS
<1>3. InWidgets(t) =
        IF \A w \in ws : InWidget(w, t) = {} THEN {{}}
        ELSE {InWidget(w, t) \cup own : w \in {v \in ws : InWidget(v, t) # {}}}
  BY <1>1, <1>2, Zenon DEF InWidgets
<1>4. \A w \in ws : InWidget(w, t) \subseteq G
  BY <1>1, WidgetSought
<1>5. own \subseteq G
  <2>1. ws \subseteq LiveOnes
    BY <1>1 DEF LiveOnes, IsA, Live, Widgets, CellWidgets
  <2> QED
    BY <1>2, <2>1 DEF HasSought, Sought
<1> QED
  BY <1>3, <1>4, <1>5

LEMMA SearchSought ==
    ASSUME TreeShape, NEW t, NEW G, HasSought(G, t), NEW os \in SearchForObject(t)
    PROVE  os \subseteq G
  BY WindowsSought, WidgetsSought DEF SearchForObject

LEMMA TargetSought ==
    ASSUME TreeTypes, TreeShape, CacheIsLive, NEW t \in Wants({}) \cup FindTargets, NEW G,
           HasSought(G, t), NEW under \in (G \cap LiveOnes) \cup {NoObject},
           NEW os \in TargetObjects(cache, t, under)
    PROVE  os \subseteq G
<1>1. t.id \in Objects \cup {NoObject}
  BY DEF Wants, FindTargets
<1>2. t.id # NoObject /\ GetObject(cache, t.id) # NoObject => t.id \in G
  BY <1>1 DEF GetObject, CacheIsLive, LiveOnes, HasSought, Sought
<1>3. NamedBelow(under, t) \subseteq G /\ MatchingChildren(under, t) \subseteq G
  BY NamedSought, ChildrenSought
<1>4. t.name # NoName => QuickHits(under, t) \subseteq G
  BY QuickSought
<1>5. PICK quick : quick = IF IsA(under, {"quick"}) /\ t.name # NoName
                           THEN QuickHits(under, t) ELSE {}
  OBVIOUS
<1>6. \/ os \in {{t.id}} /\ t.id # NoObject /\ GetObject(cache, t.id) # NoObject
      \/ os \in SearchForObject(t)
      \/ under # NoObject /\ os \in {{under}}
      \/ os \in {NamedBelow(under, t), {}, MatchingChildren(under, t)}
      \/ \E q \in quick : os = {q}
  BY <1>5 DEF TargetObjects
<1> QED
  BY <1>2, <1>3, <1>4, <1>5, <1>6, SearchSought

LEMMA ChildIs ==
    ASSUME NEW children, NEW t \in Wants(children), t.child # <<>>
    PROVE  t.child[1] \in children
<1>1. t.child \in {<<>>} \cup {<<c>> : c \in children}
  BY DEF Wants
<1>2. PICK c \in children : t.child = <<c>>
  BY <1>1
<1> QED
  BY <1>2

(* What the reply has for a target is there, with what is found itself     *)
(* unless everything below it is asked for.                                *)
LEMMA DetailsOf ==
    ASSUME TreeTypes, TreeShape, CacheIsLive, NEW t \in FindTargets,
           NEW x \in Details(cache, t, NoObject)
    PROVE  /\ x \subseteq LiveOnes
           /\ \E os \in TargetObjects(cache, t, NoObject) :
                 t.class # "*" => os \subseteq x /\ (os = {} => x = {})
<1>1. \A s : HasSought(LiveOnes, s)
  BY DEF HasSought
<1>2. \A s \in Wants({}) \cup FindTargets, under \in LiveOnes \cup {NoObject} :
          \A os \in TargetObjects(cache, s, under) : os \subseteq LiveOnes
  BY <1>1, TargetSought
<1>3. CASE t.child = <<>>
  <2>1. PICK os \in TargetObjects(cache, t, NoObject) :
            x = IF t.class = "*" THEN Traversed(os) ELSE os
    BY <1>3 DEF Details
  <2> QED
    BY <1>2, <2>1, TraversedLive
<1>4. CASE t.child # <<>>
  <2>1. t.child[1] \in Wants({})
    BY <1>4, ChildIs DEF FindTargets
  <2> DEFINE child(o) ==
        UNION {IF y = {} THEN {Traversed({o})}
               ELSE IF t.child[1].class = "*" THEN {{o} \cup Traversed(y)}
               ELSE {{o} \cup y} : y \in TargetObjects(cache, t.child[1], o)}
  <2>2. ASSUME NEW o \in LiveOnes, NEW z \in child(o)
        PROVE  o \in z /\ z \subseteq LiveOnes
    <3>1. PICK y \in TargetObjects(cache, t.child[1], o) :
              z \in {Traversed({o}), {o} \cup Traversed(y), {o} \cup y}
      BY <2>2
    <3>2. o \in Objects /\ o \in Traversed({o})
      BY TraversedFrom DEF LiveOnes
    <3>3. y \subseteq LiveOnes /\ {o} \subseteq LiveOnes
      BY <1>2, <2>1
    <3>4. Traversed(y) \subseteq LiveOnes /\ Traversed({o}) \subseteq LiveOnes
      BY <3>3, TraversedLive
    <3> QED
      BY <3>1, <3>2, <3>3, <3>4
  <2>3. Details(cache, t, NoObject) =
          UNION {{UNION {f[o] : o \in os} :
                    f \in {g \in [os -> UNION {child(o) : o \in os}] : \A o \in os : g[o] \in child(o)}}
                 : os \in TargetObjects(cache, t, NoObject)}
    BY <1>4, Zenon DEF Details
  <2> HIDE DEF child
  <2>4. PICK os \in TargetObjects(cache, t, NoObject) :
            x \in {UNION {f[o] : o \in os} :
                     f \in {g \in [os -> UNION {child(o) : o \in os}] : \A o \in os : g[o] \in child(o)}}
    BY <2>3
  <2>5. PICK f \in [os -> UNION {child(o) : o \in os}] :
            /\ \A o \in os : f[o] \in child(o)
            /\ x = UNION {f[o] : o \in os}
    BY <2>4
  <2>6. os \subseteq LiveOnes
    BY <1>2
  <2>7. \A o \in os : o \in f[o] /\ f[o] \subseteq LiveOnes
    BY <2>2, <2>5, <2>6
  <2> QED
    BY <2>5, <2>7
<1> QED
  BY <1>3, <1>4

-----------------------------------------------------------------------------
(* The cache and the ids that the tester has.                              *)

LEMMA KeepsTree ==
    ASSUME TreeInv, object' = object, NEW as \in SUBSET LiveOnes,
           cache' \in [Objects -> {"none", "live", "null"}],
           \A a \in Objects :
               cache'[a] = "live" <=> cache[a] = "live" \/ (a \in as /\ ~IsA(a, Bare)),
           known' \in [Objects -> {"none", "this", "gone"}],
           \A a \in Objects : known'[a] = "this" => a \in as \/ Held(a)
    PROVE  TreeInv' /\ \A a \in Objects : a \in as \/ Held(a) => Held(a)'
<1>1. /\ \A a : (Kind(a)' = Kind(a)) /\ (Parent(a)' = Parent(a)) /\ (Live(a)' <=> Live(a))
      /\ \A a, kinds : IsA(a, kinds)' <=> IsA(a, kinds)
  BY DEF Kind, Parent, Live, IsA
<1>2. TreeTypes'
  BY DEF TreeInv, TreeTypes
<1>3. TreeShape'
  BY <1>1 DEF TreeInv, TreeShape
<1>4. CacheIsLive'
  BY <1>1 DEF TreeInv, CacheIsLive, LiveOnes
<1>5. \A a \in Objects : a \in as \/ Held(a) => Held(a)'
  BY <1>1 DEF Held, LiveOnes
<1> QED
  BY <1>2, <1>3, <1>4, <1>5 DEF TreeInv, KnownIsHeld

LEMMA StoredIs ==
    ASSUME NEW c \in [Objects -> {"none", "live", "null"}], NEW as
    PROVE  /\ Stored(c, as) \in [Objects -> {"none", "live", "null"}]
           /\ \A a \in Objects :
                 Stored(c, as)[a] = "live" <=> c[a] = "live" \/ (a \in as /\ ~IsA(a, Bare))
  BY DEF Stored

LEMMA RemovedIs ==
    ASSUME NEW c \in [Objects -> {"none", "live", "null"}]
    PROVE  /\ NullsRemoved(c) \in [Objects -> {"none", "live", "null"}]
           /\ \A a \in Objects : NullsRemoved(c)[a] = "live" <=> c[a] = "live"
  BY DEF NullsRemoved

LEMMA LookedIs ==
    ASSUME NEW c \in [Objects -> {"none", "live", "null"}], NEW id
    PROVE  /\ Looked(c, id) \in [Objects -> {"none", "live", "null"}]
           /\ \A a \in Objects : Looked(c, id)[a] = "live" <=> c[a] = "live"
  BY DEF Looked

LEMMA IdentifiedIn ==
    ASSUME NEW as, NEW command PROVE Identified(as, command) \subseteq as
  BY DEF Identified

LEMMA ToldIs ==
    ASSUME TreeTypes, NEW as, NEW cells
    PROVE  /\ Told(as, cells) \in [Objects -> {"none", "this", "gone"}]
           /\ \A a \in Objects : Told(as, cells)[a] = "this" => a \in as \/ known[a] = "this"
  BY DEF Told, TreeTypes

(* The object that a command finds, and those whose ids are compared.      *)
LEMMA LookupLive ==
    ASSUME TreeInv, NEW type \in Types, NEW id \in Objects
    PROVE  /\ Lookup(cache, type, id).is \in LiveOnes \cup {NoObject}
           /\ Lookup(cache, type, id).met \in SUBSET LiveOnes
<1>1. ASSUME NEW kinds, "none" \notin kinds
      PROVE  /\ OfKind(cache, id, kinds).is \in LiveOnes \cup {NoObject}
             /\ OfKind(cache, id, kinds).met \in SUBSET LiveOnes
             /\ OfKind(cache, id, kinds) =
                   [is |-> OfKind(cache, id, kinds).is, met |-> OfKind(cache, id, kinds).met]
  BY <1>1 DEF OfKind, LiveOnes, IsA, Live
<1>2. "none" \notin Widgets /\ "none" \notin SceneItems /\ "none" \notin {"quick"}
  BY DEF Widgets, CellWidgets, SceneItems
<1>3. /\ FindObject(cache, id).is \in LiveOnes \cup {NoObject}
      /\ FindObject(cache, id).met = {}
  BY DEF FindObject, GetObject, TreeInv, CacheIsLive, LiveOnes
<1>4. /\ FindTreeItem(cache, id).is \in LiveOnes \cup {NoObject}
      /\ FindTreeItem(cache, id).met = {}
  BY BelowLive DEF FindTreeItem, TreeInv
<1>5. CASE type = "Graphics"
  BY <1>1, <1>2, <1>5 DEF Lookup, FindGraphicsItem
<1>6. CASE type = "QSceneGraph"
  BY <1>1, <1>2, <1>6 DEF Lookup, FindQuickItem
<1>7. CASE type = "ViewItem"
  BY <1>4, <1>7 DEF Lookup
<1>8. CASE type = "Standard"
  <2>1. FindWidget(cache, id) = OfKind(cache, id, Widgets)
    BY DEF FindWidget
  <2>2. Lookup(cache, type, id) \in
          {FindWidget(cache, id), [FindWidget(cache, id) EXCEPT !.is = FindObject(cache, id).is]}
    BY <1>8 DEF Lookup
  <2> QED
    BY <1>1, <1>2, <1>3, <2>1, <2>2
<1>9. CASE type = "Window"
  BY <1>9 DEF Lookup
<1> QED
  BY <1>5, <1>6, <1>7, <1>8, <1>9 DEF Types

-----------------------------------------------------------------------------
(* The request in work.                                                    *)

CommandTargets == [id : Objects, type : Types]

PendingTypes ==
    /\ pending.service \in {"none", "find", "object", "crashed"}
    /\ pending.service = "none" => pending = Idle
    /\ pending.service = "find" => /\ pending.left \in Seq(FindTargets)
                                  /\ pending.asked \in Seq(FindTargets) \ {<<>>}
    /\ pending.service = "object" => pending.left \in Seq(CommandTargets)
    /\ pending = [service |-> pending.service, asked |-> pending.asked, left |-> pending.left,
                  told |-> pending.told, cells |-> pending.cells, target |-> pending.target,
                  lost |-> pending.lost]

(* The object of a command is there, unless a command of its own target    *)
(* has destroyed it, and only ObjectService has one; what find_object has  *)
(* found so far is there, and stored where it can be.                      *)
PendingHeld ==
    /\ pending.target # NoObject => /\ pending.service = "object"
                                    /\ pending.target \in LiveOnes \/ pending.lost
    /\ pending.service # "find" => pending.told = {}
    /\ pending.told \subseteq Objects /\ \A a \in pending.told : Held(a)

NameAsked(asked) ==
    /\ Len(asked) = 1
    /\ asked[1].id = NoObject /\ asked[1].class = "" /\ asked[1].name # NoName
    /\ asked[1].command = NoCommand

(* While a request is in work the last answer is no longer kept; of one    *)
(* that asks for a name, something of that name is told of once its only   *)
(* target is dealt with.                                                   *)
NameInv ==
    /\ pending.service # "none" => last = Nothing
    /\ pending.service = "find" /\ NameAsked(pending.asked) =>
          \/ pending.left = pending.asked
          \/ /\ pending.left = <<>>
             /\ \E a \in pending.told : object[a].name = pending.asked[1].name

Inv == TreeInv /\ PendingTypes /\ PendingHeld /\ NameInv /\ NameFound

LEMMA SameTree ==
    ASSUME TreeInv, UNCHANGED tree
    PROVE  TreeInv' /\ \A a \in Objects : Held(a) => Held(a)'
<1>1. object' = object /\ cache' = cache /\ known' = known
  BY DEF tree
<1>2. cache' \in [Objects -> {"none", "live", "null"}] /\ known' \in [Objects -> {"none", "this", "gone"}]
  BY <1>1 DEF TreeInv, TreeTypes
<1>3. \A a \in Objects : known'[a] = "this" => Held(a)
  BY <1>1 DEF TreeInv, KnownIsHeld
<1>4. {} \in SUBSET LiveOnes
  OBVIOUS
<1> QED
  BY <1>1, <1>2, <1>3, <1>4, KeepsTree

LEMMA AllIdentified == ASSUME NEW as PROVE Identified(as, NoCommand) = as
<1>1. \A plugin : ~FilterPlugin(NoCommand, plugin)
  BY DEF FilterPlugin, Passes, NoCommand
<1>2. \A a \in as : IsA(a, {"cell"}) \/ ~IsA(a, {"cell"})
  OBVIOUS
<1> QED
  BY <1>1, <1>2 DEF Identified

(* What is told of a target that asks for a name has an object of it.      *)
LEMMA AskedFound ==
    ASSUME TreeTypes, TreeShape, CacheIsLive, NEW t \in FindTargets,
           t.id = NoObject, t.class = "", t.name # NoName,
           NEW x \in Details(cache, t, NoObject), x # {}
    PROVE  \E a \in x : object[a].name = t.name
<1>1. PICK G : G = {o \in LiveOnes : object[o].name = t.name}
  OBVIOUS
<1>2. HasSought(G, t)
  <2> SUFFICES ASSUME NEW o \in LiveOnes, Sought(o, t) PROVE object[o].name = t.name
    BY <1>1 DEF HasSought
  <2>1. Kind(o) # "" /\ o # NoObject
    <3>1. "" \notin Kinds \cup {"none"}
      BY DEF Kinds, Windows, Widgets, CellWidgets, SceneItems, NonVisual
    <3> QED
      BY <3>1, ObjectAssumption DEF LiveOnes, TreeTypes, Kind
  <2> QED
    BY <2>1 DEF Sought, Matches, NameMatches
<1>3. PICK os \in TargetObjects(cache, t, NoObject) : os \subseteq x /\ (os = {} => x = {})
  BY DetailsOf
<1>4. os \subseteq G
  BY <1>2, <1>3, TargetSought
<1> QED
  BY <1>1, <1>3, <1>4

(* What there is to be told depends on the objects alone.                  *)
LEMMA SameUiState == object' = object => UiState' = UiState
  BY DEF UiState, Traversed, Reached, Roots, NextTraversed, Reports, Added, Actions, Layouts,
         CellItems, TableCells, ListCells, TreeCells, IsPlain, ObjectChildren, WidgetChildren,
         VisibleItems, RootObject, ContentOf, IsVisible, DrawnBy, Parents, Children, IsA, Kind,
         Parent

-----------------------------------------------------------------------------
(* Steps.                                                                  *)

LEMMA IdleIs ==
    ASSUME pending' = Idle
    PROVE  PendingTypes' /\ PendingHeld' /\ NameInv'
<1>1. /\ pending'.service = "none" /\ pending'.target = NoObject /\ pending'.told = {}
      /\ pending' = [service |-> pending'.service, asked |-> pending'.asked,
                     left |-> pending'.left, told |-> pending'.told,
                     cells |-> pending'.cells, target |-> pending'.target,
                     lost |-> pending'.lost]
  BY DEF Idle
<1> QED
  BY <1>1 DEF PendingTypes, PendingHeld, NameInv

LEMMA NothingFound ==
    (last.asked = <<>> => NameFound) /\ (last'.asked = <<>> => NameFound')
<1>1. DOMAIN <<>> = {}
  OBVIOUS
<1> QED
  BY <1>1 DEF NameFound

LEMMA AnswerFound ==
    ASSUME last'.asked \in Seq(FindTargets),
           NameAsked(last'.asked) /\ (\E a \in UiState' : object'[a].name = last'.asked[1].name)
               => \E a \in last'.told : object'[a].name = last'.asked[1].name
    PROVE  NameFound'
<1> SUFFICES ASSUME NEW t \in {last'.asked[i] : i \in DOMAIN last'.asked},
                    Len(last'.asked) = 1,
                    t.id = NoObject, t.class = "", t.name # NoName, t.command = NoCommand,
                    \E a \in UiState' : object'[a].name = t.name
             PROVE  \E a \in last'.told : object'[a].name = t.name
  BY DEF NameFound
<1>1. PICK s \in Seq(FindTargets) : s = last'.asked
  OBVIOUS
<1>2. DOMAIN s = {1}
  <2>1. Len(s) = 1
    BY <1>1
  <2>2. s \in [1..Len(s) -> FindTargets]
    BY LenProperties
  <2> QED
    BY ONLY <2>1, <2>2
<1>3. t = last'.asked[1]
  BY <1>1, <1>2
<1> QED
  BY <1>3 DEF NameAsked

LEMMA InitInv == Init => Inv
<1> SUFFICES ASSUME Init PROVE Inv
  OBVIOUS
<1>1. pending = Idle /\ last = Nothing
  BY DEF Init
<1>2. /\ pending.service = "none" /\ pending.target = NoObject /\ pending.told = {}
      /\ pending = [service |-> pending.service, asked |-> pending.asked, left |-> pending.left,
                    told |-> pending.told, cells |-> pending.cells, target |-> pending.target,
                    lost |-> pending.lost]
  BY <1>1 DEF Idle
<1>3. PendingTypes /\ PendingHeld /\ NameInv
  BY <1>1, <1>2 DEF PendingTypes, PendingHeld, NameInv
<1> QED
  BY <1>1, <1>3, InitTree, NothingFound DEF Inv, Nothing

(* Everything is told.                                                     *)
LEMMA TellAllTree ==
    ASSUME TreeInv, NEW asked, NEW command, TellAll(asked, command)
    PROVE  TreeInv' /\ \A a \in Objects : Held(a) => Held(a)'
<1>1. PICK told : told = AllTold(command)
  OBVIOUS
<1>2. PICK as : as = WithOthers(told, command)
  OBVIOUS
<1>3. /\ cache' = Stored(NullsRemoved(cache), as)
      /\ known' = Told(told, Cells(told, command))
      /\ object' = object
  BY <1>1, <1>2 DEF TellAll
<1>4. told \subseteq LiveOnes
  BY <1>1, UiStateLive, IdentifiedIn DEF AllTold, TreeInv
<1>5. as \in SUBSET LiveOnes /\ told \subseteq as
  BY <1>2, <1>4, OthersLive DEF TreeInv, WithOthers
<1>6. cache \in [Objects -> {"none", "live", "null"}]
  BY DEF TreeInv, TreeTypes
<1>7. /\ cache' \in [Objects -> {"none", "live", "null"}]
      /\ \A a \in Objects : cache'[a] = "live" <=> cache[a] = "live" \/ (a \in as /\ ~IsA(a, Bare))
  <2>1. PICK c : c = NullsRemoved(cache)
    OBVIOUS
  <2>2. /\ c \in [Objects -> {"none", "live", "null"}]
        /\ \A a \in Objects : c[a] = "live" <=> cache[a] = "live"
    BY <1>6, <2>1, RemovedIs
  <2>3. cache' = Stored(c, as)
    BY <1>3, <2>1
  <2>4. /\ Stored(c, as) \in [Objects -> {"none", "live", "null"}]
        /\ \A a \in Objects :
              Stored(c, as)[a] = "live" <=> c[a] = "live" \/ (a \in as /\ ~IsA(a, Bare))
    BY <2>2, StoredIs
  <2> QED
    BY ONLY <2>2, <2>3, <2>4
<1>8. /\ known' \in [Objects -> {"none", "this", "gone"}]
      /\ \A a \in Objects : known'[a] = "this" => a \in as \/ Held(a)
  BY <1>3, <1>5, ToldIs DEF TreeInv, KnownIsHeld
<1> QED
  BY <1>3, <1>5, <1>7, <1>8, KeepsTree

LEMMA UiStateRequestInv ==
    ASSUME Inv, NEW command \in Commands, UiStateRequest(command)
    PROVE  Inv'
<1>1. pending = Idle /\ pending' = Idle /\ TellAll(<<>>, command)
  BY DEF UiStateRequest, Begin
<1>2. last' = [asked |-> <<>>, told |-> AllTold(command)]
  BY <1>1 DEF TellAll
<1>3. NameFound'
  BY <1>2, NothingFound
<1> QED
  BY <1>1, <1>3, TellAllTree, IdleIs DEF Inv

LEMMA FindRequestInv ==
    ASSUME Inv, NEW targets \in FindRequests, FindRequest(targets)
    PROVE  Inv'
<1>1. /\ cache' = NullsRemoved(cache) /\ object' = object /\ known' = known /\ last' = Nothing
      /\ pending' = [Idle EXCEPT !.service = "find", !.asked = targets, !.left = targets]
  BY DEF FindRequest
<1>2. TreeInv'
  <2>1. cache \in [Objects -> {"none", "live", "null"}]
    BY DEF Inv, TreeInv, TreeTypes
  <2>2. /\ cache' \in [Objects -> {"none", "live", "null"}]
        /\ \A a \in Objects : cache'[a] = "live" <=> cache[a] = "live"
    BY <1>1, <2>1, RemovedIs
  <2>3. /\ known' \in [Objects -> {"none", "this", "gone"}]
        /\ \A a \in Objects : known'[a] = "this" => Held(a)
    BY <1>1 DEF Inv, TreeInv, TreeTypes, KnownIsHeld
  <2>4. {} \in SUBSET LiveOnes
    OBVIOUS
  <2> QED
    BY <1>1, <2>2, <2>3, <2>4, KeepsTree DEF Inv
<1>3. /\ pending'.service = "find" /\ pending'.target = NoObject /\ pending'.told = {}
      /\ pending'.left = targets /\ pending'.asked = targets
      /\ pending' = [service |-> pending'.service, asked |-> pending'.asked,
                     left |-> pending'.left, told |-> pending'.told,
                     cells |-> pending'.cells, target |-> pending'.target,
                     lost |-> pending'.lost]
  BY <1>1 DEF Idle
<1>4. targets \in Seq(FindTargets) \ {<<>>}
  BY FindAssumption
<1>5. PendingTypes' /\ PendingHeld'
  BY <1>3, <1>4 DEF PendingTypes, PendingHeld
<1>6. NameInv'
  BY <1>1, <1>3 DEF NameInv
<1> QED
  BY <1>1, <1>2, <1>5, <1>6, NothingFound DEF Inv, Nothing

LEMMA ObjectRequestInv ==
    ASSUME Inv, NEW n \in 1..MaxTargets, NEW targets \in [1..n -> Commanded],
           ObjectRequest(targets)
    PROVE  Inv'
<1>1. /\ UNCHANGED tree /\ last' = Nothing
      /\ pending' = [Idle EXCEPT !.service = "object", !.left = targets]
  BY DEF ObjectRequest
<1>2. /\ pending'.service = "object" /\ pending'.target = NoObject /\ pending'.told = {}
      /\ pending'.left = targets
      /\ pending' = [service |-> pending'.service, asked |-> pending'.asked,
                     left |-> pending'.left, told |-> pending'.told,
                     cells |-> pending'.cells, target |-> pending'.target,
                     lost |-> pending'.lost]
  BY <1>1 DEF Idle
<1>3. Commanded \subseteq CommandTargets
  <2>1. \A a \in Objects : TypeOf(a) \in Types
    BY DEF TypeOf, Types
  <2> QED
    BY <2>1 DEF Commanded, CommandTargets
<1>4. targets \in Seq(CommandTargets)
  BY <1>3, SeqDef
<1>5. PendingTypes' /\ PendingHeld'
  BY <1>2, <1>4 DEF PendingTypes, PendingHeld
<1>6. NameInv'
  BY <1>1, <1>2 DEF NameInv
<1> QED
  BY <1>1, <1>5, <1>6, SameTree, NothingFound DEF Inv, Nothing

LEMMA ApplicationInv ==
    ASSUME Inv, Application
    PROVE  Inv'
<1>1. pending = Idle /\ pending' = Idle /\ AppStep /\ last' = Nothing
  BY DEF Application
<1> QED
  BY <1>1, AppStepTree, IdleIs, NothingFound DEF Inv, Nothing

(* A target of find_object is dealt with.                                  *)
LEMMA FindHead ==
    ASSUME Inv, NEW classes, Finding(classes)
    PROVE  /\ pending.service = "find" /\ pending.target = NoObject /\ last = Nothing
           /\ pending.asked \in Seq(FindTargets) \ {<<>>}
           /\ pending.left \in Seq(FindTargets) \ {<<>>}
           /\ Head(pending.left) \in FindTargets /\ Tail(pending.left) \in Seq(FindTargets)
           /\ NameAsked(pending.asked) =>
                 /\ pending.left = pending.asked /\ Head(pending.left) = pending.asked[1]
                 /\ Tail(pending.left) = <<>>
<1>1. pending.service = "find" /\ pending.left # <<>>
  BY DEF Finding
<1>2. /\ pending.asked \in Seq(FindTargets) \ {<<>>} /\ pending.left \in Seq(FindTargets)
      /\ pending.target = NoObject /\ last = Nothing
  BY <1>1 DEF Inv, PendingTypes, PendingHeld, NameInv
<1>3. PICK s \in Seq(FindTargets) : s = pending.left
  BY <1>2
<1>4. s # <<>> /\ Head(s) = s[1] /\ Head(s) \in FindTargets /\ Tail(s) \in Seq(FindTargets)
  BY <1>1, <1>3
<1>5. Len(s) = 1 => Tail(s) = <<>>
  <2>1. Len(Tail(s)) = Len(s) - 1
    BY <1>4
  <2>2. Tail(s) # <<>> => Len(Tail(s)) \in Nat \ {0}
    BY <1>4, EmptySeq
  <2> QED
    BY <2>1, <2>2
<1>6. NameAsked(pending.asked) => pending.left = pending.asked /\ Len(s) = 1
  BY <1>1, <1>3 DEF Inv, NameInv, NameAsked
<1> QED
  BY <1>1, <1>2, <1>3, <1>4, <1>5, <1>6

LEMMA FindSkipInv ==
    ASSUME Inv, FindApplication \/ FindKeyboard
    PROVE  Inv'
<1>1. Finding({"application", "vkb"}) /\ UNCHANGED <<tree, last>>
  BY DEF FindApplication, FindKeyboard, Finding
<1>2. pending' \in {[pending EXCEPT !.left = Tail(pending.left)], [pending EXCEPT !.left = <<>>]}
  BY DEF FindApplication, FindKeyboard
<1>3. /\ ~NameAsked(pending.asked) /\ last = Nothing /\ Tail(pending.left) \in Seq(FindTargets)
      /\ pending.asked \in Seq(FindTargets) \ {<<>>} /\ <<>> \in Seq(FindTargets)
  <2>1. Head(pending.left).class \in {"application", "vkb"} /\ last = Nothing
    BY <1>1 DEF Finding, Inv, NameInv
  <2>2. Head(pending.left).class # ""
    BY <2>1
  <2>3. ~NameAsked(pending.asked)
    BY <1>1, <2>2, FindHead DEF NameAsked
  <2> QED
    BY <1>1, <2>1, <2>3, FindHead
<1>4. /\ pending'.service = "find" /\ pending'.target = NoObject /\ pending'.told = pending.told
      /\ pending'.left \in {Tail(pending.left), <<>>} /\ pending'.asked = pending.asked
      /\ pending' = [service |-> pending'.service, asked |-> pending'.asked,
                     left |-> pending'.left, told |-> pending'.told,
                     cells |-> pending'.cells, target |-> pending'.target,
                     lost |-> pending'.lost]
  BY <1>1, <1>2, FindHead DEF Inv, PendingTypes
<1>5. PendingTypes'
  BY <1>3, <1>4 DEF PendingTypes
<1>6. PendingHeld'
  BY <1>1, <1>4, SameTree DEF Inv, PendingHeld
<1>7. NameInv'
  BY <1>1, <1>3, <1>4 DEF NameInv
<1> QED
  BY <1>1, <1>3, <1>5, <1>6, <1>7, SameTree, NothingFound DEF Inv, Nothing

LEMMA FindTargetInv ==
    ASSUME Inv, FindTarget
    PROVE  Inv'
<1>1. Finding(Kinds \cup {""}) /\ object' = object /\ known' = known /\ last' = last
  BY DEF FindTarget
<1>2. PICK t \in FindTargets : t = Head(pending.left)
  BY <1>1, FindHead
<1>3. PICK x \in Details(cache, t, NoObject) \ {{}} :
          /\ cache' = Stored(cache, WithOthers(Identified(x, t.command), t.command))
          /\ pending' = [pending EXCEPT
                 !.left = Tail(@), !.told = @ \cup Identified(x, t.command),
                 !.cells = @ \cup Cells(Identified(x, t.command), t.command)]
  BY <1>2 DEF FindTarget
<1>4. PICK told : told = Identified(x, t.command)
  OBVIOUS
<1>5. PICK as : as = WithOthers(told, t.command)
  OBVIOUS
<1>6. x \subseteq LiveOnes /\ told \subseteq LiveOnes
  BY <1>3, <1>4, DetailsOf, IdentifiedIn DEF Inv, TreeInv
<1>7. as \in SUBSET LiveOnes /\ told \subseteq as
  BY <1>5, <1>6, OthersLive DEF Inv, TreeInv, WithOthers
<1>8. TreeInv' /\ \A a \in Objects : a \in as \/ Held(a) => Held(a)'
  <2>1. /\ cache' \in [Objects -> {"none", "live", "null"}]
        /\ \A a \in Objects : cache'[a] = "live" <=> cache[a] = "live" \/ (a \in as /\ ~IsA(a, Bare))
    BY <1>3, <1>4, <1>5, StoredIs DEF Inv, TreeInv, TreeTypes
  <2>2. /\ known' \in [Objects -> {"none", "this", "gone"}]
        /\ \A a \in Objects : known'[a] = "this" => Held(a)
    BY <1>1 DEF Inv, TreeInv, TreeTypes, KnownIsHeld
  <2> QED
    BY <1>1, <1>7, <2>1, <2>2, KeepsTree DEF Inv
<1>9. /\ pending'.service = "find" /\ pending'.target = NoObject
      /\ pending'.told = pending.told \cup told
      /\ pending'.left = Tail(pending.left) /\ pending'.asked = pending.asked
      /\ pending' = [service |-> pending'.service, asked |-> pending'.asked,
                     left |-> pending'.left, told |-> pending'.told,
                     cells |-> pending'.cells, target |-> pending'.target,
                     lost |-> pending'.lost]
  BY <1>1, <1>3, <1>4, FindHead DEF Inv, PendingTypes
<1>10. PendingTypes'
  BY <1>1, <1>9, FindHead DEF PendingTypes
<1>11. PendingHeld'
  <2>1. pending.told \subseteq Objects /\ \A a \in pending.told : Held(a)
    BY DEF Inv, PendingHeld
  <2>2. told \subseteq Objects
    BY <1>6 DEF LiveOnes
  <2> QED
    BY <1>7, <1>8, <1>9, <2>1, <2>2 DEF PendingHeld
<1>12. NameInv'
  <2>1. ASSUME NameAsked(pending.asked)
        PROVE  Tail(pending.left) = <<>> /\ \E a \in told : object[a].name = pending.asked[1].name
    <3>1. t = pending.asked[1] /\ Tail(pending.left) = <<>>
      BY <1>1, <1>2, <2>1, FindHead
    <3>2. t.id = NoObject /\ t.class = "" /\ t.name # NoName /\ t.command = NoCommand
      BY <2>1, <3>1 DEF NameAsked
    <3>3. told = x
      BY <1>4, <3>2, AllIdentified
    <3> QED
      BY <1>3, <3>1, <3>2, <3>3, AskedFound DEF Inv, TreeInv
  <2> QED
    BY <1>1, <1>9, <2>1, FindHead DEF NameInv
<1>13. last'.asked = <<>>
  <2>1. last = Nothing
    BY <1>1 DEF Finding, Inv, NameInv
  <2> QED
    BY <1>1, <2>1 DEF Nothing
<1> QED
  BY <1>8, <1>10, <1>11, <1>12, <1>13, NothingFound DEF Inv

LEMMA FindAllInv ==
    ASSUME Inv, FindAll
    PROVE  Inv'
<1>1. /\ Finding(Kinds \cup {"", "*"}) /\ pending' = Idle
      /\ TellAll(pending.asked, pending.asked[1].command)
  BY DEF FindAll
<1>2. /\ object' = object
      /\ last' = [asked |-> pending.asked, told |-> AllTold(pending.asked[1].command)]
  BY <1>1 DEF TellAll
<1>3. NameFound'
  <2>1. UiState' = UiState
    BY <1>2, SameUiState
  <2>2. last'.told = AllTold(last'.asked[1].command)
    BY <1>2
  <2>3. last'.told = Identified(UiState, last'.asked[1].command)
    BY <2>2 DEF AllTold
  <2>4. last'.asked[1].command = NoCommand => last'.told = UiState
    BY <2>3, AllIdentified
  <2>5. last'.asked \in Seq(FindTargets)
    BY <1>1, <1>2, FindHead
  <2> QED
    BY <1>2, <2>1, <2>4, <2>5, AnswerFound DEF NameAsked
<1> QED
  BY <1>1, <1>3, TellAllTree, IdleIs DEF Inv

LEMMA FindReplyInv ==
    ASSUME Inv, FindReply
    PROVE  Inv'
<1>1. /\ pending.service = "find" /\ pending.left = <<>> /\ pending' = Idle
      /\ known' = Told(pending.told, pending.cells) /\ object' = object /\ cache' = cache
      /\ last' = [asked |-> pending.asked, told |-> pending.told]
  BY DEF FindReply
<1>2. TreeInv'
  <2>1. /\ cache' \in [Objects -> {"none", "live", "null"}]
        /\ \A a \in Objects : cache'[a] = "live" <=> cache[a] = "live"
    BY <1>1 DEF Inv, TreeInv, TreeTypes
  <2>2. /\ known' \in [Objects -> {"none", "this", "gone"}]
        /\ \A a \in Objects : known'[a] = "this" => Held(a)
    BY <1>1, ToldIs DEF Inv, TreeInv, KnownIsHeld, PendingHeld
  <2>3. {} \in SUBSET LiveOnes
    OBVIOUS
  <2> QED
    BY <1>1, <2>1, <2>2, <2>3, KeepsTree DEF Inv
<1>3. NameFound'
  <2>1. pending.asked \in Seq(FindTargets) \ {<<>>}
    BY <1>1 DEF Inv, PendingTypes
  <2>2. NameAsked(pending.asked) =>
            \E a \in pending.told : object[a].name = pending.asked[1].name
    BY <1>1, <2>1 DEF Inv, NameInv
  <2>3. last'.asked = pending.asked /\ last'.told = pending.told
    BY <1>1
  <2> QED
    BY <1>1, <2>1, <2>2, <2>3, AnswerFound
<1> QED
  BY <1>1, <1>2, <1>3, IdleIs DEF Inv

-----------------------------------------------------------------------------
(* Commands.                                                               *)

LEMMA ObjectTargetInv ==
    ASSUME Inv, ObjectTarget
    PROVE  Inv'
<1>1. /\ pending.service = "object" /\ pending.left # <<>> /\ pending.target = NoObject
      /\ object' = object /\ known' = known /\ last' = last
  BY DEF ObjectTarget
<1>2. PICK s \in Seq(CommandTargets) : s = pending.left
  BY <1>1 DEF Inv, PendingTypes
<1>3. Head(s) \in CommandTargets /\ Tail(s) \in Seq(CommandTargets)
  BY <1>1, <1>2
<1>4. PICK t \in CommandTargets : t = Head(pending.left)
  BY <1>2, <1>3
<1>5. PICK found : found = Lookup(cache, t.type, t.id)
  OBVIOUS
<1>6. /\ cache' = Stored(Looked(cache, t.id), found.met)
      /\ pending' \in {[Idle EXCEPT !.service = "crashed"],
                       [pending EXCEPT !.left = Tail(@), !.target = NoObject],
                       [pending EXCEPT !.left = Tail(@), !.target = found.is]}
  BY <1>4, <1>5 DEF ObjectTarget
<1>7. found.is \in LiveOnes \cup {NoObject} /\ found.met \in SUBSET LiveOnes
  BY <1>5, LookupLive DEF CommandTargets, Inv
<1>8. TreeInv' /\ \A a : Live(a)' <=> Live(a)
  <2>1. PICK c : c = Looked(cache, t.id)
    OBVIOUS
  <2>2. /\ c \in [Objects -> {"none", "live", "null"}]
        /\ \A a \in Objects : c[a] = "live" <=> cache[a] = "live"
    BY <2>1, LookedIs DEF Inv, TreeInv, TreeTypes
  <2>3. cache' = Stored(c, found.met)
    BY <1>6, <2>1
  <2>4. /\ Stored(c, found.met) \in [Objects -> {"none", "live", "null"}]
        /\ \A a \in Objects : Stored(c, found.met)[a] = "live"
                               <=> c[a] = "live" \/ (a \in found.met /\ ~IsA(a, Bare))
    BY <2>2, StoredIs
  <2>5. /\ cache' \in [Objects -> {"none", "live", "null"}]
        /\ \A a \in Objects : cache'[a] = "live"
                               <=> cache[a] = "live" \/ (a \in found.met /\ ~IsA(a, Bare))
    BY ONLY <2>2, <2>3, <2>4
  <2>6. /\ known' \in [Objects -> {"none", "this", "gone"}]
        /\ \A a \in Objects : known'[a] = "this" => Held(a)
    BY <1>1 DEF Inv, TreeInv, TreeTypes, KnownIsHeld
  <2>7. TreeInv'
    BY <1>1, <1>7, <2>5, <2>6, KeepsTree DEF Inv
  <2> QED
    BY <1>1, <2>7 DEF Live, Kind
<1>9. \/ /\ pending'.service = "crashed" /\ pending'.target = NoObject
      \/ /\ pending'.service = "object" /\ pending'.target \in LiveOnes \cup {NoObject}
         /\ pending'.left = Tail(pending.left)
  BY <1>1, <1>6, <1>7 DEF Idle, Inv, PendingTypes
<1>10. pending'.told = {}
  BY <1>1, <1>6 DEF Idle, Inv, PendingTypes, PendingHeld
<1>11. pending' = [service |-> pending'.service, asked |-> pending'.asked,
                   left |-> pending'.left, told |-> pending'.told,
                   cells |-> pending'.cells, target |-> pending'.target,
                   lost |-> pending'.lost]
  BY <1>1, <1>6 DEF Idle, Inv, PendingTypes
<1>12. PendingTypes'
  BY <1>2, <1>3, <1>9, <1>11 DEF PendingTypes
<1>13. PendingHeld'
  BY <1>8, <1>9, <1>10 DEF PendingHeld, LiveOnes
<1>14. last = Nothing
  BY <1>1 DEF Inv, NameInv
<1> QED
  BY <1>1, <1>8, <1>9, <1>12, <1>13, <1>14, NothingFound DEF Inv, NameInv, Nothing

LEMMA ObjectCommandInv ==
    ASSUME Inv, ObjectCommand
    PROVE  Inv'
<1>1. /\ pending.target # NoObject /\ last' = last
      /\ AppStep \/ UNCHANGED tree
  BY DEF ObjectCommand
<1>2. pending.service = "object" /\ pending.told = {} /\ last = Nothing
  BY <1>1 DEF Inv, PendingHeld, NameInv
<1>3. TreeInv'
  BY <1>1, AppStepTree, SameTree DEF Inv
<1>4. PICK more \in BOOLEAN :
          pending' = [pending EXCEPT
              !.target = IF more THEN @ ELSE NoObject,
              !.lost = more /\ (@ \/ object'[pending.target].kind = "none")]
  BY DEF ObjectCommand
<1>5. /\ pending'.service = "object" /\ pending'.told = {} /\ pending'.left = pending.left
      /\ pending' = [service |-> pending'.service, asked |-> pending'.asked,
                     left |-> pending'.left, told |-> pending'.told,
                     cells |-> pending'.cells, target |-> pending'.target,
                     lost |-> pending'.lost]
  BY <1>2, <1>4 DEF Inv, PendingTypes
<1>6. ASSUME pending'.target # NoObject
      PROVE  pending'.target \in LiveOnes' \/ pending'.lost
  <2>1. pending'.target = pending.target /\ more
    BY <1>2, <1>4, <1>6 DEF Inv, PendingTypes
  <2>2. pending'.lost <=> pending.lost \/ object'[pending.target].kind = "none"
    BY <1>2, <1>4, <2>1 DEF Inv, PendingTypes
  <2>3. pending.lost \/ pending.target \in Objects
    BY <1>1 DEF Inv, PendingHeld, LiveOnes
  <2> QED
    BY <2>1, <2>2, <2>3 DEF LiveOnes, Live, Kind
<1>7. PendingTypes' /\ PendingHeld' /\ NameInv'
  BY <1>1, <1>2, <1>5, <1>6 DEF Inv, PendingTypes, PendingHeld, NameInv
<1> QED
  BY <1>1, <1>2, <1>3, <1>7, NothingFound DEF Inv, Nothing

LEMMA ObjectCrashInv ==
    ASSUME Inv, ObjectCrash
    PROVE  Inv'
<1>1. /\ pending.lost /\ UNCHANGED tree /\ last' = last
      /\ pending' = [Idle EXCEPT !.service = "crashed"]
  BY DEF ObjectCrash
<1>2. last = Nothing
  BY <1>1 DEF Inv, PendingHeld, PendingTypes, NameInv, Idle
<1>3. /\ pending'.service = "crashed" /\ pending'.target = NoObject /\ pending'.told = {}
      /\ pending' = [service |-> pending'.service, asked |-> pending'.asked,
                     left |-> pending'.left, told |-> pending'.told,
                     cells |-> pending'.cells, target |-> pending'.target,
                     lost |-> pending'.lost]
  BY <1>1 DEF Idle
<1> QED
  BY <1>1, <1>2, <1>3, SameTree, NothingFound
     DEF Inv, PendingTypes, PendingHeld, NameInv, Nothing

LEMMA ObjectReplyInv ==
    ASSUME Inv, ObjectReply
    PROVE  Inv'
<1>1. pending.service = "object" /\ pending' = Idle /\ UNCHANGED <<tree, last>>
  BY DEF ObjectReply
<1>2. last = Nothing
  BY <1>1 DEF Inv, NameInv
<1> QED
  BY <1>1, <1>2, SameTree, IdleIs, NothingFound DEF Inv, Nothing

LEMMA StutterInv ==
    ASSUME Inv, UNCHANGED vars
    PROVE  Inv'
<1>1. UNCHANGED tree /\ pending' = pending /\ last' = last /\ object' = object
  BY DEF vars, tree
<1>2. TreeInv' /\ \A a \in Objects : Held(a) => Held(a)'
  BY <1>1, SameTree DEF Inv
<1>3. PendingTypes' /\ NameInv'
  BY <1>1 DEF Inv, PendingTypes, NameInv
<1>4. PendingHeld'
  BY <1>1, <1>2 DEF Inv, PendingHeld, LiveOnes, Live, Kind
<1>5. NameFound'
  <2>1. UiState' = UiState
    BY <1>1, SameUiState
  <2> SUFFICES ASSUME NEW t \in {last'.asked[i] : i \in DOMAIN last'.asked}, Len(last'.asked) = 1,
                      t.id = NoObject, t.class = "", t.name # NoName, t.command = NoCommand,
                      \E a \in UiState' : object'[a].name = t.name
               PROVE  \E a \in last'.told : object'[a].name = t.name
    BY DEF NameFound
  <2>2. t \in {last.asked[i] : i \in DOMAIN last.asked} /\ Len(last.asked) = 1
    BY <1>1
  <2>3. \E a \in UiState : object[a].name = t.name
    BY <1>1, <2>1
  <2>4. \E a \in last.told : object[a].name = t.name
    BY <2>2, <2>3 DEF Inv, NameFound
  <2> QED
    BY <1>1, <2>4
<1> QED
  BY <1>2, <1>3, <1>4, <1>5 DEF Inv

LEMMA NextInv == Inv /\ [Next]_vars => Inv'
  BY ApplicationInv, UiStateRequestInv, FindRequestInv, ObjectRequestInv, FindSkipInv,
     FindTargetInv, FindAllInv, FindReplyInv, ObjectTargetInv, ObjectCommandInv, ObjectCrashInv,
     ObjectReplyInv, StutterInv DEF Next, TesterNext, PluginNext

-----------------------------------------------------------------------------
(* What follows from the invariant.                                        *)

LEMMA HeldIsGood ==
    ASSUME TreeInv, NEW a \in Objects, Held(a)
    PROVE  /\ Live(a)
           /\ \/ TypeOf(a) \in {"Window", "ViewItem"} /\ ~TreeCell(a)
              \/ Lookup(cache, TypeOf(a), a).is = a
           /\ IsA(a, Bare) \/ GetObject(cache, a) = a
<1>1. Live(a) /\ (IsA(a, Bare) \/ GetObject(cache, a) = a)
  BY DEF Held, GetObject
<1>2. a # NoObject
  BY ObjectAssumption
<1>3. CASE IsA(a, SceneItems)
  <2>1. TypeOf(a) = "Graphics"
    BY <1>3 DEF TypeOf, IsA, SceneItems, Windows
  <2> QED
    BY <1>1, <1>3, <2>1 DEF Lookup, FindGraphicsItem, OfKind
<1>4. CASE IsA(a, {"quick"})
  <2>1. TypeOf(a) = "QSceneGraph"
    BY <1>4 DEF TypeOf, IsA, SceneItems, Windows
  <2> QED
    BY <1>1, <1>4, <2>1 DEF Lookup, FindQuickItem, OfKind
<1>5. CASE IsA(a, Windows)
  <2>1. TypeOf(a) = "Window"
    BY <1>5 DEF TypeOf, IsA, SceneItems, Windows
  <2>2. Parents(a) = {}
    BY <1>5 DEF TreeInv, TreeShape, Parents
  <2>3. Above(a) = {}
    BY <2>2 DEF Above, Reached
  <2> QED
    BY <1>1, <2>1, <2>3 DEF TreeCell
<1>6. CASE IsA(a, {"cell"})
  <2>1. TypeOf(a) = "ViewItem"
    BY <1>6 DEF TypeOf, IsA, SceneItems, Windows
  <2>2. ASSUME TreeCell(a) PROVE FindTreeItem(cache, a).is = a
    <3>1. PICK v \in Above(a) : IsA(v, {"tree"})
      BY <2>2 DEF TreeCell
    <3>2. v \in Objects /\ a \in Below(v) /\ IsA(v, Widgets)
      BY <3>1 DEF IsA, Below, Widgets, CellWidgets
    <3>3. FindWidget(cache, v).is = v
      BY <3>2 DEF FindWidget, OfKind
    <3> QED
      BY <3>1, <3>2, <3>3 DEF FindTreeItem
  <2> QED
    BY <1>1, <2>1, <2>2 DEF Lookup
<1>7. CASE ~IsA(a, SceneItems \cup {"quick", "cell"} \cup Windows)
  <2>1. TypeOf(a) = "Standard"
    BY <1>7 DEF TypeOf, IsA
  <2>2. GetObject(cache, a) = a
    BY <1>1, <1>7 DEF IsA, Bare, SceneItems
  <2>3. CASE FindWidget(cache, a).is # NoObject
    BY <1>1, <2>1, <2>2, <2>3 DEF Lookup, FindWidget, OfKind
  <2>4. CASE FindWidget(cache, a).is = NoObject
    <3>1. Lookup(cache, TypeOf(a), a) = [FindWidget(cache, a) EXCEPT !.is = a]
      BY <2>1, <2>2, <2>4 DEF Lookup, FindObject
    <3>2. FindWidget(cache, a) = [is |-> FindWidget(cache, a).is, met |-> FindWidget(cache, a).met]
      BY DEF FindWidget, OfKind
    <3> QED
      BY <1>1, <3>1, <3>2
  <2> QED
    BY <2>3, <2>4
<1> QED
  BY <1>3, <1>4, <1>5, <1>6, <1>7 DEF IsA

LEMMA InvImplies == Inv => IdIsGood /\ ActsOnLive /\ NameFound
  BY HeldIsGood DEF Inv, TreeInv, KnownIsHeld, IdIsGood, ActsOnLive, PendingHeld, LiveOnes

(* The objects, the ids and the request in work are what they should be in *)
(* every state.                                                            *)
THEOREM ObjectsHold == Spec => []Inv
<1>1. Init => Inv
  BY InitInv
<1>2. Inv /\ [Next]_vars => Inv'
  BY NextInv
<1> QED
  BY <1>1, <1>2, PTL DEF Spec

(* An id that the tester was given leads to its object as long as the      *)
(* object is there, whatever the application creates and destroys: to the  *)
(* look-up of a command by its type, and to find_object by the cache.      *)
THEOREM IdsAreGood == Spec => []IdIsGood
  BY ObjectsHold, InvImplies, PTL

(* ObjectService performs no command on an object that was destroyed       *)
(* before or by an earlier target: only what a command of the same target  *)
(* has destroyed is used again.                                            *)
THEOREM CommandsActOnLive == Spec => []ActsOnLive
  BY ObjectsHold, InvImplies, PTL

(* find_object finds by its name what the ui state has.                    *)
THEOREM NamesAreFound == Spec => []NameFound
  BY ObjectsHold, InvImplies, PTL

-----------------------------------------------------------------------------
(* Sequences, and sequences put together.                                  *)
IsSequence(s) == s \in Seq(Range(s))

LEMMA SequenceIs ==
    ASSUME NEW s, IsSequence(s)
    PROVE  Len(s) \in Nat /\ DOMAIN s = 1..Len(s) /\ s = [m \in 1..Len(s) |-> s[m]]
  BY DEF IsSequence

LEMMA IsOfFunction ==
    ASSUME NEW n \in Nat, NEW s, s = [m \in 1..n |-> s[m]]
    PROVE  IsSequence(s) /\ Len(s) = n /\ DOMAIN s = 1..n
  BY DEF IsSequence, Range

LEMMA IsInSeq ==
    ASSUME NEW R, NEW s \in Seq(R)
    PROVE  IsSequence(s)
<1>1. Len(s) \in Nat /\ s = [m \in 1..Len(s) |-> s[m]]
  OBVIOUS
<1> QED
  BY <1>1, IsOfFunction

LEMMA ConcatIs ==
    ASSUME NEW s, NEW t, IsSequence(s), IsSequence(t)
    PROVE  /\ IsSequence(s \o t) /\ Len(s \o t) = Len(s) + Len(t)
           /\ DOMAIN (s \o t) = 1..(Len(s) + Len(t))
           /\ \A m \in DOMAIN s : m \in DOMAIN (s \o t) /\ (s \o t)[m] = s[m]
           /\ \A m \in DOMAIN t : Len(s) + m \in DOMAIN (s \o t) /\ (s \o t)[Len(s) + m] = t[m]
           /\ \A m \in DOMAIN (s \o t) : \/ m \in DOMAIN s /\ (s \o t)[m] = s[m]
                                         \/ m - Len(s) \in DOMAIN t /\ (s \o t)[m] = t[m - Len(s)]
<1> DEFINE R == Range(s) \cup Range(t)
<1>1. s \in Seq(R) /\ t \in Seq(R)
  BY DEF IsSequence
<1>2. /\ Len(s \o t) = Len(s) + Len(t) /\ Len(s) \in Nat /\ Len(t) \in Nat
      /\ DOMAIN (s \o t) = 1..(Len(s) + Len(t)) /\ DOMAIN s = 1..Len(s) /\ DOMAIN t = 1..Len(t)
      /\ s \o t \in Seq(R)
  BY <1>1
<1>3. \A m \in 1..(Len(s) + Len(t)) : (s \o t)[m] = IF m <= Len(s) THEN s[m] ELSE t[m - Len(s)]
  BY <1>1
<1>5. IsSequence(s \o t)
  BY <1>2, IsInSeq
<1> QED
  BY <1>2, <1>3, <1>5

(* Induction over the naturals, for a set: by the least number that is not *)
(* in it.                                                                  *)
LEMMA LeastExists ==
    ASSUME NEW T \in SUBSET Nat, T # {}
    PROVE  \E n \in T : \A k \in T : n <= k
<1>1. PICK n \in T : \A k \in T : ~(<<k, n>> \in OpToRel(<, Nat))
  BY NatLessThanWellFounded, WFMin
<1>2. ASSUME NEW k \in T, k < n PROVE FALSE
  <2>1. <<k, n>> \in Nat \X Nat /\ <<k, n>>[1] < <<k, n>>[2]
    BY <1>2
  <2>2. <<k, n>> \in OpToRel(<, Nat)
    BY <2>1 DEF OpToRel
  <2> QED
    BY <2>2, <1>1
<1> QED
  BY <1>2

LEMMA AllNaturals ==
    ASSUME NEW S, 0 \in S, \A n \in Nat : n \in S => n + 1 \in S
    PROVE  \A n \in Nat : n \in S
<1> DEFINE T == Nat \ S
<1> SUFFICES ASSUME T # {} PROVE FALSE
  OBVIOUS
<1>1. PICK n \in T : \A k \in T : n <= k
  BY LeastExists
<1>2. n # 0 /\ n - 1 \in Nat
  OBVIOUS
<1>3. n - 1 \notin T
  BY <1>1, <1>2
<1> QED
  BY <1>2, <1>3

(* FlattenSeq without its recursion.                                       *)
Flattening(s, f, n) == f = [i \in 1..n |-> IF i = 1 THEN s[i] ELSE f[i - 1] \o s[i]]

LEMMA FlattenIs ==
    ASSUME NEW s, Len(s) # 0, NEW g, Flattening(s, g, Len(s))
    PROVE  \E f : Flattening(s, f, Len(s)) /\ FlattenSeq(s) = f[Len(s)]
  BY Zenon DEF FlattenSeq, Flattening

LEMMA FlatteningExists ==
    ASSUME NEW s
    PROVE  \A n \in Nat : \E f : Flattening(s, f, n)
<1> DEFINE S == {n \in Nat : \E f : Flattening(s, f, n)}
<1>1. 0 \in S
  <2>1. Flattening(s, [i \in 1..0 |-> s[i]], 0)
    BY DEF Flattening
  <2> QED
    BY <2>1
<1>2. ASSUME NEW n \in Nat, n \in S PROVE n + 1 \in S
  <2>1. PICK f : Flattening(s, f, n)
    BY <1>2
  <2> DEFINE g == [i \in 1..n + 1 |-> IF i = 1 THEN s[i] ELSE f[i - 1] \o s[i]]
  <2>a. \A i \in 1..n : f[i] = IF i = 1 THEN s[i] ELSE f[i - 1] \o s[i]
    BY <2>1 DEF Flattening
  <2>2. \A i \in 1..n : g[i] = f[i]
    BY <2>a
  <2>3. \A i \in 1..n + 1 : i # 1 => i - 1 \in 1..n
    OBVIOUS
  <2>4. g = [i \in 1..n + 1 |-> IF i = 1 THEN s[i] ELSE g[i - 1] \o s[i]]
    BY <2>2, <2>3
  <2> HIDE DEF g
  <2>5. Flattening(s, g, n + 1)
    BY <2>4 DEF Flattening
  <2> QED
    BY <2>5
<1> HIDE DEF S
<1>3. \A n \in Nat : n \in S
  BY <1>1, <1>2, AllNaturals
<1> QED
  BY <1>3 DEF S

(* The sequence t is the first n of s put together: its k-th is the        *)
(* place[k]-th of the part[k]-th, in this order, and none is left out.     *)
PutTogether(s, n, t, part, place) ==
    /\ IsSequence(t)
    /\ part \in [DOMAIN t -> 1..n] /\ place \in [DOMAIN t -> Nat]
    /\ \A k \in DOMAIN t : place[k] \in DOMAIN s[part[k]] /\ t[k] = s[part[k]][place[k]]
    /\ \A i \in 1..n : \A j \in DOMAIN s[i] : \E k \in DOMAIN t : part[k] = i /\ place[k] = j
    /\ \A k, l \in DOMAIN t :
          k < l => part[k] < part[l] \/ (part[k] = part[l] /\ place[k] < place[l])

LEMMA OneMore ==
    ASSUME NEW s, NEW n \in Nat, NEW t, NEW part, NEW place, PutTogether(s, n, t, part, place),
           IsSequence(s[n + 1])
    PROVE  \E a, b : PutTogether(s, n + 1, t \o s[n + 1], a, b)
<1> DEFINE u == s[n + 1]
           v == t \o u
<1>1. /\ IsSequence(t) /\ Len(t) \in Nat /\ DOMAIN t = 1..Len(t)
      /\ IsSequence(u) /\ Len(u) \in Nat /\ DOMAIN u = 1..Len(u)
  BY SequenceIs DEF PutTogether
<1>2. /\ IsSequence(v) /\ DOMAIN v = 1..(Len(t) + Len(u))
      /\ \A m \in DOMAIN t : m \in DOMAIN v /\ v[m] = t[m]
      /\ \A m \in DOMAIN u : Len(t) + m \in DOMAIN v /\ v[Len(t) + m] = u[m]
  BY <1>1, ConcatIs
<1>3. /\ part \in [1..Len(t) -> 1..n] /\ place \in [1..Len(t) -> Nat]
      /\ \A k \in 1..Len(t) : place[k] \in DOMAIN s[part[k]] /\ t[k] = s[part[k]][place[k]]
      /\ \A i \in 1..n : \A j \in DOMAIN s[i] : \E k \in 1..Len(t) : part[k] = i /\ place[k] = j
      /\ \A k, l \in 1..Len(t) :
            k < l => part[k] < part[l] \/ (part[k] = part[l] /\ place[k] < place[l])
  <2>1. /\ part \in [DOMAIN t -> 1..n] /\ place \in [DOMAIN t -> Nat]
        /\ \A k \in DOMAIN t : place[k] \in DOMAIN s[part[k]] /\ t[k] = s[part[k]][place[k]]
        /\ \A i \in 1..n : \A j \in DOMAIN s[i] : \E k \in DOMAIN t : part[k] = i /\ place[k] = j
        /\ \A k, l \in DOMAIN t :
              k < l => part[k] < part[l] \/ (part[k] = part[l] /\ place[k] < place[l])
    BY Zenon DEF PutTogether
  <2>2. DOMAIN t = 1..Len(t)
    BY <1>1
  <2>3. part \in [1..Len(t) -> 1..n] /\ place \in [1..Len(t) -> Nat]
    BY ONLY <2>1, <2>2
  <2>4. \A k \in 1..Len(t) : place[k] \in DOMAIN s[part[k]] /\ t[k] = s[part[k]][place[k]]
    BY ONLY <2>1, <2>2
  <2>5. \A i \in 1..n : \A j \in DOMAIN s[i] : \E k \in 1..Len(t) : part[k] = i /\ place[k] = j
    BY ONLY <2>1, <2>2
  <2>6. \A k, l \in 1..Len(t) :
            k < l => part[k] < part[l] \/ (part[k] = part[l] /\ place[k] < place[l])
    BY ONLY <2>1, <2>2
  <2> QED
    BY ONLY <2>3, <2>4, <2>5, <2>6
<1> DEFINE a == [k \in DOMAIN v |-> IF k <= Len(t) THEN part[k] ELSE n + 1]
           b == [k \in DOMAIN v |-> IF k <= Len(t) THEN place[k] ELSE k - Len(t)]
<1> HIDE DEF v
<1>4. \A k \in 1..Len(t) : k \in DOMAIN v /\ a[k] = part[k] /\ b[k] = place[k] /\ v[k] = t[k]
                           /\ a[k] \in 1..n /\ b[k] \in Nat
  <2> SUFFICES ASSUME NEW k \in 1..Len(t)
               PROVE  /\ k \in DOMAIN v /\ a[k] = part[k] /\ b[k] = place[k] /\ v[k] = t[k]
                      /\ a[k] \in 1..n /\ b[k] \in Nat
    OBVIOUS
  <2>1. k \in DOMAIN v /\ v[k] = t[k] /\ k <= Len(t)
    BY <1>1, <1>2
  <2>2. a[k] = part[k] /\ b[k] = place[k]
    BY <2>1
  <2>3. part[k] \in 1..n /\ place[k] \in Nat
    BY <1>3
  <2> QED
    BY ONLY <2>1, <2>2, <2>3
<1>5. \A k \in DOMAIN v : k \notin 1..Len(t) =>
          /\ k - Len(t) \in 1..Len(u) /\ v[k] = u[k - Len(t)]
          /\ a[k] = n + 1 /\ b[k] = k - Len(t)
  <2> SUFFICES ASSUME NEW k \in DOMAIN v, k \notin 1..Len(t)
               PROVE  /\ k - Len(t) \in 1..Len(u) /\ v[k] = u[k - Len(t)]
                      /\ a[k] = n + 1 /\ b[k] = k - Len(t)
    OBVIOUS
  <2>1. k \in Nat /\ k > Len(t) /\ k <= Len(t) + Len(u)
    BY <1>1, <1>2
  <2>2. k - Len(t) \in 1..Len(u) /\ Len(t) + (k - Len(t)) = k
    BY <2>1, <1>1
  <2>3. v[k] = u[k - Len(t)]
    BY <2>2, <1>1, <1>2
  <2>4. a[k] = n + 1 /\ b[k] = k - Len(t)
    BY <2>1, <1>1
  <2> QED
    BY <2>2, <2>3, <2>4
<1>6. \A k \in DOMAIN v : k \in Nat
  BY <1>1, <1>2
<1>7. a \in [DOMAIN v -> 1..n + 1]
  <2>1. ASSUME NEW k \in DOMAIN v PROVE a[k] \in 1..n + 1
    <3>1. CASE k \in 1..Len(t)
      <4>1. a[k] \in 1..n
        BY <3>1, <1>4
      <4> HIDE DEF a
      <4> QED
        BY <4>1
    <3>2. CASE k \notin 1..Len(t)
      <4>1. a[k] = n + 1
        BY <3>2, <1>5
      <4> HIDE DEF a
      <4> QED
        BY <4>1
    <3> QED
      BY <3>1, <3>2
  <2>2. a = [k \in DOMAIN v |-> a[k]]
    OBVIOUS
  <2> HIDE DEF a
  <2> QED
    BY <2>1, <2>2
<1>8. b \in [DOMAIN v -> Nat]
  <2>1. ASSUME NEW k \in DOMAIN v PROVE b[k] \in Nat
    <3>1. CASE k \in 1..Len(t)
      BY <3>1, <1>4
    <3>2. CASE k \notin 1..Len(t)
      <4>1. b[k] = k - Len(t) /\ k - Len(t) \in 1..Len(u)
        BY <3>2, <1>5
      <4> HIDE DEF b
      <4> QED
        BY <4>1, <1>1
    <3> QED
      BY <3>1, <3>2
  <2>2. b = [k \in DOMAIN v |-> b[k]]
    OBVIOUS
  <2> HIDE DEF b
  <2> QED
    BY <2>1, <2>2
<1> HIDE DEF a, b
<1>9. ASSUME NEW k \in DOMAIN v PROVE b[k] \in DOMAIN s[a[k]] /\ v[k] = s[a[k]][b[k]]
  <2>1. CASE k \in 1..Len(t)
    BY <2>1, <1>3, <1>4
  <2>2. CASE k \notin 1..Len(t)
    BY <2>2, <1>1, <1>5
  <2> QED
    BY <2>1, <2>2
<1>10. ASSUME NEW i \in 1..n + 1, NEW j \in DOMAIN s[i]
       PROVE  \E k \in DOMAIN v : a[k] = i /\ b[k] = j
  <2>1. CASE i = n + 1
    <3>1. j \in 1..Len(u)
      BY <2>1, <1>1
    <3>2. Len(t) + j \in DOMAIN v /\ Len(t) + j \notin 1..Len(t) /\ (Len(t) + j) - Len(t) = j
      BY <3>1, <1>1, <1>2
    <3> QED
      BY <3>2, <1>5, <2>1
  <2>2. CASE i # n + 1
    <3>1. i \in 1..n
      BY <2>2
    <3>2. PICK k \in 1..Len(t) : part[k] = i /\ place[k] = j
      BY <3>1, <1>3
    <3> QED
      BY <3>2, <1>4
  <2> QED
    BY <2>1, <2>2
<1>11. ASSUME NEW k \in DOMAIN v, NEW l \in DOMAIN v, k < l
       PROVE  a[k] < a[l] \/ (a[k] = a[l] /\ b[k] < b[l])
  <2>1. CASE l \in 1..Len(t)
    <3>1. k \in 1..Len(t)
      BY <2>1, <1>1, <1>6, <1>11, <1>2
    <3> QED
      BY <2>1, <3>1, <1>3, <1>4, <1>11
  <2>2. CASE l \notin 1..Len(t) /\ k \in 1..Len(t)
    BY <2>2, <1>4, <1>5
  <2>3. CASE l \notin 1..Len(t) /\ k \notin 1..Len(t)
    <3>1. k - Len(t) < l - Len(t)
      BY <1>1, <1>6, <1>11
    <3> QED
      BY <2>3, <3>1, <1>5
  <2> QED
    BY <2>1, <2>2, <2>3
<1>12. PutTogether(s, n + 1, v, a, b)
  BY <1>2, <1>7, <1>8, <1>9, <1>10, <1>11, Zenon DEF PutTogether
<1> QED
  BY <1>12 DEF v

LEMMA FlattenedIs ==
    ASSUME NEW s, IsSequence(s), \A m \in DOMAIN s : IsSequence(s[m])
    PROVE  \E a, b : PutTogether(s, Len(s), FlattenSeq(s), a, b)
<1>1. Len(s) \in Nat /\ DOMAIN s = 1..Len(s)
  BY SequenceIs
<1>2. CASE Len(s) = 0
  <2>1. s = <<>>
    BY <1>2, SequenceIs
  <2>2. FlattenSeq(s) = <<>>
    BY <1>2, <2>1 DEF FlattenSeq
  <2>3. PutTogether(s, 0, <<>>, [k \in {} |-> 1], [k \in {} |-> 1])
    BY DEF PutTogether, IsSequence, Range
  <2> QED
    BY <1>2, <2>2, <2>3
<1>3. CASE Len(s) # 0
  <2>1. PICK g : Flattening(s, g, Len(s))
    BY <1>1, FlatteningExists
  <2>2. PICK f : Flattening(s, f, Len(s)) /\ FlattenSeq(s) = f[Len(s)]
    BY <1>3, <2>1, FlattenIs
  <2>3. \A i \in 1..Len(s) : f[i] = IF i = 1 THEN s[i] ELSE f[i - 1] \o s[i]
    BY <2>2 DEF Flattening
  <2> DEFINE S == {n \in Nat : n \in 1..Len(s) => \E a, b : PutTogether(s, n, f[n], a, b)}
  <2>4. 0 \in S
    OBVIOUS
  <2>5. ASSUME NEW n \in Nat, n \in S PROVE n + 1 \in S
    <3> SUFFICES ASSUME n + 1 \in 1..Len(s) PROVE \E a, b : PutTogether(s, n + 1, f[n + 1], a, b)
      OBVIOUS
    <3>1. IsSequence(s[n + 1])
      BY <1>1
    <3>2. CASE n = 0
      <4>1. f[1] = s[1] /\ IsSequence(s[1])
        BY <2>3, <3>1, <3>2
      <4>2. Len(s[1]) \in Nat /\ DOMAIN s[1] = 1..Len(s[1])
        BY <4>1, SequenceIs
      <4> DEFINE u == s[1]
                 a == [k \in DOMAIN u |-> 1]
                 b == [k \in DOMAIN u |-> k]
      <4>3. a \in [DOMAIN u -> 1..1] /\ b \in [DOMAIN u -> Nat]
        BY <4>2
      <4>4. \A k \in DOMAIN u : a[k] = 1 /\ b[k] = k
        OBVIOUS
      <4> HIDE DEF a, b
      <4>5. /\ \A k \in DOMAIN u : b[k] \in DOMAIN s[a[k]] /\ u[k] = s[a[k]][b[k]]
            /\ \A i \in 1..1 : \A j \in DOMAIN s[i] : \E k \in DOMAIN u : a[k] = i /\ b[k] = j
            /\ \A k, l \in DOMAIN u : k < l => a[k] < a[l] \/ (a[k] = a[l] /\ b[k] < b[l])
        BY <4>4
      <4>6. PutTogether(s, 1, u, a, b)
        BY <4>1, <4>3, <4>5, Zenon DEF PutTogether
      <4> QED
        BY <4>1, <4>6, <3>2
    <3>3. CASE n # 0
      <4>1. n \in 1..Len(s) /\ (n + 1) - 1 = n /\ n + 1 # 1
        BY <1>1, <3>3
      <4>2. PICK a, b : PutTogether(s, n, f[n], a, b)
        BY <4>1, <2>5
      <4>3. f[n + 1] = f[n] \o s[n + 1]
        BY <4>1, <2>3, Zenon
      <4> QED
        BY <4>2, <4>3, <3>1, OneMore
    <3> QED
      BY <3>2, <3>3
  <2> HIDE DEF S
  <2>6. \A n \in Nat : n \in S
    BY <2>4, <2>5, AllNaturals
  <2> QED
    BY <1>1, <1>3, <2>2, <2>6 DEF S
<1> QED
  BY <1>2, <1>3

-----------------------------------------------------------------------------
(* The n-th of some numbers.                                               *)
Until(S, k) == {j \in S : j <= k}

LEMMA NthIs ==
    ASSUME NEW S, NEW n, NEW k
    PROVE  k \in Nth(S, n) <=> k \in S /\ Cardinality(Until(S, k)) = n
  BY DEF Nth, Until

LEMMA UntilIsFinite ==
    ASSUME NEW S, IsFiniteSet(S), NEW k
    PROVE  /\ IsFiniteSet(Until(S, k)) /\ Cardinality(Until(S, k)) \in Nat /\ Cardinality(S) \in Nat
           /\ Cardinality(Until(S, k)) <= Cardinality(S)
<1>1. Until(S, k) \in SUBSET S
  BY DEF Until
<1> QED
  BY <1>1, FS_Subset, FS_CardinalityType

LEMMA NthBound ==
    ASSUME NEW S \in SUBSET Nat, IsFiniteSet(S), NEW n, NEW k \in Nth(S, n)
    PROVE  Cardinality(S) \in Nat /\ n \in 1..Cardinality(S)
<1>1. k \in S /\ Cardinality(Until(S, k)) = n
  BY NthIs
<1>2. k \in Until(S, k)
  BY <1>1 DEF Until
<1>3. Cardinality(Until(S, k)) # 0
  BY <1>2, UntilIsFinite, FS_EmptySet
<1> QED
  BY <1>1, <1>3, UntilIsFinite

LEMMA NthExists ==
    ASSUME NEW S \in SUBSET Nat, IsFiniteSet(S), NEW n \in 1..Cardinality(S)
    PROVE  Nth(S, n) # {}
<1> DEFINE HasAll(Z) == \A m \in 1..Cardinality(Z) : \E k \in Z : Cardinality(Until(Z, k)) = m
           T == {c \in Nat : \A Z \in SUBSET Nat :
                     IsFiniteSet(Z) /\ Cardinality(Z) = c => HasAll(Z)}
<1>1. 0 \in T
  OBVIOUS
<1>2. ASSUME NEW c \in Nat, c \in T PROVE c + 1 \in T
  <2> SUFFICES ASSUME NEW Z \in SUBSET Nat, IsFiniteSet(Z), Cardinality(Z) = c + 1,
                      NEW m \in 1..Cardinality(Z)
               PROVE  \E k \in Z : Cardinality(Until(Z, k)) = m
    OBVIOUS
  <2>1. Z # {}
    BY FS_EmptySet
  <2>2. PICK x \in Z : \A k \in Z : x <= k
    BY <2>1, LeastExists
  <2>3. PICK Y : Y = Z \ {x}
    OBVIOUS
  <2>4. IsFiniteSet(Y) /\ Cardinality(Y) = c
    <3>1. IsFiniteSet(Y) /\ Cardinality(Y) = Cardinality(Z) - 1
      BY ONLY <2>2, <2>3, IsFiniteSet(Z), FS_RemoveElement
    <3>2. (c + 1) - 1 = c
      OBVIOUS
    <3> QED
      BY <3>1, <3>2
  <2>5. CASE m = 1
    <3>1. Until(Z, x) = {x}
      <4>1. \A j \in Z : j \in Nat /\ x \in Nat /\ x <= j
        BY <2>2
      <4>2. \A j : j \in Until(Z, x) <=> j \in Z /\ j <= x
        BY DEF Until
      <4>3. ASSUME NEW j PROVE j \in Until(Z, x) <=> j = x
        <5>1. j \in Z /\ j <= x => j = x
          BY ONLY <4>1
        <5>2. x \in Z /\ x <= x
          BY <4>1, <2>2
        <5> QED
          BY <5>1, <5>2, <4>2
      <4> QED
        BY <4>3
    <3>2. Cardinality(Until(Z, x)) = 1
      BY <3>1, FS_Singleton
    <3> QED
      BY <2>5, <3>2
  <2>6. CASE m # 1
    <3>1. m - 1 \in 1..Cardinality(Y) /\ (m - 1) + 1 = m /\ m - 1 \in Nat
      BY <2>4, <2>6
    <3>2. Y \in SUBSET Nat
      BY <2>3
    <3>3. PICK k \in Y : Cardinality(Until(Y, k)) = m - 1
      BY <3>1, <3>2, <2>4, <1>2
    <3>4. x \notin Until(Y, k) /\ Until(Z, k) = Until(Y, k) \cup {x}
      BY <2>2, <2>3, <3>3 DEF Until
    <3>5. IsFiniteSet(Until(Y, k))
      BY <2>4, UntilIsFinite
    <3>6. Cardinality(Until(Y, k) \cup {x}) = Cardinality(Until(Y, k)) + 1
      BY ONLY <3>4, <3>5, FS_AddElement
    <3>7. Cardinality(Until(Z, k)) = m
      BY <3>1, <3>3, <3>4, <3>6
    <3> QED
      BY <2>3, <3>3, <3>7
  <2> QED
    BY <2>5, <2>6
<1> HIDE DEF T
<1>3. \A c \in Nat : c \in T
  BY <1>1, <1>2, AllNaturals
<1>4. Cardinality(S) \in Nat
  BY FS_CardinalityType
<1>5. HasAll(S)
  BY <1>3, <1>4 DEF T
<1>6. PICK k \in S : Cardinality(Until(S, k)) = n
  BY <1>5
<1> QED
  BY <1>6, NthIs

LEMMA SameNumber ==
    ASSUME NEW S, NEW T, NEW E, IsFiniteSet(S), \A k \in S : E[k] \in T,
           \A d \in T : \E k \in S : E[k] = d,
           \A j, k \in S : E[j] = E[k] => j = k
    PROVE  IsFiniteSet(T) /\ Cardinality(T) = Cardinality(S)
<1> DEFINE f == [k \in S |-> E[k]]
<1>1. f \in Bijection(S, T)
  <2>1. f \in [S -> T] /\ DOMAIN f = S /\ \A k \in S : f[k] = E[k]
    OBVIOUS
  <2> HIDE DEF f
  <2>2. f \in Injection(S, T)
    BY <2>1 DEF Injection, IsInjective
  <2>3. f \in Surjection(S, T)
    BY <2>1 DEF Surjection
  <2> QED
    BY <2>2, <2>3 DEF Bijection
<1> HIDE DEF f
<1>2. ExistsBijection(S, T)
  BY <1>1 DEF ExistsBijection
<1> QED
  BY <1>2, FS_Bijection

AllUpTo(A, e) == {d \in A : UpTo(e, d)}

(* Of a set with its first part in some order, the n-th is that of the     *)
(* part, if this has so many.                                              *)
LEMMA NthOfFirst ==
    ASSUME NEW M \in SUBSET Nat, IsFiniteSet(M), NEW P \in SUBSET M,
           \A k \in P, j \in M : j < k => j \in P,
           NEW E, NEW A, \A k \in P : E[k] \in A, \A d \in A : \E k \in P : E[k] = d,
           \A j, k \in P : j <= k <=> UpTo(E[k], E[j]),
           NEW n \in 1..Cardinality(A), NEW k \in Nth(M, n)
    PROVE  E[k] \in A /\ Cardinality(AllUpTo(A, E[k])) = n
<1>1. IsFiniteSet(P) /\ Cardinality(P) \in Nat
  BY FS_Subset, FS_CardinalityType
<1>2. \A i, j \in P : E[i] = E[j] => i = j
  <2> SUFFICES ASSUME NEW i \in P, NEW j \in P, E[i] = E[j] PROVE i = j
    OBVIOUS
  <2>1. i \in Nat /\ j \in Nat
    OBVIOUS
  <2>2. UpTo(E[i], E[i]) /\ UpTo(E[j], E[j])
    BY <2>1
  <2>3. i <= j /\ j <= i
    BY <2>2
  <2> QED
    BY <2>1, <2>3
<1>3. IsFiniteSet(A) /\ Cardinality(A) = Cardinality(P)
  BY <1>1, <1>2, SameNumber
<1>4. k \in M /\ k \in Nat /\ Cardinality(Until(M, k)) = n
  BY NthIs
<1>5. k \in P
  <2> SUFFICES ASSUME k \notin P PROVE FALSE
    OBVIOUS
  <2>1. P \cup {k} \subseteq Until(M, k)
    <3> SUFFICES ASSUME NEW j \in P \cup {k} PROVE j \in M /\ j <= k
      BY DEF Until
    <3>1. j \in M /\ j \in Nat
      BY <1>4
    <3>2. ~(k < j)
      BY <1>4
    <3> QED
      BY <3>1, <3>2, <1>4
  <2>2. Cardinality(P \cup {k}) = Cardinality(P) + 1
    BY <1>1, FS_AddElement
  <2>3. IsFiniteSet(Until(M, k))
    BY UntilIsFinite
  <2>4. Cardinality(P \cup {k}) <= Cardinality(Until(M, k))
    BY <2>1, <2>3, FS_Subset
  <2> QED
    BY <2>2, <2>4, <1>1, <1>3, <1>4
<1>6. Until(M, k) = Until(P, k)
  <2>1. \A j : j \in Until(M, k) <=> j \in M /\ j <= k
    BY DEF Until
  <2>2. \A j : j \in Until(P, k) <=> j \in P /\ j <= k
    BY DEF Until
  <2>3. \A j \in M : j <= k => j \in P
    BY <1>4, <1>5
  <2> QED
    BY <2>1, <2>2, <2>3
<1>7. PICK D : D = AllUpTo(A, E[k])
  OBVIOUS
<1>8. \A j : j \in Until(P, k) <=> j \in P /\ UpTo(E[k], E[j])
  BY <1>5 DEF Until
<1>9. \A d : d \in D <=> d \in A /\ UpTo(E[k], d)
  BY <1>7 DEF AllUpTo
<1>10. IsFiniteSet(Until(P, k))
  BY <1>1, UntilIsFinite
<1>11. \A j \in Until(P, k) : E[j] \in D
  BY <1>8, <1>9
<1>12. \A d \in D : \E j \in Until(P, k) : E[j] = d
  BY <1>8, <1>9
<1>13. \A i, j \in Until(P, k) : E[i] = E[j] => i = j
  BY <1>2, <1>8
<1>14. Cardinality(D) = Cardinality(Until(P, k))
  <2>1. PICK U : U = Until(P, k)
    OBVIOUS
  <2> QED
    <3>1. /\ IsFiniteSet(U) /\ \A j \in U : E[j] \in D
          /\ \A d \in D : \E j \in U : E[j] = d
          /\ \A i, j \in U : E[i] = E[j] => i = j
      BY ONLY <2>1, <1>10, <1>11, <1>12, <1>13
    <3>2. Cardinality(D) = Cardinality(U)
      BY ONLY <3>1, SameNumber
    <3> QED
      BY <2>1, <3>2
<1> QED
  BY <1>4, <1>5, <1>6, <1>7, <1>14

-----------------------------------------------------------------------------
(* Trees.                                                                  *)
IsTree(nodes) == IsSequence(nodes) /\ \A i \in DOMAIN nodes : nodes[i].depth \in Nat

LastBelow(nodes, i) == i + Cardinality(NodesBelow(nodes, i))

(* What is below a node follows it without a gap.                          *)
LEMMA BelowIs ==
    ASSUME NEW nodes, IsTree(nodes), NEW i \in DOMAIN nodes
    PROVE  /\ LastBelow(nodes, i) \in i..Len(nodes)
           /\ Cardinality(NodesBelow(nodes, i)) = LastBelow(nodes, i) - i
           /\ \A j : j \in NodesBelow(nodes, i) <=> j \in (i + 1)..LastBelow(nodes, i)
           /\ \A j \in (i + 1)..LastBelow(nodes, i) : nodes[j].depth > nodes[i].depth
           /\ LastBelow(nodes, i) < Len(nodes)
                => nodes[LastBelow(nodes, i) + 1].depth <= nodes[i].depth
<1>1. Len(nodes) \in Nat /\ DOMAIN nodes = 1..Len(nodes) /\ i \in Nat
  BY SequenceIs DEF IsTree
<1>2. \A j \in DOMAIN nodes : nodes[j].depth \in Nat
  BY DEF IsTree
<1>3. \A j : j \in NodesBelow(nodes, i) <=>
          j \in DOMAIN nodes /\ j > i /\ \A k \in (i + 1)..j : nodes[k].depth > nodes[i].depth
  BY DEF NodesBelow
<1> DEFINE T == {k \in DOMAIN nodes : k > i /\ nodes[k].depth <= nodes[i].depth}
<1>4. \E end \in i..Len(nodes) :
          /\ \A j \in (i + 1)..end : nodes[j].depth > nodes[i].depth
          /\ end < Len(nodes) => nodes[end + 1].depth <= nodes[i].depth
  <2>1. CASE T = {}
    <3>1. \A j \in (i + 1)..Len(nodes) : nodes[j].depth > nodes[i].depth
      BY <1>1, <1>2, <2>1
    <3> QED
      BY <1>1, <3>1
  <2>2. CASE T # {}
    <3>1. T \in SUBSET Nat
      BY <1>1
    <3>2. PICK k \in T : \A l \in T : k <= l
      BY <2>2, <3>1, LeastExists
    <3>3. k - 1 \in i..Len(nodes) /\ (k - 1) + 1 = k
      BY <1>1, <3>2
    <3>4. \A j \in (i + 1)..(k - 1) : nodes[j].depth > nodes[i].depth
      <4> SUFFICES ASSUME NEW j \in (i + 1)..(k - 1) PROVE nodes[j].depth > nodes[i].depth
        OBVIOUS
      <4>1. j \in DOMAIN nodes /\ j > i /\ ~(k <= j)
        BY <1>1, <3>2
      <4>2. j \notin T
        BY <4>1, <3>2
      <4> QED
        BY <4>1, <4>2, <1>2
    <3> QED
      BY <3>2, <3>3, <3>4
  <2> QED
    BY <2>1, <2>2
<1> HIDE DEF T
<1>5. PICK end \in i..Len(nodes) :
          /\ \A j \in (i + 1)..end : nodes[j].depth > nodes[i].depth
          /\ end < Len(nodes) => nodes[end + 1].depth <= nodes[i].depth
  BY <1>4
<1>6. ASSUME NEW j PROVE j \in NodesBelow(nodes, i) <=> j \in (i + 1)..end
  <2>1. ASSUME j \in NodesBelow(nodes, i) PROVE j \in (i + 1)..end
    <3>1. j \in Nat /\ j > i /\ j <= Len(nodes)
      BY <1>1, <1>3, <2>1
    <3>2. ASSUME j > end PROVE FALSE
      <4>1. end + 1 \in (i + 1)..j /\ end < Len(nodes)
        BY <3>1, <3>2, <1>1
      <4>2. nodes[end + 1].depth > nodes[i].depth
        BY <4>1, <1>3, <2>1
      <4>3. nodes[end + 1].depth <= nodes[i].depth
        BY <4>1, <1>5
      <4>4. end + 1 \in DOMAIN nodes
        BY <4>1, <1>1
      <4> QED
        BY <4>2, <4>3, <4>4, <1>2
    <3> QED
      BY <3>1, <3>2, <1>1
  <2>2. ASSUME j \in (i + 1)..end PROVE j \in NodesBelow(nodes, i)
    <3>1. j \in DOMAIN nodes /\ j > i /\ \A k \in (i + 1)..j : k \in (i + 1)..end
      BY <1>1, <2>2
    <3> QED
      BY <3>1, <1>3, <1>5
  <2> QED
    BY <2>1, <2>2
<1>7. NodesBelow(nodes, i) = (i + 1)..end
  BY <1>6
<1>8. Cardinality(NodesBelow(nodes, i)) = end - i
  <2>1. i + 1 \in Int /\ end \in Int /\ end >= i
    BY <1>1
  <2>2. Cardinality((i + 1)..end) = IF i + 1 > end THEN 0 ELSE end - (i + 1) + 1
    BY <2>1, FS_Interval
  <2> QED
    BY <1>7, <2>1, <2>2, <1>1
<1>9. LastBelow(nodes, i) = end
  BY <1>1, <1>8 DEF LastBelow
<1> QED
  BY <1>5, <1>6, <1>8, <1>9

LEMMA SubtreeIs ==
    ASSUME NEW nodes, IsTree(nodes), NEW i \in DOMAIN nodes
    PROVE  /\ IsSequence(Subtree(nodes, i)) /\ i \in Nat
           /\ Len(Subtree(nodes, i)) = LastBelow(nodes, i) - i + 1
           /\ DOMAIN Subtree(nodes, i) = 1..(LastBelow(nodes, i) - i + 1)
           /\ \A k \in DOMAIN Subtree(nodes, i) : Subtree(nodes, i)[k] = i + k - 1
<1>1. LastBelow(nodes, i) \in i..Len(nodes) /\ Cardinality(NodesBelow(nodes, i)) = LastBelow(nodes, i) - i
  BY BelowIs
<1>2. Len(nodes) \in Nat /\ DOMAIN nodes = 1..Len(nodes)
  BY SequenceIs DEF IsTree
<1>3. LastBelow(nodes, i) - i + 1 \in Nat /\ i \in Nat
  BY <1>1, <1>2
<1>4. Subtree(nodes, i) = [k \in 1..(LastBelow(nodes, i) - i + 1) |-> i + k - 1]
  BY <1>1 DEF Subtree
<1>5. \A k \in 1..(LastBelow(nodes, i) - i + 1) : Subtree(nodes, i)[k] = i + k - 1
  BY <1>4
<1>6. Subtree(nodes, i) = [k \in 1..(LastBelow(nodes, i) - i + 1) |-> Subtree(nodes, i)[k]]
  BY <1>4, <1>5
<1>7. /\ IsSequence(Subtree(nodes, i)) /\ Len(Subtree(nodes, i)) = LastBelow(nodes, i) - i + 1
      /\ DOMAIN Subtree(nodes, i) = 1..(LastBelow(nodes, i) - i + 1)
  BY <1>3, <1>6, IsOfFunction
<1> QED
  BY <1>3, <1>5, <1>7

(* What is left of a tree are nodes of it, the first ones where they were. *)
LEMMA CutIs ==
    ASSUME NEW R, NEW nodes \in Seq(R), IsTree(nodes), NEW i \in DOMAIN nodes
    PROVE  LET gone == LastBelow(nodes, i) - i + 1 IN
           /\ Cut(nodes, i) \in Seq(R) /\ gone \in Nat \ {0} /\ i \in Nat
           /\ \A k \in DOMAIN Cut(nodes, i) : k \in Nat /\
                 LET was == IF k < i THEN k ELSE k + gone
                 IN  was \in DOMAIN nodes /\ Cut(nodes, i)[k] = nodes[was]
<1> DEFINE end == LastBelow(nodes, i)
           s == SubSeq(nodes, 1, i - 1)
           t == SubSeq(nodes, end + 1, Len(nodes))
<1>1. Len(nodes) \in Nat /\ DOMAIN nodes = 1..Len(nodes) /\ i \in Nat
  BY SequenceIs DEF IsTree
<1>2. end \in i..Len(nodes) /\ Cardinality(NodesBelow(nodes, i)) = end - i
  BY BelowIs
<1>3. Cut(nodes, i) = s \o t
  <2>1. i + (end - i) + 1 = end + 1
    BY <1>1, <1>2
  <2> QED
    BY <1>2, <2>1 DEF Cut
<1> HIDE DEF end
<1>4. /\ s \in Seq(R) /\ Len(s) = i - 1 /\ \A k \in 1..(i - 1) : s[k] = nodes[k]
  BY <1>1
<1>5. /\ t \in Seq(R) /\ Len(t) = Len(nodes) - end
      /\ \A k \in 1..(Len(nodes) - end) : t[k] = nodes[end + k]
  <2>1. end + 1 \in Int /\ Len(nodes) \in Int /\ \A k \in (end + 1)..Len(nodes) : nodes[k] \in R
    BY <1>1, <1>2
  <2>2. /\ t \in Seq(R)
        /\ Len(t) = IF end + 1 <= Len(nodes) THEN Len(nodes) - (end + 1) + 1 ELSE 0
        /\ \A k \in 1..(Len(nodes) - (end + 1) + 1) : t[k] = nodes[(end + 1) + k - 1]
    BY <2>1, SubSeqProperties
  <2> HIDE DEF t
  <2>3. /\ Len(nodes) - (end + 1) + 1 = Len(nodes) - end /\ Len(nodes) - end \in Nat
        /\ end + 1 <= Len(nodes) \/ Len(nodes) - end = 0
        /\ \A k \in Nat : (end + 1) + k - 1 = end + k
    <3>1. end \in Nat /\ Len(nodes) \in Nat /\ end <= Len(nodes)
      BY <1>1, <1>2
    <3> QED
      BY ONLY <3>1
  <2> QED
    BY <2>2, <2>3
<1> HIDE DEF s, t
<1>6. s \o t \in Seq(R) /\ DOMAIN (s \o t) = 1..(Len(s) + Len(t))
      /\ \A k \in 1..(Len(s) + Len(t)) :
            (s \o t)[k] = IF k <= Len(s) THEN s[k] ELSE t[k - Len(s)]
  <2>1. s \in Seq(R) /\ t \in Seq(R)
    BY <1>4, <1>5
  <2>2. /\ s \o t \in Seq(R) /\ Len(s \o t) = Len(s) + Len(t)
        /\ \A k \in 1..(Len(s) + Len(t)) :
              (s \o t)[k] = IF k <= Len(s) THEN s[k] ELSE t[k - Len(s)]
    BY ONLY <2>1, ConcatProperties
  <2>3. \A q \in Seq(R) : DOMAIN q = 1..Len(q)
    OBVIOUS
  <2> QED
    BY <2>2, <2>3
<1>7. ASSUME NEW k \in DOMAIN (s \o t)
      PROVE  k \in Nat /\ LET was == IF k < i THEN k ELSE k + (end - i + 1)
                          IN  was \in DOMAIN nodes /\ (s \o t)[k] = nodes[was]
  <2>1. k \in Nat /\ k >= 1 /\ k <= (i - 1) + (Len(nodes) - end)
    BY <1>1, <1>2, <1>4, <1>5, <1>6
  <2>2. CASE k < i
    <3>1. k \in 1..(i - 1) /\ k \in DOMAIN nodes /\ k <= Len(s)
      BY <1>1, <1>4, <2>1, <2>2
    <3> QED
      BY <3>1, <2>1, <2>2, <1>4, <1>6
  <2>3. CASE ~(k < i)
    <3>1. /\ k - (i - 1) \in 1..(Len(nodes) - end) /\ ~(k <= Len(s))
          /\ end + (k - (i - 1)) = k + (end - i + 1) /\ k + (end - i + 1) \in DOMAIN nodes
      BY <1>1, <1>2, <1>4, <2>1, <2>3
    <3>2. (s \o t)[k] = t[k - (i - 1)]
      BY <3>1, <1>4, <1>6
    <3> QED
      BY <3>1, <3>2, <2>1, <2>3, <1>5
  <2> QED
    BY <2>2, <2>3
<1>8. end - i + 1 \in Nat \ {0}
  BY <1>1, <1>2
<1> QED
  BY <1>1, <1>3, <1>6, <1>7, <1>8 DEF end

-----------------------------------------------------------------------------
(* The pages of an application.                                            *)
FrameNodes == [frame : Frames, depth : Nat, holder : Holders, visible : BOOLEAN]
ElementNodes == [depth : Nat, text : Texts]

(* An address is of one frame, and one element is not inside of others.    *)
FramesFit(nodes) ==
    /\ nodes \in Seq(FrameNodes)
    /\ \A p, q \in DOMAIN nodes : nodes[p].frame = nodes[q].frame => p = q
    /\ \A p \in DOMAIN nodes : p = 1 => nodes[p].depth = 0

PageFits(nodes) ==
    /\ nodes \in Seq(ElementNodes)
    /\ \A i \in DOMAIN nodes : nodes[i].depth = 0 <=> i = 1

PagesInv ==
    /\ FramesFit(frames)
    /\ document = [f \in Frames |-> document[f]]
    /\ \A f \in Frames : PageFits(document[f])

LEMMA TreesAre ==
    ASSUME PagesInv
    PROVE  /\ IsTree(frames) /\ Len(frames) \in Nat /\ DOMAIN frames = 1..Len(frames)
           /\ \A p \in DOMAIN frames :
                 frames[p] \in FrameNodes /\ frames[p].frame \in Frames
                 /\ frames[p].depth \in Nat /\ p \in Nat
           /\ \A f \in Frames :
                 /\ document[f] \in Seq(ElementNodes) /\ IsTree(document[f])
                 /\ Len(document[f]) \in Nat /\ DOMAIN document[f] = 1..Len(document[f])
                 /\ \A i \in DOMAIN document[f] : document[f][i] \in ElementNodes
<1>1. frames \in Seq(FrameNodes) /\ \A f \in Frames : document[f] \in Seq(ElementNodes)
  BY DEF PagesInv, FramesFit, PageFits
<1>2. IsSequence(frames) /\ \A p \in DOMAIN frames : frames[p] \in FrameNodes
  BY <1>1, IsInSeq
<1>3. ASSUME NEW f \in Frames
      PROVE  IsSequence(document[f]) /\ \A i \in DOMAIN document[f] : document[f][i] \in ElementNodes
  <2>1. document[f] \in Seq(ElementNodes)
    BY <1>1
  <2> QED
    BY <2>1, IsInSeq
<1>4. \A p \in DOMAIN frames : frames[p].frame \in Frames /\ frames[p].depth \in Nat
  BY <1>2 DEF FrameNodes
<1>5. \A f \in Frames : \A i \in DOMAIN document[f] : document[f][i].depth \in Nat
  BY <1>3 DEF ElementNodes
<1>6. Len(frames) \in Nat /\ DOMAIN frames = 1..Len(frames)
  BY <1>2, SequenceIs
<1>7. \A f \in Frames : Len(document[f]) \in Nat /\ DOMAIN document[f] = 1..Len(document[f])
  BY <1>3, SequenceIs
<1> QED
  BY <1>1, <1>2, <1>3, <1>4, <1>5, <1>6, <1>7 DEF IsTree

(* What is left of the frames fits, and so does what is left of a page.    *)
LEMMA FramesLeft ==
    ASSUME PagesInv, NEW p \in DOMAIN frames
    PROVE  FramesFit(Cut(frames, p))
<1> DEFINE gone == LastBelow(frames, p) - p + 1
           was(k) == IF k < p THEN k ELSE k + gone
<1>1. frames \in Seq(FrameNodes) /\ IsTree(frames)
  BY TreesAre DEF PagesInv, FramesFit, PageFits
<1>2. /\ Cut(frames, p) \in Seq(FrameNodes) /\ gone \in Nat \ {0} /\ p \in Nat
      /\ \A k \in DOMAIN Cut(frames, p) :
            k \in Nat /\ was(k) \in DOMAIN frames /\ Cut(frames, p)[k] = frames[was(k)]
  BY <1>1, CutIs
<1>3. ASSUME NEW k \in DOMAIN Cut(frames, p), NEW l \in DOMAIN Cut(frames, p),
             Cut(frames, p)[k].frame = Cut(frames, p)[l].frame
      PROVE  k = l
  <2>1. k \in Nat /\ l \in Nat /\ was(k) \in DOMAIN frames /\ was(l) \in DOMAIN frames
        /\ frames[was(k)].frame = frames[was(l)].frame
    BY <1>2, <1>3
  <2>2. was(k) = was(l)
    BY <2>1 DEF PagesInv, FramesFit, PageFits
  <2>3. \A g \in Nat \ {0} : (IF k < p THEN k ELSE k + g) = (IF l < p THEN l ELSE l + g) => k = l
    BY <1>2, <2>1
  <2> QED
    BY <2>2, <2>3, <1>2
<1>4. ASSUME NEW k \in DOMAIN Cut(frames, p), k = 1 PROVE Cut(frames, p)[k].depth = 0
  <2>1. was(k) \in DOMAIN frames /\ Cut(frames, p)[k] = frames[was(k)]
    BY <1>2
  <2>2. CASE 1 < p
    <3>1. was(k) = 1
      BY <1>4, <2>2
    <3> QED
      BY <2>1, <3>1 DEF PagesInv, FramesFit, PageFits
  <2>3. CASE ~(1 < p)
    <3>1. p = 1
      BY <2>3, <1>1, TreesAre
    <3>2. was(k) = 1 + gone
      BY <1>4, <2>3
    <3>3. was(k) = LastBelow(frames, p) + 1 /\ LastBelow(frames, p) < Len(frames)
      <4>1. LastBelow(frames, p) \in p..Len(frames) /\ Len(frames) \in Nat
            /\ DOMAIN frames = 1..Len(frames)
        BY <1>1, BelowIs, TreesAre
      <4>2. 1 + gone = LastBelow(frames, p) + 1
        BY <4>1, <3>1
      <4> QED
        BY <4>1, <4>2, <3>2, <2>1
    <3>4. frames[was(k)].depth <= frames[p].depth
      BY <3>3, <1>1, BelowIs
    <3>5. frames[p].depth = 0 /\ frames[was(k)].depth \in Nat
      BY <3>1, <2>1, TreesAre DEF PagesInv, FramesFit, PageFits
    <3> QED
      BY <2>1, <3>4, <3>5
  <2> QED
    BY <2>2, <2>3
<1> QED
  BY <1>2, <1>3, <1>4 DEF FramesFit

LEMMA PageLeft ==
    ASSUME PagesInv, NEW f \in Frames, NEW i \in DOMAIN document[f]
    PROVE  PageFits(Cut(document[f], i))
<1> DEFINE nodes == document[f]
           gone == LastBelow(nodes, i) - i + 1
           was(k) == IF k < i THEN k ELSE k + gone
<1>1. nodes \in Seq(ElementNodes) /\ IsTree(nodes) /\ Len(nodes) \in Nat /\ DOMAIN nodes = 1..Len(nodes)
  BY TreesAre
<1>2. \A k \in DOMAIN nodes : nodes[k].depth \in Nat /\ (nodes[k].depth = 0 <=> k = 1)
  BY <1>1 DEF PagesInv, FramesFit, PageFits, IsTree
<1> HIDE DEF nodes
<1>3. /\ Cut(nodes, i) \in Seq(ElementNodes) /\ gone \in Nat \ {0} /\ i \in Nat
      /\ \A k \in DOMAIN Cut(nodes, i) :
            k \in Nat /\ was(k) \in DOMAIN nodes /\ Cut(nodes, i)[k] = nodes[was(k)]
  <2>1. i \in DOMAIN nodes
    BY DEF nodes
  <2> QED
    BY <1>1, <2>1, CutIs
<1>4. /\ LastBelow(nodes, i) \in i..Len(nodes)
      /\ LastBelow(nodes, i) < Len(nodes) => nodes[LastBelow(nodes, i) + 1].depth <= nodes[i].depth
  <2>1. i \in DOMAIN nodes
    BY DEF nodes
  <2> QED
    BY <1>1, <2>1, BelowIs
<1>5. ASSUME NEW k \in DOMAIN Cut(nodes, i) PROVE i # 1 /\ (was(k) = 1 <=> k = 1)
  <2>1. k \in Nat /\ was(k) \in 1..Len(nodes)
    BY <1>1, <1>3
  <2>2. ASSUME i = 1 PROVE FALSE
    <3>1. was(k) = k + gone
      BY <2>1, <2>2, <1>1, <1>3
    <3>2. LastBelow(nodes, i) < Len(nodes)
      BY <3>1, <2>1, <2>2, <1>4, <1>1
    <3>3. LastBelow(nodes, i) + 1 \in DOMAIN nodes /\ LastBelow(nodes, i) + 1 # 1
      BY <3>2, <2>2, <1>1, <1>4
    <3>4. nodes[LastBelow(nodes, i) + 1].depth <= nodes[i].depth
      BY <3>2, <1>4
    <3>5. i \in DOMAIN nodes
      BY DEF nodes
    <3> QED
      BY <3>3, <3>4, <3>5, <2>2, <1>2
  <2>3. i # 1
    BY <2>2
  <2>4. \A g \in Nat \ {0} : (IF k < i THEN k ELSE k + g) = 1 <=> k = 1
    <3>1. i \in Nat /\ i > 1
      <4>1. i \in DOMAIN nodes
        BY DEF nodes
      <4> QED
        BY <4>1, <2>3, <1>1
    <3> QED
      BY <3>1, <2>1
  <2> QED
    BY <2>3, <2>4, <1>3
<1>6. \A k \in DOMAIN Cut(nodes, i) : Cut(nodes, i)[k].depth = 0 <=> k = 1
  BY <1>2, <1>3, <1>5
<1> QED
  BY <1>3, <1>6 DEF nodes, PageFits

LEMMA OthersFit ==
    ASSUME PagesInv, document' = [f \in Frames |-> document'[f]],
           \A f \in Frames : document'[f] = document[f] \/ PageFits(document'[f])
    PROVE  document' = [f \in Frames |-> document'[f]] /\ \A f \in Frames : PageFits(document'[f])
  BY DEF PagesInv

LEMMA FreeIs ==
    ASSUME NEW f \in FreeFrames
    PROVE  f \in Frames /\ \A p \in DOMAIN frames : frames[p].frame # f
  BY DEF FreeFrames

LEMMA AddedFits ==
    ASSUME PagesInv, NEW x \in FrameNodes, x.frame \in FreeFrames, frames = <<>> => x.depth = 0
    PROVE  FramesFit(Append(frames, x))
<1>1. frames \in Seq(FrameNodes)
  BY DEF PagesInv, FramesFit
<1>2. Len(frames) \in Nat /\ DOMAIN frames = 1..Len(frames)
  BY TreesAre
<1>3. /\ Append(frames, x) \in Seq(FrameNodes)
      /\ DOMAIN Append(frames, x) = 1..(Len(frames) + 1)
      /\ \A k \in 1..Len(frames) : Append(frames, x)[k] = frames[k]
      /\ Append(frames, x)[Len(frames) + 1] = x
  BY <1>1
<1>4. \A p, q \in 1..Len(frames) : frames[p].frame = frames[q].frame => p = q
  BY <1>2 DEF PagesInv, FramesFit
<1>5. \A p \in 1..Len(frames) : frames[p].frame # x.frame
  BY <1>2, FreeIs
<1>6. ASSUME NEW p \in DOMAIN Append(frames, x), NEW q \in DOMAIN Append(frames, x),
             Append(frames, x)[p].frame = Append(frames, x)[q].frame
      PROVE  p = q
  <2>1. \A k \in 1..(Len(frames) + 1) : k \in 1..Len(frames) \/ k = Len(frames) + 1
    BY <1>2
  <2>2. p \in 1..Len(frames) \/ p = Len(frames) + 1
    BY <2>1, <1>3
  <2>3. q \in 1..Len(frames) \/ q = Len(frames) + 1
    BY <2>1, <1>3
  <2>4. CASE p \in 1..Len(frames) /\ q \in 1..Len(frames)
    BY <2>4, <1>3, <1>4, <1>6
  <2>5. CASE p \in 1..Len(frames) /\ q = Len(frames) + 1
    BY <2>5, <1>3, <1>5, <1>6
  <2>6. CASE p = Len(frames) + 1 /\ q \in 1..Len(frames)
    BY <2>6, <1>3, <1>5, <1>6
  <2> QED
    BY <2>2, <2>3, <2>4, <2>5, <2>6
<1>7. ASSUME NEW p \in DOMAIN Append(frames, x), p = 1 PROVE Append(frames, x)[p].depth = 0
  <2>1. CASE frames = <<>>
    <3>1. Len(frames) + 1 = 1
      BY <2>1
    <3> QED
      BY <3>1, <2>1, <1>3, <1>7
  <2>2. CASE frames # <<>>
    <3>1. 1 \in 1..Len(frames)
      BY <1>1, <1>2, <2>2
    <3> QED
      BY <3>1, <1>2, <1>3, <1>7 DEF PagesInv, FramesFit
  <2> QED
    BY <2>1, <2>2
<1> QED
  BY <1>3, <1>6, <1>7, Zenon DEF FramesFit

LEMMA AddViewFits ==
    ASSUME PagesInv, NEW f \in Frames, NEW h \in Holders, AddView(f, h)
    PROVE  PagesInv'
<1> DEFINE x == [frame |-> f, depth |-> 0, holder |-> h, visible |-> TRUE]
<1>1. f \in FreeFrames /\ frames' = Append(frames, x) /\ document' = document
  BY DEF AddView
<1>2. x \in FrameNodes /\ x.frame = f /\ x.depth = 0
  BY DEF FrameNodes
<1> HIDE DEF x
<1>3. FramesFit(frames')
  BY <1>1, <1>2, AddedFits
<1> QED
  BY <1>1, <1>3 DEF PagesInv

LEMMA AddFrameFits ==
    ASSUME PagesInv, NEW f \in Frames, NEW depth \in Nat, AddFrame(f, depth)
    PROVE  PagesInv'
<1> DEFINE x == [Last(frames) EXCEPT !.frame = f, !.depth = depth]
<1>1. f \in FreeFrames /\ frames # <<>> /\ frames' = Append(frames, x) /\ document' = document
  BY DEF AddFrame
<1>2. Last(frames) \in FrameNodes
  <2>1. frames \in Seq(FrameNodes)
    BY DEF PagesInv, FramesFit
  <2> QED
    BY <1>1, <2>1 DEF Last
<1>3. x \in FrameNodes /\ x.frame = f
  BY <1>2 DEF FrameNodes
<1> HIDE DEF x
<1>4. FramesFit(frames')
  BY <1>1, <1>3, AddedFits
<1> QED
  BY <1>1, <1>4 DEF PagesInv

LEMMA NonePageFits == PageFits(<<>>)
  BY DEF PageFits

LEMMA RemoveFrameFits ==
    ASSUME PagesInv, NEW p \in DOMAIN frames, RemoveFrame(p)
    PROVE  PagesInv'
<1>1. PICK gone : /\ frames' = Cut(frames, p)
                  /\ document' = [f \in Frames |-> IF f \in gone THEN <<>> ELSE document[f]]
  BY Zenon DEF RemoveFrame
<1>2. FramesFit(frames')
  BY <1>1, FramesLeft
<1>3. \A f \in Frames : document'[f] = IF f \in gone THEN <<>> ELSE document[f]
  BY <1>1
<1>4. document' = [f \in Frames |-> document'[f]]
  BY <1>1
<1>5. \A f \in Frames : document'[f] = document[f] \/ PageFits(document'[f])
  BY <1>3, NonePageFits
<1> QED
  BY <1>2, <1>4, <1>5, OthersFit DEF PagesInv

LEMMA HideOrShowFits ==
    ASSUME PagesInv, NEW m \in DOMAIN frames, HideOrShow(m)
    PROVE  PagesInv'
<1>1. /\ frames' = [q \in DOMAIN frames |->
                       IF Main(q) = m THEN [frames[q] EXCEPT !.visible = ~@] ELSE frames[q]]
      /\ document' = document
  BY DEF HideOrShow
<1>2. \A q \in DOMAIN frames : frames[q] \in FrameNodes
  BY TreesAre
<1>3. \A q \in DOMAIN frames : frames'[q] \in FrameNodes
                               /\ frames'[q].frame = frames[q].frame /\ frames'[q].depth = frames[q].depth
  <2> SUFFICES ASSUME NEW q \in DOMAIN frames
               PROVE  frames'[q] \in FrameNodes
                      /\ frames'[q].frame = frames[q].frame /\ frames'[q].depth = frames[q].depth
    OBVIOUS
  <2>1. frames'[q] = [frames[q] EXCEPT !.visible = ~@] \/ frames'[q] = frames[q]
    BY <1>1
  <2> QED
    BY <2>1, <1>2 DEF FrameNodes
<1>4. Len(frames) \in Nat /\ DOMAIN frames = 1..Len(frames) /\ DOMAIN frames' = DOMAIN frames
      /\ frames' = [q \in 1..Len(frames) |-> frames'[q]]
  BY <1>1, TreesAre
<1>5. frames' \in Seq(FrameNodes)
  <2>1. \A q \in 1..Len(frames) : frames'[q] \in FrameNodes
    BY <1>3, <1>4
  <2> QED
    BY ONLY <2>1, <1>4
<1>6. FramesFit(frames')
  BY <1>3, <1>4, <1>5 DEF PagesInv, FramesFit
<1> QED
  BY <1>1, <1>6 DEF PagesInv

LEMMA AddElementFits ==
    ASSUME PagesInv, NEW f \in Frames, NEW depth \in Nat, NEW text \in Texts,
           AddElement(f, depth, text)
    PROVE  PagesInv'
<1>1. PICK x : x = [depth |-> depth, text |-> text]
  OBVIOUS
<1>2. PICK nodes : nodes = document[f]
  OBVIOUS
<1>3. /\ IF nodes = <<>> THEN depth = 0 ELSE depth \in 1..(Last(nodes).depth + 1)
      /\ document' = [document EXCEPT ![f] = Append(@, x)] /\ frames' = frames
  BY <1>1, <1>2 DEF AddElement
<1>4. PageFits(nodes) /\ Len(nodes) \in Nat /\ DOMAIN nodes = 1..Len(nodes) /\ nodes \in Seq(ElementNodes)
  BY <1>2, TreesAre DEF PagesInv
<1>5. x \in ElementNodes /\ x.depth = depth
  BY <1>1 DEF ElementNodes
<1>6. depth = 0 <=> Len(nodes) + 1 = 1
  BY <1>3, <1>4
<1>7. PageFits(Append(nodes, x))
  <2>1. /\ Append(nodes, x) \in Seq(ElementNodes)
        /\ DOMAIN Append(nodes, x) = 1..(Len(nodes) + 1)
        /\ \A k \in 1..Len(nodes) : Append(nodes, x)[k] = nodes[k]
        /\ Append(nodes, x)[Len(nodes) + 1] = x
    BY <1>4, <1>5
  <2>2. \A k \in 1..Len(nodes) : nodes[k].depth = 0 <=> k = 1
    BY <1>4 DEF PageFits
  <2>3. \A k \in 1..(Len(nodes) + 1) : k \in 1..Len(nodes) \/ k = Len(nodes) + 1
    BY <1>4
  <2>4. \A k \in DOMAIN Append(nodes, x) : Append(nodes, x)[k].depth = 0 <=> k = 1
    BY <2>1, <2>2, <2>3, <1>5, <1>6
  <2> QED
    BY <2>1, <2>4 DEF PageFits
<1>8. document = [g \in Frames |-> document[g]]
  BY DEF PagesInv
<1>9. /\ document' = [g \in Frames |-> document'[g]]
      /\ \A g \in Frames : document'[g] = IF g = f THEN Append(nodes, x) ELSE document[g]
  BY ONLY <1>2, <1>3, <1>8, f \in Frames
<1>10. \A g \in Frames : document'[g] = document[g] \/ PageFits(document'[g])
  BY <1>7, <1>9
<1> QED
  BY <1>3, <1>9, <1>10, OthersFit DEF PagesInv

LEMMA RewriteFits ==
    ASSUME PagesInv, NEW f \in Frames, NEW i \in DOMAIN document[f], NEW text \in Texts,
           Rewrite(f, i, text)
    PROVE  PagesInv'
<1>1. PICK nodes : nodes = document[f]
  OBVIOUS
<1>2. PICK new : new = [nodes EXCEPT ![i].text = text]
  OBVIOUS
<1>3. document = [g \in Frames |-> document[g]] /\ PageFits(nodes)
  BY <1>1 DEF PagesInv
<1>4. frames' = frames /\ document' = [document EXCEPT ![f][i].text = text]
  BY DEF Rewrite
<1>5. /\ document' = [g \in Frames |-> document'[g]]
      /\ \A g \in Frames : document'[g] = IF g = f THEN new ELSE document[g]
  BY ONLY <1>1, <1>2, <1>3, <1>4, f \in Frames
<1>6. /\ nodes \in Seq(ElementNodes) /\ Len(nodes) \in Nat /\ DOMAIN nodes = 1..Len(nodes)
      /\ \A k \in DOMAIN nodes : nodes[k] \in ElementNodes
      /\ nodes = [k \in 1..Len(nodes) |-> nodes[k]]
  BY <1>1, TreesAre, SequenceIs DEF IsTree
<1>7. /\ new = [k \in 1..Len(nodes) |-> new[k]]
      /\ \A k \in 1..Len(nodes) : new[k] = IF k = i THEN [nodes[k] EXCEPT !.text = text] ELSE nodes[k]
  BY ONLY <1>2, <1>6
<1>8. \A k \in 1..Len(nodes) : new[k] \in ElementNodes /\ new[k].depth = nodes[k].depth
  <2> SUFFICES ASSUME NEW k \in 1..Len(nodes)
               PROVE  new[k] \in ElementNodes /\ new[k].depth = nodes[k].depth
    OBVIOUS
  <2>1. nodes[k] \in ElementNodes /\ (new[k] = [nodes[k] EXCEPT !.text = text] \/ new[k] = nodes[k])
    BY <1>6, <1>7
  <2> QED
    BY <2>1 DEF ElementNodes
<1>9. new \in Seq(ElementNodes) /\ DOMAIN new = 1..Len(nodes)
  <2>1. \A k \in 1..Len(nodes) : new[k] \in ElementNodes
    BY <1>8
  <2> QED
    BY ONLY <2>1, <1>7, <1>6
<1>10. PageFits(new)
  <2>1. \A k \in 1..Len(nodes) : nodes[k].depth = 0 <=> k = 1
    BY <1>3, <1>6 DEF PageFits
  <2>2. \A k \in DOMAIN new : new[k].depth = 0 <=> k = 1
    BY <2>1, <1>8, <1>9
  <2> QED
    BY <2>2, <1>9 DEF PageFits
<1>11. \A g \in Frames : document'[g] = document[g] \/ PageFits(document'[g])
  BY <1>5, <1>10
<1> QED
  BY <1>4, <1>5, <1>11, OthersFit DEF PagesInv

LEMMA RemoveElementFits ==
    ASSUME PagesInv, NEW f \in Frames, NEW i \in DOMAIN document[f], RemoveElement(f, i)
    PROVE  PagesInv'
<1>1. PICK left : left = Cut(document[f], i)
  OBVIOUS
<1>2. PageFits(left)
  BY <1>1, PageLeft
<1>3. frames' = frames /\ document' = [document EXCEPT ![f] = left]
  BY <1>1 DEF RemoveElement
<1>4. document = [g \in Frames |-> document[g]]
  BY DEF PagesInv
<1>5. /\ document' = [g \in Frames |-> document'[g]]
      /\ \A g \in Frames : document'[g] = IF g = f THEN left ELSE document[g]
  BY ONLY <1>3, <1>4
<1>6. \A g \in Frames : document'[g] = document[g] \/ PageFits(document'[g])
  BY <1>2, <1>5
<1> QED
  BY <1>3, <1>5, <1>6, OthersFit DEF PagesInv

LEMMA PagesStay ==
    ASSUME PagesInv, UNCHANGED pages
    PROVE  PagesInv'
  BY DEF PagesInv, pages

LEMMA NextFits ==
    ASSUME PagesInv, [PagesNext]_web
    PROVE  PagesInv'
<1>1. \A depth \in 1..Cardinality(Frames) : depth \in Nat
  BY PagesAssumption, FS_CardinalityType
<1>2. \A depth \in 0..MaxElements : depth \in Nat
  BY PagesAssumption
<1>3. CASE UNCHANGED pages
  BY <1>3, PagesStay
<1>4. CASE PagesChange
  <2>1. CASE \E f \in Frames, h \in Holders : AddView(f, h)
    BY <2>1, AddViewFits
  <2>2. CASE \E f \in Frames, depth \in 1..Cardinality(Frames) : AddFrame(f, depth)
    BY <2>2, <1>1, AddFrameFits
  <2>3. CASE \E p \in DOMAIN frames : RemoveFrame(p)
    BY <2>3, RemoveFrameFits
  <2>4. CASE \E m \in DOMAIN frames : HideOrShow(m)
    BY <2>4, HideOrShowFits
  <2>5. CASE \E f \in Frames, depth \in 0..MaxElements, text \in Texts : AddElement(f, depth, text)
    BY <2>5, <1>2, AddElementFits
  <2>6. CASE \E f \in Frames : \E i \in DOMAIN document[f] :
                 RemoveElement(f, i) \/ \E text \in Texts : Rewrite(f, i, text)
    BY <2>6, RemoveElementFits, RewriteFits
  <2> QED
    BY <1>4, <2>1, <2>2, <2>3, <2>4, <2>5, <2>6 DEF PagesChange
<1>5. UNCHANGED pages \/ PagesChange
  BY DEF PagesNext, ExecuteService, ExecuteNothing, Respond, web, pages
<1> QED
  BY <1>3, <1>4, <1>5

LEMMA InitFits ==
    ASSUME PagesInit
    PROVE  PagesInv
<1>1. frames = <<>> /\ document = [f \in Frames |-> <<>>]
  BY DEF PagesInit
<1>2. FramesFit(frames)
  BY <1>1 DEF FramesFit
<1>3. document = [f \in Frames |-> document[f]] /\ \A f \in Frames : document[f] = <<>>
  BY <1>1
<1>4. \A f \in Frames : PageFits(document[f])
  BY <1>3, NonePageFits
<1> QED
  BY <1>2, <1>3, <1>4 DEF PagesInv

-----------------------------------------------------------------------------
(* The main frame of a frame is the only one that it is below.             *)
LEMMA MainIs ==
    ASSUME PagesInv, NEW p \in DOMAIN frames
    PROVE  /\ Main(p) \in DOMAIN frames /\ frames[Main(p)].depth = 0
           /\ p \in Main(p)..LastBelow(frames, Main(p))
           /\ \A m \in DOMAIN frames :
                 frames[m].depth = 0 /\ p \in m..LastBelow(frames, m) => m = Main(p)
<1>1. /\ IsTree(frames) /\ Len(frames) \in Nat /\ DOMAIN frames = 1..Len(frames)
      /\ \A q \in DOMAIN frames : frames[q].depth \in Nat /\ q \in Nat
  BY TreesAre
<1>2. \A m : m \in {p} \cup NodesAbove(frames, p) <=>
                m \in DOMAIN frames /\ p \in m..LastBelow(frames, m)
  <2> SUFFICES ASSUME NEW m \in DOMAIN frames
               PROVE  m \in {p} \cup NodesAbove(frames, p) <=> p \in m..LastBelow(frames, m)
    BY DEF NodesAbove
  <2>1. m \in NodesAbove(frames, p) <=> p \in NodesBelow(frames, m)
    BY DEF NodesAbove
  <2>2. /\ LastBelow(frames, m) \in m..Len(frames)
        /\ p \in NodesBelow(frames, m) <=> p \in (m + 1)..LastBelow(frames, m)
    BY <1>1, BelowIs
  <2>3. m \in Nat /\ p \in Nat
    BY <1>1
  <2>4. p \in m..LastBelow(frames, m) <=> p = m \/ p \in (m + 1)..LastBelow(frames, m)
    BY <1>1, <2>2, <2>3
  <2> QED
    BY <2>1, <2>2, <2>4
<1>3. \E m \in {p} \cup NodesAbove(frames, p) : frames[m].depth = 0
  <2> DEFINE D == {d \in Nat : p - d \in DOMAIN frames /\ frames[p - d].depth = 0}
  <2>1. D # {}
    <3>1. 1 \in DOMAIN frames /\ p - (p - 1) = 1 /\ p - 1 \in Nat
      BY <1>1
    <3>2. frames[1].depth = 0
      BY <3>1 DEF PagesInv, FramesFit
    <3> QED
      BY <3>1, <3>2
  <2>2. PICK d \in D : \A e \in D : d <= e
    BY <2>1, LeastExists
  <2>3. p - d \in DOMAIN frames /\ frames[p - d].depth = 0 /\ d \in Nat
    BY <2>2
  <2>4. \A j \in (p - d + 1)..p : frames[j].depth > frames[p - d].depth
    <3> SUFFICES ASSUME NEW j \in (p - d + 1)..p PROVE frames[j].depth > frames[p - d].depth
      OBVIOUS
    <3>1. j \in DOMAIN frames /\ p - j \in Nat /\ ~(d <= p - j) /\ p - (p - j) = j
      BY <1>1, <2>3
    <3>2. p - j \notin D
      BY <3>1, <2>2
    <3>3. frames[j].depth # 0
      BY <3>1, <3>2
    <3> QED
      BY <3>1, <3>3, <2>3, <1>1
  <2>5. p - d = p \/ p \in NodesBelow(frames, p - d)
    BY <2>3, <2>4, <1>1 DEF NodesBelow
  <2> QED
    BY <2>3, <2>5 DEF NodesAbove
<1>4. Main(p) \in {p} \cup NodesAbove(frames, p) /\ frames[Main(p)].depth = 0
  BY <1>3 DEF Main
<1>5. Main(p) \in DOMAIN frames /\ p \in Main(p)..LastBelow(frames, Main(p))
  BY <1>2, <1>4
<1>6. ASSUME NEW m \in DOMAIN frames, NEW n \in DOMAIN frames, m < n,
             p \in m..LastBelow(frames, m), p \in n..LastBelow(frames, n),
             frames[m].depth = 0, frames[n].depth = 0
      PROVE  FALSE
  <2>1. LastBelow(frames, m) \in m..Len(frames) /\ LastBelow(frames, n) \in n..Len(frames)
    BY <1>1, BelowIs
  <2>2. n \in (m + 1)..LastBelow(frames, m)
    BY <1>1, <1>6, <2>1
  <2>3. frames[n].depth > frames[m].depth
    BY <2>2, <1>1, BelowIs
  <2> QED
    BY <2>3, <1>6
<1>7. ASSUME NEW m \in DOMAIN frames, frames[m].depth = 0, p \in m..LastBelow(frames, m)
      PROVE  m = Main(p)
  <2>1. ~(m < Main(p)) /\ ~(Main(p) < m)
    BY <1>4, <1>5, <1>6, <1>7
  <2>2. m \in Nat /\ Main(p) \in Nat
    BY <1>1, <1>5
  <2> QED
    BY <2>1, <2>2
<1> QED
  BY <1>4, <1>5, <1>7

LEMMA ViewsAre ==
    ASSUME PagesInv
    PROVE  /\ ListedViews \subseteq DOMAIN frames /\ NestedViews \subseteq ListedViews
           /\ IsFiniteSet(ListedViews) /\ IsFiniteSet(NestedViews)
           /\ \A m \in ListedViews : m \in Nat /\ m # 0 /\ frames[m].depth = 0
<1>1. ListedViews \subseteq DOMAIN frames /\ NestedViews \subseteq ListedViews
  BY DEF ListedViews, NestedViews
<1>2. Len(frames) \in Nat /\ DOMAIN frames = 1..Len(frames)
  BY TreesAre
<1>3. IsFiniteSet(1..Len(frames))
  BY <1>2, FS_Interval
<1>4. IsFiniteSet(ListedViews)
  BY <1>1, <1>2, <1>3, FS_Subset
<1>5. IsFiniteSet(NestedViews)
  BY <1>1, <1>4, FS_Subset
<1>6. \A m \in ListedViews : m \in Nat /\ m # 0
  BY <1>1, <1>2
<1>7. \A m \in ListedViews : frames[m].depth = 0
  BY DEF ListedViews, Listed
<1> QED
  BY <1>1, <1>4, <1>5, <1>6, <1>7

LEMMA OrderIs ==
    ASSUME NEW W, IsFiniteSet(W), NEW order \in SetToSeqs(W)
    PROVE  /\ Cardinality(W) \in Nat /\ DOMAIN order = 1..Cardinality(W)
           /\ \A k \in DOMAIN order : order[k] \in W
           /\ \A w \in W : \E k \in DOMAIN order : order[k] = w
           /\ \A i, j \in DOMAIN order : order[i] = order[j] => i = j
<1>1. PICK c \in Nat : c = Cardinality(W)
  BY FS_CardinalityType
<1>2. order \in [1..c -> W] /\ \A i, j \in 1..c : i # j => order[i] # order[j]
  BY <1>1 DEF SetToSeqs
<1>3. order \in Injection(1..c, W)
  BY <1>2 DEF Injection, IsInjective
<1>4. Cardinality(1..c) = c
  BY FS_Interval
<1>5. order \in Surjection(1..c, W)
  BY <1>1, <1>3, <1>4, FS_Injection
<1>6. \A w \in W : \E k \in 1..c : order[k] = w
  BY <1>5 DEF Surjection
<1>7. DOMAIN order = 1..c
  BY <1>2
<1> QED
  BY <1>1, <1>2, <1>6, <1>7

LEMMA AscendingIs ==
    ASSUME NEW S \in SUBSET Nat, IsFiniteSet(S)
    PROVE  /\ IsSequence(Ascending(S)) /\ DOMAIN Ascending(S) = 1..Cardinality(S)
           /\ \A k \in DOMAIN Ascending(S) : Ascending(S)[k] \in S
<1>1. Cardinality(S) \in Nat
  BY FS_CardinalityType
<1>2. Ascending(S) = [k \in 1..Cardinality(S) |-> Ascending(S)[k]]
      /\ \A k \in 1..Cardinality(S) : Ascending(S)[k] = CHOOSE x \in S : x \in Nth(S, k)
  BY DEF Ascending
<1>3. DOMAIN Ascending(S) = 1..Cardinality(S) /\ IsSequence(Ascending(S))
  BY <1>1, <1>2, IsOfFunction
<1>4. ASSUME NEW k \in 1..Cardinality(S) PROVE Ascending(S)[k] \in S
  <2>1. Nth(S, k) # {}
    BY NthExists
  <2>2. \E x \in S : x \in Nth(S, k)
    BY <2>1 DEF Nth
  <2> QED
    BY <1>2, <2>2
<1> QED
  BY <1>3, <1>4

(* A list has all main frames that are listed, and if none of them is      *)
(* nested, each of them once.                                              *)
ListFits(list) ==
    /\ IsSequence(list)
    /\ \A k \in DOMAIN list : list[k] \in ListedViews
    /\ \A m \in ListedViews : \E k \in DOMAIN list : list[k] = m
    /\ NestedViews = {} => \A i, j \in DOMAIN list : list[i] = list[j] => i = j

LEMMA ListIs ==
    ASSUME PagesInv, NEW list \in MainFrameLists
    PROVE  ListFits(list)
<1>1. PICK W : W = {0} \cup ListedViews
  OBVIOUS
<1>2. IsFiniteSet(W)
  <2>1. IsFiniteSet(ListedViews \cup {0})
    BY ViewsAre, FS_AddElement
  <2> QED
    BY <1>1, <2>1
<1>3. PICK order \in SetToSeqs(W) :
          list = FlattenSeq([k \in DOMAIN order |-> ReachedFrom(order[k])])
  BY <1>1 DEF MainFrameLists
<1>4. /\ Cardinality(W) \in Nat /\ DOMAIN order = 1..Cardinality(W)
      /\ \A k \in DOMAIN order : order[k] \in W
      /\ \A w \in W : \E k \in DOMAIN order : order[k] = w
      /\ \A i, j \in DOMAIN order : order[i] = order[j] => i = j
  BY <1>2, OrderIs
<1> DEFINE s == [k \in DOMAIN order |-> ReachedFrom(order[k])]
<1>5. /\ IsSequence(s) /\ Len(s) = Cardinality(W) /\ DOMAIN s = DOMAIN order
      /\ \A k \in DOMAIN order : s[k] = ReachedFrom(order[k])
  <2>1. s = [k \in 1..Cardinality(W) |-> s[k]]
    BY <1>4
  <2>2. DOMAIN s = DOMAIN order /\ \A k \in DOMAIN order : s[k] = ReachedFrom(order[k])
    OBVIOUS
  <2> HIDE DEF s
  <2>3. IsSequence(s) /\ Len(s) = Cardinality(W)
    BY <2>1, <1>4, IsOfFunction
  <2> QED
    BY <2>2, <2>3
<1>6. \A m \in ListedViews : m \in Nat /\ m # 0
  BY ViewsAre
<1>7. ASSUME NEW k \in DOMAIN order, order[k] = 0
      PROVE  /\ IsSequence(s[k]) /\ \A j \in DOMAIN s[k] : s[k][j] \in NestedViews
             /\ NestedViews = {} => DOMAIN s[k] = {}
  <2>1. s[k] = Ascending(NestedViews)
    BY <1>5, <1>7 DEF ReachedFrom
  <2>2. NestedViews \in SUBSET Nat /\ IsFiniteSet(NestedViews)
    BY <1>6, ViewsAre
  <2>3. /\ IsSequence(s[k]) /\ DOMAIN s[k] = 1..Cardinality(NestedViews)
        /\ \A j \in DOMAIN s[k] : s[k][j] \in NestedViews
    BY <2>1, <2>2, AscendingIs
  <2> QED
    BY <2>3
<1>8. ASSUME NEW k \in DOMAIN order, order[k] # 0
      PROVE  /\ order[k] \in ListedViews
             /\ IsSequence(s[k]) /\ DOMAIN s[k] = {1} /\ s[k][1] = order[k]
  <2>1. s[k] = <<order[k]>>
    BY <1>5, <1>8 DEF ReachedFrom
  <2>2. \A x : IsSequence(<<x>>) /\ DOMAIN <<x>> = {1} /\ <<x>>[1] = x
    BY DEF IsSequence, Range
  <2>3. order[k] \in ListedViews
    BY <1>1, <1>4, <1>8
  <2> QED
    BY <2>1, <2>2, <2>3
<1> HIDE DEF s
<1>9. \A k \in DOMAIN s : IsSequence(s[k])
  BY <1>5, <1>7, <1>8
<1>10. list = FlattenSeq(s)
  BY <1>3 DEF s
<1>11. PICK a, b : PutTogether(s, Len(s), list, a, b)
  BY <1>5, <1>9, <1>10, FlattenedIs
<1>12. /\ IsSequence(list)
       /\ \A k \in DOMAIN list : /\ a[k] \in DOMAIN order
                                 /\ b[k] \in DOMAIN s[a[k]] /\ list[k] = s[a[k]][b[k]]
       /\ \A i \in DOMAIN order : \A j \in DOMAIN s[i] : \E k \in DOMAIN list : a[k] = i /\ b[k] = j
       /\ \A k, l \in DOMAIN list : k < l => a[k] < a[l] \/ (a[k] = a[l] /\ b[k] < b[l])
  BY <1>4, <1>5, <1>11 DEF PutTogether
<1>13. ASSUME NEW k \in DOMAIN list PROVE list[k] \in ListedViews
  BY <1>7, <1>8, <1>12, ViewsAre
<1>14. ASSUME NEW m \in ListedViews PROVE \E k \in DOMAIN list : list[k] = m
  <2>1. PICK i \in DOMAIN order : order[i] = m
    BY <1>1, <1>4
  <2>2. order[i] # 0 /\ 1 \in DOMAIN s[i] /\ s[i][1] = m
    BY <2>1, <1>6, <1>8
  <2>3. PICK k \in DOMAIN list : a[k] = i /\ b[k] = 1
    BY <2>2, <1>12
  <2> QED
    BY <2>2, <2>3, <1>12
<1>15. ASSUME NestedViews = {}, NEW k \in DOMAIN list, NEW l \in DOMAIN list, list[k] = list[l]
       PROVE  k = l
  <2>1. order[a[k]] # 0 /\ order[a[l]] # 0
    BY <1>7, <1>12, <1>15
  <2>2. b[k] = 1 /\ b[l] = 1 /\ list[k] = order[a[k]] /\ list[l] = order[a[l]]
    BY <2>1, <1>8, <1>12
  <2>3. a[k] = a[l]
    <3>1. a[k] \in DOMAIN order /\ a[l] \in DOMAIN order
      BY <1>12
    <3>2. order[a[k]] = order[a[l]]
      BY <2>2, <1>15
    <3>3. \A i, j \in DOMAIN order : order[i] = order[j] => i = j
      BY <1>4
    <3> QED
      BY ONLY <3>1, <3>2, <3>3
  <2>4. a[k] \in Nat /\ a[l] \in Nat /\ k \in Nat /\ l \in Nat
    <3>1. DOMAIN list = 1..Len(list) /\ Len(list) \in Nat
      BY <1>12, SequenceIs
    <3> QED
      BY <3>1, <1>4, <1>12
  <2>5. ~(k < l) /\ ~(l < k)
    <3>1. ~(a[k] < a[l]) /\ ~(a[l] < a[k]) /\ ~(b[k] < b[l]) /\ ~(b[l] < b[k])
      BY <2>2, <2>3, <2>4
    <3> QED
      BY <3>1, <1>12
  <2> QED
    BY <2>4, <2>5
<1> QED
  BY <1>12, <1>13, <1>14, <1>15 DEF ListFits

-----------------------------------------------------------------------------
(* What a walk visits, frame by frame and element by element.              *)
Visited(list) == FlattenSeq([k \in DOMAIN list |-> Subtree(frames, list[k])])
Elements(visited) == FlattenSeq([k \in DOMAIN visited |-> ElementsOf(visited[k])])

LEMMA WalkIs ==
    ASSUME NEW list
    PROVE  /\ WalkFrom(list).list = list
           /\ WalkFrom(list).visited = ToSet(Visited(list))
           /\ WalkFrom(list).elements = Elements(Visited(list))
  BY DEF WalkFrom, Visited, Elements

(* The x-th frame that is visited is below the from[x]-th of the list.     *)
VisitsInOrder(list, visited, from) ==
    /\ IsSequence(visited)
    /\ \A x \in DOMAIN visited :
          /\ from[x] \in DOMAIN list
          /\ visited[x] \in DOMAIN frames /\ Main(visited[x]) = list[from[x]]
    /\ \A i \in DOMAIN list : \A p \in DOMAIN frames :
          Main(p) = list[i] => \E x \in DOMAIN visited : from[x] = i /\ visited[x] = p
    /\ \A x, y \in DOMAIN visited :
          x < y => from[x] < from[y] \/ (from[x] = from[y] /\ visited[x] < visited[y])

LEMMA VisitedIs ==
    ASSUME PagesInv, NEW list, ListFits(list)
    PROVE  \E from : VisitsInOrder(list, Visited(list), from)
<1>1. /\ IsTree(frames) /\ Len(frames) \in Nat /\ DOMAIN frames = 1..Len(frames)
      /\ Len(list) \in Nat /\ DOMAIN list = 1..Len(list)
  BY TreesAre, SequenceIs DEF ListFits
<1>2. \A k \in DOMAIN list : list[k] \in DOMAIN frames /\ frames[list[k]].depth = 0
  BY ViewsAre DEF ListFits
<1> DEFINE s == [k \in DOMAIN list |-> Subtree(frames, list[k])]
<1>3. s = [k \in 1..Len(list) |-> s[k]] /\ DOMAIN s = DOMAIN list
      /\ \A k \in DOMAIN list : s[k] = Subtree(frames, list[k])
  BY <1>1
<1>4. Visited(list) = FlattenSeq(s)
  BY DEF Visited
<1> HIDE DEF s
<1>5. IsSequence(s) /\ Len(s) = Len(list)
  BY <1>1, <1>3, IsOfFunction
<1>6. ASSUME NEW k \in DOMAIN list
      PROVE  /\ IsSequence(s[k]) /\ list[k] \in Nat /\ LastBelow(frames, list[k]) \in list[k]..Len(frames)
             /\ DOMAIN s[k] = 1..(LastBelow(frames, list[k]) - list[k] + 1)
             /\ \A j \in DOMAIN s[k] : s[k][j] = list[k] + j - 1
  BY <1>1, <1>2, <1>3, SubtreeIs, BelowIs
<1>7. PICK visited : visited = Visited(list)
  OBVIOUS
<1>8. PICK a, b : PutTogether(s, Len(s), visited, a, b)
  <2>1. \A k \in DOMAIN s : IsSequence(s[k])
    BY <1>3, <1>6
  <2> QED
    BY <2>1, <1>4, <1>5, <1>7, FlattenedIs
<1>9. /\ IsSequence(visited)
      /\ \A x \in DOMAIN visited : /\ a[x] \in DOMAIN list /\ b[x] \in DOMAIN s[a[x]]
                                   /\ visited[x] = s[a[x]][b[x]]
      /\ \A i \in DOMAIN list : \A j \in DOMAIN s[i] : \E x \in DOMAIN visited : a[x] = i /\ b[x] = j
      /\ \A x, y \in DOMAIN visited : x < y => a[x] < a[y] \/ (a[x] = a[y] /\ b[x] < b[y])
  BY <1>1, <1>5, <1>8 DEF PutTogether
<1>10. ASSUME NEW x \in DOMAIN visited
       PROVE  /\ a[x] \in DOMAIN list /\ b[x] \in Nat /\ visited[x] = list[a[x]] + b[x] - 1
              /\ list[a[x]] \in Nat
              /\ visited[x] \in DOMAIN frames /\ Main(visited[x]) = list[a[x]]
  <2>1. PICK m : m = list[a[x]]
    OBVIOUS
  <2>2. /\ a[x] \in DOMAIN list /\ b[x] \in DOMAIN s[a[x]] /\ visited[x] = s[a[x]][b[x]]
    BY <1>9
  <2>3. /\ m \in DOMAIN frames /\ frames[m].depth = 0 /\ m \in Nat
        /\ LastBelow(frames, m) \in m..Len(frames)
        /\ b[x] \in 1..(LastBelow(frames, m) - m + 1) /\ visited[x] = m + b[x] - 1
    BY <1>2, <1>6, <2>1, <2>2
  <2>4. visited[x] \in m..LastBelow(frames, m) /\ b[x] \in Nat /\ visited[x] \in DOMAIN frames
    BY <1>1, <2>3
  <2>5. Main(visited[x]) = m
    BY <2>3, <2>4, MainIs
  <2> QED
    BY <2>1, <2>2, <2>3, <2>4, <2>5
<1>11. ASSUME NEW i \in DOMAIN list, NEW p \in DOMAIN frames, Main(p) = list[i]
       PROVE  \E x \in DOMAIN visited : a[x] = i /\ visited[x] = p
  <2>1. p \in list[i]..LastBelow(frames, list[i])
    BY <1>11, MainIs
  <2>2. /\ p - list[i] + 1 \in DOMAIN s[i] /\ list[i] + (p - list[i] + 1) - 1 = p
    BY <2>1, <1>6
  <2>3. PICK x \in DOMAIN visited : a[x] = i /\ b[x] = p - list[i] + 1
    BY <2>2, <1>9
  <2> QED
    BY <2>2, <2>3, <1>10
<1>12. ASSUME NEW x \in DOMAIN visited, NEW y \in DOMAIN visited, x < y
       PROVE  a[x] < a[y] \/ (a[x] = a[y] /\ visited[x] < visited[y])
  <2>1. a[x] < a[y] \/ (a[x] = a[y] /\ b[x] < b[y])
    BY <1>9, <1>12
  <2>2. CASE a[x] = a[y] /\ b[x] < b[y]
    <3>1. list[a[x]] = list[a[y]]
      BY <2>2
    <3>2. b[x] \in Nat /\ b[y] \in Nat /\ list[a[y]] \in Nat
          /\ visited[x] = list[a[y]] + b[x] - 1 /\ visited[y] = list[a[y]] + b[y] - 1
      BY <1>10, <3>1
    <3>3. visited[x] < visited[y]
      BY <2>2, <3>2
    <3> QED
      BY <2>2, <3>3
  <2> QED
    BY <2>1, <2>2
<1>13. VisitsInOrder(list, visited, a)
  BY <1>9, <1>10, <1>11, <1>12 DEF VisitsInOrder
<1> QED
  BY <1>7, <1>13

(* The k-th element that is passed is of the on[k]-th frame.               *)
ElementsInOrder(visited, elements, on) ==
    /\ IsSequence(elements)
    /\ \A k \in DOMAIN elements :
          /\ on[k] \in DOMAIN visited
          /\ elements[k] = <<elements[k][1], elements[k][2]>>
          /\ elements[k][1] = visited[on[k]]
          /\ elements[k][2] \in DOMAIN document[frames[visited[on[k]]].frame]
    /\ \A x \in DOMAIN visited : \A i \in DOMAIN document[frames[visited[x]].frame] :
          \E k \in DOMAIN elements : on[k] = x /\ elements[k] = <<visited[x], i>>
    /\ \A k, l \in DOMAIN elements :
          k < l => on[k] < on[l] \/ (on[k] = on[l] /\ elements[k][2] < elements[l][2])

LEMMA ElementsAre ==
    ASSUME PagesInv, NEW visited, IsSequence(visited),
           \A x \in DOMAIN visited : visited[x] \in DOMAIN frames
    PROVE  \E on : ElementsInOrder(visited, Elements(visited), on)
<1>1. Len(visited) \in Nat /\ DOMAIN visited = 1..Len(visited)
  BY SequenceIs
<1> DEFINE s == [k \in DOMAIN visited |-> ElementsOf(visited[k])]
<1>2. s = [k \in 1..Len(visited) |-> s[k]] /\ DOMAIN s = DOMAIN visited
      /\ \A k \in DOMAIN visited : s[k] = ElementsOf(visited[k])
  BY <1>1
<1>3. Elements(visited) = FlattenSeq(s)
  BY DEF Elements
<1> HIDE DEF s
<1>4. IsSequence(s) /\ Len(s) = Len(visited)
  BY <1>1, <1>2, IsOfFunction
<1>5. ASSUME NEW x \in DOMAIN visited
      PROVE  LET nodes == document[frames[visited[x]].frame] IN
             /\ IsSequence(s[x]) /\ DOMAIN s[x] = DOMAIN nodes
             /\ \A i \in DOMAIN nodes : s[x][i] = <<visited[x], i>> /\ i \in Nat
  <2>1. PICK nodes : nodes = document[frames[visited[x]].frame]
    OBVIOUS
  <2>2. Len(nodes) \in Nat /\ DOMAIN nodes = 1..Len(nodes)
    BY <2>1, TreesAre
  <2>3. s[x] = [i \in DOMAIN nodes |-> <<visited[x], i>>]
    BY <1>2, <2>1 DEF ElementsOf
  <2>4. s[x] = [i \in 1..Len(nodes) |-> s[x][i]]
    BY <2>2, <2>3
  <2>5. IsSequence(s[x])
    BY <2>2, <2>4, IsOfFunction
  <2>6. DOMAIN s[x] = DOMAIN nodes /\ \A i \in DOMAIN nodes : s[x][i] = <<visited[x], i>> /\ i \in Nat
    BY <2>2, <2>3
  <2> QED
    BY <2>1, <2>5, <2>6
<1>6. PICK elements : elements = Elements(visited)
  OBVIOUS
<1>7. PICK a, b : PutTogether(s, Len(s), elements, a, b)
  <2>1. \A k \in DOMAIN s : IsSequence(s[k])
    BY <1>2, <1>5
  <2> QED
    BY <2>1, <1>3, <1>4, <1>6, FlattenedIs
<1>8. /\ IsSequence(elements)
      /\ \A k \in DOMAIN elements : /\ a[k] \in DOMAIN visited /\ b[k] \in DOMAIN s[a[k]]
                                    /\ elements[k] = s[a[k]][b[k]]
      /\ \A x \in DOMAIN visited : \A i \in DOMAIN s[x] : \E k \in DOMAIN elements : a[k] = x /\ b[k] = i
      /\ \A k, l \in DOMAIN elements : k < l => a[k] < a[l] \/ (a[k] = a[l] /\ b[k] < b[l])
  BY <1>1, <1>4, <1>7 DEF PutTogether
<1>9. ASSUME NEW k \in DOMAIN elements
      PROVE  /\ a[k] \in DOMAIN visited /\ elements[k] = <<visited[a[k]], b[k]>>
             /\ b[k] \in DOMAIN document[frames[visited[a[k]]].frame]
  <2>1. a[k] \in DOMAIN visited /\ b[k] \in DOMAIN s[a[k]] /\ elements[k] = s[a[k]][b[k]]
    BY <1>8
  <2> QED
    BY <2>1, <1>5
<1>10. ASSUME NEW k \in DOMAIN elements
       PROVE  /\ elements[k] = <<elements[k][1], elements[k][2]>>
              /\ elements[k][1] = visited[a[k]] /\ elements[k][2] = b[k]
  BY <1>9
<1>11. ASSUME NEW x \in DOMAIN visited, NEW i \in DOMAIN document[frames[visited[x]].frame]
       PROVE  \E k \in DOMAIN elements : a[k] = x /\ elements[k] = <<visited[x], i>>
  <2>1. PICK k \in DOMAIN elements : a[k] = x /\ b[k] = i
    BY <1>5, <1>8
  <2> QED
    BY <2>1, <1>9
<1>12. ASSUME NEW k \in DOMAIN elements, NEW l \in DOMAIN elements, k < l
       PROVE  a[k] < a[l] \/ (a[k] = a[l] /\ elements[k][2] < elements[l][2])
  BY <1>8, <1>10, <1>12
<1>13. ElementsInOrder(visited, elements, a)
  <2>1. \A k \in DOMAIN elements :
            /\ a[k] \in DOMAIN visited
            /\ elements[k] = <<elements[k][1], elements[k][2]>>
            /\ elements[k][1] = visited[a[k]]
            /\ elements[k][2] \in DOMAIN document[frames[visited[a[k]]].frame]
    BY <1>9, <1>10
  <2> QED
    BY <2>1, <1>8, <1>11, <1>12, Zenon DEF ElementsInOrder
<1> QED
  BY <1>6, <1>13

-----------------------------------------------------------------------------
(* What a query matches, in the order of the walk, and what it asks for.   *)

(* The walk of a list passes each place that is asked for, once for each   *)
(* time that it visits the frame, and matches nothing else.                *)
WalkPasses(list, visited, elements, from, on, matching, asked) ==
    /\ IsFiniteSet(matching) /\ matching \in SUBSET Nat
    /\ \A k \in matching : on[k] \in Nat /\ from[on[k]] \in Nat \ {0} /\ elements[k] \in asked
                           /\ on[k] \in DOMAIN visited /\ elements[k][1] = visited[on[k]]
    /\ \A d \in asked : /\ d = <<d[1], d[2]>> /\ d[1] \in Nat /\ d[2] \in Nat
                        /\ d[1] \in DOMAIN frames /\ Main(d[1]) \in ListedViews
    /\ \A d \in asked : \A i \in DOMAIN list :
          list[i] = Main(d[1]) => \E x \in DOMAIN visited : from[x] = i /\ visited[x] = d[1]
    /\ \A d \in asked : \A x \in DOMAIN visited :
          visited[x] = d[1] => \E k \in matching : on[k] = x /\ elements[k] = d
    /\ \A k, l \in matching :
          k < l => \/ on[k] < on[l]
                   \/ on[k] = on[l] /\ elements[k][1] = elements[l][1]
                      /\ elements[k][2] < elements[l][2]
    /\ \A k, l \in matching :
          on[k] < on[l] => \/ from[on[k]] < from[on[l]]
                           \/ from[on[k]] = from[on[l]] /\ elements[k][1] < elements[l][1]

LEMMA QueryPasses ==
    ASSUME PagesInv, NEW list \in MainFrameLists, NEW c, c.query \in Texts,
           NEW from, VisitsInOrder(list, Visited(list), from),
           NEW on, ElementsInOrder(Visited(list), Elements(Visited(list)), on)
    PROVE  WalkPasses(list, Visited(list), Elements(Visited(list)), from, on,
                  Matching(WalkFrom(list), c), AskedFor(c))
<1>1. PICK visited : visited = Visited(list)
  OBVIOUS
<1>2. PICK elements : elements = Elements(visited)
  OBVIOUS
<1>3. PICK matching : matching = Matching(WalkFrom(list), c)
  OBVIOUS
<1>4. PICK asked : asked = AskedFor(c)
  OBVIOUS
<1>5. \A k : k \in matching <=> /\ k \in DOMAIN elements
                                /\ IsFor(c.frame, elements[k][1]) /\ Fits(elements[k], c.query)
  BY <1>1, <1>2, <1>3, WalkIs DEF Matching, Candidates
<1>6. \A d : d \in asked <=>
          /\ \E p \in DOMAIN frames : d \in {p} \X DOMAIN document[frames[p].frame]
          /\ Listed(Main(d[1])) /\ IsFor(c.frame, d[1]) /\ Fits(d, c.query)
  BY <1>4 DEF AskedFor
<1>7. \A d \in asked : /\ d = <<d[1], d[2]>> /\ d[1] \in DOMAIN frames
                       /\ d[2] \in DOMAIN document[frames[d[1]].frame]
                       /\ IsFor(c.frame, d[1]) /\ Fits(d, c.query) /\ Listed(Main(d[1]))
  BY <1>6
<1>8. /\ DOMAIN elements = 1..Len(elements) /\ Len(elements) \in Nat
      /\ DOMAIN visited = 1..Len(visited) /\ Len(visited) \in Nat
      /\ DOMAIN list = 1..Len(list) /\ Len(list) \in Nat
  BY <1>1, <1>2, ListIs, SequenceIs DEF VisitsInOrder, ElementsInOrder, ListFits
<1>9. /\ \A x \in DOMAIN visited :
            /\ from[x] \in DOMAIN list
            /\ visited[x] \in DOMAIN frames /\ Main(visited[x]) = list[from[x]]
      /\ \A i \in DOMAIN list : \A p \in DOMAIN frames :
            Main(p) = list[i] => \E x \in DOMAIN visited : from[x] = i /\ visited[x] = p
      /\ \A x, y \in DOMAIN visited :
            x < y => from[x] < from[y] \/ (from[x] = from[y] /\ visited[x] < visited[y])
  BY <1>1 DEF VisitsInOrder
<1>10. /\ \A k \in DOMAIN elements :
             /\ on[k] \in DOMAIN visited
             /\ elements[k] = <<elements[k][1], elements[k][2]>>
             /\ elements[k][1] = visited[on[k]]
             /\ elements[k][2] \in DOMAIN document[frames[visited[on[k]]].frame]
       /\ \A x \in DOMAIN visited : \A i \in DOMAIN document[frames[visited[x]].frame] :
             \E k \in DOMAIN elements : on[k] = x /\ elements[k] = <<visited[x], i>>
       /\ \A k, l \in DOMAIN elements :
             k < l => on[k] < on[l] \/ (on[k] = on[l] /\ elements[k][2] < elements[l][2])
  BY <1>1, <1>2 DEF ElementsInOrder
<1>11. IsFiniteSet(matching) /\ matching \in SUBSET Nat
  <2>1. IsFiniteSet(1..Len(elements)) /\ matching \in SUBSET (1..Len(elements))
    <3>1. Len(elements) \in Int /\ 1 \in Int
      BY <1>8
    <3>2. IsFiniteSet(1..Len(elements))
      BY ONLY <3>1, FS_Interval
    <3> QED
      BY <3>2, <1>5, <1>8
  <2>2. 1..Len(elements) \subseteq Nat
    BY <1>8
  <2>3. IsFiniteSet(matching)
    BY ONLY <2>1, FS_Subset
  <2> QED
    BY <2>1, <2>2, <2>3
<1>12. ASSUME NEW k \in matching
       PROVE  /\ on[k] \in Nat /\ from[on[k]] \in Nat \ {0} /\ elements[k] \in asked
              /\ on[k] \in DOMAIN visited /\ elements[k][1] = visited[on[k]]
  <2>1. k \in DOMAIN elements /\ IsFor(c.frame, elements[k][1]) /\ Fits(elements[k], c.query)
    BY <1>5
  <2>2. /\ on[k] \in DOMAIN visited /\ elements[k] = <<elements[k][1], elements[k][2]>>
        /\ elements[k][1] = visited[on[k]]
        /\ elements[k][2] \in DOMAIN document[frames[elements[k][1]].frame]
    BY <2>1, <1>10
  <2>3. from[on[k]] \in DOMAIN list /\ elements[k][1] \in DOMAIN frames
        /\ Main(elements[k][1]) = list[from[on[k]]]
    BY <2>2, <1>9
  <2>4. Listed(Main(elements[k][1]))
    BY <2>3, ListIs DEF ListFits, ListedViews
  <2>5. elements[k] \in {elements[k][1]} \X DOMAIN document[frames[elements[k][1]].frame]
    BY <2>2
  <2>6. elements[k] \in asked
    BY <2>1, <2>3, <2>4, <2>5, <1>6
  <2> QED
    BY <2>2, <2>3, <2>6, <1>8
<1>13. ASSUME NEW d \in asked
       PROVE  /\ d = <<d[1], d[2]>> /\ d[1] \in Nat /\ d[2] \in Nat
              /\ d[1] \in DOMAIN frames /\ Main(d[1]) \in ListedViews
  <2>1. /\ d = <<d[1], d[2]>> /\ d[1] \in DOMAIN frames
        /\ d[2] \in DOMAIN document[frames[d[1]].frame] /\ Listed(Main(d[1]))
    BY <1>7
  <2>2. Main(d[1]) \in ListedViews
    BY <2>1, MainIs DEF ListedViews
  <2>3. d[1] \in Nat /\ frames[d[1]].frame \in Frames
    BY <2>1, TreesAre
  <2>4. d[2] \in Nat
    BY <2>1, <2>3, TreesAre
  <2> QED
    BY <2>1, <2>2, <2>3, <2>4
<1>14. ASSUME NEW d \in asked, NEW x \in DOMAIN visited, visited[x] = d[1]
       PROVE  \E k \in matching : on[k] = x /\ elements[k] = d
  <2>1. /\ d = <<d[1], d[2]>> /\ d[2] \in DOMAIN document[frames[visited[x]].frame]
        /\ IsFor(c.frame, d[1]) /\ Fits(d, c.query)
    BY <1>7, <1>14
  <2>2. PICK k \in DOMAIN elements : on[k] = x /\ elements[k] = <<visited[x], d[2]>>
    BY <2>1, <1>10
  <2>3. elements[k] = d
    BY <2>1, <2>2, <1>14
  <2> QED
    BY <2>1, <2>2, <2>3, <1>5
<1>15. ASSUME NEW d \in asked, NEW i \in DOMAIN list, list[i] = Main(d[1])
       PROVE  \E x \in DOMAIN visited : from[x] = i /\ visited[x] = d[1]
  BY <1>9, <1>13, <1>15
<1>16. ASSUME NEW k \in matching, NEW l \in matching, k < l
       PROVE  \/ on[k] < on[l]
              \/ on[k] = on[l] /\ elements[k][1] = elements[l][1]
                 /\ elements[k][2] < elements[l][2]
  BY <1>5, <1>10, <1>12, <1>16
<1>17. ASSUME NEW k \in matching, NEW l \in matching, on[k] < on[l]
       PROVE  \/ from[on[k]] < from[on[l]]
              \/ from[on[k]] = from[on[l]] /\ elements[k][1] < elements[l][1]
  BY <1>9, <1>12, <1>17
<1>18. WalkPasses(list, visited, elements, from, on, matching, asked)
  BY ONLY <1>11, <1>12, <1>13, <1>14, <1>15, <1>16, <1>17, Zenon DEF WalkPasses
<1> QED
  BY <1>1, <1>2, <1>3, <1>4, <1>18

LEMMA OrderOfPlaces ==
    ASSUME NEW d, NEW e, d[1] \in Nat, d[2] \in Nat, e[1] \in Nat, e[2] \in Nat
    PROVE  /\ UpTo(d, d)
           /\ d[1] < e[1] \/ (d[1] = e[1] /\ d[2] < e[2]) => UpTo(e, d) /\ ~UpTo(d, e)
  BY DEF UpTo

(* The elements that match first are all that is asked for, in order.      *)
FirstPart(matching, elements, asked, part) ==
    /\ part \in SUBSET matching
    /\ \A k \in part, j \in matching : j < k => j \in part
    /\ \A k \in part : elements[k] \in asked
    /\ \A d \in asked : \E k \in part : elements[k] = d
    /\ \A j, k \in part : j <= k <=> UpTo(elements[k], elements[j])

LEMMA InOrder ==
    ASSUME NEW list, NEW visited, NEW elements, NEW from, NEW on, NEW matching, NEW asked,
           WalkPasses(list, visited, elements, from, on, matching, asked),
           NEW part \in SUBSET matching,
           \A j, k \in part : j < k => \/ elements[j][1] < elements[k][1]
                                       \/ elements[j][1] = elements[k][1] /\ elements[j][2] < elements[k][2]
    PROVE  \A j, k \in part : j <= k <=> UpTo(elements[k], elements[j])
<1> SUFFICES ASSUME NEW j \in part, NEW k \in part
             PROVE  j <= k <=> UpTo(elements[k], elements[j])
  OBVIOUS
<1>1. j \in Nat /\ k \in Nat /\ elements[j] \in asked /\ elements[k] \in asked
  BY DEF WalkPasses
<1>2. /\ elements[j][1] \in Nat /\ elements[j][2] \in Nat
      /\ elements[k][1] \in Nat /\ elements[k][2] \in Nat
  BY <1>1 DEF WalkPasses
<1>3. CASE j = k
  BY <1>1, <1>2, <1>3, OrderOfPlaces
<1>4. CASE j < k
  <2>1. \/ elements[j][1] < elements[k][1]
        \/ elements[j][1] = elements[k][1] /\ elements[j][2] < elements[k][2]
    BY <1>4
  <2> QED
    BY <2>1, <1>1, <1>2, <1>4, OrderOfPlaces
<1>5. CASE k < j
  <2>1. \/ elements[k][1] < elements[j][1]
        \/ elements[k][1] = elements[j][1] /\ elements[k][2] < elements[j][2]
    BY <1>5
  <2> QED
    BY <2>1, <1>1, <1>2, <1>5, OrderOfPlaces
<1> QED
  BY <1>1, <1>3, <1>4, <1>5

(* If only one frame is meant, it is the first time that it is visited.    *)
LEMMA FirstVisit ==
    ASSUME NEW list, NEW visited, NEW elements, NEW from, NEW on, NEW matching, NEW asked,
           WalkPasses(list, visited, elements, from, on, matching, asked), IsSequence(visited),
           NEW p, \A d \in asked : d[1] = p, NEW y \in DOMAIN visited, visited[y] = p
    PROVE  \E part : FirstPart(matching, elements, asked, part)
<1>1. DOMAIN visited \subseteq Nat
  <2>1. DOMAIN visited = 1..Len(visited) /\ Len(visited) \in Nat
    BY SequenceIs
  <2> QED
    BY <2>1
<1> DEFINE D == {x \in DOMAIN visited : visited[x] = p}
<1>2. PICK x \in D : \A z \in D : x <= z
  <2>1. D \in SUBSET Nat /\ D # {}
    BY <1>1
  <2> HIDE DEF D
  <2> QED
    BY <2>1, LeastExists
<1>3. x \in DOMAIN visited /\ visited[x] = p /\ x \in Nat
  BY <1>1, <1>2
<1>4. \A k \in matching : on[k] \in Nat /\ x <= on[k] /\ elements[k] \in asked
                          /\ elements[k][1] = p
  <2> SUFFICES ASSUME NEW k \in matching
               PROVE  on[k] \in Nat /\ x <= on[k] /\ elements[k] \in asked /\ elements[k][1] = p
    OBVIOUS
  <2>1. /\ on[k] \in Nat /\ elements[k] \in asked
        /\ on[k] \in DOMAIN visited /\ elements[k][1] = visited[on[k]]
    BY DEF WalkPasses
  <2>2. on[k] \in D
    BY <2>1
  <2> QED
    BY <2>1, <2>2, <1>2
<1>5. PICK part : part = {k \in matching : on[k] = x}
  OBVIOUS
<1>6. \A k : k \in part <=> k \in matching /\ on[k] = x
  BY <1>5
<1>7. \A k, l \in matching :
          k < l => \/ on[k] < on[l]
                   \/ on[k] = on[l] /\ elements[k][1] = elements[l][1]
                      /\ elements[k][2] < elements[l][2]
  BY DEF WalkPasses
<1>8. ASSUME NEW k \in part, NEW j \in matching, j < k PROVE j \in part
  <2>1. on[j] < on[k] \/ on[j] = on[k]
    BY <1>6, <1>7, <1>8
  <2> QED
    BY <2>1, <1>3, <1>4, <1>6
<1>9. \A d \in asked : \E k \in part : elements[k] = d
  <2> SUFFICES ASSUME NEW d \in asked PROVE \E k \in part : elements[k] = d
    OBVIOUS
  <2>1. visited[x] = d[1]
    BY <1>3
  <2>2. \E k \in matching : on[k] = x /\ elements[k] = d
    BY <2>1, <1>3 DEF WalkPasses
  <2> QED
    BY <2>2, <1>6
<1>10. \A j, k \in part : j < k => \/ elements[j][1] < elements[k][1]
                                   \/ elements[j][1] = elements[k][1] /\ elements[j][2] < elements[k][2]
  BY <1>3, <1>6, <1>7
<1>11. part \in SUBSET matching
  BY <1>6
<1>12. \A j, k \in part : j <= k <=> UpTo(elements[k], elements[j])
  BY <1>10, <1>11, InOrder
<1> QED
  BY <1>4, <1>6, <1>8, <1>9, <1>11, <1>12 DEF FirstPart

(* If only one main frame is meant, it is the first time it is listed.     *)
LEMMA FirstListed ==
    ASSUME NEW list, NEW visited, NEW elements, NEW from, NEW on, NEW matching, NEW asked,
           WalkPasses(list, visited, elements, from, on, matching, asked),
           NEW m, \A d \in asked : Main(d[1]) = m, 1 \in DOMAIN list, list[1] = m
    PROVE  \E part : FirstPart(matching, elements, asked, part)
<1>1. \A k \in matching : /\ on[k] \in Nat /\ from[on[k]] \in Nat \ {0} /\ elements[k] \in asked
  BY DEF WalkPasses
<1>2. PICK part : part = {k \in matching : from[on[k]] = 1}
  OBVIOUS
<1>3. \A k : k \in part <=> k \in matching /\ from[on[k]] = 1
  BY <1>2
<1>4. \A k, l \in matching :
          k < l => \/ on[k] < on[l]
                   \/ on[k] = on[l] /\ elements[k][1] = elements[l][1]
                      /\ elements[k][2] < elements[l][2]
  BY DEF WalkPasses
<1>5. \A k, l \in matching :
          on[k] < on[l] => \/ from[on[k]] < from[on[l]]
                           \/ from[on[k]] = from[on[l]] /\ elements[k][1] < elements[l][1]
  BY DEF WalkPasses
<1>6. ASSUME NEW k \in part, NEW j \in matching, j < k PROVE j \in part
  <2>1. from[on[j]] < from[on[k]] \/ from[on[j]] = from[on[k]]
    BY <1>3, <1>4, <1>5, <1>6
  <2>2. from[on[j]] = 1
    BY <2>1, <1>1, <1>3
  <2> QED
    BY <2>2, <1>3
<1>7. \A d \in asked : \E k \in part : elements[k] = d
  <2> SUFFICES ASSUME NEW d \in asked PROVE \E k \in part : elements[k] = d
    OBVIOUS
  <2>1. PICK x \in DOMAIN visited : from[x] = 1 /\ visited[x] = d[1]
    BY DEF WalkPasses
  <2>2. \E k \in matching : on[k] = x /\ elements[k] = d
    BY <2>1 DEF WalkPasses
  <2> QED
    BY <2>1, <2>2, <1>3
<1>8. ASSUME NEW j \in part, NEW k \in part, j < k
      PROVE  \/ elements[j][1] < elements[k][1]
             \/ elements[j][1] = elements[k][1] /\ elements[j][2] < elements[k][2]
  <2>1. from[on[j]] = 1 /\ from[on[k]] = 1 /\ j \in matching /\ k \in matching
    BY <1>3
  <2>2. on[j] < on[k] => elements[j][1] < elements[k][1]
    <3>1. ~(1 < 1)
      OBVIOUS
    <3> QED
      BY <2>1, <3>1, <1>5
  <2> QED
    BY <2>1, <2>2, <1>4, <1>8
<1>9. part \in SUBSET matching
  BY <1>3
<1>10. \A j, k \in part : j <= k <=> UpTo(elements[k], elements[j])
  BY <1>8, <1>9, InOrder
<1> QED
  BY <1>1, <1>3, <1>6, <1>7, <1>9, <1>10 DEF FirstPart

LEMMA PartIsAll ==
    ASSUME NEW matching \in SUBSET Nat, IsFiniteSet(matching), NEW elements, NEW asked, NEW part,
           FirstPart(matching, elements, asked, part)
    PROVE  /\ IsFiniteSet(asked) /\ Cardinality(asked) \in Nat
           /\ Cardinality(asked) <= Cardinality(matching)
<1>1. part \in SUBSET matching
  BY DEF FirstPart
<1>2. IsFiniteSet(part) /\ Cardinality(part) <= Cardinality(matching)
  BY <1>1, FS_Subset
<1>3. \A j, k \in part : elements[j] = elements[k] => j = k
  <2> SUFFICES ASSUME NEW j \in part, NEW k \in part, elements[j] = elements[k] PROVE j = k
    OBVIOUS
  <2>1. j \in Nat /\ k \in Nat
    BY <1>1
  <2>2. UpTo(elements[j], elements[j])
    BY <2>1 DEF FirstPart
  <2>3. j <= k /\ k <= j
    BY <2>2 DEF FirstPart
  <2> QED
    BY <2>1, <2>3
<1>4. (\A k \in part : elements[k] \in asked) /\ \A d \in asked : \E k \in part : elements[k] = d
  BY DEF FirstPart
<1>5. IsFiniteSet(asked) /\ Cardinality(asked) = Cardinality(part)
  BY ONLY <1>2, <1>3, <1>4, SameNumber
<1> QED
  BY <1>2, <1>5, FS_CardinalityType

(* If nothing is listed twice, nothing is matched twice.                   *)
LEMMA MatchedOnce ==
    ASSUME PagesInv, NEW list \in MainFrameLists, NestedViews = {}, NEW visited, NEW elements,
           NEW from, VisitsInOrder(list, visited, from), NEW on, NEW matching, NEW asked,
           WalkPasses(list, visited, elements, from, on, matching, asked)
    PROVE  IsFiniteSet(asked) /\ Cardinality(asked) = Cardinality(matching)
<1>1. /\ IsSequence(list) /\ \A i, j \in DOMAIN list : list[i] = list[j] => i = j
      /\ \A m \in ListedViews : \E k \in DOMAIN list : list[k] = m
  BY ListIs DEF ListFits
<1>2. /\ DOMAIN visited = 1..Len(visited) /\ Len(visited) \in Nat
      /\ DOMAIN list = 1..Len(list) /\ Len(list) \in Nat
  BY <1>1, SequenceIs DEF VisitsInOrder
<1>3. /\ \A x \in DOMAIN visited :
            from[x] \in DOMAIN list /\ visited[x] \in DOMAIN frames /\ Main(visited[x]) = list[from[x]]
      /\ \A x, y \in DOMAIN visited :
            x < y => from[x] < from[y] \/ (from[x] = from[y] /\ visited[x] < visited[y])
  BY DEF VisitsInOrder
<1>4. ASSUME NEW x \in DOMAIN visited, NEW y \in DOMAIN visited, visited[x] = visited[y]
      PROVE  x = y
  <2>1. from[x] = from[y]
    BY <1>1, <1>3, <1>4
  <2>2. x \in Nat /\ y \in Nat /\ from[x] \in Nat /\ visited[x] \in Nat
    <3>1. visited[x] \in DOMAIN frames /\ from[x] \in DOMAIN list
      BY <1>3
    <3> QED
      BY <3>1, <1>2, TreesAre
  <2>3. ~(x < y) /\ ~(y < x)
    <3>1. ~(from[x] < from[y]) /\ ~(from[y] < from[x])
          /\ ~(visited[x] < visited[y]) /\ ~(visited[y] < visited[x])
      BY <2>1, <2>2, <1>4
    <3> QED
      BY <3>1, <1>3
  <2> QED
    BY <2>2, <2>3
<1>5. ASSUME NEW k \in matching, NEW l \in matching, elements[k] = elements[l] PROVE k = l
  <2>1. /\ on[k] \in DOMAIN visited /\ elements[k][1] = visited[on[k]] /\ elements[k] \in asked
        /\ on[l] \in DOMAIN visited /\ elements[l][1] = visited[on[l]]
        /\ on[k] \in Nat /\ k \in Nat /\ l \in Nat
    BY DEF WalkPasses
  <2>2. on[k] = on[l]
    BY <2>1, <1>4, <1>5
  <2>3. elements[k][2] \in Nat
    BY <2>1 DEF WalkPasses
  <2>4. ~(on[k] < on[l]) /\ ~(on[l] < on[k])
        /\ ~(elements[k][2] < elements[l][2]) /\ ~(elements[l][2] < elements[k][2])
    BY <2>1, <2>2, <2>3, <1>5
  <2>5. ~(k < l) /\ ~(l < k)
    BY <2>4 DEF WalkPasses
  <2> QED
    BY <2>1, <2>5
<1>6. \A k \in matching : elements[k] \in asked
  BY DEF WalkPasses
<1>7. \A d \in asked : \E k \in matching : elements[k] = d
  <2> SUFFICES ASSUME NEW d \in asked PROVE \E k \in matching : elements[k] = d
    OBVIOUS
  <2>1. Main(d[1]) \in ListedViews
    BY DEF WalkPasses
  <2>2. PICK i \in DOMAIN list : list[i] = Main(d[1])
    BY <2>1, <1>1
  <2>3. PICK x \in DOMAIN visited : visited[x] = d[1]
    BY <2>2 DEF WalkPasses
  <2> QED
    BY <2>3 DEF WalkPasses
<1>8. IsFiniteSet(matching)
  BY DEF WalkPasses
<1> QED
  BY ONLY <1>5, <1>6, <1>7, <1>8, SameNumber

(* What a query runs on is what it asks for.                               *)
LEMMA QueryFinds ==
    ASSUME PagesInv, NEW list \in MainFrameLists, NEW c, c.query \in Texts, Index(c) \in Nat,
           c.frame # NoFrame \/ Cardinality(ListedViews) = 1
    PROVE  /\ Index(c) < Cardinality(AskedFor(c)) =>
                 /\ ExecuteByQuery(WalkFrom(list), c) # {}
                 /\ \A e \in ExecuteByQuery(WalkFrom(list), c) :
                       /\ e \in AskedFor(c)
                       /\ Cardinality(AllUpTo(AskedFor(c), e)) = Index(c) + 1
           /\ ~(Index(c) < Cardinality(AskedFor(c))) /\ NestedViews = {} =>
                 ExecuteByQuery(WalkFrom(list), c) = {}
<1>1. PICK visited : visited = Visited(list)
  OBVIOUS
<1>2. PICK elements : elements = Elements(visited)
  OBVIOUS
<1>3. PICK matching : matching = Matching(WalkFrom(list), c)
  OBVIOUS
<1>4. PICK asked : asked = AskedFor(c)
  OBVIOUS
<1>5. PICK from : VisitsInOrder(list, visited, from)
  BY <1>1, ListIs, VisitedIs
<1>6. IsSequence(visited) /\ \A x \in DOMAIN visited : visited[x] \in DOMAIN frames
  BY <1>5 DEF VisitsInOrder
<1>7. PICK on : ElementsInOrder(visited, elements, on)
  BY <1>2, <1>6, ElementsAre
<1>8. WalkPasses(list, visited, elements, from, on, matching, asked)
  BY <1>1, <1>2, <1>3, <1>4, <1>5, <1>7, QueryPasses
<1>9. IsFiniteSet(matching) /\ matching \in SUBSET Nat
  BY <1>8 DEF WalkPasses
<1>10. \A e : e \in ExecuteByQuery(WalkFrom(list), c) <=>
                 \E k \in Nth(matching, Index(c) + 1) : e = elements[k]
  BY <1>1, <1>2, <1>3, WalkIs DEF ExecuteByQuery
<1>11. \E part : FirstPart(matching, elements, asked, part)
  <2>1. CASE asked = {}
    <3>1. FirstPart(matching, elements, asked, {})
      BY <2>1 DEF FirstPart
    <3> QED
      BY <3>1
  <2>2. CASE asked # {} /\ c.frame # NoFrame
    <3>1. \A d \in asked : d[1] \in DOMAIN frames /\ frames[d[1]].frame = c.frame
      BY <1>4, <1>8, <2>2 DEF WalkPasses, AskedFor, IsFor
    <3>2. PICK d \in asked : TRUE
      BY <2>2
    <3>3. \A e \in asked : e[1] = d[1]
      BY <3>1 DEF PagesInv, FramesFit
    <3>4. PICK k \in matching : elements[k] = d
      <4>1. Main(d[1]) \in ListedViews
        BY <1>8 DEF WalkPasses
      <4>2. PICK i \in DOMAIN list : list[i] = Main(d[1])
        BY <4>1, ListIs DEF ListFits
      <4>3. PICK x \in DOMAIN visited : visited[x] = d[1]
        BY <4>2, <1>8 DEF WalkPasses
      <4> QED
        BY <4>3, <1>8 DEF WalkPasses
    <3>5. on[k] \in DOMAIN visited /\ visited[on[k]] = d[1]
      BY <3>4, <1>8 DEF WalkPasses
    <3> QED
      BY <3>3, <3>5, <1>6, <1>8, FirstVisit
  <2>3. CASE asked # {} /\ Cardinality(ListedViews) = 1
    <3>1. PICK m : ListedViews = {m}
      BY <2>3, ViewsAre, FS_Singleton
    <3>2. \A d \in asked : Main(d[1]) = m
      BY <3>1, <1>8 DEF WalkPasses
    <3>3. 1 \in DOMAIN list /\ list[1] = m
      <4>1. /\ IsSequence(list) /\ \A k \in DOMAIN list : list[k] \in ListedViews
            /\ \A v \in ListedViews : \E k \in DOMAIN list : list[k] = v
        BY ListIs DEF ListFits
      <4>2. PICK k \in DOMAIN list : list[k] = m
        BY <3>1, <4>1
      <4>3. DOMAIN list = 1..Len(list) /\ Len(list) \in Nat
        BY <4>1, SequenceIs
      <4>4. 1 \in DOMAIN list
        BY <4>2, <4>3
      <4> QED
        BY <4>1, <4>4, <3>1
    <3> QED
      BY <3>2, <3>3, <1>8, FirstListed
  <2> QED
    BY <2>1, <2>2, <2>3
<1>12. PICK part : FirstPart(matching, elements, asked, part)
  BY <1>11
<1>13. /\ Cardinality(asked) \in Nat /\ Cardinality(matching) \in Nat
       /\ Cardinality(asked) <= Cardinality(matching)
  BY <1>9, <1>12, PartIsAll, FS_CardinalityType
<1>14. ASSUME Index(c) < Cardinality(asked)
       PROVE  /\ ExecuteByQuery(WalkFrom(list), c) # {}
              /\ \A e \in ExecuteByQuery(WalkFrom(list), c) :
                    e \in asked /\ Cardinality(AllUpTo(asked, e)) = Index(c) + 1
  <2>1. Index(c) + 1 \in 1..Cardinality(asked) /\ Index(c) + 1 \in 1..Cardinality(matching)
    BY <1>13, <1>14
  <2>2. Nth(matching, Index(c) + 1) # {}
    BY <2>1, <1>9, NthExists
  <2>3. ASSUME NEW k \in Nth(matching, Index(c) + 1)
        PROVE  elements[k] \in asked
               /\ Cardinality(AllUpTo(asked, elements[k])) = Index(c) + 1
    <3>1. /\ part \in SUBSET matching
          /\ \A i \in part, j \in matching : j < i => j \in part
          /\ \A i \in part : elements[i] \in asked
          /\ \A d \in asked : \E i \in part : elements[i] = d
          /\ \A i, j \in part : i <= j <=> UpTo(elements[j], elements[i])
      BY <1>12 DEF FirstPart
    <3> QED
      BY ONLY <3>1, <2>1, <2>3, <1>9, NthOfFirst
  <2> QED
    BY <2>2, <2>3, <1>10
<1>15. ASSUME ~(Index(c) < Cardinality(asked)), NestedViews = {}
       PROVE  ExecuteByQuery(WalkFrom(list), c) = {}
  <2>1. Cardinality(asked) = Cardinality(matching)
    BY <1>5, <1>8, <1>15, MatchedOnce
  <2>2. Index(c) + 1 \notin 1..Cardinality(matching)
    BY <2>1, <1>13, <1>15
  <2>3. Nth(matching, Index(c) + 1) = {}
    BY <2>2, <1>9, NthBound
  <2> QED
    BY <2>3, <1>10
<1> QED
  BY <1>4, <1>14, <1>15

-----------------------------------------------------------------------------
(* What is answered, of the pages that a command was performed on.         *)
PageCommandNames ==
    {"ScrollQWebFrame", "ExecuteJavaScriptOnQWebFrame",
     "ExecuteJavaScriptOnWebElement", "locator_query"}

RunsOn(walk, c) ==
    IF c.name = "locator_query" THEN ExecuteByQuery(walk, c)
    ELSE IF c.name = "ExecuteJavaScriptOnWebElement" THEN ExecuteOnWebElement(walk, c)
    ELSE OnFrame(walk, c)

Looks(list, c) == ForElement(c.name) => list # <<>>

AnswerFits(list, c) ==
    /\ c.name \in PageCommandNames
    /\ c.name = "locator_query" => Index(c) \in Nat
    /\ response.request = c
    /\ response.ok <=> RunsOn(WalkFrom(list), c) # {}
    /\ response.ok => response.on \in RunsOn(WalkFrom(list), c)
    /\ ~response.ok /\ Looks(list, c) => errorMessage \in About(c.name)

ResponseInv ==
    response.request.name # "none" =>
        \E list \in MainFrameLists : \E c : AnswerFits(list, c)

LEMMA CommandIs ==
    ASSUME NEW c \in PageCommands
    PROVE  /\ c.name \in PageCommandNames
           /\ c.name = "locator_query" => Index(c) \in Nat
<1>1. CASE c \in [name : {"ScrollQWebFrame", "ExecuteJavaScriptOnQWebFrame"}, frame : Frames]
  BY <1>1 DEF PageCommandNames
<1>2. CASE \E t \in ToldElements :
              c = [name |-> "ExecuteJavaScriptOnWebElement", frame |-> t.frame, id |-> t.id]
  BY <1>2 DEF PageCommandNames
<1>3. CASE c \in [name : {"locator_query"}, frame : Frames \cup {NoFrame},
                  query : Texts \cup 1..MaxNumber, index : {-1} \cup 1..MaxIndex]
  <2>1. c.name = "locator_query" /\ c.index \in {-1} \cup 1..MaxIndex
    BY <1>3
  <2>2. Index(c) \in Nat
    BY <2>1, PagesAssumption DEF Index
  <2> QED
    BY <2>1, <2>2 DEF PageCommandNames
<1> QED
  BY <1>1, <1>2, <1>3 DEF PageCommands

LEMMA AnswerIs ==
    ASSUME NEW list, NEW c, c.name \in PageCommandNames
    PROVE  LET a == Answer(WalkFrom(list), c) IN
           /\ a.on = RunsOn(WalkFrom(list), c)
           /\ Looks(list, c) => a.message \in About(c.name)
<1>1. WalkFrom(list).list = list
  BY WalkIs
<1>2. CASE c.name = "ScrollQWebFrame"
  <2>1. Answer(WalkFrom(list), c) = [on |-> OnFrame(WalkFrom(list), c), message |-> "Scroll"]
    BY <1>2 DEF Answer
  <2> QED
    BY <1>2, <2>1 DEF RunsOn, About
<1>3. CASE c.name = "ExecuteJavaScriptOnQWebFrame"
  <2>1. Answer(WalkFrom(list), c) = [on |-> OnFrame(WalkFrom(list), c), message |-> "QWebFrame"]
    BY <1>3 DEF Answer
  <2> QED
    BY <1>3, <2>1 DEF RunsOn, About
<1>4. CASE c.name = "ExecuteJavaScriptOnWebElement"
  <2>1. Answer(WalkFrom(list), c) =
            [on |-> ExecuteOnWebElement(WalkFrom(list), c), message |-> MessageOnWebElement(list, c)]
    BY <1>1, <1>4 DEF Answer
  <2>2. list # <<>> => MessageOnWebElement(list, c) \in {"WebElement: frame", "WebElement: element"}
    BY DEF MessageOnWebElement
  <2>3. About(c.name) = {"WebElement: frame", "WebElement: element"}
    BY <1>4 DEF About
  <2>4. /\ Answer(WalkFrom(list), c).message = MessageOnWebElement(list, c)
        /\ Answer(WalkFrom(list), c).on = ExecuteOnWebElement(WalkFrom(list), c)
    BY <2>1
  <2>5. RunsOn(WalkFrom(list), c) = ExecuteOnWebElement(WalkFrom(list), c)
    BY <1>4 DEF RunsOn
  <2>6. list # <<>> => Answer(WalkFrom(list), c).message \in About(c.name)
    BY ONLY <2>2, <2>3, <2>4
  <2>7. Looks(list, c) => list # <<>>
    BY <1>4 DEF Looks, ForElement
  <2> QED
    BY ONLY <2>4, <2>5, <2>6, <2>7
<1>5. CASE c.name = "locator_query"
  <2>1. Answer(WalkFrom(list), c) =
            [on |-> ExecuteByQuery(WalkFrom(list), c), message |-> MessageByQuery(list)]
    BY <1>1, <1>5 DEF Answer
  <2>2. list # <<>> => MessageByQuery(list) \in {"WebElement: frame", "WebElement: element"}
    BY DEF MessageByQuery
  <2>3. About(c.name) = {"WebElement: frame", "WebElement: element"}
    BY <1>5 DEF About
  <2>4. /\ Answer(WalkFrom(list), c).message = MessageByQuery(list)
        /\ Answer(WalkFrom(list), c).on = ExecuteByQuery(WalkFrom(list), c)
    BY <2>1
  <2>5. RunsOn(WalkFrom(list), c) = ExecuteByQuery(WalkFrom(list), c)
    BY <1>5 DEF RunsOn
  <2>6. list # <<>> => Answer(WalkFrom(list), c).message \in About(c.name)
    BY ONLY <2>2, <2>3, <2>4
  <2>7. Looks(list, c) => list # <<>>
    BY <1>5 DEF Looks, ForElement
  <2> QED
    BY ONLY <2>4, <2>5, <2>6, <2>7
<1> QED
  BY <1>2, <1>3, <1>4, <1>5 DEF PageCommandNames

LEMMA ListsStay ==
    ASSUME UNCHANGED pages
    PROVE  MainFrameLists' = MainFrameLists
<1>1. frames' = frames /\ document' = document
  BY DEF pages
<1> QED
  BY <1>1, SMT DEF MainFrameLists, ReachedFrom, ListedViews, NestedViews, Listed

LEMMA WalkStays ==
    ASSUME UNCHANGED pages, NEW list
    PROVE  WalkFrom(list)' = WalkFrom(list)
<1>1. frames' = frames /\ document' = document
  BY DEF pages
<1> QED
  BY <1>1, SMT DEF WalkFrom, ElementsOf, Subtree, NodesBelow

LEMMA RunsStay ==
    ASSUME UNCHANGED pages, NEW walk, NEW c
    PROVE  RunsOn(walk, c)' = RunsOn(walk, c)
<1>1. frames' = frames /\ document' = document
  BY DEF pages
<1>2. OnFrame(walk, c)' = OnFrame(walk, c)
  BY <1>1, SMT DEF OnFrame, FindFrame
<1>3. ExecuteOnWebElement(walk, c)' = ExecuteOnWebElement(walk, c)
  BY <1>1, SMT DEF ExecuteOnWebElement, FindFrame, LookForWebElement, ElementId, OuterXml, Subtree,
                   NodesBelow
<1>4. Matching(walk, c)' = Matching(walk, c)
  BY <1>1, SMT DEF Matching, Candidates, IsFor, Fits
<1>5. ExecuteByQuery(walk, c)' = ExecuteByQuery(walk, c)
  BY <1>4, SMT DEF ExecuteByQuery
<1> QED
  BY <1>2, <1>3, <1>5 DEF RunsOn

LEMMA AnswerStays ==
    ASSUME NEW list, NEW c, UNCHANGED pages,
           /\ c.name \in PageCommandNames
           /\ c.name = "locator_query" => Index(c) \in Nat
           /\ response'.request = c
           /\ response'.ok <=> RunsOn(WalkFrom(list), c) # {}
           /\ response'.ok => response'.on \in RunsOn(WalkFrom(list), c)
           /\ ~response'.ok /\ Looks(list, c) => errorMessage' \in About(c.name)
    PROVE  AnswerFits(list, c)'
<1>1. RunsOn(WalkFrom(list), c)' = RunsOn(WalkFrom(list), c)
  <2>1. WalkFrom(list)' = WalkFrom(list)
    BY WalkStays
  <2>2. PICK walk : walk = WalkFrom(list)
    OBVIOUS
  <2>3. RunsOn(walk, c)' = RunsOn(walk, c)
    BY RunsStay
  <2>4. RunsOn(WalkFrom(list), c)' = RunsOn(walk, c)'
    BY <2>1, <2>2 DEF RunsOn, ExecuteByQuery, Matching, Candidates, ExecuteOnWebElement, OnFrame
  <2> QED
    BY <2>2, <2>3, <2>4
<1> QED
  BY <1>1 DEF AnswerFits


LEMMA NextAnswer ==
    ASSUME ResponseInv, [PagesNext]_web
    PROVE  ResponseInv'
<1>1. CASE UNCHANGED web
  <2>1. UNCHANGED pages /\ response' = response /\ errorMessage' = errorMessage
    BY <1>1 DEF web, pages
  <2> SUFFICES ASSUME response.request.name # "none"
               PROVE  \E list \in MainFrameLists' : \E c : AnswerFits(list, c)'
    BY <2>1 DEF ResponseInv
  <2>2. PICK list \in MainFrameLists : \E c : AnswerFits(list, c)
    BY DEF ResponseInv
  <2>3. PICK c : AnswerFits(list, c)
    BY <2>2
  <2>4. AnswerFits(list, c)'
    BY <2>1, <2>3, AnswerStays DEF AnswerFits
  <2> QED
    BY <2>1, <2>4, ListsStay
<1>2. CASE response' = response /\ response = NoResponse
  BY <1>2 DEF ResponseInv, NoResponse
<1>3. ASSUME NEW walk \in Walks, NEW c \in PageCommands, ExecuteService(walk, c)
      PROVE  ResponseInv'
  <2>1. PICK list \in MainFrameLists : walk = WalkFrom(list)
    BY DEF Walks
  <2>2. PICK a : a = Answer(WalkFrom(list), c)
    OBVIOUS
  <2>3. c.name \in PageCommandNames /\ (c.name = "locator_query" => Index(c) \in Nat)
    BY CommandIs
  <2>4. a.on = RunsOn(WalkFrom(list), c) /\ (Looks(list, c) => a.message \in About(c.name))
    BY <2>2, <2>3, AnswerIs
  <2>5. /\ UNCHANGED pages
        /\ errorMessage' = IF a.on = {} THEN a.message ELSE errorMessage
        /\ response' = [request |-> c, ok |-> a.on # {},
                        on |-> IF a.on = {} THEN NoPlace ELSE CHOOSE x \in a.on : TRUE]
    BY <1>3, <2>1, <2>2, Zenon DEF ExecuteService
  <2>6. /\ response'.request = c /\ response'.ok = (a.on # {})
        /\ a.on # {} => response'.on \in a.on
    BY <2>5
  <2>7. AnswerFits(list, c)'
    <3>1. /\ response'.ok <=> RunsOn(WalkFrom(list), c) # {}
          /\ response'.ok => response'.on \in RunsOn(WalkFrom(list), c)
      BY ONLY <2>4, <2>6
    <3>2. ~response'.ok /\ Looks(list, c) => errorMessage' \in About(c.name)
      BY ONLY <2>4, <2>5, <2>6
    <3> QED
      BY <3>1, <3>2, <2>3, <2>5, <2>6, AnswerStays
  <2>8. list \in MainFrameLists'
    BY <2>5, ListsStay
  <2> QED
    BY <2>7, <2>8 DEF ResponseInv
<1>4. CASE response'.request.name = "none"
  BY <1>4 DEF ResponseInv
<1>5. \/ UNCHANGED web
      \/ response' = response /\ response = NoResponse
      \/ \E walk \in Walks, c \in PageCommands : ExecuteService(walk, c)
      \/ response'.request.name = "none"
  BY DEF PagesNext, PagesChange, ExecuteNothing, Respond, NoResponse
<1> QED
  BY <1>1, <1>2, <1>3, <1>4, <1>5

LEMMA ToldAreFound ==
    ASSUME PagesInv, ResponseInv
    PROVE  ToldIsFound
<1> SUFFICES ASSUME NEW t \in TraverseObject(FALSE, ElementAttributes),
                    response.request.name = "ExecuteJavaScriptOnWebElement",
                    response.request.id = t.id, response.request.frame = t.frame, LookedFor(t)
             PROVE  response.ok
  BY DEF ToldIsFound
<1> PICK list \in MainFrameLists : \E c : AnswerFits(list, c)
  BY DEF ResponseInv
<1>1. PICK c : AnswerFits(list, c)
  OBVIOUS
<1>2. c.name = "ExecuteJavaScriptOnWebElement" /\ c.id = t.id /\ c.frame = t.frame
  BY <1>1 DEF AnswerFits
<1> PICK p \in DOMAIN frames : \E i \in 2..Len(document[frames[p].frame]) :
          Listed(Main(p)) /\ Tells(p, i, ElementAttributes) = t
  BY DEF LookedFor
<1>3. PICK i \in 2..Len(document[frames[p].frame]) :
          Listed(Main(p)) /\ Tells(p, i, ElementAttributes) = t
  OBVIOUS
<1>4. PICK f \in Frames : f = frames[p].frame
  BY TreesAre
<1>5. c.frame = f /\ c.id = ElementId(f, i)
  <2>1. Tells(p, i, ElementAttributes) = [id |-> ElementId(f, i), frame |-> f]
    BY <1>4 DEF Tells, AttributeIncluded, ElementAttributes
  <2> QED
    BY <2>1, <1>2, <1>3
<1>6. i \in LookForWebElement(f, ElementId(f, i))
  <2>1. /\ DOMAIN document[f] = 1..Len(document[f]) /\ Len(document[f]) \in Nat
        /\ \A k \in DOMAIN document[f] : document[f][k] \in ElementNodes
    BY TreesAre
  <2>2. i \in DOMAIN document[f] /\ i # 1
    BY <1>3, <1>4, <2>1
  <2>3. document[f][i].depth \in Nat /\ document[f][i].depth # 0
    BY <2>1, <2>2 DEF PagesInv, PageFits, ElementNodes
  <2> QED
    BY <2>2, <2>3 DEF LookForWebElement
<1>7. p \in FindFrame(WalkFrom(list).visited, f)
  <2>1. PICK from : VisitsInOrder(list, Visited(list), from)
    BY ListIs, VisitedIs
  <2>2. Main(p) \in ListedViews
    BY <1>3, MainIs DEF ListedViews
  <2>3. PICK k \in DOMAIN list : list[k] = Main(p)
    BY <2>2, ListIs DEF ListFits
  <2>4. PICK x \in DOMAIN Visited(list) : Visited(list)[x] = p
    BY <2>1, <2>3 DEF VisitsInOrder
  <2>5. p \in ToSet(Visited(list))
    BY <2>4 DEF ToSet
  <2> QED
    BY <2>5, <1>4, WalkIs DEF FindFrame
<1>8. ExecuteOnWebElement(WalkFrom(list), c) # {}
  BY <1>5, <1>6, <1>7 DEF ExecuteOnWebElement
<1> QED
  BY <1>1, <1>2, <1>8 DEF AnswerFits, RunsOn

LEMMA IndexesCount ==
    ASSUME PagesInv, ResponseInv
    PROVE  IndexCounts
<1> DEFINE c == response.request
<1> SUFFICES ASSUME c.name = "locator_query", c.query \in Texts,
                    c.frame # NoFrame \/ Cardinality(ListedViews) = 1
             PROVE  IF Index(c) < Cardinality(AskedFor(c))
                    THEN /\ response.on \in AskedFor(c)
                         /\ Cardinality({d \in AskedFor(c) : UpTo(response.on, d)}) = Index(c) + 1
                    ELSE NestedViews # {} \/ ~response.ok
  BY DEF IndexCounts
<1>1. PICK list \in MainFrameLists : AnswerFits(list, c)
  BY DEF ResponseInv, AnswerFits
<1>2. /\ Index(c) \in Nat
      /\ response.ok <=> ExecuteByQuery(WalkFrom(list), c) # {}
      /\ response.ok => response.on \in ExecuteByQuery(WalkFrom(list), c)
  BY <1>1 DEF AnswerFits, RunsOn
<1> HIDE DEF c
<1>3. /\ Index(c) < Cardinality(AskedFor(c)) =>
            /\ ExecuteByQuery(WalkFrom(list), c) # {}
            /\ \A e \in ExecuteByQuery(WalkFrom(list), c) :
                  /\ e \in AskedFor(c)
                  /\ Cardinality(AllUpTo(AskedFor(c), e)) = Index(c) + 1
      /\ ~(Index(c) < Cardinality(AskedFor(c))) /\ NestedViews = {} =>
            ExecuteByQuery(WalkFrom(list), c) = {}
  BY <1>2, QueryFinds
<1>4. {d \in AskedFor(c) : UpTo(response.on, d)} = AllUpTo(AskedFor(c), response.on)
  BY DEF AllUpTo
<1> QED
  BY <1>2, <1>3, <1>4

LEMMA MessagesAreOfCommands ==
    ASSUME PagesInv, ResponseInv
    PROVE  MessageIsOfCommand
<1> SUFFICES ASSUME response.request.name # "none", ~response.ok,
                    ForElement(response.request.name) => ListedViews # {}
             PROVE  errorMessage \in About(response.request.name)
  BY DEF MessageIsOfCommand
<1> PICK list \in MainFrameLists : \E c : AnswerFits(list, c)
  BY DEF ResponseInv
<1>1. PICK c : AnswerFits(list, c)
  OBVIOUS
<1>2. ASSUME ListedViews # {} PROVE list # <<>>
  <2>1. PICK m \in ListedViews : TRUE
    BY <1>2
  <2>2. PICK k \in DOMAIN list : list[k] = m
    BY ListIs DEF ListFits
  <2> QED
    BY <2>2
<1>3. Looks(list, c)
  BY <1>1, <1>2 DEF Looks, AnswerFits
<1> QED
  BY <1>1, <1>3 DEF AnswerFits

(* The searches of the traverser and of the service agree in what there    *)
(* is and in its order; and an error is about the command it answers,      *)
(* unless the command is for an element and no page is listed at all.      *)
THEOREM PagesAreServed == PagesSpec => []PagesServed
<1>1. ASSUME PagesInit PROVE PagesInv /\ ResponseInv
  <2>1. response.request.name = "none"
    BY <1>1 DEF PagesInit, NoResponse
  <2> QED
    BY <1>1, <2>1, InitFits DEF ResponseInv
<1>2. PagesInv /\ ResponseInv /\ [PagesNext]_web => (PagesInv /\ ResponseInv)'
  BY NextFits, NextAnswer
<1>3. PagesInv /\ ResponseInv => PagesServed
  BY ToldAreFound, IndexesCount, MessagesAreOfCommands DEF PagesServed
<1> QED
  BY <1>1, <1>2, <1>3, PTL DEF PagesSpec
===============================================================================
