------------------------------ MODULE ObjectTree ------------------------------
(***************************************************************************)
(* The objects of an application under test and how the plugin inside it   *)
(* names them: by their addresses.  The application creates and destroys   *)
(* its objects when it likes and a new object may get the address of a     *)
(* destroyed one.  TasPointerCache remembers the objects whose ids were    *)
(* made, with pointers that become null when the object is destroyed.      *)
(*                                                                         *)
(* Objects that matter to the traversal are of different kinds:            *)
(*   window, quickview  a QQuickWindow, a QQuickView, with a content item  *)
(*   quick              a QQuickItem (the content item is one)             *)
(*   widget, dialog     a child or top-level widget, a window of its own   *)
(*   itemview           a QAbstractItemView or a header: cells of a model  *)
(*   tree, table, list  an item view whose cells are items of their own    *)
(*   cell               such an item, shown in a tree when it is expanded  *)
(*   layout             a QLayout of a widget or inside a layout           *)
(*   view               a QGraphicsView                                    *)
(*   graphics, item     a QGraphicsObject, a QGraphicsItem that is no      *)
(*                      QObject, of the scene of a view                    *)
(*   object, action     a QObject without a picture, a QAction of a widget *)
(***************************************************************************)
EXTENDS Naturals, FiniteSets

CONSTANTS Objects,     \* addresses
          Names,       \* object names that are not empty
          NoObject,
          MaxCreated,  \* bound: objects created in a behaviour
          Toolkits     \* sets of kinds an application is built from

ASSUME ObjectAssumption == NoObject \notin Objects

NoName == "unnamed"

Windows == {"window", "quickview"}
CellWidgets == {"tree", "table", "list"}
Widgets == {"widget", "dialog", "itemview", "view"} \cup CellWidgets
SceneItems == {"graphics", "item"}
NonVisual == {"object", "action", "layout"}
Kinds == Windows \cup {"quick", "cell"} \cup Widgets \cup SceneItems \cup NonVisual

(* What is no QObject.                                                     *)
Bare == {"item", "cell"}

Free == [kind |-> "none", parent |-> NoObject, name |-> NoName, shown |-> FALSE]

VARIABLES
    toolkit,   \* the kinds of objects the application has
    object,    \* what is at each address
    cache,     \* TasPointerCache: none, live, or null once the object died
    known,     \* ids the tester has: of this object, of one that is gone
    created    \* how many objects were created, a window with its content being one

tree == <<toolkit, object, cache, known, created>>

TreeInit ==
    /\ toolkit \in Toolkits
    /\ object = [a \in Objects |-> Free]
    /\ cache = [a \in Objects |-> "none"]
    /\ known = [a \in Objects |-> "none"]
    /\ created = 0

-----------------------------------------------------------------------------
Kind(a) == object[a].kind
Parent(a) == object[a].parent
Live(a) == Kind(a) # "none"
IsA(a, kinds) == a \in Objects /\ Kind(a) \in kinds
Children(a, kinds) == {b \in Objects : Parent(b) = a /\ IsA(b, kinds)}

(* All that a recursion comes to which starts from some objects and goes   *)
(* on from each to the next ones: what is in every set that has the former *)
(* and is closed under the latter.                                         *)
Reached(from, next(_)) ==
    {a \in Objects : \A others \in SUBSET (Objects \ {a}) :
         from \subseteq others => \E b \in others : ~(next(b) \subseteq others)}

Parents(a) == {Parent(a)} \ {NoObject}
Above(a) == Reached(Parents(a), Parents)
Below(a) == {b \in Objects : a \in Above(b)}

(* The object and everything it was put under, as far as it is drawn with  *)
(* them: a dialog is a window of its own, a scene is drawn by its view.    *)
DrawnBy(a) ==
    IF IsA(a, {"dialog"}) \/ (IsA(a, SceneItems) /\ IsA(Parent(a), {"view"})) THEN {}
    ELSE Parents(a)

IsVisible(a) == \A b \in Reached({a}, DrawnBy) : object[b].shown

(* QObject::children and findChildren: the items of a scene and of a view  *)
(* have no QObject as their parent.                                        *)
QtChildren(a) == Children(a, Kinds \ (SceneItems \cup {"cell"}))

QtBelow(a) == Reached(QtChildren(a), QtChildren)

-----------------------------------------------------------------------------
(* TasCoreUtils::objectId stores every object whose id is made; an item    *)
(* that is no QObject has an id but no entry.                              *)
Stored(c, as) ==
    [a \in Objects |-> IF a \in as /\ ~IsA(a, Bare) THEN "live" ELSE c[a]]

(* Mutant of GetObject: the cache keeps plain pointers.                    *)
GetRaw(c, a) == IF c[a] # "none" THEN a ELSE NoObject

(* getObject; the null it may find is removed on the way.                  *)
GetObject(c, a) == IF c[a] = "live" THEN a ELSE NoObject
Looked(c, a) == [c EXCEPT ![a] = IF @ = "null" THEN "none" ELSE @]

NullsRemoved(c) == [a \in Objects |-> IF c[a] = "null" THEN "none" ELSE c[a]]

-----------------------------------------------------------------------------
(* What the application does with its objects.                             *)
TreeCell(c) == \E t \in Above(c) : IsA(t, {"tree"})

MayHold(k, p) ==
    CASE k = "quick"    -> IsA(p, {"quick"})
      [] k \in Widgets  -> p = NoObject \/ IsA(p, {"widget", "dialog"})
      [] k \in SceneItems -> IsA(p, {"view"} \cup SceneItems)
      [] k = "cell"     -> IsA(p, CellWidgets) \/ (IsA(p, {"cell"}) /\ TreeCell(p))
      [] k = "layout"   -> IsA(p, {"widget", "dialog", "layout"}) /\ Children(p, {"layout"}) = {}
      [] k = "action"   -> IsA(p, {"widget", "dialog"})
      [] k = "object"   -> IsA(p, Kinds \ (Bare \cup {"action", "layout"}))
      [] OTHER          -> FALSE

(* A QQuickView has one root object, under its content item.               *)
SecondRoot(k, p) ==
    /\ k = "quick" /\ IsA(Parent(p), {"quickview"})
    /\ Children(p, {"quick"}) # {}

Create(a, k, p, n) ==
    /\ created < MaxCreated
    /\ k \in toolkit /\ ~Live(a)
    /\ MayHold(k, p) /\ ~SecondRoot(k, p)
    /\ object' = [object EXCEPT ![a] = [kind |-> k, parent |-> p, name |-> n, shown |-> TRUE]]
    /\ created' = created + 1
    /\ UNCHANGED <<toolkit, cache, known>>

CreateWindow(a, k, content, n) ==
    /\ created < MaxCreated
    /\ k \in toolkit \cap Windows
    /\ a # content /\ ~Live(a) /\ ~Live(content)
    /\ object' = [object EXCEPT
           ![a] = [kind |-> k, parent |-> NoObject, name |-> n, shown |-> TRUE],
           ![content] = [kind |-> "quick", parent |-> a, name |-> NoName, shown |-> TRUE]]
    /\ created' = created + 1
    /\ UNCHANGED <<toolkit, cache, known>>

(* An object takes all below it with it.                                   *)
Destroy(a) ==
    /\ Live(a)
    /\ ~(IsA(a, {"quick"}) /\ IsA(Parent(a), Windows))
    /\ LET dead == {a} \cup Below(a) IN
       /\ object' = [b \in Objects |-> IF b \in dead THEN Free ELSE object[b]]
       /\ cache' = [b \in Objects |-> IF b \in dead /\ cache[b] = "live" THEN "null"
                                      ELSE cache[b]]
       /\ known' = [b \in Objects |-> IF b \in dead /\ known[b] = "this" THEN "gone"
                                      ELSE known[b]]
    /\ UNCHANGED <<toolkit, created>>

ShowOrHide(a) ==
    /\ IsA(a, Widgets \cup SceneItems \cup {"cell"})
    /\ object' = [object EXCEPT ![a].shown = ~@]
    /\ UNCHANGED <<toolkit, cache, known, created>>

AppStep ==
    \/ \E a \in Objects, k \in Kinds, p \in Objects \cup {NoObject}, n \in Names \cup {NoName} :
           Create(a, k, p, n)
    \/ \E a, c \in Objects, k \in Windows, n \in Names \cup {NoName} : CreateWindow(a, k, c, n)
    \/ \E a \in Objects : Destroy(a) \/ ShowOrHide(a)
=============================================================================
