----------------------------- MODULE UiTraverser -----------------------------
(***************************************************************************)
(* TasUiTraverser and its traverser plugins: which objects of the          *)
(* application a traversal reports, under which parents, with ids from     *)
(* which plugins, and the filters that a command sets for a traversal.     *)
(***************************************************************************)
EXTENDS ObjectTree, Sequences

CONSTANT Commands  \* what the first command of a target may ask for: records
                   \* of white and black lists, of plugins and of attributes

NoCommand == [pluginWhite |-> {}, pluginBlack |-> {}, white |-> {}, black |-> {}]

(* A white list is one that must hold the name, and either list may be     *)
(* empty; the black list is valued higher.                                 *)
Passes(white, black, n) == (white = {} \/ n \in white) /\ n \notin black

FilterPlugin(command, plugin) ==
    ~Passes(command.pluginWhite, command.pluginBlack, plugin)

(* The filter of attributes is set when a traversal begins and cleared when *)
(* it ends.  The same name with Qt's prefix is enough.                     *)
IncludeAttribute(command, n) ==
    \/ Passes(command.white, command.black, n)
    \/ Passes(command.white, command.black, "Qt_" \o n)

-----------------------------------------------------------------------------

(* Top-level widgets without a parent and all windows.                     *)
Roots ==
    {a \in Objects : \/ IsA(a, Widgets) /\ Parent(a) = NoObject /\ IsVisible(a)
                     \/ IsA(a, Windows)}

ContentOf(w) == CHOOSE c \in Children(w, {"quick"}) : TRUE
RootObject(w) == Children(ContentOf(w), {"quick"})
VisibleItems(a) == {i \in Children(a, SceneItems) : IsVisible(i)}

(* Children that are no QQuickItems are traversed last of all kinds: the   *)
(* widgets that are visible and the objects that have no picture.          *)
WidgetChildren(a) == {b \in Children(a, Widgets) : IsVisible(b)}
ObjectChildren(a) == Children(a, NonVisual)

IsPlain(a) ==
    \/ IsA(a, (Widgets \ {"view"}) \cup NonVisual)
    \/ IsA(a, {"quickview"}) /\ RootObject(a) = {}

(* What traverseObject goes on to from an object.                          *)
Reports(a) ==
    CASE IsPlain(a)              -> WidgetChildren(a) \cup ObjectChildren(a)
      [] IsA(a, {"quickview"}) /\ ~IsPlain(a) -> RootObject(a)
      [] IsA(a, {"window"})      -> {ContentOf(a)}
      [] IsA(a, {"quick"})       -> Children(a, {"quick"})
      [] IsA(a, SceneItems \cup {"view"}) -> VisibleItems(a)
      [] OTHER                   -> {}

(* printActions adds the actions of a widget, which its children hold too. *)
Actions(a) == IF IsPlain(a) THEN Children(a, {"action"}) ELSE {}

(* The layout traverser adds the layout of a widget and the layouts in it, *)
(* which their QObject parents hold too.                                   *)
Layouts(a) == Children(a, {"layout"})

(* The view item traverser adds the items of a view's cells: of a table    *)
(* all, of a list those not hidden, of a tree the top ones and those below *)
(* an expanded one.                                                        *)
TableCells(a) == IF IsA(a, {"table"}) THEN Children(a, {"cell"}) ELSE {}
ListCells(a) ==
    IF IsA(a, {"list"}) THEN {c \in Children(a, {"cell"}) : object[c].shown} ELSE {}
TreeCells(a) ==
    IF IsA(a, {"tree"}) \/ (IsA(a, {"cell"}) /\ object[a].shown) THEN Children(a, {"cell"}) ELSE {}
CellItems(a) == TableCells(a) \cup ListCells(a) \cup TreeCells(a)

Added(a) == Actions(a) \cup Layouts(a) \cup CellItems(a)

NextTraversed(a) == Reports(a) \cup Added(a)

Traversed(from) == Reached(from, NextTraversed)

UiState == Traversed(Roots)

-----------------------------------------------------------------------------
(* The plugins that give a reported object an id: the Qt traverser every   *)
(* object, the scene graph traverser what a QQuickWindow shows; and, with  *)
(* no plugin asked, the traverser itself an object with children that have *)
(* no picture.                                                             *)
Identified(as, command) ==
    LET on(plugin) == ~FilterPlugin(command, plugin) IN
    {a \in as : \/ on("qttraverser") /\ ~IsA(a, {"cell"})
                \/ on("scenegraphtraverser") /\ IsA(a, Windows \cup {"quick"})
                \/ on("layouttraverser") /\ IsA(a, {"layout"})
                \/ on("viewitemtraverser") /\ IsA(a, {"cell"})
                \/ IsPlain(a) /\ ObjectChildren(a) # {}}

(* An id of an object comes with the id of its parent, and a layout with   *)
(* the ids of the widgets in it, hidden ones too; they are stored as well. *)
ParentsOf(as, command) ==
    IF IncludeAttribute(command, "parent")
    THEN {Parent(a) : a \in {b \in as : ~IsA(b, SceneItems \cup Bare)}} \ {NoObject}
    ELSE {}

LaidOut(as) == UNION {Children(Parent(a), Widgets) : a \in {l \in as : IsA(l, {"layout"})}}

WithOthers(as, command) == as \cup ParentsOf(as, command) \cup LaidOut(as)

(* The type of an object in the reply, by which commands name it.          *)
TypeOf(a) ==
    CASE IsA(a, SceneItems) -> "Graphics"
      [] IsA(a, {"quick"})  -> "QSceneGraph"
      [] IsA(a, Windows)    -> "Window"
      [] IsA(a, {"cell"})   -> "ViewItem"
      [] OTHER              -> "Standard"

(* The cells of other item views, the sections of a header and the columns *)
(* of a tree get the addresses of the records made for them in the reply,  *)
(* which are freed with it: any free address.                              *)
Cells(as, command) ==
    IF /\ ~FilterPlugin(command, "viewitemtraverser")
       /\ \E a \in as : IsA(a, {"itemview"}) \/ (IsA(a, {"cell"}) /\ TreeCells(a) # {})
    THEN {a \in Objects : ~Live(a)} ELSE {}

(* The tester has read a reply.                                            *)
Told(as, cells) ==
    [a \in Objects |-> IF a \in as THEN "this"
                       ELSE IF a \in cells THEN "gone" ELSE known[a]]
=============================================================================
