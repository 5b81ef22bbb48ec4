---------------------------- MODULE ObjectServices ----------------------------
(***************************************************************************)
(* The services of the plugin that tell a tester about objects and let it  *)
(* name them in commands: UiStateService, FindObjectService and            *)
(* ObjectService.  Between two requests, and inside a called method, the   *)
(* application changes its objects; the ids the tester holds get old.      *)
(***************************************************************************)
EXTENDS UiTraverser

CONSTANTS FindRequests,     \* find_object requests: sequences of targets
          MaxTargets,       \* bound: targets of one request to ObjectService
          MaxRequests       \* bound: requests in a behaviour

(* What find_object asks for: an id, a name, a class or any class, the     *)
(* application itself or the virtual keyboard, and a child in it or none.  *)
Wants(children) ==
    [id : Objects \cup {NoObject}, name : Names \cup {NoName},
     class : Kinds \cup {"", "*", "application", "vkb"},
     child : {<<>>} \cup {<<c>> : c \in children}, command : Commands]
FindTargets == Wants(Wants({}))

ASSUME FindAssumption == FindRequests \subseteq Seq(FindTargets) \ {<<>>}

VARIABLES
    pending,  \* the request in work: its targets that are left, what they gave,
              \* the object of the target in work and whether it was destroyed since
    last,     \* what the tester was last answered, until the application goes on
    requests  \* how many requests there were

vars == <<tree, pending, last, requests>>

Nothing == [asked |-> <<>>, told |-> {}]
Idle == [service |-> "none", asked |-> <<>>, left |-> <<>>, told |-> {}, cells |-> {},
         target |-> NoObject, lost |-> FALSE]

Init ==
    /\ TreeInit
    /\ pending = Idle
    /\ last = Nothing
    /\ requests = 0

Begin == pending = Idle /\ requests < MaxRequests /\ requests' = requests + 1

-----------------------------------------------------------------------------
(* Mutant of Matches: a candidate of the class need not match more.        *)
MatchesClass(o, t) == Kind(o) = t.class \/ t.class = ""

(* Does a candidate match a target?  The name, or the class, or the id is  *)
(* enough; a class that is given must be the candidate's all the same.     *)
NameMatches(o, t) == object[o].name = t.name

Matches(o, t) ==
    /\ NameMatches(o, t) \/ Kind(o) = t.class \/ o = t.id
    /\ t.class \in {"", Kind(o)}

(* findMatchingObject, findChildren by name.                               *)
MatchingChildren(o, t) ==
    {c \in QtChildren(o) : Matches(c, t) /\ ~(~IsVisible(c) /\ IsA(c, Widgets))}
NamedBelow(o, t) ==
    IF t.name = NoName THEN {} ELSE {c \in QtBelow(o) : NameMatches(c, t)}

(* findQuickItemByObjectName: one that it may come to first.               *)
QuickHits(o, t) ==
    LET items == {c \in {o} \cup Below(o) : IsA(c, {"quick"})}
        hit(c) == c = t.id \/ NameMatches(c, t)
    IN  {c \in items : hit(c) /\ ~\E d \in (Above(c) \cap items) : hit(d)}

(* The windows: the search ends at a window that matches, or at one whose  *)
(* content matches, which is not reported, or whose items do.  Each window *)
(* gives what it finds and whether the search ends there.                  *)
InWindow(w, t) ==
    LET items == UNION {QuickHits(c, t) : c \in Children(ContentOf(w), {"quick"})} IN
    IF Matches(w, t) THEN {[found |-> {w}, ends |-> TRUE]}
    ELSE IF NamedBelow(w, t) # {}
         THEN {[found |-> NamedBelow(w, t), ends |-> FALSE]}
    ELSE IF Matches(ContentOf(w), t) THEN {[found |-> {}, ends |-> TRUE]}
    ELSE LET matching == {c \in items : Matches(c, t)} IN
         IF matching # {} THEN {[found |-> {c}, ends |-> TRUE] : c \in matching}
         ELSE {[found |-> {}, ends |-> FALSE]}

(* The windows come in any order.                                          *)
InWindows(t) ==
    LET ws == {a \in Objects : IsA(a, Windows)}
        results == UNION {InWindow(w, t) : w \in ws}
        passed == {r.found : r \in {x \in results : ~x.ends}}
        ending == {r \in results : r.ends}
    IN  IF ending = {} THEN {UNION passed}
        ELSE {r.found \cup UNION some : r \in ending, some \in SUBSET passed}

(* The widgets in any order: the first that gives something gives itself,  *)
(* or what is below it, or items of its scene; the others only themselves. *)
InWidget(w, t) ==
    LET below == IF t.name # NoName THEN NamedBelow(w, t) ELSE MatchingChildren(w, t)
        items == {i \in Below(w) : IsA(i, {"graphics"}) /\ IsVisible(i) /\ Matches(i, t)}
    IN  IF Matches(w, t) THEN {w}
        ELSE IF below # {} THEN below
        ELSE IF IsA(w, {"view"}) THEN items ELSE {}

InWidgets(t) ==
    LET ws == {a \in Objects : IsA(a, Widgets) /\ IsVisible(a)}
        own == {w \in ws : Matches(w, t)}
    IN  IF \A w \in ws : InWidget(w, t) = {} THEN {{}}
        ELSE {InWidget(w, t) \cup own : w \in {v \in ws : InWidget(v, t) # {}}}

(* searchForObject.                                                        *)
SearchForObject(t) ==
    LET found == InWindows(t) IN
    (found \ {{}}) \cup (IF {} \in found THEN InWidgets(t) ELSE {})

(* The objects of a target: the one of its id if the cache has it, else    *)
(* what is found, among all objects or below the parent's object.          *)
TargetObjects(c, t, under) ==
    IF t.id # NoObject /\ GetObject(c, t.id) # NoObject THEN {{t.id}}
    ELSE IF under = NoObject THEN SearchForObject(t)
    ELSE IF t.class = "*" /\ t.name = NoName THEN {{under}}
    ELSE LET named == NamedBelow(under, t)
             quick == IF IsA(under, {"quick"}) /\ t.name # NoName THEN QuickHits(under, t) ELSE {}
         IN  IF named # {} THEN {named}
             ELSE IF quick # {} THEN {{q} : q \in quick}
             ELSE IF t.class = "*" THEN {{}}
             ELSE IF MatchingChildren(under, t) # {} THEN {MatchingChildren(under, t)}
             ELSE SearchForObject(t)

(* addObjectDetails of a target without child: the objects themselves; of  *)
(* one with a child: what is found of the child below each of them, or all *)
(* that is below one that has no such child.                               *)
Details(c, t, under) ==
    IF t.child = <<>>
    THEN {IF t.class = "*" THEN Traversed(os) ELSE os : os \in TargetObjects(c, t, under)}
    ELSE UNION {
        LET child(o) == UNION {IF x = {} THEN {Traversed({o})}
                               ELSE IF t.child[1].class = "*" THEN {{o} \cup Traversed(x)}
                               ELSE {{o} \cup x} : x \in TargetObjects(c, t.child[1], o)}
        IN  {UNION {f[o] : o \in os} :
                 f \in {g \in [os -> UNION {child(o) : o \in os}] : \A o \in os : g[o] \in child(o)}}
        : os \in TargetObjects(c, t, under)}

-----------------------------------------------------------------------------
(* UiStateService, and what find_object falls back to: everything, under   *)
(* the filters of the first target's command, which are cleared at the end *)
(* of the traversal.                                                       *)
AllTold(command) == Identified(UiState, command)

TellAll(asked, command) ==
    LET told == AllTold(command) IN
    /\ cache' = Stored(NullsRemoved(cache), WithOthers(told, command))
    /\ known' = Told(told, Cells(told, command))
    /\ last' = [asked |-> asked, told |-> told]
    /\ UNCHANGED <<toolkit, object, created>>

UiStateRequest(command) == Begin /\ TellAll(<<>>, command) /\ UNCHANGED pending

(* FindObjectService: dead entries leave the cache, and the targets are    *)
(* gone through one by one.                                                *)
FindRequest(targets) ==
    /\ Begin
    /\ {targets[i].id : i \in DOMAIN targets} \ {NoObject}
          \subseteq {a \in Objects : known[a] # "none"}
    /\ cache' = NullsRemoved(cache)
    /\ pending' = [Idle EXCEPT !.service = "find", !.asked = targets, !.left = targets]
    /\ last' = Nothing
    /\ UNCHANGED <<toolkit, object, known, created>>

Finding(classes) ==
    /\ pending.service = "find" /\ pending.left # <<>>
    /\ Head(pending.left).class \in classes
    /\ UNCHANGED requests

(* The application is in every reply.                                      *)
FindApplication ==
    /\ Finding({"application"})
    /\ pending' = [pending EXCEPT !.left = Tail(@)]
    /\ UNCHANGED <<tree, last>>

(* A target of the virtual keyboard ends the search in another application. *)
FindKeyboard ==
    /\ Finding({"vkb"})
    /\ pending' = [pending EXCEPT !.left = <<>>]
    /\ UNCHANGED <<tree, last>>

(* A target that is found is told of under its own command's filters.      *)
FindTarget ==
    /\ Finding(Kinds \cup {""})
    /\ LET t == Head(pending.left) IN
       \E os \in Details(cache, t, NoObject) \ {{}} :
           LET told == Identified(os, t.command) IN
           /\ cache' = Stored(cache, WithOthers(told, t.command))
           /\ pending' = [pending EXCEPT !.left = Tail(@), !.told = @ \cup told,
                                         !.cells = @ \cup Cells(told, t.command)]
    /\ UNCHANGED <<toolkit, object, known, created, last>>

(* With one that is not found, or a wild card, everything is told instead. *)
FindAll ==
    /\ Finding(Kinds \cup {"", "*"})
    /\ \/ Head(pending.left).class = "*"
       \/ {} \in Details(cache, Head(pending.left), NoObject)
    /\ TellAll(pending.asked, pending.asked[1].command)
    /\ pending' = Idle

FindReply ==
    /\ pending.service = "find" /\ pending.left = <<>>
    /\ known' = Told(pending.told, pending.cells)
    /\ last' = [asked |-> pending.asked, told |-> pending.told]
    /\ pending' = Idle
    /\ UNCHANGED <<toolkit, object, cache, created, requests>>

-----------------------------------------------------------------------------
(* The find functions of TestabilityUtils: the cache first, if what it has *)
(* is of the kind that is asked for; else all objects of the kind, whose   *)
(* ids are made, and so stored, to be compared: an object is found that    *)
(* has the address now.                                                    *)
OfKind(c, id, kinds) ==
    IF GetObject(c, id) # NoObject /\ IsA(id, kinds) THEN [is |-> id, met |-> {}]
    ELSE [is |-> IF IsA(id, kinds) THEN id ELSE NoObject,
          met |-> {a \in Objects : IsA(a, kinds)}]

FindWidget(c, id) == OfKind(c, id, Widgets)
FindGraphicsItem(c, id) == OfKind(c, id, SceneItems)
FindQuickItem(c, id) == OfKind(c, id, {"quick"})
FindObject(c, id) == [is |-> GetObject(c, id), met |-> {}]

(* ViewItemHandler, a handler of UiCommandService: a cell of a tree, that   *)
(* the command names by the ids of the tree and its own.                   *)
FindTreeItem(c, id) ==
    LET trees == {v \in Objects : IsA(v, {"tree"}) /\ FindWidget(c, v).is = v} IN
    [is |-> IF \E v \in trees : id \in Below(v) THEN id ELSE NoObject, met |-> {}]

(* Mutant of Lookup: a standard view is a widget.                          *)
LookupWidgets(c, type, id) ==
    CASE type = "Graphics"    -> FindGraphicsItem(c, id)
      [] type = "QSceneGraph" -> FindQuickItem(c, id)
      [] type = "ViewItem"    -> FindTreeItem(c, id)
      [] type = "Standard"    -> FindWidget(c, id)
      [] OTHER                -> [is |-> NoObject, met |-> {}]

(* The object of a target's type and id.  A standard view may be an object *)
(* that is no widget, which only the cache knows.                          *)
Lookup(c, type, id) ==
    CASE type = "Graphics"    -> FindGraphicsItem(c, id)
      [] type = "QSceneGraph" -> FindQuickItem(c, id)
      [] type = "ViewItem"    -> FindTreeItem(c, id)
      [] type = "Standard" /\ FindWidget(c, id).is # NoObject -> FindWidget(c, id)
      [] type = "Standard" /\ FindWidget(c, id).is = NoObject ->
             [FindWidget(c, id) EXCEPT !.is = FindObject(c, id).is]
      [] OTHER                -> [is |-> NoObject, met |-> {}]

(* The tester names an object it was told of by the type it was told; of   *)
(* one that is gone it may have been any.                                  *)
Types == {"Graphics", "QSceneGraph", "Standard", "Window", "ViewItem"}
Commanded ==
    {[id |-> a, type |-> t] : a \in {b \in Objects : known[b] = "gone"}, t \in Types}
    \cup {[id |-> a, type |-> TypeOf(a)] : a \in {b \in Objects : known[b] = "this"}}

ObjectRequest(targets) ==
    /\ Begin
    /\ pending' = [Idle EXCEPT !.service = "object", !.left = targets]
    /\ last' = Nothing
    /\ UNCHANGED tree

(* The target is looked up when its turn comes.  A graphics item that is   *)
(* not found is used all the same, and the application crashes.            *)
ObjectTarget ==
    /\ pending.service = "object" /\ pending.left # <<>> /\ pending.target = NoObject
    /\ LET t == Head(pending.left)
           found == Lookup(cache, t.type, t.id)
       IN  /\ cache' = Stored(Looked(cache, t.id), found.met)
           /\ pending' = IF t.type = "Graphics" /\ found.is = NoObject
                          THEN [Idle EXCEPT !.service = "crashed"]
                          ELSE [pending EXCEPT !.left = Tail(@), !.target =
                                    IF IsA(found.is, {"item"}) THEN NoObject ELSE found.is]
    /\ UNCHANGED <<toolkit, object, known, created, last, requests>>

(* The commands of a target are performed one after the other on the       *)
(* pointer that was found: a property is set, or a method called, which    *)
(* may change or destroy any object, its own as well.                      *)
ObjectCommand ==
    /\ pending.target # NoObject
    /\ AppStep \/ UNCHANGED tree
    /\ \E more \in BOOLEAN :
           pending' = [pending EXCEPT
               !.target = IF more THEN @ ELSE NoObject,
               !.lost = more /\ (@ \/ object'[pending.target].kind = "none")]
    /\ UNCHANGED <<last, requests>>

(* A command after the one that destroyed the target uses memory that was  *)
(* freed: it may still do something, as above, or be the end.              *)
ObjectCrash ==
    /\ pending.lost
    /\ pending' = [Idle EXCEPT !.service = "crashed"]
    /\ UNCHANGED <<tree, last, requests>>

ObjectReply ==
    /\ pending.service = "object" /\ pending.left = <<>> /\ pending.target = NoObject
    /\ pending' = Idle
    /\ UNCHANGED <<tree, last, requests>>

-----------------------------------------------------------------------------
(* The application by itself, between requests.                            *)
Application ==
    /\ pending = Idle
    /\ AppStep
    /\ last' = Nothing
    /\ UNCHANGED <<pending, requests>>

TesterNext ==
    \/ \E command \in Commands : UiStateRequest(command)
    \/ \E targets \in FindRequests : FindRequest(targets)
    \/ \E n \in 1..MaxTargets : \E targets \in [1..n -> Commanded] : ObjectRequest(targets)

PluginNext ==
    \/ FindApplication \/ FindKeyboard \/ FindTarget \/ FindAll \/ FindReply
    \/ ObjectTarget \/ ObjectCommand \/ ObjectCrash \/ ObjectReply

Next == Application \/ TesterNext \/ PluginNext

Spec == Init /\ [][Next]_vars

-----------------------------------------------------------------------------
(* An id that the tester was given for an object that still exists leads   *)
(* to this object, whatever was created and destroyed since: both when a   *)
(* command names it by the type it was told of, and in find_object.  (A    *)
(* window is not supported by commands, of cells only those of a tree.)    *)
IdIsGood ==
    \A a \in Objects :
        known[a] = "this" =>
            /\ Live(a)
            /\ \/ TypeOf(a) \in {"Window", "ViewItem"} /\ ~TreeCell(a)
               \/ Lookup(cache, TypeOf(a), a).is = a
            /\ IsA(a, Bare) \/ GetObject(cache, a) = a

(* However old the ids of a request are, and whatever the methods that its *)
(* earlier targets call destroy, the pointer that a command is performed   *)
(* on is that of a live object; it is stale only after a command of the    *)
(* same target has destroyed it, since the target is looked up once.       *)
ActsOnLive == pending.target # NoObject => Live(pending.target) \/ pending.lost

(* An object that the ui state has under the name that find_object asks    *)
(* for is found: the reply has an object of this name.                     *)
NameFound ==
    \A t \in {last.asked[i] : i \in DOMAIN last.asked} :
        (/\ Len(last.asked) = 1
         /\ t.id = NoObject /\ t.class = "" /\ t.name # NoName /\ t.command = NoCommand
         /\ \E a \in UiState : object[a].name = t.name)
            => \E a \in last.told : object[a].name = t.name
=============================================================================
