------------------------------- MODULE WebKit -------------------------------
(***************************************************************************)
(* Web pages inside an application.  WebKitTraverse tells the tester of    *)
(* the elements of the pages in a UI state; WebkitCommandService looks for *)
(* the frame or the element that a command is for, and scrolls it or runs  *)
(* a script on it.  Nothing is kept between the two but ids: the address   *)
(* of a frame, and for an element a hash of its text and its frame's id.   *)
(* Two texts are taken never to have the same hash.                        *)
(*                                                                         *)
(* A tree is the sequence of its nodes in document order, each with its    *)
(* depth, since all functions of both classes that call themselves do so   *)
(* in this order.  The text of a node stands for its tag, its attributes   *)
(* and its own text.  What a script does to a page is the application's    *)
(* to do, like every change of a page.                                     *)
(***************************************************************************)
EXTENDS Integers, SequencesExt, FiniteSets, FiniteSetsExt

CONSTANTS Frames,     \* addresses of QWebFrames, or of a WebChromeItem
          NoFrame,
          Texts,      \* of elements; a query asks for one of them, or for
                      \* the element that is visited as the n-th
          NoWidth, NoHeight, Outside,  \* the texts of elements drawn so
          Holders,    \* among QWebView, QGraphicsWebView, WebChromeItem,
                      \* and the former two inside another widget
          MaxElements,\* bound: elements of all pages
          MaxNumber,  \* bound: the number of an element a query asks for,
          MaxIndex    \* and which of those that match it takes

ASSUME PagesAssumption ==
    /\ IsFiniteSet(Frames)
    /\ MaxElements \in Nat /\ MaxNumber \in Nat /\ MaxIndex \in Nat

VARIABLES frames,     \* the tree of frames, main frames at depth 0
          document,   \* document[f]: the tree of the elements of f
          errorMessage, \* mErrorMessage: of the latest command that failed
          response    \* to the latest command, until the tester has it

pages == <<frames, document>>
web == <<frames, document, errorMessage, response>>

(* What a command runs on is a frame, by its place, and an element of it.  *)
NoPlace == <<0, 0>>
NoResponse == [request |-> [name |-> "none"], on |-> NoPlace, ok |-> FALSE]

PagesInit ==
    /\ frames = <<>>
    /\ document = [f \in Frames |-> <<>>]
    /\ errorMessage = ""
    /\ response = NoResponse

-----------------------------------------------------------------------------
(* The nodes below the i-th, those it is below, and all of that in order.  *)
NodesBelow(tree, i) ==
    {j \in DOMAIN tree : j > i /\ \A k \in (i + 1)..j : tree[k].depth > tree[i].depth}

NodesAbove(tree, i) == {j \in DOMAIN tree : i \in NodesBelow(tree, j)}

Subtree(tree, i) == [k \in 1..(Cardinality(NodesBelow(tree, i)) + 1) |-> i + k - 1]

Main(p) == CHOOSE m \in {p} \cup NodesAbove(frames, p) : frames[m].depth = 0

OuterXml(tree, i) ==
    [k \in DOMAIN Subtree(tree, i) |->
        <<tree[i + k - 1].depth - tree[i].depth, tree[i + k - 1].text>>]

ElementId(f, i) == <<OuterXml(document[f], i), f>>

-----------------------------------------------------------------------------
(* A QWebView, or the QGraphicsView of a QGraphicsWebView, may be a window *)
(* or inside another widget.                                               *)
GraphicsHolders == {"QGraphicsWebView", "NestedGraphicsWebView"}
NestedHolders == {"NestedWebView", "NestedGraphicsWebView"}

-----------------------------------------------------------------------------
(* WebKitTraverse                                                          *)

(* What is told of every element, as far as the filter lets it through.    *)
ElementAttributes ==
    {"webFrame", "x", "y", "x_absolute", "y_absolute", "width", "height",
     "objectType", "visible", "hasFocus", "innerText", "elementText"}

AttributeIncluded(filter, name) == name \in filter

(* Outside a graphics view the width is taken for the height.  It does not *)
(* depend on the filter, unlike the attributes of a frame.                 *)
HeightIsZero(holder, text) ==
    text \in IF holder \in GraphicsHolders THEN NoHeight ELSE NoWidth

Discarded(p, i, crop) ==
    LET text == document[frames[p].frame][i].text IN
    \/ crop /\ text \in Outside
    \/ HeightIsZero(frames[Main(p)].holder, text)

(* An element that is discarded takes all below it with it.  The rectangle *)
(* for a WebChromeItem is the one of the page before.                      *)
Reported(p, crop) ==
    LET tree == document[frames[p].frame] IN
    {i \in DOMAIN tree : \A j \in {i} \cup NodesAbove(tree, i) : ~Discarded(p, j, crop)}

Tells(p, i, filter) ==
    [id |-> ElementId(frames[p].frame, i),
     frame |-> IF AttributeIncluded(filter, "webFrame") THEN frames[p].frame ELSE NoFrame]

TraverseFrame(p, crop, filter) == {Tells(p, i, filter) : i \in Reported(p, crop)}

TraverseObject(crop, filter) ==
    UNION {TraverseFrame(p, crop, filter) : p \in DOMAIN frames}

-----------------------------------------------------------------------------
(* WebkitCommandService                                                    *)

Listed(m) ==
    /\ frames[m].depth = 0
    /\ \/ frames[m].holder \in {"QWebView", "NestedWebView"}
       \/ frames[m].holder \in GraphicsHolders /\ frames[m].visible

ListedViews == {m \in DOMAIN frames : Listed(m)}
NestedViews == {m \in ListedViews : frames[m].holder \in NestedHolders}

(* The n-th of some numbers, if there is one.                              *)
Nth(S, n) == {k \in S : Cardinality({j \in S : j <= k}) = n}
Ascending(S) == [n \in 1..Cardinality(S) |-> CHOOSE k \in S : k \in Nth(S, n)]

(* traverseStart: from each widget, in any order, the main frames in it,   *)
(* of itself or of its descendants.  0 is a window around the views that   *)
(* are nested: these are listed twice.                                     *)
ReachedFrom(w) == IF w = 0 THEN Ascending(NestedViews) ELSE <<w>>

MainFrameLists ==
    {FlattenSeq([k \in DOMAIN order |-> ReachedFrom(order[k])]) :
        order \in SetToSeqs({0} \cup ListedViews)}

(* A walk from the main frames of a list: the frames it visits, and the    *)
(* elements it passes, each time it passes them.                           *)
ElementsOf(p) == [i \in DOMAIN document[frames[p].frame] |-> <<p, i>>]

WalkFrom(list) ==
    LET visited == FlattenSeq([k \in DOMAIN list |-> Subtree(frames, list[k])]) IN
    [list |-> list, visited |-> ToSet(visited),
     elements |-> FlattenSeq([k \in DOMAIN visited |-> ElementsOf(visited[k])])]

Walks == {WalkFrom(list) : list \in MainFrameLists}

FindFrame(visited, f) == {p \in visited : frames[p].frame = f}

(* The search starts at the children of the document's element.            *)
LookForWebElement(f, id) ==
    {i \in DOMAIN document[f] : document[f][i].depth > 0 /\ ElementId(f, i) = id}

ExecuteOnWebElement(walk, c) ==
    {<<p, Min(LookForWebElement(c.frame, c.id))>> :
        p \in {q \in FindFrame(walk.visited, c.frame) : LookForWebElement(c.frame, c.id) # {}}}

(* What is said is what failed in the last main frame of the list.         *)
MessageOnWebElement(list, c) ==
    IF list = <<>> THEN errorMessage
    ELSE IF FindFrame({Last(list)} \cup NodesBelow(frames, Last(list)), c.frame) # {}
         THEN "WebElement: element" ELSE "WebElement: frame"

(* A query goes through the frames it is for, all of them if it names      *)
(* none.  Their elements are numbered on from frame to frame.              *)
IsFor(f, p) == f \in {NoFrame, frames[p].frame}

Candidates(walk, f) == {k \in DOMAIN walk.elements : IsFor(f, walk.elements[k][1])}

Fits(e, query) == document[frames[e[1]].frame][e[2]].text = query

(* Mutant of Matching: the elements of one frame are not counted for the   *)
(* next.                                                                   *)
MatchingInFirst(walk, c) ==
    LET all == Candidates(walk, c.frame) IN
    {k \in all : /\ walk.elements[k][1] = walk.elements[Min(all)][1]
                 /\ Fits(walk.elements[k], c.query)}

Matching(walk, c) ==
    LET all == Candidates(walk, c.frame) IN
    IF c.query \in Texts THEN {k \in all : Fits(walk.elements[k], c.query)}
    ELSE Nth(all, c.query)

(* The index takes one of those that match, counting from 0.               *)
Index(c) == IF c.index = -1 THEN 0 ELSE c.index

ExecuteByQuery(walk, c) ==
    {walk.elements[k] : k \in Nth(Matching(walk, c), Index(c) + 1)}

MessageByQuery(list) == IF list = <<>> THEN errorMessage ELSE "WebElement: element"

OnFrame(walk, c) == {<<p, 0>> : p \in FindFrame(walk.visited, c.frame)}

(* What a command runs on, and what is said when it is nothing.            *)
Answer(walk, c) ==
    CASE c.name = "ScrollQWebFrame" ->
             [on |-> OnFrame(walk, c), message |-> "Scroll"]
      [] c.name = "ExecuteJavaScriptOnQWebFrame" ->
             [on |-> OnFrame(walk, c), message |-> "QWebFrame"]
      [] c.name = "ExecuteJavaScriptOnWebElement" ->
             [on |-> ExecuteOnWebElement(walk, c),
              message |-> MessageOnWebElement(walk.list, c)]
      [] c.name = "locator_query" ->
             [on |-> ExecuteByQuery(walk, c), message |-> MessageByQuery(walk.list)]

(* Only the first command of a request is performed.                       *)
ExecuteService(walk, c) ==
    /\ LET a == Answer(walk, c) IN
       /\ errorMessage' = IF a.on = {} THEN a.message ELSE errorMessage
       /\ response' = [request |-> c, ok |-> a.on # {},
                       on |-> IF a.on = {} THEN NoPlace ELSE CHOOSE x \in a.on : TRUE]
    /\ UNCHANGED pages

(* A command that is unknown is a success; a request without any is none.  *)
ExecuteNothing(unknown) ==
    /\ response' = [request |-> NoResponse.request, on |-> NoPlace, ok |-> unknown]
    /\ UNCHANGED <<pages, errorMessage>>

-----------------------------------------------------------------------------
(* The application: its pages are loaded, shown and changed by scripts.    *)
FreeFrames == Frames \ {frames[p].frame : p \in DOMAIN frames}

AddView(f, holder) ==
    /\ f \in FreeFrames
    /\ frames' = Append(frames, [frame |-> f, depth |-> 0, holder |-> holder, visible |-> TRUE])
    /\ UNCHANGED document

(* A frame in the view that was added last: an item of WebChrome has none. *)
AddFrame(f, depth) ==
    /\ f \in FreeFrames
    /\ frames # <<>>
    /\ frames[Main(Len(frames))].holder # "WebChromeItem"
    /\ depth <= Last(frames).depth + 1
    /\ frames' = Append(frames, [Last(frames) EXCEPT !.frame = f, !.depth = depth])
    /\ UNCHANGED document

Cut(tree, i) ==
    LET size == Cardinality(NodesBelow(tree, i)) IN
    SubSeq(tree, 1, i - 1) \o SubSeq(tree, i + size + 1, Len(tree))

RemoveFrame(p) ==
    LET gone == {frames[q].frame : q \in {p} \cup NodesBelow(frames, p)} IN
    /\ frames' = Cut(frames, p)
    /\ document' = [f \in Frames |-> IF f \in gone THEN <<>> ELSE document[f]]

HideOrShow(m) ==
    /\ frames[m].depth = 0 /\ frames[m].holder \in GraphicsHolders
    /\ frames' = [q \in DOMAIN frames |->
                     IF Main(q) = m THEN [frames[q] EXCEPT !.visible = ~@] ELSE frames[q]]
    /\ UNCHANGED document

AddElement(f, depth, text) ==
    LET tree == document[f] IN
    /\ f \notin FreeFrames
    /\ FoldSet(LAMBDA g, n : Len(document[g]) + n, 0, Frames) < MaxElements
    /\ IF tree = <<>> THEN depth = 0 ELSE depth \in 1..(Last(tree).depth + 1)
    /\ document' = [document EXCEPT ![f] =
                       Append(@, [depth |-> depth, text |-> text])]
    /\ UNCHANGED frames

Rewrite(f, i, text) ==
    /\ document' = [document EXCEPT ![f][i].text = text]
    /\ UNCHANGED frames

RemoveElement(f, i) ==
    /\ document' = [document EXCEPT ![f] = Cut(@, i)]
    /\ UNCHANGED frames

PagesChange ==
    /\ \/ \E f \in Frames, h \in Holders : AddView(f, h)
       \/ \E f \in Frames, depth \in 1..Cardinality(Frames) : AddFrame(f, depth)
       \/ \E p \in DOMAIN frames : RemoveFrame(p)
       \/ \E m \in DOMAIN frames : HideOrShow(m)
       \/ \E f \in Frames, depth \in 0..MaxElements, text \in Texts :
              AddElement(f, depth, text)
       \/ \E f \in Frames : \E i \in DOMAIN document[f] :
              RemoveElement(f, i) \/ \E text \in Texts : Rewrite(f, i, text)
    /\ UNCHANGED <<errorMessage, response>>

(* What the tester asks for: an element that a UI state tells of, or one   *)
(* that has changed since.                                                 *)
Stale == [id |-> <<>>, frame |-> NoFrame]

ToldElements ==
    {Stale} \cup UNION {TraverseObject(crop, filter) : crop \in BOOLEAN,
                         filter \in {ElementAttributes, ElementAttributes \ {"webFrame"}}}

PageCommands ==
    [name : {"ScrollQWebFrame", "ExecuteJavaScriptOnQWebFrame"}, frame : Frames]
    \cup {[name |-> "ExecuteJavaScriptOnWebElement", frame |-> t.frame, id |-> t.id] : t \in ToldElements}
    \cup [name : {"locator_query"}, frame : Frames \cup {NoFrame},
          query : Texts \cup 1..MaxNumber, index : {-1} \cup 1..MaxIndex]

Respond ==
    /\ response' = NoResponse
    /\ UNCHANGED <<pages, errorMessage>>

(* A response is looked at with the pages that it was made of.             *)
PagesNext ==
    \/ response = NoResponse /\ PagesChange
    \/ response = NoResponse /\ \E walk \in Walks : \E c \in PageCommands : ExecuteService(walk, c)
    \/ response = NoResponse /\ \E unknown \in BOOLEAN : ExecuteNothing(unknown)
    \/ response # NoResponse /\ Respond

PagesSpec == PagesInit /\ [][PagesNext]_web

-----------------------------------------------------------------------------
(* Every element that a UI state tells of is found by its id in the frame  *)
(* it is told to be in, however deep both are (lookForWebFrame and         *)
(* lookForWebElement).  A document's own element, the items of WebChrome   *)
(* and the views that are hidden are told of, but not looked for.          *)
LookedFor(t) ==
    \E p \in DOMAIN frames : \E i \in 2..Len(document[frames[p].frame]) :
        Listed(Main(p)) /\ Tells(p, i, ElementAttributes) = t

ToldIsFound ==
    \A t \in TraverseObject(FALSE, ElementAttributes) :
        (/\ response.request.name = "ExecuteJavaScriptOnWebElement"
         /\ response.request.id = t.id /\ response.request.frame = t.frame
         /\ LookedFor(t)) => response.ok

(* With one view, or with the frame named, a query runs on the element it  *)
(* asks for, in document order over all frames; beyond the last one there  *)
(* is an error, but for nested views, which are counted again              *)
(* (traverseJavaScriptToWebElement, "consume index").                      *)
AskedFor(c) ==
    {e \in UNION {{p} \X DOMAIN document[frames[p].frame] : p \in DOMAIN frames} :
        Listed(Main(e[1])) /\ IsFor(c.frame, e[1]) /\ Fits(e, c.query)}

UpTo(e, d) == d[1] < e[1] \/ (d[1] = e[1] /\ d[2] <= e[2])

IndexCounts ==
    LET c == response.request IN
    (/\ c.name = "locator_query" /\ c.query \in Texts
     /\ c.frame # NoFrame \/ Cardinality(ListedViews) = 1) =>
        IF Index(c) < Cardinality(AskedFor(c))
        THEN /\ response.on \in AskedFor(c)
             /\ Cardinality({d \in AskedFor(c) : UpTo(response.on, d)}) = Index(c) + 1
        ELSE NestedViews # {} \/ ~response.ok

(* An error is about the command it answers and not about an earlier one   *)
(* (mErrorMessage).  It is only where no page is listed, and a command for *)
(* an element so comes to no frame, that it is what an earlier one left.   *)
About(name) ==
    CASE name = "ScrollQWebFrame" -> {"Scroll"}
      [] name = "ExecuteJavaScriptOnQWebFrame" -> {"QWebFrame"}
      [] OTHER -> {"WebElement: frame", "WebElement: element"}

ForElement(name) == name \in {"ExecuteJavaScriptOnWebElement", "locator_query"}

MessageIsOfCommand ==
    LET name == response.request.name IN
    name # "none" /\ ~response.ok =>
        errorMessage \in About(name) \/ (ForElement(name) /\ ListedViews = {})

(* The searches of the traverser and of the service agree in what there    *)
(* is, in its order, and, where there is a page, in what to say when it is *)
(* not there (WebkitCommandService::executeService).                       *)
PagesServed == ToldIsFound /\ IndexCounts /\ MessageIsOfCommand
=============================================================================
