--------------------------- MODULE MCObjectServices ---------------------------
(***************************************************************************)
(* ObjectServices and WebKit for TLC.  Applications of nine toolkits with  *)
(* few objects, addresses that are used again, and find_object requests by *)
(* id, by name, by class, with a child and with a wild card; applications  *)
(* with a few pages.  The services have nothing in common but the tester,  *)
(* who asks for objects or for pages in a behaviour.                       *)
(***************************************************************************)
EXTENDS ObjectServices, WebKit, TLC

CONSTANT n

VARIABLE asksFor

MCToolkits == {{"window", "quickview", "quick", "object"}, {"dialog", "action"},
               {"widget", "object"}, {"itemview"}, {"view", "graphics", "item"},
               {"tree", "cell"}, {"list", "cell"}, {"table", "cell"}, {"widget", "layout"}}

Filtering == [pluginWhite |-> {"scenegraphtraverser"}, pluginBlack |-> {},
              white |-> {"text"}, black |-> {}]
MCCommands == {NoCommand, Filtering}

Wanted == [id |-> NoObject, name |-> NoName, class |-> "", child |-> <<>>, command |-> NoCommand]
ByName == [Wanted EXCEPT !.name = n]

MCFindRequests ==
    {<<[Wanted EXCEPT !.id = a]>> : a \in Objects}
    \cup {<<ByName>>, <<[Wanted EXCEPT !.class = "*"]>>,
          <<[Wanted EXCEPT !.class = "application"],
            [Wanted EXCEPT !.class = "widget", !.command = Filtering]>>,
          <<[Wanted EXCEPT !.class = "quick", !.child = <<ByName>>]>>,
          <<ByName, [Wanted EXCEPT !.class = "vkb"], ByName>>}

Alike == Permutations(Objects) \cup Permutations(Frames)

MCInit ==
    /\ asksFor \in {"objects", "pages"}
    /\ Init /\ PagesInit
    /\ asksFor = "pages" => toolkit = {"widget", "object"}

MCNext ==
    /\ UNCHANGED asksFor
    /\ \/ asksFor = "objects" /\ Next /\ UNCHANGED web
       \/ asksFor = "pages" /\ PagesNext /\ UNCHANGED vars

MCSpec == MCInit /\ [][MCNext]_<<vars, web, asksFor>>
=============================================================================
