----------------------------- MODULE TouchPoints -----------------------------
(***************************************************************************)
(* TasTouchEventGenerator: the ids it gives to touch points, one point for *)
(* each item.  The id of the point down on an item is kept in a property   *)
(* of the application until the item is released; new ids come from a      *)
(* counter that all handlers share and that any release resets.            *)
(* The property holds a list; with one point for each item it has one id.  *)
(***************************************************************************)
EXTENDS Naturals, Sequences, SequencesExt, FiniteSets

CONSTANT Items   \* what can be touched: objects, or objects with coordinates

(* The generator: its counter, and the id kept for each item, 0 for none.  *)
NoTouch == [counter |-> 0, id |-> [i \in Items |-> 0]]

Kept(g, i) == g.id[i] # 0

IdFor(g, i) == IF Kept(g, i) THEN g.id[i] ELSE g.counter + 1

(* The point of an event, as the application is given it.                  *)
Point(g, i) == <<i, IdFor(g, i) - 1>>

(* Mutant of Touched: the id is not kept.                                  *)
TouchedUnkept(g, i) ==
    [counter |-> IF Kept(g, i) THEN g.counter ELSE g.counter + 1, id |-> g.id]

(* convertToTouchPoints for a press or a move.                             *)
Touched(g, i) ==
    [counter |-> IF Kept(g, i) THEN g.counter ELSE g.counter + 1,
     id |-> [g.id EXCEPT ![i] = IdFor(g, i)]]

(* convertToTouchPoints for a release.                                     *)
Released(g, i) == [counter |-> 0, id |-> [g.id EXCEPT ![i] = 0]]

-----------------------------------------------------------------------------
(* The same for the items of a multi-touch interaction, which come in the  *)
(* order of a hash table: in any.  The points, and the generator after it. *)
PressAll(g, is) ==
    LET new == {i \in is : ~Kept(g, i)} IN
    {[points |-> {<<i, id[i] - 1>> : i \in is},
      after  |-> [counter |-> g.counter + Cardinality(new), id |-> id]] :
        id \in {[i \in Items |-> IF i \in new THEN g.counter + rank[i] ELSE g.id[i]] :
                    rank \in Bijection(new, 1..Cardinality(new))}}

(* The counter is reset by the first of them.                              *)
ReleaseAll(g, is) ==
    LET id(i, first) == IF Kept(g, i) THEN g.id[i] ELSE IF i = first THEN g.counter + 1 ELSE 1
    IN  IF is = {} THEN {[points |-> {}, after |-> g]}
        ELSE {[points |-> {<<i, id(i, first) - 1>> : i \in is},
               after  |-> [counter |-> 0,
                           id |-> [i \in Items |-> IF i \in is THEN 0 ELSE g.id[i]]]] :
                 first \in is}
=============================================================================
