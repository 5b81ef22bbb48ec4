-------------------------- MODULE MCUiCommandService --------------------------
(***************************************************************************)
(* UiCommandService for TLC: a tap of two targets, one of which is missing, *)
(* a press and a move on the item that is tapped, a multi-touch tap of that *)
(* item together with the release of another one, a multi-touch press of   *)
(* the latter and a tap of it, read in any order and while any of the      *)
(* others is being performed.                                              *)
(***************************************************************************)
EXTENDS UiCommandService, TLC

CONSTANTS two, press, tap, multi1, multi2, t1, t2, t3, t4, t5, t6, t7

MCTargets == (two :> <<t1, t2>>) @@ (press :> <<t3>>) @@ (tap :> <<t7>>)
             @@ (multi1 :> <<t4, t5>>) @@ (multi2 :> <<t6>>)
MCItemOf == [t \in {t1, t2, t3, t4, t5, t6, t7} |->
                 CASE t \in {t3, t4} -> t1 [] t \in {t6, t7} -> t5 [] OTHER -> t]
MCTouches == (t3 :> <<"press", "move">>)
             @@ (t5 :> <<"release">>) @@ (t6 :> <<"press">>)
             @@ [t \in {t1, t2, t4, t7} |-> <<"press", "release">>]
=============================================================================
