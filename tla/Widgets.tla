------------------------------- MODULE Widgets -------------------------------
(***************************************************************************)
(* The widgets of an application that the tools of the testability plugin  *)
(* hold pointers to.  The application creates and destroys them as it      *)
(* likes, and a new one may get the address of one that is destroyed:      *)
(* life[t] counts those that have had the address t.                       *)
(***************************************************************************)
EXTENDS Integers

CONSTANTS Targets,       \* addresses of widgets
          GraphicsItems, \* those of them that are no QWidgets
          MaxLives       \* widgets that have one address after each other

VARIABLES alive,    \* the addresses that have a widget now
          life,     \* life[t]: how many have had it
          crashed   \* the application did not survive

application == <<alive, life, crashed>>

WidgetsInit ==
    /\ alive = Targets
    /\ life = [t \in Targets |-> 1]
    /\ crashed = FALSE

Close(t) ==
    /\ t \in alive
    /\ alive' = alive \ {t}
    /\ UNCHANGED <<life, crashed>>

Open(t) ==
    /\ t \notin alive /\ life[t] < MaxLives
    /\ alive' = alive \cup {t}
    /\ life' = [life EXCEPT ![t] = @ + 1]
    /\ UNCHANGED crashed

(* The life that something is installed in, or connected to, ends with it. *)
StillLives(t, l) == t \in alive /\ life[t] = l

(* What a tool keeps of an address, or a name, replaces what it kept.      *)
With(f, k, v) == [x \in DOMAIN f \cup {k} |-> IF x = k THEN v ELSE f[x]]

CrashIf(c) == crashed' = (crashed \/ c) /\ UNCHANGED <<alive, life>>

(* castToObject of two fixtures: the pointer to a graphics item that is    *)
(* not found is used.                                                      *)
CastCrashes(t) == t \in GraphicsItems /\ t \notin alive
=============================================================================
