---------------------------- MODULE PropertyLogger ----------------------------
(***************************************************************************)
(* TasPropertyLogger, which writes the values of properties to files at    *)
(* every tick of its timer, as the plugin's "tas" fixture asks it to.  The *)
(* objects are kept by their addresses.  The class of every target is      *)
(* taken to be its own: objects of one class would share a file.           *)
(***************************************************************************)
EXTENDS Widgets, Functions

CONSTANT Properties

VARIABLES logged,   \* mTargets: the files of an address, "open" or "deleted"
          ticking   \* mTimer is active

properties == <<logged, ticking>>

PropertyInit == logged = <<>> /\ ticking = FALSE

IsLogged(t, p) == t \in DOMAIN logged /\ p \in DOMAIN logged[t]

(* A file that was deleted is taken for one that is open.                  *)
StartPropertyLog(t, p, opens) ==
    LET files == IF t \in DOMAIN logged THEN logged[t] ELSE <<>> IN
    /\ IF t \in alive /\ (opens \/ IsLogged(t, p))
       THEN /\ logged' = With(logged, t, IF IsLogged(t, p) THEN files
                                        ELSE With(files, p, "open"))
            /\ ticking' = TRUE
       ELSE UNCHANGED properties
    /\ CrashIf(CastCrashes(t))

(* The results are read from the file, which is emptied or not.            *)
GetLogData(t, p) ==
    /\ CrashIf(CastCrashes(t) \/ (t \in alive /\ IsLogged(t, p) /\ logged[t][p] = "deleted"))
    /\ UNCHANGED properties

(* Mutant of LeftLogged: nothing is forgotten.                             *)
LeftLoggedAlways(t, p) == [logged EXCEPT ![t][p] = "deleted"]

(* The file is taken from a copy of the map: it is only forgotten with the *)
(* object, when it was the last.                                           *)
LeftLogged(t, p) ==
    IF DOMAIN logged[t] = {p} THEN Restrict(logged, DOMAIN logged \ {t})
    ELSE [logged EXCEPT ![t][p] = "deleted"]

StopLogProperty(t, p) ==
    LET crashes == IsLogged(t, p) /\ logged[t][p] = "deleted" IN
    /\ CrashIf(CastCrashes(t) \/ (t \in alive /\ crashes))
    /\ logged' = IF t \in alive /\ IsLogged(t, p) /\ ~crashes THEN LeftLogged(t, p) ELSE logged
    /\ UNCHANGED ticking

(* The timer goes on without anything to log.                              *)
LogTimerEvent ==
    /\ ticking
    /\ CrashIf(\E t \in DOMAIN logged : t \notin alive \/ "deleted" \in Range(logged[t]))
    /\ UNCHANGED properties

PropertyExecute(r) ==
    \/ /\ r.method = "logProperty"
       /\ \E opens \in BOOLEAN : StartPropertyLog(r.target, r.what, opens)
    \/ r.method = "logPropertyResults" /\ GetLogData(r.target, r.what)
    \/ r.method = "stopLogProperty"    /\ StopLogProperty(r.target, r.what)

PropertyTypes ==
    /\ DOMAIN logged \subseteq Targets
    /\ \A t \in DOMAIN logged : /\ DOMAIN logged[t] \subseteq Properties
                               /\ Range(logged[t]) \subseteq {"open", "deleted"}
    /\ ticking \in BOOLEAN

-----------------------------------------------------------------------------
(* A file that was deleted is only kept beside another of its object: who  *)
(* stops the one property that is logged of an object is rid of both.      *)
(* (TasPropertyLogger::stopLogger.)                                        *)
LogsAreOpen ==
    \A t \in DOMAIN logged : \A p \in DOMAIN logged[t] :
        logged[t][p] = "open" \/ DOMAIN logged[t] # {p}
=============================================================================
