----------------------------- MODULE PopupFixture -----------------------------
(***************************************************************************)
(* PopupFixture waits for widgets of a class to be shown and keeps the     *)
(* user interface state of some time later, for the tester to read.        *)
(***************************************************************************)
EXTENDS Widgets, FiniteSets

CONSTANT Classes      \* the names that are waited for

VARIABLES classNames, \* mClassNames: those still waited for
          filtering,  \* mFiltering
          popupTimers,\* popupTimers[c]: PopupTimers that run
          popupData   \* mPopupData: the names that have data

popups == <<classNames, filtering, popupTimers, popupData>>

PopupInit ==
    classNames = {} /\ filtering = FALSE /\ popupTimers = [c \in Classes |-> 0] /\ popupData = {}

WaitPopup(c) ==
    /\ classNames' = classNames \cup {c}
    /\ filtering' = TRUE
    /\ UNCHANGED <<popupTimers, popupData, application>>

StillFiltering(left) == filtering /\ left # {}

(* The data of a name goes with what is waited for by it since.            *)
PrintPopup(c) ==
    /\ popupData' = popupData \ {c}
    /\ classNames' = IF c \in popupData THEN classNames \ {c} ELSE classNames
    /\ filtering' = StillFiltering(classNames')
    /\ UNCHANGED <<popupTimers, application>>

(* A widget that fits several names is taken for one of them.              *)
PopupShown(fits) ==
    /\ filtering
    /\ \E c \in fits \cap classNames :
           /\ popupTimers' = [popupTimers EXCEPT ![c] = @ + 1]
           /\ classNames' = classNames \ {c}
    /\ UNCHANGED <<filtering, popupData, application>>

(* Data that was not read is not replaced.                                 *)
PopupTimeout(c) ==
    /\ popupTimers[c] > 0
    /\ popupTimers' = [popupTimers EXCEPT ![c] = @ - 1]
    /\ popupData' = popupData \cup {c}
    /\ UNCHANGED <<classNames, filtering, application>>

PopupExecute(r) ==
    \/ r.method = "waitPopup"  /\ WaitPopup(r.what)
    \/ r.method = "printPopup" /\ PrintPopup(r.what)

PopupStep ==
    \/ \E fits \in SUBSET Classes : PopupShown(fits)
    \/ \E c \in Classes : PopupTimeout(c)

PopupTypes ==
    /\ classNames \subseteq Classes /\ popupData \subseteq Classes
    /\ popupTimers \in [Classes -> Nat] /\ filtering \in BOOLEAN

-----------------------------------------------------------------------------
(* What is waited for will be seen: whatever was read or shown in between, *)
(* the application's events are watched while a name is left               *)
(* (PopupFixture::execute).                                                *)
AwaitedIsWatched == classNames # {} => filtering
=============================================================================
