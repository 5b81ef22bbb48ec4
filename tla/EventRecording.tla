---------------------------- MODULE EventRecording ----------------------------
(***************************************************************************)
(* EventService, whose TasEventFilters record the events of an object or   *)
(* of the whole application or wait for those of one object, and           *)
(* RecorderService, which records the mouse events of all widgets.         *)
(*                                                                         *)
(* A filter is kept by the id of its object, which is its address, and     *)
(* holds a pointer to it: it survives the object.                          *)
(***************************************************************************)
EXTENDS Widgets, Sequences, SequencesExt, Functions

CONSTANTS EventNames,    \* what a widget may get
          MouseEvents,   \* those of the mouse
          App,           \* the application as a target
          NoTrack,       \* no object is waited for
          EventRequests  \* what is asked of the services: command, target, listens, track

ASSUME EventAssumption == \A r \in EventRequests :
    /\ r.target \in Targets \cup {App}
    /\ r.listens \subseteq EventNames \cup {"ALL"} /\ r.track \in Targets \cup {NoTrack}

VARIABLES filters,       \* mEventFilters
          recorder,      \* <<"off">>, or what RecorderService has recorded
          due            \* due[k]: what the tester is to be told of k

recording == <<filters, recorder, due>>

NotRecording == <<"off">>

EventInit == filters = <<>> /\ recorder = NotRecording /\ due = <<>>

Exists(k) == k = App \/ k \in alive
LifeOf(k) == IF k = App THEN 0 ELSE life[k]

Listens(f, e) == "ALL" \in f.listens \/ e \in f.listens

-----------------------------------------------------------------------------
(* Mutant of StartFiltering: a filter that is enabled again is not         *)
(* installed again.                                                        *)
StartFilteringOnce(f, r) == [f EXCEPT !.listens = r.listens, !.track = r.track]

(* What is known of an object is kept when its filter is enabled again.    *)
StartFiltering(f, r) ==
    [f EXCEPT !.listens = r.listens, !.track = r.track, !.on = LifeOf(r.target)]

(* The service knows the filter by the id, without a look at the object.   *)
EnableEvents(r) ==
    LET known == r.target \in DOMAIN filters
        f == IF known THEN filters[r.target]
             ELSE [on |-> 0, listens |-> {}, track |-> NoTrack, found |-> FALSE, events |-> <<>>]
        told == IF known THEN due[r.target].events ELSE <<>>
    IN  /\ r.command = "EnableEvents"
        /\ CrashIf(known /\ ~Exists(r.target))
        /\ IF Exists(r.target)
           THEN /\ filters' = With(filters, r.target, StartFiltering(f, r))
                /\ due' = With(due, r.target, [request |-> r, life |-> LifeOf(r.target),
                                               events |-> told])
           ELSE UNCHANGED <<filters, due>>
        /\ UNCHANGED recorder

(* The filter of the application is kept by its pid and removed by the id  *)
(* that the request names: here both are App, as a UI state tells them.    *)
DisableEvents(r) ==
    LET known == r.target \in DOMAIN filters
        without(s) == Restrict(s, DOMAIN s \ {r.target})
    IN  /\ r.command = "DisableEvents"
        /\ CrashIf(known /\ ~Exists(r.target))
        /\ IF known /\ Exists(r.target) THEN filters' = without(filters) /\ due' = without(due)
           ELSE UNCHANGED <<filters, due>>
        /\ UNCHANGED recorder

(* Start, also of a recorder that is on, begins anew.                      *)
RecorderCommand(r) ==
    /\ r.command \in {"Start", "Stop"}
    /\ recorder' = IF r.command = "Start" THEN <<"on">> ELSE NotRecording
    /\ UNCHANGED <<filters, due, application>>

-----------------------------------------------------------------------------
(* A filter that waits for an object records no event, and nothing more    *)
(* once the object is found.                                               *)
EventFilter(f, k, e) ==
    IF f.found \/ ~Listens(f, e) THEN f
    ELSE IF f.track = k THEN [f EXCEPT !.found = TRUE]
    ELSE IF f.track = NoTrack THEN [f EXCEPT !.events = Append(@, <<e, k, LifeOf(k)>>)]
    ELSE f

Recorded(k, e) ==
    IF recorder # NotRecording /\ k # App /\ e \in MouseEvents
    THEN Append(recorder, <<e, k>>) ELSE recorder

(* An event goes to the filters of the application first, then to those of *)
(* its object.                                                             *)
Event(k, e) ==
    LET gets(j, l) == j = App \/ (j = k /\ l = LifeOf(k))
        told(d) == IF gets(d.request.target, d.life) /\ Listens(d.request, e)
                      /\ d.request.track = NoTrack
                   THEN [d EXCEPT !.events = Append(@, <<e, k, LifeOf(k)>>)] ELSE d
    IN  /\ Exists(k)
        /\ filters' = [j \in DOMAIN filters |-> IF gets(j, filters[j].on)
                                                THEN EventFilter(filters[j], k, e) ELSE filters[j]]
        /\ recorder' = Recorded(k, e)
        /\ due' = [j \in DOMAIN due |-> told(due[j])]
        /\ UNCHANGED application

(* The start time of the process is recorded with the application's events.*)
AddProcessStartEvent ==
    LET added(s) == [j \in DOMAIN s |-> IF j = App
                        THEN [s[j] EXCEPT !.events = Append(@, <<"start", App, 0>>)] ELSE s[j]]
    IN  /\ filters' = added(filters) /\ due' = added(due)
        /\ UNCHANGED <<recorder, application>>

EventRequest == \E r \in EventRequests : EnableEvents(r) \/ DisableEvents(r)
RecorderRequest == \E r \in EventRequests : RecorderCommand(r)

EventStep ==
    \/ \E k \in Targets \cup {App}, e \in EventNames : Event(k, e)
    \/ AddProcessStartEvent

(* An event with the object it went to, and the life of that.              *)
Records == (EventNames \cup {"start"}) \X (Targets \cup {App}) \X Nat

EventTypes ==
    /\ DOMAIN due = DOMAIN filters /\ DOMAIN filters \subseteq Targets \cup {App}
    /\ \A k \in DOMAIN filters :
          /\ filters[k] \in [on : Nat, listens : SUBSET (EventNames \cup {"ALL"}),
                             track : Targets \cup {NoTrack}, found : BOOLEAN, events : Seq(Records)]
          /\ due[k] \in [request : EventRequests, life : Nat, events : Seq(Records)]
    /\ recorder = <<Head(recorder)>> \o Tail(recorder) /\ Head(recorder) \in {"on", "off"}
    /\ Tail(recorder) \in Seq(MouseEvents \X Targets)

-----------------------------------------------------------------------------
(* Whatever happens to an object and whoever gets its address: unless the  *)
(* filter has found an object it waited for, its record has exactly the    *)
(* events of those objects, and of those names, that it was enabled for at *)
(* the time (TasEventFilter::eventFilter).                                 *)
NothingMissed ==
    \A k \in DOMAIN filters : ~filters[k].found => filters[k].events = due[k].events
=============================================================================
