---------------------------- MODULE SignalFixture ----------------------------
(***************************************************************************)
(* TasSignalPlugin: a TasSignalSpy for each signal that is enabled adds    *)
(* what it sees to the container of the plugin's model.                    *)
(***************************************************************************)
EXTENDS Widgets, Sequences, SequencesExt, FiniteSets, FiniteSetsExt, Functions

CONSTANT Signals  \* of every widget

VARIABLES spies,        \* all that were made
          spyContainer, \* spyContainerHash: the spy of an object and a signal
          container,    \* the model's, 0 for none, and
          cleared       \* the last that was deleted

signals == <<spies, spyContainer, container, cleared>>

SignalInit ==
    spies = <<>> /\ spyContainer = <<>> /\ container = 0 /\ cleared = 0

Connected(n) == ~spies[n].deleted /\ StillLives(spies[n].of, spies[n].life)

(* The spy that was kept for the signal of an object at that address is    *)
(* not deleted.                                                            *)
EnableSignal(t, s) ==
    /\ CrashIf(CastCrashes(t))
    /\ IF t \notin alive THEN UNCHANGED signals
       ELSE /\ container' = cleared + 1
            /\ spies' = Append(spies, [of |-> t, life |-> life[t], signal |-> s,
                                       container |-> container', deleted |-> FALSE])
            /\ spyContainer' = With(spyContainer, <<t, s>>, Len(spies'))
            /\ UNCHANGED cleared

(* Mutant of Deleted: only the model is cleared.                           *)
DeletedNone == {}

Deleted == Range(spyContainer)

ClearSignals ==
    /\ spies' = [n \in DOMAIN spies |-> [spies[n] EXCEPT !.deleted = @ \/ n \in Deleted]]
    /\ spyContainer' = <<>>
    /\ cleared' = Max({container, cleared}) /\ container' = 0
    /\ UNCHANGED application

(* Every spy of the signal writes to the container it was made with.       *)
SignalHasOccured(t, s) ==
    /\ t \in alive
    /\ CrashIf(\E n \in DOMAIN spies : /\ Connected(n)
                                       /\ spies[n].of = t /\ spies[n].signal = s
                                       /\ spies[n].container # container)
    /\ UNCHANGED signals

SignalExecute(r) ==
    \/ r.method = "enable_signal"  /\ EnableSignal(r.target, r.what)
    \/ r.method = "remove_signals" /\ ClearSignals
    \/ r.method = "list_signals"   /\ CrashIf(CastCrashes(r.target)) /\ UNCHANGED signals
    \/ r.method = "get_signal"     /\ UNCHANGED <<signals, application>>

SignalStep == \E t \in Targets, s \in Signals : SignalHasOccured(t, s)

SignalTypes ==
    /\ spies \in Seq([of : Targets, life : Nat, signal : Signals, container : Nat, deleted : BOOLEAN])
    /\ DOMAIN spyContainer \subseteq Targets \X Signals
    /\ Range(spyContainer) \subseteq DOMAIN spies
    /\ container \in Nat /\ cleared \in Nat

-----------------------------------------------------------------------------
(* A spy whose signal was enabled again is kept nowhere any more, so that  *)
(* remove_signals does not delete it.                                      *)
Forgotten(n) ==
    \E m \in DOMAIN spies : /\ m > n
                            /\ spies[m].of = spies[n].of /\ spies[m].life = spies[n].life
                            /\ spies[m].signal = spies[n].signal

(* These are the only ones that outlive the container they write to: every *)
(* other spy that may be called, of objects that were enabled twice too,   *)
(* writes to the one that the model has now (TasSignalPlugin::clearSignals,*)
(* enableSignal).                                                          *)
SpiesHaveTheirModel ==
    \A n \in DOMAIN spies :
        Connected(n) => spies[n].container = container \/ Forgotten(n)
=============================================================================
