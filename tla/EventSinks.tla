----------------------------- MODULE EventSinks -----------------------------
(***************************************************************************)
(* Event buses around an event bus: file_logging, otel_bridge and          *)
(* rich_console.  Each passes an event on to the bus inside it, and when   *)
(* that has called its handlers writes the event itself.                   *)
(***************************************************************************)
EXTENDS Naturals, Sequences, SequencesExt, FiniteSets

CONSTANTS
    Emitters,       \* tasks that emit
    Events,         \* names
    Stacks,         \* sequences of [kind, include, exclude], the innermost first
    None,           \* no include list
    MaxHistory,     \* max_history of the bus inside
    MaxEmits        \* events (bound)

VARIABLES
    stack,
    emitted,        \* the names that were emitted, in their order
    history,        \* positions in emitted
    handling,       \* of an emitter, the event whose handlers are awaited
    written,        \* of a bus, what it has written
    failed,         \* of a bus, what it could not write
    broken          \* events whose emitter was given an error

vars == <<stack, emitted, history, handling, written, failed, broken>>

Init ==
    /\ stack \in Stacks
    /\ emitted = <<>> /\ history = <<>> /\ broken = {}
    /\ handling = [e \in Emitters |-> None]
    /\ written = [i \in DOMAIN stack |-> <<>>] /\ failed = [i \in DOMAIN stack |-> {}]

\* Mutant of Admits: an include list makes the exclude list void.
Admits_IncludeFirst(bus, name) == IF bus.include # None THEN name \in bus.include ELSE name \notin bus.exclude
\* _should_log, _should_render; otel_bridge has no exclude list.
Admits(bus, name) ==
    /\ bus.kind = "otel_bridge" \/ name \notin bus.exclude
    /\ bus.include = None \/ name \in bus.include

\* Mutant of Kept: the oldest events are kept.
Kept_Oldest(positions) == SubSeq(positions, 1, IF Len(positions) > MaxHistory THEN MaxHistory ELSE Len(positions))
Kept(positions) == IF Len(positions) > MaxHistory THEN SubSeq(positions, Len(positions) - MaxHistory + 1, Len(positions)) ELSE positions

\* emit, up to the handlers of the bus inside, which may wait.
Emit(e, name) ==
    /\ handling[e] = None /\ Len(emitted) < MaxEmits
    /\ emitted' = Append(emitted, name)
    /\ history' = Kept(Append(history, Len(emitted) + 1))
    /\ handling' = [handling EXCEPT ![e] = Len(emitted) + 1]
    /\ UNCHANGED <<stack, written, failed, broken>>

\* Mutant of Reached: an error of a bus keeps those around it from the event.
Reached_UpToFailure(bad) == {i \in DOMAIN stack : \A j \in DOMAIN bad : i <= j}
\* The buses that are reached when those in bad fail so: file_logging only
\* contains an OSError.
Escapes(i, how) == stack[i].kind = "file_logging" /\ how # "OSError"
Reached(bad) == {i \in DOMAIN stack : \A j \in DOMAIN bad : Escapes(j, bad[j]) => i <= j}

\* The handlers have returned: the buses write, from the inside out, without
\* waiting.
Unwind(e) ==
    /\ handling[e] # None
    /\ \E bad \in UNION {[w -> {"OSError", "other"}] : w \in SUBSET {i \in DOMAIN stack : Admits(stack[i], emitted[handling[e]])}} :
          LET p == handling[e]
              meant == {i \in Reached(bad) : Admits(stack[i], emitted[p])}
          IN /\ written' = [i \in DOMAIN stack |-> IF i \in meant \ DOMAIN bad THEN Append(written[i], p) ELSE written[i]]
             /\ failed' = [i \in DOMAIN stack |-> IF i \in meant \cap DOMAIN bad THEN failed[i] \cup {p} ELSE failed[i]]
             /\ broken' = IF \E j \in DOMAIN bad : Escapes(j, bad[j]) THEN broken \cup {p} ELSE broken
    /\ handling' = [handling EXCEPT ![e] = None]
    /\ UNCHANGED <<stack, emitted, history>>

\* The emitter is cancelled while a handler waits.
Cancel(e) ==
    /\ handling[e] # None
    /\ broken' = broken \cup {handling[e]}
    /\ handling' = [handling EXCEPT ![e] = None]
    /\ UNCHANGED <<stack, emitted, history, written, failed>>

\* clear_history is that of the bus inside.
ClearHistory == history' = <<>> /\ UNCHANGED <<stack, emitted, handling, written, failed, broken>>

Next ==
    \/ \E e \in Emitters : Unwind(e) \/ Cancel(e) \/ \E name \in Events : Emit(e, name)
    \/ ClearHistory

Spec == Init /\ [][Next]_vars
-----------------------------------------------------------------------------
Settled(p) == \A e \in Emitters : handling[e] # p

\* emit: whatever fails, every bus writes an event once at most, and only if it
\* is asked for; an event whose emitter was told of no error has reached every
\* bus that wants it; history holds the events that were emitted last.
SinksFaithful ==
    /\ \A i \in DOMAIN stack :
          /\ IsInjective(written[i])
          /\ \A p \in ToSet(written[i]) \cup failed[i] :
                /\ emitted[p] \notin (IF stack[i].kind = "otel_bridge" THEN {} ELSE stack[i].exclude)
                /\ stack[i].include # None => emitted[p] \in stack[i].include
          /\ \A p \in DOMAIN emitted \ broken :
                (Settled(p) /\ Admits(stack[i], emitted[p])) => p \in ToSet(written[i]) \cup failed[i]
    /\ Len(history) <= MaxHistory
    /\ \A i \in DOMAIN history : history[i] = Len(emitted) - Len(history) + i

\* Statements of the documentation that the code does not meet (README,
\* Disagreements); no run checks them.

\* A bus writes events in the order in which they were emitted.
WrittenInOrder == \A i \in DOMAIN stack : \A j, k \in DOMAIN written[i] : j < k => written[i][j] < written[i][k]

\* What a bus cannot write is no error of the emitter.
NeverBroken == \A p \in broken : \A i \in DOMAIN stack : p \notin failed[i]
=============================================================================
