----------------------------- MODULE EventStream -----------------------------
(***************************************************************************)
(* Runtime.run_stream over the event bus.  A streamed run is a task of its *)
(* own; a handler subscribed to every event projects what it may see into  *)
(* a queue, and the generator hands the queue to its consumer, who may     *)
(* stop asking at any moment.  The bus is shared by all runs of the        *)
(* runtime, and a slow handler (a checkpoint being written) can make an    *)
(* event wait half-way through its handlers.                               *)
(***************************************************************************)
EXTENDS Naturals, Sequences, SequencesExt, FiniteSetsExt

CONSTANTS
    Runs,          \* the runs that are streamed
    Wrappings,     \* which buses are tried: is the bus wrapped (file log, console, OTel)?
    MaxEvents      \* events emitted in all (bound)

VARIABLES
    wrapped,       \* is Runtime._events one of the wrapping buses?
    subs,          \* the handlers under "*": of which run's stream
    task,          \* of a run: its run_task
    emitted,       \* of a run: the kinds of the events it emitted
    pending,       \* of a run: the event it emits, and to whom it is still to be handed
    queue,         \* of a stream: its queue
    count,         \* of a stream: sequence
    stream,        \* of a stream: where its generator is
    got            \* of a stream: the chunks its consumer was given

vars == <<wrapped, subs, task, emitted, pending, queue, count, stream, got>>

\* What a run emits: events of the runtime, which name the run; events of the
\* pattern, which name the agent and the session only; events no chunk is for.
EventKinds == {"runtime", "pattern", "unmapped"}
NoEvent == [by |-> {}, n |-> 0, kind |-> "unmapped"]
Finished == "RUN_FINISHED"
TaskDone(r) == task[r] \in {"returned", "failed", "cancelled"}

Init ==
    /\ wrapped \in Wrappings
    /\ subs = {}
    /\ task = [r \in Runs |-> "none"]
    /\ emitted = [r \in Runs |-> <<>>]
    /\ pending = [r \in Runs |-> [event |-> NoEvent, to |-> {}]]
    /\ queue = [r \in Runs |-> <<>>] /\ count = [r \in Runs |-> 0]
    /\ stream = [r \in Runs |-> "off"]
    /\ got = [r \in Runs |-> <<>>]

Goto(r, at) == stream' = [stream EXCEPT ![r] = at]

Open(r) ==
    /\ stream[r] = "off"
    /\ subs' = subs \cup {r}
    /\ task' = [task EXCEPT ![r] = "running"]
    /\ Goto(r, "asking")
    /\ UNCHANGED <<wrapped, emitted, pending, queue, count, got>>

\* Mutant of Passes: the run of an event is not looked at.
Passes_AnyRun(e, r) == e.kind # "unmapped"
\* The filter and the projection of the handler: an event that names no run
\* passes, whoever emitted it.
Passes(e, r) ==
    /\ e.kind = "runtime" => e.by = r
    /\ e.kind # "unmapped"

\* Mutant of Project: the number of a chunk is what the queue holds.
Project_QueueLength(e, to) ==
    LET for == {r \in to : Passes(e, r)}
    IN /\ queue' = [r \in Runs |-> IF r \in for THEN Append(queue[r], [of |-> e, sequence |-> Len(queue[r]) + 1])
                                                ELSE queue[r]]
       /\ count' = [r \in Runs |-> IF r \in for THEN count[r] + 1 ELSE count[r]]
\* The handlers of the streams in to are given the event, one after another.
Project(e, to) ==
    LET for == {r \in to : Passes(e, r)}
    IN /\ queue' = [r \in Runs |-> IF r \in for THEN Append(queue[r], [of |-> e, sequence |-> count[r] + 1])
                                                ELSE queue[r]]
       /\ count' = [r \in Runs |-> IF r \in for THEN count[r] + 1 ELSE count[r]]

MoreEvents == MapThenSumSet(LAMBDA q : Len(emitted[q]), Runs) < MaxEvents

\* emit: the handlers are those of this moment, the named ones first.  When
\* one of them waits, those of the streams come later.
Emit(r, kind, slow) ==
    LET e == [by |-> r, n |-> Len(emitted[r]) + 1, kind |-> kind]
    IN /\ task[r] \in {"running", "cancelling"} /\ pending[r].event = NoEvent
       /\ MoreEvents
       /\ emitted' = [emitted EXCEPT ![r] = Append(@, kind)]
       /\ IF slow THEN pending' = [pending EXCEPT ![r] = [event |-> e, to |-> subs]] /\ UNCHANGED <<queue, count>>
                  ELSE Project(e, subs) /\ UNCHANGED pending
       /\ UNCHANGED <<wrapped, subs, task, stream, got>>

\* The slow handler is through; also when it failed, which emit only logs.
Deliver(r) ==
    /\ pending[r].event # NoEvent
    /\ Project(pending[r].event, pending[r].to)
    /\ pending' = [pending EXCEPT ![r] = [event |-> NoEvent, to |-> {}]]
    /\ UNCHANGED <<wrapped, subs, task, emitted, stream, got>>

\* _drive_run: what run_detailed raises becomes a failed result; a
\* CancelledError goes through, the consumer's as well as one that arises
\* inside the run.
EndRun(r, how) ==
    /\ task[r] \in {"running", "cancelling"}
    /\ how = "cancelled" \/ pending[r].event = NoEvent
    /\ task' = [task EXCEPT ![r] = how]
    /\ pending' = [pending EXCEPT ![r] = [event |-> NoEvent, to |-> {}]]
    /\ UNCHANGED <<wrapped, subs, emitted, queue, count, stream, got>>

\* The consumer asks and is given the next chunk, in the loop or in the drain
\* after it.
Take(r) ==
    /\ stream[r] = "asking" /\ queue[r] # <<>>
    /\ got' = [got EXCEPT ![r] = Append(@, Head(queue[r]))]
    /\ queue' = [queue EXCEPT ![r] = Tail(@)]
    /\ Goto(r, "given")
    /\ UNCHANGED <<wrapped, subs, task, emitted, pending, count>>

AskAgain(r) ==
    /\ stream[r] = "given"
    /\ Goto(r, "asking")
    /\ UNCHANGED <<wrapped, subs, task, emitted, pending, queue, count, got>>

\* Mutant of Exhausted: a run that is done has nothing left in the queue.
Exhausted_Undrained(r) == TaskDone(r)
Exhausted(r) == TaskDone(r) /\ queue[r] = <<>>

\* The finally block's _subscribers is an attribute of the bus that keeps the
\* list; the others do not have it, and the AttributeError is swallowed.
\* Mutant of Unsubscribe: the list is never touched.
Unsubscribe_Never(r) == subs' = subs
Unsubscribe(r) == subs' = IF wrapped THEN subs ELSE subs \ {r}

\* result = await run_task, and the chunk that carries it.
Conclude(r) ==
    /\ stream[r] = "asking" /\ Exhausted(r) /\ task[r] # "cancelled"
    /\ count' = [count EXCEPT ![r] = @ + 1]
    /\ got' = [got EXCEPT ![r] = Append(@, [of |-> [by |-> r, n |-> 0, kind |-> Finished], sequence |-> count[r] + 1])]
    /\ Goto(r, "concluded")
    /\ UNCHANGED <<wrapped, subs, task, emitted, pending, queue>>

\* The consumer asks past the last chunk, or the task it awaits was cancelled.
Over(r) ==
    /\ \/ stream[r] = "concluded"
       \/ stream[r] = "asking" /\ Exhausted(r) /\ task[r] = "cancelled"
       \/ stream[r] = "closing" /\ TaskDone(r)
    /\ Unsubscribe(r)
    /\ Goto(r, "over")
    /\ UNCHANGED <<wrapped, task, emitted, pending, queue, count, got>>

\* Mutant of Abandon: the run is left to itself.
Abandon_Run(r) ==
    /\ stream[r] \in {"asking", "given", "concluded"}
    /\ task' = task
    /\ IF task[r] # "running" THEN Unsubscribe(r) /\ Goto(r, "over")
                              ELSE subs' = subs \ {r} /\ Goto(r, "over")
    /\ UNCHANGED <<wrapped, emitted, pending, queue, count, got>>
\* The generator is closed, or its consumer cancelled: a run that still goes on
\* is cancelled and awaited before the handler is removed.
Abandon(r) ==
    /\ stream[r] \in {"asking", "given", "concluded"}
    /\ IF TaskDone(r) THEN Unsubscribe(r) /\ Goto(r, "over") /\ UNCHANGED task
                      ELSE /\ task' = [task EXCEPT ![r] = "cancelling"]
                           /\ Goto(r, "closing") /\ UNCHANGED subs
    /\ UNCHANGED <<wrapped, emitted, pending, queue, count, got>>

Consume(r) == Take(r) \/ AskAgain(r) \/ Conclude(r) \/ Over(r)
Work(r) == \/ Deliver(r)
           \/ \E kind \in EventKinds, slow \in BOOLEAN : Emit(r, kind, slow)
           \/ \E how \in {"returned", "failed", "cancelled"} : EndRun(r, how)
GoesOn(r) == Deliver(r) \/ \E how \in {"returned", "failed", "cancelled"} : EndRun(r, how)

Next == \E r \in Runs : Open(r) \/ Work(r) \/ Consume(r) \/ Abandon(r)

\* Runs end (RunLifecycle, PatternLoops) and consumers ask again or close the
\* generator, which the event loop does for those that are dropped.
Fairness == \A r \in Runs : WF_vars(GoesOn(r)) /\ WF_vars(Consume(r))

Spec == Init /\ [][Next]_vars /\ Fairness
-----------------------------------------------------------------------------
TypeOK ==
    /\ wrapped \in BOOLEAN /\ subs \subseteq Runs
    /\ task \in [Runs -> {"none", "running", "cancelling", "returned", "failed", "cancelled"}]
    /\ stream \in [Runs -> {"off", "asking", "given", "concluded", "closing", "over"}]
    /\ count \in [Runs -> Nat]

\* Everything a stream was or will be given.
Chunks(r) == got[r] \o queue[r]
NotFinished(c) == c.of.kind # Finished

\* run_stream: the chunks of a stream are numbered from 1 without a gap, and
\* the result is the last its consumer is given.
WellNumbered ==
    \A r \in Runs :
        LET c == Chunks(r)
        IN /\ \A i \in 1..Len(c) : c[i].sequence = i
           /\ \A i \in 1..Len(c) : c[i].of.kind = Finished => i = Len(got[r])

\* run_stream: what a run emits under its own name reaches its own stream
\* whole and in order, pattern events with it, but for an event that waits for
\* a slow handler or was dropped with the run in that wait; an event that
\* names another run never does.
OwnEventsWhole ==
    \A r \in Runs :
        LET c == Chunks(r)
            seen == {i \in 1..Len(c) : c[i].of.by = r /\ NotFinished(c[i])}
            mine == {n \in 1..Len(emitted[r]) : emitted[r][n] # "unmapped" /\ n # pending[r].event.n}
        IN /\ stream[r] \in {"asking", "given", "concluded"} =>
                 \A n \in mine : (\E i \in seen : c[i].of.n = n) \/ (task[r] = "cancelled" /\ n = Len(emitted[r]))
           /\ \A i, j \in seen : i < j => c[i].of.n < c[j].of.n
           /\ \A i \in 1..Len(c) : c[i].of.by # r => c[i].of.kind = "pattern"

\* The finally block of run_stream: on a bus that keeps its own list, the
\* handler goes with the stream, and nothing of the run outlives it.
LeavesNothing ==
    \A r \in Runs : stream[r] = "over" => TaskDone(r) /\ (wrapped \/ r \notin subs)

\* No stream is open.
NoneStreams == \A r \in Runs : stream[r] \in {"off", "over"}
\* A stream that was opened ends.
StreamsEnd == <>[]NoneStreams

\* Statements of the documentation that the code does not meet (README,
\* Disagreements); no run checks them.

\* docs/stream-api: filtering by run_id keeps other concurrent runs out.
OnlyOwn == \A r \in Runs : \A c \in ToSet(Chunks(r)) : c.of.by = r

\* EventBusPlugin.unsubscribe: builtin buses do not leak handlers across runs.
NoHandlerLeft == \A r \in Runs : stream[r] = "over" => r \notin subs
=============================================================================
