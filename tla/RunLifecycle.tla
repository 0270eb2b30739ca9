---------------------------- MODULE RunLifecycle ----------------------------
(***************************************************************************)
(* DefaultRuntime.run from the request to the result: concurrent runs on   *)
(* several sessions, and runs delegated by a pattern that is executing.    *)
(*                                                                         *)
(* A run takes the session lock, assembles, executes its pattern, writes   *)
(* memory and transcript back, announces its verdict and returns.  Errors  *)
(* are handled after the lock is released, a handoff and an exhausted      *)
(* validation each in their own way, and a cancellation only unwinds.      *)
(* A step here is what happens between two suspensions of the event loop;  *)
(* the lock is the one of ReentrantSession.                                *)
(*                                                                         *)
(* Runs of one session and agent share a pattern, whose context is that of *)
(* the run that set it up last, and all runs share the event bus, where    *)
(* every run's diagnostics handlers hear every run's events.               *)
(***************************************************************************)
EXTENDS Naturals, Sequences, FiniteSets

CONSTANTS
    Runs,          \* the calls of Runtime.run
    NoRun,
    Session,       \* the session each run names
    Agent,         \* the agent each run names
    Parent,        \* the run whose pattern delegates this one, or NoRun
    Suspends,      \* does append_message suspend (sqlite), or not (memory, jsonl)?
    StoreMayFail,  \* may append_message raise?
    Diagnosed      \* is a diagnostics plugin configured?

Sessions == {Session[r] : r \in Runs}
PatternOf(r) == <<Session[r], Agent[r]>>
Patterns == {PatternOf(r) : r \in Runs}

ASSUME LifecycleAssumption ==
    /\ NoRun \notin Runs
    /\ Parent \in [Runs -> Runs \cup {NoRun}]
    /\ \A r \in Runs : Parent[r] # r
    /\ Suspends \in BOOLEAN
    /\ StoreMayFail \in BOOLEAN
    /\ Diagnosed \in BOOLEAN

VARIABLES
    pc,         \* where each run is
    verdict,    \* what a run is going to report
    result,     \* what its caller got: a RunResult, an exception, a cancellation
    inside,     \* per session: the runs in it, outermost first
    transcript, \* per session: the entries appended
    last,       \* per session: whose _runtime_last_output it holds
    context,    \* per pattern: the run that set it up last
    handlers,   \* the runs whose diagnostics handlers are on the bus
    seen,       \* per run: whose calls its diagnostics recorded
    reported,   \* the runs passed to diagnostics.on_run_complete
    snapshot,   \* per run: the run whose context its error snapshot shows
    memory,     \* per run: the record its memory writeback stored
    announced,  \* per run: RUN_COMPLETED and RUN_FAILED as emitted
    depth       \* per run: the delegation depth in its metadata

vars == <<pc, verdict, result, inside, transcript, last, context, handlers, seen,
          reported, snapshot, memory, announced, depth>>

Stages == {"new", "queued", "assembling", "executing", "remembering", "recording",
           "paired", "persisting", "announcing", "concluding", "done"}
Verdicts == {"none", "completed", "exhausted", "failed", "handoff"}
Entry == [run: Runs, role: {"user", "assistant"}, error: BOOLEAN]
NoRecord == <<>>
Record == [input: Runs, output: Runs \cup {NoRun}]

Outside(r) == verdict[r] \in {"failed", "handoff"}
Holds(r) == pc[r] \notin {"new", "queued", "done"} /\ ~Outside(r)
Listens(r) == pc[r] \notin {"new", "done"}

TypeOK ==
    /\ pc \in [Runs -> Stages]
    /\ verdict \in [Runs -> Verdicts]
    /\ result \in [Runs -> {"none", "completed", "failed", "raised", "cancelled"}]
    /\ inside \in [Sessions -> Seq(Runs)]
    /\ transcript \in [Sessions -> Seq(Entry)]
    /\ last \in [Sessions -> Runs \cup {NoRun}]
    /\ context \in [Patterns -> Runs \cup {NoRun}]
    /\ handlers \subseteq Runs
    /\ seen \in [Runs -> SUBSET Runs]
    /\ reported \subseteq Runs
    /\ snapshot \in [Runs -> Runs \cup {NoRun}]
    /\ memory \in [Runs -> Record \cup {NoRecord}]
    /\ announced \in [Runs -> Seq({"completed", "failed"})]
    /\ depth \in [Runs -> Nat]
    /\ \A r \in Runs : Holds(r) <=> \E i \in DOMAIN inside[Session[r]] : inside[Session[r]][i] = r

Init ==
    /\ pc = [r \in Runs |-> "new"]
    /\ verdict = [r \in Runs |-> "none"]
    /\ result = [r \in Runs |-> "none"]
    /\ inside = [s \in Sessions |-> <<>>]
    /\ transcript = [s \in Sessions |-> <<>>]
    /\ last = [s \in Sessions |-> NoRun]
    /\ context = [p \in Patterns |-> NoRun]
    /\ handlers = {}
    /\ seen = [r \in Runs |-> {}]
    /\ reported = {}
    /\ snapshot = [r \in Runs |-> NoRun]
    /\ memory = [r \in Runs |-> NoRecord]
    /\ announced = [r \in Runs |-> <<>>]
    /\ depth = [r \in Runs |-> 0]

(***************************************************************************)
(* Who may run.  A run waits for the run it has delegated, in its own      *)
(* task; a cancellation of that task unwinds the delegated run first.      *)
(***************************************************************************)
Children(r) == {c \in Runs : Parent[c] = r}
Waiting(r) == \E c \in Children(r) : pc[c] \notin {"new", "done"}
Interrupted(r) == \E c \in Children(r) : result[c] = "cancelled"

\* Between the entries of a turn, and between an error and its turn, a backend
\* that does not suspend gives the event loop no chance to switch.
Unbroken(q) ==
    ~Suspends /\ (pc[q] = "paired" \/ (pc[q] = "recording" /\ verdict[q] = "failed"))

Turn(r) ==
    /\ ~Waiting(r)
    /\ \A q \in Runs \ {r} : ~Unbroken(q)

Running(r) == Turn(r) /\ ~Interrupted(r)

At(r, stage) == pc[r] = stage
Goto(r, stage) == pc' = [pc EXCEPT ![r] = stage]

(***************************************************************************)
(* The request.  A delegated run gets one more than the depth it reads     *)
(* from the context of the pattern that delegates it.                      *)
(***************************************************************************)
Subscribed(r) == IF Diagnosed THEN handlers \cup {r} ELSE handlers

CallerExecutes(r) ==
    Parent[r] # NoRun => At(Parent[r], "executing") /\ Running(Parent[r])

Called(r) ==
    /\ At(r, "new")
    /\ Turn(r)
    /\ CallerExecutes(r)
    /\ depth' = [depth EXCEPT ![r] =
          IF Parent[r] = NoRun THEN 0 ELSE depth[context[PatternOf(Parent[r])]] + 1]

Request(r) ==
    /\ Called(r)
    /\ Goto(r, "queued")
    /\ handlers' = Subscribed(r)
    /\ UNCHANGED <<verdict, result, inside, transcript, last, context, seen, reported,
                   snapshot, memory, announced>>

\* Mutant of MayEnter: whoever delegates holds the lock for all its agent's runs.
MayEnter_ByDelegation(r) ==
    LET in == inside[Session[r]] IN \A i \in DOMAIN in : Children(in[i]) # {}

\* Mutant of MayEnter: the lock is not reentrant.
MayEnter_Plain(r) == inside[Session[r]] = <<>>

\* The session lock; the delegated run of a holder is in the holder's task.
MayEnter(r) ==
    LET in == inside[Session[r]] IN \A i \in DOMAIN in : i = Len(in) => in[i] = Parent[r]

\* Mutant of Cleared: the output of the run before stays in the session.
Cleared_Not(r) == last[Session[r]]

Cleared(r) == NoRun

Acquire(r) ==
    /\ At(r, "queued")
    /\ Running(r)
    /\ MayEnter(r)
    /\ Goto(r, "assembling")
    /\ inside' = [inside EXCEPT ![Session[r]] = Append(@, r)]
    /\ last' = [last EXCEPT ![Session[r]] = Cleared(r)]
    /\ UNCHANGED <<verdict, result, transcript, context, handlers, seen, reported,
                   snapshot, memory, announced, depth>>

\* Assembly, preflight, pattern.setup and memory injection.
Setup(r) ==
    /\ At(r, "assembling")
    /\ Running(r)
    /\ Goto(r, "executing")
    /\ context' = [context EXCEPT ![PatternOf(r)] = r]
    /\ UNCHANGED <<verdict, result, inside, transcript, last, handlers, seen, reported,
                   snapshot, memory, announced, depth>>

(***************************************************************************)
(* Execution.  llm.succeeded and tool.called reach the handlers of every   *)
(* run that is listening.                                                  *)
(***************************************************************************)
Observe(r) ==
    /\ At(r, "executing")
    /\ Running(r)
    /\ handlers # {}
    /\ seen' = [h \in Runs |-> IF h \in handlers THEN seen[h] \cup {r} ELSE seen[h]]
    /\ UNCHANGED <<pc, verdict, result, inside, transcript, last, context, handlers, reported,
                   snapshot, memory, announced, depth>>

\* pattern.execute() returns; the builtin patterns store what they return.
Return(r, stores) ==
    /\ At(r, "executing")
    /\ Running(r)
    /\ Goto(r, "remembering")
    /\ verdict' = [verdict EXCEPT ![r] = "completed"]
    /\ last' = IF stores THEN [last EXCEPT ![Session[r]] = r] ELSE last
    /\ UNCHANGED <<result, inside, transcript, context, handlers, seen, reported, snapshot,
                   memory, announced, depth>>

\* Validation is exhausted: no writeback, a failed turn, and its own return.
Exhaust(r) ==
    /\ At(r, "executing")
    /\ Running(r)
    /\ Goto(r, "recording")
    /\ verdict' = [verdict EXCEPT ![r] = "exhausted"]
    /\ UNCHANGED <<result, inside, transcript, last, context, handlers, seen, reported,
                   snapshot, memory, announced, depth>>

\* BufferMemory.writeback, through the pattern's context.
Remember(r) ==
    /\ At(r, "remembering")
    /\ Running(r)
    /\ Goto(r, "recording")
    /\ memory' = [memory EXCEPT ![r] =
          [input |-> context[PatternOf(r)], output |-> last[Session[r]]]]
    /\ UNCHANGED <<verdict, result, inside, transcript, last, context, handlers, seen,
                   reported, snapshot, announced, depth>>

(***************************************************************************)
(* The turn in the transcript, inside the lock, or after it for an error.  *)
(***************************************************************************)
Errs(r) == verdict[r] \in {"exhausted", "failed"}
Said(r, role) == [run |-> r, role |-> role, error |-> role = "assistant" /\ Errs(r)]

\* Mutant of Recorded: a run that has its turn does not append another.
Recorded_Once(r, role) ==
    transcript' = IF \E i \in DOMAIN transcript[Session[r]] :
                        transcript[Session[r]][i].run = r /\ transcript[Session[r]][i].role = "assistant"
                  THEN transcript ELSE [transcript EXCEPT ![Session[r]] = Append(@, Said(r, role))]

Recorded(r, role) == transcript' = [transcript EXCEPT ![Session[r]] = Append(@, Said(r, role))]

RecordUser(r) ==
    /\ At(r, "recording")
    /\ Running(r)
    /\ Goto(r, "paired")
    /\ Recorded(r, "user")
    /\ last' = IF verdict[r] = "completed" THEN [last EXCEPT ![Session[r]] = r] ELSE last
    /\ UNCHANGED <<verdict, result, inside, context, handlers, seen, reported, snapshot,
                   memory, announced, depth>>

RecordAssistant(r) ==
    /\ At(r, "paired")
    /\ Running(r)
    /\ Goto(r, IF verdict[r] = "failed" THEN "announcing" ELSE "persisting")
    /\ Recorded(r, "assistant")
    /\ UNCHANGED <<verdict, result, inside, last, context, handlers, seen, reported,
                   snapshot, memory, announced, depth>>

\* Artifacts, and the assembler's finalize of a completed run.
Persist(r) ==
    /\ At(r, "persisting")
    /\ Running(r)
    /\ Goto(r, "announcing")
    /\ UNCHANGED <<verdict, result, inside, transcript, last, context, handlers, seen,
                   reported, snapshot, memory, announced, depth>>

(***************************************************************************)
(* Errors and handoffs release the lock and are handled after it.          *)
(***************************************************************************)

\* A run that holds the lock gives back the innermost hold: the runs it
\* delegated into the session have left before.
Released(r) ==
    IF Holds(r) THEN [inside EXCEPT ![Session[r]] = SubSeq(@, 1, Len(@) - 1)] ELSE inside

\* Mutant of MayFailAt: on_run_complete is called without its except clause.
MayFailAt_Concluding(r) ==
    \/ pc[r] \in {"queued", "assembling", "executing", "remembering", "persisting"}
    \/ At(r, "recording") /\ (verdict[r] = "completed" \/ StoreMayFail)
    \/ At(r, "paired") /\ StoreMayFail
    \/ At(r, "concluding") /\ verdict[r] = "completed"

\* Budget checks, plugins and the backend raise; handlers of emitted events and
\* on_run_complete do not.
MayFailAt(r) ==
    \/ pc[r] \in {"queued", "assembling", "executing", "remembering", "persisting"}
    \/ At(r, "recording") /\ (verdict[r] = "completed" \/ StoreMayFail)
    \/ At(r, "paired") /\ StoreMayFail

Fail(r) ==
    /\ MayFailAt(r)
    /\ verdict[r] # "failed"
    /\ Running(r)
    /\ Goto(r, "recording")
    /\ verdict' = [verdict EXCEPT ![r] = "failed"]
    /\ inside' = Released(r)
    /\ UNCHANGED <<result, transcript, last, context, handlers, seen, reported, snapshot,
                   memory, announced, depth>>

\* transfer(): the delegated run has returned a result, failed or not.
Handoff(r) ==
    /\ At(r, "executing")
    /\ Running(r)
    /\ \E c \in Children(r) : result[c] \in {"completed", "failed"}
    /\ Goto(r, "announcing")
    /\ verdict' = [verdict EXCEPT ![r] = "handoff"]
    /\ inside' = Released(r)
    /\ UNCHANGED <<result, transcript, last, context, handlers, seen, reported, snapshot,
                   memory, announced, depth>>

(***************************************************************************)
(* The announcement and the result.                                        *)
(***************************************************************************)
Outcome(r) == IF Errs(r) THEN "failed" ELSE "completed"

Announce(r) ==
    /\ At(r, "announcing")
    /\ Running(r)
    /\ Goto(r, "concluding")
    /\ announced' = [announced EXCEPT ![r] = Append(@, Outcome(r))]
    /\ UNCHANGED <<verdict, result, inside, transcript, last, context, handlers, seen,
                   reported, snapshot, memory, depth>>

\* Mutant of Unsubscribed: the handlers are removed where the run returns only.
Unsubscribed_OnReturn(r, got) == IF got = "cancelled" THEN handlers ELSE handlers \ {r}

Unsubscribed(r, got) == handlers \ {r}

Finish(r, got) ==
    /\ Goto(r, "done")
    /\ result' = [result EXCEPT ![r] = got]
    /\ inside' = Released(r)
    /\ handlers' = Unsubscribed(r, got)

Conclude(r) ==
    /\ At(r, "concluding")
    /\ Running(r)
    /\ Finish(r, Outcome(r))
    /\ reported' = IF Diagnosed /\ verdict[r] \in {"completed", "failed"} THEN reported \cup {r}
                   ELSE reported
    /\ snapshot' = IF Diagnosed /\ verdict[r] = "failed"
                   THEN [snapshot EXCEPT ![r] = context[PatternOf(r)]] ELSE snapshot
    /\ UNCHANGED <<verdict, transcript, last, context, seen, memory, announced, depth>>

\* An unknown agent, its plugins or its client fail before anything is undone.
Refuse(r) ==
    /\ Called(r)
    /\ Finish(r, "raised")
    /\ UNCHANGED <<verdict, transcript, last, context, seen, reported, snapshot, memory, announced>>

\* What fails while an error is being handled reaches the caller: the
\* transcript, or the assembler's finalize.
Escape(r) ==
    /\ \/ pc[r] \in {"recording", "paired", "announcing"} /\ verdict[r] = "failed" /\ StoreMayFail
       \/ At(r, "concluding") /\ verdict[r] = "failed"
    /\ Running(r)
    /\ Finish(r, "raised")
    /\ UNCHANGED <<verdict, transcript, last, context, seen, reported, snapshot, memory,
                   announced, depth>>

\* CancelledError: only the finally clause and the lock's exit run.
Cancel(r) ==
    /\ pc[r] \notin {"new", "done"}
    /\ Turn(r)
    /\ ~Unbroken(r)
    /\ Finish(r, "cancelled")
    /\ UNCHANGED <<verdict, transcript, last, context, seen, reported, snapshot, memory,
                   announced, depth>>

Next ==
    \E r \in Runs :
       \/ Request(r)
       \/ Refuse(r)
       \/ Acquire(r)
       \/ Setup(r)
       \/ Observe(r)
       \/ \E stores \in BOOLEAN : Return(r, stores)
       \/ Exhaust(r)
       \/ Remember(r)
       \/ RecordUser(r)
       \/ RecordAssistant(r)
       \/ Persist(r)
       \/ Fail(r)
       \/ Handoff(r)
       \/ Announce(r)
       \/ Conclude(r)
       \/ Escape(r)
       \/ Cancel(r)

Spec == Init /\ [][Next]_vars

\* The event loop runs every task that can run, and patterns, plugins and
\* backends return or raise.
Progress(r) ==
    \/ Acquire(r)
    \/ Setup(r)
    \/ \E stores \in BOOLEAN : Return(r, stores)
    \/ Exhaust(r)
    \/ Remember(r)
    \/ RecordUser(r)
    \/ RecordAssistant(r)
    \/ Persist(r)
    \/ ~At(r, "queued") /\ Fail(r)
    \/ Handoff(r)
    \/ Announce(r)
    \/ Conclude(r)
    \/ Interrupted(r) /\ Cancel(r)

FairSpec == Spec /\ \A r \in Runs : WF_vars(Progress(r))

(***************************************************************************)
(* Properties.                                                             *)
(***************************************************************************)
\* What a caller is told is what was announced: one verdict, the one of the
\* result, and never a second one, whichever error strikes after the first.
OneVerdict ==
    \A r \in Runs :
       /\ Len(announced[r]) <= 1
       /\ result[r] \in {"completed", "failed"} => announced[r] = <<result[r]>>

\* The last entry of a run in the transcript of its session.
LastSaid(r, entry) ==
    LET said == transcript[Session[r]] IN
    \E i \in DOMAIN said : said[i] = entry /\ \A j \in DOMAIN said : j > i => said[j].run # r

\* The transcript tells of every returned run how it ended: the last entry a run
\* leaves is an error exactly if the run failed, also when it failed after its
\* turn was appended.  A handoff leaves its turn to the run it was handed to.
TurnTellsVerdict ==
    \A r \in Runs : result[r] \in {"completed", "failed"} /\ verdict[r] # "handoff" =>
       LastSaid(r, [run |-> r, role |-> "assistant", error |-> result[r] = "failed"])

\* Every handler a run put on the bus is off it when the run is over, however it
\* ended, and no run that goes on has lost its own.
HandlersGone == Diagnosed => handlers = {r \in Runs : Listens(r)}

\* On a backend that does not suspend, no entry comes between the two of a turn,
\* though failed runs append theirs without the session lock.
TurnsWhole ==
    \A s \in Sessions : \A i \in 1..(Len(transcript[s]) - 1) :
       transcript[s][i].role = "user" =>
          transcript[s][i + 1] = [transcript[s][i + 1] EXCEPT !.run = transcript[s][i].run, !.role = "assistant"]

\* A run and the runs that come of its delegations.
Line(r) ==
    {q \in Runs : \A S \in SUBSET Runs :
        r \in S /\ (\A c \in Runs : Parent[c] \in S => c \in S) => q \in S}

\* Memory writeback stores the input of the run, or of a run it delegated under
\* the same pattern, with their output or none: never with what an earlier run
\* left in the session, or another that waits for it.
MemoryIsOwn ==
    \A r \in Runs : memory[r] # NoRecord =>
        memory[r].input \in Line(r) /\ memory[r].output \in Line(r) \cup {NoRun}

\* The runs inside a session are a chain of delegations: no run enters beside one
\* that did not delegate it, whatever errors, handoffs and cancellations release.
ChainInside ==
    \A s \in Sessions : \A i \in 1..(Len(inside[s]) - 1) : Parent[inside[s][i + 1]] = inside[s][i]

\* Every run that was requested ends, also when its caller is cancelled while it
\* waits for a run it delegated.
EveryRunEnds == \A r \in Runs : (pc[r] # "new") ~> (pc[r] = "done")

(***************************************************************************)
(* What comments and docs say and the code does otherwise.                 *)
(***************************************************************************)
\* Diagnostics are isolated by run (interfaces/diagnostics.py).
MetricsIsolated == \A r \in Runs : seen[r] \subseteq {r}

\* on_run_complete is called after every run (interfaces/diagnostics.py).
EveryRunReported == \A r \in Runs : result[r] \in {"completed", "failed"} => r \in reported

\* An error snapshot is the context of the run that failed
\* (interfaces/diagnostics.py).
SnapshotIsOwn == \A r \in Runs : snapshot[r] \in {r, NoRun}

\* The session lock serializes the writes of a session (sqlite_backed.py).
WritesUnderLock ==
    [][\A r \in Runs : (RecordUser(r) \/ RecordAssistant(r)) =>
          \A q \in Runs \ {r} : Session[q] = Session[r] /\ Holds(q) => Waiting(q)]_vars

\* A run delegated from depth n runs at depth n + 1 (agent-router spec).
DepthPropagates ==
    \A r \in Runs : pc[r] # "new" /\ Parent[r] # NoRun => depth[r] = depth[Parent[r]] + 1
=============================================================================
