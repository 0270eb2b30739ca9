--------------------------- MODULE RunDiagnostics ---------------------------
(***************************************************************************)
(* What is gathered about a run while it goes on and told when it ends: a  *)
(* DiagnosticsPlugin (rich, langfuse, phoenix) hears of the calls on the   *)
(* event bus, which all runs share; an exception becomes a stop reason, an *)
(* ErrorDetails and an ErrorSnapshot.                                      *)
(***************************************************************************)
EXTENDS Naturals, Sequences, SequencesExt, FiniteSets

CONSTANTS
    Runs,
    Session,        \* of a run
    None,
    Latencies,      \* Nat
    Errors,         \* exceptions: sequences of classes, each caused by the next
    MaxCalls        \* calls of models and tools (bound)

VARIABLES
    phase,      \* of a run: "idle", "waiting", "running", "failing", "done"
    context,    \* pattern.context: of a session, the run that set it up last
    perRun,     \* _per_run: of a run, the metrics
    chain,      \* diag_tool_chain: of a run, the runs whose tool was called
    error,      \* of a failing run, the exception
    result,     \* of a run: [how, usage, stop, details, snapshot], None before
    made        \* of a run, the calls of models it made

vars == <<phase, context, perRun, chain, error, result, made>>

Active == {r \in Runs : phase[r] \in {"waiting", "running", "failing"}}

Init ==
    /\ phase = [r \in Runs |-> "idle"]
    /\ context = [s \in {Session[r] : r \in Runs} |-> None]
    /\ perRun = [r \in {} |-> <<>>]
    /\ chain = [r \in Runs |-> <<>>] /\ error = [r \in Runs |-> None]
    /\ result = [r \in Runs |-> None] /\ made = [r \in Runs |-> 0]

\* Handlers are subscribed before the session is waited for.
Begin(r) ==
    /\ phase[r] = "idle"
    /\ phase' = [phase EXCEPT ![r] = "waiting"]
    /\ UNCHANGED <<context, perRun, chain, error, result, made>>
Setup(r) ==
    /\ phase[r] = "waiting" /\ \A q \in Runs : Session[q] = Session[r] => phase[q] # "running"
    /\ phase' = [phase EXCEPT ![r] = "running"] /\ context' = [context EXCEPT ![Session[r]] = r]
    /\ UNCHANGED <<perRun, chain, error, result, made>>

\* record_llm_call.
Recorded(r, metric) ==
    [q \in DOMAIN perRun \cup Active |->
        LET held == IF q \in DOMAIN perRun THEN perRun[q] ELSE <<>>
        IN IF q \in Active THEN Append(held, metric) ELSE held]
CallsLeft == LET count(q) == made[q] + Len(SelectSeq(chain[q], LAMBDA c : c = q))
             IN FoldFunction(+, 0, [q \in Runs |-> count(q)]) < MaxCalls
\* llm.succeeded and llm.failed: the handler of every run is called.
LlmCall(r, latency, attempt) ==
    /\ phase[r] = "running" /\ CallsLeft
    /\ perRun' = Recorded(r, [run |-> r, latency |-> latency, attempt |-> attempt])
    /\ made' = [made EXCEPT ![r] = @ + 1]
    /\ UNCHANGED <<phase, context, chain, error, result>>
\* tool.called.
ToolCall(r) ==
    /\ phase[r] = "running" /\ CallsLeft
    /\ chain' = [q \in Runs |-> IF q \in Active THEN Append(chain[q], r) ELSE chain[q]]
    /\ UNCHANGED <<phase, context, perRun, error, result, made>>

\* Mutant of Usage: the latencies are taken in the order of the calls.
Usage_Unsorted(calls) ==
    LET latencies == [i \in DOMAIN calls |-> calls[i].latency]
        n == Len(latencies)
    IN IF n = 0 THEN None
       ELSE [p50 |-> latencies[(n \div 2) + 1],
             p95 |-> IF n >= 2 THEN latencies[(IF (n * 95) \div 100 < n THEN (n * 95) \div 100 ELSE n - 1) + 1] ELSE latencies[1],
             retries |-> Len(SelectSeq(calls, LAMBDA c : c.attempt > 1))]
\* on_run_complete: what is filled into result.usage.
Usage(calls) ==
    LET latencies == SortSeq([i \in DOMAIN calls |-> calls[i].latency], <)
        n == Len(latencies)
    IN IF n = 0 THEN None
       ELSE [p50 |-> latencies[(n \div 2) + 1],
             p95 |-> IF n >= 2 THEN latencies[(IF (n * 95) \div 100 < n THEN (n * 95) \div 100 ELSE n - 1) + 1] ELSE latencies[1],
             retries |-> Len(SelectSeq(calls, LAMBDA c : c.attempt > 1))]

CallsOf(r) == IF r \in DOMAIN perRun THEN perRun[r] ELSE <<>>
\* Mutant of Popped: what is told of a run is kept.
Popped_Kept(r) == perRun
Popped(r) == [q \in DOMAIN perRun \ {r} |-> perRun[q]]

Complete(r) ==
    /\ phase[r] = "running"
    /\ result' = [result EXCEPT ![r] = [how |-> "completed", usage |-> Usage(CallsOf(r)), calls |-> CallsOf(r), stop |-> "completed",
                                        details |-> <<>>, snapshot |-> None]]
    /\ perRun' = Popped(r)
    /\ phase' = [phase EXCEPT ![r] = "done"]
    /\ UNCHANGED <<context, chain, error, made>>

\* transfer, or a cancelled run: nobody tells the plugin.
Leave(r, how) ==
    /\ phase[r] = "running" \/ (phase[r] = "waiting" /\ how = "cancelled")
    /\ phase' = [phase EXCEPT ![r] = "done"]
    /\ result' = [result EXCEPT ![r] = [how |-> how, usage |-> None, calls |-> <<>>,
                                        stop |-> IF how = "transfer" THEN "completed" ELSE "cancelled",
                                        details |-> <<>>, snapshot |-> None]]
    /\ UNCHANGED <<context, perRun, chain, error, made>>

Raise(r, e) ==
    /\ phase[r] = "running"
    /\ phase' = [phase EXCEPT ![r] = "failing"] /\ error' = [error EXCEPT ![r] = e]
    /\ UNCHANGED <<context, perRun, chain, result, made>>

(***************************************************************************)
(* Errors: the classes of the SDK by their codes, each with the class it   *)
(* is derived from and whether it says that it can be retried.             *)
(***************************************************************************)
Error(base, retryable) == [base |-> base, retryable |-> retryable]
Derived(codes, base, retryable) == [c \in codes |-> Error(base, retryable)]

RunErrors ==
    Derived({"config.error", "plugin.error", "execution.error"}, "openagents.error", FALSE)
    @@ Derived({"config.validation", "config.load"}, "config.error", FALSE)
    @@ Derived({"plugin.load", "plugin.config"}, "plugin.error", FALSE)
    @@ Derived({"execution.max_steps", "execution.budget_exhausted", "execution.output_validation",
                "session.error", "pattern.error"}, "execution.error", FALSE)
\* Mutant of ToolErrors: a time-out does not repeat that it can be retried.
ToolErrors_Silent ==
    Derived({"tool.retryable"}, "tool.error", TRUE) @@ Derived({"tool.error"}, "openagents.error", FALSE)
    @@ Derived({"tool.rate_limit", "tool.unavailable"}, "tool.retryable", TRUE)
    @@ Derived({"tool.timeout"}, "tool.retryable", FALSE)
    @@ Derived({"tool.permanent"}, "tool.error", FALSE)
    @@ Derived({"tool.not_found", "tool.validation", "tool.auth", "tool.cancelled"}, "tool.permanent", FALSE)
ToolErrors ==
    Derived({"tool.error"}, "openagents.error", FALSE)
    @@ Derived({"tool.retryable"}, "tool.error", TRUE) @@ Derived({"tool.permanent"}, "tool.error", FALSE)
    @@ Derived({"tool.timeout", "tool.rate_limit", "tool.unavailable"}, "tool.retryable", TRUE)
    @@ Derived({"tool.not_found", "tool.validation", "tool.auth", "tool.cancelled"}, "tool.permanent", FALSE)
LLMErrors ==
    Derived({"llm.error"}, "openagents.error", FALSE)
    @@ Derived({"llm.connection", "llm.rate_limit"}, "llm.error", TRUE)
    @@ Derived({"llm.response", "llm.model_retry"}, "llm.error", FALSE)
UserErrors ==
    Derived({"user.error"}, "openagents.error", FALSE)
    @@ Derived({"user.invalid_input", "user.agent_not_found"}, "user.error", FALSE)
SdkErrors == Derived({"openagents.error"}, None, FALSE) @@ RunErrors @@ ToolErrors @@ LLMErrors @@ UserErrors

Ours(class) == class \in DOMAIN SdkErrors
\* isinstance: the class and those it is derived from.
Bases[class \in DOMAIN SdkErrors \cup {None}] ==
    IF class = None THEN {} ELSE {class} \cup Bases[SdkErrors[class].base]

\* OpenAgentsError.to_dict, or what from_exception takes for another exception.
Detail(class) ==
    IF Ours(class) THEN [code |-> class, retryable |-> SdkErrors[class].retryable]
    ELSE [code |-> "error.unknown", retryable |-> FALSE]

\* An exception that is not of the SDK becomes a PatternError without a cause.
Wrapped(e) == IF Ours(e[1]) THEN e ELSE <<"pattern.error">>
\* Mutant of StopReason: it is that of the exception the run is told of.
StopReason_OfWrapped(e) ==
    LET is == Bases[Wrapped(e)[1]] IN
    CASE "execution.max_steps" \in is -> "max_steps"
      [] "execution.budget_exhausted" \in is -> "budget_exhausted"
      [] Wrapped(e)[1] = "TimeoutError" -> "timeout"
      [] OTHER -> "failed"
StopReason(e) ==
    LET is == Bases[Wrapped(e)[1]] IN
    CASE "execution.max_steps" \in is -> "max_steps"
      [] "execution.budget_exhausted" \in is -> "budget_exhausted"
      [] e[1] = "TimeoutError" -> "timeout"
      [] OTHER -> "failed"
\* ErrorDetails.from_exception: at most three causes.
Details(e) ==
    LET kept == SubSeq(e, 1, IF Len(e) > 4 THEN 4 ELSE Len(e))
    IN [i \in DOMAIN kept |-> Detail(kept[i])]

\* The lock is free by now; the snapshot is of the context that is there.
Fail(r) ==
    /\ phase[r] = "failing"
    /\ LET seen == context[Session[r]]
           e == error[r]
       IN result' = [result EXCEPT ![r] = [how |-> "failed", usage |-> Usage(CallsOf(r)), calls |-> CallsOf(r), stop |-> StopReason(e),
                                           details |-> Details(Wrapped(e)), snapshot |-> [of |-> seen, chain |-> chain[seen]]]]
    /\ perRun' = Popped(r)
    /\ phase' = [phase EXCEPT ![r] = "done"]
    /\ UNCHANGED <<context, chain, error, made>>

Next ==
    \E r \in Runs :
        \/ Begin(r) \/ Setup(r) \/ ToolCall(r) \/ Complete(r) \/ Fail(r)
        \/ \E l \in Latencies, attempt \in 1..2 : LlmCall(r, l, attempt)
        \/ \E how \in {"transfer", "cancelled"} : Leave(r, how)
        \/ \E e \in Errors : Raise(r, e)

Spec == Init /\ [][Next]_vars

\* Runtime.run: what it does with the result.
Raises(r) == result[r].stop = "failed"
-----------------------------------------------------------------------------
\* record_llm_call, on_run_complete: of a run that ends with a result the plugin
\* has heard of every call, once, also with other runs around; the percentiles
\* are of those calls and in order; what it still holds of runs that have ended
\* is of those that were transferred or cancelled.  What is told of a failure says
\* that it can be retried if and only if a durable run would have resumed from it,
\* and a tool error says what its family does.
DiagnosticsFaithful ==
    /\ \A r \in Runs : result[r] # None /\ result[r].how \in {"completed", "failed"} =>
          /\ Len(SelectSeq(result[r].calls, LAMBDA c : c.run = r)) = made[r]
          /\ (result[r].usage = None) = (result[r].calls = <<>>)
          /\ result[r].usage # None =>
                /\ result[r].usage.p50 <= result[r].usage.p95
                /\ \A i \in DOMAIN result[r].calls : Len(result[r].calls) < 20 => result[r].calls[i].latency <= result[r].usage.p95
    /\ \A r \in DOMAIN perRun : r \in Active \/ result[r].how \in {"transfer", "cancelled"}
    /\ \A r \in Runs : result[r] # None /\ result[r].how = "failed" =>
          /\ error[r][1] = "TimeoutError" => result[r].stop = "timeout"
          /\ result[r].details[1].code # "error.unknown"
          /\ result[r].details[1].retryable = (Ours(error[r][1]) /\ SdkErrors[error[r][1]].retryable)
          /\ LET is == Bases[Wrapped(error[r])[1]] IN
                /\ "tool.retryable" \in is => result[r].details[1].retryable
                /\ "tool.permanent" \in is => ~result[r].details[1].retryable

\* Statements of the documentation that the code does not meet (README,
\* Disagreements); no run checks them.

\* Metrics of concurrent runs are isolated.
MetricsAreOwn == \A r \in Runs : \A i \in DOMAIN CallsOf(r) : CallsOf(r)[i].run = r
\* Data of a run is removed when it ends.
NothingKept == DOMAIN perRun \subseteq Active
\* A snapshot is of the run that failed.
SnapshotOfRun == \A r \in Runs : result[r] # None /\ result[r].snapshot # None => result[r].snapshot.of = r
\* An error keeps its cause.
CausesKept == \A r \in Runs : result[r] # None /\ result[r].how = "failed" => Len(result[r].details) >= Len(error[r])
\* A run that failed raises.
ErrorsRaised == \A r \in Runs : result[r] # None /\ result[r].how = "failed" => Raises(r)
=============================================================================
