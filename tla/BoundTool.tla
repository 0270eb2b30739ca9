------------------------------ MODULE BoundTool ------------------------------
(***************************************************************************)
(* _BoundTool, which the runtime puts between a pattern and a tool: its     *)
(* budget, its approval gate, the hooks around a call and what is counted,  *)
(* for the single calls, batches and background jobs that a run makes one   *)
(* after another.  call_tool() is modelled for its share of the counting.   *)
(* A refused run may be repeated by the application, which then brings its  *)
(* decisions on the calls it was asked about.                              *)
(***************************************************************************)
EXTENDS Naturals, FiniteSets

CONSTANTS
    Gates,          \* what requires_approval() may do: "yes", "no", "raises"
    Wildcards,      \* approvals["*"]: "allow", "deny" or "none"
    MaxToolCalls,   \* budget.max_tool_calls
    MaxCalls,       \* bound on the calls of all runs
    MaxRuns         \* bound on the repetitions of the run

VARIABLES
    gate, wildcard,   \* of the tool and of the request
    approvals,        \* the call ids the application has allowed
    run, calls,
    at,               \* where the current operation is
    tool_calls,       \* ctx.usage.tool_calls, and what it was before the call
    before,
    asked,            \* the ids of tool.approval_needed events of this run
    open,             \* hooks: before_invoke returned, after_invoke not called yet
    hooked,           \* calls of after_invoke without a before_invoke, or a second one
    succeeded         \* single calls whose executor reported success in this run

usage == <<tool_calls, before>>
hooks == <<open, hooked>>
request == <<gate, wildcard, approvals, run>>
vars == <<request, calls, at, usage, asked, hooks, succeeded>>

Init ==
    /\ gate \in Gates /\ wildcard \in Wildcards
    /\ approvals = {} /\ run = 1 /\ calls = 0
    /\ at = "idle"
    /\ tool_calls = 0 /\ before = 0
    /\ asked = {}
    /\ open = FALSE /\ hooked = 0
    /\ succeeded = 0

\* uuid4: no call ever has the id of another.
CallId == <<run, calls>>

(***************************************************************************)
(* invoke().                                                               *)
(***************************************************************************)
OverBudget == tool_calls >= MaxToolCalls

\* An allow for this call, or for all, or no need of one; a check that raises
\* needs none.
NeedsApproval == gate = "yes"
Decision ==
    IF CallId \in approvals THEN "allow" ELSE wildcard

\* call_tool() looks at the counter, and the budget and the gate are passed or not.
Invoke ==
    /\ at = "idle" /\ calls < MaxCalls
    /\ before' = tool_calls
    /\ calls' = calls + 1
    /\ at' = IF OverBudget THEN "idle" ELSE "gate"
    /\ UNCHANGED <<request, tool_calls, asked, hooks, succeeded>>

Gate ==
    /\ at = "gate"
    /\ asked' = IF NeedsApproval THEN asked \cup {CallId} ELSE asked
    /\ at' = IF NeedsApproval /\ Decision # "allow" THEN "refused" ELSE "before"
    /\ UNCHANGED <<request, calls, usage, hooks, succeeded>>

\* The run goes on after a refusal, if its pattern takes the error.
Refused ==
    /\ at = "refused"
    /\ at' = "idle"
    /\ UNCHANGED <<request, calls, usage, asked, hooks, succeeded>>

\* before_invoke(), outside the try: if it raises, after_invoke() is not due.
Before(next) ==
    /\ \/ at' = next /\ open' = TRUE
       \/ at' = "idle" /\ UNCHANGED open
    /\ UNCHANGED <<request, calls, usage, asked, hooked, succeeded>>

BeforeInvoke == at = "before" /\ Before("executing")

Counted == tool_calls + 1

\* The executor reports success or failure, or its caller is cancelled.
Execute ==
    /\ at = "executing"
    /\ \/ /\ tool_calls' = Counted
          /\ succeeded' = succeeded + 1
          /\ at' = "after_success"
       \/ at' = "after_failure" /\ UNCHANGED <<tool_calls, succeeded>>
    /\ UNCHANGED <<request, calls, before, asked, hooks>>

\* Mutant of HookDue: a failed call has no after_invoke().
HookDue_OnSuccess == at = "after_success"

HookDue == at \in {"after_success", "after_failure"}

\* after_invoke() in the finally; its own exceptions are dropped.
AfterInvoke ==
    /\ at \in {"after_success", "after_failure"}
    /\ IF HookDue THEN open' = FALSE /\ hooked' = (IF open THEN hooked ELSE hooked + 1)
                  ELSE UNCHANGED hooks
    /\ at' = IF at = "after_success" THEN "returned" ELSE "idle"
    /\ UNCHANGED <<request, calls, usage, asked, succeeded>>

\* Mutant of Uncounted: call_tool counts whatever the tool has counted.
Uncounted_Any == TRUE

Uncounted == tool_calls = before

\* call_tool() counts a success that nobody has counted.
Return ==
    /\ at = "returned"
    /\ tool_calls' = IF Uncounted THEN tool_calls + 1 ELSE tool_calls
    /\ at' = "idle"
    /\ UNCHANGED <<request, calls, before, asked, hooks, succeeded>>

(***************************************************************************)
(* invoke_batch() and invoke_background(): neither gate nor budget nor      *)
(* count; the job has the hooks.                                           *)
(***************************************************************************)
Batch ==
    /\ at = "idle" /\ calls < MaxCalls
    /\ calls' = calls + 1
    /\ UNCHANGED <<request, at, usage, asked, hooks, succeeded>>

Background ==
    /\ at = "idle" /\ calls < MaxCalls
    /\ calls' = calls + 1
    /\ at' = "job_before"
    /\ UNCHANGED <<request, usage, asked, hooks, succeeded>>

BeforeJob == at = "job_before" /\ Before("submitting")

Submit ==
    /\ at = "submitting"
    /\ at' = "after_failure"
    /\ UNCHANGED <<request, calls, usage, asked, hooks, succeeded>>

(***************************************************************************)
(* The application repeats the run and allows what it was asked about.      *)
(***************************************************************************)
RunAgain ==
    /\ at = "refused"
    /\ run < MaxRuns
    /\ run' = run + 1
    /\ approvals' = approvals \cup asked
    /\ asked' = {}
    /\ tool_calls' = 0 /\ before' = 0 /\ succeeded' = 0 /\ calls' = 0
    /\ at' = "idle"
    /\ UNCHANGED <<gate, wildcard, hooks>>

Next ==
    \/ Invoke \/ Gate \/ Refused \/ BeforeInvoke \/ Execute \/ AfterInvoke \/ Return
    \/ Batch \/ Background \/ BeforeJob \/ Submit \/ RunAgain

Spec == Init /\ [][Next]_vars

(***************************************************************************)
(* Properties.                                                             *)
(***************************************************************************)
\* The usage of a run counts every successful call once, though both the bound
\* tool and call_tool() count, and its budget is never exceeded by single calls.
CountedOnce ==
    /\ at \in {"idle", "refused"} => tool_calls = succeeded
    /\ succeeded <= MaxToolCalls

\* Whatever becomes of a call or a job, an after_invoke() follows every
\* before_invoke() that returned, once, and before the next call.
HooksBracket ==
    /\ hooked = 0
    /\ at \in {"idle", "gate", "before", "refused", "job_before"} => ~open
=============================================================================
