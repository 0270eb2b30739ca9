--------------------------- MODULE ToolExecution ---------------------------
(***************************************************************************)
(* A batch of tool calls: call_tool_batch and invoke_batch, which group it  *)
(* by tool, the batch executor, which runs concurrency-safe calls side by   *)
(* side, the retrying executor, and the executor that runs a tool against a *)
(* timeout and the run's cancel event.  A single call is a batch of one.    *)
(*                                                                         *)
(* A tool runs in a task of its own, which ends as the tool likes: it may   *)
(* swallow a cancellation and go on.  Tools that raise CancelledError       *)
(* unasked are left out.                                                   *)
(***************************************************************************)
EXTENDS Naturals, FiniteSets

CONSTANTS
    N,              \* calls in the batch, in its order
    Group,          \* per call: its tool, tools counted in order of appearance
    SafeCalls,      \* the calls whose tool says concurrency_safe
    Blocks,         \* the calls whose tool says interrupt_behavior = "block"
    Setups,         \* the executors that may be configured
    MaxConcurrency,
    MaxAttempts     \* of RetryToolExecutor, 1 without it

Items == 1..N

ASSUME ToolAssumption ==
    /\ N \in Nat
    /\ Group \in [Items -> Nat]
    /\ SafeCalls \subseteq Items
    /\ Blocks \subseteq Items
    /\ Setups \subseteq [safely: BOOLEAN, timed: BOOLEAN, concurrent: BOOLEAN]
    /\ MaxConcurrency \in Nat \ {0}
    /\ MaxAttempts \in Nat \ {0}

VARIABLES
    setup,     \* the executor of this batch, which never changes
    caller,    \* the task that runs the batch
    event,     \* is the run's cancel event set?
    stage,     \* where the execute() of each call is
    tool,      \* the task of the tool, in the call's last attempt
    reason,    \* why a call is stopping its tool
    attempts

\* SafeToolExecutor innermost or the runtime's default; is there a timeout? and
\* ConcurrentBatchExecutor outermost, or one call at a time.
Safely == setup.safely
Timed == setup.timed
Concurrent == setup.concurrent

vars == <<setup, caller, event, stage, tool, reason, attempts>>

Alive == {"running", "asked", "deaf"}
Ended == {"returned", "retryable", "failed", "plain", "cancelled"}

TypeOK ==
    /\ setup \in Setups
    /\ caller \in {"executing", "cancelling", "returned", "raised", "cancelled"}
    /\ event \in BOOLEAN
    /\ stage \in [Items -> {"waiting", "racing", "awaiting", "stopping", "backoff", "answered", "gone"}]
    /\ tool \in [Items -> {"idle"} \cup Alive \cup Ended]
    /\ reason \in [Items -> {"none", "timeout", "cancelled"}]
    /\ attempts \in [Items -> 0..MaxAttempts]

Init ==
    /\ setup \in Setups
    /\ caller = "executing"
    /\ event = FALSE
    /\ stage = [i \in Items |-> "waiting"]
    /\ tool = [i \in Items |-> "idle"]
    /\ reason = [i \in Items |-> "none"]
    /\ attempts = [i \in Items |-> 0]

(***************************************************************************)
(* Whose turn it is.                                                       *)
(***************************************************************************)
Done(i) == stage[i] \in {"answered", "gone"}
Active(i) == stage[i] \in {"racing", "awaiting", "stopping", "backoff"}

\* The calls of gather(): one group's, if the tool is safe.
Parallel(i) == Concurrent /\ i \in SafeCalls
Siblings(i) == {j \in Items : Group[j] = Group[i]}
Abreast(i) == {j \in Siblings(i) : Parallel(j)}

\* The semaphore of execute_batch, whose waiters are served in order; a call
\* that backs off keeps its place.
Admitted(i) ==
    /\ \A j \in Abreast(i) : j < i => stage[j] # "waiting"
    /\ Cardinality({j \in Abreast(i) : Active(j)}) < MaxConcurrency

\* The calls that run one by one, after the ones that run side by side.
InTurn(i) == \A j \in Siblings(i) : (Parallel(j) \/ j < i) /\ j # i => Done(j)

Turn(i) ==
    /\ caller = "executing"
    /\ \A j \in Items : Group[j] < Group[i] => Done(j)
    /\ IF Parallel(i) THEN Admitted(i) ELSE InTurn(i)

(***************************************************************************)
(* One attempt.  Without a timeout or an event to race with, execute() only *)
(* awaits the tool.  The runtime seeds the event for every run.            *)
(***************************************************************************)
Races == Safely

Launch(i) ==
    /\ stage' = [stage EXCEPT ![i] = IF Races THEN "racing" ELSE "awaiting"]
    /\ tool' = [tool EXCEPT ![i] = "running"]
    /\ attempts' = [attempts EXCEPT ![i] = @ + 1]
    /\ UNCHANGED <<setup, caller, event, reason>>

\* The policy or the validation of parameters says no.
Refused(i) ==
    /\ Safely
    /\ stage' = [stage EXCEPT ![i] = "answered"]
    /\ UNCHANGED <<setup, caller, event, tool, reason, attempts>>

Begin(i) ==
    /\ stage[i] = "waiting"
    /\ Turn(i)
    /\ Launch(i) \/ Refused(i)

\* A timeout is retryable, a cancellation is not.
MayRetry(i, what) == what \in {"retryable", "timeout"} /\ attempts[i] < MaxAttempts

\* The call has its answer, or tries again; the task of its tool is forgotten.
Settle(i, what) ==
    /\ stage' = [stage EXCEPT ![i] = IF MayRetry(i, what) THEN "backoff" ELSE "answered"]
    /\ reason' = [reason EXCEPT ![i] = "none"]
    /\ tool' = [tool EXCEPT ![i] = IF @ \in Alive THEN @ ELSE "idle"]

Retry(i) ==
    /\ stage[i] = "backoff"
    /\ Launch(i) \/ Refused(i)

(***************************************************************************)
(* The tool's task.                                                        *)
(***************************************************************************)
\* ToolErrors are retryable or not; "plain" is any other exception.
End(i) ==
    /\ tool[i] \in Alive
    /\ \E how \in Ended :
          /\ how = "cancelled" => tool[i] = "asked"
          /\ tool' = [tool EXCEPT ![i] = how]
    /\ UNCHANGED <<setup, caller, event, stage, reason, attempts>>

\* The tool catches its CancelledError and goes on.
Ignore(i) ==
    /\ tool[i] = "asked"
    /\ tool' = [tool EXCEPT ![i] = "deaf"]
    /\ UNCHANGED <<setup, caller, event, stage, reason, attempts>>

(***************************************************************************)
(* What execute() does when it wakes: the tool's end comes first, then the  *)
(* event, then the timeout.                                                *)
(***************************************************************************)
ResultOf(how) ==
    CASE how = "returned" -> "data"
      [] how = "retryable" -> "retryable"
      [] OTHER -> "permanent"

\* The default executor cannot put a plain exception in its result, and raises;
\* the batch executor turns that into an answer.
Escapes(i) == ~Safely /\ ~Concurrent /\ tool[i] = "plain"

Collect(i) ==
    /\ stage[i] \in {"racing", "awaiting"}
    /\ tool[i] \in Ended \ {"cancelled"}
    /\ ~Escapes(i)
    /\ Settle(i, ResultOf(tool[i]))
    /\ UNCHANGED <<setup, caller, event, attempts>>

Escape(i) ==
    /\ stage[i] = "awaiting"
    /\ Escapes(i)
    /\ stage' = [stage EXCEPT ![i] = "gone"]
    /\ caller' = "raised"
    /\ UNCHANGED <<setup, event, tool, reason, attempts>>

\* Mutant of Stop: the tool's task is not cancelled.
Stop_Uncancelled(i, why) ==
    /\ stage' = [stage EXCEPT ![i] = "stopping"]
    /\ reason' = [reason EXCEPT ![i] = why]
    /\ UNCHANGED tool

Stop(i, why) ==
    /\ stage' = [stage EXCEPT ![i] = "stopping"]
    /\ reason' = [reason EXCEPT ![i] = why]
    /\ tool' = [tool EXCEPT ![i] = "asked"]

\* A tool that blocks is awaited, whatever its timeout.
Interrupt(i) ==
    /\ stage[i] = "racing"
    /\ tool[i] \in Alive
    /\ event
    /\ IF i \in Blocks
       THEN stage' = [stage EXCEPT ![i] = "awaiting"] /\ UNCHANGED <<tool, reason>>
       ELSE Stop(i, "cancelled")
    /\ UNCHANGED <<setup, caller, event, attempts>>

TimeOut(i) ==
    /\ stage[i] = "racing"
    /\ tool[i] \in Alive
    /\ Timed
    /\ Stop(i, "timeout")
    /\ UNCHANGED <<setup, caller, event, attempts>>

\* Mutant of MayAnswer: the call is answered without awaiting the tool it stopped.
MayAnswer_AtOnce(i) == TRUE

MayAnswer(i) == tool[i] \in Ended

\* Whatever the tool's end was, the answer is why it was stopped.
Stopped(i) ==
    /\ stage[i] = "stopping"
    /\ MayAnswer(i)
    /\ Settle(i, reason[i])
    /\ UNCHANGED <<setup, caller, event, attempts>>

(***************************************************************************)
(* The caller.                                                             *)
(***************************************************************************)
\* The application sets the run's event.
SetEvent ==
    /\ ~event
    /\ event' = TRUE
    /\ UNCHANGED <<setup, caller, stage, tool, reason, attempts>>

\* Whose coroutine a cancellation of the caller reaches: gather() passes it to
\* all its calls.  It ends those that wait for the semaphore, for their race or
\* their backoff; one that awaits its tool passes it on to the tool, and one that
\* is stopping its tool takes it for the tool's own end.
Reached(i) ==
    IF Parallel(i) THEN {j \in Abreast(i) : ~Done(j)} ELSE {i}

EndsAtOnce(j) ==
    \/ stage[j] \in {"waiting", "racing", "backoff"}
    \/ stage[j] = "awaiting" /\ tool[j] \notin Alive

Cancel(i) ==
    /\ caller = "executing"
    /\ Active(i)
    /\ LET ending == {j \in Reached(i) : EndsAtOnce(j)} IN
       /\ stage' = [j \in Items |-> IF j \in ending THEN "gone" ELSE stage[j]]
       /\ tool' = [j \in Items |-> IF j \in Reached(i) \ ending /\ tool[j] \in Alive
                                   THEN "asked" ELSE tool[j]]
       /\ caller' = IF ending # {} THEN "cancelled"
                    ELSE IF Parallel(i) THEN "cancelling" ELSE caller
    /\ UNCHANGED <<setup, event, reason, attempts>>

\* The tool a call awaited has ended by the caller's cancellation.
Abandon(i) ==
    /\ stage[i] \in {"racing", "awaiting"}
    /\ tool[i] = "cancelled"
    /\ stage' = [stage EXCEPT ![i] = "gone"]
    /\ caller' = "cancelled"
    /\ UNCHANGED <<setup, event, tool, reason, attempts>>

\* gather() was cancelled and no call of its ended so.
Unwind ==
    /\ caller = "cancelling"
    /\ \A i \in Items : ~Active(i)
    /\ caller' = "cancelled"
    /\ UNCHANGED <<setup, event, stage, tool, reason, attempts>>

\* Mutant of AllAnswered: gather() returns with the calls still under way.
AllAnswered_Begun == \A i \in Items : stage[i] # "waiting"

\* No slot of the results is empty.
AllAnswered == \A i \in Items : stage[i] = "answered"

Return ==
    /\ caller = "executing"
    /\ AllAnswered
    /\ caller' = "returned"
    /\ UNCHANGED <<setup, event, stage, tool, reason, attempts>>

Next ==
    \/ \E i \in Items :
          \/ Begin(i)
          \/ Retry(i)
          \/ End(i)
          \/ Ignore(i)
          \/ Collect(i)
          \/ Escape(i)
          \/ Interrupt(i)
          \/ TimeOut(i)
          \/ Stopped(i)
          \/ Cancel(i)
          \/ Abandon(i)
    \/ SetEvent
    \/ Unwind
    \/ Return

Spec == Init /\ [][Next]_vars

\* The event loop runs what can run, timers fire, and a tool ends if it was asked
\* to, heard or not, or if nothing else bounds it.
Trusted(i) == ~Safely \/ ~Timed \/ i \in Blocks \/ tool[i] \in {"asked", "deaf"}

Advance(i) ==
    \/ Begin(i)
    \/ Retry(i)
    \/ Collect(i)
    \/ Escape(i)
    \/ Stopped(i)
    \/ Abandon(i)

FairSpec ==
    /\ Spec
    /\ \A i \in Items :
          /\ WF_vars(Advance(i))
          /\ WF_vars(TimeOut(i))
          /\ WF_vars(Trusted(i) /\ End(i))
    /\ WF_vars(Unwind)
    /\ WF_vars(Return)

(***************************************************************************)
(* Properties.                                                             *)
(***************************************************************************)
\* When a batch has returned, no task of its tools is running on: what timed out
\* or was cancelled has been awaited, in every attempt.
NothingRunsOn == caller = "returned" => \A i \in Items : tool[i] \notin Alive

\* Tools run at the same time only if they are calls of one tool that are safe to
\* run side by side, and no more than MaxConcurrency of them, tools that were
\* stopped or left behind included.
Overlap == {i \in Items : tool[i] \in Alive}

AloneUnlessSafe ==
    /\ \A i, j \in Overlap :
          i # j => Parallel(i) /\ Parallel(j) /\ Group[i] = Group[j]
    /\ Cardinality(Overlap) <= MaxConcurrency

\* A batch ends, with an answer for every call or by its caller's cancellation,
\* however its tools behave; only the default executor, without a batch executor
\* around it, lets a failing call take the others with it.
EveryBatchEnds ==
    <>(caller \in {"returned", "cancelled"} \/ (caller = "raised" /\ ~Safely /\ ~Concurrent))

(***************************************************************************)
(* What comments and docs say and the code does otherwise.                 *)
(***************************************************************************)
\* "Caller cancelled us from outside - propagate, don't mask" (safe.py).
CancelPropagates ==
    [][\A i \in Items : Cancel(i) => caller' \in {"cancelling", "cancelled"} \/ stage[i] # "stopping"]_vars

\* A batch that has ended makes no further attempts.
NoneStartsLater ==
    [][\A i \in Items : attempts'[i] # attempts[i] => caller = "executing"]_vars
=============================================================================
