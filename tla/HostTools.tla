------------------------------ MODULE HostTools ------------------------------
(***************************************************************************)
(* The builtin tools that reach beyond the event loop, as the calls of one *)
(* run see them: files and the environment, changed before anything else   *)
(* runs; commands, which are processes of their own; HTTP requests, in     *)
(* threads.  The executor may time a call out and try it again, the run    *)
(* may be cancelled, or crash and be resumed from a checkpoint.  What a    *)
(* process or a thread does, it does once, at some time.                   *)
(***************************************************************************)
EXTENDS Naturals, FiniteSets

CONSTANTS
    Calls,
    Setups,       \* [asks, durable, retries, timed, passthrough]: the tool of each call
                  \* or "none", the run, the executor, shell_exec
    Keys,         \* of the environment
    MaxAttempts,  \* of a call, those after a crash included (bound)
    MaxCrashes    \* (bound)

VARIABLES
    setup,
    call,     \* of a call: where it is, attempts, tries since it began, answer, env
    job,      \* of a call's attempt: its process or its request
    effects,  \* the attempts that have changed something
    present,  \* the file that they are about
    env,      \* os.environ
    warned,   \* tools with a run.durable_idempotency_warning
    crashes

vars == <<setup, call, job, effects, present, env, warned, crashes>>

Attempts == 1..MaxAttempts
NoCall == [at |-> "new", attempt |-> 0, tries |-> 0, answer |-> "none", env |-> {}]

\* The tools' durable_idempotent.
\* Mutant of Idempotent: a request is taken to be repeatable.
Idempotent_Requests(tool) ==
    tool \notin {"write_file", "delete_file", "set_env", "shell_exec", "execute_command"}
Idempotent(tool) ==
    tool \notin {"write_file", "delete_file", "set_env", "shell_exec", "execute_command", "http_request"}

Init ==
    /\ setup \in Setups
    /\ call = [c \in Calls |-> NoCall]
    /\ job = [c \in Calls |-> [n \in Attempts |-> "none"]]
    /\ effects = {} /\ present \in BOOLEAN /\ env \in SUBSET Keys
    /\ warned = {} /\ crashes = 0

Tool(c) == setup.asks[c]
Set(c, changes) == call' = [call EXCEPT ![c] = changes]
Job(c, state) == job' = [job EXCEPT ![c][call[c].attempt] = state]
Over(c, answer) == Set(c, [call[c] EXCEPT !.at = "over", !.answer = answer])
Changes(c) == effects' = effects \cup {<<c, call[c].attempt>>}

\* _BoundTool.invoke: the warning comes first, and once for a tool.
Begin(c) ==
    /\ call[c].at = "new" /\ Tool(c) # "none" /\ call[c].attempt < MaxAttempts
    /\ Set(c, [call[c] EXCEPT !.at = "due", !.attempt = @ + 1, !.tries = 1, !.answer = "none"])
    /\ warned' = IF setup.durable /\ ~Idempotent(Tool(c)) THEN warned \cup {Tool(c)} ELSE warned
    /\ UNCHANGED <<setup, job, effects, present, env, crashes>>

Due(c, tool) == call[c].at = "due" /\ Tool(c) = tool

\* Tools that do not suspend.  A write that fails has truncated the file, or not.
WriteFile(c) ==
    /\ Due(c, "write_file")
    /\ \/ present' = TRUE /\ Changes(c) /\ \E answer \in {"ok", "failed"} : Over(c, answer)
       \/ Over(c, "failed") /\ UNCHANGED <<effects, present>>
    /\ UNCHANGED <<setup, job, env, warned, crashes>>

\* Mutant of DeleteFile: the file is not looked for.
DeleteFile_Blind(c) ==
    /\ Due(c, "delete_file")
    /\ present' = FALSE /\ Changes(c) /\ Over(c, "ok")
    /\ UNCHANGED <<setup, job, env, warned, crashes>>
DeleteFile(c) ==
    /\ Due(c, "delete_file")
    /\ \/ present /\ present' = FALSE /\ Changes(c) /\ Over(c, "ok")
       \/ Over(c, "failed") /\ UNCHANGED <<effects, present>>
    /\ UNCHANGED <<setup, job, env, warned, crashes>>

ReadFile(c) ==
    /\ Due(c, "read_file")
    /\ \E answer \in (IF present THEN {"ok", "failed"} ELSE {"failed"}) : Over(c, answer)
    /\ UNCHANGED <<setup, job, effects, present, env, warned, crashes>>

SetEnv(c) ==
    /\ Due(c, "set_env")
    /\ \E k \in Keys : env' = env \cup {k}
    /\ Changes(c) /\ Over(c, "ok")
    /\ UNCHANGED <<setup, job, present, warned, crashes>>

\* What a child finds in its environment; an empty choice is none at all.
ChildEnv(tool, own) ==
    LET chosen == (setup.passthrough \cap env) \cup own
    IN IF tool = "shell_exec" /\ chosen # {} THEN chosen ELSE env

\* A process or a request is under way; a command that is empty, not on the
\* allowlist or not found, and a request without url or method, is not.
Launch(c) ==
    /\ \E tool \in {"shell_exec", "execute_command", "http_request"} : Due(c, tool)
    /\ \/ \E own \in (IF Tool(c) = "shell_exec" THEN {{}, Keys} ELSE {{}}) :
              Set(c, [call[c] EXCEPT !.at = "waiting", !.env = ChildEnv(Tool(c), own)])
          /\ Job(c, "running")
       \/ Over(c, "failed") /\ UNCHANGED job
    /\ UNCHANGED <<setup, effects, present, env, warned, crashes>>

\* A search is a request of the loop's own that changes nothing and goes with
\* its call.
Search(c) ==
    /\ Due(c, "tavily_search")
    /\ Set(c, [call[c] EXCEPT !.at = "waiting"])
    /\ UNCHANGED <<setup, job, effects, present, env, warned, crashes>>
Found(c) ==
    /\ call[c].at = "waiting" /\ Tool(c) = "tavily_search"
    /\ \E answer \in {"ok", "failed"} : Over(c, answer)
    /\ UNCHANGED <<setup, job, effects, present, env, warned, crashes>>

\* A process, or the server of a request even when nobody waits for it, does
\* what it was asked to do, and ends, having done it or not.
Happens(c, n) ==
    /\ job[c][n] = "running" \/ (job[c][n] = "left" /\ Tool(c) = "http_request")
    /\ <<c, n>> \notin effects
    /\ effects' = effects \cup {<<c, n>>}
    /\ UNCHANGED <<setup, call, job, present, env, warned, crashes>>
Ends(c, n) ==
    /\ job[c][n] = "running"
    /\ job' = [job EXCEPT ![c][n] = "ended"]
    /\ UNCHANGED <<setup, call, effects, present, env, warned, crashes>>

Collect(c) ==
    /\ call[c].at = "waiting" /\ job[c][call[c].attempt] = "ended"
    /\ Over(c, "ok")
    /\ UNCHANGED <<setup, job, effects, present, env, warned, crashes>>

\* The tools' own timeouts: shell_exec kills its child and tells so;
\* execute_command raises; a request is given up, and its answer tells that.
\* Mutant of ShellTimesOut: the child is left to itself.
ShellTimesOut_Alive(c) ==
    /\ call[c].at = "waiting" /\ Tool(c) = "shell_exec"
    /\ Over(c, "timed_out") /\ UNCHANGED <<setup, job, effects, present, env, warned, crashes>>
ShellTimesOut(c) ==
    /\ call[c].at = "waiting" /\ Tool(c) = "shell_exec"
    /\ Job(c, "ended") /\ Over(c, "timed_out")
    /\ UNCHANGED <<setup, effects, present, env, warned, crashes>>
CommandTimesOut(c) ==
    /\ call[c].at = "waiting" /\ Tool(c) = "execute_command"
    /\ Over(c, "failed")
    /\ UNCHANGED <<setup, job, effects, present, env, warned, crashes>>
RequestFails(c) ==
    /\ call[c].at = "waiting" /\ Tool(c) = "http_request" /\ job[c][call[c].attempt] = "running"
    /\ Job(c, "left") /\ Over(c, "error")
    /\ UNCHANGED <<setup, effects, present, env, warned, crashes>>

\* SafeToolExecutor's timeout cancels the task of the tool, not what it
\* started; a ToolTimeoutError is the one answer here that is tried again.
Expire(c) ==
    /\ call[c].at = "waiting" /\ setup.timed
    /\ IF call[c].tries < setup.retries /\ call[c].attempt < MaxAttempts
         THEN Set(c, [call[c] EXCEPT !.at = "due", !.attempt = @ + 1, !.tries = @ + 1])
         ELSE Over(c, "expired")
    /\ UNCHANGED <<setup, job, effects, present, env, warned, crashes>>

Cancel(c) ==
    /\ call[c].at \in {"due", "waiting"}
    /\ Over(c, "cancelled")
    /\ UNCHANGED <<setup, job, effects, present, env, warned, crashes>>

\* The process of the run goes and its threads with it; the run is resumed, and
\* what came after the last checkpoint is asked for again.  Its children stay.
Crash ==
    /\ setup.durable /\ crashes < MaxCrashes
    /\ crashes' = crashes + 1
    /\ \E again \in SUBSET {c \in Calls : call[c].at = "over"} :
          call' = [c \in Calls |-> IF c \in again \/ call[c].at \in {"due", "waiting"}
                                   THEN [call[c] EXCEPT !.at = "new", !.answer = "none"] ELSE call[c]]
    /\ job' = [c \in Calls |-> [n \in Attempts |->
                   IF Tool(c) = "http_request" /\ job[c][n] = "running" THEN "left" ELSE job[c][n]]]
    /\ env' \in SUBSET Keys
    /\ UNCHANGED <<setup, effects, present, warned>>

Next ==
    \/ \E c \in Calls : \/ Begin(c)
                        \/ WriteFile(c) \/ DeleteFile(c) \/ ReadFile(c) \/ SetEnv(c)
                        \/ Launch(c) \/ Search(c) \/ Found(c) \/ Collect(c)
                        \/ ShellTimesOut(c) \/ CommandTimesOut(c) \/ RequestFails(c)
                        \/ Expire(c) \/ Cancel(c)
                        \/ \E n \in Attempts : Happens(c, n) \/ Ends(c, n)
    \/ Crash

Spec == Init /\ [][Next]_vars
-----------------------------------------------------------------------------
Of(tool) == {e \in effects : Tool(e[1]) = tool}

\* In a durable run, a call that has changed something twice is one the
\* application was warned of: after a crash, and after a timeout.
RepeatedIsWarned ==
    setup.durable =>
        \A c \in Calls : Cardinality({e \in effects : e[1] = c}) > 1 => Tool(c) \in warned

\* What has answered is over: the child of a shell_exec call that answered, one
\* that it timed out included, and the request of a call that was answered.
AnsweredIsOver ==
    \A c \in Calls :
        Tool(c) \in {"shell_exec", "execute_command", "http_request"} /\ call[c].answer \in {"ok", "timed_out"}
            => job[c][call[c].attempt] = "ended"

\* A file is deleted once for each time it came to be.
DeletedOnce == Cardinality(Of("delete_file")) <= Cardinality(Of("write_file")) + 1

HostFaithful == RepeatedIsWarned /\ AnsweredIsOver /\ DeletedOnce

\* Statements of the documentation that the code does not meet (README,
\* Disagreements); no run checks them.

\* ShellExecTool: "Does not inherit full environment."
EnvNarrow ==
    \A c \in Calls : Tool(c) = "shell_exec" => call[c].env \subseteq setup.passthrough

\* SetEnvTool: the variable is "not exported to children".
SetEnvStays ==
    \A c \in Calls : Tool(c) = "execute_command" => call[c].env = {}

\* ExecuteCommandTool: "run a command with timeout".
CommandsTimed ==
    \A c \in Calls : Tool(c) = "execute_command" /\ call[c].answer = "failed" =>
        job[c][call[c].attempt] # "running"
=============================================================================
