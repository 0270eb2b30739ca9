------------------------------ MODULE ToolGate ------------------------------
(***************************************************************************)
(* What stands between a run and its tools: the preflight of every tool,     *)
(* whose successes a session remembers, the execution policies in front of a *)
(* call, alone or composed, the executor's answer to what the tool raises,   *)
(* and the delays of the retrying executor.  A run makes one call.           *)
(***************************************************************************)
EXTENDS Integers, Sequences, FiniteSets

CONSTANTS
    Setups,         \* [tools, mode, children, request, retry], see below
    WriteTools,     \* the names that mean a write where the tool does not say
    PrivateHosts,
    Floors,         \* what an error's retry_after_ms may say
    MaxRuns

\* Tools and policies are listed, every policy is one of those there are, and
\* neither delays nor floors are negative.
GateAssumption ==
    /\ Floors \subseteq Nat
    /\ \A s \in Setups :
          /\ Len(s.tools) \in Nat /\ DOMAIN s.tools = 1..Len(s.tools)
          /\ Len(s.children) \in Nat /\ DOMAIN s.children = 1..Len(s.children)
          /\ \A i \in DOMAIN s.children : s.children[i].kind \in {"files", "network", "broken"}
          /\ s.retry.attempts \in Nat /\ s.retry.initial \in Nat /\ s.retry.cap \in Nat
          /\ \A n \in 0..s.retry.attempts : s.retry.initial * s.retry.factor^n \in Nat
          /\ s.retry.jitter \in {"none", "full", "equal"}

VARIABLES
    setup,          \* the agent's tools, in order; the policies, each a record
                    \* with a kind, and how they are composed; the call, with its
                    \* tool, reads, writes, paths, scheme, host, streamed; the
                    \* executor's attempts, initial, factor, cap, jitter
    run, at,
    passed,         \* the tools whose preflight has succeeded in this session
    cached,         \* those the session's pool remembers
    told,           \* the tool.preflight events of this run
    asked,          \* the policies that have answered about the attempt under way
    attempt,
    delays,         \* what the executor slept, and the floor it was given
    outcome

gate == <<passed, cached, told>>
vars == <<setup, run, at, gate, asked, attempt, delays, outcome>>

AgentTools == setup.tools
request == setup.request
retry == setup.retry
Children == setup.children

Init ==
    /\ setup \in Setups
    /\ run = 1 /\ at = "preflight"
    /\ passed = {} /\ cached = {} /\ told = <<>>
    /\ asked = 0 /\ attempt = 0 /\ delays = <<>>
    /\ outcome = "none"

(***************************************************************************)
(* _run_tool_preflight, preflight_with_dedup                               *)
(***************************************************************************)
Checked == Len(told)
Looked == AgentTools[Checked + 1]
Checking == at = "preflight" /\ Checked < Len(AgentTools)

\* Mutant of Remembered: a failure is remembered as well.
Remembered_Always(how) == cached \cup {Looked}

Remembered(how) == IF how = "ok" THEN cached \cup {Looked} ELSE cached

\* A misconfiguration is a PermanentToolError, with an event of its own; any
\* other exception, a cancellation included, is raised without one.
Preflight ==
    /\ Checking
    /\ \/ /\ Looked \in cached
          /\ told' = Append(told, "cached-ok")
          /\ UNCHANGED <<at, passed, cached, outcome>>
       \/ /\ Looked \notin cached
          /\ \E how \in {"ok", "error", "raises"} :
                /\ cached' = Remembered(how)
                /\ passed' = IF how = "ok" THEN passed \cup {Looked} ELSE passed
                /\ told' = IF how = "raises" THEN told ELSE Append(told, how)
                /\ IF how = "ok" THEN UNCHANGED <<at, outcome>>
                                 ELSE at' = "over" /\ outcome' = "refused"
    /\ UNCHANGED <<setup, run, asked, attempt, delays>>

Execute ==
    /\ at = "preflight" /\ Checked = Len(AgentTools)
    /\ at' = "asking"
    /\ UNCHANGED <<setup, run, gate, asked, attempt, delays, outcome>>

(***************************************************************************)
(* The policies.                                                           *)
(***************************************************************************)
\* Mutant of Silent: a tool that does not say what it does is a reader.
Silent_Reads(q) == FALSE

\* The tool's name tells, where its execution_spec() says neither.
Silent(q) == ~q.reads /\ ~q.writes /\ q.tool \in WriteTools
Writes(q) == q.writes \/ Silent(q)
Reads(q) == q.reads \/ ~Writes(q)

\* No roots, or blank ones only, restrict nothing.
Roots(dirs) == dirs \ {"blank"}
Within(paths, dirs) == Roots(dirs) = {} \/ paths \subseteq Roots(dirs)

FilesAllow(p, q) ==
    /\ q.tool \notin p.deny
    /\ p.allow = {} \/ q.tool \in p.allow
    /\ Writes(q) => Within(q.paths, p.write)
    /\ Reads(q) => Within(q.paths, p.read)

NetworkAllows(p, q) ==
    \/ q.tool \notin p.tools
    \/ /\ q.host # "missing"
       /\ q.scheme \in p.schemes
       /\ ~(p.private /\ q.host \in PrivateHosts)
       /\ q.host \in p.hosts

Judge(p, q) ==
    CASE p.kind = "files" -> IF FilesAllow(p, q) THEN "allow" ELSE "deny"
      [] p.kind = "network" -> IF NetworkAllows(p, q) THEN "allow" ELSE "deny"
      [] p.kind = "broken" -> "raise"

\* Mutant of Decided: a policy that raises is passed over.
Decided_Skips(answer) ==
    \/ setup.mode = "all" /\ answer = "deny"
    \/ setup.mode = "any" /\ answer = "allow"

\* The answer of one policy that decides for all: one that raises always denies.
Decided(answer) ==
    \/ answer = "raise"
    \/ setup.mode = "all" /\ answer = "deny"
    \/ setup.mode = "any" /\ answer = "allow"

\* Nobody has decided: "all" allows and "any" denies, unless there is nobody.
AtEnd == IF setup.mode = "all" \/ Children = <<>> THEN "allow" ELSE "deny"

Denied == at' = "over" /\ outcome' = IF request.streamed THEN "raised" ELSE "denied"

Ask ==
    /\ at = "asking"
    /\ \/ /\ asked < Len(Children)
          /\ LET answer == Judge(Children[asked + 1], request) IN
             /\ asked' = asked + 1
             /\ CASE ~Decided(answer) -> UNCHANGED <<at, outcome>>
                  [] Decided(answer) /\ answer = "allow" -> at' = "invoking" /\ UNCHANGED outcome
                  [] Decided(answer) /\ answer # "allow" -> Denied
       \/ /\ asked = Len(Children)
          /\ UNCHANGED asked
          /\ IF AtEnd = "allow" THEN at' = "invoking" /\ UNCHANGED outcome ELSE Denied
    /\ UNCHANGED <<setup, run, gate, attempt, delays>>

(***************************************************************************)
(* The call and its retries.                                               *)
(***************************************************************************)
Least(a, b) == IF a < b THEN a ELSE b
Most(a, b) == IF a < b THEN b ELSE a

\* Mutant of Backoff: the cap is forgotten.
Backoff_Uncapped(n) == retry.initial * retry.factor^n

Backoff(n) == Least(retry.initial * retry.factor^n, Most(retry.initial, retry.cap))

\* What _delay_for(attempt, exc) may return.
DelayFor(n, floor) ==
    LET d == Most(Backoff(n), floor) IN
    CASE retry.jitter = "none" -> {d}
      [] retry.jitter = "full" -> 0 .. d
      [] retry.jitter = "equal" -> (d \div 2) .. 2 * (d \div 2)

\* A ToolError is answered as it is, any other exception as a ToolError; only
\* one that says retryable is tried again, never in a stream.
Invoke ==
    /\ at = "invoking"
    /\ \/ \E end \in {"success", "ToolError"} :
             /\ outcome' = IF request.streamed /\ end # "success" THEN "raised" ELSE end
             /\ at' = "over" /\ UNCHANGED <<asked, attempt, delays>>
       \/ \E floor \in Floors :
             IF request.streamed \/ attempt + 1 >= retry.attempts
               THEN /\ outcome' = IF request.streamed THEN "raised" ELSE "retryable"
                    /\ at' = "over" /\ UNCHANGED <<asked, attempt, delays>>
               ELSE /\ \E d \in DelayFor(attempt, floor) : delays' = Append(delays, <<d, floor>>)
                    /\ attempt' = attempt + 1
                    /\ asked' = 0 /\ at' = "asking"
                    /\ UNCHANGED outcome
    /\ UNCHANGED <<setup, run, gate>>

\* The next run of the session, or of a session whose pool was closed.
RunAgain ==
    /\ at = "over" /\ run < MaxRuns
    /\ run' = run + 1 /\ at' = "preflight"
    /\ \/ UNCHANGED <<passed, cached>>
       \/ cached' = {} /\ passed' = {}
    /\ told' = <<>>
    /\ asked' = 0 /\ attempt' = 0 /\ delays' = <<>> /\ outcome' = "none"
    /\ UNCHANGED setup

Next == Preflight \/ Execute \/ Ask \/ Invoke \/ RunAgain

Spec == Init /\ [][Next]_vars

(***************************************************************************)
(* Properties.                                                             *)
(***************************************************************************)
ToolSet == {AgentTools[i] : i \in DOMAIN AgentTools}

\* No run reaches its pattern before every tool of the agent has passed a
\* preflight in this session, and a tool that failed is looked at again.
PreflightFirst ==
    /\ at \in {"asking", "invoking"} => ToolSet \subseteq passed
    /\ cached \subseteq passed

\* A reader of the policies would say that the call is permitted: nobody is
\* asked in vain, and a policy that cannot answer has not agreed.
EffectPermitted(p, q) ==
    /\ p.kind # "broken"
    /\ p.kind = "files" =>
          /\ q.tool \notin p.deny /\ (p.allow = {} \/ q.tool \in p.allow)
          /\ \A path \in q.paths :
                /\ (q.writes \/ (q.tool \in WriteTools /\ ~q.reads)) /\ Roots(p.write) # {} => path \in p.write
                /\ q.reads /\ Roots(p.read) # {} => path \in p.read
    /\ p.kind = "network" /\ q.tool \in p.tools => q.host \in p.hosts /\ ~(p.private /\ q.host \in PrivateHosts)

Permitted ==
    LET agree == {i \in DOMAIN Children : EffectPermitted(Children[i], request)} IN
    IF setup.mode = "all" THEN agree = DOMAIN Children
    ELSE Children = <<>> \/ \E i \in agree : \A j \in 1..i : Children[j].kind # "broken"

\* Every attempt of a call passes the policies, however they are composed.
OnlyPermitted == (at = "invoking" \/ outcome \in {"success", "retryable", "ToolError"}) => Permitted

\* A delay is never beyond its cap, or the floor the server gave.
DelaysBounded ==
    \A i \in DOMAIN delays : delays[i][1] <= Most(Most(retry.initial, retry.cap), delays[i][2])

GateFaithful == PreflightFirst /\ OnlyPermitted /\ DelaysBounded

\* Statements of the documentation that the code does not meet (README,
\* Disagreements); no run checks them.

\* The docstring of the retrying executor: retry_after_ms "is used as a floor
\* for the computed delay".  Jitter goes below it.
FloorsKept == \A i \in DOMAIN delays : delays[i][1] >= delays[i][2]
=============================================================================
