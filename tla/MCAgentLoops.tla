---------------------------- MODULE MCAgentLoops ----------------------------
(* What happens between the model and the tools, as one instance with one    *)
(* initial choice of the part that is exercised: a batch of calls and their  *)
(* executors, the loop of a pattern, the calls of one bound tool, the        *)
(* memories of an agent, the preflight and the policies in front of its      *)
(* tools, the servers behind them, the tools that reach beyond the loop, or  *)
(* what the patterns put before the model.                                   *)
EXTENDS ToolExecution

CONSTANTS Tools, MaxSteps, MaxRetries, RetryLimit, Ceiling, CallCosts, MaxExecutes,
          Gates, Wildcards, MaxToolCalls, MaxCalls, MaxRuns, Parts, None

VARIABLES part,
    pattern, where, executes, step, retries, todo, conversation, said, noted, answer, recorded,
    ctx, refusals, spent, requested,
    gate, wildcard, approvals, run, calls, at, tool_calls, before, asked, open, hooked, succeeded,
    chain, on_error, turn, buffers, history, pending, file, index, remote, fallback, mem0, reached,
    queued, lost, torn, troubles,
    guard, session, stand, passed, cached, told, judged, attempt, delays, outcome,
    host, asking, job, effects, present, environ, warned, crashes, shown

\* Every executor there is; without the safe one a timeout means nothing.
AllSetups == {e \in [safely: BOOLEAN, timed: BOOLEAN, concurrent: BOOLEAN] : e.timed => e.safely}

\* Four calls of a tool and one of another.
Mixed == <<1, 1, 1, 1, 2>>

Patterns == {s \in [kind : {"react", "plan", "reflexion"}, native : BOOLEAN, llm : BOOLEAN,
                    tariff : {"uncapped", "unpriced", "priced"}] : s.llm \/ s.tariff = "uncapped"}

AskedNames == { <<"t1">>, <<"alias", "t1">>, <<"ghost">> }

Loop == INSTANCE PatternLoops WITH
    setup <- pattern, at <- where, Setups <- Patterns, Nameless <- "nameless",
    NameOf <- [t1 |-> "t1", t2 |-> "alias"],
    NamesAsked <- AskedNames,
    Plans <- { <<>>, <<"t1", "final">>, <<"note", "ghost", "malformed">>, <<"note", "t1", "t1", "final">> }

Bound == INSTANCE BoundTool

\* MemoryPlugins: chains in which members share a key or what is pending.
Memory(kind, key, max) == [kind |-> kind, key |-> key, max |-> max]
Buffer(key, max) == Memory("buffer", key, max)
Other(kind) == Memory(kind, "none", 0)
Chains ==
    {<<Buffer("h", 2), Other("markdown")>>, <<Other("markdown"), Buffer("h", 2)>>,
     <<Buffer("h", 1), Buffer("g", 0), Other("mem0")>>, <<Other("markdown"), Other("zep")>>,
     <<Other("zep"), Buffer("h", 1), Other("markdown")>>, <<Buffer("h", 2), Buffer("h", 0)>>}

StateKeys == {"h", "g"}
OnError == {"continue", "fail"}
Preferences == {"p1", "p2"}

Memories == INSTANCE MemoryPlugins WITH
    run <- turn, Keys <- StateKeys, Policies <- OnError, Prefs <- Preferences,
    Limit <- 1, MaxRuns <- 3, MaxTroubles <- 2

\* ToolGate: policies alone and in pairs before every kind of call; delays
\* below and above their cap; two tools to look at.
FilePolicy(deny, allow, read, write) ==
    [kind |-> "files", deny |-> deny, allow |-> allow, read |-> read, write |-> write]
WebPolicy(hosts, private) ==
    [kind |-> "network", tools |-> {"http"}, hosts |-> hosts, schemes |-> {"https"}, private |-> private]
Policies ==
    {FilePolicy({"rm"}, {}, {"in"}, {"out"}), FilePolicy({}, {"edit", "http"}, {"blank"}, {"out"}),
     FilePolicy({}, {}, {}, {}), WebPolicy({"api"}, TRUE), WebPolicy({"api", "lan"}, TRUE),
     WebPolicy({}, FALSE), [kind |-> "broken"]}
PolicyLists == {<<>>} \cup {<<p>> : p \in Policies} \cup (Policies \X Policies)

FileCalls ==
    [tool : {"edit", "write_file", "rm"}, reads : BOOLEAN, writes : BOOLEAN,
     paths : {{}, {"in"}, {"out"}, {"in", "out"}}, scheme : {"none"}, host : {"missing"}, streamed : {FALSE}]
WebCalls ==
    [tool : {"http"}, reads : {FALSE}, writes : {FALSE}, paths : {{}}, scheme : {"https", "ftp"},
     host : {"api", "lan", "else", "missing"}, streamed : BOOLEAN]
SomeCall == CHOOSE q \in FileCalls : q.tool = "edit"

Executor(most, jitter) ==
    [attempts |-> most, initial |-> 1, factor |-> 2, cap |-> 3, jitter |-> jitter]
Guard(tools, mode, children, request, executor) ==
    [tools |-> tools, mode |-> mode, children |-> children, request |-> request, retry |-> executor]
Guards ==
    {Guard(<<>>, m, c, q, Executor(1, "none")) : m \in {"all", "any"}, c \in PolicyLists, q \in FileCalls \cup WebCalls}
      \cup {Guard(<<>>, "any", <<>>, SomeCall, Executor(4, j)) : j \in {"none", "full", "equal"}}
      \cup {Guard(<<"edit", "http">>, "any", <<>>, SomeCall, Executor(1, "none"))}
GateFloors == {0, 5}

Gated == INSTANCE ToolGate WITH
    setup <- guard, run <- session, at <- stand, asked <- judged, Setups <- Guards,
    WriteTools <- {"write_file"}, PrivateHosts <- {"lan"}, Floors <- GateFloors, MaxRuns <- 2

\* The budgets of a run are not negative, nor are delays; what is listed is listed.
ASSUME PartsAssumption ==
    Loop!LoopAssumption /\ MaxToolCalls \in Nat /\ Gated!GateAssumption /\ Memories!MemoryAssumption

\* HostTools: one tool, or two at the same file or variable.
Host(asks, durable, timed, passthrough) ==
    [asks |-> asks, durable |-> durable, retries |-> 2, timed |-> timed, passthrough |-> passthrough]
Alone == {"execute_command", "http_request", "tavily_search", "read_file"}
Pairs == {<<"write_file", "delete_file">>, <<"delete_file", "delete_file">>, <<"set_env", "execute_command">>}
Hosts ==
    {Host(<<t, "none">>, d, TRUE, {}) : t \in Alone, d \in BOOLEAN}
      \cup {Host(<<"shell_exec", "none">>, d, t, p) : d, t \in BOOLEAN, p \in SUBSET {"K"}}
      \cup {Host(p, d, FALSE, {}) : p \in Pairs, d \in BOOLEAN}

HostIds == {1, 2}
Variables == {"K"}

HostCalls == INSTANCE HostTools WITH
    setup <- host, call <- asking, env <- environ, Calls <- HostIds, Setups <- Hosts, Keys <- Variables,
    MaxAttempts <- 3, MaxCrashes <- 1

\* Prompts: histories around the five entries that are shown.
Shown == [entries : UNION {[1..n -> {"full", "empty"}] : n \in 0..6}, results : 0..3,
          names : [Tools -> {"t1", "t2", "alias", "nameless"}]]

\* McpServer: a server that is configured well but for one thing, or two.
Behind == INSTANCE McpServer WITH Parent <- {"K", "P"}, OnPath <- {"npx"}, Addresses <- {"https"}
Server(command, url) ==
    [command |-> command, args |-> "a", url |-> url, env |-> None, passthrough |-> {}, timeout |-> None, mode |-> "pooled",
     prelaunch |-> "off", probe |-> FALSE, installed |-> "all", answer |-> "answers"]
Servers ==
    {[Server(w[1], w[2]) EXCEPT !.installed = i, !.answer = a, !.probe = p, !.timeout = t] :
        w \in {"npx", "gone", None} \X {"https", "plain", None}, i \in {"all", "stdio", "nothing"},
        a \in {"answers", "late", "dead", "unlisted"}, p \in BOOLEAN, t \in {None, 0, 5}}
      \cup {[Server("npx", None) EXCEPT !.env = e, !.passthrough = v, !.mode = m, !.prelaunch = l] :
        e \in {None, [K |-> "own"], [Q |-> "own"]}, v \in SUBSET {"K", "Q", ""}, m \in {"pooled", "per_call"},
        l \in {"eager", "off"}}

Inert == [safely |-> FALSE, timed |-> FALSE, concurrent |-> FALSE]
IdleBatch == Init /\ setup = Inert
IdleLoop == Loop!Init /\ pattern = [kind |-> "react", native |-> TRUE, llm |-> TRUE, tariff |-> "uncapped"]
IdleTool == Bound!Init /\ gate = "no" /\ wildcard = "none"
IdleMemory == Memories!Init /\ chain = <<Buffer("h", 2), Other("markdown")>> /\ on_error = "fail"
IdleHost == HostCalls!Init /\ host = Host(<<"read_file", "none">>, FALSE, TRUE, {}) /\ present /\ environ = {}
IdleGuard == Gated!Init /\ guard = Guard(<<>>, "any", <<>>, SomeCall, Executor(4, "none"))

MCInit ==
    /\ part \in Parts
    /\ IF part = "batch" THEN Init ELSE IdleBatch
    /\ IF part = "loop" THEN Loop!Init ELSE IdleLoop
    /\ IF part = "call" THEN Bound!Init ELSE IdleTool
    /\ IF part = "memory" THEN Memories!Init ELSE IdleMemory
    /\ IF part = "gate" THEN Gated!Init ELSE IdleGuard
    /\ IF part = "host" THEN HostCalls!Init ELSE IdleHost
    /\ IF part = "prompts" THEN shown \in Shown ELSE IF part = "servers" THEN shown \in Servers
       ELSE shown = [entries |-> <<>>, results |-> 0, names |-> [t \in Tools |-> t]]

loopVars == <<pattern, where, executes, step, retries, todo, conversation, said, noted, answer, recorded,
              ctx, refusals, spent, requested>>
toolVars == <<gate, wildcard, approvals, run, calls, at, tool_calls, before, asked, open, hooked, succeeded>>
memoryVars == <<chain, on_error, turn, buffers, history, pending, file, index, remote, fallback, mem0, reached,
                queued, lost, torn, troubles>>
gateVars == <<guard, session, stand, passed, cached, told, judged, attempt, delays, outcome>>
hostVars == <<host, asking, job, effects, present, environ, warned, crashes>>
loops == <<vars, loopVars, toolVars>>
others == <<memoryVars, gateVars, hostVars>>

MCNext ==
    /\ UNCHANGED <<part, shown>>
    /\ \/ part = "batch" /\ Next /\ UNCHANGED <<loopVars, toolVars, others>>
       \/ part = "loop" /\ Loop!Next /\ UNCHANGED <<vars, toolVars, others>>
       \/ part = "call" /\ Bound!Next /\ UNCHANGED <<vars, loopVars, others>>
       \/ part = "memory" /\ Memories!Next /\ UNCHANGED <<loops, gateVars, hostVars>>
       \/ part = "gate" /\ Gated!Next /\ UNCHANGED <<loops, memoryVars, hostVars>>
       \/ part = "host" /\ HostCalls!Next /\ UNCHANGED <<loops, memoryVars, gateVars>>

BatchFairness ==
    /\ \A i \in Items :
          /\ WF_vars(part = "batch" /\ Advance(i))
          /\ WF_vars(part = "batch" /\ TimeOut(i))
          /\ WF_vars(part = "batch" /\ Trusted(i) /\ End(i))
    /\ WF_vars(part = "batch" /\ (Unwind \/ Return))

LoopFairness ==
    /\ WF_loopVars(part = "loop" /\ (Loop!Start \/ Loop!Ask))
    /\ WF_loopVars(part = "loop" /\ Loop!Expire)
    /\ WF_loopVars(part = "loop" /\ Loop!Planned)
    /\ WF_loopVars(part = "loop" /\ Loop!Unbounded)

MCSpec == MCInit /\ [][MCNext]_<<part, shown, loops, others>> /\ BatchFairness /\ LoopFairness

\* PatternLoops: calls and results are paired, what is returned is recorded, and
\* the model is asked for another attempt so often and no oftener.
LoopFaithful == Loop!ConversationPaired /\ Loop!RecordedIsReturned /\ Loop!RetriesBounded
\* PatternLoops: legacy patterns keep to the cost ceiling.
LegacyCostCeiling == Loop!LegacyCostCeiling
\* PatternLoops: every pattern keeps to the cost ceiling.
CostCeiling == Loop!CostCeiling
\* ToolExecution: a batch ends.  PatternLoops: executions end.
EverythingEnds ==
    <>[](CASE part = "batch" -> caller \in {"returned", "cancelled"} \/ (caller = "raised" /\ ~Safely /\ ~Concurrent)
           [] part = "loop" -> where = "over"
           [] OTHER -> TRUE)
\* BoundTool: calls are counted once and bracketed by their hooks.
CallsAccounted == Bound!CountedOnce /\ Bound!HooksBracket
\* MemoryPlugins: what was to be remembered is, once, and buffers stay whole.
\* ToolGate: every tool has passed its preflight, every attempt its policies,
\* and no delay is beyond its cap.
\* McpServer: the preflight foretells whether a server can be reached.
\* HostTools: what has answered is over, and a change that may be made twice is
\* one that was warned of.  Prompts show what is latest, tools
\* are reached by the names they are offered by, and replies are taken whole.
SurroundingsFaithful ==
    CASE part = "memory" -> Memories!MemoriesFaithful
      [] part = "gate" -> Gated!GateFaithful
      [] part = "host" -> HostCalls!HostFaithful
      [] part = "servers" -> Behind!ServerFaithful(shown)
      [] part = "prompts" -> Loop!PromptsFaithful(shown.entries, shown.results, shown.names)
      [] OTHER -> TRUE
=============================================================================
