---------------------------- MODULE RuntimeFacade ----------------------------
(***************************************************************************)
(* The application's Runtime: its configuration, the plugin bundles it     *)
(* keeps for every session and agent, and what replaces them while runs    *)
(* are under way - the config watcher, a reload that was asked for,        *)
(* reload_agent and close_session.  One event loop: a step lasts from one  *)
(* await that suspends to the next.  load_config and the close() of the    *)
(* builtin memories do not suspend.                                        *)
(***************************************************************************)
EXTENDS Naturals, Sequences

CONSTANTS
    Agents, Sessions, Runs,
    None,
    Files,      \* what the config file may hold: [state, top, agents]
    First,      \* the file the runtime was built from
    Watches,    \* who polls the file: "watcher" (ConfigWatcher) or "dev" (openagents dev)
    MaxEdits,   \* edits of the file (bound)
    MaxBundles, \* bundles that are created (bound)
    MaxUses     \* reloads, agent reloads and closed sessions an application asks for (bound)

ASSUME FacadeAssumption ==
    /\ First \in Files /\ First.state = "valid"
    /\ \A f \in Files : f.state \in {"valid", "broken", "absent"} /\ f.agents \in [Agents -> SUBSET {1, 2}]

VARIABLES
    watch,
    disk, mtime,     \* the config file
    config,          \* _config; its agents are _agents_by_id
    seen,            \* the watcher's _last_mtime
    edits, uses,     \* what has been used up of the bounds
    cached,          \* _session_plugins
    bundles,         \* the bundles created so far: agent and definition of each
    closed,          \* those whose memory was closed
    reload,          \* of a reloader: its reload() under way
    run              \* of a run: where it is, and what it holds

vars == <<watch, disk, mtime, config, seen, edits, uses, cached, bundles, closed, reload, run>>

Reloaders == {"watcher", "request"}
NoReload == [at |-> "idle", removed |-> {}]
NoRun == [at |-> "new", agent |-> None, session |-> None, routed |-> FALSE, bundle |-> 0, refusal |-> None]

\* A definition of an agent is a set with its version in it, empty for none.
Configured(f) == {a \in Agents : f.agents[a] # {}}

Init ==
    /\ watch \in Watches
    /\ disk = First /\ mtime = MaxEdits /\ config = First /\ seen = MaxEdits
    /\ edits = 0 /\ uses = 0
    /\ cached = [s \in Sessions |-> [a \in Agents |-> 0]]
    /\ bundles = <<>> /\ closed = {}
    /\ reload = [w \in Reloaders |-> NoReload]
    /\ run = [r \in Runs |-> NoRun]

Served == watch = "watcher"

\* The file is written; a copy that keeps an older time of modification is
\* put in its place.  No two of these times are the same.
Edit(f, older) ==
    /\ edits < MaxEdits /\ edits' = edits + 1
    /\ disk' = f
    /\ mtime' = IF older THEN MaxEdits - edits' ELSE MaxEdits + edits'
    /\ UNCHANGED <<watch, config, seen, uses, cached, bundles, closed, reload, run>>
-----------------------------------------------------------------------------
\* reload() up to its first await: a file that cannot be loaded, or that wants
\* another runtime, session or event plugin, leaves everything as it is.
Swap(w) ==
    IF disk.state = "valid" /\ disk.top = config.top
    THEN /\ config' = disk
         /\ reload' = [reload EXCEPT ![w] = [at |-> "invalidating", removed |-> Configured(config) \ Configured(disk)]]
    ELSE UNCHANGED <<config, reload>>

\* Mutant of Dropped: bundles are forgotten, not closed.
Dropped_Unclosed(doomed) ==
    /\ cached' = [s \in Sessions |-> [a \in Agents |-> IF <<s, a>> \in doomed THEN 0 ELSE cached[s][a]]]
    /\ closed' = closed
\* The bundles at these places are closed and taken out of the cache.
Dropped(doomed) ==
    /\ cached' = [s \in Sessions |-> [a \in Agents |-> IF <<s, a>> \in doomed THEN 0 ELSE cached[s][a]]]
    /\ closed' = closed \cup ({cached[p[1]][p[2]] : p \in doomed} \ {0})

\* ConfigWatcher compares with >, the polling loop of dev with !=.
Changed == IF watch = "watcher" THEN mtime > seen ELSE mtime # seen

\* A round of the watcher that finds the file changed: the time is noted before
\* the file is read.
Notice ==
    /\ reload["watcher"].at = "idle" /\ disk.state # "absent" /\ Changed
    /\ seen' = mtime
    /\ Swap("watcher")
    /\ UNCHANGED <<watch, disk, mtime, edits, uses, cached, bundles, closed, run>>

\* POST /reload, or the application: also while another reload is under way.
Ask ==
    /\ Served /\ reload["request"].at = "idle" /\ uses < MaxUses
    /\ uses' = uses + 1
    /\ Swap("request")
    /\ UNCHANGED <<watch, disk, mtime, seen, edits, cached, bundles, closed, run>>

\* Past the awaits on LLM clients and MCP pools: the agents that this reload
\* removed lose their bundles in every session.
Drop(w) ==
    /\ reload[w].at = "invalidating"
    /\ Dropped(Sessions \X reload[w].removed)
    /\ reload' = [reload EXCEPT ![w].at = "announcing"]
    /\ UNCHANGED <<watch, disk, mtime, config, seen, edits, uses, bundles, run>>

\* Mutant of Noted: the watcher looks at the file once more after the reload.
Noted_Again(w) == IF w = "watcher" THEN mtime ELSE seen
Noted(w) == seen
\* config.reloaded has been emitted; the watcher sleeps again.
Announced(w) ==
    /\ reload[w].at = "announcing"
    /\ reload' = [reload EXCEPT ![w] = NoReload]
    /\ seen' = Noted(w)
    /\ UNCHANGED <<watch, disk, mtime, config, edits, uses, cached, bundles, closed, run>>

\* reload_agent, up to its first await; what follows concerns LLM clients.
ReloadAgent(a) ==
    /\ Served /\ uses < MaxUses /\ a \in Configured(config)
    /\ uses' = uses + 1
    /\ Dropped(Sessions \X {a})
    /\ UNCHANGED <<watch, disk, mtime, config, seen, edits, bundles, reload, run>>

\* close_session, up to the release of the MCP pool (McpPool).
CloseSession(s) ==
    /\ Served /\ uses < MaxUses
    /\ uses' = uses + 1
    /\ Dropped({s} \X Agents)
    /\ UNCHANGED <<watch, disk, mtime, config, seen, edits, bundles, reload, run>>
-----------------------------------------------------------------------------
Goto(r, changes) == run' = [run EXCEPT ![r] = changes]

\* The router checks against the agents the runtime was built with, before it
\* calls run_detailed.
KnownToRouter(a) == a \in Configured(First)

\* run_detailed up to the preparation of the session's skills.
Request(r, a, s, routed) ==
    /\ Served /\ run[r].at = "new"
    /\ Goto(r, [NoRun EXCEPT !.agent = a, !.session = s, !.routed = routed,
                  !.at = IF (routed => KnownToRouter(a)) /\ a \in Configured(config) THEN "preparing" ELSE "refused",
                  !.refusal = IF routed /\ ~KnownToRouter(a) THEN "AgentNotFoundError"
                              ELSE IF a \notin Configured(config) THEN "ConfigError" ELSE None])
    /\ UNCHANGED <<watch, disk, mtime, config, seen, edits, uses, cached, bundles, closed, reload>>

\* Mutant of Executes: DefaultRuntime takes the agent as looked up.
Executes_Unasked(a) == TRUE
\* DefaultRuntime.run looks the agent up again in the dict it is given.
Executes(a) == a \in Configured(config)

\* _get_plugins_for_session and the beginning of DefaultRuntime.run: a cached
\* bundle is taken as it is, another lookup is made only for a new one.
Pick(r) ==
    LET a == run[r].agent
        s == run[r].session
        old == cached[s][a]
        new == Len(bundles) + 1
        bundle == IF old # 0 THEN old ELSE IF a \in Configured(config) THEN new ELSE 0
    IN /\ run[r].at = "preparing"
       /\ bundle = new => new <= MaxBundles
       /\ Goto(r, [run[r] EXCEPT !.at = IF bundle # 0 /\ Executes(a) THEN "executing" ELSE "refused",
                     !.bundle = bundle,
                     !.refusal = IF bundle = 0 THEN "ConfigError" ELSE IF Executes(a) THEN None ELSE "ValueError"])
       /\ cached' = [cached EXCEPT ![s][a] = bundle]
       /\ bundles' = IF bundle = new THEN Append(bundles, [agent |-> a, def |-> config.agents[a]]) ELSE bundles
       /\ UNCHANGED <<watch, disk, mtime, config, seen, edits, uses, closed, reload>>

Finish(r) ==
    /\ run[r].at = "executing"
    /\ Goto(r, NoRun)
    /\ UNCHANGED <<watch, disk, mtime, config, seen, edits, uses, cached, bundles, closed, reload>>

Reload(w) == Drop(w) \/ Announced(w)
Next ==
    \/ \E f \in Files, older \in BOOLEAN : Edit(f, older)
    \/ Notice \/ Ask
    \/ \E w \in Reloaders : Reload(w)
    \/ \E a \in Agents : ReloadAgent(a)
    \/ \E s \in Sessions : CloseSession(s)
    \/ \E r \in Runs, a \in Agents, s \in Sessions, routed \in BOOLEAN : Request(r, a, s, routed)
    \/ \E r \in Runs : Pick(r) \/ Finish(r)

\* The watcher polls and what reload() awaits returns.
Fairness == WF_vars(Notice) /\ \A w \in Reloaders : WF_vars(Reload(w))

Spec == Init /\ [][Next]_vars /\ Fairness
-----------------------------------------------------------------------------
TypeOK ==
    /\ disk \in Files /\ config \in Files /\ config.state = "valid"
    /\ closed \subseteq 1..Len(bundles)
    /\ cached \in [Sessions -> [Agents -> 0..Len(bundles)]]
    /\ \A w \in Reloaders : reload[w].at \in {"idle", "invalidating", "announcing"}
    /\ \A r \in Runs : run[r].at \in {"new", "refused", "preparing", "executing"}

\* reload, reload_agent, close_session, _get_plugins_for_session: every bundle
\* that was created is in the cache of one session or closed, and not both;
\* no bundle is kept for an agent that is configured no more, unless the
\* reload that removed it has not come that far.
BundlesAccounted ==
    LET holders(n) == {p \in Sessions \X Agents : cached[p[1]][p[2]] = n}
    IN /\ \A n \in 1..Len(bundles) :
             /\ n \in closed <=> holders(n) = {}
             /\ \A p, q \in holders(n) : p = q
             /\ \A p \in holders(n) : p[2] = bundles[n].agent
       /\ \A s \in Sessions, a \in Agents :
             cached[s][a] # 0 => \/ a \in Configured(config)
                                \/ \E w \in Reloaders : reload[w].at = "invalidating" /\ a \in reload[w].removed

\* run_detailed: a run that begins has an agent that is configured at that
\* moment, and a bundle that is not closed.
RunsKnown ==
    [][\A r \in Runs : run[r].at # "executing" /\ run'[r].at = "executing" =>
           run'[r].agent \in Configured(config) /\ run'[r].bundle \notin closed]_vars

\* The configuration is what the file holds, if that can be loaded and, for
\* ConfigWatcher, is no older.
UpToDate ==
    /\ disk.state = "valid" /\ disk.top = config.top
    /\ watch = "watcher" => mtime = MaxEdits + edits
    => config = disk
\* ConfigWatcher, _watch_polling: the configuration becomes what the file holds.
EventuallyCurrent == <>[]UpToDate

\* Statements of the documentation that the code does not meet (README,
\* Disagreements); no run checks them.

\* _get_plugins_for_session: a reload does not affect requests in flight.
InFlightUntouched ==
    \A r \in Runs : run[r].at = "executing" => run[r].bundle \notin closed

\* agent-router: an agent that does not exist is an AgentNotFoundError.
UnknownIsNotFound ==
    \A r \in Runs : run[r].routed => run[r].refusal \in {None, "AgentNotFoundError"}
=============================================================================
