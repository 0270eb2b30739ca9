------------------------------- MODULE MCApp -------------------------------
(* What an application does with its Runtime, as one instance with one       *)
(* initial choice of the part that is exercised: requests, reloads and       *)
(* closed sessions; the streams of runs; runs that delegate to others; the   *)
(* loading of an agent's plugins; and what is around a run: skills, logging, *)
(* diagnostics, buses that write, the command line, `openagents dev`.        *)
EXTENDS RuntimeFacade, TLC

CONSTANTS
    Streams, Wrappings, MaxEvents, Ids, Roots, Limits, MaxTries, Names, MaxDecorated, Parts,
    Nothing, MaxSkillCalls, MaxLogCalls, MaxCommands, MaxTurns, MaxCalls, MaxHistory, MaxEmits, Slots, MaxSaves

VARIABLES
    part,
    wrapped, subs, task, emitted, pending, queue, count, stream, got,
    limit, delegated, states, owner, info,
    registered, decorated, loaded,
    skillDisk, packages, modules, path, skills, prepared, skillTask, skillCalls,
    libraries, env, tree, force, touched, logCalls,
    phase, context, perRun, chain, error, result, made,
    stack, sinkEmitted, history, handling, written, failed, broken,
    args, at, runtime, session, last, out, exit, outFile, shown, project, commands, turns,
    mode, tells, main, conf, inForce, mtimeSeen, fileEvents, timer, latest, readBy, due, heard

Stream == INSTANCE EventStream WITH Runs <- Streams
Delegated == INSTANCE Delegation WITH run <- delegated

\* What the config file may hold: the first one, another definition of the
\* first agent, the second agent for the first, a file that wants another
\* session backend, one that cannot be read, none.
File(state, top, d1, d2) == [state |-> state, top |-> top, agents |-> [a1 |-> d1, a2 |-> d2]]
Original == File("valid", 1, {1}, {})
Edited == {Original, File("valid", 1, {2}, {1}), File("valid", 1, {}, {1}), File("valid", 2, {1}, {}),
           File("broken", 1, {}, {}), File("absent", 1, {}, {})}

\* Plugins: builtin and complete, with a method that is missing, functions.
Factory(name, class, methods, takes) == [name |-> name, class |-> class, methods |-> methods, takes |-> takes]
BufferMemory == Factory("Buffer", TRUE, {"inject"}, TRUE)
React == Factory("React", TRUE, {"execute", "react"}, TRUE)
Whole == Factory("search", TRUE, {"invoke", "execute", "react", "execute_stream", "assemble", "finalize"}, TRUE)
HalfAPattern == Factory("mine", TRUE, {"execute"}, TRUE)
AFunction == Factory("search", FALSE, {}, FALSE)
AMaker == Factory("mine", FALSE, {}, TRUE)
Shipped == [memory |-> [buffer |-> BufferMemory], pattern |-> [react |-> React], tool |-> [search |-> Whole],
            tool_executor |-> [safe |-> Whole], context_assembler |-> [truncating |-> Whole]]
Importable == [x |-> Whole, y |-> HalfAPattern]

Ref(type, impl) == [type |-> type, impl |-> impl]
Tool(id, enabled, ref) == [id |-> id, enabled |-> enabled, ref |-> ref]
Agent(memory, pattern, executor, assembler, tools) ==
    [memory |-> memory, pattern |-> pattern, tool_executor |-> executor, context_assembler |-> assembler, tools |-> tools]
Buffered == Ref("buffer", None)
Reacting == Ref("react", None)
Safe == Ref("safe", None)
Toolsets ==
    { <<>>,
      <<Tool("a", TRUE, Ref("search", None)), Tool("b", FALSE, Ref("mine", None))>>,
      <<Tool("a", TRUE, Ref("search", "blank")), Tool("a", TRUE, Ref("mine", None))>>,
      <<Tool("a", TRUE, Ref("mine", None)), Tool("b", TRUE, Ref(None, None))>> }
Definitions ==
    {Agent(Buffered, Reacting, None, None, tools) : tools \in Toolsets}
    \cup {Agent(Buffered, pattern, executor, None, <<Tool("a", TRUE, Ref("mine", None))>>) :
              pattern \in {Reacting, Ref("mine", None), Ref("react", "x"), Ref("blank", "y")},
              executor \in {None, Ref("mine", None), Ref("safe", "blank")}}
    \cup {Agent(Ref("blank", None), Reacting, None, None, <<>>),
          Agent(Ref(None, "x"), Reacting, Safe, Ref("summarizing", None), <<>>),
          Agent(Ref(None, "gone"), Reacting, Safe, Ref("truncating", None), <<>>),
          Agent(Buffered, Reacting, Safe, Ref("mine", None), <<>>)}

\* The runtime's own executor and assembler.
Known == [tool_executor |-> [default |-> Whole, safe |-> Whole], context_assembler |-> [default |-> Whole, truncating |-> Whole]]
Own_(type, impl) == [shape |-> "object", type |-> type, impl |-> impl]
OwnConfigs ==
    {None, [Own_("safe", None) EXCEPT !.shape = "list"], Own_("safe", None), Own_("default", "y"), Own_("blank", "x"),
     Own_(None, "gone"), Own_("mine", None), Own_(None, None)}

Plugins == INSTANCE PluginLoading WITH
    Factories <- {BufferMemory, React, Whole, HalfAPattern, AFunction, AMaker},
    Builtin <- Shipped, Symbols <- Importable, Agents <- Definitions, Bundled <- Known, Fallbacks <- OwnConfigs
-----------------------------------------------------------------------------
\* Search paths: two skills; two with a package, and two with a name, in common;
\* one without exactly one entrypoint, disabled and not; none; one without a name.
Dir(root, name, package) ==
    [root |-> root, name |-> name, front |-> TRUE, package |-> package, entries |-> 1, enabled |-> TRUE]
SkillDisks ==
    { <<Dir("d1", "k1", "p1"), Dir("d2", "k2", "p2")>>,
      <<Dir("d1", "k1", "p1"), Dir("d2", "k2", "p1")>>,
      <<Dir("d1", "k1", "p1"), Dir("d2", "k1", "p2")>>,
      <<[Dir("d1", "k1", "p1") EXCEPT !.entries = 2], Dir("d2", "k2", "p2")>>,
      <<[Dir("d1", "k1", "p1") EXCEPT !.entries = 2, !.enabled = FALSE], Dir("d2", "k2", "p2")>>,
      <<[Dir("d1", Nothing, "p1") EXCEPT !.front = FALSE]>>,
      <<>>,
      <<Dir("d1", Nothing, "p1"), Dir("d2", "k2", "p2")>> }
SkillSessions == {"s1", "s2"}
SkillTasks == {"t1", "t2"}
Skills == INSTANCE SkillPackages WITH
    None <- Nothing,
    Disks <- SkillDisks, Sessions <- SkillSessions, Tasks <- SkillTasks, MaxRuns <- MaxSkillCalls,
    disk <- skillDisk, task <- skillTask, runs <- skillCalls

\* Loggers and configurations: rules above and below each other, one of NOTSET,
\* one of a foreign logger; prefixes in and out; both backends.
Own == <<"openagents">>
Llm == <<"openagents", "llm">>
Http == <<"openagents", "llm", "http">>
App == <<"app">>
Sink(ok, include) == [own |-> TRUE, ok |-> ok, level |-> 2, include |-> include]
Config(level, rules, include, exclude, pretty, sinks) ==
    [auto |-> FALSE, level |-> level, rules |-> rules, include |-> include, exclude |-> exclude,
     pretty |-> pretty, sinks |-> sinks, keys |-> {"token"}]
LogConfigs ==
    { Config(2, <<>>, Nothing, {}, FALSE, <<>>),
      Config(2, (Llm :> 3) @@ (Http :> 1) @@ (App :> 1), Nothing, {}, TRUE, <<>>),
      Config(1, Llm :> 0, {Llm}, {Http}, FALSE, <<Sink(TRUE, Nothing), Sink(TRUE, {Http})>>),
      Config(0, (Own :> 1) @@ (Llm :> 3), {}, {}, FALSE, <<Sink(TRUE, Nothing), Sink(FALSE, {Http})>>),
      Config(0, Http :> 3, {}, {}, FALSE, <<>>) }
LoggerNames == {Own, Llm, Http}
LogEnvironments ==
    {[fields |-> <<>>, disabled |-> FALSE],
     [fields |-> [pretty |-> TRUE, auto |-> TRUE], disabled |-> FALSE],
     [fields |-> [rules |-> Http :> 1], disabled |-> TRUE]}
Step(key, hidden, in) == [key |-> key, hidden |-> hidden, in |-> in]
Logging == INSTANCE LoggingTree WITH
    None <- Nothing,
    Loggers <- LoggerNames, Configs <- LogConfigs, Environments <- LogEnvironments,
    Records <- {<<Step("token", FALSE, "dict")>>, <<Step("token", TRUE, "dict")>>,
                <<Step("a", FALSE, "list"), Step("token", FALSE, "dict")>>,
                <<Step("a", FALSE, "tuple"), Step("token", FALSE, "dict")>>},
    MaxCalls <- MaxLogCalls, calls <- logCalls

\* Two runs of a session; exceptions of the SDK and others, with long chains.
Diagnosed == {"r1", "r2"}
Diagnostics == INSTANCE RunDiagnostics WITH
    None <- Nothing,
    Runs <- Diagnosed, Session <- [r \in Diagnosed |-> "s1"], Latencies <- {1, 2},
    Errors <- {<<"execution.max_steps">>, <<"TimeoutError">>, <<"tool.auth">>, <<"ValueError", "llm.rate_limit">>,
               <<"tool.timeout", "ValueError", "KeyError", "OSError", "EOFError">>}

Bus(kind, include, exclude) == [kind |-> kind, include |-> include, exclude |-> exclude]
Sinks == INSTANCE EventSinks WITH
    None <- Nothing,
    Emitters <- {"e1", "e2"}, Events <- {"tool", "llm"},
    Stacks <- {<<Bus("file_logging", Nothing, {"tool"}), Bus("otel_bridge", {"llm"}, {})>>,
               <<Bus("rich_console", {"tool", "llm"}, {"llm"}), Bus("file_logging", Nothing, {})>>},
    emitted <- sinkEmitted

\* Commands and what may lie in the directory.
Invoked(command, source, format) ==
    [command |-> command, agents |-> <<"a">>, agent |-> Nothing, source |-> source, format |-> format,
     terminal |-> FALSE, stream |-> TRUE, turn |-> Nothing]
Invocations ==
    {Invoked("run", source, format) : source \in {"input", "missing", "garbled"}, format \in {Nothing, "text", "json", "events"}}
    \cup {[Invoked("run", "input", Nothing) EXCEPT !.terminal = TRUE, !.agents = <<"a", "b">>],
          [Invoked("run", "input", "events") EXCEPT !.stream = FALSE, !.agents = <<"a", "b">>, !.agent = "b"],
          Invoked("chat", "input", Nothing)}
    \cup {[Invoked("replay", "input", Nothing) EXCEPT !.turn = turn] : turn \in {Nothing, 0, 1, 2}}
    \cup {[command |-> "init", dir |-> "p", template |-> template, yes |-> TRUE, force |-> over] :
              template \in {Nothing, "pptx"}, over \in BOOLEAN}
    \cup {[command |-> "init", dir |-> "p", template |-> Nothing, yes |-> FALSE, force |-> FALSE]}
    \cup {[command |-> "new", seam |-> seam, words |-> words, path |-> place, test |-> TRUE, force |-> over] :
              seam \in {"tool", "tool_executor"}, words \in {<<"My", "Tool">>, <<>>}, place \in {Nothing, <<"mine">>}, over \in BOOLEAN}
    \cup {[command |-> "new", seam |-> seam, words |-> <<"My", "Tool">>, path |-> Nothing, test |-> FALSE, force |-> FALSE] :
              seam \in {"diagnostics", "llm"}}
EventLists ==
    { <<>>,
      <<"tool.called", "llm.called", "llm.succeeded", "tool.succeeded">>,
      <<"run.started", "tool.called", "tool.called", "tool.succeeded", "tool.succeeded", "run.finished", "run.started", "llm.failed">> }
Path(dir, name, hidden) == [dir |-> dir, name |-> name, hidden |-> hidden]
Commands == INSTANCE CommandLine WITH
    None <- Nothing,
    Projects <- {{}, {Path("p", <<".git">>, TRUE)}, {Path("p", <<"agent.json">>, FALSE)},
                 {Path("p", <<"main.py">>, FALSE)}, {Path(".", <<"p">>, FALSE)}, {Path(".", <<"mine">>, FALSE)},
                 {Path("tests/unit", <<"My", "Tool">>, FALSE)}},
    Streams <- EventLists, file <- outFile,
    Files <- {[kind |-> "absent", items |-> <<>>], [kind |-> "blank", items |-> <<>>],
              [kind |-> "transcript", items |-> <<"artifact.transcript">>]}
             \cup [kind : {"lines", "array"}, items : EventLists]

\* The watch of a file that is saved, broken, removed and replaced.
Dev == INSTANCE HotReload WITH
    None <- Nothing, at <- main, file <- conf, config <- inForce, seen <- mtimeSeen, events <- fileEvents, read <- readBy

skillVars == <<skillDisk, packages, modules, path, skills, prepared, skillTask, skillCalls>>
logVars == <<libraries, env, tree, force, touched, logCalls>>
diagnosticVars == <<phase, context, perRun, chain, error, result, made>>
sinkVars == <<stack, sinkEmitted, history, handling, written, failed, broken>>
commandVars == <<args, at, runtime, session, last, out, exit, outFile, shown, project, commands, turns>>
devVars == <<mode, tells, main, conf, inForce, mtimeSeen, fileEvents, timer, latest, readBy, due, heard>>
supportVars == <<skillVars, logVars, diagnosticVars, sinkVars, commandVars, devVars>>

\* Two runs of a session are alike.
FirstBegins == phase'["r2"] # "idle" => phase'["r1"] # "idle"

\* What the commands that scaffold leave is not read by the others.
OfPart == (args'.command \in {"init", "new"}) = (part = "scaffold")

SupportInit ==
    /\ Skills!Init /\ (part = "skills" \/ skillDisk = <<>>)
    /\ Logging!Init /\ (part = "logging" \/ (libraries = {} /\ ~env.disabled /\ env.fields = <<>>))
    /\ Diagnostics!Init
    /\ Sinks!Init /\ (part = "sinks" \/ stack[1].kind = "file_logging")
    /\ Commands!Init /\ (part = "commands" \/ outFile.kind = "absent") /\ (part = "scaffold" \/ project = <<>>)
    /\ IF part = "dev" THEN Dev!Init ELSE Dev!Init /\ mode = "once"
SupportNext ==
    \/ part = "skills" /\ Skills!Next /\ UNCHANGED <<logVars, diagnosticVars, sinkVars, commandVars, devVars>>
    \/ part = "logging" /\ Logging!Next /\ UNCHANGED <<skillVars, diagnosticVars, sinkVars, commandVars, devVars>>
    \/ part = "diagnostics" /\ Diagnostics!Next /\ FirstBegins /\ UNCHANGED <<skillVars, logVars, sinkVars, commandVars, devVars>>
    \/ part = "sinks" /\ Sinks!Next /\ UNCHANGED <<skillVars, logVars, diagnosticVars, commandVars, devVars>>
    \/ part \in {"commands", "scaffold"} /\ Commands!Next /\ OfPart /\ UNCHANGED <<skillVars, logVars, diagnosticVars, sinkVars, devVars>>
    \/ part = "dev" /\ Dev!Next /\ UNCHANGED <<skillVars, logVars, diagnosticVars, sinkVars, commandVars>>

\* The invariant of the part that is exercised.
SupportFaithful ==
    CASE part = "skills" -> Skills!SkillsFaithful
      [] part = "logging" -> Logging!LoggingFaithful
      [] part = "diagnostics" -> Diagnostics!DiagnosticsFaithful
      [] part = "sinks" -> Sinks!SinksFaithful
      [] part \in {"commands", "scaffold"} -> Commands!CommandsFaithful
      [] part = "dev" -> Dev!HotReloadFaithful
      [] OTHER -> TRUE
-----------------------------------------------------------------------------
ASSUME PartsAssumption ==
    /\ Wrappings \subseteq BOOLEAN
    /\ Delegated!DelegationAssumption /\ Plugins!LoadingAssumption /\ Logging!LoggingAssumption

IdleFacade == Init /\ watch = "watcher"
IdleStream == Stream!Init /\ wrapped = FALSE
IdleDelegation == Delegated!Init /\ limit = 1

MCInit ==
    /\ part \in Parts
    /\ IF part = "facade" THEN Init ELSE IdleFacade
    /\ IF part = "stream" THEN Stream!Init ELSE IdleStream
    /\ IF part = "delegation" THEN Delegated!Init ELSE IdleDelegation
    /\ Plugins!Init
    /\ SupportInit

streamVars == <<wrapped, subs, task, emitted, pending, queue, count, stream, got>>
delegationVars == <<limit, delegated, states, owner, info>>
pluginVars == <<registered, decorated, loaded>>

\* Two streams are alike, so that one may be taken to be opened first.
Early == CHOOSE r \in Streams : TRUE
EarlyFirst == \A r \in Streams : stream'[r] # "off" => stream'[Early] # "off"

\* So are two sessions: the first bundle may be taken to be of this one.
Room == CHOOSE s \in Sessions : TRUE
RoomFirst == \A r \in Runs : run'[r].session \in Sessions \ {Room} => bundles # <<>>

MCNext ==
    /\ UNCHANGED part
    /\ \/ part = "facade" /\ Next /\ RoomFirst /\ UNCHANGED <<streamVars, delegationVars, pluginVars, supportVars>>
       \/ part = "stream" /\ Stream!Next /\ EarlyFirst /\ UNCHANGED <<vars, delegationVars, pluginVars, supportVars>>
       \/ part = "delegation" /\ Delegated!Next /\ UNCHANGED <<vars, streamVars, pluginVars, supportVars>>
       \/ part = "plugins" /\ Plugins!Next /\ UNCHANGED <<vars, streamVars, delegationVars, supportVars>>
       \/ SupportNext /\ UNCHANGED <<vars, streamVars, delegationVars, pluginVars>>

MCFairness ==
    /\ WF_vars(part = "facade" /\ Notice)
    /\ \A w \in Reloaders : WF_vars(part = "facade" /\ Reload(w))
    /\ \A r \in Streams : /\ WF_streamVars(part = "stream" /\ Stream!GoesOn(r))
                          /\ WF_streamVars(part = "stream" /\ Stream!Consume(r))
    /\ \A r \in Ids : WF_delegationVars(part = "delegation" /\ Delegated!Progress(r))
    /\ WF_devVars(part = "dev" /\ Dev!Poll)
    /\ \A t \in Slots : WF_devVars(part = "dev" /\ Dev!Works(t))

MCSpec == MCInit /\ [][MCNext]_<<part, vars, streamVars, delegationVars, pluginVars, supportVars>> /\ MCFairness

\* EventStream: a consumer is given the events of its run whole, in order and
\* numbered, and nothing of the run outlives its stream.  Delegation: depth,
\* sessions, copies and records of delegated runs.  PluginLoading: what an
\* agent was loaded with, or falls back to, is complete.
RunsServed ==
    CASE part = "stream" -> Stream!WellNumbered /\ Stream!OwnEventsWhole /\ Stream!LeavesNothing
      [] part = "delegation" -> Delegated!DelegationSound
      [] part = "plugins" -> Plugins!LoadedIsUsable /\ Plugins!DependenciesFit
      [] OTHER -> TRUE
\* Skills find their code and sessions stay fit for them; one handler with the
\* configuration in force decides of a record; a run's calls are told of in full;
\* buses that write miss nothing they want; commands end as their exit code says;
\* one timer waits for a burst of saves.
SurroundingsKept == SupportFaithful
\* PluginLoading: builtin names keep their meaning.  SkillPackages: a session
\* forgets no skill.  LoggingTree: what the application has set up stays.
LeftAsFound == Plugins!BuiltinsUnmoved /\ Skills!SkillsRemembered /\ Logging!AppUntouched
\* RuntimeFacade: the configuration becomes what the file holds.  EventStream:
\* streams end.  Delegation: so do the runs that were delegated to.  HotReload:
\* what is saved under watch is read.
EverythingSettles ==
    <>[](CASE part = "facade" -> UpToDate
           [] part = "stream" -> Stream!NoneStreams
           [] part = "delegation" -> Delegated!AllOver
           [] part = "dev" -> Dev!CaughtUp
           [] OTHER -> TRUE)
=============================================================================
