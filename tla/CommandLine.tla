---------------------------- MODULE CommandLine ----------------------------
(***************************************************************************)
(* openagents run, chat, replay, init and new plugin, one command after    *)
(* the other in one directory: what a command prints may be kept in a file *)
(* that a later one reads, and what one scaffolds a later one finds.  An   *)
(* action per step of a command that ends it or not.                       *)
(***************************************************************************)
EXTENDS Naturals, Sequences, SequencesExt, FiniteSets

CONSTANTS
    Invocations,    \* [command, agents, agent, source, format, terminal, stream, turn],
                    \* [command, dir, template, yes, force] of init, and of new
                    \* [command, seam, words, path, test, force]
    Files,          \* what may be there already: [kind, items]
    Projects,       \* what may be in the project's directories already: paths
    Streams,        \* the events a run may emit, by name
    None,
    MaxCommands,    \* commands (bound)
    MaxTurns        \* lines of a chat (bound)

VARIABLES
    args,           \* of the command that runs, None between commands
    at,
    runtime,        \* "none", "open", "closed"
    session,        \* of a chat: a number, for /reset rotates it
    last,           \* last_result: [session, verdict, output]
    out,            \* records written to stdout
    exit,           \* the exit code of the last command, None before
    file,           \* the file that run's output and /save go to
    shown,          \* what replay has rendered
    project,        \* of a path that is there, what has been written to it
    commands, turns

vars == <<args, at, runtime, session, last, out, exit, file, shown, project, commands, turns>>

OK == 0
Usage == 1
Validation == 2
RuntimeFailure == 3
Traceback == 4      \* an exception that nothing catches, or Ctrl-C

\* What a command writes: its number, whether it may write over, the text.
Write(by, force, text) == [by |-> by, force |-> force, text |-> text]

Init ==
    /\ args = None /\ at = "shell" /\ runtime = "none" /\ session = 0 /\ last = None
    /\ out = <<>> /\ exit = None /\ file \in Files /\ shown = None /\ commands = 0 /\ turns = 0
    /\ \E present \in Projects : project = [p \in present |-> <<Write(0, TRUE, None)>>]

Start(a) ==
    /\ at = "shell" /\ commands < MaxCommands
    /\ commands' = commands + 1
    /\ args' = a /\ at' = IF a.command \in {"run", "chat"} THEN "load" ELSE a.command
    /\ runtime' = "none" /\ session' = 0 /\ last' = None /\ out' = <<>> /\ exit' = None /\ shown' = None /\ turns' = 0
    /\ UNCHANGED <<file, project>>

Exits(code) == exit' = code /\ at' = "shell"
Goes(next) == at' = next /\ UNCHANGED exit

\* load_config and _select_agent, the same in both commands.
Selected == args.agent \in ToSet(args.agents) \/ (args.agent = None /\ Len(args.agents) = 1)
Load ==
    /\ at = "load"
    /\ \/ Exits(Validation)
       \/ ~Selected /\ Exits(Usage)
       \/ Selected /\ Goes(IF args.command = "run" THEN "input" ELSE "build")
    /\ UNCHANGED <<args, runtime, session, last, out, file, shown, project, commands, turns>>

\* _resolve_input: --input, else --input-file alone, else what is piped.
ResolveInput ==
    /\ at = "input"
    /\ CASE args.source \in {"input", "file", "pipe"} -> Goes("build")
         [] args.source \in {"missing", "terminal", "empty pipe"} -> Exits(Usage)
         [] args.source = "garbled" -> Exits(Traceback)
    /\ UNCHANGED <<args, runtime, session, last, out, file, shown, project, commands, turns>>

\* Runtime.from_config: only a ConfigError is caught.
Build ==
    /\ at = "build"
    /\ \/ Exits(Validation) /\ UNCHANGED runtime
       \/ Exits(Traceback) /\ UNCHANGED runtime
       \/ Goes(IF args.command = "run" THEN "run" ELSE "prompt") /\ runtime' = "open"
    /\ UNCHANGED <<args, session, last, out, file, shown, project, commands, turns>>

(***************************************************************************)
(* run.                                                                    *)
(***************************************************************************)
Format == IF args.format # None THEN args.format ELSE IF args.terminal THEN "text" ELSE "events"
\* _attach_subscriber looks for a bus under a name that a Runtime has not.
RuntimeAttributes == {"event_bus"}
Interesting == {"run.started", "run.finished", "tool.called", "tool.succeeded", "tool.failed", "llm.called", "llm.succeeded"}
Subscribed == IF "events" \in RuntimeAttributes THEN Interesting ELSE {}
Printed(events) ==
    IF args.stream /\ Format = "events" THEN SelectSeq(events, LAMBDA e : e \in Subscribed) ELSE <<>>

Results == [session : {session}, verdict : {"completed", "failed"}, output : {"none", "plain", "odd"}]

\* asyncio.run(_run_once): the events of the run are printed as they come.
RunOnce ==
    /\ at = "run"
    /\ \E events \in Streams :
          /\ out' = Printed(events)
          /\ \/ \E result \in Results : last' = result /\ Goes("emit")
             \/ Exits(Validation) /\ UNCHANGED last          \* ConfigError
             \/ Goes("close") /\ UNCHANGED last              \* any other Exception
             \/ Exits(Traceback) /\ UNCHANGED last           \* KeyboardInterrupt
    /\ UNCHANGED <<args, runtime, session, file, shown, project, commands, turns>>

FinalRecord == CASE Format = "json" -> "document" [] Format = "events" -> "run.finished" [] Format = "text" -> "text"
\* _emit_final_output: an output that has no JSON form is an error of json only,
\* and text writes nothing when there is none.
EmitFinal ==
    /\ at = "emit"
    /\ IF Format = "json" /\ last.output = "odd" THEN Exits(Traceback) /\ UNCHANGED out
       ELSE /\ Goes("close")
            /\ IF Format = "text" /\ last.output = "none" THEN UNCHANGED out
               ELSE out' = Append(out, FinalRecord)
    /\ UNCHANGED <<args, runtime, session, last, file, shown, project, commands, turns>>

\* Mutant of CloseRun: the exit code is that of the process, not of the run.
CloseRun_AlwaysOK ==
    /\ at = "close"
    /\ runtime' = "closed" /\ Exits(OK)
    /\ UNCHANGED <<args, session, last, out, file, shown, project, commands, turns>>
\* close may fail, which is ignored.
CloseRun ==
    /\ at = "close"
    /\ runtime' = "closed"
    /\ Exits(IF last # None /\ last.verdict = "completed" THEN OK ELSE RuntimeFailure)
    /\ UNCHANGED <<args, session, last, out, file, shown, project, commands, turns>>

\* The shell keeps what a run has printed in the file.
Redirect ==
    /\ at = "shell" /\ args # None /\ args.command = "run" /\ exit \in {OK, RuntimeFailure} /\ out # <<>>
    /\ file' = IF Format = "events" THEN [kind |-> "lines", items |-> out] ELSE [kind |-> "document", items |-> <<>>]
    /\ UNCHANGED <<args, at, runtime, session, last, out, exit, shown, project, commands, turns>>

(***************************************************************************)
(* chat.                                                                   *)
(***************************************************************************)
Line == at = "prompt" /\ turns < MaxTurns /\ turns' = turns + 1

\* The end of the input, /exit, /quit or Ctrl-C.
Leave ==
    /\ at = "prompt"
    /\ runtime' = "closed" /\ Exits(OK)
    /\ UNCHANGED <<args, session, last, out, file, shown, project, commands, turns>>
\* A turn: an Exception is shown and the loop goes on.
Say ==
    /\ Line
    /\ \/ \E result \in Results : last' = result /\ out' = Append(out, "agent")
       \/ UNCHANGED last /\ out' = Append(out, "runtime error")
    /\ UNCHANGED <<args, at, runtime, session, exit, file, shown, project, commands>>
Reset ==
    /\ Line
    /\ session' = session + 1 /\ out' = Append(out, "session reset")
    /\ UNCHANGED <<args, at, runtime, last, exit, file, shown, project, commands>>
\* Mutant of SavedEvents: the list that replay reads is under another name.
SavedEvents_Bare == [kind |-> "document", items |-> <<>>]
\* _last_result_as_events.
SavedEvents == [kind |-> "envelope", items |-> IF last = None THEN <<>> ELSE <<"run.finished">>]
\* A path that cannot be written to ends the chat.
Save ==
    /\ Line
    /\ \/ file' = SavedEvents /\ out' = Append(out, "saved") /\ UNCHANGED <<at, exit, runtime>>
       \/ Exits(Traceback) /\ runtime' = "closed" /\ UNCHANGED <<file, out>>
    /\ UNCHANGED <<args, session, last, shown, project, commands>>
\* /context, /tools, /save without a path, /help and what else is unknown.
Local ==
    /\ Line
    /\ \E answer \in {"final_output", "tools", "usage", "unknown slash command"} : out' = Append(out, answer)
    /\ UNCHANGED <<args, at, runtime, session, last, exit, file, shown, project, commands>>

(***************************************************************************)
(* replay.                                                                 *)
(***************************************************************************)
\* Mutant of Parsed: a file of lines is taken for one even if it has only one,
\* and its first line for its head.
Parsed_Header(f) == IF f.kind = "lines" /\ f.items # <<>> THEN Tail(f.items) ELSE IF f.kind \in {"array", "envelope", "transcript"} THEN f.items ELSE None
\* _parse_input: one line is taken for a document.
Parsed(f) ==
    CASE f.kind = "lines" /\ Len(f.items) # 1 -> f.items
      [] f.kind \in {"array", "envelope", "transcript"} -> f.items
      [] f.kind = "blank" -> <<>>
      [] OTHER -> None

\* Mutant of Turns: the first event of a turn stays with the one before.
Turns_Late(events) ==
    LET grow(turns0, e) ==
            LET held == IF turns0 = <<>> THEN <<<<e>>>> ELSE [turns0 EXCEPT ![Len(turns0)] = Append(@, e)]
            IN IF e = "run.started" THEN Append(held, <<>>) ELSE held
    IN FoldLeft(grow, <<>>, events)
\* iter_turns: a turn begins with run.started, unless nothing is before it.
Turns(events) ==
    LET grow(turns0, e) == IF e = "run.started" \/ turns0 = <<>> THEN Append(turns0, <<e>>)
                           ELSE [turns0 EXCEPT ![Len(turns0)] = Append(@, e)]
    IN FoldLeft(grow, <<>>, events)
\* _select_turn.
Chosen(events, turn) ==
    IF turn = None THEN events
    ELSE IF turn \in DOMAIN Turns(events) THEN Turns(events)[turn] ELSE <<>>

\* EventFormatter: an event that ends a call is timed if the call was rendered.
Rendered(events) ==
    LET Begins(e) == e \in {"tool.called", "llm.called"}
        Ends(e) == e \in {"tool.succeeded", "tool.failed", "llm.succeeded", "llm.failed"}
        Start0(e) == IF e \in {"llm.succeeded", "llm.failed"} THEN "llm.called" ELSE "tool.called"
        render(state, e) ==
            [lines |-> Append(state.lines, [name |-> e, timed |-> Ends(e) /\ Start0(e) \in state.started]),
             started |-> IF Begins(e) THEN state.started \cup {e} ELSE IF Ends(e) THEN state.started \ {Start0(e)} ELSE state.started]
    IN FoldLeft(render, [lines |-> <<>>, started |-> {}], events).lines

Replay ==
    /\ at = "replay"
    /\ CASE file.kind \in {"absent", "unreadable"} -> Exits(Usage) /\ UNCHANGED shown
         [] Parsed(file) = None -> Exits(Validation) /\ UNCHANGED shown
         [] OTHER -> Exits(OK) /\ shown' = Rendered(Chosen(Parsed(file), args.turn))
    /\ UNCHANGED <<args, runtime, session, last, out, file, project, commands, turns>>

(***************************************************************************)
(* init, new plugin.                                                       *)
(***************************************************************************)
\* A path: its directory, the words of its name, whether that begins with a dot.
File(dir, name, hidden) == [dir |-> dir, name |-> name, hidden |-> hidden]

\* The files are written one after the other, and each write may fail.
Writes(files, text) ==
    \E n \in 0..Len(files) :
        LET done == ToSet(SubSeq(files, 1, n))
            before(p) == IF p \in DOMAIN project THEN project[p] ELSE <<>>
        IN /\ project' = [p \in DOMAIN project \cup done |->
                            IF p \in done THEN Append(before(p), Write(commands, args.force, text[p])) ELSE before(p)]
           /\ IF n = Len(files) THEN Exits(OK) ELSE Exits(Traceback)

\* The bundled templates: the agents of agent.json.  (Model names, prompts and
\* limits are wording.)
Templates == [minimal |-> {"assistant"}, coding |-> {"coder"}, pptx |-> {"intent-analyst", "slide-generator"}]
TemplateFiles(dir) == <<File(dir, <<"agent.json">>, FALSE), File(dir, <<"README.md">>, FALSE)>>
\* Mutant of Vacant: the files that are hidden count and not the others.
Vacant_Hidden(dir) == \A p \in DOMAIN project : p.dir = dir => ~p.hidden
\* _target_dir_is_safe, of a directory that may not be there.
Vacant(dir) == \A p \in DOMAIN project : p.dir = dir => p.hidden
IsFile(dir) == \E p \in DOMAIN project : p.dir = "." /\ p.name = <<dir>>
\* The template is that of the command line, else the one that is picked, if
\* the user is asked, where Ctrl-C picks none of them, else the first.
Picked ==
    IF args.template # None THEN {args.template}
    ELSE IF args.yes THEN {"minimal"} ELSE DOMAIN Templates \cup {None}
InitProject ==
    /\ at = "init"
    /\ \E template \in Picked :
          IF template = None \/ IsFile(args.dir) \/ ~(Vacant(args.dir) \/ args.force)
            THEN Exits(Usage) /\ UNCHANGED project
            ELSE LET files == TemplateFiles(args.dir) IN Writes(files, [p \in ToSet(files) |-> Templates[template]])
    /\ UNCHANGED <<args, runtime, session, last, out, file, shown, commands, turns>>

\* _VALID_SEAMS with the suffixes of their classes; some have none.
Suffix == [tool |-> <<"Tool">>, memory |-> <<"Memory">>, pattern |-> <<"Pattern">>, context_assembler |-> <<"Assembler">>,
           tool_executor |-> <<"Tool", "Executor">>, events |-> <<"Event", "Bus">>, session |-> <<"Session">>,
           runtime |-> <<"Runtime">>, skills |-> <<"Skills">>, agent_router |-> <<>>, diagnostics |-> <<>>]
\* _snake, _pascal, _class_name: of the words of a name, which may have none.
Stem(words) == IF words = <<>> THEN <<"Plugin">> ELSE words
ClassName(seam, words) == IF IsSuffix(Suffix[seam], Stem(words)) THEN Stem(words) ELSE Stem(words) \o Suffix[seam]
\* _render_plugin: a module with its class; _render_test: what it imports.
PluginText(module, class) == [is |-> "module", at |-> module, class |-> class]
StubText(module, class) == [is |-> "stub", at |-> module, class |-> class]
Target == IF args.path # None THEN File(".", args.path, FALSE) ELSE File("plugins", Stem(args.words), FALSE)
Stub == File("tests/unit", Stem(args.words), FALSE)

\* Mutant of Taken: the stub is written over.
Taken_Module(p) == p = Target /\ p \in DOMAIN project /\ ~args.force
Taken(p) == p \in DOMAIN project /\ ~args.force
\* _plugin_dispatch: a module that is there is refused, a stub that is there left.
NewPlugin ==
    /\ at = "new"
    /\ LET class == ClassName(args.seam, args.words)
           files == IF args.test /\ ~Taken(Stub) THEN <<Target, Stub>> ELSE <<Target>>
       IN IF args.seam \notin DOMAIN Suffix \/ Taken(Target)
            THEN Exits(Usage) /\ UNCHANGED project
            ELSE Writes(files, [p \in ToSet(files) |->
                                  IF p = Target THEN PluginText(Target, class) ELSE StubText(Target, class)])
    /\ UNCHANGED <<args, runtime, session, last, out, file, shown, commands, turns>>

Next ==
    \/ \E a \in Invocations : Start(a)
    \/ Load \/ ResolveInput \/ Build \/ RunOnce \/ EmitFinal \/ CloseRun \/ Redirect
    \/ Leave \/ Say \/ Reset \/ Save \/ Local
    \/ Replay \/ InitProject \/ NewPlugin

Spec == Init /\ [][Next]_vars
-----------------------------------------------------------------------------
Ended(command) == at = "shell" /\ args # None /\ args.command = command

\* run: the exit code says how the run ended, and stdout what its format
\* promises: with a result one record of it, after everything else, unless it is
\* to be text and there is none.
RunTold ==
    Ended("run") =>
        /\ exit = OK <=> last # None /\ last.verdict = "completed" /\ ~(Format = "json" /\ last.output = "odd")
        /\ exit = RuntimeFailure => last = None \/ last.verdict = "failed"
        /\ exit = Usage => runtime = "none" /\ out = <<>>
        /\ (exit \in {OK, RuntimeFailure} /\ last # None) =>
              /\ IF Format = "text" /\ last.output = "none" THEN out = <<>> ELSE out # <<>> /\ Last(out) = FinalRecord
              /\ Format # "events" => Len(out) <= 1

\* run, chat: a runtime that was made is closed, by chat in every case and by
\* run when it has a result or an error of the run to report.
RuntimeClosed ==
    /\ Ended("chat") => runtime # "open"
    /\ (Ended("run") /\ exit \in {OK, RuntimeFailure}) => runtime = "closed"

\* replay: turns are the events in their order, every event in one of them, and
\* one that is not the first begins with run.started; what chat has saved can be
\* read back; a line is timed once for a call.
ReplayFaithful ==
    /\ \A events \in Streams :
          /\ FlattenSeq(Turns(events)) = events
          /\ \A i \in DOMAIN Turns(events) : Turns(events)[i] # <<>> /\ (i > 1 => Turns(events)[i][1] = "run.started")
    /\ \A f \in Files : f.kind = "lines" /\ Len(f.items) # 1 => Parsed(f) = f.items
    /\ "saved" \in ToSet(out) => Parsed(file) # None
    /\ shown # None =>
          \A i \in DOMAIN shown : shown[i].timed =>
              \E j \in 1..(i - 1) : /\ shown[j].name \in {"tool.called", "llm.called"}
                                    /\ \A k \in (j + 1)..(i - 1) : shown[k].timed => shown[k].name # shown[i].name

\* init, new plugin: what is there is written over only with --force; a command
\* that succeeds has written all its files, the stub of a plugin apart if one is
\* there; one that is refused, none; a class says what it is of; a stub is of a
\* module that has been written.
ScaffoldFaithful ==
    /\ \A p \in DOMAIN project : \A i \in DOMAIN project[p] : i > 1 => project[p][i].force
    /\ (Ended("init") /\ exit = OK) =>
          \A p \in ToSet(TemplateFiles(args.dir)) : p \in DOMAIN project /\ Last(project[p]).by = commands
    /\ (Ended("new") /\ exit = OK) =>
          /\ Last(project[Target]).by = commands
          /\ IsSuffix(Suffix[args.seam], Last(project[Target]).text.class)
          /\ args.test => Stub \in DOMAIN project
    /\ (Ended("init") \/ Ended("new")) /\ exit = Usage =>
          \A p \in DOMAIN project : \A i \in DOMAIN project[p] : project[p][i].by # commands
    /\ \A p \in DOMAIN project : \A i \in DOMAIN project[p] :
          LET text == project[p][i].text IN
          (text # None /\ p.dir = "tests/unit") =>
              \E j \in DOMAIN project[text.at] : project[text.at][j].text = PluginText(text.at, text.class)

CommandsFaithful == RunTold /\ RuntimeClosed /\ ReplayFaithful /\ ScaffoldFaithful

\* Statements of the documentation that the code does not meet (README,
\* Disagreements); no run checks them.

\* run --format events prints one line per event.
EventsPrinted ==
    \A events \in Streams :
        (at = "run" /\ Format = "events" /\ args.stream) =>
            Len(Printed(events)) = Cardinality({i \in DOMAIN events : events[i] \in Interesting})

\* What run --format events prints is accepted by replay.
EventsReplayable == (file.kind = "lines" /\ Ended("run") /\ file.items = out) => Parsed(file) # None

\* A runtime that run has made is closed when the command ends.
AlwaysClosed == Ended("run") => runtime # "open"

\* What is saved belongs to the session it is saved under.
SavedIsOfSession == (at = "prompt" /\ out # <<>> /\ Last(out) = "saved" /\ last # None) => last.session = session
=============================================================================
