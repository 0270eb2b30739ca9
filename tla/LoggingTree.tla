---------------------------- MODULE LoggingTree ----------------------------
(***************************************************************************)
(* observability.configure and reset_logging: the handler, the levels and  *)
(* the loguru sinks of the openagents loggers, next to those that the      *)
(* application has put there itself.  A logger's name is the sequence of   *)
(* its parts.                                                              *)
(***************************************************************************)
EXTENDS Naturals, Sequences, SequencesExt, FiniteSets, Functions

CONSTANTS
    Loggers,        \* names of loggers, the prefixes of each that are below Root included
    Configs,        \* records [auto, level, rules, include, exclude, pretty, sinks, keys]
    None,           \* no configuration
    Environments,   \* records [fields, disabled]: what OPENAGENTS_LOG_* say
    Records,        \* extras of log records: paths to a value
    MaxCalls        \* calls of the application (bound)

\* No variable of the environment says what goes to loguru.
LoggingAssumption ==
    /\ \A e \in Environments : "sinks" \notin DOMAIN e.fields
    /\ \A c \in Configs : /\ "sinks" \in DOMAIN c /\ Len(c.sinks) \in Nat /\ DOMAIN c.sinks = 1..Len(c.sinks)
                          /\ \A i \in DOMAIN c.sinks : c.sinks[i].own

VARIABLES
    libraries,      \* those of rich and loguru that are installed
    env,
    tree,           \* loggers and sinks, see Init
    force,          \* the configuration that was applied last, None without one
    touched,        \* loggers whose level the application has set
    calls

vars == <<libraries, env, tree, force, touched, calls>>

Root == <<"openagents">>
Covers(prefix, name) == IsPrefix(prefix, name)
Warning == 3
\* A handler, numbered among those that are ours or the application's.
Handler(handlers, own, config) ==
    [own |-> own, config |-> config, n |-> Cardinality({h \in handlers : h.own = own})]
ForeignSink == [own |-> FALSE, ok |-> TRUE, level |-> 0, include |-> None]

Init ==
    /\ libraries \in SUBSET {"rich", "loguru"}
    /\ env \in Environments
    /\ tree = [level |-> [n \in Loggers |-> 0], propagate |-> TRUE,
               handlers |-> {Handler({}, FALSE, None)}, \* of the logger Root
               overridden |-> {},                     \* _OVERRIDDEN_LOGGERS
               sinks |-> [i \in {0} |-> ForeignSink], \* of loguru.logger, by number
               next |-> 1, installed |-> {}]          \* _INSTALLED_SINK_IDS
    /\ force = None /\ touched = {} /\ calls = 0

\* merge_env_overrides: a variable that is set replaces the whole field.
Merged(c) == [f \in DOMAIN c |-> IF f \in DOMAIN env.fields THEN env.fields[f] ELSE c[f]]
\* _check_backend_exclusivity.
Valid(c) == ~(c.pretty /\ c.sinks # <<>>)

\* Mutant of RemoveInstalled: every sink of loguru is removed.
RemoveInstalled_All(t) == [t EXCEPT !.sinks = <<>>, !.installed = {}]
\* remove_installed_sinks: the application may have removed some before.
RemoveInstalled(t) == [t EXCEPT !.sinks = Restrict(@, DOMAIN @ \ t.installed), !.installed = {}]

\* Mutant of Reset: the levels of an earlier configuration stay.
Reset_KeepsLevels(t) ==
    RemoveInstalled([t EXCEPT !.handlers = {h \in @ : ~h.own}, !.propagate = TRUE,
                              !.level[Root] = 0, !.overridden = {}])
\* reset_logging.
Reset(t) ==
    RemoveInstalled([t EXCEPT !.handlers = {h \in @ : ~h.own}, !.propagate = TRUE,
                              !.level = [n \in Loggers |-> IF n = Root \/ n \in t.overridden THEN 0 ELSE @[n]],
                              !.overridden = {}])

\* Levels go to the loggers that are below Root; others are warned of.
OwnRules(c) == {n \in DOMAIN c.rules : Covers(Root, n)}
Levelled(t, c) ==
    [t EXCEPT !.propagate = FALSE, !.overridden = OwnRules(c),
              !.level = [n \in Loggers |-> IF n \in OwnRules(c) THEN c.rules[n] ELSE IF n = Root THEN c.level ELSE @[n]]]

\* _build_handler, install_sinks: a sink that cannot be added takes those of
\* the call with it that were added before.
UsesLoguru(c) == c.sinks # <<>> /\ ~env.disabled
CannotBuild(c) ==
    IF UsesLoguru(c) THEN "loguru" \notin libraries \/ \E i \in DOMAIN c.sinks : ~c.sinks[i].ok
    ELSE c.pretty /\ "rich" \notin libraries
Installed(t, c) ==
    LET ids == {t.next + i : i \in DOMAIN c.sinks}
    IN IF ~UsesLoguru(c) THEN t
       ELSE [t EXCEPT !.sinks = [i \in DOMAIN @ \cup ids |-> IF i \in ids THEN c.sinks[i - t.next] ELSE @[i]],
                      !.installed = @ \cup ids, !.next = @ + Len(c.sinks) + 1]
Handled(t, c) == [t EXCEPT !.handlers = @ \cup {Handler(@, TRUE, c)}]

\* Mutant of Applied: a handler that cannot be built leaves the levels behind.
Applied_NoRollback(t, c) ==
    LET levelled == Levelled(Reset(t), c)
    IN IF CannotBuild(c) THEN RemoveInstalled(levelled) ELSE Handled(Installed(levelled, c), c)
Applied(t, c) ==
    LET levelled == Levelled(Reset(t), c)
    IN IF CannotBuild(c) THEN Reset(RemoveInstalled(levelled)) ELSE Handled(Installed(levelled, c), c)

Counts == calls < MaxCalls /\ calls' = calls + 1

\* configure, by the application or (_maybe_auto_configure_logging) by a
\* Runtime that is built from a config file that asks for it.
Configure(c) ==
    LET merged == Merged(c)
    IN /\ Counts
       /\ IF Valid(merged)
          THEN tree' = Applied(tree, merged) /\ force' = IF CannotBuild(merged) THEN None ELSE merged
          ELSE UNCHANGED <<tree, force>>
       /\ UNCHANGED <<libraries, env, touched>>

AutoConfigure(c) ==
    /\ IF c = None THEN "auto" \in DOMAIN env.fields /\ env.fields.auto ELSE ~Valid(Merged(c)) \/ Merged(c).auto
    /\ \E d \in Configs : (c = None \/ d = c) /\ Configure(d)

ResetLogging ==
    /\ Counts
    /\ tree' = Reset(tree) /\ force' = None
    /\ UNCHANGED <<libraries, env, touched>>

\* The application's own handlers, levels and sinks.
AddHandler == Counts /\ tree' = [tree EXCEPT !.handlers = @ \cup {Handler(@, FALSE, None)}] /\ UNCHANGED <<libraries, env, force, touched>>
SetLevel(n, l) ==
    /\ Counts
    /\ tree' = [tree EXCEPT !.level[n] = l] /\ touched' = touched \cup {n}
    /\ UNCHANGED <<libraries, env, force>>
AddSink ==
    /\ Counts /\ "loguru" \in libraries
    /\ tree' = [tree EXCEPT !.sinks = [i \in DOMAIN @ \cup {tree.next} |-> IF i = tree.next THEN ForeignSink ELSE @[i]],
                             !.next = @ + 1]
    /\ UNCHANGED <<libraries, env, force, touched>>
RemoveSinks(gone) ==
    /\ Counts /\ "loguru" \in libraries
    /\ tree' = [tree EXCEPT !.sinks = Restrict(@, DOMAIN @ \ gone)]
    /\ UNCHANGED <<libraries, env, force, touched>>

Next ==
    \/ \E c \in Configs : Configure(c)
    \/ \E c \in Configs \cup {None} : AutoConfigure(c)
    \/ ResetLogging \/ AddHandler \/ AddSink
    \/ \E n \in Loggers, l \in {0, 1, 3} : SetLevel(n, l)
    \/ \E i \in DOMAIN tree.sinks : RemoveSinks({i})
    \/ RemoveSinks(DOMAIN tree.sinks)

Spec == Init /\ [][Next]_vars
-----------------------------------------------------------------------------
(***************************************************************************)
(* A record of a logger below Root.                                        *)
(***************************************************************************)
\* Logger.getEffectiveLevel, up to the root logger's WARNING.
Effective(name) ==
    LET set == {i \in 1..Len(name) : SubSeq(name, 1, i) \in Loggers /\ tree.level[SubSeq(name, 1, i)] # 0}
    IN IF set = {} THEN Warning ELSE tree.level[SubSeq(name, 1, CHOOSE i \in set : \A j \in set : j <= i)]

\* Mutant of PrefixPasses: an empty include list lets everything pass.
PrefixPasses_Falsy(c, name) ==
    (\A p \in c.exclude : ~Covers(p, name)) /\ (c.include \in {None, {}} \/ \E p \in c.include : Covers(p, name))
PrefixPasses(c, name) ==
    (\A p \in c.exclude : ~Covers(p, name)) /\ (c.include = None \/ \E p \in c.include : Covers(p, name))
\* Mutant of LevelPasses: the least specific rule counts.
LevelPasses_Shortest(c, name, level) ==
    LET rules == {p \in DOMAIN c.rules : Covers(p, name)}
    IN rules = {} \/ level >= c.rules[CHOOSE p \in rules : \A q \in rules : Len(p) <= Len(q)]
LevelPasses(c, name, level) ==
    LET rules == {p \in DOMAIN c.rules : Covers(p, name)}
    IN rules = {} \/ level >= c.rules[CHOOSE p \in rules : \A q \in rules : Len(q) <= Len(p)]

Emitted(h, name, level) == level >= Effective(name) /\ (h.own => PrefixPasses(h.config, name) /\ LevelPasses(h.config, name, level))
\* _sink_filter: sinks of ours take what our handler forwarded; others take all.
Taken(sink, name, level, forwarded) ==
    /\ level >= sink.level
    /\ sink.own => forwarded /\ (sink.include = None \/ \E p \in sink.include : Covers(p, name))

\* RedactFilter, _walk: a path is followed through dicts and lists.
Masked(c, path) ==
    /\ c.keys # {} /\ ~path[1].hidden
    /\ \E i \in DOMAIN path : path[i].key \in c.keys /\ \A j \in 1..(i - 1) : path[j].in # "tuple"
-----------------------------------------------------------------------------
Own(handlers) == {h \in handlers : h.own}
OwnSinks == {i \in DOMAIN tree.sinks : tree.sinks[i].own}

\* configure, reset_logging: however often they are called and wherever they
\* fail, there is one handler of ours with a configuration in force and none
\* without, and no sink that is not one of that configuration.
OneHandler ==
    /\ Own(tree.handlers) = IF force = None THEN {} ELSE {Handler({}, TRUE, force)}
    /\ tree.propagate = (force = None)
    /\ OwnSinks \subseteq tree.installed
    /\ force = None => tree.installed = {}
    /\ Cardinality(tree.installed) = IF force # None /\ UsesLoguru(force) THEN Len(force.sinks) ELSE 0

\* reset_logging, configure: nothing of an earlier configuration is left.
NoResidue ==
    force = None => \A n \in Loggers \ touched : tree.level[n] = 0

\* The rule that counts is the most specific one that names a level.
Threshold(c, name) ==
    LET rules == {p \in DOMAIN c.rules : Covers(p, name) /\ c.rules[p] # 0}
        base == IF c.level = 0 /\ Root \notin DOMAIN c.rules THEN Warning ELSE c.level
    IN IF rules = {} THEN IF Root \in DOMAIN c.rules THEN Warning ELSE base
       ELSE c.rules[CHOOSE p \in rules : \A q \in rules : Len(q) <= Len(p)]

\* configure: a record goes to our handler if and only if the configuration in
\* force says so, although two gates (a logger's level, the handler's filter)
\* each look at the rules in their own way.
RuledOnce ==
    force # None =>
        \A n \in Loggers, l \in 1..4 :
            (Covers(Root, n) /\ \A t \in touched : ~Covers(t, n)) =>
                \A h \in Own(tree.handlers) :
                    Emitted(h, n, l) <=> (/\ l >= Threshold(force, n)
                                          /\ \A p \in force.exclude : ~Covers(p, n)
                                          /\ force.include # None => \E p \in force.include : Covers(p, n))

\* RedactFilter: a value under a sensitive key at any depth of dicts and lists
\* is masked before a handler of ours is given it.
SecretsMasked ==
    force # None => \A r \in Records : \A i \in DOMAIN r :
        (r[i].key \in force.keys /\ ~r[1].hidden /\ \A j \in DOMAIN r : r[j].in # "tuple") => Masked(force, r)

LoggingFaithful == OneHandler /\ NoResidue /\ RuledOnce /\ SecretsMasked

AppKept(named) ==
    /\ {h \in tree'.handlers : ~h.own} = {h \in tree.handlers : ~h.own}
    /\ \A i \in DOMAIN tree.sinks : ~tree.sinks[i].own => i \in DOMAIN tree'.sinks
    /\ \A n \in touched \ (named \cup tree.overridden \cup {Root}) : tree'.level[n] = tree.level[n]
\* configure, reset_logging, install_sinks: handlers and sinks of the
\* application are as they were, and levels that no rule names.
AppUntouched ==
    [][(\A c \in Configs : Configure(c) => AppKept(OwnRules(Merged(c)))) /\ (ResetLogging => AppKept({}))]_vars

\* Statements of the documentation that the code does not meet (README,
\* Disagreements); no run checks them.

\* The application's sinks never see records of openagents loggers.
SinksApart ==
    \A i \in DOMAIN tree.sinks : \A n \in Loggers : \A h \in Own(tree.handlers) :
        (~tree.sinks[i].own /\ UsesLoguru(h.config)) =>
            ~(Emitted(h, n, Warning) /\ Taken(tree.sinks[i], n, Warning, TRUE))

\* reset_logging restores what was there before configure.
LevelsGivenBack == force = None => \A n \in touched : tree.level[n] # 0

\* A rule NOTSET lets every record of its loggers through.
NotsetOpens ==
    force # None => \A n \in DOMAIN force.rules : (Covers(Root, n) /\ force.rules[n] = 0 /\ PrefixPasses(force, n)) =>
        \A h \in Own(tree.handlers) : Emitted(h, n, 1)

\* A configuration that cannot be applied leaves the one in force.
ForceKept == [][\A c \in Configs : Configure(c) /\ force # None => force' # None]_vars
=============================================================================
