---------------------------- MODULE PluginLoading ----------------------------
(***************************************************************************)
(* From a configuration to plugin instances: the validators of the schema, *)
(* the two registries a plugin's type is looked up in - the builtin one    *)
(* and what decorators register, at any time, in a dict per kind - and the *)
(* loader.  A plugin factory is what a name or a path stands for: a class  *)
(* or another callable, with the methods it has and whether it can be      *)
(* called with config=.                                                    *)
(***************************************************************************)
EXTENDS Naturals, Sequences

CONSTANTS
    None,
    Factories,      \* the factories there are: [name, class, methods, takes]
    Builtin,        \* _BUILTIN_REGISTRY: of a kind, the builtin names and their factories
    Symbols,        \* what importable paths stand for
    Bundled,        \* builtin_factories: the executors and assemblers the runtime knows itself
    Fallbacks,      \* runtime.config entries for them, each None or [shape, type, impl]
    Names,          \* names a decorator may give
    Agents,         \* agent definitions as a file may have them
    MaxDecorated    \* decorators that are applied (bound)

\* What a factory must have to be loaded as a plugin of a kind.
Required == [memory |-> {}, pattern |-> {"execute", "react"}, tool |-> {"invoke"},
             tool_executor |-> {"execute", "execute_stream"}, context_assembler |-> {"assemble", "finalize"}]

LoadingAssumption ==
    /\ \A f \in Factories : f.class \in BOOLEAN /\ f.takes \in BOOLEAN
    /\ \A k \in DOMAIN Builtin : \A t \in DOMAIN Builtin[k] : Builtin[k][t] \in Factories
    /\ \A t \in {"config", "import", "incomplete", "no selector", "not an object", "renamed", "uncallable", "unknown type"} :
          None # t
    /\ Required.tool_executor \subseteq Bundled["tool_executor"].default.methods
    /\ Required.context_assembler \subseteq Bundled["context_assembler"].default.methods

VARIABLES
    registered,     \* _DECORATOR_REGISTRY_MAP
    decorated,      \* how many decorators were applied
    loaded          \* the agent loaded last, and what came of it

vars == <<registered, decorated, loaded>>

Kinds == DOMAIN Builtin
\* The loaders that look at the instance too.
Checked == {"tool_executor", "context_assembler"}

Init ==
    /\ registered = [k \in Kinds |-> [n \in Names |-> None]]
    /\ decorated = 0
    /\ loaded = None
-----------------------------------------------------------------------------
\* The decorators.  Bare, all but @tool take a class only: over anything else
\* they return a decorator and register nothing.
Registers(kind, target, bare) == bare /\ kind # "tool" => target.class
NameOf(target, given) == IF given = None THEN target.name ELSE given

\* _register_plugin warns of a name that is taken, and registers all the same.
Decorate(kind, target, bare, given) ==
    /\ decorated < MaxDecorated /\ decorated' = decorated + 1
    /\ bare => given = None
    /\ NameOf(target, given) \in Names
    /\ registered' = IF Registers(kind, target, bare)
                     THEN [registered EXCEPT ![kind][NameOf(target, given)] = target]
                     ELSE registered
    /\ UNCHANGED loaded

\* Mutant of Lookup: what was decorated comes first, as its warning says.
Lookup_Shadowed(kind, type) ==
    IF type \in Names /\ registered[kind][type] # None THEN registered[kind][type]
    ELSE IF type \in DOMAIN Builtin[kind] THEN Builtin[kind][type] ELSE None
\* get_builtin_plugin_class: builtin names first.
Lookup(kind, type) ==
    IF type \in DOMAIN Builtin[kind] THEN Builtin[kind][type]
    ELSE IF type \in Names THEN registered[kind][type] ELSE None
-----------------------------------------------------------------------------
\* _clean_optional_str: a blank selector is none.
Cleaned(value) == IF value = "blank" THEN None ELSE value

\* Mutant of SelectorFits: setting both goes through.
SelectorFits_Either(ref) == Cleaned(ref.type) # None \/ Cleaned(ref.impl) # None
\* PluginRef.validate_selector: one of type and impl, and not both.
SelectorFits(ref) == (Cleaned(ref.type) # None) # (Cleaned(ref.impl) # None)

\* Mutant of Accepted: tools that are not enabled may share an id.
Accepted_EnabledOnly(agent) ==
    /\ SelectorFits(agent.memory) /\ SelectorFits(agent.pattern)
    /\ agent.tool_executor # None => SelectorFits(agent.tool_executor)
    /\ agent.context_assembler # None => SelectorFits(agent.context_assembler)
    /\ \A i \in DOMAIN agent.tools : SelectorFits(agent.tools[i].ref)
\* AgentDefinition's validators; a disabled tool is held to them too.
Accepted(agent) ==
    /\ SelectorFits(agent.memory) /\ SelectorFits(agent.pattern)
    /\ agent.tool_executor # None => SelectorFits(agent.tool_executor)
    /\ agent.context_assembler # None => SelectorFits(agent.context_assembler)
    /\ \A i, j \in DOMAIN agent.tools :
          SelectorFits(agent.tools[i].ref) /\ (agent.tools[i].id = agent.tools[j].id => i = j)
-----------------------------------------------------------------------------
Failed(why) == [plugin |-> None, error |-> why]
Built(f) == [plugin |-> f, error |-> None]

\* Mutant of Complete: the methods of a class are not looked at.
Complete_Anything(kind, f) == TRUE
\* _validate_class_methods, before the call, and for some kinds the same
\* question to the instance after it.
Complete(kind, f) == f.class \/ kind \in Checked => Required[kind] \subseteq f.methods

\* _instantiate: a TypeError of the call is the only error that is typed.
Instance_(kind, f) ==
    IF f.class /\ ~Complete(kind, f) THEN Failed("incomplete")
    ELSE IF ~f.takes THEN Failed("uncallable")
    ELSE IF ~Complete(kind, f) THEN Failed("incomplete") ELSE Built(f)

\* _load_plugin_impl.
Load(kind, ref) ==
    LET impl == Cleaned(ref.impl)
        type == Cleaned(ref.type)
    IN IF impl # None THEN IF impl \in DOMAIN Symbols THEN Instance_(kind, Symbols[impl]) ELSE Failed("import")
       ELSE IF type = None THEN Failed("no selector")
       ELSE IF kind = "context_assembler" /\ type = "summarizing" THEN Failed("renamed")
       ELSE IF Lookup(kind, type) = None THEN Failed("unknown type")
       ELSE Instance_(kind, Lookup(kind, type))

LoadOptional(kind, ref) == IF ref = None THEN Built(None) ELSE Load(kind, ref)

\* load_agent_plugins: in this order, up to the first that fails; tools that
\* are not enabled are passed over.
Steps(agent) ==
    { [at |-> 1, kind |-> "memory", of |-> "memory", got |-> Load("memory", agent.memory)],
      [at |-> 2, kind |-> "pattern", of |-> "pattern", got |-> Load("pattern", agent.pattern)],
      [at |-> 3, kind |-> "tool_executor", of |-> "tool_executor",
       got |-> LoadOptional("tool_executor", agent.tool_executor)],
      [at |-> 4, kind |-> "context_assembler", of |-> "context_assembler",
       got |-> LoadOptional("context_assembler", agent.context_assembler)] }
    \cup {[at |-> 4 + i, kind |-> "tool", of |-> agent.tools[i].id, got |-> Load("tool", agent.tools[i].ref)] :
              i \in {j \in DOMAIN agent.tools : agent.tools[j].enabled}}

LoadAgent(agent) ==
    LET steps == Steps(agent)
        bad == {s \in steps : s.got.error # None}
    IN /\ \/ ~Accepted(agent) /\ loaded' = [agent |-> agent, error |-> "config", plugins |-> {}]
          \/ Accepted(agent) /\ bad = {} /\ loaded' = [agent |-> agent, error |-> None, plugins |-> steps]
          \/ /\ Accepted(agent)
             /\ \E s \in bad : /\ \A t \in bad : s.at <= t.at
                              /\ loaded' = [agent |-> agent, error |-> s.got.error, plugins |-> {}]
       /\ UNCHANGED <<registered, decorated>>

\* Mutant of Fitted: what was instantiated is not looked at.
Fitted_Unseen(kind, f) == IF ~f.takes THEN Failed("uncallable") ELSE Built(f)
Fitted(kind, f) ==
    IF ~f.takes THEN Failed("uncallable")
    ELSE IF Required[kind] \subseteq f.methods THEN Built(f) ELSE Failed("incomplete")

\* _load_runtime_dependency: no validator has seen this entry; of type and
\* impl, impl wins, and of names only the runtime's own are known.
Dependency(kind, raw) ==
    IF raw = None THEN Built(Bundled[kind].default)
    ELSE IF raw.shape # "object" THEN Failed("not an object")
    ELSE LET impl == Cleaned(raw.impl)
             type == Cleaned(raw.type)
         IN IF impl # None THEN IF impl \in DOMAIN Symbols THEN Fitted(kind, Symbols[impl]) ELSE Failed("import")
            ELSE IF type = None THEN Failed("no selector")
            ELSE IF type \in DOMAIN Bundled[kind] THEN Fitted(kind, Bundled[kind][type]) ELSE Failed("unknown type")

\* Mutant of Resolved: the runtime's comes first.
Resolved_Runtime(kind, plugins, raw) ==
    LET own == {p \in plugins : p.kind = kind /\ p.got.plugin # None}
    IN IF raw = None /\ own # {} THEN (CHOOSE p \in own : TRUE).got ELSE Dependency(kind, raw)
\* _resolve_tool_executor, _resolve_context_assembler: the agent's, if it has one.
Resolved(kind, plugins, raw) ==
    LET own == {p \in plugins : p.kind = kind /\ p.got.plugin # None}
    IN IF own # {} THEN (CHOOSE p \in own : TRUE).got ELSE Dependency(kind, raw)

Next ==
    \/ \E kind \in Kinds, target \in Factories, bare \in BOOLEAN, given \in Names \cup {None} :
          Decorate(kind, target, bare, given)
    \/ \E agent \in Agents : LoadAgent(agent)

Spec == Init /\ [][Next]_vars
-----------------------------------------------------------------------------
\* load_agent_plugins after AppConfig: an agent that was loaded has a memory, a
\* pattern and its enabled tools under distinct ids, each of a class that has
\* what its kind needs; a configuration that was accepted never fails for want
\* of a selector.
LoadedIsUsable ==
    loaded # None =>
        /\ loaded.error # "no selector"
        /\ loaded.error = None =>
             /\ \A p \in loaded.plugins : p.got.plugin # None /\ p.got.plugin.class =>
                    Required[p.kind] \subseteq p.got.plugin.methods
             /\ \A p, q \in loaded.plugins : p.kind = "tool" /\ q.kind = "tool" /\ p.of = q.of => p = q
             /\ \A i \in DOMAIN loaded.agent.tools :
                    LET t == loaded.agent.tools[i]
                    IN t.enabled <=> \E p \in loaded.plugins : p.kind = "tool" /\ p.of = t.id
             /\ \A r \in {loaded.agent.memory, loaded.agent.pattern} :
                    Cleaned(r.impl) # None => Cleaned(r.type) = None

\* _resolve_tool_executor, _resolve_context_assembler: whatever the runtime's
\* configuration says of them, a run has an executor and an assembler with the
\* methods it calls, or ends before its first step; and what an agent brings
\* does not depend on that configuration.
DependenciesFit ==
    loaded # None /\ loaded.error = None =>
        \A kind \in Checked, raw \in Fallbacks :
            LET got == Resolved(kind, loaded.plugins, raw)
                brought == {p \in loaded.plugins : p.kind = kind /\ p.got.plugin # None}
            IN /\ got.error = None => Required[kind] \subseteq got.plugin.methods
               /\ \A p \in brought : got = p.got

\* get_builtin_plugin_class: whatever is decorated, a builtin name goes on
\* meaning the builtin plugin.
BuiltinsUnmoved ==
    [][\A k \in Kinds : \A t \in DOMAIN Builtin[k] : Lookup(k, t)' = Lookup(k, t)]_vars

\* Statements of the documentation that the code does not meet (README,
\* Disagreements); no run checks them.

\* decorators: a function under @tool is a plugin that can be loaded.
FunctionsLoad ==
    loaded # None /\ loaded.error = "uncallable" => \A i \in DOMAIN loaded.agent.tools :
        LET f == Lookup("tool", loaded.agent.tools[i].ref.type) IN f # None => f.class
=============================================================================
