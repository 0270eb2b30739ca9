------------------------------ MODULE McpServer ------------------------------
(***************************************************************************)
(* The server an McpTool is configured with: what the constructor lets     *)
(* through, what its preflight finds out before a run, how a connection to *)
(* it begins and with which environment, and the name a session's pool     *)
(* knows it by.  Values are tokens; a set of variables is the names in it. *)
(***************************************************************************)
EXTENDS Integers

CONSTANTS
    None,
    Parent,     \* variables of the environment of this process
    OnPath,     \* commands that shutil.which finds
    Addresses   \* URLs with a scheme and a host

\* A configuration s has command, args, url, env (None: not given), passthrough,
\* timeout, mode, prelaunch and probe; installed tells what the mcp SDK that is
\* installed has ("all", "stdio" or "nothing"), and answer how the server
\* behaves: it "answers", does so "late", is "dead", or does not list its tools.

\* Mutant of Constructs: a per_call tool may be launched ahead.
Constructs_Early(s) == "" \notin s.passthrough /\ (s.timeout # None => s.timeout > 0)
\* McpTool.__init__; names are not empty strings.
Constructs(s) ==
    /\ "" \notin s.passthrough
    /\ s.timeout # None => s.timeout > 0
    /\ s.prelaunch = "eager" => s.mode = "pooled"

\* A url wins over a command.
Http(s) == s.url # None

\* identifier().
Identifier(s) == IF Http(s) THEN s.url ELSE IF s.command # None THEN s.command ELSE "<unset>"

\* Mutant of Environment: the parent's value wins.
Environment_Parent(s) ==
    IF s.passthrough = {} THEN s.env
    ELSE [n \in (s.passthrough \cap Parent) \cup (IF s.env = None THEN {} ELSE DOMAIN s.env) |->
             IF n \in s.passthrough \cap Parent THEN "parent" ELSE s.env[n]]
\* resolved_stdio_env(): without a passthrough, whatever env was given or not.
Environment(s) ==
    IF s.passthrough = {} THEN s.env
    ELSE LET own == IF s.env = None THEN {} ELSE DOMAIN s.env
         IN [n \in (s.passthrough \cap Parent) \cup own |-> IF n \in own THEN s.env[n] ELSE "parent"]

\* The SDK can do it.
Transport(s) == IF Http(s) THEN s.installed = "all" ELSE s.installed # "nothing"

\* McpConnection.__aenter__: a transport, then initialize() within its timeout;
\* what fails is exited.
Opens(s) ==
    /\ Transport(s)
    /\ IF Http(s) THEN s.url \in Addresses ELSE s.command \in OnPath
    /\ s.answer \in {"answers", "unlisted"} \/ (s.answer = "late" /\ s.timeout = None)

\* Mutant of Found: the command is looked at first.
Found_CommandFirst(s) == IF s.command # None THEN s.command \in OnPath ELSE s.url \in Addresses
\* What can be told without a connection.
Found(s) == IF Http(s) THEN s.url \in Addresses ELSE s.command \in OnPath

\* Mutant of Probed: initialize() is waited for without its timeout.
Probed_Patient(s) == Opens([s EXCEPT !.timeout = None])
\* A probe opens a connection, lists the tools and closes it again.
Probed(s) == Opens(s) /\ s.answer # "unlisted"

\* preflight(); a failure ends the run before its first step.
Preflight(s) == s.installed # "nothing" /\ Found(s) /\ (s.probe => Probed(s))

\* warmup_eager: what a session's pool opens before the pattern runs.
Warmed(s) == s.prelaunch = "eager"
-----------------------------------------------------------------------------
\* preflight, McpConnection: a run is never refused for a server that a
\* connection could be opened to and that lists its tools; one that was probed opens, under the
\* constraints that are going to apply; what is launched ahead is pooled; and
\* with a passthrough a child is given what is named or given, and no more.
ServerFaithful(s) ==
    Constructs(s) =>
        /\ Opens(s) /\ s.answer # "unlisted" => Preflight(s)
        /\ Preflight(s) /\ s.probe => Opens(s)
        /\ Warmed(s) => s.mode = "pooled"
        /\ s.passthrough # {} =>
              LET given == Environment(s)
              IN /\ DOMAIN given \subseteq s.passthrough \cup (IF s.env = None THEN {} ELSE DOMAIN s.env)
                 /\ s.env # None => \A n \in DOMAIN s.env : given[n] = s.env[n]

\* Statements of the documentation that the code does not meet (README,
\* Disagreements); no run checks them.

\* builtin-tools: tools "with ... identical server config share a single
\* subprocess".  So do tools whose servers differ in their arguments only.
SharedIsIdentical(s, t) ==
    Identifier(s) = Identifier(t) => Http(s) = Http(t) /\ s.args = t.args /\ Environment(s) = Environment(t)
=============================================================================
