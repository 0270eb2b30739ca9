------------------------------ MODULE Delegation ------------------------------
(***************************************************************************)
(* DefaultAgentRouter over the in-memory session backend: runs delegate to *)
(* further runs, in the session they are in, in a copy of it or in a new   *)
(* one, awaited or in the background, or hand over to them.  A run that is *)
(* awaited executes in its parent's task, which may enter the sessions it  *)
(* holds again; a background run is a task of its own.                     *)
(***************************************************************************)
EXTENDS Naturals, Sequences, FiniteSets

CONSTANTS
    Ids,        \* the runs there may be, numbers
    Roots,      \* those the application asks for
    Limits,     \* values of max_delegation_depth
    MaxTries,   \* delegations a run tries (bound)
    None

DelegationAssumption ==
    /\ Roots \subseteq Ids /\ Ids \subseteq Nat /\ Limits \subseteq Nat /\ MaxTries \in Nat
    /\ None \notin Nat /\ None \notin {"shared", "forked", "isolated", "completed", "failed"}

VARIABLES
    limit,      \* _max_depth
    run,        \* of a run: its request and where it is
    states,     \* _states of the sessions, as what runs wrote there
    owner,      \* of a session: the task that holds its lock
    info        \* of a background run: its TaskInfo's status

vars == <<limit, run, states, owner, info>>

\* The sessions: the application's, the copy a run makes of its own, and one
\* that is new for a child.
Main == <<"main">>
ForkOf(r) == <<"fork", r>>
New(c) == <<"child", c>>
RunSessions == {Main} \cup {ForkOf(r) : r \in Ids} \cup {New(c) : c \in Ids}

NoRun == [at |-> "off", how |-> None, parent |-> None, depth |-> 0, task |-> None, isolation |-> None,
          session |-> Main, acquired |-> FALSE, child |-> None, transfer |-> FALSE, tries |-> 0,
          copied |-> <<>>, found |-> <<>>]

Init ==
    /\ limit \in Limits
    /\ run = [r \in Ids |-> NoRun]
    /\ states = [s \in RunSessions |-> <<>>]
    /\ owner = [s \in RunSessions |-> None]
    /\ info = [r \in Ids |-> None]

Put(r, with) == run' = [run EXCEPT ![r] = with]

Request(r) ==
    /\ r \in Roots /\ run[r].at = "off"
    /\ Put(r, [NoRun EXCEPT !.at = "asked", !.task = r])
    /\ UNCHANGED <<limit, states, owner, info>>

\* The run enters its session, which its task may hold already.
Enter(r) ==
    LET s == run[r].session
    IN /\ run[r].at = "asked" /\ owner[s] \in {None, run[r].task}
       /\ Put(r, [run[r] EXCEPT !.at = "running", !.acquired = owner[s] = None, !.found = states[s]])
       /\ owner' = [owner EXCEPT ![s] = run[r].task]
       /\ UNCHANGED <<limit, states, info>>

\* Mutant of Target: a new session is named after the run that asks for it.
Target_ByParent(r, c, isolation) ==
    CASE isolation = "shared" -> run[r].session [] isolation = "forked" -> ForkOf(r) [] OTHER -> New(r)
\* _resolve_session.
Target(r, c, isolation) ==
    CASE isolation = "shared" -> run[r].session [] isolation = "forked" -> ForkOf(r) [] OTHER -> New(c)

\* Mutant of MayDelegate: the limit is one too high.
MayDelegate_Deeper(r) == run[r].depth <= limit
\* _check_depth.
MayDelegate(r) == run[r].depth < limit

\* delegate() raises in the run that called it: too deep, an agent that does
\* not exist, or a copy that is there already and not empty.
Refused(r) ==
    /\ run[r].at = "running" /\ run[r].tries < MaxTries
    /\ Put(r, [run[r] EXCEPT !.tries = @ + 1])
    /\ UNCHANGED <<limit, states, owner, info>>

\* delegate() and _launch_background; a copy is made at once, by the task that
\* holds the session.
Delegate(r, c, isolation, background, transfer) ==
    LET s == run[r].session
        to == Target(r, c, isolation)
        copied == IF isolation = "forked" THEN states[s] ELSE <<>>
        child == [NoRun EXCEPT !.at = "asked", !.parent = r, !.depth = run[r].depth + 1, !.session = to,
                    !.task = IF background THEN c ELSE run[r].task,
                    !.isolation = isolation, !.copied = copied]
    IN /\ run[r].at = "running" /\ run[r].tries < MaxTries /\ MayDelegate(r)
       /\ c \in Ids \ Roots /\ run[c].at = "off" /\ \A d \in Ids \ Roots : run[d].at = "off" => c <= d
       /\ isolation = "forked" => states[to] = <<>>
       /\ transfer => ~background
       /\ states' = IF isolation = "forked" THEN [states EXCEPT ![to] = copied] ELSE states
       /\ run' = [run EXCEPT ![c] = child,
                             ![r].tries = @ + 1,
                             ![r].at = IF background THEN "running" ELSE "delegating",
                             ![r].child = IF background THEN None ELSE c,
                             ![r].transfer = transfer]
       /\ info' = IF background THEN [info EXCEPT ![c] = "running"] ELSE info
       /\ UNCHANGED <<limit, owner>>

\* The run is out of its session, if it was the one that entered it.
Leaves(r) == IF run[r].acquired THEN [owner EXCEPT ![run[r].session] = None] ELSE owner

\* A run returns a result, completed or failed, and is in the transcript; a
\* cancellation leaves nothing.
End(r, how) ==
    /\ run[r].at = "running"
    /\ Put(r, [run[r] EXCEPT !.at = "over", !.how = how])
    /\ states' = IF how = "cancelled" THEN states ELSE [states EXCEPT ![run[r].session] = Append(@, r)]
    /\ owner' = Leaves(r)
    /\ UNCHANGED <<limit, info>>

\* The child's result is returned by delegate().  transfer() raises it as a
\* HandoffSignal, with which run() ends at once; a CancelledError goes on up.
Back(r) ==
    LET c == run[r].child
        ends == run[r].transfer \/ run[c].how = "cancelled"
    IN /\ run[r].at = "delegating" /\ run[c].at = "over"
       /\ Put(r, [run[r] EXCEPT !.child = None,
                    !.at = IF ends THEN "over" ELSE "running",
                    !.how = IF ~ends THEN None ELSE IF run[c].how = "cancelled" THEN "cancelled" ELSE "handed"])
       /\ owner' = IF ends THEN Leaves(r) ELSE owner
       /\ UNCHANGED <<limit, states, info>>

\* Mutant of Settles: the status is written before the run is awaited.
Settles_AtOnce(c) == run[c].at # "off"
Settles(c) == run[c].at = "over" /\ run[c].how # "cancelled"
\* _runner, after the run: any result is "completed", unless its file cannot
\* be written.  A CancelledError passes both branches.
Record(c, status) ==
    /\ info[c] = "running" /\ Settles(c)
    /\ status \in {"completed", "failed"}
    /\ info' = [info EXCEPT ![c] = status]
    /\ UNCHANGED <<limit, run, states, owner>>

Progress(r) ==
    \/ Enter(r) \/ Back(r)
    \/ \E how \in {"completed", "failed", "cancelled"} : End(r, how)
    \/ \E status \in {"completed", "failed"} : Record(r, status)

Next ==
    \E r \in Ids :
        \/ Request(r) \/ Refused(r) \/ Progress(r)
        \/ \E c \in Ids, isolation \in {"shared", "forked", "isolated"}, background, transfer \in BOOLEAN :
              Delegate(r, c, isolation, background, transfer)

\* Runs end and the tasks they are in are scheduled.
Fairness == \A r \in Ids : WF_vars(Progress(r))

Spec == Init /\ [][Next]_vars /\ Fairness
-----------------------------------------------------------------------------
TypeOK ==
    /\ \A r \in Ids : /\ run[r].at \in {"off", "asked", "running", "delegating", "over"}
                      /\ run[r].session \in RunSessions
    /\ DOMAIN states = RunSessions
    /\ owner \in [RunSessions -> Ids \cup {None}]
    /\ info \in [Ids -> {None, "running", "completed", "failed"}]

\* delegate, _check_depth: the depth that travels in the metadata is the
\* length of the chain of runs, in the background too, and never over the limit.
DepthCounted ==
    \A r \in Ids : run[r].parent # None =>
        run[r].depth = run[run[r].parent].depth + 1 /\ run[r].depth <= limit

\* A task is in a session alone; a run is in it only while its task holds it.
SessionsExclude ==
    \A r \in Ids : run[r].at \in {"running", "delegating"} => owner[run[r].session] = run[r].task

\* _resolve_session, fork_session: a new session is empty when its run begins,
\* a copy is what the parent's session held when the parent asked, as long as
\* the parent asks for one copy.
ChildrenStartRight ==
    \A c \in Ids : run[c].at \in {"running", "delegating", "over"} =>
        /\ run[c].isolation = "isolated" => run[c].found = <<>>
        /\ run[c].isolation = "forked" /\ (\A d \in Ids \ {c} : run[d].session # run[c].session) =>
               run[c].found = run[c].copied

\* _runner: a record says how a run ended only when it has.
RecordsTrue ==
    \A c \in Ids : info[c] \in {"completed", "failed"} => run[c].at = "over" /\ run[c].how # "cancelled"

DelegationSound == DepthCounted /\ SessionsExclude /\ ChildrenStartRight /\ RecordsTrue

\* No run is under way, and the records know it.
AllOver == \A r \in Ids : run[r].at \in {"off", "over"} /\ (info[r] = "running" => run[r].how = "cancelled")
\* Whatever was delegated ends, and is recorded.
DelegationsEnd == <>[]AllOver

\* Statements of the documentation that the code does not meet (README,
\* Disagreements); no run checks them.

\* agent-router, forked session mode: every forked child starts with exactly
\* what its parent's session held.
EveryForkIsACopy ==
    \A c \in Ids : run[c].isolation = "forked" /\ run[c].at = "running" => run[c].found = run[c].copied
=============================================================================
