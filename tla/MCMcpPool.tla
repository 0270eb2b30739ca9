------------------------------ MODULE MCMcpPool ------------------------------
(* Instances of McpPool: runs of one or two sessions, a delegated run, tool  *)
(* calls that share a server, an operation that closes pools.  One initial   *)
(* choice: the instance the configuration gives, an application that closes  *)
(* and evicts pools only between runs and cancels nothing, or a tool outside *)
(* any session's pool.                                                       *)
EXTENDS McpPool

CONSTANTS r1, r2, r3, k1, k2, k3, s1, s2, s3, v1, v2, o1

VARIABLES
    part,                                          \* "shared", "orderly" or "own"
    use, at, todoOf, out, struck, inflight, future,  \* of McpTool
    opened, live, dead, mine, own, spoilt, lock, drained, leaving

\* r1 and r2 on two sessions.
TwoRuns == {r1, r2}
TwoSession == [r \in TwoRuns |-> IF r = r1 THEN s1 ELSE s2]
TwoRoots == [r \in TwoRuns |-> None]
TwoLazy == [r \in TwoRuns |-> {}]
TwoEager == [r \in TwoRuns |-> IF r = r2 THEN {v1} ELSE {}]
\* r2 delegated by r1 in its session.
Delegated == [r \in TwoRuns |-> IF r = r2 THEN r1 ELSE None]
OneSession == [r \in TwoRuns |-> s1]
\* r3 in a session of its own as well.
ThreeRuns == TwoRuns \cup {r3}
ThreeSession == [r \in ThreeRuns |-> IF r = r3 THEN s2 ELSE s1]
ThreeParent == [r \in ThreeRuns |-> IF r = r2 THEN r1 ELSE None]
ThreeLazy == [r \in ThreeRuns |-> {}]
\* Three sessions.
ThreeOwn == [r \in ThreeRuns |-> IF r = r1 THEN s1 ELSE IF r = r2 THEN s2 ELSE s3]
ThreeRoots == [r \in ThreeRuns |-> None]
ThreeEager == [r \in ThreeRuns |-> IF r = r1 THEN {v1} ELSE {}]
OneCall == [k \in {k1} |-> r2]
\* One run, with three calls, or two of two servers.
OneRun == {r1}
OneRunSession == [r \in OneRun |-> s1]
OneRunRoot == [r \in OneRun |-> None]
OneRunLazy == [r \in OneRun |-> {}]
ThreeCalls == {k1, k2, k3}
CallsOfOne == [k \in ThreeCalls |-> r1]
OneServer == [k \in {k1} |-> v1]
SameServer == [k \in ThreeCalls |-> v1]
TwoCalls == {k1, k2}
PairOfOne == [k \in TwoCalls |-> r1]
PairServers == [k \in TwoCalls |-> IF k = k1 THEN v1 ELSE v2]
PairSame == [k \in TwoCalls |-> v1]
PairSplit == [k \in TwoCalls |-> IF k = k1 THEN r1 ELSE r2]
TwoOfFirst == [k \in ThreeCalls |-> IF k = k3 THEN r2 ELSE r1]
CloseAll == [o \in {o1} |-> {s1, s2}]
NoOp == [o \in {} |-> {}]

Orderly == INSTANCE McpPool WITH
    Runs <- ThreeRuns, Calls <- ThreeCalls, Pools <- {1, 2, 3}, Conns <- {1, 2, 3, 4},
    Session <- ThreeSession, Parent <- ThreeParent, Eager <- ThreeEager,
    RunOf <- TwoOfFirst, Server <- SameServer, Idle <- FALSE,
    Concurrent <- FALSE, Cancels <- FALSE

\* The callers of one tool: single calls, or one a batch of two, all of one key
\* or of two, in the ways a tool connects.
Callers == {k1, k2, k3}
Batch == [c \in Callers |-> IF c = k1 THEN 2 ELSE 1]
Singles == [c \in Callers |-> 1]
Two == [c \in Callers |-> IF c = k3 THEN 0 ELSE 1]
Same == [c \in Callers |-> v1]
Split == [c \in Callers |-> IF c = k3 THEN v2 ELSE v1]
Use(mode, key, items, cancels) == [mode |-> mode, key |-> key, items |-> items, cancels |-> cancels]
ToolUses ==
    {Use("fresh", Same, Two, TRUE), Use("coalesced", Same, Singles, TRUE),
     Use("coalesced", Split, Singles, FALSE), Use("coalesced", Same, Batch, FALSE),
     Use("pooled", Same, Singles, TRUE), Use("pooled", Same, Batch, FALSE)}

OwnTool == INSTANCE McpTool WITH
    Keys <- {v1, v2}, Uses <- ToolUses, MaxConns <- 4,
    pc <- at, stale <- spoilt, left <- todoOf, closed <- drained

\* The tool's callers and uses are such as its module assumes.
ASSUME OwnToolAssumption == OwnTool!ToolAssumption

toolVars == <<use, at, todoOf, out, struck, inflight, future,
              opened, live, dead, mine, own, spoilt, lock, drained, leaving>>

\* A tool that nobody calls, while a pool is looked at.
IdleTool == OwnTool!Init /\ use = Use("pooled", Same, Batch, FALSE)

UseInit ==
    \/ part = "shared" /\ Init /\ IdleTool
    \/ part = "orderly" /\ Orderly!Init /\ IdleTool
    \/ part = "own" /\ Init /\ OwnTool!Init

UseNext ==
    /\ UNCHANGED part
    /\ \/ part = "shared" /\ Next /\ UNCHANGED toolVars
       \/ part = "orderly" /\ Orderly!Next /\ UNCHANGED toolVars
       \/ part = "own" /\ OwnTool!Next /\ UNCHANGED vars

UseVars == <<vars, part, toolVars>>

\* Tasks that wait go on, and servers answer, raise or die.
UseSpec ==
    /\ UseInit /\ [][UseNext]_UseVars
    /\ \A x \in Tasks : WF_vars(part = "shared" /\ Active(x) /\ Step(x))
    /\ \A c \in Callers : WF_toolVars(part = "own" /\ at[c] # "idle" /\ OwnTool!Step(c))

\* What the uses promise besides.  A session whose pools are closed between its
\* runs only has one connection per server, and none is left that nobody closes;
\* a tool's identical calls share one, failed ones are not used again, and a
\* tool's own connections end.
ConnectionsFaithful ==
    CASE part = "shared" -> TRUE
      [] part = "orderly" -> Orderly!NoOrphan /\ Orderly!SingleConnection /\ Orderly!OneCallPerConn
      [] part = "own" -> OwnTool!ToolFaithful

\* Every task that has begun ends: nobody waits for a lock or for another's call
\* for ever, whatever connections fail, and whoever is cancelled.
EveryStarterEnds ==
    <>[](CASE part = "shared" -> \A x \in Tasks : ~Active(x)
           [] part = "own" -> \A c \in Callers : at[c] \in {"idle", "done"}
           [] part = "orderly" -> TRUE)

\* Callers that arrive while a matching call is in flight get its answer: nobody
\* is cancelled but those who are.
CallersShare == part = "own" => OwnTool!WaitersShare
=============================================================================
