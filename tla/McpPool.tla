------------------------------- MODULE McpPool -------------------------------
(***************************************************************************)
(* The session pools of MCP connections: _McpSessionCoordinator,           *)
(* _SessionMcpPool and the shared branch of McpTool's pooled strategy.     *)
(*                                                                         *)
(* Each session has a pool of connections, one per server, which tool      *)
(* calls open on demand, share under a lock per connection, and replace    *)
(* after a failure.  Pools are closed when the limit on their number or on *)
(* their idle time evicts them, when the application releases a session,   *)
(* and when it closes or reloads the runtime.                              *)
(*                                                                         *)
(* Three kinds of task: runs (which get their session's pool and warm up   *)
(* the eager servers), tool calls of a run, and operations of the          *)
(* application.  A step is what a task does between two suspensions.       *)
(***************************************************************************)
EXTENDS Naturals, FiniteSets

CONSTANTS
    Runs, Calls, Ops,   \* the tasks
    Sessions, Servers,
    Pools, Conns,       \* the objects that may be created (bounds: one pool per
                        \* run, one connection per call and eager server suffice)
    None,
    Session,    \* of a run
    Parent,     \* of a run: the run whose tool call delegates it, or None
    Eager,      \* of a run: its servers with prelaunch="eager"
    RunOf,      \* of a call
    Server,     \* of a call
    Target,     \* of an operation: the sessions whose pools it closes
    MaxPools,   \* max_pooled_sessions
    Idle,       \* is max_idle_seconds set?
    Concurrent, \* do runs of several sessions, and operations, overlap?
    Cancels     \* are tasks cancelled (timeouts, cancelled runs)?

Tasks == Runs \cup Calls \cup Ops

ASSUME McpAssumption ==
    /\ Session \in [Runs -> Sessions]
    /\ Parent \in [Runs -> Runs \cup {None}]
    /\ Eager \in [Runs -> SUBSET Servers]
    /\ RunOf \in [Calls -> Runs]
    /\ Server \in [Calls -> Servers]
    /\ Target \in [Ops -> SUBSET Sessions]
    /\ MaxPools \in Nat \ {0}
    /\ {Idle, Concurrent, Cancels} \subseteq BOOLEAN
    /\ Runs \cap Calls = {} /\ Runs \cap Ops = {} /\ Calls \cap Ops = {}
    /\ None \notin Tasks \cup Sessions \cup Servers \cup Pools \cup Conns

VARIABLES
    pc,         \* where each task is
    pool,       \* _pools: the registered pool of each session
    older,      \* the pairs of sessions whose pools are registered, by last_used
    poolsLock,  \* the holder of _pools_lock
    made,       \* the pools created so far
    using,      \* the pool a run was given
    closed,     \* the pools with _closed set
    opener,     \* per pool: the holder of _conn_creation_lock
    entry,      \* per pool and server: _conns
    conn,       \* the life of each connection
    stale,      \* the connections whose entry is marked stale
    user,       \* per connection: the holder of its entry.lock
    held,       \* per task: the connection it opens, exits or calls
    wants,      \* per task: the servers it has still to get
    todo,       \* per task: the pools it has still to close
    victim,     \* per task: the pool it is closing
    left        \* per task: the connections of that pool still to exit

vars == <<pc, pool, older, poolsLock, made, using, closed, opener, entry, conn, stale,
          user, held, wants, todo, victim, left>>
coordinator == <<pool, older, poolsLock, made, using>>
closings == <<todo, victim, left>>

Stages == {"idle", "entering", "purging", "evicting", "wanting", "swapping",
           "opening", "listing", "ready", "calling", "executing", "closing", "done"}

Registered == {s \in Sessions : pool[s] # None}

TypeOK ==
    /\ pc \in [Tasks -> Stages]
    /\ pool \in [Sessions -> Pools \cup {None}]
    /\ poolsLock \in Runs \cup {None}
    /\ using \in [Runs -> Pools \cup {None}]
    /\ closed \subseteq made /\ made \subseteq Pools
    /\ opener \in [Pools -> Tasks \cup {None}]
    /\ entry \in [Pools -> [Servers -> Conns \cup {None}]]
    /\ conn \in [Conns -> {"unused", "opening", "open", "exiting", "closed"}]
    /\ stale \subseteq Conns
    /\ user \in [Conns -> Calls \cup {None}]
    /\ held \in [Tasks -> Conns \cup {None}]
    /\ wants \in [Tasks -> SUBSET Servers]
    /\ todo \in [Tasks -> SUBSET Pools]
    /\ victim \in [Tasks -> Pools \cup {None}]
    /\ left \in [Tasks -> SUBSET Conns]
    \* The registered sessions are in the order of their last use.
    /\ older \subseteq Registered \X Registered
    /\ \A s, t \in Registered : s # t => (<<s, t>> \in older <=> <<t, s>> \notin older)
    /\ \A p, q \in older : p[2] = q[1] => p[1] # q[2] /\ <<p[1], q[2]>> \in older

Init ==
    /\ pc = [x \in Tasks |-> "idle"]
    /\ pool = [s \in Sessions |-> None]
    /\ older = {}
    /\ poolsLock = None
    /\ using = [r \in Runs |-> None]
    /\ made = {}
    /\ closed = {}
    /\ opener = [p \in Pools |-> None]
    /\ entry = [p \in Pools |-> [v \in Servers |-> None]]
    /\ conn = [c \in Conns |-> "unused"]
    /\ stale = {}
    /\ user = [c \in Conns |-> None]
    /\ held = [x \in Tasks |-> None]
    /\ wants = [x \in Tasks |-> {}]
    /\ todo = [x \in Tasks |-> {}]
    /\ victim = [x \in Tasks |-> None]
    /\ left = [x \in Tasks |-> {}]

-----------------------------------------------------------------------------
(* Helpers *)

Active(x) == pc[x] \notin {"idle", "done"}
At(x, stage) == pc[x] = stage
Goto(x, stage) == pc' = [pc EXCEPT ![x] = stage]

\* The order without the sessions of S, and with the one of S most recent.
Without(S) == {p \in older : p[1] \notin S /\ p[2] \notin S}
Touched(S) == Without(S) \cup ((Registered \ S) \X S)

\* Mutant of Entries: connections marked stale are taken to be closed.
Entries_Live(p) == {entry[p][v] : v \in Servers} \ ({None} \cup stale)
\* The connections close() exits.
Entries(p) == {entry[p][v] : v \in Servers} \ {None}

\* The pool a run or a call works with, and its session.
PoolOf(x) == using[IF x \in Calls THEN RunOf[x] ELSE x]
Touch(x) == older' = Touched({s \in Sessions : pool[s] = PoolOf(x)})

\* Mutant of Full: one pool more than the limit.
Full_OneMore(s) == pool[s] = None /\ Cardinality(Registered) > MaxPools
\* The limit is reached and the session needs a new pool.
Full(s) == pool[s] = None /\ Cardinality(Registered) >= MaxPools

\* Take one connection out of closed: McpConnection.__aexit__ does nothing
\* when another task has begun it.
Exits(x, c) ==
    IF conn[c] = "open"
      THEN conn' = [conn EXCEPT ![c] = "exiting"] /\ held' = [held EXCEPT ![x] = c]
      ELSE UNCHANGED <<conn, held>>

\* mark_stale: the entry the pool has now for the call's server.
Marked(k) == {entry[PoolOf(k)][Server[k]]} \ {None}

-----------------------------------------------------------------------------
(* A run gets the pool of its session: get_or_create *)

\* What keeps run r out if q is under way: the session lock, and an application
\* without concurrency, which does one thing at a time.
Excludes(q, r) == Active(q) /\ (Session[q] = Session[r] \/ ~Concurrent)
Innermost(q) == \A c \in Runs : Parent[c] = q => ~Active(c)

\* The lock's holders are a run, the run it delegated, the run that delegated.
MayStart(r) ==
    /\ \/ Parent[r] = None /\ \A q \in Runs : ~Excludes(q, r)
       \/ /\ Parent[r] # None /\ At(Parent[r], "executing")
          /\ \A q \in Runs : Excludes(q, r) /\ Innermost(q) => q = Parent[r]
    /\ Concurrent \/ \A o \in Ops : ~Active(o)

Start(r) ==
    /\ At(r, "idle") /\ MayStart(r)
    /\ Goto(r, "entering")
    /\ UNCHANGED <<coordinator, closings, closed, opener, entry, conn, stale, user, held, wants>>

\* _purge_idle_locked closes the pools not used since some moment.
TakePools(r) ==
    /\ At(r, "entering") /\ poolsLock = None
    /\ poolsLock' = r
    /\ \E S \in (IF Idle THEN SUBSET Registered ELSE {{}}) :
         /\ \A p \in older : p[2] \in S => p[1] \in S
         /\ todo' = [todo EXCEPT ![r] = {pool[s] : s \in S}]
    /\ Goto(r, "purging")
    /\ UNCHANGED <<pool, older, made, using, victim, left,
                   closed, opener, entry, conn, stale, user, held, wants>>

Idled(x) == todo[x] = {} /\ victim[x] = None

\* _evict_lru_locked closes the least recently used pool.
Evict(r) ==
    /\ At(r, "purging") /\ Idled(r)
    /\ Full(Session[r])
    /\ \E s \in Registered :
         /\ \A p \in older : p[2] # s
         /\ todo' = [todo EXCEPT ![r] = {pool[s]}]
    /\ Goto(r, "evicting")
    /\ UNCHANGED <<coordinator, victim, left, closed, opener, entry, conn, stale, user, held, wants>>

GetPool(r) ==
    /\ Idled(r)
    /\ At(r, "evicting") \/ (At(r, "purging") /\ ~Full(Session[r]))
    /\ Pools \ made # {}
    /\ LET s == Session[r]
           p == IF pool[s] = None THEN CHOOSE q \in Pools \ made : TRUE ELSE pool[s]
       IN  /\ pool' = [pool EXCEPT ![s] = p]
           /\ made' = made \cup {p}
           /\ using' = [using EXCEPT ![r] = p]
           /\ older' = Touched({s})
    /\ poolsLock' = None
    /\ wants' = [wants EXCEPT ![r] = Eager[r]]
    /\ Goto(r, "wanting")
    /\ UNCHANGED <<closings, closed, opener, entry, conn, stale, user, held>>

-----------------------------------------------------------------------------
(* Closing pools: the rest of the evictions, release_session and close_all *)

Begin(o) ==
    /\ At(o, "idle") /\ poolsLock = None
    /\ Concurrent \/ \A x \in Runs \cup Ops : ~Active(x)
    /\ todo' = [todo EXCEPT ![o] = {pool[s] : s \in Target[o]} \ {None}]
    /\ pool' = [s \in Sessions |-> IF s \in Target[o] THEN None ELSE pool[s]]
    /\ older' = Without(Target[o])
    /\ Goto(o, "closing")
    /\ UNCHANGED <<poolsLock, made, using, victim, left,
                   closed, opener, entry, conn, stale, user, held, wants>>

\* _SessionMcpPool.close up to its first suspension.
ClosePool(x) ==
    /\ victim[x] = None
    /\ \E p \in todo[x] :
         /\ pool' = [s \in Sessions |-> IF pool[s] = p THEN None ELSE pool[s]]
         /\ older' = Without({s \in Sessions : pool[s] = p})
         /\ closed' = closed \cup {p}
         /\ IF p \in closed
              THEN UNCHANGED <<victim, left>>
              ELSE /\ victim' = [victim EXCEPT ![x] = p]
                   /\ left' = [left EXCEPT ![x] = Entries(p)]
         /\ todo' = [todo EXCEPT ![x] = @ \ {p}]
    /\ UNCHANGED <<pc, poolsLock, made, using, opener, entry, conn, stale, user, held, wants>>

ExitConn(x) ==
    /\ victim[x] # None /\ held[x] = None
    /\ \E c \in left[x] :
         /\ left' = [left EXCEPT ![x] = @ \ {c}]
         /\ Exits(x, c)
    /\ UNCHANGED <<pc, coordinator, todo, victim, closed, opener, entry, stale, user, wants>>

Exited(x) ==
    /\ victim[x] # None /\ held[x] # None
    /\ conn' = [conn EXCEPT ![held[x]] = "closed"]
    /\ held' = [held EXCEPT ![x] = None]
    /\ UNCHANGED <<pc, coordinator, closings, closed, opener, entry, stale, user, wants>>

\* Every connection has been exited: _conns.clear().
Drained(x) ==
    /\ victim[x] # None /\ held[x] = None /\ left[x] = {}
    /\ entry' = [entry EXCEPT ![victim[x]] = [v \in Servers |-> None]]
    /\ victim' = [victim EXCEPT ![x] = None]
    /\ UNCHANGED <<pc, coordinator, todo, left, closed, opener, conn, stale, user, held, wants>>

Finish(o) ==
    /\ At(o, "closing") /\ Idled(o)
    /\ Goto(o, "done")
    /\ UNCHANGED <<coordinator, closings, closed, opener, entry, conn, stale, user, held, wants>>

-----------------------------------------------------------------------------
(* Opening a shared connection: get_or_open_shared *)

\* A tool call of an executing run, or of a run that has delegated another.
Call(k) ==
    /\ At(k, "idle") /\ At(RunOf[k], "executing")
    /\ Goto(k, "wanting")
    /\ wants' = [wants EXCEPT ![k] = {Server[k]}]
    /\ Touch(k)
    /\ UNCHANGED <<pool, poolsLock, made, using, closings, closed, opener, entry, conn, stale, user, held>>

\* Mutant of Enters: _conn_creation_lock is not taken.
Enters_Unlocked(x, p) == TRUE
\* async with self._conn_creation_lock
Enters(x, p) == opener[p] = None

Unused == {c \in Conns : conn[c] = "unused"}
NewConn == CHOOSE c \in Unused : TRUE

\* A new McpConnection begins to connect, and the task waits for it.
Connect(x, p) ==
    /\ Unused # {}
    /\ conn' = [conn EXCEPT ![NewConn] = "opening"]
    /\ held' = [held EXCEPT ![x] = NewConn]
    /\ opener' = [opener EXCEPT ![p] = x]
    /\ Goto(x, "opening")

\* The server to get next: tools are warmed up in the order of the configuration.
Aim(x) == CHOOSE v \in wants[x] : TRUE
Found(x) == entry[PoolOf(x)][Aim(x)]
Seeks(x) == At(x, "wanting") /\ wants[x] # {} /\ Enters(x, PoolOf(x))

\* The task has the entry of its server: a call goes on to use it, a run to
\* warm up the next server.
Got(x, c) ==
    /\ wants' = [wants EXCEPT ![x] = @ \ {Aim(x)}]
    /\ IF x \in Calls
         THEN Goto(x, "ready") /\ held' = [held EXCEPT ![x] = c] /\ UNCHANGED older
         ELSE /\ Goto(x, "wanting") /\ held' = [held EXCEPT ![x] = None]
              /\ IF wants[x] = {Aim(x)} THEN UNCHANGED older ELSE Touch(x)

Reuse(x) ==
    /\ Seeks(x) /\ Found(x) \notin stale \cup {None}
    /\ Got(x, Found(x))
    /\ UNCHANGED <<pool, poolsLock, made, using, closings, closed, opener, entry, conn, stale, user>>

Open(x) ==
    /\ Seeks(x) /\ Found(x) = None
    /\ Connect(x, PoolOf(x))
    /\ UNCHANGED <<coordinator, closings, closed, entry, stale, user, wants>>

\* A stale entry is exited first, unless another task has begun to.
Swap(x) ==
    /\ Seeks(x) /\ Found(x) \in stale
    /\ LET p == PoolOf(x)
       IN  IF conn[Found(x)] = "open"
             THEN /\ Exits(x, Found(x))
                  /\ opener' = [opener EXCEPT ![p] = x]
                  /\ Goto(x, "swapping")
                  /\ UNCHANGED entry
             ELSE /\ entry' = [entry EXCEPT ![p][Aim(x)] = None]
                  /\ Connect(x, p)
    /\ UNCHANGED <<coordinator, closings, closed, stale, user, wants>>

\* self._conns.pop(identifier, None)
Dropped(x) == [entry EXCEPT ![PoolOf(x)][Aim(x)] = None]

Swapped(x) ==
    /\ At(x, "swapping")
    /\ Unused # {}
    /\ conn' = [conn EXCEPT ![held[x]] = "closed", ![NewConn] = "opening"]
    /\ held' = [held EXCEPT ![x] = NewConn]
    /\ entry' = Dropped(x)
    /\ Goto(x, "opening")
    /\ UNCHANGED <<coordinator, closings, closed, opener, stale, user, wants>>

Connected(x) ==
    /\ At(x, "opening")
    /\ conn' = [conn EXCEPT ![held[x]] = "open"]
    /\ Goto(x, "listing")
    /\ UNCHANGED <<coordinator, closings, closed, opener, entry, stale, user, held, wants>>

\* Mutant of Released: a task whose connection fails keeps the lock.
Released_Not(x) == opener
Released(x) == [p \in Pools |-> IF opener[p] = x THEN None ELSE opener[p]]

\* __aenter__ raises, having unwound what it had entered; the task fails.
Refused(x) ==
    /\ At(x, "opening")
    /\ conn' = [conn EXCEPT ![held[x]] = "closed"]
    /\ opener' = Released(x)
    /\ held' = [held EXCEPT ![x] = None]
    /\ wants' = [wants EXCEPT ![x] = {}]
    /\ Goto(x, "done")
    /\ UNCHANGED <<coordinator, closings, closed, entry, stale, user>>

\* list_tools answers or raises, and the connection becomes the server's entry.
Listed(x) ==
    /\ At(x, "listing")
    /\ entry' = [entry EXCEPT ![PoolOf(x)][Aim(x)] = held[x]]
    /\ opener' = [opener EXCEPT ![PoolOf(x)] = None]
    /\ Got(x, held[x])
    /\ UNCHANGED <<pool, poolsLock, made, using, closings, closed, conn, stale, user>>

\* The pattern executes once the eager servers are up, and returns when the
\* tool calls and runs it started have.
Execute(r) ==
    /\ At(r, "wanting") /\ wants[r] = {}
    /\ Goto(r, "executing")
    /\ UNCHANGED <<coordinator, closings, closed, opener, entry, conn, stale, user, held, wants>>

Return(r) ==
    /\ At(r, "executing")
    /\ \A k \in Calls : RunOf[k] = r => ~Active(k)
    /\ \A q \in Runs : Parent[q] = r => ~Active(q)
    /\ Goto(r, "done")
    /\ UNCHANGED <<coordinator, closings, closed, opener, entry, conn, stale, user, held, wants>>

-----------------------------------------------------------------------------
(* Calling the server: _call_through_shared *)

\* Mutant of Locks: entry.lock is not taken.
Locks_Not(k) == TRUE
\* async with entry.lock
Locks(k) == user[held[k]] = None

Invoke(k) ==
    /\ At(k, "ready") /\ Locks(k) /\ conn[held[k]] = "open"
    /\ user' = [user EXCEPT ![held[k]] = k]
    /\ Goto(k, "calling")
    /\ UNCHANGED <<coordinator, closings, closed, opener, entry, conn, stale, held, wants>>

Leave(k) ==
    /\ user' = [c \in Conns |-> IF user[c] = k THEN None ELSE user[c]]
    /\ held' = [held EXCEPT ![k] = None]
    /\ Goto(k, "done")
    /\ UNCHANGED <<coordinator, closings, closed, opener, entry, conn, wants>>

Answered(k) ==
    /\ At(k, "calling") /\ conn[held[k]] = "open"
    /\ Leave(k)
    /\ UNCHANGED stale

\* The server dies, or the connection was exited under the call: "Not
\* connected to MCP server" if that was before the call began.
CallFails(k) ==
    /\ At(k, "calling") \/ (At(k, "ready") /\ Locks(k) /\ conn[held[k]] # "open")
    /\ stale' = stale \cup Marked(k)
    /\ Leave(k)

-----------------------------------------------------------------------------
\* A cancellation strikes where a task is suspended.  Connections being
\* entered or exited unwind; one whose tools are being listed stays open; what
\* a closing task had still to close stays as it is.
Cancel(x) ==
    /\ Cancels /\ Active(x) /\ ~At(x, "executing")
    /\ \/ pc[x] \in {"entering", "ready", "calling", "swapping", "opening", "listing"}
       \/ pc[x] = "wanting" /\ wants[x] # {}
       \/ victim[x] # None /\ held[x] # None
    /\ LET c == held[x]
       IN  conn' = IF victim[x] # None \/ pc[x] \in {"opening", "swapping"}
                     THEN [conn EXCEPT ![c] = "closed"] ELSE conn
    /\ held' = [held EXCEPT ![x] = None]
    /\ opener' = Released(x)
    /\ poolsLock' = IF poolsLock = x THEN None ELSE poolsLock
    /\ user' = [c \in Conns |-> IF user[c] = x THEN None ELSE user[c]]
    /\ wants' = [wants EXCEPT ![x] = {}]
    /\ todo' = [todo EXCEPT ![x] = {}]
    /\ victim' = [victim EXCEPT ![x] = None]
    /\ left' = [left EXCEPT ![x] = {}]
    /\ Goto(x, "done")
    /\ UNCHANGED <<pool, older, made, using, closed, entry, stale>>

RunStep(r) == Start(r) \/ TakePools(r) \/ Evict(r) \/ GetPool(r) \/ Execute(r) \/ Return(r)
CallStep(k) == Call(k) \/ Invoke(k) \/ Answered(k) \/ CallFails(k)
OpStep(o) == Begin(o) \/ Finish(o)
Closing(x) == ClosePool(x) \/ ExitConn(x) \/ Exited(x) \/ Drained(x)
Opening(x) == Reuse(x) \/ Open(x) \/ Swap(x) \/ Swapped(x) \/ Connected(x) \/ Refused(x) \/ Listed(x)

Step(x) ==
    \/ x \in Runs /\ RunStep(x)
    \/ x \in Calls /\ CallStep(x)
    \/ x \in Ops /\ OpStep(x)
    \/ Closing(x)
    \/ x \notin Ops /\ Opening(x)

Next == \E x \in Tasks : Step(x) \/ Cancel(x)

Spec == Init /\ [][Next]_vars

\* The event loop resumes every task that can go on, and servers answer,
\* raise or die; nothing obliges a task to begin or anybody to cancel it.
FairSpec == Spec /\ \A x \in Tasks : WF_vars(Active(x) /\ Step(x))

-----------------------------------------------------------------------------
(* Properties *)

\* The limit on pools holds at every moment: a pool that is being evicted has
\* been closed before the one it makes room for is created.
PoolsBounded ==
    Cardinality(Registered) + (IF poolsLock # None /\ victim[poolsLock] # None THEN 1 ELSE 0)
      <= MaxPools

\* MCP is single-stream: a connection serves one call at a time, whichever runs,
\* pools and failures the calls come from.
OneCallPerConn ==
    \A k, l \in Calls : At(k, "calling") /\ At(l, "calling") /\ held[k] = held[l] => k = l

\* The connections a session can use for a server, or is opening.
Serving(s, v) ==
    LET own == {using[r] : r \in {q \in Runs : Session[q] = s}} \ {None}
    IN  {c \in Conns : conn[c] = "open" /\ \E p \in own : entry[p][v] = c}
          \cup {held[x] : x \in {y \in Runs \cup Calls :
                  pc[y] \in {"opening", "listing"} /\ PoolOf(y) \in own /\ Aim(y) = v}}

\* A session shares a single connection per server among its runs and their
\* tool calls, also while failed connections are replaced.
SingleConnection == \A s \in Sessions, v \in Servers : Cardinality(Serving(s, v)) <= 1

\* An open connection can still be closed: it is the entry of a pool that is
\* not closed, or a task that opens, uses or closes it is under way.  No
\* server process outlives its pool.
NoOrphan ==
    \A c \in Conns : conn[c] = "open" =>
        \/ \E p \in Pools \ closed, v \in Servers : entry[p][v] = c
        \/ \E x \in Tasks : held[x] = c \/ c \in left[x]

\* Only a failed call's own connection is discarded as dead.
MarksItsOwn ==
    [][\A c \in stale' \ stale : \E k \in Calls : held[k] = c /\ At(k, "calling")]_vars

\* A task that opens the connection of one server does not keep another waiting
\* that needs a second server.
OpensInParallel ==
    \A x, y \in Runs \cup Calls :
        At(x, "wanting") /\ wants[x] # {} /\ opener[PoolOf(x)] = y => Aim(x) = Aim(y)

\* Every task that has begun ends: nobody waits for a lock for ever, whatever
\* connections fail, and whoever is cancelled.
EveryTaskEnds == \A x \in Tasks : Active(x) ~> At(x, "done")
=============================================================================
