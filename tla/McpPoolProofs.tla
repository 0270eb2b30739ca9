---------------------------- MODULE McpPoolProofs ----------------------------
(***************************************************************************)
(* What the pools of MCP sessions keep, for any number of runs, calls,     *)
(* pools, servers and connections.  Whatever fails, is evicted, released   *)
(* or cancelled: a pooled connection serves one call at a time (CallInv),  *)
(* and the limit on pools holds (BoundInv).  In an application that closes *)
(* and evicts pools only between runs, and cancels nothing (InOrder): a    *)
(* session has one connection per server, and none outlives its pool       *)
(* (OrderInv).  A tool outside any pool takes its calls in turn, or lets   *)
(* identical ones share a connection, and leaves no process (ToolInv).     *)
(***************************************************************************)
EXTENDS McpPool, FiniteSetTheorems, TLAPS

\* What the steps need to know of the variables.
Sorts ==
    /\ pc \in [Tasks -> Stages]
    /\ pool \in [Sessions -> Pools \cup {None}]
    /\ using \in [Runs -> Pools \cup {None}]
    /\ entry \in [Pools -> [Servers -> Conns \cup {None}]]
    /\ wants \in [Tasks -> SUBSET Servers]
    /\ DOMAIN user = Conns
    /\ DOMAIN held = Tasks /\ DOMAIN todo = Tasks /\ DOMAIN victim = Tasks

\* Only a run that makes room for its pool and an operation close pools.
ClosesInPlace(x) ==
    /\ pc[x] \notin {"purging", "evicting", "closing"} => todo[x] = {} /\ victim[x] = None
    /\ x \in Ops => pc[x] \in {"idle", "closing", "done"}
    /\ x \in Calls => pc[x] \notin {"entering", "purging", "evicting", "closing", "executing"}

\* A task past a connection's opening has that connection.
Holds(x) == pc[x] \in {"opening", "listing", "ready", "calling"} => held[x] \in Conns

\* A task that uses connections has a pool to take them from.
Pooled(x) ==
    /\ x \in Runs /\ pc[x] \in {"wanting", "swapping", "opening", "listing", "executing"} => using[x] \in Pools
    /\ x \in Calls /\ pc[x] # "idle" => using[RunOf[x]] \in Pools

\* A task that calls has the lock of the connection it calls through.
HasLock(x) == pc[x] = "calling" => user[held[x]] = x

TaskInv(x) == ClosesInPlace(x) /\ Holds(x) /\ Pooled(x) /\ HasLock(x)

CallInv == Sorts /\ \A x \in Tasks : TaskInv(x)

\* The invariant holds before any task has begun.
LEMMA CallInvInit == Init => CallInv
<1> SUFFICES ASSUME Init PROVE CallInv
  OBVIOUS
<1>1. Sorts
  BY DEF Init, Sorts, Stages
<1>2. \A x \in Tasks : TaskInv(x)
  BY DEF Init, TaskInv, ClosesInPlace, Holds, Pooled, HasLock
<1> QED
  BY <1>1, <1>2 DEF CallInv

\* A step of one task keeps what holds of it and does not disturb the others,
\* if it leaves their places alone and takes no lock from them.
LEMMA OneMoves ==
  ASSUME CallInv, NEW x \in Tasks, Sorts', TaskInv(x)',
         \A y \in Tasks \ {x} : pc'[y] = pc[y] /\ held'[y] = held[y] /\ todo'[y] = todo[y] /\ victim'[y] = victim[y],
         \A c \in Conns : user[c] \notin {None, x} => user'[c] = user[c],
         \A r \in Runs : using[r] \in Pools => using'[r] \in Pools
  PROVE  CallInv'
<1> SUFFICES ASSUME NEW y \in Tasks, y # x PROVE TaskInv(y)'
  BY DEF CallInv
<1>1. TaskInv(y)
  BY DEF CallInv
<1>2. ClosesInPlace(y)' /\ Holds(y)'
  BY <1>1 DEF TaskInv, ClosesInPlace, Holds
<1>3. Pooled(y)'
  BY <1>1, McpAssumption DEF TaskInv, Pooled
<1>4. HasLock(y)'
  BY <1>1, McpAssumption DEF TaskInv, Holds, HasLock
<1> QED
  BY <1>2, <1>3, <1>4 DEF TaskInv

\* A run that gets its pool, executes or returns.
LEMMA RunKeeps == ASSUME CallInv, NEW r \in Runs, RunStep(r) PROVE CallInv'
<1>1. r \in Tasks /\ r \notin Calls /\ r \notin Ops /\ Session[r] \in Sessions /\ Eager[r] \subseteq Servers /\ TaskInv(r) /\ Sorts
  BY McpAssumption DEF CallInv, Tasks
<1>2. CASE Start(r) \/ Evict(r) \/ Execute(r) \/ Return(r) \/ TakePools(r)
  <2>1. UNCHANGED <<pool, using, entry, wants, user, held, victim>>
    BY <1>2 DEF Start, Evict, Execute, Return, TakePools, coordinator, closings
  <2>2. /\ \E stage \in {"entering", "purging", "evicting", "executing", "done"} :
             /\ pc' = [pc EXCEPT ![r] = stage]
             /\ stage \in {"entering", "done"} => todo' = todo /\ pc[r] \in {"idle", "executing"}
             /\ stage = "executing" => todo' = todo /\ pc[r] = "wanting"
        /\ DOMAIN todo' = Tasks /\ \A y \in Tasks \ {r} : todo'[y] = todo[y]
    BY <1>1, <1>2 DEF Start, Evict, Execute, Return, TakePools, coordinator, closings, Goto, At, Sorts
  <2>3. Sorts'
    BY <1>1, <2>1, <2>2 DEF Sorts, Stages
  <2>4. TaskInv(r)'
    BY <1>1, <2>1, <2>2 DEF Sorts, TaskInv, ClosesInPlace, Holds, Pooled, HasLock
  <2> QED
    BY <1>1, <2>1, <2>2, <2>3, <2>4, OneMoves DEF Sorts
<1>3. CASE GetPool(r)
  <2>1. /\ UNCHANGED <<entry, user, held, todo, victim>>
        /\ pc' = [pc EXCEPT ![r] = "wanting"]
        /\ wants' = [wants EXCEPT ![r] = Eager[r]]
        /\ todo[r] = {} /\ victim[r] = None
    BY <1>3 DEF GetPool, closings, Goto, Idled
  <2>2. \E p \in Pools : pool' = [pool EXCEPT ![Session[r]] = p] /\ using' = [using EXCEPT ![r] = p]
    <3>1. CASE pool[Session[r]] = None
      BY <1>3, <3>1 DEF GetPool
    <3>2. CASE pool[Session[r]] # None
      BY <1>1, <1>3, <3>2 DEF GetPool, Sorts
    <3> QED
      BY <3>1, <3>2
  <2>3. Sorts'
    BY <1>1, <2>1, <2>2 DEF Sorts, Stages
  <2>4. TaskInv(r)'
    BY <1>1, <2>1, <2>2 DEF Sorts, TaskInv, ClosesInPlace, Holds, Pooled, HasLock
  <2> QED
    BY <1>1, <2>1, <2>2, <2>3, <2>4, OneMoves DEF Sorts
<1> QED
  BY <1>2, <1>3 DEF RunStep

\* A call that begins, takes its connection's lock, and leaves.
LEMMA CallKeeps == ASSUME CallInv, NEW k \in Calls, CallStep(k) PROVE CallInv'
<1>1. k \in Tasks /\ k \notin Runs /\ k \notin Ops /\ RunOf[k] \in Runs /\ RunOf[k] \in Tasks /\ Server[k] \in Servers
      /\ TaskInv(k) /\ TaskInv(RunOf[k]) /\ Sorts
  BY McpAssumption DEF CallInv, Tasks
<1>2. CASE Call(k)
  <2>1. /\ UNCHANGED <<pool, using, entry, user, held, todo, victim>>
        /\ pc' = [pc EXCEPT ![k] = "wanting"]
        /\ wants' = [wants EXCEPT ![k] = {Server[k]}]
        /\ pc[k] = "idle" /\ pc[RunOf[k]] = "executing"
    BY <1>2 DEF Call, closings, Goto, At
  <2>2. Sorts'
    BY <1>1, <2>1 DEF Sorts, Stages
  <2>3. TaskInv(k)'
    BY <1>1, <2>1 DEF Sorts, TaskInv, ClosesInPlace, Holds, Pooled, HasLock
  <2> QED
    BY <1>1, <2>1, <2>2, <2>3, OneMoves DEF Sorts
<1>3. CASE Invoke(k)
  <2>1. /\ UNCHANGED <<pool, using, entry, wants, held, todo, victim>>
        /\ pc' = [pc EXCEPT ![k] = "calling"]
        /\ user' = [user EXCEPT ![held[k]] = k]
        /\ pc[k] = "ready" /\ user[held[k]] = None
    BY <1>3 DEF Invoke, Locks, coordinator, closings, Goto, At
  <2>2. held[k] \in Conns
    BY <1>1, <2>1 DEF TaskInv, Holds
  <2>3. Sorts'
    BY <1>1, <2>1 DEF Sorts, Stages
  <2>4. TaskInv(k)'
    BY <1>1, <2>1, <2>2 DEF Sorts, TaskInv, ClosesInPlace, Holds, Pooled, HasLock
  <2> QED
    BY <1>1, <2>1, <2>2, <2>3, <2>4, OneMoves DEF Sorts
<1>4. CASE Answered(k) \/ CallFails(k)
  <2>1. /\ UNCHANGED <<pool, using, entry, wants, todo, victim>>
        /\ pc' = [pc EXCEPT ![k] = "done"]
        /\ held' = [held EXCEPT ![k] = None]
        /\ user' = [c \in Conns |-> IF user[c] = k THEN None ELSE user[c]]
        /\ pc[k] \in {"calling", "ready"}
    BY <1>4 DEF Answered, CallFails, Leave, coordinator, closings, Goto, At
  <2>2. Sorts'
    BY <1>1, <2>1 DEF Sorts, Stages
  <2>3. TaskInv(k)'
    BY <1>1, <2>1 DEF Sorts, TaskInv, ClosesInPlace, Holds, Pooled, HasLock
  <2> QED
    BY <1>1, <2>1, <2>2, <2>3, OneMoves DEF Sorts
<1> QED
  BY <1>2, <1>3, <1>4 DEF CallStep

\* An operation of the application begins and ends.
LEMMA OpKeeps == ASSUME CallInv, NEW o \in Ops, OpStep(o) PROVE CallInv'
<1>1. o \in Tasks /\ o \notin Runs /\ o \notin Calls /\ TaskInv(o) /\ Sorts
  BY McpAssumption DEF CallInv, Tasks
<1>2. /\ UNCHANGED <<using, entry, wants, user, held, victim>>
      /\ \A y \in Tasks \ {o} : todo'[y] = todo[y]
      /\ DOMAIN todo' = Tasks
      /\ pool' \in [Sessions -> Pools \cup {None}]
      /\ \/ pc' = [pc EXCEPT ![o] = "closing"]
         \/ pc' = [pc EXCEPT ![o] = "done"] /\ todo' = todo /\ todo[o] = {} /\ victim[o] = None
  BY <1>1 DEF OpStep, Begin, Finish, coordinator, closings, Goto, At, Idled, Sorts
<1>3. Sorts'
  BY <1>1, <1>2 DEF Sorts, Stages
<1>4. TaskInv(o)'
  BY <1>1, <1>2 DEF Sorts, TaskInv, ClosesInPlace, Holds, Pooled, HasLock
<1> QED
  BY <1>1, <1>2, <1>3, <1>4, OneMoves DEF Sorts

\* A task that closes pools.
LEMMA ClosingKeeps == ASSUME CallInv, NEW x \in Tasks, Closing(x) PROVE CallInv'
<1>1. TaskInv(x) /\ Sorts
  BY DEF CallInv
<1>2. /\ UNCHANGED <<pc, using, wants, user>>
      /\ \A y \in Tasks \ {x} : held'[y] = held[y] /\ todo'[y] = todo[y] /\ victim'[y] = victim[y]
      /\ DOMAIN held' = Tasks /\ DOMAIN todo' = Tasks /\ DOMAIN victim' = Tasks
      /\ todo[x] # {} \/ victim[x] # None
  BY <1>1 DEF Closing, ClosePool, ExitConn, Exits, Exited, Drained, coordinator, closings, Sorts
<1>3. pc[x] \in {"purging", "evicting", "closing"}
  BY <1>1, <1>2 DEF TaskInv, ClosesInPlace
<1>4. pool' \in [Sessions -> Pools \cup {None}]
  BY <1>1 DEF Closing, ClosePool, ExitConn, Exited, Drained, coordinator, Sorts
<1>5. entry' \in [Pools -> [Servers -> Conns \cup {None}]]
  BY <1>1 DEF Closing, ClosePool, ExitConn, Exited, Drained, Sorts
<1>6. Sorts'
  BY <1>1, <1>2, <1>4, <1>5 DEF Sorts
<1>7. TaskInv(x)'
  BY <1>1, <1>2, <1>3, McpAssumption DEF TaskInv, ClosesInPlace, Holds, Pooled, HasLock, Tasks
<1> QED
  BY <1>2, <1>6, <1>7, OneMoves

\* A run or a call that opens a connection, or finds one.
LEMMA OpeningKeeps == ASSUME CallInv, NEW x \in Tasks, x \notin Ops, Opening(x) PROVE CallInv'
<1>1. TaskInv(x) /\ Sorts /\ (x \in Runs \/ x \in Calls)
  BY DEF CallInv, Tasks
<1>2. pc[x] \in {"wanting", "swapping", "opening", "listing"}
  BY DEF Opening, Reuse, Open, Swap, Seeks, Swapped, Connected, Refused, Listed, At
<1>3. PoolOf(x) \in Pools
  BY <1>1, <1>2, McpAssumption DEF TaskInv, Pooled, PoolOf
<1>4. todo[x] = {} /\ victim[x] = None
  BY <1>1, <1>2 DEF TaskInv, ClosesInPlace
<1>5. UNCHANGED <<pool, using, todo, victim, user>>
  BY DEF Opening, Reuse, Open, Swap, Swapped, Connected, Refused, Listed, coordinator, closings
<1>6. Seeks(x) => Aim(x) \in Servers /\ Found(x) \in Conns \cup {None}
  <2> SUFFICES ASSUME Seeks(x) PROVE Aim(x) \in Servers /\ Found(x) \in Conns \cup {None}
    OBVIOUS
  <2>1. wants[x] # {} /\ wants[x] \subseteq Servers
    BY <1>1 DEF Seeks, Sorts
  <2>2. Aim(x) \in wants[x]
    BY <2>1 DEF Aim
  <2> QED
    BY <1>1, <1>3, <2>1, <2>2 DEF Found, Sorts
<1>7. Unused # {} => NewConn \in Conns
  BY DEF Unused, NewConn
<1>8. /\ \A y \in Tasks \ {x} : pc'[y] = pc[y] /\ held'[y] = held[y]
      /\ DOMAIN held' = Tasks
      /\ wants' \in [Tasks -> SUBSET Servers]
      /\ \/ pc' = [pc EXCEPT ![x] = "ready"] /\ x \in Calls /\ held'[x] \in Conns
         \/ pc' = [pc EXCEPT ![x] = "wanting"] /\ x \in Runs
         \/ pc' = [pc EXCEPT ![x] = "swapping"]
         \/ pc' = [pc EXCEPT ![x] = "opening"] /\ held'[x] \in Conns
         \/ pc' = [pc EXCEPT ![x] = "listing"] /\ held'[x] \in Conns
         \/ pc' = [pc EXCEPT ![x] = "done"]
  <2>1. CASE Reuse(x)
    BY <1>1, <1>6, <2>1 DEF Reuse, Got, Goto, Sorts
  <2>2. CASE Open(x)
    BY <1>1, <1>7, <2>2 DEF Open, Connect, Goto, Sorts
  <2>3. CASE Swap(x)
    BY <1>1, <1>7, <2>3 DEF Swap, Exits, Connect, Goto, Sorts
  <2>4. CASE Swapped(x)
    BY <1>1, <1>7, <2>4 DEF Swapped, Goto, Sorts
  <2>5. CASE Connected(x)
    BY <1>1, <2>5 DEF Connected, At, Goto, Sorts, TaskInv, Holds
  <2>6. CASE Refused(x)
    BY <1>1, <2>6 DEF Refused, Goto, Sorts
  <2>7. CASE Listed(x)
    BY <1>1, <2>7 DEF Listed, Got, At, Goto, Sorts, TaskInv, Holds
  <2> QED
    BY <2>1, <2>2, <2>3, <2>4, <2>5, <2>6, <2>7 DEF Opening
<1>9. entry' \in [Pools -> [Servers -> Conns \cup {None}]]
  <2>1. CASE Swap(x) \/ Swapped(x)
    BY <1>1, <2>1 DEF Swap, Swapped, Dropped, Sorts
  <2>2. CASE Listed(x)
    <3>1. held[x] \in Conns
      BY <1>1, <2>2 DEF Listed, At, TaskInv, Holds
    <3> QED
      BY <1>1, <2>2, <3>1 DEF Listed, Sorts
  <2>3. CASE Reuse(x) \/ Open(x) \/ Connected(x) \/ Refused(x)
    BY <1>1, <2>3 DEF Reuse, Open, Connected, Refused, Sorts
  <2> QED
    BY <2>1, <2>2, <2>3 DEF Opening
<1>10. Sorts'
  BY <1>1, <1>5, <1>8, <1>9 DEF Sorts, Stages
<1>11. TaskInv(x)'
  BY <1>1, <1>2, <1>4, <1>5, <1>8, McpAssumption DEF Sorts, TaskInv, ClosesInPlace, Holds, Pooled, HasLock
<1> QED
  BY <1>5, <1>8, <1>10, <1>11, OneMoves DEF Sorts

\* A task that is cancelled lets go of its lock only.
LEMMA CancelKeeps == ASSUME CallInv, NEW x \in Tasks, Cancel(x) PROVE CallInv'
<1>1. TaskInv(x) /\ Sorts
  BY DEF CallInv
<1>2. /\ UNCHANGED <<pool, using, entry>>
      /\ pc' = [pc EXCEPT ![x] = "done"]
      /\ held' = [held EXCEPT ![x] = None]
      /\ wants' = [wants EXCEPT ![x] = {}]
      /\ todo' = [todo EXCEPT ![x] = {}]
      /\ victim' = [victim EXCEPT ![x] = None]
      /\ user' = [c \in Conns |-> IF user[c] = x THEN None ELSE user[c]]
      /\ pc[x] \notin {"idle", "done"}
  BY DEF Cancel, Goto, Active
<1>3. Sorts'
  BY <1>1, <1>2 DEF Sorts, Stages
<1>4. TaskInv(x)'
  BY <1>1, <1>2 DEF Sorts, TaskInv, ClosesInPlace, Holds, Pooled, HasLock
<1> QED
  BY <1>1, <1>2, <1>3, <1>4, OneMoves DEF Sorts

\* Every step of every task keeps the invariant.
LEMMA CallInvStep == ASSUME CallInv, [Next]_vars PROVE CallInv'
<1>1. CASE UNCHANGED vars
  BY <1>1 DEF vars, CallInv, Sorts, TaskInv, ClosesInPlace, Holds, Pooled, HasLock
<1>2. ASSUME NEW x \in Tasks, Step(x) PROVE CallInv'
  BY <1>2, RunKeeps, CallKeeps, OpKeeps, ClosingKeeps, OpeningKeeps DEF Step
<1>3. ASSUME NEW x \in Tasks, Cancel(x) PROVE CallInv'
  BY <1>3, CancelKeeps
<1> QED
  BY <1>1, <1>2, <1>3 DEF Next

\* _call_through_shared: MCP is single-stream, and entry.lock keeps it so: two
\* calls through a connection are the same call, whichever runs share its pool
\* and whatever closes or replaces it under them.
THEOREM CallsTakeTurns == Spec => []OneCallPerConn
<1>1. Init => CallInv
  BY CallInvInit
<1>2. CallInv /\ [Next]_vars => CallInv'
  BY CallInvStep
<1>3. CallInv => OneCallPerConn
  BY DEF CallInv, TaskInv, HasLock, OneCallPerConn, At, Tasks
<1> QED
  BY <1>1, <1>2, <1>3, PTL DEF Spec

(***************************************************************************)
(* The limit on pools.                                                     *)
(***************************************************************************)
\* The holder of _pools_lock closes pools that are registered when it pops them,
\* and has made room once it has popped the one it evicts.
Evicts(r) ==
    /\ \A p \in todo[r] : p \in closed \/ \E s \in Registered : pool[s] = p
    /\ pc[r] = "evicting" =>
          Cardinality(Registered) < MaxPools \/ \E s \in Registered : pool[s] \in todo[r]

\* The lock is held by the run that purges or evicts.
LockHeld ==
    /\ poolsLock \in Runs \cup {None}
    /\ \A r \in Runs : pc[r] \in {"purging", "evicting"} <=> poolsLock = r

BoundInv ==
    /\ CallInv
    /\ LockHeld
    /\ IsFiniteSet(Registered)
    /\ PoolsBounded
    /\ poolsLock # None => Evicts(poolsLock)

\* Pools that are unregistered are fewer.
LEMMA Fewer ==
    ASSUME IsFiniteSet(Registered), Registered' \subseteq Registered
    PROVE  /\ IsFiniteSet(Registered') /\ Cardinality(Registered') \in Nat /\ Cardinality(Registered) \in Nat
           /\ Cardinality(Registered') <= Cardinality(Registered)
           /\ Registered' # Registered => Cardinality(Registered') < Cardinality(Registered)
  BY FS_Subset, FS_CardinalityType

\* A step that takes no lock and unregisters nothing keeps the limit.
LEMMA BoundKept ==
    ASSUME BoundInv, CallInv', UNCHANGED <<pool, poolsLock, closed, todo>>,
           \A r \in Runs : pc'[r] \in {"purging", "evicting"} <=> pc[r] \in {"purging", "evicting"},
           \A r \in Runs : pc'[r] = "evicting" => pc[r] = "evicting",
           \A x \in Tasks : victim'[x] \in {victim[x], None}
    PROVE  BoundInv'
<1>1. Registered' = Registered
  BY DEF Registered
<1>2. Cardinality(Registered) \in Nat
  BY FS_CardinalityType DEF BoundInv
<1>3. LockHeld'
  BY DEF BoundInv, LockHeld
<1>4. IsFiniteSet(Registered)' /\ PoolsBounded'
  BY <1>1, <1>2, McpAssumption DEF BoundInv, LockHeld, PoolsBounded, Tasks
<1>5. poolsLock' # None => Evicts(poolsLock)'
  BY <1>1 DEF BoundInv, LockHeld, Evicts
<1> QED BY <1>3, <1>4, <1>5 DEF BoundInv

\* A run takes the lock, chooses what to evict, or gets its pool.
LEMMA BoundRun == ASSUME BoundInv, NEW r \in Runs, RunStep(r) PROVE BoundInv'
<1>0. /\ CallInv /\ CallInv' /\ r \in Tasks /\ Session[r] \in Sessions /\ r # None
      /\ MaxPools \in Nat /\ Cardinality(Registered) \in Nat /\ TaskInv(r) /\ Sorts
  BY RunKeeps, FS_CardinalityType, McpAssumption DEF BoundInv, Tasks, CallInv
<1>1. CASE Start(r) \/ Execute(r) \/ Return(r)
  <2>1. /\ UNCHANGED <<pool, poolsLock, closed, todo, victim>>
        /\ pc[r] \in {"idle", "wanting", "executing"}
        /\ \E stage \in {"entering", "executing", "done"} : pc' = [pc EXCEPT ![r] = stage]
    BY <1>1 DEF Start, Execute, Return, coordinator, closings, Goto, At
  <2> QED BY <1>0, <2>1, BoundKept DEF Sorts
<1>2. CASE TakePools(r)
  <2>1. /\ UNCHANGED <<pool, closed, victim>> /\ poolsLock' = r /\ poolsLock = None
        /\ pc[r] = "entering" /\ pc' = [pc EXCEPT ![r] = "purging"]
    BY <1>2 DEF TakePools, Goto, At
  <2>2. \A p \in todo'[r] : \E s \in Registered : pool[s] = p
    <3>1. PICK S : S \subseteq Registered /\ todo' = [todo EXCEPT ![r] = {pool[s] : s \in S}]
      BY <1>2 DEF TakePools
    <3> QED BY <1>0, <3>1 DEF Sorts
  <2>3. Registered' = Registered
    BY <2>1 DEF Registered
  <2>4. victim[r] = None
    BY <1>0, <2>1 DEF TaskInv, ClosesInPlace
  <2>5. LockHeld'
    BY <1>0, <2>1, McpAssumption DEF BoundInv, LockHeld, Sorts, Tasks
  <2>6. PoolsBounded' /\ IsFiniteSet(Registered)'
    BY <1>0, <2>1, <2>3, <2>4 DEF BoundInv, PoolsBounded
  <2>7. Evicts(poolsLock)'
    BY <1>0, <2>1, <2>2, <2>3 DEF Evicts, Sorts
  <2> QED BY <1>0, <2>5, <2>6, <2>7 DEF BoundInv
<1>3. CASE Evict(r)
  <2>1. /\ UNCHANGED <<pool, closed, victim, poolsLock>>
        /\ pc[r] = "purging" /\ pc' = [pc EXCEPT ![r] = "evicting"]
    BY <1>3 DEF Evict, Goto, At, coordinator
  <2>2. \E s \in Registered : todo'[r] = {pool[s]}
    BY <1>0, <1>3 DEF Evict, Sorts
  <2>3. Registered' = Registered
    BY <2>1 DEF Registered
  <2>4. poolsLock = r
    BY <2>1 DEF BoundInv, LockHeld
  <2>5. LockHeld'
    BY <1>0, <2>1, <2>4 DEF BoundInv, LockHeld, Sorts
  <2>6. PoolsBounded' /\ IsFiniteSet(Registered)'
    BY <2>1, <2>3 DEF BoundInv, PoolsBounded
  <2>7. Evicts(poolsLock)'
    BY <2>1, <2>2, <2>3, <2>4 DEF Evicts
  <2> QED BY <1>0, <2>5, <2>6, <2>7 DEF BoundInv
<1>4. CASE GetPool(r)
  <2>1. /\ UNCHANGED victim /\ poolsLock' = None /\ pc' = [pc EXCEPT ![r] = "wanting"]
        /\ \E p : pool' = [pool EXCEPT ![Session[r]] = p]
        /\ pc[r] \in {"purging", "evicting"}
    BY <1>4 DEF GetPool, Goto, At, closings
  <2>2. poolsLock = r
    BY <2>1 DEF BoundInv, LockHeld
  <2>3. LockHeld'
    BY <1>0, <2>1, <2>2, McpAssumption DEF BoundInv, LockHeld, Sorts, Tasks
  <2>4. Registered' \subseteq Registered \cup {Session[r]}
    BY <1>0, <2>1 DEF Registered, Sorts
  <2>5. Session[r] \in Registered \/ Cardinality(Registered) < MaxPools
    <3>1. CASE pc[r] = "evicting"
      <4>1. todo[r] = {}
        BY <1>4 DEF GetPool, Idled
      <4> QED BY <1>0, <2>2, <3>1, <4>1 DEF BoundInv, Evicts
    <3>2. CASE pc[r] = "purging"
      BY <1>0, <1>4, <3>2 DEF GetPool, Full, At, Registered
    <3> QED BY <2>1, <3>1, <3>2
  <2>6. IsFiniteSet(Registered)' /\ Cardinality(Registered') <= MaxPools
    <3>1. IsFiniteSet(Registered \cup {Session[r]})
          /\ Cardinality(Registered \cup {Session[r]}) =
                IF Session[r] \in Registered THEN Cardinality(Registered) ELSE Cardinality(Registered) + 1
      BY FS_AddElement DEF BoundInv
    <3>2. Cardinality(Registered) <= MaxPools
      BY <1>0, <2>2 DEF BoundInv, PoolsBounded
    <3>3. IsFiniteSet(Registered') /\ Cardinality(Registered') <= Cardinality(Registered \cup {Session[r]})
          /\ Cardinality(Registered') \in Nat
      BY <2>4, <3>1, FS_Subset, FS_CardinalityType
    <3> QED BY <1>0, <2>5, <3>1, <3>2, <3>3
  <2>7. PoolsBounded'
    <3>1. Cardinality(Registered') \in Nat
      BY <2>6, FS_CardinalityType
    <3> QED BY <2>1, <2>6, <3>1 DEF PoolsBounded
  <2> QED BY <1>0, <2>1, <2>3, <2>6, <2>7 DEF BoundInv
<1> QED BY <1>1, <1>2, <1>3, <1>4 DEF RunStep

\* Whoever closes a pool unregisters it first.
LEMMA BoundClosing == ASSUME BoundInv, NEW x \in Tasks, Closing(x) PROVE BoundInv'
<1>0. /\ CallInv /\ CallInv' /\ MaxPools \in Nat /\ Cardinality(Registered) \in Nat /\ Sorts /\ x # None
  BY ClosingKeeps, FS_CardinalityType, McpAssumption DEF BoundInv, Tasks, CallInv
<1>1. CASE ExitConn(x) \/ Exited(x) \/ Drained(x)
  <2>1. UNCHANGED <<pool, poolsLock, closed, todo, pc>>
        /\ \A y \in Tasks : victim'[y] \in {victim[y], None}
    BY <1>0, <1>1 DEF ExitConn, Exited, Drained, coordinator, closings, Sorts
  <2> QED BY <1>0, <2>1, BoundKept
<1>2. CASE ClosePool(x)
  <2>1. PICK p \in todo[x] :
           /\ pool' = [s \in Sessions |-> IF pool[s] = p THEN None ELSE pool[s]]
           /\ closed' = closed \cup {p}
           /\ IF p \in closed THEN victim' = victim ELSE victim' = [victim EXCEPT ![x] = p]
           /\ todo' = [todo EXCEPT ![x] = @ \ {p}]
    BY <1>2 DEF ClosePool
  <2>2. UNCHANGED <<pc, poolsLock>> /\ victim[x] = None
    BY <1>2 DEF ClosePool
  <2>3. Registered' = {s \in Registered : pool[s] # p}
    BY <1>0, <2>1 DEF Registered, Sorts
  <2>4. LockHeld'
    BY <2>2 DEF BoundInv, LockHeld
  <2>5. /\ IsFiniteSet(Registered') /\ Cardinality(Registered') \in Nat
        /\ Cardinality(Registered') <= Cardinality(Registered)
        /\ (\E s \in Registered : pool[s] = p) => Cardinality(Registered') < Cardinality(Registered)
    BY <2>3, Fewer DEF BoundInv
  <2>6. PoolsBounded'
    <3>1. CASE poolsLock = x /\ p \notin closed
      <4>1. \E s \in Registered : pool[s] = p
        BY <1>0, <3>1 DEF BoundInv, Evicts
      <4>2. Cardinality(Registered) <= MaxPools
        BY <1>0, <2>2, <3>1 DEF BoundInv, PoolsBounded
      <4> QED BY <1>0, <2>2, <2>5, <3>1, <4>1, <4>2 DEF PoolsBounded
    <3>2. CASE poolsLock # x \/ p \in closed
      <4>1. poolsLock # None => victim'[poolsLock] = victim[poolsLock]
        BY <1>0, <2>1, <3>2 DEF BoundInv, LockHeld, Sorts, Tasks
      <4> QED BY <1>0, <2>2, <2>5, <4>1 DEF BoundInv, PoolsBounded
    <3> QED BY <3>1, <3>2
  <2>7. ASSUME poolsLock # None PROVE Evicts(poolsLock)'
    <3>1. Evicts(poolsLock) /\ poolsLock \in Tasks
      BY <2>7 DEF BoundInv, LockHeld, Tasks
    <3>2. todo'[poolsLock] \subseteq todo[poolsLock] /\ todo[poolsLock] \subseteq todo'[poolsLock] \cup {p}
      BY <1>0, <2>1, <3>1 DEF Sorts
    <3>3. \A s \in Registered' : pool'[s] = pool[s]
      BY <2>1, <2>3 DEF Registered
    <3>4. ASSUME NEW q \in todo'[poolsLock] PROVE q \in closed' \/ \E s \in Registered' : pool'[s] = q
      <4>1. q \in closed \/ \E s \in Registered : pool[s] = q
        BY <3>1, <3>2 DEF Evicts
      <4> QED BY <2>1, <2>3, <3>3, <4>1
    <3>5. ASSUME pc'[poolsLock] = "evicting"
          PROVE  Cardinality(Registered') < MaxPools \/ \E s \in Registered' : pool'[s] \in todo'[poolsLock]
      <4>0. Cardinality(Registered) <= MaxPools
        BY <1>0 DEF BoundInv, PoolsBounded
      <4>1. CASE Cardinality(Registered) < MaxPools
        BY <1>0, <2>5, <4>1
      <4>2. CASE \E s \in Registered : pool[s] \in todo[poolsLock] /\ pool[s] = p
        BY <1>0, <2>5, <4>0, <4>2
      <4>3. CASE \E s \in Registered : pool[s] \in todo[poolsLock] /\ pool[s] # p
        BY <2>3, <3>2, <3>3, <4>3
      <4> QED BY <2>2, <3>1, <3>5, <4>1, <4>2, <4>3 DEF Evicts
    <3> QED BY <2>2, <3>4, <3>5 DEF Evicts
  <2> QED BY <1>0, <2>2, <2>4, <2>5, <2>6, <2>7 DEF BoundInv
<1> QED BY <1>1, <1>2 DEF Closing

\* Operations, calls and cancellations leave the limit alone.
LEMMA BoundStep == ASSUME BoundInv, [Next]_vars PROVE BoundInv'
<1>0. CallInv /\ CallInv' /\ MaxPools \in Nat /\ Cardinality(Registered) \in Nat /\ Sorts
  BY CallInvStep, FS_CardinalityType, McpAssumption DEF BoundInv, CallInv
<1>1. CASE UNCHANGED vars
  BY <1>0, <1>1, BoundKept DEF vars
<1>2. ASSUME NEW x \in Calls, CallStep(x) PROVE BoundInv'
  <2>1. /\ UNCHANGED <<pool, poolsLock, closed, todo, victim>> /\ x \notin Runs
        /\ \E stage \in Stages : pc' = [pc EXCEPT ![x] = stage]
    BY <1>2, McpAssumption DEF CallStep, Call, Invoke, Answered, CallFails, Leave, coordinator, closings, Goto, Stages
  <2> QED BY <1>0, <2>1, BoundKept DEF Sorts
<1>3. ASSUME NEW x \in Tasks, x \notin Ops, Opening(x) PROVE BoundInv'
  <2>1. /\ UNCHANGED <<pool, poolsLock, closed, todo, victim>>
        /\ pc[x] \in {"wanting", "opening", "listing", "swapping"}
        /\ \E stage \in Stages \ {"purging", "evicting"} : pc' = [pc EXCEPT ![x] = stage]
    BY <1>3 DEF Opening, Reuse, Open, Swap, Swapped, Connected, Refused, Listed, Got, Connect, Seeks, At,
                coordinator, closings, Goto, Stages
  <2> QED BY <1>0, <2>1, BoundKept DEF Sorts
<1>4. ASSUME NEW o \in Ops, OpStep(o) PROVE BoundInv'
  <2>0. o \in Tasks /\ o \notin Runs
    BY McpAssumption DEF Tasks
  <2>1. CASE Finish(o)
    <3>1. UNCHANGED <<pool, poolsLock, closed, todo, victim>> /\ pc' = [pc EXCEPT ![o] = "done"]
      BY <2>1 DEF Finish, coordinator, closings, Goto
    <3> QED BY <1>0, <2>0, <3>1, BoundKept DEF Sorts
  <2>2. CASE Begin(o)
    <3>1. /\ poolsLock = None /\ poolsLock' = None /\ pc' = [pc EXCEPT ![o] = "closing"]
          /\ pool' = [s \in Sessions |-> IF s \in Target[o] THEN None ELSE pool[s]]
      BY <2>2 DEF Begin, Goto
    <3>2. Registered' \subseteq Registered
      BY <3>1 DEF Registered
    <3>3. IsFiniteSet(Registered') /\ PoolsBounded'
      BY <1>0, <3>1, <3>2, Fewer DEF BoundInv, PoolsBounded
    <3>4. LockHeld'
      BY <1>0, <2>0, <3>1 DEF BoundInv, LockHeld, Sorts
    <3> QED BY <1>0, <3>1, <3>3, <3>4 DEF BoundInv
  <2> QED BY <1>4, <2>1, <2>2 DEF OpStep
<1>5. ASSUME NEW x \in Tasks, Cancel(x) PROVE BoundInv'
  <2>1. /\ UNCHANGED <<pool, closed>>
        /\ pc' = [pc EXCEPT ![x] = "done"]
        /\ poolsLock' = IF poolsLock = x THEN None ELSE poolsLock
        /\ todo' = [todo EXCEPT ![x] = {}]
        /\ victim' = [victim EXCEPT ![x] = None]
    BY <1>5 DEF Cancel, Goto
  <2>2. Registered' = Registered
    BY <2>1 DEF Registered
  <2>3. LockHeld'
    BY <1>0, <2>1, McpAssumption DEF BoundInv, LockHeld, Sorts, Tasks
  <2>4. PoolsBounded' /\ IsFiniteSet(Registered)'
    <3>1. Cardinality(Registered) <= MaxPools
      BY <1>0 DEF BoundInv, PoolsBounded
    <3> QED BY <1>0, <2>1, <2>2, <3>1, McpAssumption DEF BoundInv, PoolsBounded, LockHeld, Sorts, Tasks
  <2>5. poolsLock' # None => Evicts(poolsLock)'
    BY <1>0, <2>1, <2>2, McpAssumption DEF BoundInv, LockHeld, Evicts, Sorts, Tasks
  <2> QED BY <1>0, <2>3, <2>4, <2>5 DEF BoundInv
<1>6. ASSUME NEW x \in Tasks, Step(x) PROVE BoundInv'
  BY <1>2, <1>3, <1>4, <1>6, BoundRun, BoundClosing DEF Step
<1> QED BY <1>1, <1>5, <1>6 DEF Next

\* _McpSessionCoordinator never has more than max_pooled_sessions pools, the one
\* it is closing to make room included, whatever is purged, evicted, released,
\* closed or cancelled, and however many sessions compete.
THEOREM LimitHolds == Spec => []PoolsBounded
<1>1. Init => BoundInv
  <2> SUFFICES ASSUME Init PROVE BoundInv
    OBVIOUS
  <2>1. Registered = {} /\ poolsLock = None
    BY DEF Init, Registered
  <2>2. IsFiniteSet(Registered) /\ PoolsBounded
    BY <2>1, FS_EmptySet, McpAssumption DEF PoolsBounded
  <2>3. LockHeld
    BY McpAssumption DEF Init, LockHeld, Tasks
  <2> QED BY <2>1, <2>2, <2>3, CallInvInit DEF BoundInv
<1>2. BoundInv /\ [Next]_vars => BoundInv'
  BY BoundStep
<1>3. BoundInv => PoolsBounded
  BY DEF BoundInv
<1> QED BY <1>1, <1>2, <1>3, PTL DEF Spec

(***************************************************************************)
(* Pools that are closed between runs only.                                *)
(***************************************************************************)
\* The application does one thing at a time, cancels nothing and sets no idle
\* limit, and a run is delegated in the session of its caller.
InOrder ==
    /\ ~Concurrent /\ ~Cancels /\ ~Idle
    /\ \A r \in Runs : Parent[r] # None => Session[Parent[r]] = Session[r]

Users == Runs \cup Calls
Working == {"wanting", "swapping", "opening", "listing", "ready", "calling", "executing"}
Linking == {"swapping", "opening", "listing"}

\* The variables the orderly use is about.
MoreSorts ==
    /\ made \subseteq Pools /\ closed \subseteq Pools
    /\ todo \in [Tasks -> SUBSET Pools]
    /\ victim \in [Tasks -> Pools \cup {None}]
    /\ left \in [Tasks -> SUBSET Conns]
    /\ held \in [Tasks -> Conns \cup {None}]
    /\ conn \in [Conns -> {"unused", "opening", "open", "exiting", "closed"}]
    /\ opener \in [Pools -> Tasks \cup {None}]

\* A run executes while it has calls or delegated runs; the active runs are one
\* line in one session, all but one executing; an operation is alone.
OneLine ==
    /\ \A k \in Calls : Active(k) => pc[RunOf[k]] = "executing"
    /\ \A r \in Runs : Parent[r] # None /\ Active(r) => pc[Parent[r]] = "executing"
    /\ \A q, r \in Runs : Active(q) /\ Active(r) =>
          /\ Session[q] = Session[r]
          /\ q # r => pc[q] = "executing" \/ pc[r] = "executing"
    /\ \A o \in Ops, x \in Tasks : Active(o) /\ Active(x) => x = o

\* Whoever closes pools is alone.
Closes(x) == todo[x] # {} \/ victim[x] # None
ClosesAlone ==
    /\ \A x \in Tasks : Closes(x) => \A y \in Tasks : Active(y) => y = x
    /\ \A x \in Tasks : left[x] # {} => victim[x] # None
    /\ \A x \in Tasks : victim[x] # None => victim[x] \in closed

\* A registered pool is of one session, and is not closed; the runs that are
\* under way have the one of their session.
Wired ==
    /\ closed \subseteq made /\ \A x \in Tasks : todo[x] \subseteq made
    /\ \A s, t \in Registered : pool[s] = pool[t] => s = t
    /\ \A s \in Registered : pool[s] \in made \ closed
    /\ \A r \in Runs : using[r] # None => using[r] \in made
    /\ \A r \in Runs : pc[r] \in Working => using[r] = pool[Session[r]] /\ using[r] # None
    /\ \A r \in Runs : using[r] \notin closed \cup {None} =>
          using[r] = pool[Session[r]] \/ \E x \in Tasks : using[r] \in todo[x]

\* A pool that is open or being closed is the only such of its session.
Live(p) == p # None /\ (p \notin closed \/ \E x \in Tasks : victim[x] = p)
OnePool ==
    \A q, r \in Runs : Session[q] = Session[r] /\ Live(using[q]) /\ Live(using[r]) => using[q] = using[r]

\* Where open connections are: in a pool that is not closed, with the task that
\* opens them, or before the one that closes their pool.
Kept ==
    /\ \A p \in Pools, v \in Servers : entry[p][v] # None => conn[entry[p][v]] \in {"open", "exiting", "closed"}
    /\ \A p \in closed, v \in Servers : entry[p][v] # None /\ conn[entry[p][v]] = "open" =>
          \E x \in Tasks : victim[x] = p /\ entry[p][v] \in left[x]
    /\ \A c \in Conns : conn[c] = "open" =>
          \/ \E p \in Pools \ closed, v \in Servers : entry[p][v] = c
          \/ \E x \in Users : pc[x] = "listing" /\ held[x] = c
          \/ \E x \in Tasks : c \in left[x]

\* A task that links a connection has its pool's _conn_creation_lock, and the
\* entry it is going to set is empty, or the one it is exiting.
Links(x) ==
    pc[x] \in Linking =>
       /\ opener[PoolOf(x)] = x
       /\ wants[x] # {}
       /\ pc[x] = "swapping" => Found(x) = held[x] /\ conn[held[x]] = "exiting"
       /\ pc[x] = "opening" => Found(x) = None /\ conn[held[x]] = "opening"
       /\ pc[x] = "listing" => Found(x) = None /\ conn[held[x]] = "open"

PoolInv == OneLine /\ ClosesAlone /\ Wired /\ OnePool
LinkInv == Kept /\ \A x \in Users : Links(x)
OrderInv == CallInv /\ MoreSorts /\ stale \subseteq Conns /\ PoolInv /\ LinkInv

\* The server a task gets next is one it wants, while it wants the same.
LEMMA AimIn == ASSUME NEW x, wants[x] # {} PROVE Aim(x) \in wants[x]
  BY DEF Aim

\* It goes on to aim at what it aimed at.
LEMMA AimStays == ASSUME NEW x, wants'[x] = wants[x] PROVE Aim(x)' = Aim(x)
  BY DEF Aim

\* The variables stay what they are.
LEMMA MoreSortsStep == ASSUME CallInv, MoreSorts, NEW x \in Tasks, Step(x) PROVE MoreSorts'
<1>1. TaskInv(x) /\ Sorts
  BY DEF CallInv
<1>2. CASE x \in Runs /\ RunStep(x)
  <2>1. CASE Start(x) \/ Execute(x) \/ Return(x)
    BY <2>1 DEF Start, Execute, Return, MoreSorts, coordinator, closings
  <2>2. CASE TakePools(x) \/ Evict(x)
    <3>1. \A S \in SUBSET Registered : {pool[s] : s \in S} \subseteq Pools
      BY <1>1 DEF Sorts, Registered
    <3>2. \A s \in Registered : {pool[s]} \subseteq Pools
      BY <1>1 DEF Sorts, Registered
    <3>3. \E P \in SUBSET Pools : todo' = [todo EXCEPT ![x] = P]
      BY <2>2, <3>1, <3>2 DEF TakePools, Evict
    <3> QED BY <2>2, <3>3 DEF TakePools, Evict, MoreSorts, coordinator
  <2>3. CASE GetPool(x)
    <3>1. \E p \in Pools : made' = made \cup {p}
      <4>1. Session[x] \in Sessions
        BY <1>2, McpAssumption
      <4>2. CASE pool[Session[x]] = None
        BY <2>3, <4>2 DEF GetPool
      <4>3. CASE pool[Session[x]] # None
        BY <1>1, <2>3, <4>1, <4>3 DEF GetPool, Sorts
      <4> QED BY <4>2, <4>3
    <3> QED BY <2>3, <3>1 DEF GetPool, MoreSorts, closings
  <2> QED BY <1>2, <2>1, <2>2, <2>3 DEF RunStep
<1>3. CASE x \in Calls /\ CallStep(x)
  <2>1. UNCHANGED <<made, closed, todo, victim, left, conn, opener>> /\ held' \in {held, [held EXCEPT ![x] = None]}
    BY <1>3 DEF CallStep, Call, Invoke, Answered, CallFails, Leave, coordinator, closings
  <2> QED BY <2>1 DEF MoreSorts
<1>4. CASE x \in Ops /\ OpStep(x)
  <2>1. {pool[s] : s \in Target[x]} \ {None} \subseteq Pools
    BY <1>1, <1>4, McpAssumption DEF Sorts
  <2>2. UNCHANGED <<made, closed, victim, left, conn, opener, held>>
        /\ \E P \in SUBSET Pools : todo' \in {todo, [todo EXCEPT ![x] = P]}
    BY <1>4, <2>1 DEF OpStep, Begin, Finish, coordinator, closings
  <2> QED BY <2>2 DEF MoreSorts
<1>5. CASE Closing(x)
  <2>1. CASE ClosePool(x)
    <3>1. PICK p \in todo[x] :
             /\ closed' = closed \cup {p}
             /\ \/ UNCHANGED <<victim, left>>
                \/ victim' = [victim EXCEPT ![x] = p] /\ left' = [left EXCEPT ![x] = Entries(p)]
             /\ todo' = [todo EXCEPT ![x] = @ \ {p}]
      BY <2>1 DEF ClosePool
    <3>2. p \in Pools
      BY DEF MoreSorts
    <3>3. Entries(p) \subseteq Conns
      BY <1>1, <3>2 DEF Entries, Sorts
    <3> QED BY <2>1, <3>1, <3>2, <3>3 DEF ClosePool, MoreSorts
  <2>2. CASE ExitConn(x)
    BY <2>2 DEF ExitConn, Exits, MoreSorts, coordinator
  <2>3. CASE Exited(x)
    BY <2>3 DEF Exited, MoreSorts, coordinator, closings
  <2>4. CASE Drained(x)
    BY <2>4 DEF Drained, MoreSorts, coordinator
  <2> QED BY <1>5, <2>1, <2>2, <2>3, <2>4 DEF Closing
<1>6. CASE x \notin Ops /\ Opening(x)
  <2>1. UNCHANGED <<made, closed, todo, victim, left>>
    BY <1>6 DEF Opening, Reuse, Open, Swap, Swapped, Connected, Refused, Listed, coordinator, closings
  <2>2. (Unused # {} => NewConn \in Conns) /\ x \in Tasks
    BY DEF Unused, NewConn
  <2>3. pc[x] \in Working /\ x \in Runs \cup Calls
    BY <1>6 DEF Opening, Reuse, Open, Swap, Seeks, Swapped, Connected, Refused, Listed, At, Working, Tasks
  <2>4. PoolOf(x) \in Pools
    BY <1>1, <1>6, <2>3, McpAssumption DEF TaskInv, Pooled, PoolOf, Working, Opening, Reuse, Open, Swap, Seeks,
          Swapped, Connected, Refused, Listed, At
  <2>5. Seeks(x) => Found(x) \in Conns \cup {None}
    <3>1. Seeks(x) => wants[x] # {}
      BY DEF Seeks
    <3>2. Seeks(x) => Aim(x) \in Servers
      BY <1>1, <3>1, AimIn DEF Sorts
    <3> QED BY <1>1, <2>4, <3>2 DEF Found, Sorts
  <2>6. CASE Reuse(x)
    BY <2>1, <2>5, <2>6 DEF Reuse, Got, MoreSorts
  <2>7. CASE Open(x)
    BY <2>1, <2>2, <2>7 DEF Open, Connect, MoreSorts
  <2>8. CASE Swap(x)
    <3>1. CASE conn[Found(x)] = "open"
      BY <2>1, <2>5, <2>8, <3>1 DEF Swap, Exits, MoreSorts
    <3>2. CASE conn[Found(x)] # "open"
      BY <2>1, <2>2, <2>8, <3>2 DEF Swap, Connect, MoreSorts
    <3> QED BY <3>1, <3>2
  <2>9. CASE Swapped(x)
    BY <2>1, <2>2, <2>9 DEF Swapped, MoreSorts
  <2>10. CASE Connected(x)
    BY <2>1, <2>10 DEF Connected, MoreSorts
  <2>11. CASE Refused(x)
    BY <2>1, <2>11 DEF Refused, Released, MoreSorts
  <2>12. CASE Listed(x)
    BY <1>1, <2>1, <2>12 DEF Listed, Got, At, MoreSorts
  <2> QED BY <1>6, <2>6, <2>7, <2>8, <2>9, <2>10, <2>11, <2>12 DEF Opening
<1> QED BY <1>2, <1>3, <1>4, <1>5, <1>6 DEF Step

\* A task that works closes nothing, and nobody closes beside it.
LEMMA NobodyCloses ==
    ASSUME CallInv, ClosesAlone, NEW x \in Tasks, pc[x] \in Working
    PROVE  \A y \in Tasks : ~Closes(y)
<1>1. ~Closes(x) /\ Active(x)
  BY DEF CallInv, TaskInv, ClosesInPlace, Closes, Active, Working
<1> QED BY <1>1 DEF ClosesAlone

\* A task that was under way and does not execute may go on or end.
LEMMA LineMoves ==
    ASSUME OneLine, NEW x \in Tasks, Active(x), pc[x] # "executing",
           \A y \in Tasks \ {x} : pc'[y] = pc[y]
    PROVE  OneLine'
<1>1. \A y \in Tasks : Active(y)' => Active(y)
  BY DEF Active
<1>2. Runs \subseteq Tasks /\ Calls \subseteq Tasks /\ Ops \subseteq Tasks
  BY DEF Tasks
<1>3. \A y \in Tasks : pc[y] = "executing" => pc'[y] = "executing"
  OBVIOUS
<1>4. ASSUME NEW k \in Calls, Active(k)' PROVE pc'[RunOf[k]] = "executing"
  BY <1>1, <1>2, <1>3, <1>4, McpAssumption DEF OneLine
<1>5. ASSUME NEW r \in Runs, Parent[r] # None, Active(r)' PROVE pc'[Parent[r]] = "executing"
  BY <1>1, <1>2, <1>3, <1>5, McpAssumption DEF OneLine
<1>6. ASSUME NEW q \in Runs, NEW r \in Runs, Active(q)', Active(r)'
      PROVE  Session[q] = Session[r] /\ (q # r => pc'[q] = "executing" \/ pc'[r] = "executing")
  BY <1>1, <1>2, <1>3, <1>6 DEF OneLine
<1>7. ASSUME NEW o \in Ops, NEW y \in Tasks, Active(o)', Active(y)' PROVE y = o
  BY <1>1, <1>2, <1>7 DEF OneLine
<1> QED BY <1>4, <1>5, <1>6, <1>7 DEF OneLine

\* The application does one thing at a time.
LEMMA LineStep ==
    ASSUME InOrder, CallInv, OneLine, NEW x \in Tasks, Step(x)
    PROVE  OneLine'
<1>0. Runs \subseteq Tasks /\ Calls \subseteq Tasks /\ Ops \subseteq Tasks /\ Sorts /\ ~Concurrent
  BY DEF Tasks, CallInv, InOrder
<1>1. CASE x \in Runs /\ Start(x)
  <2>1. pc' = [pc EXCEPT ![x] = "entering"] /\ pc[x] = "idle" /\ MayStart(x)
    BY <1>1 DEF Start, Goto, At
  <2>2. /\ pc'[x] = "entering" /\ Active(x)'
        /\ \A y \in Tasks \ {x} : pc'[y] = pc[y] /\ (Active(y)' <=> Active(y))
    BY <1>0, <2>1 DEF Sorts, Active
  <2>3. \A o \in Ops : ~Active(o)
    BY <1>0, <2>1 DEF MayStart
  <2>4. \A q \in Runs : Active(q) => pc[q] = "executing" /\ Session[q] = Session[x]
    <3>1. CASE Parent[x] = None
      BY <1>0, <2>1, <3>1 DEF MayStart, Excludes
    <3>2. CASE Parent[x] # None
      <4>1. /\ pc[Parent[x]] = "executing" /\ Parent[x] \in Runs
            /\ \A q \in Runs : Active(q) /\ Innermost(q) => q = Parent[x]
        BY <1>0, <1>1, <2>1, <3>2, McpAssumption DEF MayStart, Excludes, At
      <4>2. Active(Parent[x]) /\ Session[Parent[x]] = Session[x]
        BY <1>1, <3>2, <4>1 DEF Active, InOrder
      <4>3. ASSUME NEW q \in Runs, Active(q) PROVE pc[q] = "executing"
        <5>1. CASE Innermost(q)
          BY <4>1, <4>3, <5>1
        <5>2. CASE ~Innermost(q)
          <6>1. PICK c \in Runs : Parent[c] = q /\ Active(c)
            BY <5>2 DEF Innermost
          <6>2. Parent[c] # None
            BY <6>1, McpAssumption DEF Tasks
          <6> QED BY <6>1, <6>2 DEF OneLine
        <5> QED BY <5>1, <5>2
      <4> QED BY <4>1, <4>2, <4>3 DEF OneLine
    <3> QED BY <3>1, <3>2
  <2>5. ASSUME NEW k \in Calls, Active(k)' PROVE pc'[RunOf[k]] = "executing"
    <3>1. k # x
      BY <1>1, McpAssumption
    <3>2. Active(k) /\ pc[RunOf[k]] = "executing" /\ RunOf[k] \in Runs
      BY <1>0, <2>2, <2>5, <3>1, McpAssumption DEF OneLine
    <3> QED BY <1>0, <2>1, <2>2, <3>2
  <2>6. ASSUME NEW r \in Runs, Parent[r] # None, Active(r)' PROVE pc'[Parent[r]] = "executing"
    <3>1. pc[Parent[r]] = "executing" /\ Parent[r] \in Runs
      <4>1. CASE r = x
        BY <1>0, <2>1, <2>6, <4>1, McpAssumption DEF MayStart, At
      <4>2. CASE r # x
        BY <1>0, <2>2, <2>6, <4>2, McpAssumption DEF OneLine
      <4> QED BY <4>1, <4>2
    <3> QED BY <1>0, <2>1, <2>2, <3>1
  <2>7. ASSUME NEW q \in Runs, NEW r \in Runs, Active(q)', Active(r)'
        PROVE  Session[q] = Session[r] /\ (q # r => pc'[q] = "executing" \/ pc'[r] = "executing")
    BY <1>0, <2>2, <2>4, <2>7
  <2>8. ASSUME NEW o \in Ops, NEW y \in Tasks, Active(o)', Active(y)' PROVE y = o
    <3>1. o # x
      BY <1>1, McpAssumption
    <3> QED BY <1>0, <2>2, <2>3, <2>8, <3>1
  <2> QED BY <2>5, <2>6, <2>7, <2>8 DEF OneLine
<1>2. CASE x \in Runs /\ Return(x)
  <2>1. /\ pc' = [pc EXCEPT ![x] = "done"]
        /\ \A k \in Calls : RunOf[k] = x => ~Active(k)
        /\ \A q \in Runs : Parent[q] = x => ~Active(q)
    BY <1>2 DEF Return, Goto
  <2>2. ~Active(x)' /\ \A y \in Tasks \ {x} : pc'[y] = pc[y] /\ (Active(y)' <=> Active(y))
    BY <1>0, <2>1 DEF Sorts, Active
  <2>3. ASSUME NEW k \in Calls, Active(k)' PROVE pc'[RunOf[k]] = "executing"
    <3>1. Active(k) /\ k # x
      BY <1>0, <2>2, <2>3
    <3>2. RunOf[k] # x /\ RunOf[k] \in Tasks
      BY <1>0, <2>1, <3>1, McpAssumption
    <3> QED BY <2>2, <3>1, <3>2 DEF OneLine
  <2>4. ASSUME NEW r \in Runs, Parent[r] # None, Active(r)' PROVE pc'[Parent[r]] = "executing"
    <3>1. Active(r) /\ r # x
      BY <1>0, <2>2, <2>4
    <3>2. Parent[r] # x /\ Parent[r] \in Tasks
      BY <1>0, <2>1, <2>4, <3>1, McpAssumption
    <3> QED BY <2>2, <2>4, <3>1, <3>2 DEF OneLine
  <2>5. ASSUME NEW q \in Runs, NEW r \in Runs, Active(q)', Active(r)'
        PROVE  Session[q] = Session[r] /\ (q # r => pc'[q] = "executing" \/ pc'[r] = "executing")
    BY <1>0, <2>2, <2>5 DEF OneLine
  <2>6. ASSUME NEW o \in Ops, NEW y \in Tasks, Active(o)', Active(y)' PROVE y = o
    BY <1>0, <2>2, <2>6 DEF OneLine
  <2> QED BY <2>3, <2>4, <2>5, <2>6 DEF OneLine
<1>3. CASE x \in Calls /\ Call(x)
  <2>1. pc' = [pc EXCEPT ![x] = "wanting"] /\ pc[RunOf[x]] = "executing"
    BY <1>3 DEF Call, Goto, At
  <2>2. /\ x \notin Runs /\ x \notin Ops /\ RunOf[x] \in Runs /\ Active(RunOf[x])
        /\ \A y \in Tasks \ {x} : pc'[y] = pc[y] /\ (Active(y)' <=> Active(y))
    BY <1>0, <1>3, <2>1, McpAssumption DEF Sorts, Active
  <2>3. ASSUME NEW k \in Calls, Active(k)' PROVE pc'[RunOf[k]] = "executing"
    BY <1>0, <2>1, <2>2, <2>3, McpAssumption DEF OneLine
  <2>4. ASSUME NEW r \in Runs, Parent[r] # None, Active(r)' PROVE pc'[Parent[r]] = "executing"
    BY <1>0, <2>2, <2>4, McpAssumption DEF OneLine
  <2>5. ASSUME NEW q \in Runs, NEW r \in Runs, Active(q)', Active(r)'
        PROVE  Session[q] = Session[r] /\ (q # r => pc'[q] = "executing" \/ pc'[r] = "executing")
    BY <1>0, <2>2, <2>5 DEF OneLine
  <2>6. ASSUME NEW o \in Ops, NEW y \in Tasks, Active(o)', Active(y)' PROVE y = o
    <3>1. Active(o) /\ o \notin Runs
      BY <1>0, <2>2, <2>6, McpAssumption
    <3> QED BY <1>0, <2>2, <3>1 DEF OneLine
  <2> QED BY <2>3, <2>4, <2>5, <2>6 DEF OneLine
<1>4. CASE x \in Ops /\ Begin(x)
  <2>1. pc' = [pc EXCEPT ![x] = "closing"] /\ \A y \in Runs \cup Ops : ~Active(y)
    BY <1>0, <1>4 DEF Begin, Goto
  <2>2. \A k \in Calls : ~Active(k)
    BY <1>0, <2>1, McpAssumption DEF OneLine, Active
  <2>3. \A y \in Tasks \ {x} : ~Active(y)'
    BY <1>0, <2>1, <2>2 DEF Sorts, Active, Tasks
  <2>4. x \notin Runs /\ x \notin Calls
    BY <1>4, McpAssumption
  <2> QED BY <1>0, <2>3, <2>4 DEF OneLine
<1>5. CASE Closing(x)
  <2>1. pc' = pc
    BY <1>5 DEF Closing, ClosePool, ExitConn, Exited, Drained
  <2> QED BY <2>1 DEF OneLine, Active
<1>6. CASE \/ x \in Runs /\ (TakePools(x) \/ Evict(x) \/ GetPool(x) \/ Execute(x))
           \/ x \in Calls /\ (Invoke(x) \/ Answered(x) \/ CallFails(x))
           \/ Finish(x)
           \/ Opening(x)
  <2>1. pc[x] \notin {"idle", "done", "executing"} /\ \E stage : pc' = [pc EXCEPT ![x] = stage]
    BY <1>6 DEF TakePools, Evict, GetPool, Execute, Invoke, Answered, CallFails, Leave, Finish, Opening,
          Reuse, Open, Swap, Seeks, Swapped, Connected, Refused, Listed, Got, Connect, At, Goto
  <2>2. Active(x) /\ \A y \in Tasks \ {x} : pc'[y] = pc[y]
    BY <1>0, <2>1 DEF Active, Sorts
  <2> QED BY <2>1, <2>2, LineMoves
<1> QED BY <1>1, <1>2, <1>3, <1>4, <1>5, <1>6 DEF Step, RunStep, CallStep, OpStep

\* A step that neither takes nor closes pools, and lets nobody work that did not,
\* and nobody begin while pools are closed.
LEMMA PoolsKept ==
    ASSUME PoolInv, UNCHANGED <<pool, made, closed, using, todo, victim, left>>,
           \A r \in Runs : pc'[r] \in Working => pc[r] \in Working,
           \A y \in Tasks : Active(y)' => Active(y) \/ \A x \in Tasks : ~Closes(x)
    PROVE  ClosesAlone' /\ Wired' /\ OnePool'
<1>1. /\ Registered' = Registered
      /\ \A x \in Tasks : Closes(x)' <=> Closes(x)
      /\ \A r \in Runs : using'[r] = using[r] /\ (Live(using[r])' <=> Live(using[r]))
  BY DEF Registered, Closes, Live
<1>2. ClosesAlone'
  BY <1>1 DEF PoolInv, ClosesAlone
<1>3. Wired'
  BY <1>1 DEF PoolInv, Wired
<1>4. OnePool'
  BY <1>1 DEF PoolInv, OnePool
<1> QED BY <1>2, <1>3, <1>4

\* Who has nothing to do with the pools' closing.
LEMMA OthersClose ==
    ASSUME MoreSorts, NEW x \in Tasks, NEW S, todo' = [todo EXCEPT ![x] = S], UNCHANGED victim
    PROVE  /\ todo'[x] = S
           /\ \A y \in Tasks \ {x} : todo'[y] = todo[y] /\ (Closes(y)' <=> Closes(y))
  BY DEF MoreSorts, Closes

\* A run takes, evicts for, and gets its pool.
LEMMA RunPools ==
    ASSUME InOrder, CallInv, MoreSorts, PoolInv, NEW r \in Runs, RunStep(r), OneLine'
    PROVE  PoolInv'
<1>0. /\ r \in Tasks /\ Runs \subseteq Tasks /\ Session[r] \in Sessions /\ Sorts /\ ~Concurrent /\ ~Idle
      /\ None \notin Pools /\ Ops \subseteq Tasks /\ Calls \subseteq Tasks /\ TaskInv(r)
  BY McpAssumption DEF Tasks, CallInv, InOrder
<1>1. CASE Start(r)
  <2>1. /\ UNCHANGED <<pool, made, closed, using, todo, victim, left>>
        /\ pc' = [pc EXCEPT ![r] = "entering"] /\ MayStart(r)
    BY <1>1 DEF Start, coordinator, closings, Goto
  <2>2. \A x \in Tasks : ~Closes(x)
    <3>1. CASE Parent[r] = None
      <4>1. ASSUME NEW x \in Tasks, Closes(x) PROVE FALSE
        <5>1. Active(x) /\ x \notin Calls
          BY <4>1 DEF CallInv, TaskInv, ClosesInPlace, Closes, Active
        <5> QED BY <1>0, <2>1, <3>1, <5>1 DEF MayStart, Excludes, Tasks
      <4> QED BY <4>1
    <3>2. CASE Parent[r] # None
      <4>1. Parent[r] \in Tasks /\ pc[Parent[r]] \in Working
        BY <1>0, <2>1, <3>2, McpAssumption DEF MayStart, At, Working
      <4> QED BY <4>1, NobodyCloses DEF PoolInv
    <3> QED BY <3>1, <3>2
  <2>3. \A q \in Runs : pc'[q] \in Working => pc[q] \in Working
    BY <1>0, <2>1 DEF Sorts, Working
  <2> QED BY <2>1, <2>2, <2>3, PoolsKept DEF PoolInv
<1>2. CASE TakePools(r)
  <2>1. /\ UNCHANGED <<pool, made, closed, using, victim, left>>
        /\ pc' = [pc EXCEPT ![r] = "purging"] /\ pc[r] = "entering"
        /\ todo' = [todo EXCEPT ![r] = {}]
    <3>1. PICK S \in {{}} : todo' = [todo EXCEPT ![r] = {pool[s] : s \in S}]
      BY <1>0, <1>2 DEF TakePools
    <3>2. {pool[s] : s \in S} = {}
      OBVIOUS
    <3> QED BY <1>2, <3>1, <3>2 DEF TakePools, Goto, At
  <2>2. todo' = todo
    BY <1>0, <2>1 DEF TaskInv, ClosesInPlace, MoreSorts
  <2>3. /\ \A q \in Runs : pc'[q] \in Working => pc[q] \in Working
        /\ \A y \in Tasks : Active(y)' => Active(y)
    BY <1>0, <2>1 DEF Sorts, Working, Active
  <2> QED BY <2>1, <2>2, <2>3, PoolsKept DEF PoolInv
<1>3. CASE Execute(r) \/ Return(r)
  <2>1. /\ UNCHANGED <<pool, made, closed, using, todo, victim, left>>
        /\ pc[r] \in {"wanting", "executing"} /\ pc' \in {[pc EXCEPT ![r] = "executing"], [pc EXCEPT ![r] = "done"]}
    BY <1>3 DEF Execute, Return, coordinator, closings, Goto, At
  <2>2. /\ \A q \in Runs : pc'[q] \in Working => pc[q] \in Working
        /\ \A y \in Tasks : Active(y)' => Active(y)
    BY <1>0, <2>1 DEF Sorts, Working, Active
  <2> QED BY <2>1, <2>2, PoolsKept DEF PoolInv
<1>4. CASE Evict(r)
  <2>1. /\ UNCHANGED <<pool, made, closed, using, victim, left>>
        /\ pc[r] = "purging" /\ pc' = [pc EXCEPT ![r] = "evicting"]
        /\ pool[Session[r]] = None /\ todo[r] = {}
        /\ \E S : todo' = [todo EXCEPT ![r] = S]
    BY <1>4 DEF Evict, coordinator, Goto, At, Full, Idled
  <2>2. Active(r) /\ pc[r] \notin Working /\ pc[r] # "executing"
    BY <2>1 DEF Active, Working
  <2>3. \A q \in Runs : Active(q) => q = r
    <3> SUFFICES ASSUME NEW q \in Runs, Active(q), q # r PROVE FALSE
      OBVIOUS
    <3>1. pc[q] = "executing" /\ Session[q] = Session[r]
      BY <2>2 DEF PoolInv, OneLine
    <3> QED BY <2>1, <3>1 DEF PoolInv, Wired, Working
  <2>4. \A y \in Tasks : Active(y) => y = r
    <3>1. \A k \in Calls : ~Active(k)
      <4> SUFFICES ASSUME NEW k \in Calls, Active(k) PROVE FALSE
        OBVIOUS
      <4>1. pc[RunOf[k]] = "executing" /\ RunOf[k] \in Runs
        BY McpAssumption DEF PoolInv, OneLine
      <4> QED BY <2>2, <2>3, <4>1 DEF Active
    <3>2. \A o \in Ops : ~Active(o)
      BY <1>0, <2>2, McpAssumption DEF PoolInv, OneLine
    <3> QED BY <2>3, <3>1, <3>2 DEF Tasks
  <2>5. /\ Registered' = Registered
        /\ \A x \in Tasks \ {r} : todo'[x] = todo[x] /\ (Closes(x)' <=> Closes(x))
        /\ \A q \in Runs : using'[q] = using[q] /\ (Live(using[q])' <=> Live(using[q]))
    BY <1>0, <2>1, OthersClose DEF Registered, Live
  <2>6. /\ \A q \in Runs : pc'[q] \in Working => pc[q] \in Working
        /\ \A y \in Tasks : Active(y)' => Active(y)
    BY <1>0, <2>1 DEF Sorts, Working, Active
  <2>7. ClosesAlone'
    <3>1. ASSUME NEW x \in Tasks, Closes(x)', NEW y \in Tasks, Active(y)' PROVE y = x
      <4>1. y = r
        BY <2>4, <2>6, <3>1
      <4>2. CASE x # r
        BY <2>2, <2>5, <3>1, <4>1, <4>2 DEF PoolInv, ClosesAlone
      <4> QED BY <4>1, <4>2
    <3> QED BY <2>1, <3>1 DEF PoolInv, ClosesAlone
  <2>8. Wired'
    <3>1. ASSUME NEW q \in Runs, using'[q] \notin closed' \cup {None}
          PROVE  using'[q] = pool'[Session[q]] \/ \E x \in Tasks : using'[q] \in todo'[x]
      <4>1. using[q] = pool[Session[q]] \/ \E x \in Tasks : using[q] \in todo[x]
        BY <2>1, <3>1 DEF PoolInv, Wired
      <4> QED BY <2>1, <2>5, <4>1
    <3>2. \A x \in Tasks : todo'[x] \subseteq made'
      <4>1. \E t \in Registered : todo' = [todo EXCEPT ![r] = {pool[t]}]
        BY <1>4 DEF Evict
      <4>2. \A t \in Registered : pool[t] \in made
        BY DEF PoolInv, Wired
      <4> QED BY <1>0, <2>1, <4>1, <4>2 DEF PoolInv, Wired, MoreSorts
    <3> QED BY <2>1, <2>5, <2>6, <3>1, <3>2 DEF PoolInv, Wired
  <2>9. OnePool'
    BY <2>5 DEF PoolInv, OnePool
  <2> QED BY <2>7, <2>8, <2>9 DEF PoolInv
<1>5. CASE GetPool(r)
  <2> DEFINE s == Session[r]
  <2>1. PICK p \in Pools :
           /\ (p = pool[s] /\ pool[s] # None) \/ (pool[s] = None /\ p \notin made)
           /\ pool' = [pool EXCEPT ![s] = p]
           /\ made' = made \cup {p}
           /\ using' = [using EXCEPT ![r] = p]
    <3>1. CASE pool[s] = None
      BY <1>5, <3>1 DEF GetPool
    <3>2. CASE pool[s] # None
      BY <1>0, <1>5, <3>2 DEF GetPool, Sorts
    <3> QED BY <3>1, <3>2
  <2>2. /\ UNCHANGED <<closed, todo, victim, left>>
        /\ pc' = [pc EXCEPT ![r] = "wanting"] /\ pc[r] \in {"purging", "evicting"}
        /\ todo[r] = {} /\ victim[r] = None
    BY <1>5 DEF GetPool, closings, Goto, At, Idled
  <2>3. \A x \in Tasks : ~Closes(x)
    <3>1. Active(r) /\ ~Closes(r)
      BY <2>2 DEF Active, Closes
    <3> QED BY <1>0, <3>1 DEF PoolInv, ClosesAlone
  <2>4. ClosesAlone'
    BY <2>2, <2>3 DEF PoolInv, ClosesAlone, Closes
  <2>5. p \notin closed
    BY <1>0, <2>1 DEF PoolInv, Wired, Registered
  <2>6. /\ pool'[s] = p /\ using'[r] = p
        /\ \A t \in Sessions \ {s} : pool'[t] = pool[t]
        /\ \A q \in Runs \ {r} : using'[q] = using[q]
    BY <1>0, <2>1 DEF Sorts
  <2>7. \A q \in Runs : Session[q] = s /\ Live(using[q]) => using[q] = pool[s]
    BY <2>3 DEF PoolInv, Wired, Live, Closes
  <2>8. \A q \in Runs : using[q] \in made \cup {None}
    BY DEF PoolInv, Wired
  <2>9. \A q \in Runs \ {r} : Live(using[q])' <=> Live(using[q])
    BY <2>2, <2>6 DEF Live
  <2>10. OnePool'
    <3>1. ASSUME NEW q \in Runs, Session[q] = s, Live(using[q])' PROVE using'[q] = p
      <4>1. CASE q # r
        <5>1. Live(using[q]) /\ using[q] = pool[s] /\ using[q] # None
          BY <2>6, <2>7, <2>9, <3>1, <4>1 DEF Live
        <5> QED BY <2>1, <2>6, <4>1, <5>1
      <4> QED BY <2>6, <4>1
    <3>2. ASSUME NEW q \in Runs, NEW u \in Runs, Session[q] = Session[u], Live(using[q])', Live(using[u])'
          PROVE  using'[q] = using'[u]
      <4>1. CASE Session[q] = s
        BY <3>1, <3>2, <4>1
      <4>2. CASE Session[q] # s
        <5>1. q # r /\ u # r
          BY <3>2, <4>2
        <5>2. Live(using[q]) /\ Live(using[u])
          BY <2>9, <3>2, <5>1
        <5> QED BY <2>6, <3>2, <5>1, <5>2 DEF PoolInv, OnePool
      <4> QED BY <4>1, <4>2
    <3> QED BY <3>2 DEF OnePool
  <2>11. Registered' = Registered \cup {s}
    BY <1>0, <2>1, <2>6 DEF Registered, Sorts
  <2>12. \A t \in Registered : pool[t] \in made
    BY DEF PoolInv, Wired
  <2>13. ASSUME NEW t \in Registered', NEW u \in Registered', pool'[t] = pool'[u] PROVE t = u
    <3>1. CASE p = pool[s]
      <4>1. s \in Registered /\ pool' = pool
        BY <1>0, <2>1, <3>1 DEF Registered, Sorts
      <4> QED BY <2>11, <2>13, <4>1 DEF PoolInv, Wired
    <3>2. CASE p \notin made /\ pool[s] = None
      <4>1. s \notin Registered /\ \A x \in Registered : x \in Sessions \ {s} /\ pool'[x] = pool[x] /\ pool'[x] # p
        BY <2>6, <2>12, <3>2 DEF Registered
      <4> QED BY <2>6, <2>11, <2>13, <4>1 DEF PoolInv, Wired
    <3> QED BY <2>1, <3>1, <3>2
  <2>14. \A t \in Registered' : pool'[t] \in made' \ closed'
    BY <2>1, <2>2, <2>5, <2>6, <2>11 DEF PoolInv, Wired, Registered
  <2>15. \A q \in Runs : using'[q] # None => using'[q] \in made'
    BY <2>1, <2>6, <2>8
  <2>16. ASSUME NEW q \in Runs, pc'[q] \in Working PROVE using'[q] = pool'[Session[q]] /\ using'[q] # None
    <3>1. CASE q = r
      BY <1>0, <2>1, <2>6, <3>1
    <3>2. CASE q # r
      <4>1. pc[q] \in Working /\ q \in Tasks /\ Session[q] \in Sessions
        BY <1>0, <2>2, <2>16, <3>2, McpAssumption DEF Sorts
      <4>2. using[q] = pool[Session[q]] /\ using[q] # None
        BY <4>1 DEF PoolInv, Wired
      <4> QED BY <2>1, <2>6, <3>2, <4>1, <4>2
    <3> QED BY <3>1, <3>2
  <2>17. ASSUME NEW q \in Runs, using'[q] \notin closed' \cup {None}
         PROVE  using'[q] = pool'[Session[q]] \/ \E x \in Tasks : using'[q] \in todo'[x]
    <3>1. CASE q = r
      BY <2>6, <3>1
    <3>2. CASE q # r
      <4>1. using[q] = pool[Session[q]] /\ using[q] # None
        BY <2>2, <2>3, <2>6, <2>17, <3>2 DEF PoolInv, Wired, Closes
      <4>2. Session[q] \in Sessions
        BY McpAssumption
      <4> QED BY <2>1, <2>6, <3>2, <4>1, <4>2
    <3> QED BY <3>1, <3>2
  <2>18. closed' \subseteq made' /\ \A x \in Tasks : todo'[x] \subseteq made'
    BY <2>1, <2>2 DEF PoolInv, Wired
  <2>19. Wired'
    BY <2>18, <2>13, <2>14, <2>15, <2>16, <2>17 DEF Wired
  <2> QED BY <2>4, <2>10, <2>19 DEF PoolInv
<1> QED BY <1>1, <1>2, <1>3, <1>4, <1>5 DEF RunStep

\* An operation unregisters the pools it is going to close.
LEMMA OpPools ==
    ASSUME InOrder, CallInv, MoreSorts, PoolInv, NEW o \in Ops, OpStep(o), OneLine'
    PROVE  PoolInv'
<1>0. /\ o \in Tasks /\ o \notin Runs /\ o \notin Calls /\ Runs \subseteq Tasks /\ Sorts /\ ~Concurrent
      /\ None \notin Pools /\ Target[o] \subseteq Sessions /\ TaskInv(o)
  BY McpAssumption DEF Tasks, CallInv, InOrder
<1>1. CASE Finish(o)
  <2>1. /\ UNCHANGED <<pool, made, closed, using, todo, victim, left>>
        /\ pc' = [pc EXCEPT ![o] = "done"]
    BY <1>1 DEF Finish, coordinator, closings, Goto
  <2>2. /\ \A q \in Runs : pc'[q] \in Working => pc[q] \in Working
        /\ \A y \in Tasks : Active(y)' => Active(y)
    BY <1>0, <2>1 DEF Sorts, Working, Active
  <2> QED BY <2>1, <2>2, PoolsKept DEF PoolInv
<1>2. CASE Begin(o)
  <2>1. /\ UNCHANGED <<made, closed, using, victim, left>>
        /\ pc' = [pc EXCEPT ![o] = "closing"] /\ pc[o] = "idle"
        /\ todo' = [todo EXCEPT ![o] = {pool[s] : s \in Target[o]} \ {None}]
        /\ pool' = [s \in Sessions |-> IF s \in Target[o] THEN None ELSE pool[s]]
        /\ \A x \in Runs \cup Ops : ~Active(x)
    BY <1>0, <1>2 DEF Begin, Goto, At
  <2>2. \A y \in Tasks : ~Active(y)
    <3>1. \A k \in Calls : ~Active(k)
      BY <2>1, McpAssumption DEF PoolInv, OneLine, Active
    <3> QED BY <2>1, <3>1 DEF Tasks
  <2>3. \A x \in Tasks : ~Closes(x)
    BY <2>2 DEF CallInv, TaskInv, ClosesInPlace, Closes, Active
  <2>4. /\ \A y \in Tasks : Active(y)' => y = o
        /\ \A q \in Runs : pc'[q] \notin Working
        /\ \A x \in Tasks : Closes(x)' => x = o
    <3>1. \A y \in Tasks \ {o} : pc'[y] = pc[y] /\ todo'[y] = todo[y]
      BY <1>0, <2>1 DEF Sorts
    <3>2. \A q \in Runs : pc'[q] = pc[q] /\ pc[q] \in {"idle", "done"}
      BY <1>0, <2>1, <3>1 DEF Active
    <3> QED BY <2>1, <2>2, <2>3, <3>1, <3>2 DEF Active, Closes, Working
  <2>5. ClosesAlone'
    BY <2>1, <2>4 DEF PoolInv, ClosesAlone
  <2>6. \A s \in Registered' : s \in Registered /\ pool'[s] = pool[s]
    BY <1>0, <2>1 DEF Registered
  <2>7. \A x \in Tasks : todo'[x] \subseteq made'
    <3>1. \A s \in Registered : pool[s] \in made
      BY DEF PoolInv, Wired
    <3>2. {pool[s] : s \in Target[o]} \ {None} \subseteq made
      BY <1>0, <3>1 DEF Registered
    <3> QED BY <1>0, <2>1, <3>2 DEF PoolInv, Wired, MoreSorts
  <2>8. ASSUME NEW r \in Runs, using'[r] \notin closed' \cup {None}
        PROVE  using'[r] = pool'[Session[r]] \/ \E x \in Tasks : using'[r] \in todo'[x]
    <3>1. Session[r] \in Sessions
      BY McpAssumption
    <3>2. using[r] = pool[Session[r]] /\ using[r] # None
      BY <2>1, <2>3, <2>8 DEF PoolInv, Wired, Closes
    <3>3. CASE Session[r] \in Target[o]
      <4>1. todo'[o] = {pool[s] : s \in Target[o]} \ {None}
        BY <1>0, <2>1 DEF MoreSorts
      <4>2. using[r] \in todo'[o]
        BY <3>2, <3>3, <4>1
      <4> QED BY <1>0, <2>1, <4>2
    <3>4. CASE Session[r] \notin Target[o]
      BY <2>1, <3>1, <3>2, <3>4
    <3> QED BY <3>3, <3>4
  <2>9. Wired'
    <3>1. /\ \A s, t \in Registered' : pool'[s] = pool'[t] => s = t
          /\ \A s \in Registered' : pool'[s] \in made' \ closed'
      BY <2>1, <2>6 DEF PoolInv, Wired
    <3>2. closed' \subseteq made' /\ \A r \in Runs : using'[r] # None => using'[r] \in made'
      BY <2>1 DEF PoolInv, Wired
    <3> QED BY <2>4, <2>7, <2>8, <3>1, <3>2 DEF Wired
  <2>10. OnePool'
    BY <2>1 DEF PoolInv, OnePool, Live
  <2> QED BY <2>5, <2>9, <2>10 DEF PoolInv
<1> QED BY <1>1, <1>2 DEF OpStep

\* Calls, and tasks that open connections, take the pools as they are.
LEMMA UserPools ==
    ASSUME InOrder, CallInv, PoolInv, OneLine', NEW x \in Tasks,
           (x \in Calls /\ CallStep(x)) \/ (x \notin Ops /\ Opening(x))
    PROVE  PoolInv'
<1>0. Sorts /\ Runs \subseteq Tasks /\ Calls \subseteq Tasks
  BY DEF CallInv, Tasks
<1>1. /\ UNCHANGED <<pool, made, closed, using, todo, victim, left>>
      /\ \E stage : pc' = [pc EXCEPT ![x] = stage]
  BY DEF CallStep, Call, Invoke, Answered, CallFails, Leave, coordinator, closings, Goto,
         Opening, Reuse, Open, Swap, Swapped, Connected, Refused, Listed, Got, Connect
<1>2. pc[x] \in Working \/ (x \in Calls /\ pc[RunOf[x]] = "executing")
  BY DEF CallStep, Call, Invoke, Answered, CallFails, At, Working,
         Opening, Reuse, Open, Swap, Seeks, Swapped, Connected, Refused, Listed
<1>3. \A y \in Tasks : ~Closes(y)
  <2>1. CASE pc[x] \in Working
    BY <2>1, NobodyCloses DEF PoolInv
  <2>2. CASE x \in Calls /\ pc[RunOf[x]] = "executing"
    <3>1. RunOf[x] \in Tasks /\ pc[RunOf[x]] \in Working
      BY <1>0, <2>2, McpAssumption DEF Working
    <3> QED BY <3>1, NobodyCloses DEF PoolInv
  <2> QED BY <1>2, <2>1, <2>2
<1>4. \A q \in Runs : pc'[q] \in Working => pc[q] \in Working
  BY <1>0, <1>1, <1>2, McpAssumption DEF Sorts
<1> QED BY <1>1, <1>3, <1>4, PoolsKept DEF PoolInv

\* Pools are closed by one task.
LEMMA ClosingPools ==
    ASSUME InOrder, CallInv, MoreSorts, PoolInv, NEW x \in Tasks, Closing(x), OneLine'
    PROVE  PoolInv'
<1>0. Sorts /\ None \notin Pools /\ Runs \subseteq Tasks
  BY McpAssumption DEF CallInv, Tasks
<1>1. pc' = pc /\ UNCHANGED <<made, using>>
  BY DEF Closing, ClosePool, ExitConn, Exited, Drained, coordinator
<1>2. Closes(x) /\ x \in Tasks
  BY DEF Closing, ClosePool, ExitConn, Exited, Drained, Closes
<1>3. \A y \in Tasks : Active(y) => y = x
  BY <1>2 DEF PoolInv, ClosesAlone
<1>4. pc[x] \notin Working /\ Active(x)
  BY <1>2 DEF CallInv, TaskInv, ClosesInPlace, Closes, Working, Active
<1>5. \A q \in Runs : pc'[q] \notin Working
  <2> SUFFICES ASSUME NEW q \in Runs, pc[q] \in Working PROVE FALSE
    BY <1>1
  <2>1. Active(q)
    BY DEF Active, Working
  <2> QED BY <1>0, <1>3, <1>4, <2>1
<1>6. \A y \in Tasks \ {x} : ~Closes(y)
  BY <1>2, <1>4 DEF PoolInv, ClosesAlone
<1>7. CASE ExitConn(x) \/ Exited(x) \/ Drained(x)
  <2>1. /\ UNCHANGED <<pool, closed, todo>>
        /\ \A y \in Tasks \ {x} : victim'[y] = victim[y] /\ left'[y] = left[y]
        /\ \/ victim'[x] = victim[x] /\ victim[x] # None /\ left'[x] \subseteq left[x]
           \/ victim'[x] = None /\ left'[x] = {}
    BY <1>0, <1>7 DEF ExitConn, Exited, Drained, coordinator, closings, MoreSorts, Sorts
  <2>2. Registered' = Registered /\ \A y \in Tasks : Closes(y)' => Closes(y)
    BY <2>1 DEF Registered, Closes
  <2>3. ClosesAlone'
    <3>1. \A y \in Tasks : victim'[y] # None => victim'[y] = victim[y]
      BY <2>1
    <3>2. \A y \in Tasks : left'[y] # {} => victim'[y] # None
      BY <2>1 DEF PoolInv, ClosesAlone
    <3>3. \A y \in Tasks : Active(y)' <=> Active(y)
      BY <1>1 DEF Active
    <3> QED BY <1>1, <2>1, <2>2, <3>1, <3>2, <3>3 DEF PoolInv, ClosesAlone
  <2>4. Wired'
    BY <1>1, <1>5, <2>1, <2>2 DEF PoolInv, Wired
  <2>5. OnePool'
    <3>1. \A q \in Runs : Live(using[q])' => Live(using[q])
      BY <1>1, <2>1 DEF Live
    <3> QED BY <1>1, <3>1 DEF PoolInv, OnePool
  <2> QED BY <2>3, <2>4, <2>5 DEF PoolInv
<1>8. CASE ClosePool(x)
  <2>1. PICK p \in todo[x] :
           /\ pool' = [s \in Sessions |-> IF pool[s] = p THEN None ELSE pool[s]]
           /\ closed' = closed \cup {p}
           /\ IF p \in closed THEN UNCHANGED <<victim, left>>
              ELSE victim' = [victim EXCEPT ![x] = p] /\ left' = [left EXCEPT ![x] = Entries(p)]
           /\ todo' = [todo EXCEPT ![x] = @ \ {p}]
    BY <1>8 DEF ClosePool
  <2>2. victim[x] = None /\ p \in made /\ p # None
    BY <1>0, <1>8 DEF ClosePool, PoolInv, Wired, MoreSorts
  <2>3. /\ \A y \in Tasks \ {x} : victim'[y] = victim[y] /\ left'[y] = left[y] /\ todo'[y] = todo[y]
        /\ todo'[x] = todo[x] \ {p}
        /\ IF p \in closed THEN victim'[x] = victim[x] /\ left'[x] = left[x] ELSE victim'[x] = p
    BY <2>1 DEF MoreSorts
  <2>4. \A s \in Registered' : s \in Registered /\ pool'[s] = pool[s] /\ pool[s] # p
    BY <2>1 DEF Registered
  <2>5. ClosesAlone'
    <3>1. \A y \in Tasks : Closes(y)' => y = x
      BY <1>6, <2>3 DEF Closes
    <3>2. \A y \in Tasks : Active(y)' <=> Active(y)
      BY <1>1 DEF Active
    <3>3. \A y \in Tasks : left'[y] # {} => victim'[y] # None
      BY <2>2, <2>3 DEF PoolInv, ClosesAlone
    <3>4. \A y \in Tasks : victim'[y] # None => victim'[y] \in closed'
      BY <2>1, <2>3 DEF PoolInv, ClosesAlone
    <3> QED BY <1>3, <3>1, <3>2, <3>3, <3>4 DEF ClosesAlone
  <2>6. Wired'
    <3>1. closed' \subseteq made' /\ \A y \in Tasks : todo'[y] \subseteq made'
      BY <1>1, <2>1, <2>2, <2>3 DEF PoolInv, Wired
    <3>2. \A s \in Registered' : pool'[s] \in made' \ closed'
      BY <1>1, <2>1, <2>4 DEF PoolInv, Wired
    <3>3. ASSUME NEW r \in Runs, using'[r] \notin closed' \cup {None}
          PROVE  using'[r] = pool'[Session[r]] \/ \E y \in Tasks : using'[r] \in todo'[y]
      <4>1. using[r] # p /\ using[r] \notin closed \cup {None}
        BY <1>1, <2>1, <3>3
      <4>2. CASE using[r] = pool[Session[r]]
        BY <1>1, <2>1, <4>1, <4>2, McpAssumption
      <4>3. CASE \E y \in Tasks : using[r] \in todo[y]
        BY <1>1, <2>3, <4>1, <4>3
      <4> QED BY <4>1, <4>2, <4>3 DEF PoolInv, Wired
    <3> QED BY <1>1, <1>5, <2>4, <3>1, <3>2, <3>3 DEF PoolInv, Wired
  <2>7. OnePool'
    <3>1. \A q \in Runs : Live(using[q])' => Live(using[q])
      <4> SUFFICES ASSUME NEW q \in Runs, Live(using[q])' PROVE Live(using[q])
        OBVIOUS
      <4>1. CASE using[q] \notin closed'
        BY <1>1, <2>1, <4>1 DEF Live
      <4>2. CASE \E y \in Tasks : victim'[y] = using[q]
        BY <1>1, <2>1, <2>3, <4>2 DEF Live
      <4> QED BY <1>1, <4>1, <4>2 DEF Live
    <3> QED BY <1>1, <3>1 DEF PoolInv, OnePool
  <2> QED BY <2>5, <2>6, <2>7 DEF PoolInv
<1> QED BY <1>7, <1>8 DEF Closing

\* Whatever is done in order, pools are closed by one task alone, and a session
\* has one that is not drained.
LEMMA PoolStep ==
    ASSUME InOrder, CallInv, MoreSorts, PoolInv, NEW x \in Tasks, Step(x)
    PROVE  PoolInv'
<1>1. OneLine'
  BY LineStep DEF PoolInv
<1> QED BY <1>1, RunPools, OpPools, UserPools, ClosingPools DEF Step

\* The tasks that use connections use those of one pool, which is not closed.
LEMMA SharedPool ==
    ASSUME CallInv, PoolInv, NEW x \in Users, pc[x] \in Working
    PROVE  /\ PoolOf(x) \in Pools \ closed
           /\ \A y \in Users : pc[y] \in Working => PoolOf(y) = PoolOf(x)
           /\ \E r \in Runs : pc[r] \in Working /\ PoolOf(x) = using[r]
<1> DEFINE Of(y) == IF y \in Calls THEN RunOf[y] ELSE y
<1>1. ASSUME NEW y \in Users, pc[y] \in Working
      PROVE  /\ Of(y) \in Runs /\ pc[Of(y)] \in Working /\ Active(Of(y))
             /\ PoolOf(y) = using[Of(y)] /\ using[Of(y)] = pool[Session[Of(y)]] /\ using[Of(y)] # None
  <2>1. Of(y) \in Runs /\ pc[Of(y)] \in Working
    <3>1. CASE y \in Calls
      <4>1. Active(y)
        BY <1>1 DEF Active, Working
      <4> QED BY <3>1, <4>1, McpAssumption DEF PoolInv, OneLine, Working
    <3>2. CASE y \notin Calls
      BY <1>1, <3>2 DEF Users
    <3> QED BY <3>1, <3>2
  <2>2. PoolOf(y) = using[Of(y)]
    BY DEF PoolOf
  <2> HIDE DEF Of
  <2>3. Active(Of(y))
    BY <2>1 DEF Active, Working
  <2> QED BY <2>1, <2>2, <2>3 DEF PoolInv, Wired
<1>2. \A y \in Users : pc[y] \in Working => Session[Of(y)] = Session[Of(x)]
  <2> SUFFICES ASSUME NEW y \in Users, pc[y] \in Working PROVE Session[Of(y)] = Session[Of(x)]
    OBVIOUS
  <2>1. Of(x) \in Runs /\ Active(Of(x)) /\ Of(y) \in Runs /\ Active(Of(y))
    BY <1>1
  <2> HIDE DEF Of
  <2> QED BY <2>1 DEF PoolInv, OneLine
<1> HIDE DEF Of
<1>3. PoolOf(x) \in Pools \ closed
  <2>1. Of(x) \in Runs /\ PoolOf(x) = pool[Session[Of(x)]] /\ PoolOf(x) # None /\ Session[Of(x)] \in Sessions
    BY <1>1, McpAssumption
  <2>2. Session[Of(x)] \in Registered
    BY <2>1 DEF Registered
  <2> QED BY <2>1, <2>2 DEF CallInv, Sorts, PoolInv, Wired
<1> QED BY <1>1, <1>2, <1>3

\* A task that links, and whose part of the state stays.
LEMMA OthersLink ==
    ASSUME NEW y \in Users, Links(y), pc'[y] = pc[y],
           pc[y] \in Linking =>
              /\ held'[y] = held[y] /\ wants'[y] = wants[y] /\ conn'[held[y]] = conn[held[y]]
              /\ PoolOf(y)' = PoolOf(y) /\ opener'[PoolOf(y)] = opener[PoolOf(y)]
              /\ entry'[PoolOf(y)] = entry[PoolOf(y)]
    PROVE  Links(y)'
<1>1. CASE pc[y] \notin Linking
  BY <1>1 DEF Links
<1>2. CASE pc[y] \in Linking
  <2>1. Aim(y)' = Aim(y)
    BY <1>2, AimStays
  <2>2. Found(y)' = Found(y)
    BY <1>2, <2>1 DEF Found
  <2> QED BY <1>2, <2>2 DEF Links
<1> QED BY <1>1, <1>2

\* A step that leaves connections and entries, and who opens them.
LEMMA LinksKept ==
    ASSUME CallInv, MoreSorts, PoolInv, LinkInv, UNCHANGED <<entry, conn, opener, left, closed, victim>>,
           NEW x \in Tasks, pc[x] \notin Linking,
           \A y \in Tasks \ {x} : pc'[y] = pc[y] /\ held'[y] = held[y] /\ wants'[y] = wants[y],
           pc'[x] \notin Linking,
           \A r \in Runs : pc[r] \in Working => using'[r] = using[r]
    PROVE  LinkInv'
<1>1. Kept'
  <2>1. \A y \in Users : pc[y] = "listing" => pc'[y] = "listing" /\ held'[y] = held[y]
    BY DEF Linking, Users, Tasks
  <2> QED BY <2>1 DEF LinkInv, Kept
<1>2. ASSUME NEW y \in Users PROVE Links(y)'
  <2>1. CASE y = x
    BY <2>1 DEF Links
  <2>2. CASE y # x /\ pc[y] \notin Linking
    BY <2>2 DEF Links, Users, Tasks
  <2>3. CASE y # x /\ pc[y] \in Linking
    <3>1. pc[y] \in Working /\ y \in Tasks
      BY <2>3 DEF Linking, Working, Users, Tasks
    <3>2. PICK r \in Runs : r = (IF y \in Calls THEN RunOf[y] ELSE y) /\ pc[r] \in Working
      <4>1. CASE y \in Calls
        <5>1. Active(y)
          BY <3>1 DEF Active, Working
        <5> QED BY <4>1, <5>1, McpAssumption DEF PoolInv, OneLine, Working
      <4>2. CASE y \notin Calls
        BY <3>1, <4>2 DEF Users
      <4> QED BY <4>1, <4>2
    <3>3. PoolOf(y)' = PoolOf(y)
      BY <3>2 DEF PoolOf
    <3> QED BY <2>3, <3>1, <3>3, OthersLink DEF LinkInv
  <2> QED BY <2>1, <2>2, <2>3
<1> QED BY <1>1, <1>2 DEF LinkInv

\* Whoever closes pools finds nobody linking, and leaves no open connection behind.
LEMMA LinksClosing ==
    ASSUME CallInv, MoreSorts, PoolInv, LinkInv, NEW x \in Tasks, Closing(x)
    PROVE  LinkInv'
<1>0. Sorts /\ None \notin Pools /\ None \notin Conns
  BY McpAssumption DEF CallInv
<1>1. pc' = pc /\ Closes(x)
  BY DEF Closing, ClosePool, ExitConn, Exited, Drained, Closes
<1>2. \A y \in Tasks : pc[y] \notin Working
  BY <1>1, NobodyCloses DEF PoolInv
<1>3. \A y \in Users : Links(y)' /\ pc[y] # "listing"
  BY <1>1, <1>2 DEF Links, Users, Tasks, Working, Linking
<1>4. \A y \in Tasks \ {x} : left[y] = {}
  <2> SUFFICES ASSUME NEW y \in Tasks \ {x}, left[y] # {} PROVE FALSE
    OBVIOUS
  <2>1. Closes(y) /\ Active(x)
    BY <1>1 DEF PoolInv, ClosesAlone, Closes, CallInv, TaskInv, ClosesInPlace, Active
  <2> QED BY <2>1 DEF PoolInv, ClosesAlone
<1>5. CASE ClosePool(x)
  <2>1. PICK p \in todo[x] :
           /\ closed' = closed \cup {p}
           /\ IF p \in closed THEN UNCHANGED <<victim, left>>
              ELSE victim' = [victim EXCEPT ![x] = p] /\ left' = [left EXCEPT ![x] = Entries(p)]
    BY <1>5 DEF ClosePool
  <2>2. UNCHANGED <<entry, conn>> /\ victim[x] = None /\ left[x] = {} /\ p \in Pools
    BY <1>5 DEF ClosePool, PoolInv, ClosesAlone, MoreSorts
  <2>3. CASE p \in closed
    <3>1. closed' = closed /\ UNCHANGED <<victim, left>>
      BY <2>1, <2>3
    <3> QED BY <1>1, <1>3, <2>2, <3>1 DEF LinkInv, Kept
  <2>4. CASE p \notin closed
    <3>1. victim'[x] = p /\ left'[x] = Entries(p)
      BY <2>1, <2>4 DEF MoreSorts
    <3>2. \A q \in closed, v \in Servers : entry[q][v] # None => conn[entry[q][v]] # "open"
      BY <1>4, <2>2 DEF LinkInv, Kept
    <3>3. \A v \in Servers : entry[p][v] # None => entry[p][v] \in Entries(p)
      BY DEF Entries
    <3>4. ASSUME NEW q \in closed', NEW v \in Servers, entry'[q][v] # None, conn'[entry'[q][v]] = "open"
          PROVE  \E y \in Tasks : victim'[y] = q /\ entry'[q][v] \in left'[y]
      BY <2>1, <2>2, <3>1, <3>2, <3>3, <3>4
    <3>5. ASSUME NEW c \in Conns, conn'[c] = "open"
          PROVE  \/ \E q \in Pools \ closed', v \in Servers : entry'[q][v] = c
                 \/ \E y \in Tasks : c \in left'[y]
      <4>1. PICK q \in Pools \ closed, v \in Servers : entry[q][v] = c
        BY <1>3, <1>4, <2>2, <3>5 DEF LinkInv, Kept
      <4>2. CASE q = p
        BY <1>0, <3>1, <3>3, <4>1, <4>2
      <4>3. CASE q # p
        BY <2>1, <2>2, <4>1, <4>3
      <4> QED BY <4>2, <4>3
    <3> QED BY <1>3, <2>2, <3>4, <3>5 DEF LinkInv, Kept
  <2> QED BY <2>3, <2>4
<1>6. CASE ExitConn(x)
  <2>1. PICK c \in left[x] : left' = [left EXCEPT ![x] = @ \ {c}] /\ Exits(x, c)
    BY <1>6 DEF ExitConn
  <2>2. UNCHANGED <<entry, victim, closed>> /\ c \in Conns
    BY <1>6 DEF ExitConn, MoreSorts
  <2>3. /\ conn'[c] # "open" /\ conn' \in [Conns -> {"unused", "opening", "open", "exiting", "closed"}]
        /\ \A d \in Conns \ {c} : conn'[d] = conn[d]
        /\ conn[c] \in {"open", "exiting", "closed"} => conn'[c] \in {"open", "exiting", "closed"}
    BY <2>1, <2>2 DEF Exits, MoreSorts
  <2>4. \A y \in Tasks : left[y] \ {c} \subseteq left'[y]
    BY <2>1 DEF MoreSorts
  <2>5. \A p \in Pools, v \in Servers : entry[p][v] \in Conns \cup {None}
    BY <1>0 DEF Sorts
  <2>6. Kept'
    <3>1. \A p \in Pools, v \in Servers : entry'[p][v] # None => conn'[entry'[p][v]] \in {"open", "exiting", "closed"}
      BY <2>2, <2>3, <2>5 DEF LinkInv, Kept
    <3>2. ASSUME NEW p \in closed', NEW v \in Servers, entry'[p][v] # None, conn'[entry'[p][v]] = "open"
          PROVE  \E y \in Tasks : victim'[y] = p /\ entry'[p][v] \in left'[y]
      <4>1. p \in Pools /\ p \in closed /\ entry[p][v] # c /\ conn[entry[p][v]] = "open" /\ entry[p][v] # None
        BY <2>2, <2>3, <2>5, <3>2 DEF MoreSorts
      <4> QED BY <2>2, <2>4, <4>1 DEF LinkInv, Kept
    <3>3. ASSUME NEW d \in Conns, conn'[d] = "open"
          PROVE  \/ \E q \in Pools \ closed', v \in Servers : entry'[q][v] = d
                 \/ \E y \in Tasks : d \in left'[y]
      <4>1. d # c /\ conn[d] = "open"
        BY <2>3, <3>3
      <4> QED BY <1>3, <2>2, <2>4, <4>1 DEF LinkInv, Kept
    <3> QED BY <3>1, <3>2, <3>3 DEF Kept
  <2> QED BY <1>3, <2>6 DEF LinkInv
<1>7. CASE Exited(x)
  <2>1. /\ conn' = [conn EXCEPT ![held[x]] = "closed"] /\ held[x] \in Conns
        /\ UNCHANGED <<entry, victim, closed, left>>
    BY <1>7 DEF Exited, closings, MoreSorts
  <2>2. /\ conn'[held[x]] = "closed"
        /\ \A d \in Conns \ {held[x]} : conn'[d] = conn[d]
        /\ \A p \in Pools, v \in Servers : entry[p][v] \in Conns \cup {None}
    BY <1>0, <2>1 DEF MoreSorts, Sorts
  <2>3. Kept'
    <3>1. \A p \in Pools, v \in Servers : entry'[p][v] # None => conn'[entry'[p][v]] \in {"open", "exiting", "closed"}
      BY <2>1, <2>2 DEF LinkInv, Kept
    <3>2. ASSUME NEW p \in closed', NEW v \in Servers, entry'[p][v] # None, conn'[entry'[p][v]] = "open"
          PROVE  \E y \in Tasks : victim'[y] = p /\ entry'[p][v] \in left'[y]
      <4>1. p \in Pools /\ p \in closed /\ conn[entry[p][v]] = "open" /\ entry[p][v] # None
        BY <2>1, <2>2, <3>2 DEF MoreSorts
      <4> QED BY <2>1, <4>1 DEF LinkInv, Kept
    <3>3. ASSUME NEW d \in Conns, conn'[d] = "open"
          PROVE  \/ \E q \in Pools \ closed', v \in Servers : entry'[q][v] = d
                 \/ \E y \in Tasks : d \in left'[y]
      <4>1. conn[d] = "open"
        BY <2>2, <3>3
      <4> QED BY <1>3, <2>1, <4>1 DEF LinkInv, Kept
    <3> QED BY <3>1, <3>2, <3>3 DEF Kept
  <2> QED BY <1>3, <2>3 DEF LinkInv
<1>8. CASE Drained(x)
  <2>1. /\ victim[x] \in closed /\ left[x] = {} /\ victim[x] \in Pools
        /\ UNCHANGED <<conn, closed, left>>
        /\ entry' = [entry EXCEPT ![victim[x]] = [v \in Servers |-> None]]
    BY <1>8 DEF Drained, PoolInv, ClosesAlone, MoreSorts
  <2>2. /\ \A v \in Servers : entry'[victim[x]][v] = None
        /\ \A p \in Pools \ {victim[x]} : entry'[p] = entry[p]
    BY <1>0, <2>1 DEF Sorts
  <2>3. Kept'
    <3>1. \A p \in Pools, v \in Servers : entry'[p][v] # None => conn'[entry'[p][v]] \in {"open", "exiting", "closed"}
      BY <2>1, <2>2 DEF LinkInv, Kept
    <3>2. ASSUME NEW p \in closed', NEW v \in Servers, entry'[p][v] # None, conn'[entry'[p][v]] = "open"
          PROVE  FALSE
      <4>1. p \in Pools /\ p \in closed /\ entry'[p][v] = entry[p][v]
        BY <2>1, <2>2, <3>2 DEF MoreSorts
      <4> QED BY <1>4, <2>1, <3>2, <4>1 DEF LinkInv, Kept
    <3>3. ASSUME NEW d \in Conns, conn'[d] = "open"
          PROVE  \E q \in Pools \ closed', v \in Servers : entry'[q][v] = d
      <4>1. PICK q \in Pools \ closed, v \in Servers : entry[q][v] = d
        BY <1>3, <1>4, <2>1, <3>3 DEF LinkInv, Kept
      <4> QED BY <2>1, <2>2, <4>1
    <3> QED BY <3>1, <3>2, <3>3 DEF Kept
  <2> QED BY <1>3, <2>3 DEF LinkInv
<1> QED BY <1>5, <1>6, <1>7, <1>8 DEF Closing

\* A task that opens, swaps or finds a connection does so alone in the pool, and
\* leaves every open connection in its place.
LEMMA LinksOpening ==
    ASSUME CallInv, MoreSorts, stale \subseteq Conns, PoolInv, LinkInv, NEW x \in Tasks, x \notin Ops, Opening(x)
    PROVE  LinkInv'
<1>0. Sorts /\ None \notin Pools /\ None \notin Conns /\ None \notin Tasks /\ x \in Users /\ Users \subseteq Tasks
  BY McpAssumption DEF CallInv, Tasks, Users
<1>1. pc[x] \in Working
  BY DEF Working, Opening, Reuse, Open, Swap, Seeks, Swapped, Connected, Refused, Listed, At
<1> DEFINE P == PoolOf(x)
           a == Aim(x)
<1>2. P \in Pools \ closed /\ \A y \in Users : pc[y] \in Working => PoolOf(y) = P
  BY <1>0, <1>1, SharedPool
<1>3. \A y \in Users \ {x} : pc[y] \notin Linking
  <2> SUFFICES ASSUME NEW y \in Users \ {x}, pc[y] \in Linking PROVE FALSE
    OBVIOUS
  <2>1. opener[P] = y
    BY <1>2 DEF LinkInv, Links, Working, Linking
  <2>2. CASE pc[x] \in Linking
    BY <1>0, <2>1, <2>2 DEF LinkInv, Links
  <2>3. CASE pc[x] \notin Linking
    <3>1. opener[P] = None
      BY <2>3 DEF Opening, Reuse, Open, Swap, Seeks, Enters, Swapped, Connected, Refused, Listed, At, Linking
    <3> QED BY <1>0, <2>1, <3>1
  <2> QED BY <2>2, <2>3
<1>4. \A y \in Tasks : left[y] = {} /\ victim[y] = None
  BY <1>1, NobodyCloses DEF PoolInv, ClosesAlone, Closes
<1>5. UNCHANGED <<victim, left, closed, using>> /\ P' = P
  BY DEF Opening, Reuse, Open, Swap, Swapped, Connected, Refused, Listed, coordinator, closings, PoolOf
<1>6. \A y \in Tasks \ {x} : pc'[y] = pc[y]
  <2>1. \E stage : pc' = [pc EXCEPT ![x] = stage]
    BY DEF Opening, Reuse, Open, Swap, Swapped, Connected, Refused, Listed, Got, Connect, Goto
  <2> QED BY <1>0, <2>1 DEF Sorts
<1>7. \A y \in Users \ {x} : Links(y)' /\ pc[y] # "listing"
  BY <1>0, <1>3, <1>6 DEF Links, Linking
<1>8. wants[x] # {} /\ a \in Servers
  <2>1. wants[x] # {}
    <3>1. CASE pc[x] \in Linking
      BY <1>0, <3>1 DEF LinkInv, Links
    <3>2. CASE pc[x] \notin Linking
      BY <3>2 DEF Opening, Reuse, Open, Swap, Seeks, Swapped, Connected, Refused, Listed, At, Linking
    <3> QED BY <3>1, <3>2
  <2> QED BY <1>0, <2>1, AimIn DEF Sorts
<1>9. Found(x) = entry[P][a] /\ Found(x) \in Conns \cup {None}
  BY <1>0, <1>2, <1>8 DEF Found, Sorts
<1>10. /\ \A p \in Pools, v \in Servers : entry[p][v] \in Conns \cup {None}
       /\ conn \in [Conns -> {"unused", "opening", "open", "exiting", "closed"}]
  BY <1>0 DEF Sorts, MoreSorts
<1>11. \A p \in closed, v \in Servers : entry[p][v] # None => conn[entry[p][v]] # "open"
  BY <1>4 DEF LinkInv, Kept
<1>12. \A c \in Conns : conn[c] = "open" /\ (pc[x] = "listing" => held[x] # c) =>
          \E p \in Pools \ closed, v \in Servers : entry[p][v] = c
  BY <1>4, <1>7 DEF LinkInv, Kept
<1>13. \A p \in Pools, v \in Servers : entry[p][v] # None => conn[entry[p][v]] \in {"open", "exiting", "closed"}
  BY DEF LinkInv, Kept
<1>14. \A p \in closed : p \in Pools
  BY DEF MoreSorts
<1>15. Unused # {} => NewConn \in Conns /\ conn[NewConn] = "unused"
  BY DEF Unused, NewConn
\* It is enough that the entries and the connections are in their places.
<1>16. ASSUME \A p \in Pools, v \in Servers : entry'[p][v] # None => conn'[entry'[p][v]] \in {"open", "exiting", "closed"},
              \A p \in closed, v \in Servers : entry'[p][v] # None => conn'[entry'[p][v]] # "open",
              \A c \in Conns : conn'[c] = "open" =>
                 \/ \E p \in Pools \ closed, v \in Servers : entry'[p][v] = c
                 \/ pc'[x] = "listing" /\ held'[x] = c,
              Links(x)'
       PROVE  LinkInv'
  <2>1. Kept'
    BY <1>0, <1>5, <1>16 DEF Kept
  <2> QED BY <1>7, <1>16, <2>1 DEF LinkInv
<1> HIDE DEF P, a
<1>17. CASE Reuse(x)
  <2>1. UNCHANGED <<entry, conn>> /\ pc[x] = "wanting"
        /\ pc' \in {[pc EXCEPT ![x] = "ready"], [pc EXCEPT ![x] = "wanting"]}
    BY <1>17 DEF Reuse, Got, Goto, Seeks, At
  <2>2. pc'[x] \notin Linking
    BY <1>0, <2>1 DEF Sorts, Linking
  <2>3. Links(x)'
    BY <2>2 DEF Links
  <2> QED BY <1>11, <1>12, <1>13, <1>16, <2>1, <2>3
<1>18. CASE Open(x) \/ (Swap(x) /\ conn[Found(x)] # "open")
  <2> DEFINE n == NewConn
  <2>1. /\ n \in Conns /\ conn[n] = "unused" /\ pc[x] = "wanting"
        /\ conn' = [conn EXCEPT ![n] = "opening"]
        /\ held' = [held EXCEPT ![x] = n]
        /\ opener' = [opener EXCEPT ![P] = x]
        /\ pc' = [pc EXCEPT ![x] = "opening"]
        /\ wants' = wants
    BY <1>15, <1>18 DEF Open, Swap, Connect, Goto, Seeks, At, P
  <2>2. \/ entry' = entry /\ entry[P][a] = None
        \/ entry' = [entry EXCEPT ![P][a] = None] /\ conn[entry[P][a]] # "open"
    BY <1>9, <1>18 DEF Open, Swap, P, a
  <2> HIDE DEF n
  <2>3. /\ entry'[P][a] = None
        /\ \A p \in Pools, v \in Servers : entry'[p][v] = entry[p][v] \/ (entry'[p][v] = None /\ p = P /\ v = a)
    BY <1>0, <1>2, <1>8, <2>2 DEF Sorts
  <2>4. /\ conn'[n] = "opening" /\ \A c \in Conns \ {n} : conn'[c] = conn[c]
        /\ pc'[x] = "opening" /\ held'[x] = n /\ opener'[P] = x
    BY <1>0, <1>2, <1>10, <2>1 DEF Sorts, MoreSorts
  <2>5. \A p \in Pools, v \in Servers : entry[p][v] # n
    BY <1>0, <1>13, <2>1
  <2>6. Links(x)'
    <3>1. Aim(x)' = Aim(x)
      BY <2>1, AimStays
    <3>2. Found(x)' = None
      BY <1>5, <2>3, <3>1 DEF Found, P, a
    <3> QED BY <1>5, <1>8, <2>1, <2>4, <3>2 DEF Links, P
  <2>7. \A c \in Conns : conn'[c] = "open" => conn[c] = "open"
    BY <2>4
  <2>8. \A c \in Conns : conn'[c] = "open" => \E p \in Pools \ closed, v \in Servers : entry'[p][v] = c
    <3> SUFFICES ASSUME NEW c \in Conns, conn'[c] = "open"
                 PROVE  \E p \in Pools \ closed, v \in Servers : entry'[p][v] = c
      OBVIOUS
    <3>1. PICK p \in Pools \ closed, v \in Servers : entry[p][v] = c
      BY <1>12, <2>1, <2>7
    <3>2. c # None /\ conn[c] = "open"
      BY <1>0, <2>7
    <3>3. entry'[p][v] = c
      BY <2>2, <2>3, <3>1, <3>2
    <3> QED BY <3>1, <3>3
  <2>9. \A p \in Pools, v \in Servers : entry'[p][v] # None => entry'[p][v] = entry[p][v] /\ conn'[entry[p][v]] = conn[entry[p][v]]
    BY <1>10, <2>3, <2>4, <2>5
  <2>10. \A p \in Pools, v \in Servers : entry'[p][v] # None => conn'[entry'[p][v]] \in {"open", "exiting", "closed"}
    BY <1>13, <2>9
  <2>11. \A p \in closed, v \in Servers : entry'[p][v] # None => conn'[entry'[p][v]] # "open"
    BY <1>11, <1>14, <2>9
  <2> QED BY <1>16, <2>6, <2>8, <2>10, <2>11
<1>19. CASE Swap(x) /\ conn[Found(x)] = "open"
  <2>1. PICK c \in Conns : c = Found(x)
    BY <1>19 DEF Swap
  <2>2. /\ pc[x] = "wanting" /\ entry[P][a] = c
        /\ conn' = [conn EXCEPT ![c] = "exiting"] /\ held' = [held EXCEPT ![x] = c]
        /\ opener' = [opener EXCEPT ![P] = x] /\ pc' = [pc EXCEPT ![x] = "swapping"]
        /\ UNCHANGED <<entry, wants>>
    BY <1>9, <1>19, <2>1 DEF Swap, Exits, Goto, Seeks, At, P
  <2>3. /\ conn'[c] = "exiting" /\ \A d \in Conns \ {c} : conn'[d] = conn[d]
        /\ pc'[x] = "swapping" /\ held'[x] = c /\ opener'[P] = x
    BY <1>0, <1>2, <1>10, <2>2 DEF Sorts, MoreSorts
  <2>4. Links(x)'
    <3>1. Aim(x)' = Aim(x)
      BY <2>2, AimStays
    <3>2. Found(x)' = c
      BY <1>5, <2>2, <3>1 DEF Found, P, a
    <3> QED BY <1>5, <1>8, <2>2, <2>3, <3>2 DEF Links, P
  <2>5. \A p \in Pools, v \in Servers : entry'[p][v] # None => conn'[entry'[p][v]] \in {"open", "exiting", "closed"}
    BY <1>10, <1>13, <2>2, <2>3
  <2>6. \A p \in closed, v \in Servers : entry'[p][v] # None => conn'[entry'[p][v]] # "open"
    BY <1>10, <1>11, <1>14, <2>2, <2>3
  <2>7. \A d \in Conns : conn'[d] = "open" => \E p \in Pools \ closed, v \in Servers : entry'[p][v] = d
    BY <1>12, <2>2, <2>3
  <2> QED BY <1>16, <2>4, <2>5, <2>6, <2>7
<1>20. CASE Swapped(x)
  <2> DEFINE n == NewConn
  <2>1. /\ n \in Conns /\ conn[n] = "unused" /\ pc[x] = "swapping" /\ entry[P][a] = held[x] /\ conn[held[x]] = "exiting"
        /\ opener[P] = x
        /\ conn' = [conn EXCEPT ![held[x]] = "closed", ![n] = "opening"]
        /\ held' = [held EXCEPT ![x] = n]
        /\ entry' = [entry EXCEPT ![P][a] = None]
        /\ pc' = [pc EXCEPT ![x] = "opening"]
        /\ UNCHANGED <<wants, opener>>
    BY <1>0, <1>9, <1>15, <1>20 DEF Swapped, Dropped, Goto, At, P, a, LinkInv, Links, Linking
  <2> HIDE DEF n
  <2>2. held[x] \in Conns \cup {None} /\ held[x] # n
    BY <2>1 DEF MoreSorts
  <2>3. /\ entry'[P][a] = None
        /\ \A p \in Pools, v \in Servers : entry'[p][v] = entry[p][v] \/ (entry'[p][v] = None /\ p = P /\ v = a)
    BY <1>0, <1>2, <1>8, <2>1 DEF Sorts
  <2>4. /\ conn'[n] = "opening" /\ \A d \in Conns \ {n} : conn'[d] = conn[d] \/ (conn'[d] = "closed" /\ d = held[x])
        /\ pc'[x] = "opening" /\ held'[x] = n
    BY <1>0, <1>10, <2>1 DEF Sorts, MoreSorts
  <2>5. \A p \in Pools, v \in Servers : entry[p][v] # n
    BY <1>0, <1>13, <2>1
  <2>6. Links(x)'
    <3>1. Aim(x)' = Aim(x)
      BY <2>1, AimStays
    <3>2. Found(x)' = None
      BY <1>5, <2>3, <3>1 DEF Found, P, a
    <3> QED BY <1>5, <1>8, <2>1, <2>4, <3>2 DEF Links, P
  <2>7. \A d \in Conns : conn'[d] = "open" => \E p \in Pools \ closed, v \in Servers : entry'[p][v] = d
    <3> SUFFICES ASSUME NEW d \in Conns, conn'[d] = "open"
                 PROVE  \E p \in Pools \ closed, v \in Servers : entry'[p][v] = d
      OBVIOUS
    <3>1. conn[d] = "open" /\ d # None
      BY <1>0, <2>4
    <3>2. PICK p \in Pools \ closed, v \in Servers : entry[p][v] = d
      BY <1>12, <2>1, <3>1
    <3>3. entry'[p][v] = d
      BY <2>1, <2>3, <3>1, <3>2
    <3> QED BY <3>2, <3>3
  <2>8. \A p \in Pools, v \in Servers : entry'[p][v] # None =>
           entry'[p][v] = entry[p][v] /\ conn'[entry[p][v]] \in {conn[entry[p][v]], "closed"}
    BY <1>10, <2>3, <2>4, <2>5
  <2>9. \A p \in Pools, v \in Servers : entry'[p][v] # None => conn'[entry'[p][v]] \in {"open", "exiting", "closed"}
    BY <1>13, <2>8
  <2>10. \A p \in closed, v \in Servers : entry'[p][v] # None => conn'[entry'[p][v]] # "open"
    BY <1>11, <1>14, <2>8
  <2> QED BY <1>16, <2>6, <2>7, <2>9, <2>10
<1>21. CASE Connected(x)
  <2>1. /\ pc[x] = "opening" /\ Found(x) = None /\ conn[held[x]] = "opening" /\ opener[P] = x /\ held[x] \in Conns
        /\ conn' = [conn EXCEPT ![held[x]] = "open"]
        /\ pc' = [pc EXCEPT ![x] = "listing"]
        /\ UNCHANGED <<wants, opener, entry, held>>
    BY <1>0, <1>21 DEF Connected, Goto, At, P, LinkInv, Links, Linking, CallInv, TaskInv, Holds
  <2>2. /\ conn'[held[x]] = "open" /\ \A d \in Conns \ {held[x]} : conn'[d] = conn[d]
        /\ pc'[x] = "listing"
    BY <1>0, <1>10, <2>1 DEF Sorts
  <2>3. \A p \in Pools, v \in Servers : entry[p][v] # held[x]
    BY <1>0, <1>13, <2>1
  <2>4. Links(x)'
    <3>1. Aim(x)' = Aim(x)
      BY <2>1, AimStays
    <3>2. Found(x)' = None
      BY <1>5, <2>1, <3>1 DEF Found, P
    <3> QED BY <1>5, <1>8, <2>1, <2>2, <3>2 DEF Links, P
  <2>5. \A p \in Pools, v \in Servers : entry'[p][v] # None => conn'[entry'[p][v]] = conn[entry[p][v]] /\ entry'[p][v] = entry[p][v]
    BY <1>10, <2>1, <2>2, <2>3
  <2>6. \A p \in Pools, v \in Servers : entry'[p][v] # None => conn'[entry'[p][v]] \in {"open", "exiting", "closed"}
    BY <1>13, <2>5
  <2>7. \A p \in closed, v \in Servers : entry'[p][v] # None => conn'[entry'[p][v]] # "open"
    BY <1>11, <1>14, <2>5
  <2>8. \A d \in Conns : conn'[d] = "open" =>
           (\E p \in Pools \ closed, v \in Servers : entry'[p][v] = d) \/ (pc'[x] = "listing" /\ held'[x] = d)
    BY <1>12, <2>1, <2>2
  <2> QED BY <1>16, <2>4, <2>6, <2>7, <2>8
<1>22. CASE Refused(x)
  <2>1. /\ pc[x] = "opening" /\ conn[held[x]] = "opening" /\ held[x] \in Conns
        /\ conn' = [conn EXCEPT ![held[x]] = "closed"]
        /\ pc' = [pc EXCEPT ![x] = "done"]
        /\ UNCHANGED entry
    BY <1>0, <1>22 DEF Refused, Goto, At, LinkInv, Links, Linking, CallInv, TaskInv, Holds
  <2>2. /\ conn'[held[x]] = "closed" /\ \A d \in Conns \ {held[x]} : conn'[d] = conn[d]
        /\ pc'[x] = "done"
    BY <1>0, <1>10, <2>1 DEF Sorts
  <2>3. Links(x)'
    BY <2>2 DEF Links, Linking
  <2>4. \A p \in Pools, v \in Servers : entry'[p][v] # None => conn'[entry'[p][v]] \in {"open", "exiting", "closed"}
    BY <1>10, <1>13, <2>1, <2>2
  <2>5. \A p \in closed, v \in Servers : entry'[p][v] # None => conn'[entry'[p][v]] # "open"
    BY <1>10, <1>11, <1>14, <2>1, <2>2
  <2>6. \A d \in Conns : conn'[d] = "open" => \E p \in Pools \ closed, v \in Servers : entry'[p][v] = d
    BY <1>12, <2>1, <2>2
  <2> QED BY <1>16, <2>3, <2>4, <2>5, <2>6
<1>23. CASE Listed(x)
  <2>1. /\ pc[x] = "listing" /\ entry[P][a] = None /\ conn[held[x]] = "open" /\ held[x] \in Conns
        /\ entry' = [entry EXCEPT ![P][a] = held[x]]
        /\ UNCHANGED conn
        /\ pc' \in {[pc EXCEPT ![x] = "ready"], [pc EXCEPT ![x] = "wanting"]}
    BY <1>0, <1>9, <1>23 DEF Listed, Got, Goto, At, LinkInv, Links, Linking, CallInv, TaskInv, Holds, P, a
  <2>2. /\ entry'[P][a] = held[x]
        /\ \A p \in Pools, v \in Servers : entry'[p][v] = entry[p][v] \/ (p = P /\ v = a)
    BY <1>0, <1>2, <1>8, <2>1 DEF Sorts
  <2>3. pc'[x] \notin Linking
    BY <1>0, <2>1 DEF Sorts, Linking
  <2>4. Links(x)'
    BY <2>3 DEF Links
  <2>5. \A p \in Pools, v \in Servers : entry'[p][v] # None => conn'[entry'[p][v]] \in {"open", "exiting", "closed"}
    BY <1>13, <2>1, <2>2
  <2>6. \A p \in closed, v \in Servers : entry'[p][v] # None => conn'[entry'[p][v]] # "open"
    BY <1>2, <1>11, <1>14, <2>1, <2>2
  <2>7. \A d \in Conns : conn'[d] = "open" => \E p \in Pools \ closed, v \in Servers : entry'[p][v] = d
    <3> SUFFICES ASSUME NEW d \in Conns, conn[d] = "open"
                 PROVE  \E p \in Pools \ closed, v \in Servers : entry'[p][v] = d
      BY <2>1
    <3>1. CASE d = held[x]
      BY <1>2, <1>8, <2>2, <3>1
    <3>2. CASE d # held[x]
      <4>1. PICK p \in Pools \ closed, v \in Servers : entry[p][v] = d
        BY <1>12, <3>2
      <4>2. entry'[p][v] = d
        BY <1>0, <2>1, <2>2, <4>1
      <4> QED BY <4>1, <4>2
    <3> QED BY <3>1, <3>2
  <2> QED BY <1>16, <2>4, <2>5, <2>6, <2>7
<1> QED BY <1>17, <1>18, <1>19, <1>20, <1>21, <1>22, <1>23 DEF Opening

\* The connections that have failed are connections.
LEMMA StaleStep ==
    ASSUME CallInv, MoreSorts, stale \subseteq Conns, NEW x \in Tasks, Step(x)
    PROVE  stale' \subseteq Conns
<1>1. CASE x \in Calls /\ CallFails(x)
  <2>1. entry[PoolOf(x)][Server[x]] \in Conns \cup {None}
    <3>1. PoolOf(x) \in Pools
      BY <1>1 DEF CallInv, TaskInv, Pooled, PoolOf, CallFails, At
    <3> QED BY <1>1, <3>1, McpAssumption DEF CallInv, Sorts
  <2>2. Marked(x) \subseteq Conns
    BY <2>1 DEF Marked
  <2> QED BY <1>1, <2>2 DEF CallFails
<1>2. CASE ~(x \in Calls /\ CallFails(x))
  <2>1. stale' = stale
    BY <1>2 DEF Step, RunStep, Start, TakePools, Evict, GetPool, Execute, Return, CallStep, Call, Invoke,
          Answered, OpStep, Begin, Finish, Closing, ClosePool, ExitConn, Exited, Drained, Opening, Reuse,
          Open, Swap, Swapped, Connected, Refused, Listed
  <2> QED BY <2>1
<1> QED BY <1>1, <1>2

\* Where connections are is kept by every step.
LEMMA LinkStep ==
    ASSUME CallInv, MoreSorts, stale \subseteq Conns, PoolInv, LinkInv, NEW x \in Tasks, Step(x)
    PROVE  LinkInv'
<1>0. Sorts /\ Runs \cap Calls = {} /\ x \in Tasks
  BY McpAssumption DEF CallInv
<1>1. CASE x \in Runs /\ RunStep(x)
  <2>1. /\ UNCHANGED <<entry, conn, opener, left, closed, victim, held>>
        /\ pc[x] \notin Linking
        /\ pc'[x] \notin Linking /\ \A y \in Tasks \ {x} : pc'[y] = pc[y]
        /\ wants' \in {wants, [wants EXCEPT ![x] = Eager[x]]}
        /\ \A r \in Runs \ {x} : using'[r] = using[r]
        /\ pc[x] \in Working => using'[x] = using[x]
    <3>1. CASE Start(x)
      BY <1>0, <3>1 DEF Sorts, Start, Goto, At, closings, coordinator, Linking
    <3>2. CASE TakePools(x)
      BY <1>0, <3>2 DEF Sorts, TakePools, Goto, At, Linking
    <3>3. CASE Evict(x)
      BY <1>0, <3>3 DEF Sorts, Evict, Goto, At, coordinator, Linking
    <3>4. CASE GetPool(x)
      BY <1>0, <3>4 DEF Sorts, GetPool, Goto, At, closings, Linking, Working
    <3>5. CASE Execute(x)
      BY <1>0, <3>5 DEF Sorts, Execute, Goto, At, closings, coordinator, Linking
    <3>6. CASE Return(x)
      BY <1>0, <3>6 DEF Sorts, Return, Goto, At, closings, coordinator, Linking
    <3> QED BY <1>1, <3>1, <3>2, <3>3, <3>4, <3>5, <3>6 DEF RunStep
  <2>2. /\ pc'[x] \notin Linking
        /\ \A y \in Tasks \ {x} : pc'[y] = pc[y] /\ held'[y] = held[y] /\ wants'[y] = wants[y]
    BY <1>0, <2>1 DEF Sorts
  <2>3. \A r \in Runs : pc[r] \in Working => using'[r] = using[r]
    BY <2>1
  <2> QED BY <2>1, <2>2, <2>3, LinksKept
<1>2. CASE (x \in Calls /\ CallStep(x)) \/ (x \in Ops /\ OpStep(x))
  <2>1. /\ UNCHANGED <<entry, conn, opener, left, closed, victim, using>>
        /\ pc[x] \notin Linking
        /\ pc'[x] \notin Linking /\ \A y \in Tasks \ {x} : pc'[y] = pc[y]
        /\ wants' \in {wants, [wants EXCEPT ![x] = {Server[x]}]}
        /\ held' \in {held, [held EXCEPT ![x] = None]}
    <3>1. CASE Call(x)
      BY <1>0, <3>1 DEF Sorts, Call, Goto, At, closings, Linking
    <3>2. CASE Invoke(x)
      BY <1>0, <3>2 DEF Sorts, Invoke, Goto, At, closings, coordinator, Linking
    <3>3. CASE Answered(x) \/ CallFails(x)
      BY <1>0, <3>3 DEF Sorts, Answered, CallFails, Leave, Goto, At, closings, coordinator, Linking
    <3>4. CASE Begin(x)
      BY <1>0, <3>4 DEF Sorts, Begin, Goto, At, Linking
    <3>5. CASE Finish(x)
      BY <1>0, <3>5 DEF Sorts, Finish, Goto, At, closings, coordinator, Linking
    <3> QED BY <1>2, <3>1, <3>2, <3>3, <3>4, <3>5 DEF CallStep, OpStep
  <2>2. /\ pc'[x] \notin Linking
        /\ \A y \in Tasks \ {x} : pc'[y] = pc[y] /\ held'[y] = held[y] /\ wants'[y] = wants[y]
    BY <1>0, <2>1 DEF Sorts
  <2> QED BY <2>1, <2>2, LinksKept
<1> QED BY <1>1, <1>2, LinksClosing, LinksOpening DEF Step

\* The invariant of the orderly use holds at first, and every step keeps it.
LEMMA OrderHolds == ASSUME InOrder PROVE Spec => []OrderInv
<1>1. ASSUME Init PROVE OrderInv
  <2>1. \A x \in Tasks : ~Active(x) /\ ~Closes(x) /\ left[x] = {} /\ victim[x] = None /\ held[x] = None
    BY <1>1 DEF Init, Active, Closes
  <2>2. Runs \subseteq Tasks /\ Calls \subseteq Tasks /\ Ops \subseteq Tasks /\ Users \subseteq Tasks
    BY DEF Tasks, Users
  <2>3. Registered = {} /\ closed = {} /\ stale = {} /\ \A r \in Runs : using[r] = None
    BY <1>1 DEF Init, Registered
  <2>4. MoreSorts
    BY <1>1 DEF Init, MoreSorts
  <2>5. PoolInv
    <3>1. OneLine
      BY <2>1, <2>2 DEF OneLine
    <3>2. ClosesAlone
      BY <2>1 DEF ClosesAlone
    <3>3. Wired
      BY <1>1, <2>2, <2>3 DEF Init, Wired, Working
    <3>4. OnePool
      BY <2>3 DEF OnePool, Live
    <3> QED BY <3>1, <3>2, <3>3, <3>4 DEF PoolInv
  <2>6. LinkInv
    <3>1. Kept
      BY <1>1 DEF Init, Kept
    <3>2. \A x \in Users : Links(x)
      BY <1>1, <2>2 DEF Init, Links, Linking
    <3> QED BY <3>1, <3>2 DEF LinkInv
  <2> QED BY <1>1, <2>3, <2>4, <2>5, <2>6, CallInvInit DEF OrderInv
<1>2. ASSUME OrderInv, [Next]_vars PROVE OrderInv'
  <2>1. CallInv'
    BY <1>2, CallInvStep DEF OrderInv
  <2>2. CASE UNCHANGED vars
    <3>2. MoreSorts' /\ (stale \subseteq Conns)'
      BY <1>2, <2>2 DEF OrderInv, MoreSorts, vars
    <3>3. OneLine' /\ ClosesAlone'
      BY <1>2, <2>2 DEF OrderInv, PoolInv, OneLine, ClosesAlone, Active, Closes, vars
    <3>4. Wired' /\ OnePool'
      BY <1>2, <2>2 DEF OrderInv, PoolInv, Wired, OnePool, Live, Registered, vars
    <3>5. Kept'
      BY <1>2, <2>2 DEF OrderInv, LinkInv, Kept, vars
    <3>6. ASSUME NEW y \in Users PROVE Links(y)'
      <4>1. PoolOf(y)' = PoolOf(y)
        BY <2>2 DEF PoolOf, vars
      <4>2. UNCHANGED <<pc, held, wants, conn, opener, entry>>
        BY <2>2 DEF vars
      <4> QED BY <1>2, <4>1, <4>2, OthersLink DEF OrderInv, LinkInv
    <3> QED BY <2>1, <3>2, <3>3, <3>4, <3>5, <3>6 DEF OrderInv, PoolInv, LinkInv
  <2>3. CASE Next
    <3>1. PICK x \in Tasks : Step(x)
      BY <2>3 DEF Next, Cancel, InOrder
    <3> QED BY <1>2, <2>1, <3>1, MoreSortsStep, StaleStep, PoolStep, LinkStep DEF OrderInv
  <2> QED BY <1>2, <2>2, <2>3
<1> QED BY <1>1, <1>2, PTL DEF Spec

\* Where pools are closed only between runs, no connection outlives its pool: an
\* open one is the entry of a pool that is not closed, or in the hands of a task
\* that opens or closes it.  shutdown(), which closes the pools there are, leaves
\* no server process behind.
THEOREM OrderLeavesNoOrphan == ASSUME InOrder PROVE Spec => []NoOrphan
<1>1. OrderInv => NoOrphan
  BY DEF OrderInv, LinkInv, Kept, NoOrphan, Users, Tasks
<1> QED BY <1>1, OrderHolds, PTL

\* There, the runs of a session and all their tool calls share one connection per
\* server, which _conn_creation_lock and the re-check under it see to: whatever
\* calls and delegated runs ask for it at once, and while a failed one is replaced.
THEOREM OrderKeepsOneConnection == ASSUME InOrder PROVE Spec => []SingleConnection
<1>1. ASSUME OrderInv, NEW s \in Sessions, NEW v \in Servers PROVE Cardinality(Serving(s, v)) <= 1
  <2> DEFINE own == {using[r] : r \in {q \in Runs : Session[q] = s}} \ {None}
             entries == {c \in Conns : conn[c] = "open" /\ \E p \in own : entry[p][v] = c}
             linkers == {y \in Runs \cup Calls :
                           pc[y] \in {"opening", "listing"} /\ PoolOf(y) \in own /\ Aim(y) = v}
  <2>0. None \notin Conns /\ None \notin Tasks /\ Users \subseteq Tasks
    BY McpAssumption DEF Tasks, Users
  <2>1. \A p, q \in own : Live(p) /\ Live(q) => p = q
    BY <1>1 DEF OrderInv, PoolInv, OnePool
  <2>2. \A p \in own : p \in Pools /\ p # None
    BY <1>1 DEF OrderInv, CallInv, Sorts
  <2>3. ASSUME NEW x \in linkers
        PROVE  /\ x \in Users /\ opener[PoolOf(x)] = x /\ PoolOf(x) \in own /\ Live(PoolOf(x))
               /\ entry[PoolOf(x)][v] = None
    <3>1. x \in Users /\ pc[x] \in Working /\ pc[x] \in Linking /\ PoolOf(x) \in own /\ Aim(x) = v
          /\ pc[x] # "swapping"
      BY DEF Users, Working, Linking
    <3>2. PoolOf(x) \in Pools \ closed
      BY <1>1, <3>1, SharedPool DEF OrderInv
    <3>3. opener[PoolOf(x)] = x /\ Found(x) = None
      BY <1>1, <3>1 DEF OrderInv, LinkInv, Links, Linking
    <3> QED BY <2>2, <3>1, <3>2, <3>3 DEF Live, Found
  <2>4. ASSUME NEW c \in entries PROVE c \in Conns /\ \E p \in own : entry[p][v] = c /\ Live(p)
    <3>1. PICK p \in own : entry[p][v] = c
      OBVIOUS
    <3>2. Live(p)
      BY <1>1, <2>0, <2>2, <3>1 DEF OrderInv, LinkInv, Kept, Live
    <3> QED BY <3>1, <3>2
  <2>5. Serving(s, v) = entries \cup {held[x] : x \in linkers}
    BY DEF Serving
  <2> HIDE DEF own, entries, linkers
  <2>6. \A c, d \in Serving(s, v) : c = d
    <3>1. \A c, d \in entries : c = d
      <4> SUFFICES ASSUME NEW c \in entries, NEW d \in entries PROVE c = d
        OBVIOUS
      <4>1. PICK p \in own : entry[p][v] = c /\ Live(p)
        BY <2>4
      <4>2. PICK q \in own : entry[q][v] = d /\ Live(q)
        BY <2>4
      <4> QED BY <2>1, <4>1, <4>2
    <3>2. \A x, y \in linkers : x = y
      <4> SUFFICES ASSUME NEW x \in linkers, NEW y \in linkers PROVE x = y
        OBVIOUS
      <4>1. opener[PoolOf(x)] = x /\ PoolOf(x) \in own /\ Live(PoolOf(x))
        BY <2>3
      <4>2. opener[PoolOf(y)] = y /\ PoolOf(y) \in own /\ Live(PoolOf(y))
        BY <2>3
      <4> QED BY <2>1, <4>1, <4>2
    <3>3. ASSUME NEW x \in linkers, NEW c \in entries PROVE FALSE
      <4>1. PoolOf(x) \in own /\ Live(PoolOf(x)) /\ entry[PoolOf(x)][v] = None
        BY <2>3
      <4>2. PICK p \in own : entry[p][v] = c /\ Live(p) /\ c \in Conns
        BY <2>4
      <4> QED BY <2>0, <2>1, <4>1, <4>2
    <3> QED BY <2>5, <3>1, <3>2, <3>3
  <2>7. CASE Serving(s, v) = {}
    BY <2>7, FS_EmptySet
  <2>8. CASE Serving(s, v) # {}
    <3>1. PICK c : c \in Serving(s, v)
      BY <2>8
    <3>2. Serving(s, v) = {c}
      BY <2>6, <3>1
    <3> QED BY <3>2, FS_Singleton
  <2> QED BY <2>7, <2>8
<1>2. OrderInv => SingleConnection
  BY <1>1 DEF SingleConnection
<1> QED BY <1>2, OrderHolds, PTL

-----------------------------------------------------------------------------
(***************************************************************************)
(* A tool outside a session's pool, for any callers, keys and ways to use  *)
(* it.  A call in flight is known by its key and by no other; whoever uses *)
(* the tool's own connection holds its lock, and it is up and unspoilt.    *)
(***************************************************************************)
CONSTANTS Callers, Keys, Uses, MaxConns

VARIABLES use, at, todoOf, out, struck, inflight, future,
          opened, live, dead, mine, own, spoilt, lock, drained, leaving

Tool == INSTANCE McpTool WITH pc <- at, stale <- spoilt, left <- todoOf, closed <- drained

\* A caller has a connection of its own, or the tool's.
HasConn(c) == at[c] \in {"connecting", "listing", "calling", "exiting"}

ToolShapes ==
    /\ use \in Uses
    /\ at \in [Callers -> {"idle", "waiting", "locking", "swapping", "connecting", "listing", "calling", "exiting", "done"}]
    /\ mine \in [Callers -> Nat] /\ inflight \in [Keys -> Nat]
    /\ opened \in Nat /\ live \subseteq 1..opened /\ dead \subseteq 1..opened /\ leaving \subseteq 1..opened
    /\ lock \in Callers \cup {None} /\ own \in 0..opened /\ spoilt \in BOOLEAN
    /\ \A c \in Callers : HasConn(c) => mine[c] \in 1..opened

\* Where a caller can be, by the way its tool is used.
ToolModes ==
    \A c \in Callers :
        /\ at[c] = "waiting" => Tool!Coalesced
        /\ at[c] \in {"locking", "swapping"} => Tool!Pooled
        /\ at[c] = "exiting" => ~Tool!Pooled

\* Outside a pool, no two calls use one connection.
ToolApart == ~Tool!Pooled => \A c, d \in Callers : HasConn(c) /\ HasConn(d) /\ mine[c] = mine[d] => c = d

\* A call in flight is known by its key, and nothing else is.
ToolFlights ==
    /\ Tool!Coalesced => \A c \in Callers : HasConn(c) => inflight[use.key[c]] = mine[c]
    /\ \A k \in Keys : inflight[k] # 0 => Tool!Coalesced /\ \E c \in Callers : HasConn(c) /\ mine[c] = inflight[k]

\* Whoever uses the tool's connection holds its lock; it is up and no call over
\* it has failed unless it is stale; and close() has not taken it.
ToolTurns ==
    Tool!Pooled =>
        /\ \A c \in Callers : Tool!Over(c) => lock = c
        /\ \A c \in Callers : at[c] = "swapping" => spoilt /\ own # 0
        /\ \A c \in Callers : at[c] \in {"connecting", "listing"} => own = 0 /\ mine[c] \in live \ (dead \cup leaving)
        /\ \A c \in Callers : at[c] = "calling" => mine[c] = own /\ own # 0 /\ ~spoilt
        /\ own # 0 /\ ~spoilt => own \in live \ dead
        /\ own = 0 => ~spoilt
        /\ own \notin leaving
        /\ leaving # {} => drained

\* A process is used, kept or about to be ended.
ToolKept ==
    (Tool!Pooled /\ use.cancels) \/ \A n \in live :
        n \in leaving \cup {own} \/ \E c \in Callers : HasConn(c) /\ mine[c] = n

ToolInv == ToolShapes /\ ToolModes /\ ToolApart /\ ToolFlights /\ ToolTurns /\ ToolKept

\* A tool nobody has called yet keeps the invariant.
LEMMA ToolStart == ASSUME Tool!Init, Tool!ToolAssumption PROVE ToolInv
<1>1. ToolShapes
  <2>1. /\ use \in Uses /\ opened = 0 /\ live = {} /\ dead = {} /\ leaving = {} /\ own = 0 /\ spoilt = FALSE /\ lock = None
        /\ at = [c \in Callers |-> "idle"] /\ mine = [c \in Callers |-> 0] /\ inflight = [k \in Keys |-> 0]
    BY DEF Tool!Init
  <2>2. \A c \in Callers : ~HasConn(c)
    BY <2>1 DEF HasConn
  <2>3. at \in [Callers -> {"idle", "waiting", "locking", "swapping", "connecting", "listing", "calling", "exiting", "done"}]
    BY <2>1
  <2>4. mine \in [Callers -> Nat] /\ inflight \in [Keys -> Nat]
    BY <2>1
  <2>5. own \in 0..opened /\ opened \in Nat
    BY DEF Tool!Init
  <2> QED BY <2>1, <2>2, <2>3, <2>4, <2>5 DEF ToolShapes
<1>2. ToolModes /\ ToolApart /\ ToolFlights
  BY DEF Tool!Init, Tool!ToolAssumption, ToolModes, ToolApart, ToolFlights, HasConn
<1>3. ToolTurns /\ ToolKept
  BY DEF Tool!Init, Tool!ToolAssumption, ToolTurns, ToolKept, HasConn, Tool!Over
<1> QED BY <1>1, <1>2, <1>3 DEF ToolInv

\* A call that joins one in flight has no connection of its own.
LEMMA ToolJoinKeeps == ASSUME Tool!ToolAssumption, ToolInv, NEW c \in Callers, Tool!Join(c) PROVE ToolInv'
<1>1. ToolShapes'
  <2>1. PICK n \in Nat : n = Tool!Matching(c)
    BY DEF Tool!ToolAssumption, ToolInv, ToolShapes, Tool!Matching, Tool!Coalesced
  <2>2. /\ mine' = [mine EXCEPT ![c] = n] /\ at' = [at EXCEPT ![c] = "waiting"]
        /\ UNCHANGED <<use, inflight, opened, live, dead, leaving, lock, own, spoilt>>
    BY <2>1 DEF Tool!Join, Tool!Goto, Tool!sharing
  <2>3. \A d \in Callers : HasConn(d)' => HasConn(d) /\ mine'[d] = mine[d]
    BY <2>2 DEF ToolInv, ToolShapes, HasConn
  <2> QED BY <2>1, <2>2, <2>3 DEF ToolInv, ToolShapes
<1>2. ToolModes'
  BY DEF Tool!ToolAssumption, ToolInv, ToolShapes, ToolModes, Tool!Coalesced, Tool!Pooled, Tool!Join, Tool!Ready, Tool!Matching, Tool!Goto
<1>3. ToolApart'
  BY DEF Tool!ToolAssumption, ToolInv, ToolShapes, ToolApart, HasConn, Tool!Coalesced, Tool!Pooled, Tool!Join, Tool!Ready, Tool!Matching, Tool!Goto
<1>4. ToolFlights'
  <2>1. at[c] = "idle" /\ UNCHANGED <<use, inflight>> /\ at' = [at EXCEPT ![c] = "waiting"]
    BY DEF Tool!Join, Tool!Ready, Tool!Goto, Tool!sharing
  <2>2. \A d \in Callers : (HasConn(d)' <=> HasConn(d)) /\ (HasConn(d) => mine'[d] = mine[d])
    BY <2>1 DEF Tool!Join, ToolInv, ToolShapes, HasConn
  <2> QED BY <2>1, <2>2 DEF ToolInv, ToolFlights, Tool!Coalesced
<1>5. ToolTurns'
  BY DEF Tool!ToolAssumption, ToolInv, ToolShapes, ToolModes, ToolTurns, HasConn, Tool!Over, Tool!Coalesced, Tool!Pooled, Tool!Join, Tool!Ready, Tool!Matching, Tool!Goto
<1>6. ToolKept'
  BY DEF Tool!ToolAssumption, ToolInv, ToolShapes, ToolApart, ToolTurns, ToolKept, HasConn, Tool!Over, Tool!Coalesced, Tool!Pooled, Tool!Join, Tool!Ready, Tool!Matching, Tool!Goto
<1> QED BY <1>1, <1>2, <1>3, <1>4, <1>5, <1>6 DEF ToolInv

\* A call that opens a connection is the one its key is known by.
LEMMA ToolFreshKeeps == ASSUME Tool!ToolAssumption, ToolInv, NEW c \in Callers, Tool!Fresh(c) PROVE ToolInv'
<1>1. ToolShapes'
  BY DEF Tool!ToolAssumption, ToolInv, ToolShapes, HasConn, Tool!Coalesced, Tool!Pooled, Tool!Fresh, Tool!Ready, Tool!Matching, Tool!Goto, Tool!Connect, Tool!ToolConns
<1>2. ToolModes'
  BY DEF Tool!ToolAssumption, ToolInv, ToolShapes, ToolModes, Tool!Coalesced, Tool!Pooled, Tool!Fresh, Tool!Ready, Tool!Matching, Tool!Goto, Tool!Connect, Tool!ToolConns
<1>3. ToolApart'
  BY DEF Tool!ToolAssumption, ToolInv, ToolShapes, ToolApart, HasConn, Tool!Coalesced, Tool!Pooled, Tool!Fresh, Tool!Ready, Tool!Matching, Tool!Goto, Tool!Connect, Tool!ToolConns
<1>4. ToolFlights'
  BY DEF Tool!ToolAssumption, ToolInv, ToolShapes, ToolModes, ToolApart, ToolFlights, HasConn, Tool!Coalesced, Tool!Pooled, Tool!Fresh, Tool!Ready, Tool!Matching, Tool!Goto, Tool!Connect, Tool!ToolConns
<1>5. ToolTurns'
  BY DEF Tool!ToolAssumption, ToolInv, ToolShapes, ToolModes, ToolTurns, HasConn, Tool!Over, Tool!Coalesced, Tool!Pooled, Tool!Fresh, Tool!Ready, Tool!Matching, Tool!Goto, Tool!Connect, Tool!ToolConns
<1>6. ToolKept'
  BY DEF Tool!ToolAssumption, ToolInv, ToolShapes, ToolApart, ToolTurns, ToolKept, HasConn, Tool!Over, Tool!Coalesced, Tool!Pooled, Tool!Fresh, Tool!Ready, Tool!Matching, Tool!Goto, Tool!Connect, Tool!ToolConns
<1> QED BY <1>1, <1>2, <1>3, <1>4, <1>5, <1>6 DEF ToolInv

\* A call that waits for the lock has nothing yet.
LEMMA ToolQueueKeeps == ASSUME Tool!ToolAssumption, ToolInv, NEW c \in Callers, Tool!Queue(c) PROVE ToolInv'
<1>1. ToolShapes'
  BY DEF Tool!ToolAssumption, ToolInv, ToolShapes, HasConn, Tool!Coalesced, Tool!Pooled, Tool!Queue, Tool!Ready, Tool!Goto, Tool!connections, Tool!sharing
<1>2. ToolModes'
  BY DEF Tool!ToolAssumption, ToolInv, ToolShapes, ToolModes, Tool!Coalesced, Tool!Pooled, Tool!Queue, Tool!Ready, Tool!Goto, Tool!connections, Tool!sharing
<1>3. ToolApart'
  BY DEF Tool!ToolAssumption, ToolInv, ToolShapes, ToolApart, HasConn, Tool!Coalesced, Tool!Pooled, Tool!Queue, Tool!Ready, Tool!Goto, Tool!connections, Tool!sharing
<1>4. ToolFlights'
  BY DEF Tool!ToolAssumption, ToolInv, ToolShapes, ToolModes, ToolApart, ToolFlights, HasConn, Tool!Coalesced, Tool!Pooled, Tool!Queue, Tool!Ready, Tool!Goto, Tool!connections, Tool!sharing
<1>5. ToolTurns'
  BY DEF Tool!ToolAssumption, ToolInv, ToolShapes, ToolModes, ToolTurns, HasConn, Tool!Over, Tool!Coalesced, Tool!Pooled, Tool!Queue, Tool!Ready, Tool!Goto, Tool!connections, Tool!sharing
<1>6. ToolKept'
  BY DEF Tool!ToolAssumption, ToolInv, ToolShapes, ToolApart, ToolTurns, ToolKept, HasConn, Tool!Over, Tool!Coalesced, Tool!Pooled, Tool!Queue, Tool!Ready, Tool!Goto, Tool!connections, Tool!sharing
<1> QED BY <1>1, <1>2, <1>3, <1>4, <1>5, <1>6 DEF ToolInv

\* A call that waited ends with what it was told.
LEMMA ToolWokenKeeps == ASSUME Tool!ToolAssumption, ToolInv, NEW c \in Callers, Tool!Woken(c) PROVE ToolInv'
<1>1. ToolShapes'
  BY DEF Tool!ToolAssumption, ToolInv, ToolShapes, HasConn, Tool!Coalesced, Tool!Pooled, Tool!Woken, Tool!Ends, Tool!Goto, Tool!connections, Tool!sharing
<1>2. ToolModes'
  BY DEF Tool!ToolAssumption, ToolInv, ToolShapes, ToolModes, Tool!Coalesced, Tool!Pooled, Tool!Woken, Tool!Ends, Tool!Goto, Tool!connections, Tool!sharing
<1>3. ToolApart'
  BY DEF Tool!ToolAssumption, ToolInv, ToolShapes, ToolApart, HasConn, Tool!Coalesced, Tool!Pooled, Tool!Woken, Tool!Ends, Tool!Goto, Tool!connections, Tool!sharing
<1>4. ToolFlights'
  BY DEF Tool!ToolAssumption, ToolInv, ToolShapes, ToolModes, ToolApart, ToolFlights, HasConn, Tool!Coalesced, Tool!Pooled, Tool!Woken, Tool!Ends, Tool!Goto, Tool!connections, Tool!sharing
<1>5. ToolTurns'
  BY DEF Tool!ToolAssumption, ToolInv, ToolShapes, ToolModes, ToolTurns, HasConn, Tool!Over, Tool!Coalesced, Tool!Pooled, Tool!Woken, Tool!Ends, Tool!Goto, Tool!connections, Tool!sharing
<1>6. ToolKept'
  BY DEF Tool!ToolAssumption, ToolInv, ToolShapes, ToolApart, ToolTurns, ToolKept, HasConn, Tool!Over, Tool!Coalesced, Tool!Pooled, Tool!Woken, Tool!Ends, Tool!Goto, Tool!connections, Tool!sharing
<1> QED BY <1>1, <1>2, <1>3, <1>4, <1>5, <1>6 DEF ToolInv

\* Whoever takes the lock finds no connection, a spoilt one or one to use.
LEMMA ToolEnterKeeps == ASSUME Tool!ToolAssumption, ToolInv, NEW c \in Callers, Tool!Enter(c) PROVE ToolInv'
<1>1. ToolShapes'
  <2>1. CASE spoilt /\ own # 0 /\ Tool!Goto(c, "swapping") /\ UNCHANGED <<opened, live, mine>>
    BY <2>1 DEF ToolInv, ToolShapes, HasConn, Tool!Enter, Tool!Goto, Tool!sharing
  <2>2. CASE own = 0 /\ Tool!Connect(c) /\ live' = live \cup {opened'}
    <3>1. /\ opened' = opened + 1 /\ mine' = [mine EXCEPT ![c] = opened'] /\ at' = [at EXCEPT ![c] = "connecting"]
          /\ lock' = c /\ UNCHANGED <<use, inflight, dead, own, spoilt, leaving>>
      BY <2>2 DEF Tool!Enter, Tool!Connect, Tool!Goto, Tool!sharing
    <3>2. \A d \in Callers : HasConn(d)' => mine'[d] \in 1..opened'
      BY <3>1 DEF ToolInv, ToolShapes, HasConn
    <3>3. opened' \in Nat /\ live' \subseteq 1..opened' /\ dead' \subseteq 1..opened' /\ leaving' \subseteq 1..opened' /\ own' \in 0..opened'
      BY <2>2, <3>1 DEF ToolInv, ToolShapes
    <3> QED BY <3>1, <3>2, <3>3 DEF ToolInv, ToolShapes
  <2>3. CASE own # 0 /\ mine' = [mine EXCEPT ![c] = own] /\ Tool!Goto(c, "calling") /\ UNCHANGED <<opened, live>>
    <3>1. /\ at' = [at EXCEPT ![c] = "calling"] /\ lock' = c /\ UNCHANGED <<use, inflight, dead, own, spoilt, leaving, opened, live>>
      BY <2>3 DEF Tool!Enter, Tool!Goto, Tool!sharing
    <3>2. own \in 1..opened
      BY <2>3 DEF ToolInv, ToolShapes
    <3> QED BY <2>3, <3>1, <3>2 DEF ToolInv, ToolShapes, HasConn
  <2> QED BY <2>1, <2>2, <2>3 DEF Tool!Enter
<1>2. ToolModes'
  BY DEF Tool!ToolAssumption, ToolInv, ToolShapes, ToolModes, Tool!Coalesced, Tool!Pooled, Tool!Enter, Tool!MayEnter, Tool!Goto, Tool!Connect, Tool!sharing
<1>3. ToolApart'
  <2>1. Tool!Pooled'
    BY DEF Tool!Enter, ToolInv, ToolModes, Tool!Pooled
  <2> QED BY <2>1 DEF ToolApart
<1>4. ToolFlights'
  BY DEF Tool!ToolAssumption, ToolInv, ToolShapes, ToolModes, ToolApart, ToolFlights, HasConn, Tool!Coalesced, Tool!Pooled, Tool!Enter, Tool!MayEnter, Tool!Goto, Tool!Connect, Tool!sharing
<1>5. ToolTurns'
  BY DEF Tool!ToolAssumption, ToolInv, ToolShapes, ToolModes, ToolTurns, HasConn, Tool!Over, Tool!Coalesced, Tool!Pooled, Tool!Enter, Tool!MayEnter, Tool!Goto, Tool!Connect, Tool!sharing
<1>6. ToolKept'
  <2>1. at[c] = "locking" /\ UNCHANGED <<use, own, leaving>>
    BY DEF Tool!Enter
  <2>5. live' = live \/ (live' = live \cup {opened'} /\ Tool!Connect(c))
    <3>1. CASE spoilt /\ own # 0 /\ Tool!Goto(c, "swapping") /\ UNCHANGED <<opened, live, mine>>
      BY <3>1
    <3>2. CASE own = 0 /\ Tool!Connect(c) /\ live' = live \cup {opened'}
      BY <3>2
    <3>3. CASE ~spoilt /\ own # 0 /\ mine' = [mine EXCEPT ![c] = own] /\ Tool!Goto(c, "calling") /\ UNCHANGED <<opened, live>>
      BY <3>3
    <3> QED BY <3>1, <3>2, <3>3, Zenon DEF Tool!Enter
  <2>2. \A d \in Callers : HasConn(d) => HasConn(d)' /\ mine'[d] = mine[d]
    BY <2>1 DEF Tool!Enter, Tool!Connect, Tool!Goto, ToolInv, ToolShapes, HasConn
  <2>3. Tool!Connect(c) => HasConn(c)' /\ mine'[c] = opened'
    BY DEF Tool!Connect, Tool!Goto, ToolInv, ToolShapes, HasConn
  <2> QED BY <2>1, <2>2, <2>3, <2>5 DEF ToolInv, ToolKept, Tool!Pooled
<1> QED BY <1>1, <1>2, <1>3, <1>4, <1>5, <1>6 DEF ToolInv

\* A spoilt connection is exited before another is entered.
LEMMA ToolSwapKeeps == ASSUME Tool!ToolAssumption, ToolInv, NEW c \in Callers, Tool!Swap(c) PROVE ToolInv'
<1>1. ToolShapes'
  <2>1. /\ opened' = opened + 1 /\ mine' = [mine EXCEPT ![c] = opened'] /\ at' = [at EXCEPT ![c] = "connecting"]
        /\ live' = (live \ {own}) \cup {opened'} /\ own' = 0 /\ spoilt' = FALSE /\ UNCHANGED <<use, inflight, dead, lock, leaving>>
    BY DEF Tool!Swap, Tool!Connect, Tool!Goto, Tool!Exited, Tool!sharing
  <2>2. \A d \in Callers : HasConn(d)' => mine'[d] \in 1..opened'
    BY <2>1 DEF ToolInv, ToolShapes, HasConn
  <2>3. opened' \in Nat /\ live' \subseteq 1..opened' /\ dead' \subseteq 1..opened' /\ leaving' \subseteq 1..opened' /\ own' \in 0..opened'
    BY <2>1 DEF ToolInv, ToolShapes
  <2> QED BY <2>1, <2>2, <2>3 DEF ToolInv, ToolShapes
<1>2. ToolModes'
  BY DEF Tool!ToolAssumption, ToolInv, ToolShapes, ToolModes, Tool!Coalesced, Tool!Pooled, Tool!Swap, Tool!Goto, Tool!Connect, Tool!Exited, Tool!sharing
<1>3. ToolApart'
  BY DEF Tool!ToolAssumption, ToolInv, ToolShapes, ToolApart, HasConn, Tool!Coalesced, Tool!Pooled, Tool!Swap, Tool!Goto, Tool!Connect, Tool!Exited, Tool!sharing
<1>4. ToolFlights'
  BY DEF Tool!ToolAssumption, ToolInv, ToolShapes, ToolModes, ToolApart, ToolFlights, HasConn, Tool!Coalesced, Tool!Pooled, Tool!Swap, Tool!Goto, Tool!Connect, Tool!Exited, Tool!sharing
<1>5. ToolTurns'
  BY DEF Tool!ToolAssumption, ToolInv, ToolShapes, ToolModes, ToolTurns, HasConn, Tool!Over, Tool!Coalesced, Tool!Pooled, Tool!Swap, Tool!Goto, Tool!Connect, Tool!Exited, Tool!sharing
<1>6. ToolKept'
  BY DEF Tool!ToolAssumption, ToolInv, ToolShapes, ToolApart, ToolTurns, ToolKept, HasConn, Tool!Over, Tool!Coalesced, Tool!Pooled, Tool!Swap, Tool!Goto, Tool!Connect, Tool!Exited, Tool!sharing
<1> QED BY <1>1, <1>2, <1>3, <1>4, <1>5, <1>6 DEF ToolInv

\* An entered connection goes on to list its tools.
LEMMA ToolConnectedKeeps == ASSUME Tool!ToolAssumption, ToolInv, NEW c \in Callers, Tool!Connected(c) PROVE ToolInv'
<1>1. ToolShapes'
  BY DEF Tool!ToolAssumption, ToolInv, ToolShapes, HasConn, Tool!Coalesced, Tool!Pooled, Tool!Connected, Tool!Goto, Tool!connections, Tool!sharing
<1>2. ToolModes'
  BY DEF Tool!ToolAssumption, ToolInv, ToolShapes, ToolModes, Tool!Coalesced, Tool!Pooled, Tool!Connected, Tool!Goto, Tool!connections, Tool!sharing
<1>3. ToolApart'
  BY DEF Tool!ToolAssumption, ToolInv, ToolShapes, ToolApart, HasConn, Tool!Coalesced, Tool!Pooled, Tool!Connected, Tool!Goto, Tool!connections, Tool!sharing
<1>4. ToolFlights'
  BY DEF Tool!ToolAssumption, ToolInv, ToolShapes, ToolModes, ToolApart, ToolFlights, HasConn, Tool!Coalesced, Tool!Pooled, Tool!Connected, Tool!Goto, Tool!connections, Tool!sharing
<1>5. ToolTurns'
  BY DEF Tool!ToolAssumption, ToolInv, ToolShapes, ToolModes, ToolTurns, HasConn, Tool!Over, Tool!Coalesced, Tool!Pooled, Tool!Connected, Tool!Goto, Tool!connections, Tool!sharing
<1>6. ToolKept'
  BY DEF Tool!ToolAssumption, ToolInv, ToolShapes, ToolApart, ToolTurns, ToolKept, HasConn, Tool!Over, Tool!Coalesced, Tool!Pooled, Tool!Connected, Tool!Goto, Tool!connections, Tool!sharing
<1> QED BY <1>1, <1>2, <1>3, <1>4, <1>5, <1>6 DEF ToolInv

\* A connection that cannot be entered is gone, and its key with it.
LEMMA ToolRefusedKeeps == ASSUME Tool!ToolAssumption, ToolInv, NEW c \in Callers, Tool!Refused(c) PROVE ToolInv'
<1>1. ToolShapes'
  BY DEF Tool!ToolAssumption, ToolInv, ToolShapes, HasConn, Tool!Coalesced, Tool!Pooled, Tool!Refused, Tool!Settle, Tool!Ends, Tool!Goto, Tool!Cleared, Tool!Unlocked
<1>2. ToolModes'
  BY DEF Tool!ToolAssumption, ToolInv, ToolShapes, ToolModes, Tool!Coalesced, Tool!Pooled, Tool!Refused, Tool!Settle, Tool!Ends, Tool!Goto, Tool!Cleared, Tool!Unlocked
<1>3. ToolApart'
  BY DEF Tool!ToolAssumption, ToolInv, ToolShapes, ToolApart, HasConn, Tool!Coalesced, Tool!Pooled, Tool!Refused, Tool!Settle, Tool!Ends, Tool!Goto, Tool!Cleared, Tool!Unlocked
<1>4. ToolFlights'
  BY DEF Tool!ToolAssumption, ToolInv, ToolShapes, ToolModes, ToolApart, ToolFlights, HasConn, Tool!Coalesced, Tool!Pooled, Tool!Refused, Tool!Settle, Tool!Ends, Tool!Goto, Tool!Cleared, Tool!Unlocked
<1>5. ToolTurns'
  BY DEF Tool!ToolAssumption, ToolInv, ToolShapes, ToolModes, ToolTurns, HasConn, Tool!Over, Tool!Coalesced, Tool!Pooled, Tool!Refused, Tool!Settle, Tool!Ends, Tool!Goto, Tool!Cleared, Tool!Unlocked
<1>6. ToolKept'
  BY DEF Tool!ToolAssumption, ToolInv, ToolShapes, ToolApart, ToolTurns, ToolKept, HasConn, Tool!Over, Tool!Coalesced, Tool!Pooled, Tool!Refused, Tool!Settle, Tool!Ends, Tool!Goto, Tool!Cleared, Tool!Unlocked
<1> QED BY <1>1, <1>2, <1>3, <1>4, <1>5, <1>6 DEF ToolInv

\* A connection becomes the tool's own when it can be called.
LEMMA ToolListedKeeps == ASSUME Tool!ToolAssumption, ToolInv, NEW c \in Callers, Tool!Listed(c) PROVE ToolInv'
<1>1. ToolShapes'
  BY DEF Tool!ToolAssumption, ToolInv, ToolShapes, HasConn, Tool!Coalesced, Tool!Pooled, Tool!Listed, Tool!Goto, Tool!sharing
<1>2. ToolModes'
  BY DEF Tool!ToolAssumption, ToolInv, ToolShapes, ToolModes, Tool!Coalesced, Tool!Pooled, Tool!Listed, Tool!Goto, Tool!sharing
<1>3. ToolApart'
  BY DEF Tool!ToolAssumption, ToolInv, ToolShapes, ToolApart, HasConn, Tool!Coalesced, Tool!Pooled, Tool!Listed, Tool!Goto, Tool!sharing
<1>4. ToolFlights'
  BY DEF Tool!ToolAssumption, ToolInv, ToolShapes, ToolModes, ToolApart, ToolFlights, HasConn, Tool!Coalesced, Tool!Pooled, Tool!Listed, Tool!Goto, Tool!sharing
<1>5. ToolTurns'
  <2>1. /\ at[c] = "listing" /\ at' = [at EXCEPT ![c] = "calling"] /\ (Tool!Pooled => own' = mine[c])
        /\ UNCHANGED <<use, live, mine, spoilt, dead, lock, drained, leaving>>
    BY DEF Tool!Listed, Tool!Goto
  <2>2. Tool!Pooled => /\ lock = c /\ \A d \in Callers : Tool!Over(d) => d = c
                  /\ own = 0 /\ mine[c] \in live \ (dead \cup leaving) /\ mine[c] # 0
    BY <2>1 DEF ToolInv, ToolTurns, Tool!Over, ToolShapes
  <2>3. \A d \in Callers : Tool!Over(d)' => Tool!Over(d)
    BY <2>1 DEF ToolInv, ToolShapes, Tool!Over
  <2>4. Tool!Pooled => ~spoilt
    BY <2>2 DEF ToolInv, ToolTurns
  <2> QED BY <2>1, <2>2, <2>3, <2>4 DEF ToolInv, ToolTurns, ToolShapes, Tool!Over, Tool!Pooled
<1>6. ToolKept'
  BY DEF Tool!ToolAssumption, ToolInv, ToolShapes, ToolApart, ToolTurns, ToolKept, HasConn, Tool!Over, Tool!Coalesced, Tool!Pooled, Tool!Listed, Tool!Goto, Tool!sharing
<1> QED BY <1>1, <1>2, <1>3, <1>4, <1>5, <1>6 DEF ToolInv

\* A call that fails spoils the connection before it lets the lock go.
LEMMA ToolAnsweredKeeps == ASSUME Tool!ToolAssumption, ToolInv, NEW c \in Callers, Tool!Answered(c) PROVE ToolInv'
<1>1. ToolShapes'
  BY DEF Tool!ToolAssumption, ToolInv, ToolShapes, HasConn, Tool!Coalesced, Tool!Pooled, Tool!Answered, Tool!Goto, Tool!Ends, Tool!Unlocked, Tool!Spoilt, Tool!sharing
<1>2. ToolModes'
  BY DEF Tool!ToolAssumption, ToolInv, ToolShapes, ToolModes, Tool!Coalesced, Tool!Pooled, Tool!Answered, Tool!Goto, Tool!Ends, Tool!Unlocked, Tool!Spoilt, Tool!sharing
<1>3. ToolApart'
  BY DEF Tool!ToolAssumption, ToolInv, ToolShapes, ToolApart, HasConn, Tool!Coalesced, Tool!Pooled, Tool!Answered, Tool!Goto, Tool!Ends, Tool!Unlocked, Tool!Spoilt, Tool!sharing
<1>4. ToolFlights'
  BY DEF Tool!ToolAssumption, ToolInv, ToolShapes, ToolModes, ToolApart, ToolFlights, HasConn, Tool!Coalesced, Tool!Pooled, Tool!Answered, Tool!Goto, Tool!Ends, Tool!Unlocked, Tool!Spoilt, Tool!sharing
<1>5. ToolTurns'
  BY DEF Tool!ToolAssumption, ToolInv, ToolShapes, ToolModes, ToolTurns, HasConn, Tool!Over, Tool!Coalesced, Tool!Pooled, Tool!Answered, Tool!Goto, Tool!Ends, Tool!Unlocked, Tool!Spoilt, Tool!sharing
<1>6. ToolKept'
  BY DEF Tool!ToolAssumption, ToolInv, ToolShapes, ToolApart, ToolTurns, ToolKept, HasConn, Tool!Over, Tool!Coalesced, Tool!Pooled, Tool!Answered, Tool!Goto, Tool!Ends, Tool!Unlocked, Tool!Spoilt, Tool!sharing
<1> QED BY <1>1, <1>2, <1>3, <1>4, <1>5, <1>6 DEF ToolInv

\* A connection of one call ends with it, and so does its key.
LEMMA ToolExitKeeps == ASSUME Tool!ToolAssumption, ToolInv, NEW c \in Callers, Tool!Exit(c) PROVE ToolInv'
<1>1. ToolShapes'
  BY DEF Tool!ToolAssumption, ToolInv, ToolShapes, HasConn, Tool!Coalesced, Tool!Pooled, Tool!Exit, Tool!Settle, Tool!Ends, Tool!Goto, Tool!Cleared
<1>2. ToolModes'
  BY DEF Tool!ToolAssumption, ToolInv, ToolShapes, ToolModes, Tool!Coalesced, Tool!Pooled, Tool!Exit, Tool!Settle, Tool!Ends, Tool!Goto, Tool!Cleared
<1>3. ToolApart'
  BY DEF Tool!ToolAssumption, ToolInv, ToolShapes, ToolApart, HasConn, Tool!Coalesced, Tool!Pooled, Tool!Exit, Tool!Settle, Tool!Ends, Tool!Goto, Tool!Cleared
<1>4. ToolFlights'
  BY DEF Tool!ToolAssumption, ToolInv, ToolShapes, ToolModes, ToolApart, ToolFlights, HasConn, Tool!Coalesced, Tool!Pooled, Tool!Exit, Tool!Settle, Tool!Ends, Tool!Goto, Tool!Cleared
<1>5. ToolTurns'
  BY DEF Tool!ToolAssumption, ToolInv, ToolShapes, ToolModes, ToolTurns, HasConn, Tool!Over, Tool!Coalesced, Tool!Pooled, Tool!Exit, Tool!Settle, Tool!Ends, Tool!Goto, Tool!Cleared
<1>6. ToolKept'
  BY DEF Tool!ToolAssumption, ToolInv, ToolShapes, ToolApart, ToolTurns, ToolKept, HasConn, Tool!Over, Tool!Coalesced, Tool!Pooled, Tool!Exit, Tool!Settle, Tool!Ends, Tool!Goto, Tool!Cleared
<1> QED BY <1>1, <1>2, <1>3, <1>4, <1>5, <1>6 DEF ToolInv

\* A call that is cancelled lets go of its lock, its key and, but for a pool, its process.
LEMMA ToolCancelKeeps == ASSUME Tool!ToolAssumption, ToolInv, NEW c \in Callers, Tool!Cancel(c) PROVE ToolInv'
<1>1. ToolShapes'
  BY DEF Tool!ToolAssumption, ToolInv, ToolShapes, HasConn, Tool!Coalesced, Tool!Pooled, Tool!Cancel, Tool!AtCancel, Tool!Unlocked, Tool!Ends, Tool!Goto, Tool!Settle, Tool!Cleared, Tool!sharing
<1>2. ToolModes'
  BY DEF Tool!ToolAssumption, ToolInv, ToolShapes, ToolModes, Tool!Coalesced, Tool!Pooled, Tool!Cancel, Tool!AtCancel, Tool!Unlocked, Tool!Ends, Tool!Goto, Tool!Settle, Tool!Cleared, Tool!sharing
<1>3. ToolApart'
  BY DEF Tool!ToolAssumption, ToolInv, ToolShapes, ToolApart, HasConn, Tool!Coalesced, Tool!Pooled, Tool!Cancel, Tool!AtCancel, Tool!Unlocked, Tool!Ends, Tool!Goto, Tool!Settle, Tool!Cleared, Tool!sharing
<1>4. ToolFlights'
  BY DEF Tool!ToolAssumption, ToolInv, ToolShapes, ToolModes, ToolApart, ToolFlights, HasConn, Tool!Coalesced, Tool!Pooled, Tool!Cancel, Tool!AtCancel, Tool!Unlocked, Tool!Ends, Tool!Goto, Tool!Settle, Tool!Cleared, Tool!sharing
<1>5. ToolTurns'
  BY DEF Tool!ToolAssumption, ToolInv, ToolShapes, ToolModes, ToolTurns, HasConn, Tool!Over, Tool!Coalesced, Tool!Pooled, Tool!Cancel, Tool!AtCancel, Tool!Unlocked, Tool!Ends, Tool!Goto, Tool!Settle, Tool!Cleared, Tool!sharing
<1>6. ToolKept'
  BY DEF Tool!ToolAssumption, ToolInv, ToolShapes, ToolApart, ToolTurns, ToolKept, HasConn, Tool!Over, Tool!Coalesced, Tool!Pooled, Tool!Cancel, Tool!AtCancel, Tool!Unlocked, Tool!Ends, Tool!Goto, Tool!Settle, Tool!Cleared, Tool!sharing
<1> QED BY <1>1, <1>2, <1>3, <1>4, <1>5, <1>6 DEF ToolInv

\* A call that is cancelled while it waits leaves the connection to its owner.
LEMMA ToolCancelWaiterKeeps == ASSUME Tool!ToolAssumption, ToolInv, NEW c \in Callers, Tool!CancelWaiter(c) PROVE ToolInv'
<1>1. ToolShapes'
  BY DEF Tool!ToolAssumption, ToolInv, ToolShapes, HasConn, Tool!Coalesced, Tool!Pooled, Tool!CancelWaiter, Tool!Ends, Tool!Goto, Tool!connections
<1>2. ToolModes'
  BY DEF Tool!ToolAssumption, ToolInv, ToolShapes, ToolModes, Tool!Coalesced, Tool!Pooled, Tool!CancelWaiter, Tool!Ends, Tool!Goto, Tool!connections
<1>3. ToolApart'
  BY DEF Tool!ToolAssumption, ToolInv, ToolShapes, ToolApart, HasConn, Tool!Coalesced, Tool!Pooled, Tool!CancelWaiter, Tool!Ends, Tool!Goto, Tool!connections
<1>4. ToolFlights'
  BY DEF Tool!ToolAssumption, ToolInv, ToolShapes, ToolModes, ToolApart, ToolFlights, HasConn, Tool!Coalesced, Tool!Pooled, Tool!CancelWaiter, Tool!Ends, Tool!Goto, Tool!connections
<1>5. ToolTurns'
  BY DEF Tool!ToolAssumption, ToolInv, ToolShapes, ToolModes, ToolTurns, HasConn, Tool!Over, Tool!Coalesced, Tool!Pooled, Tool!CancelWaiter, Tool!Ends, Tool!Goto, Tool!connections
<1>6. ToolKept'
  BY DEF Tool!ToolAssumption, ToolInv, ToolShapes, ToolApart, ToolTurns, ToolKept, HasConn, Tool!Over, Tool!Coalesced, Tool!Pooled, Tool!CancelWaiter, Tool!Ends, Tool!Goto, Tool!connections
<1> QED BY <1>1, <1>2, <1>3, <1>4, <1>5, <1>6 DEF ToolInv

\* close() takes the connection while nobody holds the lock.
LEMMA ToolCloseKeeps == ASSUME Tool!ToolAssumption, ToolInv, Tool!Close PROVE ToolInv'
<1>1. ToolShapes'
  <2>1. leaving' \subseteq 1..opened
    BY DEF Tool!Close, ToolInv, ToolShapes
  <2>2. /\ own' = 0 /\ spoilt' = FALSE /\ UNCHANGED <<use, at, inflight, opened, live, dead, mine, lock>>
    BY DEF Tool!Close, Tool!sharing
  <2>3. \A d \in Callers : HasConn(d)' <=> HasConn(d)
    BY <2>2 DEF HasConn
  <2>4. own' \in 0..opened' /\ spoilt' \in BOOLEAN
    <3>1. opened' = opened /\ own' = 0 /\ spoilt' = FALSE
      BY <2>2
    <3>2. opened \in Nat
      BY DEF ToolInv, ToolShapes
    <3>3. 0 \in 0..opened
      BY <3>2
    <3> QED BY <3>1, <3>3
  <2> QED BY <2>1, <2>2, <2>3, <2>4 DEF ToolInv, ToolShapes
<1>2. ToolModes'
  BY DEF Tool!ToolAssumption, ToolInv, ToolShapes, ToolModes, Tool!Coalesced, Tool!Pooled, Tool!Close, Tool!MayEnter, Tool!sharing
<1>3. ToolApart'
  BY DEF Tool!ToolAssumption, ToolInv, ToolShapes, ToolApart, HasConn, Tool!Coalesced, Tool!Pooled, Tool!Close, Tool!MayEnter, Tool!sharing
<1>4. ToolFlights'
  BY DEF Tool!ToolAssumption, ToolInv, ToolShapes, ToolModes, ToolApart, ToolFlights, HasConn, Tool!Coalesced, Tool!Pooled, Tool!Close, Tool!MayEnter, Tool!sharing
<1>5. ToolTurns'
  BY DEF Tool!ToolAssumption, ToolInv, ToolShapes, ToolModes, ToolTurns, HasConn, Tool!Over, Tool!Coalesced, Tool!Pooled, Tool!Close, Tool!MayEnter, Tool!sharing
<1>6. ToolKept'
  BY DEF Tool!ToolAssumption, ToolInv, ToolShapes, ToolApart, ToolTurns, ToolKept, HasConn, Tool!Over, Tool!Coalesced, Tool!Pooled, Tool!Close, Tool!MayEnter, Tool!sharing
<1> QED BY <1>1, <1>2, <1>3, <1>4, <1>5, <1>6 DEF ToolInv

\* What close() took ends.
LEMMA ToolDrainKeeps == ASSUME Tool!ToolAssumption, ToolInv, Tool!Drain PROVE ToolInv'
<1>1. ToolShapes'
  BY DEF Tool!ToolAssumption, ToolInv, ToolShapes, HasConn, Tool!Coalesced, Tool!Pooled, Tool!Drain, Tool!sharing
<1>2. ToolModes'
  BY DEF Tool!ToolAssumption, ToolInv, ToolShapes, ToolModes, Tool!Coalesced, Tool!Pooled, Tool!Drain, Tool!sharing
<1>3. ToolApart'
  BY DEF Tool!ToolAssumption, ToolInv, ToolShapes, ToolApart, HasConn, Tool!Coalesced, Tool!Pooled, Tool!Drain, Tool!sharing
<1>4. ToolFlights'
  BY DEF Tool!ToolAssumption, ToolInv, ToolShapes, ToolModes, ToolApart, ToolFlights, HasConn, Tool!Coalesced, Tool!Pooled, Tool!Drain, Tool!sharing
<1>5. ToolTurns'
  BY DEF Tool!ToolAssumption, ToolInv, ToolShapes, ToolModes, ToolTurns, HasConn, Tool!Over, Tool!Coalesced, Tool!Pooled, Tool!Drain, Tool!sharing
<1>6. ToolKept'
  BY DEF Tool!ToolAssumption, ToolInv, ToolShapes, ToolApart, ToolTurns, ToolKept, HasConn, Tool!Over, Tool!Coalesced, Tool!Pooled, Tool!Drain, Tool!sharing
<1> QED BY <1>1, <1>2, <1>3, <1>4, <1>5, <1>6 DEF ToolInv

\* Every step of the tool keeps the invariant.
LEMMA ToolSteps == ASSUME Tool!ToolAssumption, ToolInv, [Tool!Next]_(Tool!vars) PROVE ToolInv'
<1>1. CASE UNCHANGED Tool!vars
  BY <1>1 DEF Tool!vars, Tool!connections, Tool!sharing, ToolInv, ToolShapes, ToolModes, ToolApart, ToolFlights, ToolTurns, ToolKept, HasConn, Tool!Over, Tool!Pooled, Tool!Coalesced
<1>2. CASE Tool!Next
  BY <1>2, ToolJoinKeeps, ToolFreshKeeps, ToolQueueKeeps, ToolWokenKeeps, ToolEnterKeeps, ToolSwapKeeps, ToolConnectedKeeps, ToolRefusedKeeps, ToolListedKeeps, ToolAnsweredKeeps, ToolExitKeeps, ToolCancelKeeps, ToolCancelWaiterKeeps, ToolCloseKeeps, ToolDrainKeeps DEF Tool!Next, Tool!Step
<1> QED BY <1>1, <1>2

\* The invariant is more than what the tool promises.
LEMMA ToolHolds == ASSUME Tool!ToolAssumption, ToolInv PROVE Tool!ToolFaithful
<1>1. Tool!OneInFlight
  BY DEF Tool!OneInFlight, Tool!ToolAssumption, ToolInv, ToolShapes, ToolModes, ToolApart, ToolFlights, HasConn, Tool!Over, Tool!Pooled, Tool!Coalesced
<1>2. Tool!PooledOneByOne
  BY DEF Tool!PooledOneByOne, ToolInv, ToolShapes, ToolModes, ToolTurns, Tool!Over, Tool!Pooled
<1>3. Tool!NoProcessLeft
  BY DEF Tool!NoProcessLeft, ToolInv, ToolKept, HasConn, Tool!Over
<1> QED BY <1>1, <1>2, <1>3 DEF Tool!ToolFaithful

\* McpTool, whatever fails or is cancelled: identical calls share a connection
\* while one is in flight and no key outlives its call; a connection of the
\* tool's own serves one call at a time and none after one over it has failed;
\* and a server's process is used, kept or about to be ended.
THEOREM ToolsKeepTheirConnections ==
  ASSUME Tool!ToolAssumption
  PROVE  Tool!Spec => []Tool!ToolFaithful
<1>1. Tool!Init => ToolInv
  BY ToolStart
<1>2. ToolInv /\ [Tool!Next]_(Tool!vars) => ToolInv'
  BY ToolSteps
<1>3. ToolInv => Tool!ToolFaithful
  BY ToolHolds
<1> QED
  BY <1>1, <1>2, <1>3, PTL DEF Tool!Spec
=============================================================================
