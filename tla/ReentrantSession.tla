-------------------------- MODULE ReentrantSession --------------------------
(***************************************************************************)
(* The per-session lock every builtin session backend takes around a run:  *)
(* reentrant_session() of plugins/builtin/session/_reentry.py over an      *)
(* asyncio.Lock per session id, used by session(), fork_session() and, as  *)
(* a plain `async with lock`, by delete_session().                         *)
(*                                                                         *)
(* Reentrancy is decided by the ContextVar _HELD_SESSIONS.  Its value is   *)
(* part of a task's context, and asyncio.create_task copies the context of *)
(* the creating task: a spawned task starts with the sessions its creator  *)
(* held.  The model keeps that copy, so it shows both what it is good for  *)
(* (a tool task may reenter the session of the run awaiting it) and what   *)
(* it costs (a task nobody awaits enters without the lock).                *)
(***************************************************************************)
EXTENDS Naturals, Sequences, FiniteSets, SequencesExt

CONSTANTS
    Sessions,   \* session ids
    Tasks,      \* asyncio tasks
    NoTask,     \* no task awaited
    Nests,      \* pairs <<s, r>>: a holder of s may open r (child sessions)
    MaxOpens,   \* bound: sessions a task opens in its life
    Detached    \* may a spawned task be left running by its creator?

ASSUME SessionAssumption ==
    /\ NoTask \notin Tasks
    /\ Nests \subseteq Sessions \X Sessions
    /\ MaxOpens \in Nat
    /\ Detached \in BOOLEAN

VARIABLES
    locked,     \* the sessions whose asyncio.Lock is locked
    waiters,    \* Lock._waiters: the tasks queued on a session, in order
    woken,      \* the queued tasks whose future is resolved
    held,       \* _HELD_SESSIONS in the task's context
    frames,     \* the `async with` bodies a task is inside, innermost last
    pc,         \* where the task is
    want,       \* the session and kind a queued task asked for
    child,      \* the task a task awaits
    inherited,  \* history: the context a task was created with
    opens       \* history: how many sessions a task has opened

vars == <<locked, waiters, woken, held, frames, pc, want, child, inherited, opens>>

Kinds == {"session", "delete"}
Request == [sid: Sessions, kind: Kinds]
\* A body is entered with the lock acquired for it ("session", "delete") or
\* through the context alone ("reentered"); prev is the reset token.
Frame == [sid: Sessions, kind: Kinds \cup {"reentered"}, prev: SUBSET Sessions]

OwnFrame(f) == f.kind # "reentered"

TypeOK ==
    /\ locked \subseteq Sessions
    /\ waiters \in [Sessions -> Seq(Tasks)]
    /\ woken \subseteq Tasks
    /\ held \in [Tasks -> SUBSET Sessions]
    /\ frames \in [Tasks -> Seq(Frame)]
    /\ pc \in [Tasks -> {"absent", "run", "wait", "join", "done"}]
    /\ want \in [Tasks -> Request \cup {<<>>}]
    /\ child \in [Tasks -> Tasks \cup {NoTask}]
    /\ inherited \in [Tasks -> SUBSET Sessions]
    /\ opens \in [Tasks -> Nat]
    /\ \A t \in Tasks : pc[t] = "join" <=> child[t] # NoTask

Init ==
    /\ locked = {}
    /\ waiters = [s \in Sessions |-> <<>>]
    /\ woken = {}
    /\ held = [t \in Tasks |-> {}]
    /\ frames = [t \in Tasks |-> <<>>]
    /\ pc = [t \in Tasks |-> "absent"]
    /\ want = [t \in Tasks |-> <<>>]
    /\ child = [t \in Tasks |-> NoTask]
    /\ inherited = [t \in Tasks |-> {}]
    /\ opens = [t \in Tasks |-> 0]

(***************************************************************************)
(* Tasks.  A root task is a caller's; create_task copies the context.      *)
(***************************************************************************)
Start(t) ==
    /\ pc[t] = "absent"
    /\ pc' = [pc EXCEPT ![t] = "run"]
    /\ UNCHANGED <<locked, waiters, woken, held, frames, want, child, inherited, opens>>

\* A task free to act; the body of a delete is straight-line code.
Acting(t) == pc[t] = "run" /\ (frames[t] # <<>> => Last(frames[t]).kind # "delete")

CreateTask(p, c) ==
    /\ Acting(p)
    /\ pc[c] = "absent"
    /\ held' = [held EXCEPT ![c] = held[p]]
    /\ inherited' = [inherited EXCEPT ![c] = held[p]]

\* create_task whose result nobody awaits: a background delegation.
SpawnBackground(p, c) ==
    /\ Detached
    /\ CreateTask(p, c)
    /\ pc' = [pc EXCEPT ![c] = "run"]
    /\ UNCHANGED <<locked, waiters, woken, frames, want, child, opens>>

\* Mutant of Await: the creator goes on instead of awaiting the tool task.
Await_Not(p, c) == pc' = [pc EXCEPT ![c] = "run"] /\ UNCHANGED child

Await(p, c) == pc' = [pc EXCEPT ![p] = "join", ![c] = "run"] /\ child' = [child EXCEPT ![p] = c]

\* create_task awaited at once: the tool task of SafeToolExecutor.
SpawnAwait(p, c) ==
    /\ CreateTask(p, c)
    /\ Await(p, c)
    /\ UNCHANGED <<locked, waiters, woken, frames, want, opens>>

Resume(p) == pc' = [pc EXCEPT ![p] = "run"] /\ child' = [child EXCEPT ![p] = NoTask]

Joined(p) ==
    /\ pc[p] = "join"
    /\ pc[child[p]] = "done"
    /\ Resume(p)
    /\ UNCHANGED <<locked, waiters, woken, held, frames, want, inherited, opens>>

\* The creator is cancelled while it awaits the tool task: the executor
\* re-raises and leaves the tool task running.
CancelJoin(p) ==
    /\ Detached
    /\ pc[p] = "join"
    /\ Resume(p)
    /\ UNCHANGED <<locked, waiters, woken, held, frames, want, inherited, opens>>

Finish(t) ==
    /\ pc[t] = "run"
    /\ frames[t] = <<>>
    /\ pc' = [pc EXCEPT ![t] = "done"]
    /\ UNCHANGED <<locked, waiters, woken, held, frames, want, child, inherited, opens>>

(***************************************************************************)
(* asyncio.Lock, as reentrant_session and delete_session use it.           *)
(***************************************************************************)
\* Mutant of Free: a task arriving between a release and the woken waiter's
\* turn takes the lock.
Free_Barging(s) == s \notin locked

Free(s) == s \notin locked /\ waiters[s] = <<>>

\* Lock._wake_up_first: resolve the future of the first waiter, if any.
WakeFirst(queue) == woken \cup (IF queue = <<>> THEN {} ELSE {Head(queue)})

\* Mutant of MayOpen: every session() takes the lock, also when held.
MayOpen_NotReentrant(t, s, kind) ==
    /\ Acting(t)
    /\ opens[t] < MaxOpens
    /\ \A r \in held[t] \ {s} : <<r, s>> \in Nests
    /\ opens' = [opens EXCEPT ![t] = @ + 1]

\* A delete is issued from outside the session; nothing in the program calls
\* it from inside, where its plain lock would wait for itself.
MayOpen(t, s, kind) ==
    /\ Acting(t)
    /\ opens[t] < MaxOpens
    /\ s \notin held[t]
    /\ \A r \in held[t] : <<r, s>> \in Nests
    /\ opens' = [opens EXCEPT ![t] = @ + 1]

EnterBody(t, s, kind) ==
    /\ locked' = locked \cup {s}
    /\ frames' = [frames EXCEPT ![t] =
                     Append(@, [sid |-> s, kind |-> kind, prev |-> held[t]])]
    /\ held' = [held EXCEPT ![t] = IF kind = "session" THEN @ \cup {s} ELSE @]

Acquire(t, s, kind) ==
    /\ MayOpen(t, s, kind)
    /\ Free(s)
    /\ EnterBody(t, s, kind)
    /\ UNCHANGED <<waiters, woken, pc, want, child, inherited>>

Enqueue(t, s, kind) ==
    /\ MayOpen(t, s, kind)
    /\ ~Free(s)
    /\ waiters' = [waiters EXCEPT ![s] = Append(@, t)]
    /\ want' = [want EXCEPT ![t] = [sid |-> s, kind |-> kind]]
    /\ pc' = [pc EXCEPT ![t] = "wait"]
    /\ UNCHANGED <<locked, woken, held, frames, child, inherited>>

\* The woken waiter runs: it leaves the queue and takes the lock.
AcquireWoken(t) ==
    /\ pc[t] = "wait"
    /\ t \in woken
    /\ waiters' = [waiters EXCEPT ![want[t].sid] = RemoveFirst(@, t)]
    /\ woken' = woken \ {t}
    /\ EnterBody(t, want[t].sid, want[t].kind)
    /\ pc' = [pc EXCEPT ![t] = "run"]
    /\ want' = [want EXCEPT ![t] = <<>>]
    /\ UNCHANGED <<child, inherited, opens>>

\* Mutant of WokenAfterCancel: the cancelled waiter passes no wake-up on.
WokenAfterCancel_None(s, rest) == woken

WokenAfterCancel(s, rest) == IF s \in locked THEN woken ELSE WakeFirst(rest)

\* Cancellation while queued, woken or not: the task leaves the queue and,
\* if the lock is free, passes the wake-up on.
CancelWait(t) ==
    /\ pc[t] = "wait"
    /\ LET s == want[t].sid
           rest == RemoveFirst(waiters[s], t)
       IN /\ waiters' = [waiters EXCEPT ![s] = rest]
          /\ woken' = WokenAfterCancel(s, rest) \ {t}
    /\ pc' = [pc EXCEPT ![t] = "run"]
    /\ want' = [want EXCEPT ![t] = <<>>]
    /\ UNCHANGED <<locked, held, frames, child, inherited, opens>>

\* reentrant_session for a session the context names: no lock is taken.
Reenter(t, s) ==
    /\ Acting(t)
    /\ opens[t] < MaxOpens
    /\ s \in held[t]
    /\ frames' = [frames EXCEPT ![t] =
                     Append(@, [sid |-> s, kind |-> "reentered", prev |-> held[t]])]
    /\ opens' = [opens EXCEPT ![t] = @ + 1]
    /\ UNCHANGED <<locked, waiters, woken, held, pc, want, child, inherited>>

Releases(f) == f.kind # "reentered"

\* _HELD_SESSIONS.reset(token)
Restored(t, f) == f.prev

\* The innermost body ends, normally or by an exception: the finally block
\* resets the context and releases the lock this frame acquired.
Leave(t) ==
    /\ pc[t] = "run"
    /\ frames[t] # <<>>
    /\ LET f == Last(frames[t]) IN
          /\ frames' = [frames EXCEPT ![t] = Front(@)]
          /\ held' = [held EXCEPT ![t] = Restored(t, f)]
          /\ IF Releases(f)
             THEN /\ locked' = locked \ {f.sid}
                  /\ woken' = WakeFirst(waiters[f.sid])
             ELSE UNCHANGED <<locked, woken>>
    /\ UNCHANGED <<waiters, pc, want, child, inherited, opens>>

Next ==
    \E t \in Tasks :
       \/ Start(t)
       \/ \E c \in Tasks : SpawnBackground(t, c) \/ SpawnAwait(t, c)
       \/ Joined(t)
       \/ CancelJoin(t)
       \/ Finish(t)
       \/ \E s \in Sessions, kind \in Kinds : Acquire(t, s, kind) \/ Enqueue(t, s, kind)
       \/ AcquireWoken(t)
       \/ CancelWait(t)
       \/ \E s \in Sessions : Reenter(t, s)
       \/ Leave(t)

Spec == Init /\ [][Next]_vars

\* The event loop runs every ready task, and a body, a tool task and a woken
\* waiter do not stall for ever.  Nothing forces a task to open a session.
Fairness ==
    \A t \in Tasks : WF_vars(Leave(t) \/ Finish(t) \/ Joined(t) \/ AcquireWoken(t))

FairSpec == Spec /\ Fairness

(***************************************************************************)
(* Properties.                                                             *)
(***************************************************************************)
Inside(t, s) == \E i \in DOMAIN frames[t] : frames[t][i].sid = s

Owns(t, s) ==
    \E i \in DOMAIN frames[t] : frames[t][i].sid = s /\ OwnFrame(frames[t][i])

\* A session's lock is locked exactly while one body that acquired it is open:
\* the lock is neither released by a reentered frame nor kept after the
\* acquiring frame has ended (the try/finally of reentrant_session).
LockMatchesOwner ==
    \A s \in Sessions :
       /\ s \in locked <=> \E t \in Tasks : Owns(t, s)
       /\ \A t1, t2 \in Tasks : Owns(t1, s) /\ Owns(t2, s) => t1 = t2

\* The context names exactly the sessions the task was created with and those
\* it acquired itself in an open session() body, through any nesting, waiting
\* and cancellation: the token restores what the frame found.
ContextMatchesFrames ==
    \A t \in Tasks :
       held[t] = inherited[t] \cup
                 {s \in Sessions : \E i \in DOMAIN frames[t] :
                     frames[t][i].sid = s /\ frames[t][i].kind = "session"}

\* Two tasks that did not inherit a session from their creator are never both
\* inside it: runs of independent callers serialise on the session.
IndependentExclusion ==
    \A s \in Sessions : \A t1, t2 \in Tasks :
       /\ Inside(t1, s) /\ s \notin inherited[t1]
       /\ Inside(t2, s) /\ s \notin inherited[t2]
       => t1 = t2

\* No wake-up is lost: when the lock is free and tasks are queued, the first
\* of them has been woken, also when a woken waiter was cancelled.
NoLostWakeup ==
    \A s \in Sessions :
       s \notin locked /\ waiters[s] # <<>> => Head(waiters[s]) \in woken

\* What the delegation spec says of the builtin backends: across asyncio tasks
\* the lock remains mutually exclusive, so of two tasks inside one session one
\* is awaiting the other.
TaskExclusion ==
    \A s \in Sessions : \A t1, t2 \in Tasks :
       t1 # t2 /\ Inside(t1, s) /\ Inside(t2, s) => pc[t1] = "join" \/ pc[t2] = "join"

\* A queued task gets out of the queue: the lock is handed on in order, and
\* child sessions nest one way only.
EveryWaitEnds == \A t \in Tasks : (pc[t] = "wait") ~> (pc[t] # "wait")

(***************************************************************************)
(* Implemented abstraction: a session is a room with one host, entered by  *)
(* guests only while the host is in (module SessionRoom).                  *)
(***************************************************************************)
Host(s) ==
    IF \E t \in Tasks : Owns(t, s) THEN CHOOSE t \in Tasks : Owns(t, s) ELSE NoTask
Guests(s) == {t \in Tasks : Inside(t, s) /\ ~Owns(t, s)}

Room == INSTANCE SessionRoom WITH
            host <- [s \in Sessions |-> Host(s)],
            guests <- [s \in Sessions |-> Guests(s)]
RoomSpec == Room!Spec
=============================================================================
