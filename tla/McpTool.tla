------------------------------ MODULE McpTool ------------------------------
(***************************************************************************)
(* An McpTool outside a session's pool: a connection for every call, with   *)
(* identical calls in flight sharing one answer, or one connection of the   *)
(* tool's own that calls take in turn and that is replaced, on the next     *)
(* call, when a call over it has failed.  Callers are the tool calls and    *)
(* batches of tasks that may be cancelled wherever they wait; the server    *)
(* may refuse, fail or die at any moment.                                   *)
(***************************************************************************)
EXTENDS Naturals, FiniteSets

CONSTANTS
    Callers,
    Keys,        \* what is called: a tool's name and the hash of its arguments
    Uses,        \* [mode, key, items, cancels]: the setups to look at
    MaxConns,    \* bound on the connections ever opened
    None

ToolConns == 1..MaxConns

\* None is no caller, and a tool is used in one of three ways.
ToolAssumption ==
    /\ None \notin Callers
    /\ \A u \in Uses : u.mode \in {"fresh", "coalesced", "pooled"} /\ \A c \in Callers : u.key[c] \in Keys

VARIABLES
    use,         \* mode: "fresh", "coalesced" or "pooled"
    pc,
    left,        \* per caller: the items of its batch still to call
    out,         \* how its last call ended
    struck,      \* the callers that were cancelled
    inflight,    \* per key: the call in flight, named after its connection, or 0
    future,      \* per call in flight: what those who joined it wait for
    opened,      \* connections are numbered as they are opened
    live,        \* those whose server process is up
    dead,        \* those a call has failed over
    mine,        \* per caller: the connection of the call it makes or waits for
    own,         \* the pooled connection, or 0
    stale,
    lock,        \* who holds _session_lock
    closed,      \* has close() taken the connection, to exit it?
    leaving

connections == <<opened, live, dead, mine, own, stale, lock, closed, leaving>>
sharing == <<inflight, future>>
vars == <<use, pc, left, out, struck, sharing, connections>>

Pooled == use.mode = "pooled"
Coalesced == use.mode = "coalesced"

Init ==
    /\ use \in Uses
    /\ pc = [c \in Callers |-> "idle"]
    /\ left = use.items
    /\ out = [c \in Callers |-> "none"]
    /\ struck = {}
    /\ inflight = [k \in Keys |-> 0]
    /\ future = [n \in ToolConns |-> "pending"]
    /\ opened = 0 /\ live = {} /\ dead = {}
    /\ mine = [c \in Callers |-> 0]
    /\ own = 0 /\ stale = FALSE /\ lock = None
    /\ closed = FALSE /\ leaving = {}

Goto(c, where) == pc' = [pc EXCEPT ![c] = where]

\* McpConnection.__aenter__ begins.
Connect(c) ==
    /\ opened < MaxConns
    /\ opened' = opened + 1
    /\ mine' = [mine EXCEPT ![c] = opened']
    /\ Goto(c, "connecting")

(***************************************************************************)
(* invoke()                                                                *)
(***************************************************************************)
\* Mutant of Matching: nobody looks for a call in flight.
Matching_None(c) == 0

\* The call in flight that is this one as well.
Matching(c) == IF Coalesced THEN inflight[use.key[c]] ELSE 0

Ready(c) == pc[c] = "idle" /\ left[c] > 0

Join(c) ==
    /\ Ready(c) /\ Matching(c) # 0
    /\ mine' = [mine EXCEPT ![c] = Matching(c)]
    /\ Goto(c, "waiting")
    /\ UNCHANGED <<use, left, out, struck, sharing, opened, live, dead, own, stale, lock, closed, leaving>>

Fresh(c) ==
    /\ Ready(c) /\ ~Pooled /\ Matching(c) = 0
    /\ Connect(c)
    /\ live' = live \cup {opened'}
    /\ inflight' = IF Coalesced THEN [inflight EXCEPT ![use.key[c]] = opened'] ELSE inflight
    /\ UNCHANGED <<use, left, out, struck, future, dead, own, stale, lock, closed, leaving>>

\* The call ends, and with it the caller, or its batch goes on.
Ends(c, how) ==
    /\ out' = [out EXCEPT ![c] = how]
    /\ left' = [left EXCEPT ![c] = IF how = "cancelled" THEN 0 ELSE @ - 1]
    /\ Goto(c, IF how = "cancelled" \/ left[c] = 1 THEN "done" ELSE "idle")

\* Mutant of Cleared: the key stays when the call fails.
Cleared_OnResult(n, how) ==
    [k \in Keys |-> IF inflight[k] = n /\ how = "result" THEN 0 ELSE inflight[k]]

Cleared(n, how) == [k \in Keys |-> IF inflight[k] = n THEN 0 ELSE inflight[k]]

\* What the owner leaves to those who joined, unless one of them has cancelled
\* the future: its own cancellation becomes a RuntimeError.
Told(n, how) ==
    IF future[n] # "pending" THEN future[n] ELSE IF how = "cancelled" THEN "error" ELSE how

Settle(c, how) ==
    /\ inflight' = Cleared(mine[c], how)
    /\ future' = [future EXCEPT ![mine[c]] = Told(mine[c], how)]
    /\ Ends(c, how)

\* A future that was cancelled cancels everybody that waits for it.
Woken(c) ==
    /\ pc[c] = "waiting" /\ future[mine[c]] # "pending"
    /\ Ends(c, future[mine[c]])
    /\ UNCHANGED <<use, struck, sharing, connections>>

(***************************************************************************)
(* _PooledStrategy._call_through_own_pool()                                *)
(***************************************************************************)
Queue(c) ==
    /\ Ready(c) /\ Pooled
    /\ Goto(c, "locking")
    /\ UNCHANGED <<use, left, out, struck, sharing, connections>>

\* Mutant of MayEnter: the session lock is not taken.
MayEnter_Unlocked == TRUE

MayEnter == lock = None

Enter(c) ==
    /\ pc[c] = "locking" /\ MayEnter
    /\ lock' = c
    /\ \/ /\ stale /\ own # 0
          /\ Goto(c, "swapping")
          /\ UNCHANGED <<opened, live, mine>>
       \/ own = 0 /\ Connect(c) /\ live' = live \cup {opened'}
       \/ /\ ~stale /\ own # 0
          /\ mine' = [mine EXCEPT ![c] = own]
          /\ Goto(c, "calling")
          /\ UNCHANGED <<opened, live>>
    /\ UNCHANGED <<use, left, out, struck, sharing, dead, own, stale, closed, leaving>>

\* Mutant of Exited: a stale connection is forgotten, not exited.
Exited_Not(n) == live

Exited(n) == live \ {n}

\* The dead connection is exited, then a new one entered.
Swap(c) ==
    /\ pc[c] = "swapping"
    /\ Connect(c)
    /\ live' = Exited(own) \cup {opened'}
    /\ own' = 0 /\ stale' = FALSE
    /\ UNCHANGED <<use, left, out, struck, sharing, dead, lock, closed, leaving>>

Unlocked(c) == IF lock = c THEN None ELSE lock

(***************************************************************************)
(* A connection is entered, its tools are listed, if they can be, and it is *)
(* called; a fresh one is exited.                                          *)
(***************************************************************************)
Connected(c) ==
    /\ pc[c] = "connecting"
    /\ Goto(c, "listing")
    /\ UNCHANGED <<use, left, out, struck, sharing, connections>>

Refused(c) ==
    /\ pc[c] = "connecting"
    /\ live' = live \ {mine[c]}
    /\ lock' = Unlocked(c)
    /\ Settle(c, "error")
    /\ UNCHANGED <<use, struck, opened, mine, dead, own, stale, closed, leaving>>

Listed(c) ==
    /\ pc[c] = "listing"
    /\ own' = IF Pooled THEN mine[c] ELSE own
    /\ Goto(c, "calling")
    /\ UNCHANGED <<use, left, out, struck, sharing, opened, live, mine, stale, dead, lock, closed, leaving>>

\* Mutant of Spoilt: a connection whose call failed is used again.
Spoilt_Not(how) == stale

Spoilt(how) == stale \/ how = "error"

Answered(c) ==
    /\ pc[c] = "calling"
    /\ \E how \in {"result", "error"} :
       /\ dead' = IF how = "error" THEN dead \cup {mine[c]} ELSE dead
       /\ IF Pooled
            THEN /\ stale' = Spoilt(how)
                 /\ lock' = Unlocked(c)
                 /\ Ends(c, how)
            ELSE /\ out' = [out EXCEPT ![c] = how]
                 /\ Goto(c, "exiting")
                 /\ UNCHANGED <<left, stale, lock>>
    /\ UNCHANGED <<use, struck, sharing, opened, live, mine, own, closed, leaving>>

\* __aexit__ may raise over a result.
Exit(c) ==
    /\ pc[c] = "exiting"
    /\ live' = live \ {mine[c]}
    /\ \E how \in {out[c], "error"} : (out[c] = "cancelled" => how = "cancelled") /\ Settle(c, how)
    /\ UNCHANGED <<use, struck, opened, mine, dead, own, stale, lock, closed, leaving>>

(***************************************************************************)
(* close() takes the lock, forgets the connection, and exits it outside.    *)
(***************************************************************************)
Close ==
    /\ Pooled /\ ~closed /\ MayEnter
    /\ closed' = TRUE
    /\ leaving' = {own} \ {0}
    /\ own' = 0 /\ stale' = FALSE
    /\ UNCHANGED <<use, pc, left, out, struck, sharing, opened, live, dead, mine, lock>>

Drain ==
    /\ leaving # {}
    /\ live' = live \ leaving
    /\ leaving' = {}
    /\ UNCHANGED <<use, pc, left, out, struck, sharing, opened, mine, dead, own, stale, lock, closed>>

(***************************************************************************)
(* A task is cancelled where it waits.  A pooled connection whose tools are *)
(* being listed stays open, and nobody has it.                             *)
(***************************************************************************)
AtCancel(c) ==
    CASE pc[c] \in {"connecting", "exiting"} -> live \ {mine[c]}
      [] pc[c] = "swapping" -> live \ {own}
      [] OTHER -> live

Cancel(c) ==
    /\ use.cancels /\ pc[c] \notin {"idle", "waiting", "done"}
    /\ struck' = struck \cup {c}
    /\ live' = AtCancel(c)
    /\ lock' = Unlocked(c)
    /\ IF Pooled THEN Ends(c, "cancelled") /\ UNCHANGED sharing
       ELSE IF pc[c] \in {"listing", "calling"}
         THEN /\ out' = [out EXCEPT ![c] = "cancelled"]
              /\ Goto(c, "exiting")
              /\ UNCHANGED <<left, sharing>>
         ELSE Settle(c, "cancelled")
    /\ UNCHANGED <<use, opened, mine, dead, own, stale, closed, leaving>>

\* Whoever waits for a future cancels it.
CancelWaiter(c) ==
    /\ use.cancels /\ pc[c] = "waiting"
    /\ struck' = struck \cup {c}
    /\ future' = [future EXCEPT ![mine[c]] = IF @ = "pending" THEN "cancelled" ELSE @]
    /\ Ends(c, "cancelled")
    /\ UNCHANGED <<use, inflight, connections>>

Step(c) ==
    \/ Join(c) \/ Fresh(c) \/ Queue(c)
    \/ Woken(c) \/ Enter(c) \/ Swap(c) \/ Connected(c) \/ Refused(c) \/ Listed(c)
    \/ Answered(c) \/ Exit(c)

Next ==
    \/ \E c \in Callers : Step(c) \/ Cancel(c) \/ CancelWaiter(c)
    \/ Close \/ Drain

Spec == Init /\ [][Next]_vars

(***************************************************************************)
(* Properties.                                                             *)
(***************************************************************************)
Over(c) == pc[c] \in {"swapping", "connecting", "listing", "calling", "exiting"}

\* Identical calls share one session while one is in flight, whatever fails or
\* is cancelled, and the map of calls in flight holds no call that has ended,
\* so no later call joins a dead one.
OneInFlight ==
    Coalesced =>
        /\ \A c, d \in Callers : Over(c) /\ Over(d) /\ use.key[c] = use.key[d] => c = d
        /\ \A k \in Keys : inflight[k] # 0 => \E c \in Callers : Over(c) /\ mine[c] = inflight[k]

\* A pooled connection serves one call at a time, and none after a call over
\* it has failed or close() has taken it.
PooledOneByOne ==
    Pooled =>
        /\ \A c, d \in Callers : Over(c) /\ Over(d) => c = d
        /\ \A c \in Callers : pc[c] = "calling" => mine[c] = own /\ mine[c] \in live \ dead

\* A server's process is used, kept for the next call or about to be ended,
\* unless a caller of a pooled tool was cancelled.
NoProcessLeft ==
    (Pooled /\ use.cancels) \/ \A n \in live :
        n \in leaving \cup {own} \/ \E c \in Callers : Over(c) /\ mine[c] = n

ToolFaithful == OneInFlight /\ PooledOneByOne /\ NoProcessLeft

\* Callers that arrive while a matching call is in flight get its answer: nobody
\* is cancelled but those who are.
WaitersShare == \A c \in Callers : out[c] = "cancelled" => c \in struck
=============================================================================
