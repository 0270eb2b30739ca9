---------------------------- MODULE MemoryPlugins ----------------------------
(***************************************************************************)
(* The memory plugins of one agent in one session, run after run: a chain  *)
(* of buffers, markdown files, Zep with its local fallback and Mem0.  The  *)
(* chain is injected in order and written back in reverse, and ends at the *)
(* first member that raises.  What the agent was told to remember waits in *)
(* the session state, where both markdown and Zep look for it.             *)
(***************************************************************************)
EXTENDS Naturals, Sequences, SequencesExt, FiniteSets

CONSTANTS
    Chains,     \* chains of members: [kind, key, max]; max 0 for no limit
    Keys,       \* values of state_key
    Policies,   \* values of on_error: "continue", "fail"
    Prefs,      \* what remember_preference may be called with
    Limit,      \* search_limit
    MaxRuns,    \* runs (bound)
    MaxTroubles \* failures, restarts, closes, entries that are forgotten (bound)

\* Chains are listed, and buffers know their key and limit.
MemoryAssumption ==
    \A c \in Chains :
        /\ Len(c) \in Nat /\ DOMAIN c = 1..Len(c)
        /\ \A i \in DOMAIN c : c[i].max \in Nat /\ (c[i].kind = "buffer" => c[i].key \in Keys)

VARIABLES
    chain, on_error,
    run,        \* the current run: its number, where it is, at which member
    buffers,    \* of a state_key: the records, as the numbers of their runs
    history,    \* memory_view["history"] and ["zep_memory"]
    pending,    \* state["_pending_memory_writes"]
    file,       \* the entries of the markdown section files
    index,      \* how many of them MEMORY.md says there are
    remote,     \* what the Zep server holds for the session
    fallback,   \* ZepMemory._fallback
    mem0,       \* the runs that Mem0 holds
    reached,    \* of a run: the member down to which it was written back
    queued, lost, torn, \* preferences: ever queued; gone; of a write that failed half-way
    troubles

vars == <<chain, on_error, run, buffers, history, pending, file, index, remote, fallback, mem0, reached,
          queued, lost, torn, troubles>>
session == <<run, history, pending, buffers, reached, queued>>
stores == <<file, index, remote, fallback, mem0>>
fates == <<lost, torn, troubles>>

Init ==
    /\ chain \in Chains /\ on_error \in Policies
    /\ run = [n |-> 0, at |-> "idle", i |-> 0]
    /\ buffers = [k \in Keys |-> <<>>]
    /\ history = [history |-> <<>>, zep |-> <<>>]
    /\ pending = <<>>
    /\ file = <<>> /\ index = 0
    /\ remote = <<>> /\ fallback = <<>> /\ mem0 = {}
    /\ reached = <<>>
    /\ queued = {} /\ lost = {} /\ torn = {} /\ troubles = 0

Goto(at, i) == run' = [run EXCEPT !.at = at, !.i = i]
Member == chain[run.i]
Trouble == troubles < MaxTroubles /\ troubles' = troubles + 1

\* s[-n:] for n > 0.
Last_(s, n) == IF n = 0 \/ n >= Len(s) THEN s ELSE SubSeq(s, Len(s) - n + 1, Len(s))

Begin ==
    /\ run.at = "idle" /\ run.n < MaxRuns
    /\ run' = [n |-> run.n + 1, at |-> "injecting", i |-> 1]
    /\ history' = [history |-> <<>>, zep |-> <<>>]
    /\ reached' = Append(reached, Len(chain) + 1)
    /\ UNCHANGED <<chain, on_error, buffers, pending, queued, stores, fates>>

\* inject: up says whether Zep or Mem0 can be reached.  Mem0 empties
\* memory_view["history"] when it has nothing to say.
View(up) ==
    CASE Member.kind = "buffer" -> [history EXCEPT !.history = Last_(buffers[Member.key], Member.max)]
      [] Member.kind = "zep" -> [history EXCEPT !.zep = @ \o Last_(IF up THEN remote ELSE fallback, Limit)]
      [] Member.kind = "mem0" -> [history EXCEPT !.history = IF up THEN SetToSeq(mem0) ELSE <<>>]
      [] OTHER -> history

Inject(up) ==
    /\ run.at = "injecting" /\ run.i <= Len(chain)
    /\ history' = View(up)
    /\ Goto("injecting", run.i + 1)
    /\ UNCHANGED <<chain, on_error, buffers, pending, reached, queued, stores, fates>>

\* A section file cannot be read: the rest of the chain is not injected.
InjectFails ==
    /\ run.at = "injecting" /\ run.i <= Len(chain) /\ Member.kind = "markdown"
    /\ Trouble
    /\ IF on_error = "fail" THEN Goto("idle", 0) ELSE Goto("executing", 0)
    /\ UNCHANGED <<chain, on_error, history, pending, buffers, reached, queued, stores, lost, torn>>

Injected ==
    /\ run.at = "injecting" /\ run.i > Len(chain)
    /\ Goto("executing", 0)
    /\ UNCHANGED <<chain, on_error, history, pending, buffers, reached, queued, stores, fates>>

\* RememberPreferenceTool.
Remember(p) ==
    /\ run.at = "executing" /\ p \notin queued
    /\ pending' = Append(pending, p)
    /\ queued' = queued \cup {p}
    /\ UNCHANGED <<chain, on_error, run, history, buffers, reached, stores, fates>>

\* A run that failed is not written back.
Executed(ok) ==
    /\ run.at = "executing"
    /\ IF ok THEN Goto("writing", Len(chain)) ELSE Goto("idle", 0)
    /\ UNCHANGED <<chain, on_error, history, pending, buffers, reached, queued, stores, fates>>
-----------------------------------------------------------------------------
\* Mutant of Trimmed: one record too many is kept.
Trimmed_OneMore(s, max) == IF max = 0 THEN s ELSE Last_(s, max + 1)
\* _trim_in_place.
Trimmed(s, max) == Last_(s, max)

Wrote == reached' = [reached EXCEPT ![run.n] = run.i]

WriteBuffer ==
    LET records == Trimmed(Append(buffers[Member.key], run.n), Member.max)
    IN /\ Member.kind = "buffer"
       /\ buffers' = [buffers EXCEPT ![Member.key] = records]
       /\ history' = [history EXCEPT !.history = Last_(records, Member.max)]
       /\ UNCHANGED <<pending, stores, lost, torn, troubles>>

\* Mutant of Drained: the list is cleared before the entries are written.
Drained_First(whole) == <<>>
\* The pending list is replaced once everything was written.
Drained(whole) == IF whole THEN <<>> ELSE pending

\* capture() for one entry after the other.  It raises at the entry after n:
\* before anything was written of it, or when the index is.
WriteMarkdown(n, at_index) ==
    LET whole == n = Len(pending)
        written == IF at_index THEN n + 1 ELSE n
    IN /\ Member.kind = "markdown"
       /\ n \in 0..Len(pending) /\ (at_index => ~whole)
       /\ file' = file \o SubSeq(pending, 1, written)
       /\ index' = IF n = 0 THEN index ELSE Len(file) + n
       /\ pending' = Drained(whole)
       /\ torn' = IF whole THEN torn ELSE torn \cup ToSet(SubSeq(pending, 1, written))
       /\ IF whole THEN UNCHANGED troubles ELSE Trouble
       /\ UNCHANGED <<buffers, history, remote, fallback, mem0, lost>>

\* ZepMemory: what cannot be added goes to the fallback, also when the server
\* had it by the time of the error.  (The dict that should save itself is not
\* told: setdefault and append do not pass __setitem__.)
WriteZep(up, late) ==
    /\ Member.kind = "zep" /\ (late => up)
    /\ remote' = IF up THEN remote \o pending ELSE remote
    /\ fallback' = IF ~up \/ late THEN fallback \o pending ELSE fallback
    /\ torn' = IF late THEN torn \cup ToSet(pending) ELSE torn
    /\ pending' = <<>>
    /\ IF ~up \/ late THEN pending # <<>> /\ Trouble ELSE UNCHANGED troubles
    /\ UNCHANGED <<buffers, history, file, index, mem0, lost>>

\* Mem0Memory: nothing that goes wrong is raised.
WriteMem0(up) ==
    /\ Member.kind = "mem0"
    /\ mem0' = IF up THEN mem0 \cup {run.n} ELSE mem0
    /\ IF up THEN UNCHANGED troubles ELSE Trouble
    /\ UNCHANGED <<buffers, history, pending, file, index, remote, fallback, lost, torn>>

WriteBack ==
    /\ run.at = "writing" /\ run.i >= 1
    /\ \/ WriteBuffer
       \/ WriteMarkdown(Len(pending), FALSE)
       \/ \E up, late \in BOOLEAN : WriteZep(up, late)
       \/ \E up \in BOOLEAN : WriteMem0(up)
    /\ Wrote /\ Goto("writing", run.i - 1)
    /\ UNCHANGED <<chain, on_error, queued>>

\* The members that come before the one that raises are not written back; for
\* on_error "continue" the run goes on as if they had been.
WriteBackFails ==
    /\ run.at = "writing" /\ run.i >= 1
    /\ \E n \in 0..Len(pending), at_index \in BOOLEAN : n < Len(pending) /\ WriteMarkdown(n, at_index)
    /\ Goto("idle", 0)
    /\ UNCHANGED <<chain, on_error, reached, queued>>

\* compact is a no-op in every builtin memory.
End ==
    /\ run.at = "writing" /\ run.i = 0
    /\ Goto("idle", 0)
    /\ UNCHANGED <<chain, on_error, history, pending, buffers, reached, queued, stores, fates>>
-----------------------------------------------------------------------------
\* MarkdownMemory.forget of one entry, by the application.
Forget(i) ==
    /\ i \in DOMAIN file /\ Trouble
    /\ file' = RemoveAt(file, i) /\ index' = Len(file) - 1
    /\ lost' = lost \cup {file[i]}
    /\ UNCHANGED <<chain, on_error, session, remote, fallback, mem0, torn>>

\* close(), by a reload while the session goes on: the fallback is dropped.
Close ==
    /\ fallback # <<>> /\ Trouble
    /\ fallback' = <<>> /\ lost' = lost \cup ToSet(fallback)
    /\ UNCHANGED <<chain, on_error, session, file, index, remote, mem0, torn>>

\* The process ends, and with it a session that is in memory.
Restart ==
    /\ Trouble
    /\ run' = [run EXCEPT !.at = "idle", !.i = 0]
    /\ pending' = <<>> /\ fallback' = <<>> /\ lost' = lost \cup ToSet(pending) \cup ToSet(fallback)
    /\ buffers' = [k \in Keys |-> <<>>] /\ reached' = [n \in DOMAIN reached |-> Len(chain) + 1]
    /\ history' = [history |-> <<>>, zep |-> <<>>]
    /\ UNCHANGED <<chain, on_error, queued, file, index, remote, mem0, torn>>

Next ==
    \/ Begin \/ Injected \/ InjectFails \/ WriteBack \/ WriteBackFails \/ End
    \/ \E up \in BOOLEAN : Inject(up)
    \/ \E ok \in BOOLEAN : Executed(ok)
    \/ \E p \in Prefs : Remember(p)
    \/ \E i \in DOMAIN file : Forget(i)
    \/ Close \/ Restart

Spec == Init /\ [][Next]_vars
-----------------------------------------------------------------------------
\* Where a preference may be.
Everywhere == pending \o file \o remote \o fallback

\* MarkdownMemory.writeback, ZepMemory.writeback: whatever fails, in whichever
\* order the chain is written back, a preference that was queued is pending or
\* in a store until the process, the plugin or the application drops it.
PreferencesKept == \A p \in queued : p \in ToSet(Everywhere) \/ p \in lost

\* Only a write that failed half-way, or was reported to fail and had not, is
\* repeated: no other preference is in two places, or twice in one; and until
\* then the index counts what the files hold.
WrittenOnce ==
    /\ \A i, j \in DOMAIN Everywhere : Everywhere[i] = Everywhere[j] /\ Everywhere[i] \notin torn => i = j
    /\ torn = {} => index = Len(file)

\* The newest of D, in the order of their runs, and all of them if max is 0.
Newest(s, D, max) ==
    /\ \A a, b \in DOMAIN s : a < b => s[a] < s[b]
    /\ ToSet(s) \subseteq D
    /\ \A n \in D \ ToSet(s) : max > 0 /\ Len(s) = max /\ \A a \in DOMAIN s : n < s[a]
    /\ max > 0 => Len(s) <= max

\* BufferMemory, ChainMemory: a buffer with a state_key of its own holds the
\* newest records of the runs that were written back down to it, one for each.
Own(i) == chain[i].kind = "buffer" /\ \A j \in DOMAIN chain \ {i} : chain[j].key # chain[i].key
BuffersWhole ==
    \A i \in DOMAIN chain :
        Own(i) => Newest(buffers[chain[i].key], {n \in DOMAIN reached : reached[n] <= i}, chain[i].max)

MemoriesFaithful == PreferencesKept /\ WrittenOnce /\ BuffersWhole

\* Statements of the documentation that the code does not meet (README,
\* Disagreements); no run checks them.

\* ZepMemory: what the fallback was given is stored under memory_dir.
FallbackStored == \A p \in lost : p \in ToSet(file) \/ torn # {} \/ \A i \in DOMAIN chain : chain[i].kind # "zep"

\* ChainMemory: window_buffer and buffer, as its docstring combines them, each
\* keep one record of a run.
RecordsOnce == \A k \in Keys : \A i, j \in DOMAIN buffers[k] : buffers[k][i] = buffers[k][j] => i = j

\* BufferMemory: the agent sees the history of the buffer in its chain.
HistorySeen ==
    run.at = "executing" /\ troubles = 0 =>
        \A i \in DOMAIN chain : Own(i) => history.history = Last_(buffers[chain[i].key], chain[i].max)
=============================================================================
