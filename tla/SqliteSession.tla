---------------------------- MODULE SqliteSession ----------------------------
(***************************************************************************)
(* SqliteSessionManager: sessions as rows of an events table, mirrored in  *)
(* dicts that are rebuilt from the rows on first access.                   *)
(*                                                                         *)
(* Every database access suspends the task, so operations interleave: a    *)
(* mutation changes the dict first and inserts its row later, a load reads *)
(* the rows and applies them later, a fork checks its target, copies the   *)
(* rows and then installs a copy of the dict.  Tasks hold a reference to   *)
(* the dict they work on, which need not be the one in _states any more.   *)
(*                                                                         *)
(* Each client does one operation.  Inside session() it holds the lock of  *)
(* its session meanwhile; forks and deletes take the lock themselves.      *)
(***************************************************************************)
EXTENDS SessionEvents

CONSTANTS
    None,
    Sessions,
    Kind,        \* of a client: "append", "read", "note", "drop", "fork",
                 \* "delegate" (a fork inside session()) or "delete"
    On,          \* of a client: its session
    Key,         \* of a client: the key that note sets and drop removes
    Target,      \* of a fork: the new session
    After,       \* of a client: those that must have ended before
    Locked,      \* are the operations done inside session()?
    Faults,      \* the accesses that may raise aiosqlite.Error
    MaxRestarts

Forks(c) == Kind[c] \in {"fork", "delegate"}

\* The dicts: the one a client's load creates, and the copy its fork makes.
Dicts == Clients \X {"own", "copy"}

ASSUME SqliteAssumption ==
    /\ Kind \in [Clients -> {"append", "read", "note", "drop", "fork", "delegate", "delete"}]
    /\ On \in [Clients -> Sessions]
    /\ Key \in [Clients -> Keys]
    /\ \A c \in Clients : Forks(c) => Target[c] \in Sessions \ {On[c]}
    /\ After \in [Clients -> SUBSET Clients]
    /\ Locked \in BOOLEAN
    /\ Faults \subseteq {"select", "insert", "copy", "delete"}
    /\ MaxRestarts \in Nat
    /\ None \notin Clients \cup Sessions
    /\ None \notin Dicts
    /\ Absent \notin Clients

VARIABLES
    pc,       \* where each client is
    db,       \* per session: its rows of the events table
    states,   \* _states: the dict of each session, or None
    heap,     \* what each dict holds
    loaded,   \* _loaded
    lock,     \* per session: the holder of its lock
    dict,     \* per client: the dict it works on
    rows,     \* per client: the rows its SELECT returned, or the row it is to insert
    answer,   \* per client: the transcript it read
    restarts

vars == <<pc, db, states, heap, loaded, lock, dict, rows, answer, restarts>>

Stages == {"idle", "selecting", "applying", "inserting", "checking", "copying",
           "mirroring", "deleting", "ok", "failed", "lost"}
Unread == [msgs |-> <<>>, read |-> FALSE]

TypeOK ==
    /\ pc \in [Clients -> Stages]
    /\ db \in [Sessions -> Seq([kind : {"transcript"}, by : Clients]
                               \cup [kind : {"state"}, fields : [Keys -> Clients \cup {Absent}]])]
    /\ states \in [Sessions -> Dicts \cup {None}]
    /\ heap \in [Dicts -> Contents]
    /\ loaded \subseteq Sessions
    /\ lock \in [Sessions -> Clients \cup {None}]
    /\ dict \in [Clients -> Dicts \cup {None}]
    /\ DOMAIN rows = Clients
    /\ answer \in [Clients -> [msgs : Seq(Clients), read : BOOLEAN]]
    /\ restarts \in 0 .. MaxRestarts
    \* A lock is held by a client under way, and a loaded session has a dict.
    /\ \A s \in Sessions : lock[s] # None => pc[lock[s]] \notin {"idle", "ok", "failed", "lost"}

Init ==
    /\ pc = [c \in Clients |-> "idle"]
    /\ db = [s \in Sessions |-> <<>>]
    /\ states = [s \in Sessions |-> None]
    /\ heap = [d \in Dicts |-> Empty]
    /\ loaded = {}
    /\ lock = [s \in Sessions |-> None]
    /\ dict = [c \in Clients |-> None]
    /\ rows = [c \in Clients |-> <<>>]
    /\ answer = [c \in Clients |-> Unread]
    /\ restarts = 0

-----------------------------------------------------------------------------
Ended(c) == pc[c] \in {"ok", "failed", "lost"}
At(c, stage) == pc[c] = stage
Takes(c) == Locked \/ Forks(c) \/ Kind[c] = "delete"
MayBegin(c) ==
    /\ At(c, "idle")
    /\ \A b \in After[c] : Ended(b)
    /\ Takes(c) => lock[On[c]] = None
Acquired(c) == IF Takes(c) THEN [lock EXCEPT ![On[c]] = c] ELSE lock
Without(l, c) == [s \in Sessions |-> IF l[s] = c THEN None ELSE l[s]]

\* _states.setdefault(sid, {})
DictOf(c) == IF states[On[c]] = None THEN <<c, "own">> ELSE states[On[c]]

End(c, outcome) == pc' = [pc EXCEPT ![c] = outcome] /\ lock' = Without(lock, c)
Raise(c) ==
    /\ End(c, "failed")
    /\ UNCHANGED <<db, states, heap, loaded, dict, rows, answer, restarts>>

-----------------------------------------------------------------------------
(* Operations once the session is loaded, up to their own next access: d is *)
(* the dict the load returned, h, l and st are heap, lock and states then.  *)

Worked(c, d, h) ==
    CASE Kind[c] = "append" -> [h EXCEPT ![d].msgs = Append(@, c)]
      [] Kind[c] = "note"   -> [h EXCEPT ![d].fields[Key[c]] = c]
      [] Kind[c] = "drop"   -> [h EXCEPT ![d].fields[Key[c]] = Absent]
      [] OTHER              -> h

\* set_state inserts no row when there is no field to write.
StageAfter(c, d, h) ==
    CASE Kind[c] = "read" -> "ok"
      [] Forks(c)         -> "checking"
      [] Kind[c] # "append" /\ Worked(c, d, h)[d].fields = Empty.fields -> "ok"
      [] OTHER            -> "inserting"

\* The payload is serialised before the database is opened.
Row(c, d, h) ==
    IF StageAfter(c, d, h) # "inserting" THEN <<>>
    ELSE IF Kind[c] = "append" THEN <<Message(c)>>
    ELSE <<State(Worked(c, d, h)[d].fields)>>

\* Mutant of Seen: only what this read has loaded itself is returned.
Seen_Rows(c, d, h) == Transcript(rows[c])
Seen(c, d, h) == h[d].msgs

Work(c, d, h, l, st) ==
    /\ heap' = Worked(c, d, h)
    /\ rows' = [rows EXCEPT ![c] = Row(c, d, h)]
    /\ pc' = [pc EXCEPT ![c] = StageAfter(c, d, h)]
    /\ lock' = IF StageAfter(c, d, h) = "ok" THEN Without(l, c) ELSE l
    /\ states' = IF Kind[c] \in {"note", "drop"} THEN [st EXCEPT ![On[c]] = d] ELSE st
    /\ dict' = [dict EXCEPT ![c] = d]
    /\ answer' = IF Kind[c] = "read"
                   THEN [answer EXCEPT ![c] = [msgs |-> Seen(c, d, h), read |-> TRUE]]
                   ELSE answer

-----------------------------------------------------------------------------
(* _ensure_loaded *)

Loads(c) == Kind[c] \notin {"fork", "delete"}

\* The session is loaded: no suspension before the operation itself.
BeginLoaded(c) ==
    /\ MayBegin(c) /\ Loads(c) /\ On[c] \in loaded
    /\ Work(c, DictOf(c), heap, Acquired(c), [states EXCEPT ![On[c]] = DictOf(c)])
    /\ UNCHANGED <<db, loaded, restarts>>

BeginLoad(c) ==
    /\ MayBegin(c) /\ Loads(c) /\ On[c] \notin loaded
    /\ states' = [states EXCEPT ![On[c]] = DictOf(c)]
    /\ dict' = [dict EXCEPT ![c] = DictOf(c)]
    /\ lock' = Acquired(c)
    /\ pc' = [pc EXCEPT ![c] = "selecting"]
    /\ UNCHANGED <<db, heap, loaded, rows, answer, restarts>>

Select(c) ==
    /\ At(c, "selecting")
    /\ rows' = [rows EXCEPT ![c] = db[On[c]]]
    /\ pc' = [pc EXCEPT ![c] = "applying"]
    /\ UNCHANGED <<db, states, heap, loaded, lock, dict, answer, restarts>>

SelectFails(c) == At(c, "selecting") /\ "select" \in Faults /\ Raise(c)

\* Mutant of Applied: the fields are not replayed.
Applied_NoFields(c) ==
    [heap EXCEPT ![dict[c]].msgs = @ \o Transcript(rows[c])]
\* The rows are added to the dict, whoever filled it meanwhile.
Applied(c) == [heap EXCEPT ![dict[c]] = Replayed(@, rows[c])]

LoadedAfter(c) == loaded \cup {On[c]}

Apply(c) ==
    /\ At(c, "applying")
    /\ loaded' = LoadedAfter(c)
    /\ Work(c, dict[c], Applied(c), lock, states)
    /\ UNCHANGED <<db, restarts>>

-----------------------------------------------------------------------------
(* _insert_event *)

Inserted(c) == db[On[c]] \o rows[c]

Insert(c) ==
    /\ At(c, "inserting")
    /\ db' = [db EXCEPT ![On[c]] = Inserted(c)]
    /\ End(c, "ok")
    /\ UNCHANGED <<states, heap, loaded, dict, rows, answer, restarts>>

InsertFails(c) == At(c, "inserting") /\ "insert" \in Faults /\ Raise(c)

-----------------------------------------------------------------------------
(* fork_session *)

\* A fork takes the lock of its source only.
BeginFork(c) ==
    /\ MayBegin(c) /\ Kind[c] = "fork"
    /\ lock' = Acquired(c)
    /\ pc' = [pc EXCEPT ![c] = "checking"]
    /\ UNCHANGED <<db, states, heap, loaded, dict, rows, answer, restarts>>

Free(t) == db[t] = <<>> /\ states[t] = None

Check(c) ==
    /\ At(c, "checking")
    /\ IF Free(Target[c])
         THEN pc' = [pc EXCEPT ![c] = "copying"] /\ UNCHANGED lock
         ELSE End(c, "failed")
    /\ UNCHANGED <<db, states, heap, loaded, dict, rows, answer, restarts>>

Copy(c) ==
    /\ At(c, "copying")
    /\ db' = [db EXCEPT ![Target[c]] = @ \o db[On[c]]]
    /\ pc' = [pc EXCEPT ![c] = "mirroring"]
    /\ UNCHANGED <<states, heap, loaded, lock, dict, rows, answer, restarts>>

CopyFails(c) == At(c, "copying") /\ "copy" \in Faults /\ Raise(c)

\* copy.deepcopy(self._states.get(source, {}))
Mirrored(c) == IF states[On[c]] = None THEN Empty ELSE heap[states[On[c]]]

CopyOf(c) == <<c, "copy">>

Mirror(c) ==
    /\ At(c, "mirroring")
    /\ heap' = [heap EXCEPT ![<<c, "copy">>] = Mirrored(c)]
    /\ states' = [states EXCEPT ![Target[c]] = CopyOf(c)]
    /\ loaded' = loaded \cup {Target[c]}
    /\ End(c, "ok")
    /\ UNCHANGED <<db, dict, rows, answer, restarts>>

-----------------------------------------------------------------------------
(* delete_session *)

Unloaded(s) == loaded \ {s}

BeginDelete(c) ==
    /\ MayBegin(c) /\ Kind[c] = "delete"
    /\ lock' = Acquired(c)
    /\ states' = [states EXCEPT ![On[c]] = None]
    /\ loaded' = Unloaded(On[c])
    /\ pc' = [pc EXCEPT ![c] = "deleting"]
    /\ UNCHANGED <<db, heap, dict, rows, answer, restarts>>

Delete(c) ==
    /\ At(c, "deleting")
    /\ db' = [db EXCEPT ![On[c]] = <<>>]
    /\ End(c, "ok")
    /\ UNCHANGED <<states, heap, loaded, dict, rows, answer, restarts>>

DeleteFails(c) == At(c, "deleting") /\ "delete" \in Faults /\ Raise(c)

-----------------------------------------------------------------------------
\* The process ends and another one opens the database.
Restart ==
    /\ restarts < MaxRestarts
    /\ restarts' = restarts + 1
    /\ pc' = [c \in Clients |-> IF Ended(c) \/ At(c, "idle") THEN pc[c] ELSE "lost"]
    /\ states' = [s \in Sessions |-> None]
    /\ heap' = [d \in Dicts |-> Empty]
    /\ loaded' = {}
    /\ lock' = [s \in Sessions |-> None]
    /\ dict' = [c \in Clients |-> None]
    /\ rows' = [c \in Clients |-> <<>>]
    /\ UNCHANGED <<db, answer>>

Step(c) ==
    \/ BeginLoaded(c) \/ BeginLoad(c) \/ Select(c) \/ SelectFails(c) \/ Apply(c)
    \/ Insert(c) \/ InsertFails(c)
    \/ Check(c) \/ Copy(c) \/ CopyFails(c) \/ Mirror(c)
    \/ BeginDelete(c) \/ Delete(c) \/ DeleteFails(c)

Next == Restart \/ \E c \in Clients : Step(c)

Spec == Init /\ [][Next]_vars

-----------------------------------------------------------------------------
(* Properties *)

Quiet(s) == \A c \in Clients :
    pc[c] \in {"inserting", "copying", "mirroring"} => s # On[c] /\ (Forks(c) => s # Target[c])

Failed(c) == c \in Clients /\ At(c, "failed")
Removed(k) == \E c \in Clients : Kind[c] = "drop" /\ Key[c] = k /\ pc[c] \in {"ok", "failed"}
Lasting(msgs) == {i \in DOMAIN msgs : ~Failed(msgs[i])}
\* What a transcript shows without the messages whose append raised.
Unfailed(msgs) == [n \in 1 .. Cardinality(Lasting(msgs)) |-> msgs[Nth(Lasting(msgs), n)]]

\* A loaded session that no mutation is working on holds what a restart would
\* replay, the same messages in the same order and the same fields, but for the
\* changes whose operation raised and the fields removed by set_state.
MirrorsRows ==
    \A s \in loaded : Quiet(s) /\ states[s] # None =>
        LET mine == heap[states[s]]
            other == Stored(db[s])
        IN  /\ Unfailed(mine.msgs) = other.msgs
            /\ \A k \in Keys : \/ mine.fields[k] = other.fields[k]
                              \/ Failed(mine.fields[k])
                              \/ (mine.fields[k] = Absent /\ Removed(k))

\* A read returns each appended message once, whatever else is loading,
\* appending, forking, deleting and restarting around it.
ReadsOnce ==
    \A c \in Clients : \A i, j \in DOMAIN answer[c].msgs :
        answer[c].msgs[i] = answer[c].msgs[j] => i = j

\* A fork writes to a session that does not exist.
ForksFresh ==
    [][\A c \in Clients : At(c, "copying") /\ pc'[c] = "mirroring" =>
          db[Target[c]] = <<>> /\ states[Target[c]] = None]_vars

\* The rows of the table, and the transcripts read from the dicts, behave like
\* an atomic store: the operations take effect one at a time, and what a read
\* returns is what is stored then, and messages whose append raised.
Store == INSTANCE SessionStore WITH
             contents <- [s \in Sessions |-> Stored(db[s])],
             answer <- [c \in Clients |->
                [answer[c] EXCEPT !.msgs = Unfailed(@)]]
RefinesStore == Store!Spec

(* What the interface says and the code does otherwise. *)

\* When a fork returns, the target reads like what was stored of the source.
ForkIsWhole ==
    [][\A c \in Clients : At(c, "mirroring") /\ pc'[c] = "ok" =>
          heap'[states'[Target[c]]].msgs = Transcript(db[On[c]])]_vars
=============================================================================
