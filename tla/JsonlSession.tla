---------------------------- MODULE JsonlSession ----------------------------
(***************************************************************************)
(* JsonlFileSessionManager: one file of lines per session, mirrored in     *)
(* dicts that are rebuilt from the lines on first access.                  *)
(*                                                                         *)
(* Files are read and written without suspension, so an operation is one   *)
(* step, except that forks and deletes wait for the session's lock, and a  *)
(* fork has looked at its target before it waits.  A process that dies in  *)
(* a write leaves a line without its newline, to which the next line of    *)
(* the next process is glued.                                              *)
(***************************************************************************)
EXTENDS SessionEvents

CONSTANTS
    None,
    Sessions,
    Kind,    \* of a client: "append", "read", "note", "drop", "hold" (enter and
             \* leave session()), "fork" or "delete"
    On,      \* of a client: its session
    Key,     \* of a client: the key that note sets and drop removes
    Target,  \* of a fork: the new session
    After,   \* of a client: those that must have ended before
    Tears,   \* may a process die in the middle of a write?
    MaxRestarts

JsonlAssumption ==
    /\ Kind \in [Clients -> {"append", "read", "note", "drop", "hold", "fork", "delete"}]
    /\ On \in [Clients -> Sessions]
    /\ Key \in [Clients -> Keys]
    /\ \A c \in Clients : Kind[c] = "fork" => Target[c] \in Sessions \ {On[c]}
    /\ After \in [Clients -> SUBSET Clients]
    /\ Tears \in BOOLEAN
    /\ MaxRestarts \in Nat
    /\ None \notin Clients \cup Sessions
    /\ Absent \notin Clients

\* The clients of a fork's new session come before the fork or after it.
ForksApart ==
    \A f, c \in Clients :
        Kind[f] = "fork" /\ c # f /\ (On[c] = Target[f] \/ (Kind[c] = "fork" /\ Target[c] = Target[f]))
          => f \in After[c] \/ c \in After[f]

VARIABLES
    pc,       \* where each client is
    file,     \* per session: the lines of its file, or None
    ragged,   \* the sessions whose file does not end with a newline
    states,   \* _states: what the dict of each session holds, or None
    loaded,   \* _loaded
    lock,     \* per session: the client inside session()
    answer,   \* per client: the transcript it read
    restarts

vars == <<pc, file, ragged, states, loaded, lock, answer, restarts>>

Unread == [msgs |-> <<>>, read |-> FALSE]
Lines == [kind : {"transcript"}, by : Clients] \cup {Bad}
           \cup [kind : {"state"}, fields : [Keys -> Clients \cup {Absent}]]

TypeOK ==
    /\ pc \in [Clients -> {"idle", "holding", "waiting", "ok", "failed", "lost"}]
    /\ file \in [Sessions -> Seq(Lines) \cup {None}]
    /\ ragged \subseteq Sessions
    /\ states \in [Sessions -> Contents \cup {None}]
    /\ loaded \subseteq {s \in Sessions : states[s] # None}
    /\ lock \in [Sessions -> Clients \cup {None}]
    /\ answer \in [Clients -> [msgs : Seq(Clients), read : BOOLEAN]]
    /\ restarts \in 0 .. MaxRestarts
    /\ \A s \in Sessions : lock[s] # None => pc[lock[s]] = "holding" /\ On[lock[s]] = s

Init ==
    /\ pc = [c \in Clients |-> "idle"]
    /\ file = [s \in Sessions |-> None]
    /\ ragged = {}
    /\ states = [s \in Sessions |-> None]
    /\ loaded = {}
    /\ lock = [s \in Sessions |-> None]
    /\ answer = [c \in Clients |-> Unread]
    /\ restarts = 0

-----------------------------------------------------------------------------
Ended(c) == pc[c] \in {"ok", "failed", "lost"}
At(c, stage) == pc[c] = stage
MayBegin(c) == At(c, "idle") /\ \A b \in After[c] : Ended(b)
Go(c, stage) == pc' = [pc EXCEPT ![c] = stage]

Log(s) == IF file[s] = None THEN <<>> ELSE file[s]
Dict(s) == IF states[s] = None THEN Empty ELSE states[s]

\* Mutant of Loaded: the lines are replayed again on every access.
Loaded_Again(s) == Replayed(Dict(s), Log(s))
\* _ensure_loaded
Loaded(s) == IF s \in loaded THEN Dict(s) ELSE Replayed(Dict(s), Log(s))
Holds(s, m) == states' = [states EXCEPT ![s] = m] /\ loaded' = loaded \cup {s}

\* A line written to a ragged file completes its last line, which is then two
\* documents or a fragment and a document: neither parses.
Glued(log) == [log EXCEPT ![Len(log)] = Bad]

\* _append
Added(s, e) == IF s \in ragged THEN Glued(Log(s)) ELSE Append(Log(s), e)

\* Every line that is written ends the file with a newline.
Whole(s) == ragged \ {s}

WriteLine(s, e) ==
    /\ file' = [file EXCEPT ![s] = Added(s, e)]
    /\ ragged' = Whole(s)

-----------------------------------------------------------------------------
(* Operations without a lock: append_message, save_artifact, load_messages *)
(* and a change of the state through get_state and set_state.             *)

Appended(c) == [Loaded(On[c]) EXCEPT !.msgs = Append(@, c)]

AppendMessage(c) ==
    /\ MayBegin(c) /\ Kind[c] = "append"
    /\ Holds(On[c], Appended(c))
    /\ WriteLine(On[c], Message(c))
    /\ Go(c, "ok")
    /\ UNCHANGED <<lock, answer, restarts>>

Changed(c) ==
    [Loaded(On[c]) EXCEPT !.fields[Key[c]] = IF Kind[c] = "note" THEN c ELSE Absent]

SetState(c) ==
    /\ MayBegin(c) /\ Kind[c] \in {"note", "drop"}
    /\ Holds(On[c], Changed(c))
    /\ IF Changed(c).fields = Empty.fields
         THEN UNCHANGED <<file, ragged>>
         ELSE WriteLine(On[c], State(Changed(c).fields))
    /\ Go(c, "ok")
    /\ UNCHANGED <<lock, answer, restarts>>

Seen(c) == Loaded(On[c]).msgs

LoadMessages(c) ==
    /\ MayBegin(c) /\ Kind[c] = "read"
    /\ Holds(On[c], Loaded(On[c]))
    /\ answer' = [answer EXCEPT ![c] = [msgs |-> Seen(c), read |-> TRUE]]
    /\ Go(c, "ok")
    /\ UNCHANGED <<file, ragged, lock, restarts>>

-----------------------------------------------------------------------------
(* Operations with the lock *)

Enter(c) ==
    /\ MayBegin(c) /\ Kind[c] = "hold" /\ lock[On[c]] = None
    /\ lock' = [lock EXCEPT ![On[c]] = c]
    /\ Holds(On[c], Loaded(On[c]))
    /\ Go(c, "holding")
    /\ UNCHANGED <<file, ragged, answer, restarts>>

Leave(c) ==
    /\ At(c, "holding")
    /\ lock' = [lock EXCEPT ![On[c]] = None]
    /\ Go(c, "ok")
    /\ UNCHANGED <<file, ragged, states, loaded, answer, restarts>>

\* Mutant of Exists: only the file is looked at.
Exists_File(t) == file[t] # None
Exists(t) == file[t] # None \/ states[t] # None

Check(c) ==
    /\ MayBegin(c) /\ Kind[c] = "fork"
    /\ Go(c, IF Exists(Target[c]) THEN "failed" ELSE "waiting")
    /\ UNCHANGED <<file, ragged, states, loaded, lock, answer, restarts>>

\* The file is copied aside and moved over the target's.
Copied(c) ==
    IF file[On[c]] = None THEN file ELSE [file EXCEPT ![Target[c]] = file[On[c]]]

Fork(c) ==
    /\ At(c, "waiting") /\ lock[On[c]] = None
    /\ file' = Copied(c)
    /\ ragged' = IF On[c] \in ragged THEN ragged \cup {Target[c]} ELSE ragged \ {Target[c]}
    /\ LET m == Loaded(On[c])
       IN  states' = [states EXCEPT ![On[c]] = m, ![Target[c]] = m]
    /\ loaded' = loaded \cup {On[c], Target[c]}
    /\ Go(c, "ok")
    /\ UNCHANGED <<lock, answer, restarts>>

Unloaded(s) == loaded \ {s}

Delete(c) ==
    /\ MayBegin(c) /\ Kind[c] = "delete" /\ lock[On[c]] = None
    /\ states' = [states EXCEPT ![On[c]] = None]
    /\ loaded' = Unloaded(On[c])
    /\ file' = [file EXCEPT ![On[c]] = None]
    /\ ragged' = ragged \ {On[c]}
    /\ Go(c, "ok")
    /\ UNCHANGED <<lock, answer, restarts>>

-----------------------------------------------------------------------------
(* The process ends, or dies in a write, and another one reads the files *)

Reset ==
    /\ restarts < MaxRestarts
    /\ restarts' = restarts + 1
    /\ states' = [s \in Sessions |-> None]
    /\ loaded' = {}
    /\ lock' = [s \in Sessions |-> None]
    /\ UNCHANGED answer

Killed(k) == k = "holding" \/ k = "waiting"

Restart ==
    /\ Reset
    /\ pc' = [c \in Clients |-> IF Killed(pc[c]) THEN "lost" ELSE pc[c]]
    /\ UNCHANGED <<file, ragged>>

\* Mutant of Cut: the file is truncated when it is opened.
Cut_Over(s, e) == <<e>>
\* The file is opened for appending.
Cut(s, e) == Append(Log(s), e)

\* A fragment of a message, or all of it but the newline, reaches the file.
DieWriting(c) ==
    /\ Tears /\ Reset
    /\ MayBegin(c) /\ Kind[c] = "append"
    /\ pc' = [b \in Clients |-> IF b = c \/ Killed(pc[b]) THEN "lost" ELSE pc[b]]
    /\ IF On[c] \in ragged
         THEN file' = [file EXCEPT ![On[c]] = Glued(@)]
         ELSE \E e \in {Bad, Message(c)} : file' = [file EXCEPT ![On[c]] = Cut(On[c], e)]
    /\ ragged' = ragged \cup {On[c]}

Step(c) ==
    \/ AppendMessage(c) \/ SetState(c) \/ LoadMessages(c)
    \/ Enter(c) \/ Leave(c) \/ Check(c) \/ Fork(c) \/ Delete(c)

Next == Restart \/ \E c \in Clients : Step(c) \/ DieWriting(c)

Spec == Init /\ [][Next]_vars

-----------------------------------------------------------------------------
(* Properties *)

Holding(m, c) == c \in {m.msgs[i] : i \in DOMAIN m.msgs} \cup {m.fields[k] : k \in Keys}

\* The clients whose operation succeeded, that the dict knows of and the file
\* does not.
Unwritten(s) ==
    {c \in Clients : At(c, "ok") /\ Holding(states[s], c) /\ ~Holding(Stored(Log(s)), c)}

\* A dict holds the messages of a file, in their order, and between two of
\* them a stretch of others.
Stretch(mine, other) ==
    LET n == Len(mine.msgs) - Len(other.msgs)
    IN  /\ Len(mine.msgs) >= Len(other.msgs)
        /\ \E i \in 0 .. Len(other.msgs) :
              /\ \A p \in DOMAIN other.msgs : other.msgs[p] = mine.msgs[IF p <= i THEN p ELSE p + n]
              /\ \A p \in i + 1 .. i + n : ~Holding(other, mine.msgs[p])

\* A loaded session holds the messages a restart would replay, in their order,
\* and the same fields but for those removed by set_state; what it holds
\* besides is at most one acknowledged change, the first one made after a
\* death in the middle of a write, and the message of the one that died.
MirrorsFile ==
    \A s \in loaded :
        LET mine == states[s]
            other == Stored(Log(s))
        IN  /\ Stretch(mine, other)
            /\ \A k \in Keys : mine.fields[k] \in {other.fields[k], Absent} \cup Unwritten(s)
            /\ Cardinality(Unwritten(s)) <= 1

Deleted(s) == \E d \in Clients : Kind[d] = "delete" /\ On[d] = s /\ At(d, "ok")
\* The acknowledged messages to a session that no restart will find.
Lost(s) ==
    {c \in Clients : /\ Kind[c] = "append" /\ On[c] = s /\ At(c, "ok") /\ ~Deleted(s)
                     /\ \A i \in DOMAIN Log(s) : Log(s)[i] # Message(c)}

\* A process that dies in a write costs a session at most one acknowledged message.
OneLostEach == \A s \in Sessions : Cardinality(Lost(s)) <= restarts

\* A fork replaces nothing: its target does not exist when it is written.
ForksFresh ==
    [][\A c \in Clients : At(c, "waiting") /\ pc'[c] = "ok" =>
          file[Target[c]] = None /\ states[Target[c]] = None]_vars

(* What the docs and the interface say and the code does otherwise. *)

\* An acknowledged message stays in the session's file until it is deleted.
AckedSurvive == \A s \in Sessions : Lost(s) = {}
=============================================================================
