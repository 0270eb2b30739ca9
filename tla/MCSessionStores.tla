--------------------------- MODULE MCSessionStores ---------------------------
(* An instance of SqliteSession or of JsonlSession, as is initially chosen. *)
EXTENDS SqliteSession

CONSTANTS c1, c2, c3, c4, c5, c6, c7, c8, c9, c10, s1, s2, k1

VARIABLES part, jpc, file, ragged, jstates, jloaded, jlock, janswer, jrestarts

-----------------------------------------------------------------------------
(* SqliteSession: which client does what to which session.                  *)

SameKey == [c \in Clients |-> k1]
ToS2 == [c \in Clients |-> IF Forks(c) THEN s2 ELSE None]

\* c1 appends to s1, then c2 notes a key in its state, then c3 removes it; c4,
\* and then c5, delegate from s1 to s2; c6 appends to s2 when the delegations
\* have ended, and then c7 reads it; c8 deletes s1.
Family == [c \in Clients |->
             CASE c \in {c1, c6} -> "append"
               [] c = c2 -> "note"
               [] c = c3 -> "drop"
               [] c \in {c4, c5} -> "delegate"
               [] c = c7 -> "read"
               [] c = c8 -> "delete"]
FamilyOn == [c \in Clients |-> IF c \in {c6, c7} THEN s2 ELSE s1]
FamilyAfter == [c \in Clients |-> CASE c = c6 -> {c4, c5}
                                    [] c = c7 -> {c4, c5, c6}
                                    [] c = c2 -> {c1}
                                    [] c = c3 -> {c2}
                                    [] c = c5 -> {c4}
                                    [] OTHER -> {}]

\* c1 appends to s1 and c2 forks it.
Pair == [c \in Clients |-> IF c = c1 THEN "append" ELSE "fork"]
One == [c \in Clients |-> s1]
Anytime == [c \in Clients |-> {}]

-----------------------------------------------------------------------------
(* JsonlSession.                                                             *)

\* c1, c2 and c8 append to s1 one after another, c3 notes a key in its state
\* and c4 removes it, c5 holds the session while c6, and then c7, wait to fork
\* it to s2; c10 reads s2 when the forks have ended, and c9 deletes s1.
FileClients == {c1, c2, c3, c4, c5, c6, c7, c8, c9, c10}
FileKind == [c \in FileClients |->
               CASE c \in {c1, c2, c8} -> "append"
                 [] c = c3 -> "note"
                 [] c = c4 -> "drop"
                 [] c = c5 -> "hold"
                 [] c \in {c6, c7} -> "fork"
                 [] c = c9 -> "delete"
                 [] c = c10 -> "read"]
FileAfter == [c \in FileClients |-> CASE c = c10 -> {c6, c7}
                                      [] c = c7 -> {c4, c5, c6}
                                      [] c = c4 -> {c3}
                                      [] c = c2 -> {c1}
                                      [] c = c8 -> {c2}
                                      [] OTHER -> {}]

Files == INSTANCE JsonlSession WITH
    Clients <- FileClients,
    Kind <- FileKind,
    On <- [c \in FileClients |-> IF c = c10 THEN s2 ELSE s1],
    Key <- [c \in FileClients |-> k1],
    Target <- [c \in FileClients |-> IF FileKind[c] = "fork" THEN s2 ELSE None],
    After <- FileAfter,
    Tears <- TRUE,
    MaxRestarts <- 2,
    pc <- jpc, states <- jstates, loaded <- jloaded, lock <- jlock, answer <- janswer,
    restarts <- jrestarts

ASSUME FilesAssumption == Files!JsonlAssumption /\ Files!ForksApart

fvars == <<jpc, file, ragged, jstates, jloaded, jlock, janswer, jrestarts>>

MCInit == part \in {"rows", "files"} /\ Init /\ Files!Init

MCNext ==
    /\ UNCHANGED part
    /\ \/ part = "rows" /\ Next /\ UNCHANGED fvars
       \/ part = "files" /\ Files!Next /\ UNCHANGED vars

MCSpec == MCInit /\ [][MCNext]_<<part, vars, fvars>>

\* SqliteSession with forks called by themselves, on a session the caller has
\* not entered, too.
ApartNext == UNCHANGED <<part, fvars>> /\ (Next \/ \E c \in Clients : BeginFork(c))
ApartSpec == MCInit /\ part = "rows" /\ [][ApartNext]_<<part, vars, fvars>>

\* JsonlSession: what the dicts and the files hold of each other, what a death
\* in a write costs, and that no fork writes over a session.
FilesKept == [](Files!MirrorsFile /\ Files!OneLostEach) /\ Files!ForksFresh
=============================================================================
