---------------------------- MODULE SessionEvents ----------------------------
(***************************************************************************)
(* The events a session backend writes, one per mutation, and the replay   *)
(* that rebuilds a session from them.  A message stands for the client     *)
(* that appends it; artifacts are appended and replayed like messages.     *)
(***************************************************************************)
EXTENDS Naturals, Sequences, FiniteSets

CONSTANTS Clients, Keys, Absent

Contents == [msgs : Seq(Clients), fields : [Keys -> Clients \cup {Absent}]]
Empty == [msgs |-> <<>>, fields |-> [k \in Keys |-> Absent]]

Message(c) == [kind |-> "transcript", by |-> c]
State(f) == [kind |-> "state", fields |-> f]
\* A line or row that does not parse, which the replay skips.
Bad == [kind |-> "bad"]

\* The n-th of the indices in I.
Nth(I, n) == CHOOSE i \in I : Cardinality({j \in I : j <= i}) = n

TranscriptRows(log) == {i \in DOMAIN log : log[i].kind = "transcript"}
Transcript(log) == [n \in 1 .. Cardinality(TranscriptRows(log)) |-> log[Nth(TranscriptRows(log), n)].by]

\* The state events with a value for key k; the last one wins.
Writes(log, k) == {i \in DOMAIN log : log[i].kind = "state" /\ log[i].fields[k] # Absent}
Latest(S) == CHOOSE i \in S : \A j \in S : j <= i

\* The replay adds to what the session's dict already holds.
Replayed(m, log) ==
    [msgs   |-> m.msgs \o Transcript(log),
     fields |-> [k \in Keys |-> IF Writes(log, k) = {} THEN m.fields[k]
                                ELSE log[Latest(Writes(log, k))].fields[k]]]

Stored(log) == Replayed(Empty, log)
=============================================================================
