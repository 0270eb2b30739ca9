---------------------------- MODULE SessionStore ----------------------------
(***************************************************************************)
(* What a session backend promises: a session is its transcript and its    *)
(* fields, every operation on it takes effect at one moment, a read sees   *)
(* what is stored, a fork makes an exact copy under a name that is free,   *)
(* and nothing else changes a session, a crash and restart included.       *)
(***************************************************************************)
EXTENDS SessionEvents

CONSTANTS Sessions
VARIABLES contents, answer

Unread == [msgs |-> <<>>, read |-> FALSE]

Init ==
    /\ contents = [s \in Sessions |-> Empty]
    /\ answer = [c \in Clients |-> Unread]

Appends(s, c) ==
    /\ contents' = [contents EXCEPT ![s].msgs = Append(@, c)]
    /\ UNCHANGED answer

Sets(s, k, c) ==
    /\ contents' = [contents EXCEPT ![s].fields[k] = c]
    /\ UNCHANGED answer

Reads(s, c) ==
    /\ answer' = [answer EXCEPT ![c] = [msgs |-> contents[s].msgs, read |-> TRUE]]
    /\ UNCHANGED contents

Forks(s, t) ==
    /\ contents[t] = Empty
    /\ contents' = [contents EXCEPT ![t] = contents[s]]
    /\ UNCHANGED answer

Deletes(s) ==
    /\ contents' = [contents EXCEPT ![s] = Empty]
    /\ UNCHANGED answer

Changes(s) ==
    \/ \E c \in Clients : Appends(s, c) \/ \E k \in Keys : Sets(s, k, c)
    \/ \E t \in Sessions : Forks(t, s)
    \/ Deletes(s)

\* A step that changes nothing needs no disjunct: it is a stutter.
Next ==
    \/ \E s \in Sessions : contents'[s] # contents[s] /\ Changes(s)
    \/ \E c \in Clients : answer'[c] # answer[c] /\ \E s \in Sessions : Reads(s, c)

Spec == Init /\ [][Next]_<<contents, answer>>
=============================================================================
