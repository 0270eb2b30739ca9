---------------------------- MODULE SessionRoom ----------------------------
(***************************************************************************)
(* What a session lock promises to the runs that use it: a session has at  *)
(* most one host (the task that acquired it), other tasks are inside only  *)
(* as the host's guests, and the host does not leave before its guests.    *)
(***************************************************************************)
EXTENDS FiniteSets

CONSTANTS Sessions, Tasks, NoTask

VARIABLES host, guests

roomVars == <<host, guests>>

Init ==
    /\ host = [s \in Sessions |-> NoTask]
    /\ guests = [s \in Sessions |-> {}]

Occupy(t, s) ==
    /\ host[s] = NoTask
    /\ host' = [host EXCEPT ![s] = t]
    /\ UNCHANGED guests

Vacate(s) ==
    /\ host[s] # NoTask
    /\ guests[s] = {}
    /\ host' = [host EXCEPT ![s] = NoTask]
    /\ UNCHANGED guests

Invite(t, s) ==
    /\ host[s] \notin {NoTask, t}
    /\ guests' = [guests EXCEPT ![s] = @ \cup {t}]
    /\ UNCHANGED host

SeeOff(t, s) ==
    /\ t \in guests[s]
    /\ guests' = [guests EXCEPT ![s] = @ \ {t}]
    /\ UNCHANGED host

Next ==
    \E s \in Sessions :
       \/ Vacate(s)
       \/ \E t \in Tasks : Occupy(t, s) \/ Invite(t, s) \/ SeeOff(t, s)

Spec == Init /\ [][Next]_roomVars
=============================================================================
