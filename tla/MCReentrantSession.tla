------------------------- MODULE MCReentrantSession -------------------------
(* Instances of ReentrantSession: two sessions, the second a child of the  *)
(* first (delegation opens fresh child sessions only), and three tasks.    *)
(* One initial choice tells whether spawned tasks may be left running.     *)
EXTENDS ReentrantSession

CONSTANTS t1, t2, t3, parent, sub

VARIABLE detaches

MCTasks == {t1, t2, t3}
MCTwoTasks == {t1, t2}
MCSessions == {parent, sub}
MCNests == {<<parent, sub>>}

Structured == INSTANCE ReentrantSession WITH Detached <- FALSE

LockInit == Init /\ detaches \in BOOLEAN

LockNext ==
    /\ UNCHANGED detaches
    /\ \/ detaches /\ Next
       \/ ~detaches /\ Structured!Next

LockSpec == LockInit /\ [][LockNext]_<<vars, detaches>> /\ Fairness

\* With every spawned task awaited by its creator (tool tasks of the
\* executor), the lock implements the room: guests enter and leave while the
\* host is in.  Where tasks may be left running the mapping stays put.
StructuredRoom == INSTANCE SessionRoom WITH
    host <- [s \in Sessions |-> IF detaches THEN NoTask ELSE Host(s)],
    guests <- [s \in Sessions |-> IF detaches THEN {} ELSE Guests(s)]
StructuredRoomSpec == StructuredRoom!Spec
=============================================================================
