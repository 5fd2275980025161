-------------------------- MODULE MCSuspendedEvents --------------------------
(* A small instance of SuspendedEvents: one user with a plain event and a   *)
(* scheduled event, one worker that never crashes.                          *)
EXTENDS SuspendedEvents

CONSTANTS e1, e2, e3, u1, chat, timer

MCSessionOf == [e \in Events |-> IF e = e3 THEN timer ELSE chat]
MCUserOf == [e \in Events |-> u1]
MCLimit == [k \in FaultKinds |-> IF k = "crash" THEN 0 ELSE 1]
=============================================================================
