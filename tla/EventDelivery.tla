---------------------------- MODULE EventDelivery ----------------------------
(***************************************************************************)
(* What the event queue promises of each event it accepts, without         *)
(* sessions, locks, batches or acknowledgements: it is pending until it is *)
(* delivered to the agent, or lost, and both are final.  Events may be     *)
(* delivered together (a combined chat turn) and lost together (a worker   *)
(* that dies with a group in hand).  EventQueue implements it.             *)
(***************************************************************************)
CONSTANT Events

VARIABLES
    pending,    \* accepted, and neither delivered nor lost
    delivered,
    lost

vars == <<pending, delivered, lost>>

Init == pending = {} /\ delivered = {} /\ lost = {}

Offer(e) ==
    /\ e \notin pending \cup delivered \cup lost
    /\ pending' = pending \cup {e}
    /\ UNCHANGED <<delivered, lost>>

Gone == pending \ pending'

Deliver ==
    /\ pending' \subseteq pending
    /\ delivered' = delivered \cup Gone
    /\ UNCHANGED lost

Lose ==
    /\ pending' \subseteq pending
    /\ lost' = lost \cup Gone
    /\ UNCHANGED delivered

Next == Deliver \/ Lose \/ \E e \in Events : Offer(e)

Spec == Init /\ [][Next]_vars
=============================================================================
