--------------------------- MODULE MCItemIngestion ---------------------------
(* A small instance of ItemIngestion: two notifications at a time and two    *)
(* changes, of two objects or both of the same one.                          *)
EXTENDS ItemIngestion

CONSTANTS t1, t2, o1, o2

MCObjectMaps == {[c \in Changes |-> IF c = 1 THEN o1 ELSE o] : o \in {o1, o2}}
=============================================================================
