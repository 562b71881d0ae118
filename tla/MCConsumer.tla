----------------------------- MODULE MCConsumer -----------------------------
(* Small instances of Consumer for TLC. *)
EXTENDS Consumer

CONSTANTS c1, c2, none, t1, t2

LogOf3   == [t \in Topics |-> 3]
TwoLogs == [t \in Topics |-> IF t = t1 THEN 2 ELSE 1]

=============================================================================
