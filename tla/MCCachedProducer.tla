-------------------------- MODULE MCCachedProducer --------------------------
(* Instances of CachedProducer for TLC. *)
EXTENDS CachedInvariants, CachedOutbox, TLC

CONSTANTS t1, t2, c1, c2

OneCaller  == [t \in Topics |-> {c1}]
TwoCallers == [t \in Topics |-> {c1, c2}]
NoCaller   == [t \in Topics |-> {}]
OnlyT1     == [t \in Topics |-> IF t = t1 THEN {c1} ELSE {}]
OnlyT2     == [t \in Topics |-> IF t = t2 THEN {c2} ELSE {}]
WholeKeys  == [t \in Topics |-> 0]
NoDigits   == [t \in Topics |-> 0]

MsgSymmetry == Permutations(Msgs)
=============================================================================
