---------------------------- MODULE CachedOutbox ----------------------------
(***************************************************************************)
(* The refinement mapping under which the cached send path implements      *)
(* Outbox: the numbers taken, the messages recorded with them, the numbers *)
(* below the counter that are in the database, and what Kafka persisted.   *)
(***************************************************************************)
EXTENDS CachedProducer

NextNums == [t \in Topics |-> Count(store[t])]

\* a message written without its counter update is not accepted yet
HeldNums == [t \in Topics |-> {k \in DOMAIN store[t].msg : k < Count(store[t])}]

\* Kafka may also have messages of plain sends
Confirmed == {m \in broker : \E r \in recorded : r.msg = m}

OB == INSTANCE Outbox WITH Window <- NumMax, next <- NextNums,
        accepted <- recorded, held <- HeldNums, confirmed <- Confirmed

\* send_msg_with_cache, the delivery callback, trimming and process crashes
\* together implement the promise of README.md: every step is a step of
\* Outbox or invisible to it.
ImplementsOutbox == OB!Spec

=============================================================================
