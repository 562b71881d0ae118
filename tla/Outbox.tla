------------------------------- MODULE Outbox -------------------------------
(***************************************************************************)
(* What README.md promises of the cached send path: a message is written   *)
(* to the cache when it is produced, and leaves the cache when Kafka has   *)
(* confirmed it; beyond that only messages older than the newest Window+1  *)
(* of their topic may be dropped.  Crashes of the client are not visible.  *)
(***************************************************************************)
EXTENDS Integers

CONSTANTS Topics, Msgs, Window

VARIABLES
  next,       \* per topic, the number of messages accepted so far
  accepted,   \* the accepted messages, each with its topic and number
  held,       \* per topic, the numbers still in the cache
  confirmed   \* messages Kafka has persisted

vars == <<next, accepted, held, confirmed>>

Init ==
  /\ next = [t \in Topics |-> 0]
  /\ accepted = {}
  /\ held = [t \in Topics |-> {}]
  /\ confirmed = {}

Accept(t, m) ==
  /\ accepted' = accepted \cup {[topic |-> t, num |-> next[t], msg |-> m]}
  /\ next' = [next EXCEPT ![t] = @ + 1]
  /\ held' = [held EXCEPT ![t] = @ \cup {next[t]}]
  /\ UNCHANGED confirmed

Confirm(m) ==
  /\ \E a \in accepted : a.msg = m
  /\ confirmed' = confirmed \cup {m}
  /\ UNCHANGED <<next, accepted, held>>

Release(t, k) ==
  /\ k \in held[t]
  /\ held' = [held EXCEPT ![t] = @ \ {k}]
  /\ UNCHANGED <<next, accepted, confirmed>>

\* the cache is cleared of a confirmed message
Clear(t, k) ==
  /\ \A a \in accepted : a.topic = t /\ a.num = k => a.msg \in confirmed
  /\ Release(t, k)

\* the window has moved past an old message
Evict(t, k) ==
  /\ k + Window < next[t] - 1
  /\ Release(t, k)

Next ==
  \/ \E t \in Topics, m \in Msgs : Accept(t, m)
  \/ \E m \in Msgs : Confirm(m)
  \/ \E t \in Topics : \E k \in held[t] : Clear(t, k) \/ Evict(t, k)

Spec == Init /\ [][Next]_vars

=============================================================================
