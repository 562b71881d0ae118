-------------------------- MODULE CachedInvariants --------------------------
(***************************************************************************)
(* The inductive invariant behind Retained, AckMatches, WindowTrimmed and  *)
(* the refinement of Outbox, for disciplined applications.                 *)
(***************************************************************************)
EXTENDS CachedProducer

\* the steps of send_msg_with_cache before the message is handed over
Numbering == {"get", "putmsg", "putnext", "trim", "del"}
Writing   == {"putmsg", "putnext", "trim", "del", "send"}

\* TypeOK is not inductive: the number a thread writes to the database comes
\* from the counter, never from a send without a key.
TypeInv ==
  /\ TypeOK
  /\ \A th \in Threads : pc[th] \in Numbering => job[th].num \in Nat

Holds(s, k, m) == k \in DOMAIN s.msg /\ s.msg[k] = m

\* at most one message has been written ahead of the counter
Counted(s) == \A k \in DOMAIN s.msg : k <= Count(s)

\* every version of a database that may survive
StoresOK ==
  \A t \in Topics : \A s \in surviving[t] :
    Counted(s) /\ (CacheUsers[t] = {} => DOMAIN s.msg = {})

\* which calls a thread at step l may be in
JobInv(th, l, j) ==
  /\ l \in Numbering => j.kind = "cached"
  /\ l \in {"send", "poll", "serve"} => j.kind \in {"cached", "plain"}
  /\ j.kind = "cached" => th \in CacheUsers[j.topic]
  /\ j.kind = "plain" => th \in PlainUsers[j.topic] /\ j.num = NoKey

\* how the number of a call at step l relates to its database s; f is the
\* key its trim loop is about to delete
NumberInv(l, j, f, s) ==
  /\ l = "putmsg" => j.num = Count(s)
  /\ l = "putnext" => j.num = Count(s) /\ Holds(s, j.num, j.msg)
  /\ l \in {"trim", "del", "send"} =>
       /\ j.num + 1 = Count(s) /\ Holds(s, j.num, j.msg)
       /\ \A k \in DOMAIN s.msg : k <= j.num
  /\ l = "del" => f \in Nat /\ (KeyCut[j.topic] = 0 => j.num - f > NumMax)
  /\ l = "send" /\ KeyCut[j.topic] = 0 => \A k \in DOMAIN s.msg : j.num - NumMax <= k

CallInv(th, l, j, f, s) ==
  JobInv(th, l, j) /\ (j.kind = "cached" => NumberInv(l, j, f, s))

CallOK(th) == CallInv(th, pc[th], job[th], first[th], store[job[th].topic])

CallsOK == \A th \in Threads : CallOK(th)

\* a report in flight is about a number the counter has passed, and the
\* database s holds the message of the report under it or nothing
ReportInv(d, s) ==
  /\ d.key = NoKey => CacheUsers[d.topic] = {}
  /\ d.key # NoKey => d.key < Count(s)
  /\ d.key \in DOMAIN s.msg => s.msg[d.key] = d.msg

\* it is about an older number than a call on its topic is writing
Older(d, l, j) ==
  d.key # NoKey /\ j.kind = "cached" /\ j.topic = d.topic /\ l \in Writing => d.key < j.num

ReportOK(d) ==
  ReportInv(d, store[d.topic]) /\ \A th \in Threads : Older(d, pc[th], job[th])

UnservedOK == \A d \in Unserved : ReportOK(d)

IInv == TypeInv /\ CallsOK /\ StoresOK /\ UnservedOK

\* the reports that were made and not served yet
Delivered == Range(rep) \cup UNION {Range(batch[th]) : th \in Threads}

SuccessOK == \A d \in Delivered : d.ok => d.msg \in broker

\* Retained says this of every recorded message
Kept(s, r) == Holds(s, r.num, r.msg) \/ r.msg \in broker \/ r.num + NumMax < Count(s) - 1

\* what the recorded messages need when the machine does not crash
RecordedOK ==
  /\ \A t \in Topics : surviving[t] = {store[t]}
  /\ \A r \in recorded : r.num < Count(store[r.topic])
  /\ SuccessOK
  /\ Retained

InHand(th) == pc[th] \in Numbering \cup {"send"}

\* a message is not at Kafka before its own call hands it over
FreshOK ==
  /\ broker \subseteq used
  /\ \A e \in outq : e.msg \in used
  /\ \A th \in Threads : InHand(th) =>
       /\ job[th].msg \in used \ broker
       /\ \A e \in outq : e.msg # job[th].msg
       /\ \A x \in Threads \ {th} : InHand(x) => job[x].msg # job[th].msg
=============================================================================
