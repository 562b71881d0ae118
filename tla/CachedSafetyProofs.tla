------------------------- MODULE CachedSafetyProofs -------------------------
(***************************************************************************)
(* The safety properties of the cached send path for every disciplined     *)
(* application, from the invariant IInv (CachedDeliveryProofs).            *)
(***************************************************************************)
EXTENDS CachedDeliveryProofs

\* No delivery callback ever clears a message other than the one it reports,
\* even when machine crashes lose unsynced writes.
THEOREM AcksMatch ==
  ASSUME Disciplined
  PROVE  Spec => []AckMatches
<1>1. IInv => AckMatches
  <2>. SUFFICES ASSUME IInv, NEW d \in Unserved, AckedKey(d) \in DOMAIN store[d.topic].msg
                PROVE  store[d.topic].msg[AckedKey(d)] = d.msg
    BY DEF AckMatches
  <2>1. d.topic \in Topics /\ ReportInv(d, store[d.topic])
    BY UnservedType DEF IInv, UnservedOK, ReportOK
  <2>2. CacheUsers[d.topic] # {}
    BY <2>1 DEF IInv, StoresOK, TypeInv, TypeOK, DBTypeOK
  <2>. QED
    BY <2>1, <2>2 DEF ReportInv, AckedKey
<1>2. Spec => []IInv
  BY Inductive
<1>. QED
  BY <1>1, <1>2, PTL

\* The trim loop always has a message to look at: it neither deletes the
\* counter nor ends the process, whatever crashes have left it.
THEOREM TrimFindsMessage ==
  ASSUME Disciplined
  PROVE  Spec => []TrimSparesCounter
<1>1. IInv => TrimSparesCounter
  <2>. SUFFICES ASSUME IInv, NEW th \in Threads, pc[th] \in {"trim", "del"}
                PROVE  /\ DOMAIN store[job[th].topic].msg # {}
                       /\ pc[th] = "del" => first[th] # DescKey
    BY Zenon DEF TrimSparesCounter
  <2>1. CallInv(th, pc[th], job[th], first[th], store[job[th].topic])
    BY Zenon DEF IInv, CallsOK, CallOK
  <2>2. NumberInv(pc[th], job[th], first[th], store[job[th].topic])
    BY <2>1 DEF CallInv, JobInv, Numbering
  <2>. QED
    BY <2>2 DEF NumberInv, Holds, DescKey
<1>2. Spec => []IInv
  BY Inductive
<1>. QED
  BY <1>1, <1>2, PTL

\* When no topic name is so long that its keys are cut, the trim loop leaves
\* exactly the window, whatever earlier crashed calls had left.
THEOREM TrimLeavesWindow ==
  ASSUME Disciplined, \A t \in Topics : KeyCut[t] = 0
  PROVE  Spec => []WindowTrimmed
<1>1. IInv => WindowTrimmed
  <2>. SUFFICES ASSUME IInv, NEW th \in Threads, pc[th] = "send", job[th].kind = "cached",
                       NEW k \in DOMAIN store[job[th].topic].msg
                PROVE  job[th].num - NumMax <= k /\ k <= job[th].num
    BY DEF WindowTrimmed
  <2>1. job[th].topic \in Topics
    BY DEF IInv, TypeInv, TypeOK, ThreadTypeOK, Jobs
  <2>2. NumberInv("send", job[th], first[th], store[job[th].topic])
    BY DEF IInv, CallsOK, CallOK, CallInv
  <2>. QED
    BY <2>1, <2>2 DEF NumberInv
<1>2. Spec => []IInv
  BY Inductive
<1>. QED
  BY <1>1, <1>2, PTL

-----------------------------------------------------------------------------
(* Retained, when the machine does not crash.                              *)

\* What RecordedOK says of one recorded message.
LEMMA RecordedFacts ==
  ASSUME IInv, RecordedOK, NEW r \in recorded
  PROVE  /\ r.topic \in Topics /\ r.num \in Nat /\ r.num < Count(store[r.topic])
         /\ Kept(store[r.topic], r) /\ Count(store[r.topic]) \in Nat
<1>1. r.topic \in Topics /\ r.num \in Nat /\ r.num < Count(store[r.topic])
  BY DEF IInv, TypeInv, TypeOK, HistoryTypeOK, RecordedOK
<1>2. IsStore(store[r.topic])
  BY <1>1 DEF IInv, TypeInv, TypeOK, DBTypeOK
<1>3. Count(store[r.topic]) \in Nat
  BY <1>2 DEF Count, IsStore, Absent
<1>4. Kept(store[r.topic], r)
  BY DEF RecordedOK, Retained, Kept, Holds
<1>. QED
  BY <1>1, <1>3, <1>4

\* Steps that write no database.
LEMMA RecordedFrame ==
  ASSUME RecordedOK, UNCHANGED <<store, surviving, recorded>>,
         broker \subseteq broker', SuccessOK'
  PROVE  RecordedOK'
<1>1. Retained'
  BY DEF RecordedOK, Retained
<1>. QED
  BY <1>1 DEF RecordedOK

\* Steps that write the database of t.
LEMMA RecordedWrite ==
  ASSUME IInv, RecordedOK, ~MachineCrash, NEW t \in Topics, NEW u, Write(t, u),
         broker' = broker, SuccessOK',
         \A r \in recorded' : r.topic # t => r \in recorded,
         \A r \in recorded' : r.topic = t => r.num < Count(u) /\ Kept(u, r)
  PROVE  RecordedOK'
<1>1. store = [x \in Topics |-> store[x]] /\ surviving = [x \in Topics |-> surviving[x]]
  BY DEF IInv, TypeInv, TypeOK, DBTypeOK
<1>2. /\ store'[t] = u /\ surviving'[t] = {u}
      /\ \A x \in Topics \ {t} : store'[x] = store[x] /\ surviving'[x] = surviving[x]
  BY <1>1 DEF Write
<1>3. \A x \in Topics : surviving'[x] = {store'[x]}
  BY <1>2 DEF RecordedOK
<1>4. ASSUME NEW r \in recorded'
      PROVE  r.num < Count(store'[r.topic]) /\ (Kept(store[r.topic], r))'
  <2>1. CASE r.topic = t
    BY <1>2, <2>1 DEF Kept
  <2>2. CASE r.topic # t
    <3>1. r.topic \in Topics /\ r.num < Count(store[r.topic]) /\ Kept(store[r.topic], r)
      BY <2>2, RecordedFacts
    <3>2. store'[r.topic] = store[r.topic]
      BY <1>2, <2>2, <3>1
    <3>. QED
      BY <3>1, <3>2 DEF Kept
  <2>. QED
    BY <2>1, <2>2
<1>5. Retained'
  BY <1>4 DEF Retained, Kept, Holds
<1>. QED
  BY <1>3, <1>4, <1>5 DEF RecordedOK

\* A callback for a confirmed message needs Kafka to have it.
LEMMA SuccessStep ==
  ASSUME IInv, SuccessOK, [Next]_vars
  PROVE  SuccessOK'
<1>. USE DEF dbvars, kafka, loopvars, history
<1>0. rep \in Seq(Reports) /\ batch \in [Threads -> Seq(Reports)] /\ outq \subseteq Entries
  BY DEF IInv, TypeInv, TypeOK, ThreadTypeOK, KafkaTypeOK
<1>1. ASSUME Delivered' \subseteq Delivered, broker \subseteq broker' PROVE SuccessOK'
  BY <1>1 DEF SuccessOK
<1>2. ASSUME UNCHANGED <<rep, batch, broker>> PROVE SuccessOK'
  BY <1>2 DEF SuccessOK, Delivered
<1>3. ASSUME NEW th \in Threads, Poll(th) PROVE SuccessOK'
  <2>1. rep' = << >> /\ batch'[th] = rep /\ broker' = broker
        /\ \A x \in Threads \ {th} : batch'[x] = batch[x]
    BY <1>0, <1>3 DEF Poll
  <2>2. Range(rep') = {}
    BY <2>1 DEF Range
  <2>. QED
    BY <1>1, <2>1, <2>2 DEF Delivered
<1>4. ASSUME NEW th \in Threads, AckConfirmed(th) \/ AckIgnored(th) PROVE SuccessOK'
  <2>1. rep' = rep /\ batch[th] # << >> /\ batch'[th] = Tail(batch[th]) /\ broker' = broker
        /\ \A x \in Threads \ {th} : batch'[x] = batch[x]
    BY <1>0, <1>4 DEF AckConfirmed, AckIgnored, Serving
  <2>2. Range(batch'[th]) \subseteq Range(batch[th])
    BY <1>0, <2>1, QueueOps
  <2>. QED
    BY <1>1, <2>1, <2>2 DEF Delivered
<1>5. ASSUME ProcessDies PROVE SuccessOK'
  BY <1>5 DEF ProcessDies, SuccessOK, Delivered, Range
<1>6. ASSUME NEW e \in outq, BrokerPersists(e) PROVE SuccessOK'
  BY <1>6 DEF BrokerPersists, SuccessOK, Delivered
<1>7. ASSUME NEW e \in outq, NEW ok \in BOOLEAN, ok => e.msg \in broker, Report(e, ok)
      PROVE SuccessOK'
  <2>. DEFINE d == [topic |-> e.topic, key |-> e.key, msg |-> e.msg, ok |-> ok]
  <2>1. d \in Reports
    BY <1>0 DEF Entries, Reports
  <2>2. Range(rep') = Range(rep) \cup {d} /\ batch' = batch /\ broker' = broker
    BY <1>0, <1>7, <2>1, QueueOps DEF Report
  <2>. QED
    BY <1>7, <2>2 DEF SuccessOK, Delivered
<1>8. CASE \E th \in Threads : Call(th)
  BY <1>2, <1>8 DEF Call, CallCached, CallPlain, AddProduceTopic, CallFlush, CallRecover
<1>9. ASSUME NEW th \in Threads, Step(th) PROVE SuccessOK'
  <2>1. CASE GetCounter(th) \/ GetCounterFails(th) \/ PutMsg(th) \/ PutNext(th) \/ PutFails(th)
               \/ TrimTest(th) \/ TrimDelete(th) \/ TrimDeleteFails(th)
    BY <1>2, <2>1 DEF GetCounter, GetCounterFails, PutMsg, PutNext, PutFails, TrimTest,
         TrimDelete, TrimDeleteFails
  <2>2. CASE SendNothing(th) \/ Produce(th) \/ ProduceFails(th) \/ PollReturn(th)
               \/ FlushReturn(th) \/ (\E t \in Topics : ReSend(th, t)) \/ RecoverReturn(th)
    BY <1>2, <2>2, Zenon DEF SendNothing, Produce, ProduceFails, PollReturn, FlushReturn, ReSend,
         RecoverReturn
  <2>3. CASE TrimAbort(th)
    BY <1>5, <2>3 DEF TrimAbort
  <2>. QED
    BY <1>3, <1>4, <1>9, <2>1, <2>2, <2>3 DEF Step
<1>10. CASE Kafka
  BY <1>6, <1>7, <1>10, Zenon DEF Kafka, ReportSuccess, ReportError
<1>11. CASE Crash
  BY <1>5, <1>11 DEF Crash
<1>12. CASE UNCHANGED vars
  BY <1>2, <1>12 DEF vars
<1>13. CASE Restart
  BY <1>2, <1>13 DEF Restart
<1>. QED
  BY <1>8, <1>9, <1>10, <1>11, <1>12, <1>13 DEF Next, Running

\* What the callback of a confirmed message deletes.
LEMMA AckedMessage ==
  ASSUME IInv, SuccessOK, NEW th \in Threads, AckConfirmed(th), NEW d, d = Head(batch[th]),
         NEW k, k = AckedKey(d)
  PROVE  /\ d.topic \in Topics /\ d.msg \in broker /\ k \in Nat
         /\ k \in DOMAIN store[d.topic].msg => store[d.topic].msg[k] = d.msg
         /\ Write(d.topic, DelMessage(store[d.topic], k)) /\ UNCHANGED <<broker, recorded>>
<1>0. batch \in [Threads -> Seq(Reports)] /\ batch[th] # << >> /\ d.ok
  BY Zenon DEF IInv, TypeInv, TypeOK, ThreadTypeOK, AckConfirmed, Serving
<1>1. d \in Range(batch[th])
  BY <1>0, QueueOps
<1>2. d \in Unserved /\ d.msg \in broker
  BY <1>0, <1>1 DEF Unserved, SuccessOK, Delivered
<1>3. d.topic \in Topics /\ ReportInv(d, store[d.topic]) /\ d.key \in Nat \cup {NoKey}
  BY <1>2, UnservedType DEF IInv, UnservedOK, ReportOK
<1>4. k \in Nat
  BY <1>3 DEF AckedKey, NoKey
<1>5. ASSUME k \in DOMAIN store[d.topic].msg PROVE store[d.topic].msg[k] = d.msg
  <2>1. CacheUsers[d.topic] # {}
    BY <1>3, <1>5 DEF IInv, StoresOK, TypeInv, TypeOK, DBTypeOK
  <2>. QED
    BY <1>3, <1>5, <2>1, Zenon DEF ReportInv, AckedKey
<1>6. Write(d.topic, DelMessage(store[d.topic], k)) /\ UNCHANGED <<broker, recorded>>
  BY DEF AckConfirmed, kafka, history
<1>. QED
  BY <1>2, <1>3, <1>4, <1>5, <1>6, Zenon

\* A database that gains the next number, or loses one the window or Kafka
\* is past, keeps what is recorded.
LEMMA KeptWrite ==
  ASSUME NEW s, NEW u, NEW r, r.num \in Nat, r.num < Count(s), Kept(s, r), Count(s) \in Nat,
         Count(u) \in Nat, Count(s) <= Count(u),
         \/ r.num \in DOMAIN s.msg => r.num \in DOMAIN u.msg /\ u.msg[r.num] = s.msg[r.num]
         \/ r.num + NumMax < Count(u) - 1
         \/ s.msg[r.num] \in broker
  PROVE  r.num < Count(u) /\ Kept(u, r)
<1>1. r.num < Count(u) /\ (r.num + NumMax < Count(s) - 1 => r.num + NumMax < Count(u) - 1)
  BY BoundsAssumption
<1>. QED
  BY <1>1 DEF Kept, Holds

\* Every write of the send path keeps what Retained says.
LEMMA PutMsgKeeps ==
  ASSUME ~MachineCrash, IInv, RecordedOK, SuccessOK', NEW th \in Threads, PutMsg(th)
  PROVE  RecordedOK'
<1>a. PICK j, t, s, u : /\ j = job[th] /\ t = j.topic /\ s = store[t]
                        /\ u = PutMessage(s, j.num, j.msg)
  BY Zenon
<1>b. j = job[th] /\ t = j.topic /\ s = store[t]
  BY <1>a
<1>c. u = PutMessage(s, j.num, j.msg)
  BY <1>a
<1>1. Write(t, u) /\ UNCHANGED <<broker, recorded>> /\ pc[th] = "putmsg"
  BY <1>a DEF PutMsg, kafka, history
<1>2. t \in Topics /\ NumberInv("putmsg", j, first[th], s) /\ Count(s) \in Nat
  BY <1>b, <1>1, OwnStore DEF Numbering
<1>3. j.num = Count(s)
  BY <1>2 DEF NumberInv
<1>4. /\ Count(u) = Count(s)
      /\ \A k \in DOMAIN s.msg : k # j.num => k \in DOMAIN u.msg /\ u.msg[k] = s.msg[k]
  BY <1>c, PutMessageOps
<1>5. ASSUME NEW r \in recorded, r.topic = t PROVE r.num < Count(u) /\ Kept(u, r)
  <2>1. r.num \in Nat /\ r.num < Count(s) /\ Kept(s, r)
    BY <1>b, <1>5, RecordedFacts
  <2>. QED
    BY <1>2, <1>3, <1>4, <2>1, KeptWrite
<1>. QED
  BY <1>1, <1>2, <1>5, RecordedWrite

\* Writing the counter records the message that was just put: it is in the
\* database, and the window only moves past older ones.
LEMMA PutNextKeeps ==
  ASSUME ~MachineCrash, IInv, RecordedOK, SuccessOK', NEW th \in Threads, PutNext(th)
  PROVE  RecordedOK'
<1>a. PICK j, t, s, u, n : /\ j = job[th] /\ t = j.topic /\ s = store[t]
                           /\ u = PutCounter(s, j.num + 1)
                           /\ n = [topic |-> t, num |-> j.num, msg |-> j.msg]
  BY Zenon
<1>b. j = job[th] /\ t = j.topic /\ s = store[t]
  BY <1>a
<1>c. u = PutCounter(s, j.num + 1)
  BY <1>a
<1>d. n.topic = t /\ n.num = j.num /\ n.msg = j.msg
  BY <1>a
<1>1. Write(t, u) /\ UNCHANGED broker /\ recorded' = recorded \cup {n} /\ pc[th] = "putnext"
  BY <1>a DEF PutNext, kafka
<1>2. t \in Topics /\ j.num \in Nat /\ NumberInv("putnext", j, first[th], s)
  BY <1>b, <1>1, OwnStore DEF Numbering
<1>3. j.num = Count(s) /\ Holds(s, j.num, j.msg)
  BY <1>2 DEF NumberInv
<1>4. u.msg = s.msg /\ Count(u) = j.num + 1
  BY <1>c, <1>2, PutCounterOps
<1>5. ASSUME NEW r \in recorded, r.topic = t PROVE r.num < Count(u) /\ Kept(u, r)
  <2>1. r.num \in Nat /\ r.num < Count(s) /\ Kept(s, r)
    BY <1>b, <1>5, RecordedFacts
  <2>2. Count(s) \in Nat /\ Count(u) \in Nat /\ Count(s) <= Count(u)
    BY <1>2, <1>3, <1>4
  <2>. QED
    BY <1>4, <2>1, <2>2, KeptWrite
<1>6. n.num < Count(u) /\ Kept(u, n)
  BY <1>d, <1>2, <1>3, <1>4 DEF Kept, Holds
<1>7. /\ \A r \in recorded' : r.topic # t => r \in recorded
      /\ \A r \in recorded' : r.topic = t => r.num < Count(u) /\ Kept(u, r)
  BY <1>d, <1>1, <1>5, <1>6
<1>. QED
  BY <1>1, <1>2, <1>7, RecordedWrite

\* The trim loop only deletes messages the window has moved past.
LEMMA TrimDeleteKeeps ==
  ASSUME ~MachineCrash, IInv, RecordedOK, SuccessOK', NEW th \in Threads, TrimDelete(th)
  PROVE  RecordedOK'
<1>a. PICK j, t, s, f, u : /\ j = job[th] /\ t = j.topic /\ s = store[t] /\ f = first[th]
                           /\ u = DelFirst(s, t, f)
  BY Zenon
<1>b. j = job[th] /\ t = j.topic /\ s = store[t] /\ f = first[th]
  BY <1>a
<1>c. u = DelFirst(s, t, f)
  BY <1>a
<1>1. Write(t, u) /\ UNCHANGED <<broker, recorded>> /\ pc[th] = "del"
  BY <1>a, Zenon DEF TrimDelete, kafka, history
<1>2. t \in Topics /\ j.num \in Nat /\ NumberInv("del", j, f, s) /\ j.topic = t
  BY <1>b, <1>1, OwnStore DEF Numbering
<1>3. j.num + 1 = Count(s) /\ f \in Nat /\ (KeyCut[t] = 0 => j.num - f > NumMax)
  BY <1>2 DEF NumberInv
<1>4. /\ Count(u) = Count(s) /\ \A i \in DOMAIN u.msg : u.msg[i] = s.msg[i]
      /\ \A i \in DOMAIN s.msg : i \in DOMAIN u.msg \/ (KeyCut[t] = 0 /\ i = f)
  BY <1>c, <1>3, DelFirstOps
<1>5. KeyCut[t] = 0 => f + NumMax < Count(u) - 1
  BY <1>2, <1>3, <1>4, BoundsAssumption
<1>6. Count(s) \in Nat
  BY <1>2, <1>3
<1>7. ASSUME NEW r \in recorded, r.topic = t PROVE r.num < Count(u) /\ Kept(u, r)
  <2>1. r.num \in Nat /\ r.num < Count(s) /\ Kept(s, r)
    BY <1>b, <1>7, RecordedFacts
  <2>. QED
    BY <1>4, <1>5, <1>6, <2>1, KeptWrite
<1>. QED
  BY <1>1, <1>2, <1>7, RecordedWrite

\* The delivery callback only deletes a message Kafka has.
LEMMA AckKeeps ==
  ASSUME ~MachineCrash, IInv, RecordedOK, SuccessOK', NEW th \in Threads, AckConfirmed(th)
  PROVE  RecordedOK'
<1>a. PICK d, t, k, s, u : /\ d = Head(batch[th]) /\ t = d.topic /\ k = AckedKey(d)
                           /\ s = store[t] /\ u = DelMessage(s, k)
  BY Zenon
<1>1. /\ t \in Topics /\ d.msg \in broker
      /\ k \in DOMAIN s.msg => s.msg[k] = d.msg
      /\ Write(t, u) /\ UNCHANGED <<broker, recorded>>
  BY <1>a, AckedMessage, Zenon DEF RecordedOK
<1>c. u = DelMessage(s, k)
  BY <1>a
<1>d. s = store[t]
  BY <1>a
<1>2. /\ Count(u) = Count(s) /\ DOMAIN u.msg = DOMAIN s.msg \ {k}
      /\ \A i \in DOMAIN u.msg : u.msg[i] = s.msg[i]
  BY <1>c, DelMessageOps
<1>3. ASSUME NEW r \in recorded, r.topic = t PROVE r.num < Count(u) /\ Kept(u, r)
  <2>1. r.num \in Nat /\ r.num < Count(s) /\ Kept(s, r) /\ Count(s) \in Nat
    BY <1>d, <1>3, RecordedFacts
  <2>2. \/ r.num \in DOMAIN s.msg => r.num \in DOMAIN u.msg /\ u.msg[r.num] = s.msg[r.num]
        \/ s.msg[r.num] \in broker
    BY <1>1, <1>2
  <2>. QED
    BY <1>2, <2>1, <2>2, KeptWrite
<1>. QED
  BY <1>1, <1>3, RecordedWrite

\* Every step keeps what Retained needs.
LEMMA RecordedStep ==
  ASSUME Disciplined, ~MachineCrash, IInv, RecordedOK, [Next]_vars
  PROVE  RecordedOK'
<1>. USE DEF dbvars, kafka, loopvars, history
<1>1. SuccessOK'
  BY SuccessStep DEF RecordedOK
<1>2. ASSUME UNCHANGED <<store, surviving, recorded>>, broker \subseteq broker'
      PROVE  RecordedOK'
  BY <1>1, <1>2, RecordedFrame
<1>3. CASE \E th \in Threads : Call(th)
  BY <1>2, <1>3 DEF Call, CallCached, CallPlain, AddProduceTopic, CallFlush, CallRecover
<1>4. ASSUME NEW th \in Threads, Step(th) PROVE RecordedOK'
  <2>1. CASE GetCounter(th) \/ TrimTest(th) \/ TrimDeleteFails(th) \/ TrimAbort(th)
    BY <1>2, <2>1 DEF GetCounter, TrimTest, TrimDeleteFails, TrimAbort, ProcessDies
  <2>2. CASE SendNothing(th) \/ Produce(th) \/ ProduceFails(th) \/ Poll(th) \/ AckIgnored(th)
               \/ PollReturn(th) \/ FlushReturn(th) \/ (\E t \in Topics : ReSend(th, t))
               \/ RecoverReturn(th)
    BY <1>2, <2>2, Zenon DEF SendNothing, Produce, ProduceFails, Poll, AckIgnored, PollReturn,
         FlushReturn, ReSend, RecoverReturn
  <2>3. ~GetCounterFails(th) /\ ~PutFails(th)
    BY Zenon DEF Disciplined, GetCounterFails, PutFails
  <2>. QED
    BY <1>1, <1>4, <2>1, <2>2, <2>3, PutMsgKeeps, PutNextKeeps, TrimDeleteKeeps, AckKeeps DEF Step
<1>5. CASE Kafka
  BY <1>2, <1>5 DEF Kafka, BrokerPersists, ReportSuccess, ReportError, Report
<1>6. CASE Crash
  <2>1. PICK s \in [Topics -> UNION {surviving[t] : t \in Topics}] :
          /\ \A t \in Topics : s[t] \in surviving[t]
          /\ store' = s /\ surviving' = [t \in Topics |-> {s[t]}]
    BY <1>6 DEF Crash
  <2>2. \A t \in Topics : s[t] = store[t]
    BY <2>1 DEF RecordedOK
  <2>3. store = [t \in Topics |-> store[t]] /\ surviving = [t \in Topics |-> surviving[t]]
    BY DEF IInv, TypeInv, TypeOK, DBTypeOK
  <2>4. store' = store
    BY <2>1, <2>2, <2>3
  <2>5. surviving' = surviving
    BY <2>1, <2>2, <2>3 DEF RecordedOK
  <2>. QED
    BY <1>2, <1>6, <2>4, <2>5 DEF Crash, ProcessDies
<1>7. CASE UNCHANGED vars
  BY <1>2, <1>7 DEF vars
<1>8. CASE Restart
  BY <1>2, <1>8 DEF Restart
<1>. QED
  BY <1>3, <1>4, <1>5, <1>6, <1>7, <1>8 DEF Next, Running

\* Nothing is recorded in a fresh process.
LEMMA InitRecorded == Init => RecordedOK
BY DEF Init, RecordedOK, SuccessOK, Delivered, Retained, Range

\* As long as the machine itself stays up, every message whose number was
\* recorded stays in the cache until Kafka has it or the window passes it,
\* through any number of crashes of the process.
THEOREM MessagesRetained ==
  ASSUME Disciplined, ~MachineCrash
  PROVE  Spec => []Retained
<1>1. Init => RecordedOK
  BY InitRecorded
<1>2. IInv /\ RecordedOK /\ [Next]_vars => RecordedOK'
  BY RecordedStep
<1>3. Spec => []IInv
  BY Inductive
<1>4. RecordedOK => Retained
  BY DEF RecordedOK
<1>. QED
  BY <1>1, <1>2, <1>3, <1>4, PTL DEF Spec

=============================================================================
