------------------------- MODULE CachedOutboxProofs -------------------------
(***************************************************************************)
(* The cached send path implements Outbox, for every disciplined           *)
(* application on a machine that stays up.                                 *)
(***************************************************************************)
EXTENDS CachedSafetyProofs, CachedOutbox

\* A body is at Kafka only after its own call has handed it over.
LEMMA FreshStep ==
  ASSUME IInv, FreshOK, [Next]_vars
  PROVE  FreshOK'
<1>. USE DEF dbvars, kafka, loopvars, history
<1>0. job \in [Threads -> Jobs] /\ pc \in [Threads -> PCs]
  BY DEF IInv, TypeInv, TypeOK, ThreadTypeOK
\* no thread starts to have a message in hand
<1>1. ASSUME UNCHANGED <<broker, used>>,
             \A x \in Threads : InHand(x)' => InHand(x) /\ job'[x].msg = job[x].msg,
             \A e \in outq' : e \in outq \/ \E x \in Threads :
                InHand(x) /\ ~InHand(x)' /\ e.msg = job[x].msg
      PROVE  FreshOK'
  BY <1>1 DEF FreshOK
\* th starts a call with m
<1>2. ASSUME NEW th \in Threads, NEW m, m \notin used, used' = used \cup {m},
             UNCHANGED <<broker, outq>>, job'[th].msg = m,
             \A x \in Threads \ {th} : pc'[x] = pc[x] /\ job'[x] = job[x]
      PROVE  FreshOK'
  BY <1>2 DEF FreshOK, InHand
<1>3. ASSUME NEW th \in Threads, Call(th) PROVE FreshOK'
  <2>1. ASSUME NEW t \in Topics, NEW m \in Msgs, CallCached(th, t, m) \/ CallPlain(th, t, m)
        PROVE  FreshOK'
    BY <1>0, <1>2, <2>1 DEF CallCached, CallPlain, Goto
  <2>2. CASE \E t \in Topics : AddProduceTopic(th, t)
    BY <1>1, <2>2 DEF AddProduceTopic, InHand
  <2>3. CASE CallFlush(th) \/ CallRecover(th)
    BY <1>0, <1>1, <2>3 DEF CallFlush, CallRecover, Goto, InHand, Numbering
  <2>. QED
    BY <1>3, <2>1, <2>2, <2>3 DEF Call
<1>4. ASSUME NEW th \in Threads, Step(th) PROVE FreshOK'
  <2>1. CASE GetCounter(th)
    <3>1. /\ UNCHANGED <<broker, used, outq>> /\ pc[th] = "get" /\ job'[th].msg = job[th].msg
          /\ \A x \in Threads \ {th} : pc'[x] = pc[x] /\ job'[x] = job[x]
      BY <1>0, <2>1 DEF GetCounter, Goto, Jobs
    <3>. QED
      BY <1>1, <3>1 DEF InHand, Numbering
  <2>2. CASE GetCounterFails(th) \/ PutMsg(th) \/ PutNext(th) \/ PutFails(th)
               \/ TrimTest(th) \/ TrimDelete(th) \/ TrimDeleteFails(th)
    <3>1. /\ UNCHANGED <<broker, used, outq, job>> /\ pc[th] \in Numbering
          /\ \A x \in Threads \ {th} : pc'[x] = pc[x]
      BY <1>0, <2>2 DEF GetCounterFails, PutMsg, PutNext, PutFails, TrimTest, TrimDelete,
           TrimDeleteFails, Goto, Numbering
    <3>. QED
      BY <1>1, <3>1 DEF InHand
  <2>3. CASE SendNothing(th) \/ PollReturn(th)
    <3>1. job[th].kind # "resend"
      BY <2>3, SendKind DEF SendNothing, PollReturn
    <3>2. /\ UNCHANGED <<broker, used, outq, job>> /\ pc'[th] = "flush"
          /\ \A x \in Threads \ {th} : pc'[x] = pc[x]
      BY <1>0, <2>3, <3>1 DEF SendNothing, PollReturn, SendReturn, Goto
    <3>. QED
      BY <1>1, <3>2 DEF InHand, Numbering
  <2>4. CASE Produce(th)
    <3>. DEFINE e == [topic |-> job[th].topic, key |-> job[th].num, msg |-> job[th].msg]
    <3>1. /\ UNCHANGED <<broker, used, job>> /\ pc[th] = "send" /\ pc'[th] = "poll"
          /\ outq' = outq \cup {e}
          /\ \A x \in Threads \ {th} : pc'[x] = pc[x]
      BY <1>0, <2>4 DEF Produce, CanProduce, Goto
    <3>2. InHand(th) /\ ~InHand(th)' /\ e.msg = job[th].msg
      BY <3>1 DEF InHand, Numbering
    <3>3. \A x \in Threads : InHand(x)' => InHand(x)
      BY <3>1, <3>2 DEF InHand
    <3>. HIDE DEF e
    <3>. QED
      BY <1>1, <3>1, <3>2, <3>3
  <2>5. CASE ProduceFails(th) \/ Poll(th) \/ AckConfirmed(th) \/ AckIgnored(th)
    <3>1. /\ UNCHANGED <<broker, used, outq, job>>
          /\ pc'[th] \in {"poll", "serve", "flushserve"}
          /\ \A x \in Threads \ {th} : pc'[x] = pc[x]
      BY <1>0, <2>5 DEF ProduceFails, CanProduce, Poll, AckConfirmed, AckIgnored, Serving, Goto
    <3>. QED
      BY <1>1, <3>1 DEF InHand, Numbering
  <2>6. CASE FlushReturn(th) \/ RecoverReturn(th)
    <3>1. /\ UNCHANGED <<broker, used, outq>> /\ pc'[th] = "idle"
          /\ \A x \in Threads \ {th} : pc'[x] = pc[x] /\ job'[x] = job[x]
      BY <1>0, <2>6 DEF FlushReturn, RecoverReturn, Goto
    <3>. QED
      BY <1>1, <3>1 DEF InHand, Numbering
  <2>7. CASE \E t \in Topics : ReSend(th, t)
    <3>1. UNCHANGED <<broker, used, outq, job, pc>>
      BY <2>7 DEF ReSend, Cursor, IteratorValid
    <3>. QED
      BY <1>1, <3>1 DEF InHand
  <2>8. CASE TrimAbort(th)
    BY <1>1, <2>8 DEF TrimAbort, ProcessDies, InHand, Numbering
  <2>. QED
    BY <1>4, <2>1, <2>2, <2>3, <2>4, <2>5, <2>6, <2>7, <2>8 DEF Step
<1>5. ASSUME NEW e \in outq, BrokerPersists(e) PROVE FreshOK'
  BY <1>5 DEF BrokerPersists, FreshOK, InHand
<1>6. ASSUME NEW e \in outq, NEW ok \in BOOLEAN, Report(e, ok) PROVE FreshOK'
  BY <1>1, <1>6, Zenon DEF Report, InHand
<1>7. CASE Crash
  BY <1>1, <1>7 DEF Crash, ProcessDies, InHand, Numbering
<1>8. CASE UNCHANGED vars
  BY <1>1, <1>8, Zenon DEF vars, InHand
<1>9. CASE Restart
  BY <1>1, <1>9 DEF Restart, InHand, Numbering
<1>. QED
  BY <1>3, <1>4, <1>5, <1>6, <1>7, <1>8, <1>9, Zenon DEF Next, Running, Kafka, ReportSuccess, ReportError

-----------------------------------------------------------------------------
(* The refinement mapping.                                                 *)

\* A step that leaves the databases, the record and Kafka alone is not seen.
LEMMA Unseen ==
  ASSUME UNCHANGED <<store, recorded, broker>>
  PROVE  UNCHANGED OB!vars
BY DEF OB!vars, NextNums, HeldNums, Confirmed

\* What a write to the database of t changes of the mapped state.
LEMMA MappedWrite ==
  ASSUME IInv, NEW t \in Topics, NEW u, Write(t, u)
  PROVE  /\ NextNums' = [NextNums EXCEPT ![t] = Count(u)]
         /\ HeldNums' = [HeldNums EXCEPT ![t] = {k \in DOMAIN u.msg : k < Count(u)}]
<1>1. store = [x \in Topics |-> store[x]]
  BY DEF IInv, TypeInv, TypeOK, DBTypeOK
<1>2. store'[t] = u /\ \A x \in Topics \ {t} : store'[x] = store[x]
  BY <1>1 DEF Write
<1>3. NextNums' = [NextNums EXCEPT ![t] = Count(u)]
  BY <1>2, Zenon DEF NextNums
<1>4. HeldNums' = [HeldNums EXCEPT ![t] = {k \in DOMAIN u.msg : k < Count(u)}]
  BY <1>2, Zenon DEF HeldNums
<1>. QED
  BY <1>3, <1>4

\* Taking the key k out of a database releases k or is not seen.
LEMMA MappedDelete ==
  ASSUME IInv, NEW t \in Topics, NEW k \in Nat, NEW s, s = store[t],
         NEW u, Count(u) = Count(s), DOMAIN u.msg = DOMAIN s.msg \ {k}, Write(t, u),
         UNCHANGED <<recorded, broker>>
  PROVE  OB!Release(t, k) \/ UNCHANGED OB!vars
<1>2. /\ NextNums' = [NextNums EXCEPT ![t] = Count(u)]
      /\ HeldNums' = [HeldNums EXCEPT ![t] = {i \in DOMAIN u.msg : i < Count(u)}]
  BY MappedWrite, Zenon
<1>3. NextNums' = NextNums
  BY <1>2, Zenon DEF NextNums
<1>4. HeldNums' = [HeldNums EXCEPT ![t] = @ \ {k}]
  BY <1>2, Zenon DEF HeldNums
<1>5. Confirmed' = Confirmed
  BY Zenon DEF Confirmed
<1>6. CASE k \in HeldNums[t]
  BY <1>3, <1>4, <1>5, <1>6, Zenon DEF OB!Release
<1>7. CASE k \notin HeldNums[t]
  <2>1. HeldNums[t] \ {k} = HeldNums[t]
    BY <1>7, Zenon
  <2>2. HeldNums' = HeldNums
    BY <1>4, <2>1, Zenon DEF HeldNums
  <2>. QED
    BY <1>3, <1>5, <2>2, Zenon DEF OB!vars
<1>. QED
  BY <1>6, <1>7

\* Writing the counter is the moment a message is accepted.
LEMMA AcceptStep ==
  ASSUME IInv, FreshOK, NEW th \in Threads, PutNext(th)
  PROVE  OB!Next
<1>a. PICK j, t, s, u, n : /\ j = job[th] /\ t = j.topic /\ s = store[t]
                           /\ u = PutCounter(s, j.num + 1)
                           /\ n = [topic |-> t, num |-> j.num, msg |-> j.msg]
  BY Zenon
<1>b. j = job[th] /\ t = j.topic /\ s = store[t]
  BY <1>a
<1>c. u = PutCounter(s, j.num + 1)
  BY <1>a
<1>d. n = [topic |-> t, num |-> j.num, msg |-> j.msg]
  BY <1>a
<1>e. s = store[t]
  BY <1>a
<1>1. Write(t, u) /\ UNCHANGED broker /\ recorded' = recorded \cup {n} /\ pc[th] = "putnext"
  BY <1>a DEF PutNext, kafka
<1>2. /\ t \in Topics /\ j.num \in Nat /\ j.msg \in Msgs /\ IsStore(s)
      /\ NumberInv("putnext", j, first[th], s)
  BY <1>b, <1>1, OwnStore DEF Numbering
<1>3. j.num = Count(s) /\ j.num \in DOMAIN s.msg
  BY <1>2 DEF NumberInv, Holds
<1>4. u.msg = s.msg /\ Count(u) = j.num + 1
  BY <1>c, <1>2, PutCounterOps
<1>5. j.msg \notin broker
  BY <1>b, <1>1, Zenon DEF FreshOK, InHand, Numbering
<1>6. /\ NextNums' = [NextNums EXCEPT ![t] = Count(u)]
      /\ HeldNums' = [HeldNums EXCEPT ![t] = {k \in DOMAIN u.msg : k < Count(u)}]
  BY <1>1, <1>2, MappedWrite, Zenon
<1>7. NextNums[t] = j.num /\ NextNums' = [NextNums EXCEPT ![t] = @ + 1]
  BY <1>e, <1>2, <1>3, <1>4, <1>6, Zenon DEF NextNums
<1>8. {k \in DOMAIN u.msg : k < Count(u)} = {k \in DOMAIN s.msg : k < Count(s)} \cup {j.num}
  BY <1>2, <1>3, <1>4 DEF IsStore
<1>9. HeldNums[t] = {k \in DOMAIN s.msg : k < Count(s)}
  BY <1>e, <1>2, Zenon DEF HeldNums
<1>10. HeldNums' = [HeldNums EXCEPT ![t] = @ \cup {j.num}]
  BY <1>6, <1>8, <1>9, Zenon
<1>11. Confirmed' = Confirmed
  BY <1>d, <1>1, <1>5 DEF Confirmed
<1>12. OB!Accept(t, j.msg)
  BY <1>d, <1>1, <1>7, <1>10, <1>11, Zenon DEF OB!Accept
<1>. QED
  BY <1>2, <1>12, Zenon DEF OB!Next

\* A message written ahead of the counter is not seen yet.
LEMMA AheadStep ==
  ASSUME IInv, NEW th \in Threads, PutMsg(th)
  PROVE  UNCHANGED OB!vars
<1>a. PICK j, t, s, u : /\ j = job[th] /\ t = j.topic /\ s = store[t]
                        /\ u = PutMessage(s, j.num, j.msg)
  BY Zenon
<1>b. j = job[th] /\ t = j.topic /\ s = store[t]
  BY <1>a
<1>c. u = PutMessage(s, j.num, j.msg)
  BY <1>a
<1>d. s = store[t]
  BY <1>a
<1>1. Write(t, u) /\ UNCHANGED <<broker, recorded>> /\ pc[th] = "putmsg"
  BY <1>a DEF PutMsg, kafka, history
<1>2. t \in Topics /\ j.num \in Nat /\ NumberInv("putmsg", j, first[th], s)
  BY <1>b, <1>1, OwnStore DEF Numbering
<1>3. j.num = Count(s)
  BY <1>2 DEF NumberInv
<1>4. Count(u) = Count(s) /\ DOMAIN u.msg = DOMAIN s.msg \cup {j.num}
  BY <1>c, PutMessageOps
<1>5. /\ NextNums' = [NextNums EXCEPT ![t] = Count(u)]
      /\ HeldNums' = [HeldNums EXCEPT ![t] = {k \in DOMAIN u.msg : k < Count(u)}]
  BY <1>1, <1>2, MappedWrite, Zenon
<1>6. NextNums' = NextNums
  BY <1>d, <1>4, <1>5, Zenon DEF NextNums
<1>7. {k \in DOMAIN u.msg : k < Count(u)} = {k \in DOMAIN s.msg : k < Count(s)}
  BY <1>2, <1>3, <1>4
<1>8. HeldNums' = HeldNums
  BY <1>d, <1>5, <1>7, Zenon DEF HeldNums
<1>. QED
  BY <1>1, <1>6, <1>8, Zenon DEF OB!vars, Confirmed

\* The trim loop drops only what the window has passed.
LEMMA EvictStep ==
  ASSUME IInv, NEW th \in Threads, TrimDelete(th)
  PROVE  [OB!Next]_(OB!vars)
<1>a. PICK j, t, s, f, u : /\ j = job[th] /\ t = j.topic /\ s = store[t] /\ f = first[th]
                           /\ u = DelFirst(s, t, f)
  BY Zenon
<1>b. j = job[th] /\ t = j.topic /\ s = store[t] /\ f = first[th]
  BY <1>a
<1>c. u = DelFirst(s, t, f)
  BY <1>a
<1>d. s = store[t]
  BY <1>a
<1>1. Write(t, u) /\ UNCHANGED <<broker, recorded>> /\ pc[th] = "del"
  BY <1>a, Zenon DEF TrimDelete, kafka, history
<1>2. t \in Topics /\ j.num \in Nat /\ NumberInv("del", j, f, s) /\ j.topic = t
  BY <1>b, <1>1, OwnStore DEF Numbering
<1>3. j.num + 1 = Count(s) /\ f \in Nat /\ (KeyCut[t] = 0 => j.num - f > NumMax)
  BY <1>2 DEF NumberInv
<1>4. (KeyCut[t] = 0 => u = DelMessage(s, f)) /\ (KeyCut[t] # 0 => u = s)
  BY <1>c, <1>3, DelFirstOps
<1>5. CASE KeyCut[t] = 0
  <2>1. OB!Release(t, f) \/ UNCHANGED OB!vars
    <3>1. Count(u) = Count(s) /\ DOMAIN u.msg = DOMAIN s.msg \ {f}
      BY <1>4, <1>5, DelMessageOps
    <3>. QED
      BY <1>d, <1>1, <1>2, <1>3, <3>1, MappedDelete, Zenon
  <2>2. f + NumMax < Count(s) - 1
    BY <1>2, <1>3, <1>5, BoundsAssumption
  <2>3. f + NumMax < NextNums[t] - 1
    BY <1>d, <1>2, <2>2, Zenon DEF NextNums
  <2>. QED
    BY <1>2, <2>1, <2>3, Zenon DEF OB!Next, OB!Evict, OB!Release
<1>6. CASE KeyCut[t] # 0
  <2>1. store = [x \in Topics |-> store[x]]
    BY DEF IInv, TypeInv, TypeOK, DBTypeOK
  <2>2. store' = store
    BY <1>d, <1>1, <1>2, <1>4, <1>6, <2>1, Zenon DEF Write
  <2>. QED
    BY <1>1, <2>2, Unseen
<1>. QED
  BY <1>5, <1>6

\* A delivery callback clears a message Kafka has, or one out of the window.
LEMMA ClearStep ==
  ASSUME IInv, RecordedOK, NEW th \in Threads, AckConfirmed(th)
  PROVE  [OB!Next]_(OB!vars)
<1>a. PICK d, t, k, s, u : /\ d = Head(batch[th]) /\ t = d.topic /\ k = AckedKey(d)
                           /\ s = store[t] /\ u = DelMessage(s, k)
  BY Zenon
<1>b. s = store[t]
  BY <1>a
<1>c. u = DelMessage(s, k)
  BY <1>a
<1>1. /\ t \in Topics /\ d.msg \in broker /\ k \in Nat
      /\ k \in DOMAIN s.msg => s.msg[k] = d.msg
      /\ Write(t, u) /\ UNCHANGED <<broker, recorded>>
  BY <1>a, AckedMessage, Zenon DEF RecordedOK
<1>2. OB!Release(t, k) \/ UNCHANGED OB!vars
  <2>1. Count(u) = Count(s) /\ DOMAIN u.msg = DOMAIN s.msg \ {k}
    BY <1>c, DelMessageOps
  <2>. QED
    BY <1>b, <1>1, <2>1, MappedDelete, Zenon
<1>3. ASSUME OB!Release(t, k) PROVE OB!Next
  <2>1. k \in HeldNums[t]
    BY <1>3 DEF OB!Release
  <2>2. CASE \A r \in recorded : r.topic = t /\ r.num = k => r.msg \in broker
    <3>1. OB!Clear(t, k)
      BY <1>3, <2>2, Zenon DEF OB!Clear, Confirmed
    <3>. QED
      BY <1>1, <2>1, <3>1, Zenon DEF OB!Next
  <2>3. ASSUME NEW r \in recorded, r.topic = t, r.num = k, r.msg \notin broker PROVE OB!Next
    <3>1. Kept(s, r)
      BY <1>b, <2>3, RecordedFacts
    <3>2. k + NumMax < Count(s) - 1
      BY <1>1, <2>3, <3>1, Zenon DEF Kept, Holds
    <3>3. OB!Evict(t, k)
      BY <1>b, <1>1, <1>3, <3>2, Zenon DEF OB!Evict, NextNums
    <3>. QED
      BY <1>1, <2>1, <3>3, Zenon DEF OB!Next
  <2>. QED
    BY <2>2, <2>3
<1>. QED
  BY <1>2, <1>3

\* Every step is a step of Outbox or not seen by it.
LEMMA OutboxStep ==
  ASSUME Disciplined, IInv, RecordedOK, FreshOK, [Next]_vars
  PROVE  [OB!Next]_(OB!vars)
<1>. USE DEF dbvars, kafka, loopvars, history
<1>1. CASE \E th \in Threads : Call(th)
  BY <1>1, Unseen DEF Call, CallCached, CallPlain, AddProduceTopic, CallFlush, CallRecover
<1>2. ASSUME NEW th \in Threads, Step(th) PROVE [OB!Next]_(OB!vars)
  <2>1. CASE GetCounter(th) \/ TrimTest(th) \/ TrimDeleteFails(th) \/ TrimAbort(th)
    BY <2>1, Unseen DEF GetCounter, TrimTest, TrimDeleteFails, TrimAbort, ProcessDies
  <2>2. CASE SendNothing(th) \/ Produce(th) \/ ProduceFails(th) \/ Poll(th) \/ AckIgnored(th)
               \/ PollReturn(th) \/ FlushReturn(th) \/ (\E t \in Topics : ReSend(th, t))
               \/ RecoverReturn(th)
    BY <2>2, Unseen, Zenon DEF SendNothing, Produce, ProduceFails, Poll, AckIgnored, PollReturn,
         FlushReturn, ReSend, RecoverReturn
  <2>3. ~GetCounterFails(th) /\ ~PutFails(th)
    BY Zenon DEF Disciplined, GetCounterFails, PutFails
  <2>. QED
    BY <1>2, <2>1, <2>2, <2>3, AheadStep, AcceptStep, EvictStep, ClearStep DEF Step
<1>3. ASSUME NEW e \in outq, BrokerPersists(e) PROVE [OB!Next]_(OB!vars)
  <2>1. UNCHANGED <<store, recorded>> /\ broker' = broker \cup {e.msg}
    BY <1>3 DEF BrokerPersists
  <2>2. NextNums' = NextNums /\ HeldNums' = HeldNums
    BY <2>1 DEF NextNums, HeldNums
  <2>3. CASE \E r \in recorded : r.msg = e.msg
    <3>1. Confirmed' = Confirmed \cup {e.msg}
      BY <2>1, <2>3 DEF Confirmed
    <3>2. OB!Confirm(e.msg) /\ e.msg \in Msgs
      BY <2>1, <2>2, <2>3, <3>1 DEF OB!Confirm, IInv, TypeInv, TypeOK, KafkaTypeOK, Entries
    <3>. QED
      BY <3>2, Zenon DEF OB!Next
  <2>4. CASE ~\E r \in recorded : r.msg = e.msg
    <3>1. Confirmed' = Confirmed
      BY <2>1, <2>4 DEF Confirmed
    <3>. QED
      BY <2>1, <2>2, <3>1 DEF OB!vars
  <2>. QED
    BY <2>3, <2>4
<1>4. ASSUME NEW e \in outq, NEW ok \in BOOLEAN, Report(e, ok) PROVE [OB!Next]_(OB!vars)
  BY <1>4, Unseen DEF Report
<1>5. CASE Crash
  <2>1. PICK s \in [Topics -> UNION {surviving[t] : t \in Topics}] :
          (\A t \in Topics : s[t] \in surviving[t]) /\ store' = s
    BY <1>5 DEF Crash
  <2>2. \A t \in Topics : s[t] = store[t]
    BY <2>1 DEF RecordedOK
  <2>3. store' = store
    BY <2>1, <2>2 DEF IInv, TypeInv, TypeOK, DBTypeOK
  <2>. QED
    BY <1>5, <2>3, Unseen DEF Crash, ProcessDies
<1>6. CASE UNCHANGED vars
  BY <1>6, Unseen DEF vars
<1>7. CASE Restart
  BY <1>7, Unseen DEF Restart
<1>. QED
  BY <1>1, <1>2, <1>3, <1>4, <1>5, <1>6, <1>7, Zenon DEF Next, Running, Kafka, ReportSuccess, ReportError

\* As long as the machine itself stays up, the cached send path keeps the
\* promise README.md makes of it.
THEOREM SendPathImplementsOutbox ==
  ASSUME Disciplined, ~MachineCrash
  PROVE  Spec => ImplementsOutbox
<1>1. Init => OB!Init
  BY DEF Init, OB!Init, NextNums, HeldNums, Confirmed, EmptyStore, Count, Absent
<1>2. Init => RecordedOK
  BY InitRecorded
<1>3. Init => FreshOK
  BY DEF Init, FreshOK, InHand, Numbering
<1>4. IInv /\ RecordedOK /\ [Next]_vars => RecordedOK'
  BY RecordedStep
<1>5. IInv /\ FreshOK /\ [Next]_vars => FreshOK'
  BY FreshStep
<1>6. IInv /\ RecordedOK /\ FreshOK /\ [Next]_vars => [OB!Next]_(OB!vars)
  BY OutboxStep DEF RecordedOK
<1>7. Spec => []IInv
  BY Inductive
<1>. QED
  BY <1>1, <1>2, <1>3, <1>4, <1>5, <1>6, <1>7, PTL DEF Spec, ImplementsOutbox, OB!Spec

=============================================================================
