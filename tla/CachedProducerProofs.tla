------------------------ MODULE CachedProducerProofs ------------------------
(***************************************************************************)
(* Proofs about CachedProducer, for every number of threads, topics and    *)
(* messages and every window.                                              *)
(***************************************************************************)
EXTENDS CachedInvariants, NaturalsInduction, WellFoundedInduction, TLAPS

\* The least key exists: _get_first of a database with messages returns the
\* smallest number in it.
LEMMA FirstKeyLeast ==
  ASSUME NEW s, IsStore(s), DOMAIN s.msg # {}
  PROVE  /\ FirstKey(s) \in DOMAIN s.msg
         /\ \A i \in DOMAIN s.msg : FirstKey(s) <= i
<1>1. PICK k \in DOMAIN s.msg : \A i \in DOMAIN s.msg : ~(<<i, k>> \in OpToRel(<, Nat))
  BY NatLessThanWellFounded, WFMin, Zenon DEF IsStore
<1>2. ASSUME NEW i \in DOMAIN s.msg PROVE k <= i
  <2>1. i \in Nat /\ k \in Nat
    BY DEF IsStore
  <2>2. i < k => <<i, k>> \in OpToRel(<, Nat)
    BY <2>1, Zenon DEF OpToRel
  <2>3. ~(i < k)
    BY <1>1, <2>2, Zenon
  <2>. QED
    BY <2>1, <2>3
<1>. QED
  BY <1>2, Zenon DEF FirstKey

\* What the writes of the database leave is a database again.
LEMMA StoreOps ==
  ASSUME NEW s, IsStore(s), NEW k \in Nat, NEW m \in Msgs, NEW t \in Topics
  PROVE  /\ Count(s) \in Nat
         /\ IsStore(PutMessage(s, k, m))
         /\ IsStore(PutCounter(s, k))
         /\ IsStore(DelMessage(s, k))
         /\ \A i \in Nat \cup {DescKey} : IsStore(DelFirst(s, t, i))
<1>1. Count(s) \in Nat
  BY DEF Count, IsStore, Absent
<1>2. IsStore(PutMessage(s, k, m))
  BY DEF PutMessage, IsStore
<1>3. IsStore(PutCounter(s, k)) /\ IsStore(DelCounter(s))
  BY DEF PutCounter, DelCounter, IsStore, Absent
<1>4. \A i \in Nat : IsStore(DelMessage(s, i))
  BY DEF DelMessage, Restrict, IsStore
<1>5. \A i \in Nat \cup {DescKey} : IsStore(DelFirst(s, t, i))
  BY <1>3, <1>4 DEF DelFirst
<1>. QED
  BY <1>1, <1>2, <1>3, <1>4, <1>5

\* A write keeps the databases well-formed.
LEMMA WriteType ==
  ASSUME DBTypeOK, NEW t \in Topics, NEW s, IsStore(s), Write(t, s),
         dirs' \subseteq Topics
  PROVE  DBTypeOK'
BY Zenon DEF DBTypeOK, Write

\* An empty queue has no elements.
LEMMA EmptyRange == Range(<< >>) = {}
<1>1. DOMAIN << >> = {}
  OBVIOUS
<1>. QED
  BY <1>1 DEF Range

\* Taking the oldest report off a queue, and putting one at its end.
LEMMA QueueOps ==
  ASSUME NEW S, NEW q \in Seq(S)
  PROVE  /\ q # << >> => /\ Head(q) \in S /\ Tail(q) \in Seq(S)
                         /\ Head(q) \in Range(q) /\ Range(Tail(q)) \subseteq Range(q)
         /\ \A e \in S : Append(q, e) \in Seq(S) /\ Range(Append(q, e)) = Range(q) \cup {e}
         /\ Range(q) \subseteq S
<1>1. ASSUME q # << >>
      PROVE  /\ Head(q) \in S /\ Tail(q) \in Seq(S)
             /\ Head(q) \in Range(q) /\ Range(Tail(q)) \subseteq Range(q)
  BY <1>1 DEF Range
<1>2. ASSUME NEW e \in S
      PROVE  Append(q, e) \in Seq(S) /\ Range(Append(q, e)) = Range(q) \cup {e}
  <2>. DEFINE a == Append(q, e)
  <2>1. /\ a \in Seq(S) /\ DOMAIN a = 1 .. Len(q) + 1 /\ DOMAIN q = 1 .. Len(q)
        /\ Len(q) \in Nat /\ a[Len(q) + 1] = e /\ \A i \in 1 .. Len(q) : a[i] = q[i]
    OBVIOUS
  <2>. HIDE DEF a
  <2>2. Range(a) \subseteq Range(q) \cup {e}
    BY <2>1 DEF Range
  <2>3. Range(q) \subseteq Range(a)
    BY <2>1 DEF Range
  <2>4. e \in Range(a)
    BY <2>1 DEF Range
  <2>. QED
    BY <2>1, <2>2, <2>3, <2>4 DEF a
<1>3. Range(q) \subseteq S
  BY DEF Range
<1>. QED
  BY <1>1, <1>2, <1>3

\* The initial locals of a thread are of the declared shape.
LEMMA IdleJobType == IdleJob \in Jobs
BY TopicsAssumption DEF IdleJob, Jobs, NoKey

-----------------------------------------------------------------------------
(* Type correctness.                                                       *)

\* Starting a call keeps the types.
LEMMA CallType ==
  ASSUME TypeInv, NEW th \in Threads, Call(th)
  PROVE  TypeInv'
<1>. USE DEF TypeInv, Numbering, TypeOK, DBTypeOK, KafkaTypeOK, ThreadTypeOK, HistoryTypeOK,
         Jobs, PCs, NoKey, dbvars, kafka, loopvars, history
<1>1. ASSUME NEW t \in Topics, NEW m \in Msgs, CallCached(th, t, m) PROVE TypeInv'
  BY <1>1 DEF CallCached, Goto
<1>2. ASSUME NEW t \in Topics, NEW m \in Msgs, CallPlain(th, t, m) PROVE TypeInv'
  BY <1>2 DEF CallPlain, Goto
<1>3. ASSUME NEW t \in Topics, AddProduceTopic(th, t) PROVE TypeInv'
  BY <1>3 DEF AddProduceTopic
<1>4. CASE CallFlush(th)
  BY <1>4 DEF CallFlush, Goto
<1>5. CASE CallRecover(th)
  BY <1>5 DEF CallRecover, Goto
<1>. QED
  BY <1>1, <1>2, <1>3, <1>4, <1>5 DEF Call

\* A step that only moves its thread and writes the database keeps the types.
LEMMA StepTypeDB ==
  ASSUME TypeInv, NEW th \in Threads,
         GetCounter(th) \/ GetCounterFails(th) \/ PutMsg(th) \/ PutNext(th)
           \/ PutFails(th) \/ TrimTest(th) \/ TrimDelete(th) \/ TrimDeleteFails(th)
  PROVE  TypeInv'
<1>. DEFINE j == job[th]
            s == store[j.topic]
<1>0. /\ j \in Jobs /\ j.topic \in Topics /\ j.msg \in Msgs /\ IsStore(s)
      /\ pc[th] \in Numbering => j.num \in Nat
      /\ first[th] \in Nat \cup {DescKey}
  BY DEF TypeInv, TypeOK, ThreadTypeOK, DBTypeOK, Jobs
<1>. USE DEF dbvars, kafka, loopvars, history
<1>1. CASE GetCounter(th)
  <2>1. Count(s) \in Nat
    BY <1>0, StoreOps
  <2>2. job' \in [Threads -> Jobs] /\ job'[th].num \in Nat
    BY <1>0, <1>1, <2>1, Zenon DEF GetCounter, TypeInv, TypeOK, ThreadTypeOK, Jobs
  <2>. QED
    BY <1>1, <2>2, Zenon DEF GetCounter, Goto, TypeInv, Numbering, TypeOK, DBTypeOK,
         KafkaTypeOK, ThreadTypeOK, HistoryTypeOK, PCs
<1>2. CASE GetCounterFails(th)
  BY <1>2 DEF GetCounterFails, Goto, TypeInv, Numbering, TypeOK, DBTypeOK, KafkaTypeOK, ThreadTypeOK, HistoryTypeOK, PCs
<1>3. CASE PutMsg(th)
  <2>1. DBTypeOK'
    <3>1. IsStore(PutMessage(s, j.num, j.msg))
      BY <1>0, <1>3, StoreOps DEF PutMsg, Numbering
    <3>2. dirs' \subseteq Topics
      BY <1>3 DEF PutMsg, TypeInv, TypeOK, DBTypeOK
    <3>. QED
      BY <1>0, <1>3, <3>1, <3>2, WriteType DEF PutMsg, TypeInv, TypeOK
  <2>. QED
    BY <1>3, <2>1 DEF PutMsg, Goto, TypeInv, Numbering, TypeOK, DBTypeOK, KafkaTypeOK, ThreadTypeOK, HistoryTypeOK, PCs
<1>4. CASE PutNext(th)
  <2>1. DBTypeOK'
    <3>1. IsStore(PutCounter(s, j.num + 1))
      <4>1. pc[th] \in Numbering
        BY <1>4, Zenon DEF PutNext, Numbering
      <4>2. j.num \in Nat
        BY <1>0, <4>1
      <4>. HIDE DEF j
      <4>3. j.num + 1 \in Nat
        BY <4>2
      <4>. QED
        BY <1>0, <4>3, StoreOps
    <3>2. dirs' \subseteq Topics
      BY <1>4 DEF PutNext, TypeInv, TypeOK, DBTypeOK
    <3>. QED
      BY <1>0, <1>4, <3>1, <3>2, WriteType DEF PutNext, TypeInv, TypeOK
  <2>2. HistoryTypeOK'
    <3>1. pc[th] \in Numbering
      BY <1>4 DEF PutNext, Numbering
    <3>2. [topic |-> j.topic, num |-> j.num, msg |-> j.msg] \in [topic : Topics, num : Nat, msg : Msgs]
      BY <1>0, <3>1
    <3>. QED
      BY <1>4, <3>2 DEF PutNext, TypeInv, TypeOK, HistoryTypeOK
  <2>. QED
    BY <1>4, <2>1, <2>2 DEF PutNext, Goto, TypeInv, Numbering, TypeOK, KafkaTypeOK, ThreadTypeOK, PCs
<1>5. CASE PutFails(th)
  BY <1>5 DEF PutFails, Goto, TypeInv, Numbering, TypeOK, DBTypeOK, KafkaTypeOK, ThreadTypeOK, HistoryTypeOK, PCs
<1>6. CASE TrimTest(th)
  <2>1. FirstKey(s) \in Nat \cup {DescKey}
    BY <1>0, FirstKeyLeast, Zenon DEF FirstKey, IsStore
  <2>. QED
    BY <1>6, <2>1, Zenon DEF TrimTest, Goto, TypeInv, Numbering, TypeOK, DBTypeOK, KafkaTypeOK, ThreadTypeOK, HistoryTypeOK, PCs
<1>7. CASE TrimDelete(th)
  <2>1. DBTypeOK'
    <3>1. IsStore(DelFirst(s, j.topic, first[th]))
      BY <1>0, StoreOps, Zenon
    <3>2. dirs' \subseteq Topics
      BY <1>7 DEF TrimDelete, TypeInv, TypeOK, DBTypeOK
    <3>. QED
      BY <1>0, <1>7, <3>1, <3>2, WriteType DEF TrimDelete, TypeInv, TypeOK
  <2>. QED
    BY <1>7, <2>1 DEF TrimDelete, Goto, TypeInv, Numbering, TypeOK, DBTypeOK, KafkaTypeOK, ThreadTypeOK, HistoryTypeOK, PCs
<1>8. CASE TrimDeleteFails(th)
  BY <1>8 DEF TrimDeleteFails, Goto, TypeInv, Numbering, TypeOK, DBTypeOK, KafkaTypeOK, ThreadTypeOK, HistoryTypeOK, PCs
<1>. QED
  BY <1>1, <1>2, <1>3, <1>4, <1>5, <1>6, <1>7, <1>8

\* Sending, serving reports and recovering keep the types.
LEMMA StepTypeSend ==
  ASSUME TypeInv, NEW th \in Threads,
         SendNothing(th) \/ Produce(th) \/ ProduceFails(th) \/ Poll(th)
           \/ AckConfirmed(th) \/ AckIgnored(th) \/ PollReturn(th) \/ FlushReturn(th)
           \/ (\E t \in Topics : ReSend(th, t)) \/ RecoverReturn(th)
  PROVE  TypeInv'
<1>. USE DEF dbvars, kafka, loopvars, history
<1>0. job[th] \in Jobs /\ batch[th] \in Seq(Reports)
  BY DEF TypeInv, TypeOK, ThreadTypeOK
<1>1. ASSUME SendReturn(th)
      PROVE  /\ job' \in [Threads -> Jobs] /\ todo' \in [Threads -> SUBSET Msgs]
             /\ pc' \in [Threads -> PCs] /\ pc'[th] \notin Numbering
             /\ \A x \in Threads \ {th} : pc'[x] = pc[x] /\ job'[x] = job[x]
  <2>1. CASE job[th].kind = "resend" /\ todo[th] # {}
    <3>1. PICK m \in todo[th] : /\ job' = [job EXCEPT ![th] = [kind |-> "resend",
                                     topic |-> @.topic, msg |-> m, num |-> NoKey]]
                                /\ todo' = [todo EXCEPT ![th] = @ \ {m}]
                                /\ Goto(th, "send")
      BY <1>1, <2>1 DEF SendReturn
    <3>2. m \in Msgs
      BY DEF TypeInv, TypeOK, ThreadTypeOK
    <3>3. job' \in [Threads -> Jobs] /\ todo' \in [Threads -> SUBSET Msgs]
      <4>1. [kind |-> "resend", topic |-> job[th].topic, msg |-> m, num |-> NoKey] \in Jobs
        BY <1>0, <3>2 DEF Jobs
      <4>. QED
        BY <3>1, <4>1 DEF TypeInv, TypeOK, ThreadTypeOK
    <3>. QED
      BY <3>1, <3>3 DEF Goto, TypeInv, TypeOK, ThreadTypeOK, PCs, Numbering
  <2>2. CASE ~(job[th].kind = "resend" /\ todo[th] # {})
    BY <1>1, <2>2, Zenon DEF SendReturn, Goto, TypeInv, TypeOK, ThreadTypeOK, PCs, Numbering
  <2>. QED
    BY <2>1, <2>2
<1>2. CASE SendNothing(th)
  BY <1>1, <1>2, Zenon DEF SendNothing, TypeInv, TypeOK, DBTypeOK, KafkaTypeOK, ThreadTypeOK, HistoryTypeOK
<1>3. CASE Produce(th)
  <2>1. outq' \subseteq Entries
    <3>1. [topic |-> job[th].topic, key |-> job[th].num, msg |-> job[th].msg] \in Entries
      BY <1>0 DEF Entries, Jobs
    <3>. QED
      BY <1>3, <3>1 DEF Produce, TypeInv, TypeOK, KafkaTypeOK
  <2>. QED
    BY <1>3, <2>1 DEF Produce, Goto, TypeInv, Numbering, PCs, TypeOK, DBTypeOK, KafkaTypeOK, ThreadTypeOK, HistoryTypeOK
<1>4. CASE ProduceFails(th)
  BY <1>4 DEF ProduceFails, Goto, TypeInv, Numbering, PCs, TypeOK, DBTypeOK, KafkaTypeOK, ThreadTypeOK, HistoryTypeOK
<1>5. CASE Poll(th)
  BY <1>5 DEF Poll, Goto, TypeInv, Numbering, PCs, TypeOK, DBTypeOK, KafkaTypeOK, ThreadTypeOK, HistoryTypeOK
<1>6. CASE AckConfirmed(th)
  <2>. DEFINE d == Head(batch[th])
  <2>1. d \in Reports /\ d.topic \in Topics /\ AckedKey(d) \in Nat
        /\ Tail(batch[th]) \in Seq(Reports)
    <3>1. d \in Reports /\ Tail(batch[th]) \in Seq(Reports)
      BY <1>0, <1>6, QueueOps DEF AckConfirmed, Serving
    <3>. QED
      BY <3>1 DEF Reports, AckedKey, NoKey
  <2>2. DBTypeOK'
    <3>1. IsStore(DelMessage(store[d.topic], AckedKey(d)))
      <4>1. IsStore(store[d.topic])
        BY <2>1 DEF TypeInv, TypeOK, DBTypeOK
      <4>2. PICK m \in Msgs : TRUE
        BY TopicsAssumption
      <4>. QED
        BY <2>1, <4>1, <4>2, StoreOps
    <3>2. dirs' \subseteq Topics
      BY <1>6, <2>1 DEF AckConfirmed, TypeInv, TypeOK, DBTypeOK
    <3>. QED
      BY <1>6, <2>1, <3>1, <3>2, WriteType DEF AckConfirmed, TypeInv, TypeOK
  <2>. QED
    BY <1>6, <2>1, <2>2 DEF AckConfirmed, TypeInv, TypeOK, KafkaTypeOK, ThreadTypeOK,
         HistoryTypeOK
<1>7. CASE AckIgnored(th)
  <2>1. Head(batch[th]).topic \in Topics /\ Tail(batch[th]) \in Seq(Reports)
    <3>1. Head(batch[th]) \in Reports /\ Tail(batch[th]) \in Seq(Reports)
      BY <1>0, <1>7, QueueOps, Zenon DEF AckIgnored, Serving
    <3>. QED
      BY <3>1 DEF Reports
  <2>. QED
    BY <1>7, <2>1 DEF AckIgnored, TypeInv, TypeOK, DBTypeOK, KafkaTypeOK, ThreadTypeOK, HistoryTypeOK
<1>8. CASE PollReturn(th)
  BY <1>1, <1>8, Zenon DEF PollReturn, TypeInv, TypeOK, DBTypeOK, KafkaTypeOK, ThreadTypeOK, HistoryTypeOK
<1>9. CASE FlushReturn(th)
  BY <1>9, IdleJobType DEF FlushReturn, Goto, TypeInv, Numbering, PCs, TypeOK, DBTypeOK, KafkaTypeOK, ThreadTypeOK, HistoryTypeOK
<1>10. ASSUME NEW t \in Topics, ReSend(th, t) PROVE TypeInv'
  <2>1. Cursor(store[t]) = {}
    BY DEF Cursor, IteratorValid
  <2>2. UNCHANGED <<pc, job, todo>>
    BY <1>10, <2>1 DEF ReSend
  <2>. QED
    BY <1>10, <2>2 DEF ReSend, TypeInv, TypeOK, DBTypeOK, KafkaTypeOK, ThreadTypeOK, HistoryTypeOK
<1>11. CASE RecoverReturn(th)
  BY <1>11, IdleJobType DEF RecoverReturn, Goto, TypeInv, Numbering, PCs, TypeOK, DBTypeOK, KafkaTypeOK, ThreadTypeOK, HistoryTypeOK
<1>. QED
  BY <1>2, <1>3, <1>4, <1>5, <1>6, <1>7, <1>8, <1>9, <1>10, <1>11

\* The death of the process, with whatever database survives it, keeps them.
LEMMA DiesType ==
  ASSUME TypeInv, ProcessDies, DBTypeOK'
  PROVE  TypeInv'
BY IdleJobType DEF ProcessDies, TypeInv, Numbering, TypeOK, KafkaTypeOK, ThreadTypeOK,
     HistoryTypeOK, PCs, history

\* Kafka's steps, the ends and starts of the process and stuttering keep
\* the types.
LEMMA EnvironmentType ==
  ASSUME TypeInv,
         \/ Kafka \/ Crash \/ Restart \/ UNCHANGED vars
         \/ \E th \in Threads : TrimAbort(th)
  PROVE  TypeInv'
<1>. USE DEF dbvars, kafka, loopvars, history
<1>1. ASSUME NEW e \in outq, BrokerPersists(e) PROVE TypeInv'
  <2>1. e.msg \in Msgs
    BY DEF TypeInv, TypeOK, KafkaTypeOK, Entries
  <2>. QED
    BY <1>1, <2>1 DEF BrokerPersists, TypeInv, TypeOK, DBTypeOK, KafkaTypeOK, ThreadTypeOK, HistoryTypeOK
<1>2. ASSUME NEW e \in outq, NEW ok \in BOOLEAN, Report(e, ok) PROVE TypeInv'
  <2>1. [topic |-> e.topic, key |-> e.key, msg |-> e.msg, ok |-> ok] \in Reports
    BY DEF TypeInv, TypeOK, KafkaTypeOK, Entries, Reports
  <2>2. rep' \in Seq(Reports) /\ outq' \subseteq Entries
    BY <1>2, <2>1 DEF Report, TypeInv, TypeOK, KafkaTypeOK
  <2>. QED
    BY <1>2, <2>2 DEF Report, TypeInv, TypeOK, DBTypeOK, KafkaTypeOK, ThreadTypeOK, HistoryTypeOK
<1>3. CASE Crash
  <2>1. DBTypeOK'
    <3>1. PICK s \in [Topics -> UNION {surviving[t] : t \in Topics}] :
            /\ \A t \in Topics : s[t] \in surviving[t]
            /\ store' = s
            /\ surviving' = [t \in Topics |-> {s[t]}]
      BY <1>3 DEF Crash
    <3>2. dirs' = dirs
      BY <1>3, Zenon DEF Crash, ProcessDies
    <3>. QED
      BY <3>1, <3>2 DEF DBTypeOK, TypeInv, TypeOK
  <2>. QED
    BY <1>3, <2>1, DiesType DEF Crash
<1>4. ASSUME NEW th \in Threads, TrimAbort(th) PROVE TypeInv'
  <2>1. DBTypeOK'
    BY <1>4 DEF TrimAbort, ProcessDies, TypeInv, TypeOK, DBTypeOK
  <2>. QED
    BY <1>4, <2>1, DiesType DEF TrimAbort
<1>5. CASE UNCHANGED vars
  BY <1>5 DEF vars, TypeInv, TypeOK, DBTypeOK, KafkaTypeOK, ThreadTypeOK, HistoryTypeOK
<1>6. CASE Restart
  BY <1>6 DEF Restart, TypeInv, Numbering, PCs, TypeOK, DBTypeOK, KafkaTypeOK, ThreadTypeOK, HistoryTypeOK
<1>. QED
  BY <1>1, <1>2, <1>3, <1>4, <1>5, <1>6, Zenon DEF Kafka, ReportSuccess, ReportError

\* Every step keeps the types.
LEMMA NextType ==
  ASSUME TypeInv, [Next]_vars
  PROVE  TypeInv'
BY CallType, StepTypeDB, StepTypeSend, EnvironmentType DEF Next, Running, Step

\* The databases, queues and threads start with the right types.
LEMMA InitType == Init => TypeInv
<1>. SUFFICES ASSUME Init PROVE TypeInv
  OBVIOUS
<1>1. DBTypeOK
  BY DEF Init, DBTypeOK, IsStore, EmptyStore, Absent
<1>2. KafkaTypeOK /\ HistoryTypeOK
  BY ThreadsAssumption DEF Init, KafkaTypeOK, HistoryTypeOK
<1>3. ThreadTypeOK
  BY IdleJobType DEF Init, ThreadTypeOK, PCs
<1>4. \A th \in Threads : pc[th] \notin Numbering
  BY DEF Init, Numbering
<1>. QED
  BY <1>1, <1>2, <1>3, <1>4 DEF TypeInv, TypeOK

\* Every reachable state is well-typed, whatever the threads, topics,
\* failing database calls and crashes.
THEOREM TypeCorrect == Spec => []TypeOK
<1>1. Init => TypeInv
  BY InitType
<1>2. TypeInv /\ [Next]_vars => TypeInv'
  BY NextType
<1>3. TypeInv => TypeOK
  BY DEF TypeInv
<1>. QED
  BY <1>1, <1>2, <1>3, PTL DEF Spec

=============================================================================
