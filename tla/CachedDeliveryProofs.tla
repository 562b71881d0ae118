------------------------ MODULE CachedDeliveryProofs ------------------------
(***************************************************************************)
(* The proof that IInv is invariant, last part: handing a message to       *)
(* librdkafka, serving delivery reports, recover(), Kafka and crashes.     *)
(***************************************************************************)
EXTENDS CachedInductiveProofs

\* rd_kafka_produce: the report to come is about the number just written,
\* or, for a topic sent to without the cache, carries no key.
LEMMA ProduceInductive ==
  ASSUME Disciplined, IInv, TypeInv', NEW th \in Threads, Produce(th)
  PROVE  IInv'
<1>a. PICK j, t, e : j = job[th] /\ t = j.topic /\ e = [topic |-> t, key |-> j.num, msg |-> j.msg]
  BY Zenon
<1>b. j = job[th] /\ t = j.topic
  BY <1>a
<1>c. e.topic = t /\ e.key = j.num /\ e.msg = j.msg
  BY <1>a
<1>0. pc \in [Threads -> PCs] /\ j \in Jobs
  BY <1>b DEF IInv, TypeInv, TypeOK, ThreadTypeOK
<1>1. /\ UNCHANGED <<store, surviving, job, first, rep, batch>> /\ outq' = outq \cup {e}
      /\ pc[th] = "send" /\ pc'[th] = "poll"
      /\ \A x \in Threads \ {th} : pc'[x] = pc[x]
  BY <1>0, <1>a DEF Produce, CanProduce, Goto, dbvars
<1>2. t \in Topics /\ j.num \in Nat \cup {NoKey}
  BY <1>b, <1>0 DEF Jobs
<1>3. Unserved' = Unserved \cup {e}
  BY <1>1 DEF Unserved
<1>4. JobInv(th, "send", j) /\ (j.kind = "cached" => NumberInv("send", j, first[th], store[t]))
  BY <1>b, <1>1, Zenon DEF IInv, CallsOK, CallOK, CallInv
<1>5. CallInv(th, "poll", j, first[th], store[t])
  BY <1>4, Zenon DEF CallInv, JobInv, NumberInv, Numbering
<1>6. CallsOK'
  <2>1. ASSUME NEW x \in Threads PROVE CallOK(x)'
    <3>1. CallOK(x)
      BY DEF IInv, CallsOK
    <3>. QED
      BY <1>b, <1>1, <1>5, <3>1, Zenon DEF CallOK
  <2>. QED
    BY <2>1 DEF CallsOK
<1>7. ReportInv(e, store[t])
  <2>1. CASE j.kind = "plain"
    <3>1. j.num = NoKey /\ th \in PlainUsers[j.topic]
      BY <1>4, <2>1 DEF JobInv
    <3>2. CacheUsers[t] = {}
      BY <1>b, <1>2, <3>1 DEF Disciplined
    <3>3. t \in Topics => IsStore(store[t])
      BY DEF IInv, TypeInv, TypeOK, DBTypeOK
    <3>4. NoKey \notin DOMAIN store[t].msg
      BY <1>2, <3>3 DEF IsStore, NoKey
    <3>. QED
      BY <1>c, <3>1, <3>2, <3>4 DEF ReportInv
  <2>2. CASE j.kind = "cached"
    <3>1. j.num + 1 = Count(store[t]) /\ Holds(store[t], j.num, j.msg)
      BY <1>4, <2>2 DEF NumberInv
    <3>2. t \in Topics => IsStore(store[t])
      BY DEF IInv, TypeInv, TypeOK, DBTypeOK
    <3>3. j.num \in Nat
      BY <1>2, <3>1, <3>2 DEF Holds, IsStore
    <3>4. j.num < Count(store[t]) /\ j.num # NoKey
      BY <3>1, <3>3 DEF NoKey
    <3>. QED
      BY <1>c, <3>1, <3>4 DEF ReportInv, Holds
  <2>. QED
    BY <1>4, <2>1, <2>2 DEF JobInv
<1>8. ASSUME NEW x \in Threads PROVE Older(e, pc'[x], job'[x])
  <2>1. CASE x = th
    BY <1>1, <2>1 DEF Older, Writing
  <2>2. CASE x # th
    <3>1. j.kind = "cached" /\ job[x].kind = "cached" => job[x].topic # t
      BY <1>b, <2>2, OwnTopic
    <3>2. j.kind # "cached" => j.num = NoKey
      BY <1>4 DEF JobInv
    <3>. QED
      BY <1>c, <1>1, <3>1, <3>2 DEF Older
  <2>. QED
    BY <2>1, <2>2
<1>9. ReportOK(e)'
  BY <1>c, <1>1, <1>7, <1>8 DEF ReportOK
<1>10. ASSUME NEW d \in Unserved PROVE ReportOK(d)'
  <2>1. ReportOK(d)
    BY DEF IInv, UnservedOK
  <2>2. ASSUME NEW x \in Threads PROVE Older(d, pc'[x], job'[x])
    <3>1. Older(d, pc[x], job[x]) /\ (pc'[x] = pc[x] \/ pc'[x] = "poll")
      BY <1>1, <2>1 DEF ReportOK
    <3>. QED
      BY <1>1, <3>1 DEF Older, Writing
  <2>. QED
    BY <1>1, <2>1, <2>2 DEF ReportOK
<1>11. UnservedOK'
  BY <1>3, <1>9, <1>10 DEF UnservedOK
<1>12. StoresOK'
  BY <1>1 DEF IInv, StoresOK
<1>. QED
  BY <1>6, <1>11, <1>12 DEF IInv

-----------------------------------------------------------------------------
(* The steps that leave the databases alone and put nothing in flight.     *)

\* A step that ends a call, or moves on inside it behind the writes.
LEMMA PassStep ==
  ASSUME IInv, TypeInv', NEW th \in Threads,
         UNCHANGED <<store, surviving, first, job>>, Unserved' \subseteq Unserved,
         \A x \in Threads \ {th} : pc'[x] = pc[x],
         pc'[th] \in {"poll", "serve", "flush", "flushserve", "recover"},
         pc'[th] \in {"poll", "serve"} => job[th].kind \in {"cached", "plain"}
  PROVE  IInv'
<1>1. CallOK(th)
  BY DEF IInv, CallsOK
<1>2. JobInv(th, pc[th], job[th])
  BY <1>1 DEF CallOK, CallInv
<1>3. JobInv(th, pc'[th], job[th]) /\ pc'[th] \notin Writing
  BY <1>2 DEF JobInv, Numbering, Writing
<1>. QED
  BY <1>3, QuietStep

\* The return from a call (FlushReturn, RecoverReturn) keeps the invariant.
LEMMA ReturnStep ==
  ASSUME IInv, TypeInv', NEW th \in Threads,
         UNCHANGED <<store, surviving, first, outq, rep, batch>>,
         \A x \in Threads \ {th} : pc'[x] = pc[x] /\ job'[x] = job[x],
         pc'[th] = "idle", job'[th] = IdleJob
  PROVE  IInv'
<1>1. job'[th].kind = "none"
  BY DEF IdleJob
<1>2. JobInv(th, pc'[th], job'[th]) /\ pc'[th] \notin Writing
  BY <1>1 DEF JobInv, Numbering, Writing
<1>3. Unserved' = Unserved
  BY DEF Unserved
<1>. QED
  BY <1>2, <1>3, QuietStep

\* Only the cached and the plain sends reach librdkafka.
LEMMA SendKind ==
  ASSUME IInv, NEW th \in Threads, pc[th] \in {"send", "poll", "serve"}
  PROVE  job[th].kind \in {"cached", "plain"}
<1>1. CallOK(th)
  BY DEF IInv, CallsOK
<1>. QED
  BY <1>1 DEF CallOK, CallInv, JobInv

\* Producer::send_msg when nothing is handed over, and its return.
LEMMA SendInductive ==
  ASSUME IInv, TypeInv', NEW th \in Threads,
         SendNothing(th) \/ ProduceFails(th) \/ PollReturn(th)
  PROVE  IInv'
<1>0. pc \in [Threads -> PCs]
  BY DEF IInv, TypeInv, TypeOK, ThreadTypeOK
<1>1. pc[th] \in {"send", "serve"}
  BY DEF SendNothing, ProduceFails, CanProduce, PollReturn
<1>2. job[th].kind \in {"cached", "plain"}
  BY <1>1, SendKind
<1>3. ASSUME SendReturn(th)
      PROVE  pc'[th] = "flush" /\ UNCHANGED job /\ \A x \in Threads \ {th} : pc'[x] = pc[x]
  BY <1>0, <1>2, <1>3 DEF SendReturn, Goto
<1>4. UNCHANGED <<store, surviving, first, outq, rep, batch>>
  BY DEF SendNothing, ProduceFails, PollReturn, dbvars, kafka
<1>5. /\ UNCHANGED job /\ \A x \in Threads \ {th} : pc'[x] = pc[x]
      /\ pc'[th] \in {"poll", "flush"}
  <2>1. CASE ProduceFails(th)
    BY <1>0, <2>1 DEF ProduceFails, Goto
  <2>2. CASE SendNothing(th) \/ PollReturn(th)
    BY <1>3, <2>2 DEF SendNothing, PollReturn
  <2>. QED
    BY <2>1, <2>2
<1>6. Unserved' = Unserved
  BY <1>4 DEF Unserved
<1>. QED
  BY <1>2, <1>4, <1>5, <1>6, PassStep

\* rd_kafka_poll takes the reports, and a failed one is only logged.
LEMMA PollInductive ==
  ASSUME IInv, TypeInv', NEW th \in Threads, Poll(th) \/ AckIgnored(th)
  PROVE  IInv'
<1>0. pc \in [Threads -> PCs] /\ batch \in [Threads -> Seq(Reports)]
  BY DEF IInv, TypeInv, TypeOK, ThreadTypeOK
<1>1. CASE Poll(th)
  <2>1. /\ UNCHANGED <<store, surviving, first, job, outq>>
        /\ rep' = << >> /\ batch'[th] = rep
        /\ (pc'[th] = "serve" /\ pc[th] = "poll") \/ pc'[th] = "flushserve"
        /\ \A x \in Threads \ {th} : batch'[x] = batch[x] /\ pc'[x] = pc[x]
    BY <1>0, <1>1 DEF Poll, Goto, dbvars
  <2>2. Range(rep') = {}
    BY <2>1, EmptyRange
  <2>3. Unserved' \subseteq Unserved
    BY <2>1, <2>2 DEF Unserved
  <2>4. pc'[th] = "serve" => job[th].kind \in {"cached", "plain"}
    BY <2>1, SendKind
  <2>. QED
    BY <2>1, <2>3, <2>4, PassStep
<1>2. CASE AckIgnored(th)
  <2>1. /\ UNCHANGED <<store, surviving, first, job, pc, outq, rep>>
        /\ batch'[th] = Tail(batch[th]) /\ batch[th] # << >>
        /\ pc[th] \in {"serve", "flushserve"}
        /\ \A x \in Threads \ {th} : batch'[x] = batch[x]
    BY <1>0, <1>2 DEF AckIgnored, Serving, kafka
  <2>2. Range(batch'[th]) \subseteq Range(batch[th])
    BY <1>0, <2>1, QueueOps
  <2>3. Unserved' \subseteq Unserved
    BY <2>1, <2>2 DEF Unserved
  <2>4. pc[th] = "serve" => job[th].kind \in {"cached", "plain"}
    BY SendKind
  <2>. QED
    BY <2>1, <2>3, <2>4, PassStep
<1>. QED
  BY <1>1, <1>2

\* The end of a call, and recover(), whose cursor lists nothing.
LEMMA ReturnInductive ==
  ASSUME IInv, TypeInv', NEW th \in Threads,
         FlushReturn(th) \/ RecoverReturn(th) \/ \E t \in Topics : ReSend(th, t)
  PROVE  IInv'
<1>0. job \in [Threads -> Jobs] /\ pc \in [Threads -> PCs]
  BY DEF IInv, TypeInv, TypeOK, ThreadTypeOK
<1>1. CASE FlushReturn(th) \/ RecoverReturn(th)
  <2>1. /\ UNCHANGED <<store, surviving, first, outq, rep, batch>>
        /\ \A x \in Threads \ {th} : pc'[x] = pc[x] /\ job'[x] = job[x]
        /\ pc'[th] = "idle" /\ job'[th] = IdleJob
    BY <1>0, <1>1 DEF FlushReturn, RecoverReturn, Goto, dbvars, kafka
  <2>. QED
    BY <2>1, ReturnStep
<1>2. ASSUME NEW t \in Topics, ReSend(th, t) PROVE IInv'
  <2>1. Cursor(store[t]) = {}
    BY DEF Cursor, IteratorValid
  <2>2. UNCHANGED <<store, surviving, first, outq, rep, batch, pc, job>> /\ pc[th] = "recover"
    BY <1>2, <2>1 DEF ReSend, dbvars, kafka
  <2>3. Unserved' = Unserved
    BY <2>2 DEF Unserved
  <2>. QED
    BY <2>2, <2>3, PassStep
<1>. QED
  BY <1>1, <1>2

-----------------------------------------------------------------------------
(* The delivery callback.                                                  *)

\* A deletion that spares the number a call is writing keeps the call's
\* relation to its database.
LEMMA NumberDel ==
  ASSUME NEW l, NEW j, NEW f, NEW s, NEW k, NEW u, NumberInv(l, j, f, s),
         Count(u) = Count(s), DOMAIN u.msg = DOMAIN s.msg \ {k},
         \A i \in DOMAIN u.msg : u.msg[i] = s.msg[i],
         l \in Writing => k # j.num
  PROVE  NumberInv(l, j, f, u)
<1>1. ASSUME l \in Writing, Holds(s, j.num, j.msg) PROVE Holds(u, j.num, j.msg)
  BY <1>1 DEF Holds
<1>2. l \in {"putnext", "trim", "del", "send"} => l \in Writing
  BY DEF Writing
<1>. QED
  BY <1>1, <1>2 DEF NumberInv

\* The callback deletes a number no call is writing.
LEMMA AckInductive ==
  ASSUME IInv, TypeInv', NEW th \in Threads, AckConfirmed(th)
  PROVE  IInv'
<1>a. PICK d, t, k, s, u : /\ d = Head(batch[th]) /\ t = d.topic /\ k = AckedKey(d)
                           /\ s = store[t] /\ u = DelMessage(s, k)
  BY Zenon
<1>b. d = Head(batch[th]) /\ t = d.topic
  BY <1>a
<1>c. k = AckedKey(d)
  BY <1>a
<1>d. s = store[t]
  BY <1>a
<1>0. batch \in [Threads -> Seq(Reports)] /\ batch[th] # << >>
  BY DEF IInv, TypeInv, TypeOK, ThreadTypeOK, AckConfirmed, Serving
<1>1. d \in Range(batch[th]) /\ Range(Tail(batch[th])) \subseteq Range(batch[th])
  BY <1>b, <1>0, QueueOps
<1>2. d \in Unserved
  BY <1>1 DEF Unserved
<1>3. t \in Topics /\ ReportInv(d, s) /\ d.key \in Nat \cup {NoKey}
      /\ \A x \in Threads : Older(d, pc[x], job[x])
  BY <1>b, <1>d, <1>2, UnservedType DEF IInv, UnservedOK, ReportOK
<1>4. /\ Write(t, u) /\ UNCHANGED <<pc, job, first, outq, rep>>
      /\ batch'[th] = Tail(batch[th]) /\ \A x \in Threads \ {th} : batch'[x] = batch[x]
  <2>1. AckConfirmed(th) => Write(t, u)
    BY <1>a DEF AckConfirmed
  <2>. QED
    BY <1>0, <2>1, Zenon DEF AckConfirmed, kafka
<1>5. /\ store'[t] = u /\ surviving'[t] \subseteq surviving[t] \cup {u}
      /\ \A x \in Topics \ {t} : store'[x] = store[x] /\ surviving'[x] = surviving[x]
      /\ s \in surviving[t]
  BY <1>3, <1>4, <1>d DEF Write, IInv, TypeInv, TypeOK, DBTypeOK
<1>6. /\ Count(u) = Count(s) /\ DOMAIN u.msg = DOMAIN s.msg \ {k}
      /\ \A i \in DOMAIN u.msg : u.msg[i] = s.msg[i]
  <2>1. u = DelMessage(s, k)
    BY <1>a
  <2>. QED
    BY <2>1, DelMessageOps
<1>7. Unserved' \subseteq Unserved
  BY <1>1, <1>4 DEF Unserved
<1>8. ASSUME NEW x \in Threads, job[x].kind = "cached", job[x].topic = t, pc[x] \in Writing
      PROVE  k # job[x].num
  <2>1. CallOK(x) /\ Older(d, pc[x], job[x]) /\ job[x].num \in Nat \cup {NoKey}
    BY <1>3 DEF IInv, CallsOK, TypeInv, TypeOK, ThreadTypeOK, Jobs
  <2>2. CacheUsers[t] # {}
    BY <1>8, <2>1 DEF CallOK, CallInv, JobInv
  <2>3. d.key # NoKey
    BY <1>b, <1>3, <2>2 DEF ReportInv
  <2>4. k = d.key /\ d.key < job[x].num
    BY <1>b, <1>c, <1>8, <2>1, <2>3 DEF AckedKey, Older
  <2>. QED
    BY <1>3, <2>1, <2>4 DEF NoKey
<1>9. StoresOK'
  <2>1. Counted(s) /\ (CacheUsers[t] = {} => DOMAIN s.msg = {})
    BY <1>3, <1>5 DEF IInv, StoresOK
  <2>2. Counted(u) /\ (CacheUsers[t] = {} => DOMAIN u.msg = {})
    BY <1>6, <2>1 DEF Counted
  <2>. QED
    BY <1>5, <2>2 DEF IInv, StoresOK
<1>10. CallsOK'
  <2>1. ASSUME NEW x \in Threads PROVE CallOK(x)'
    <3>1. /\ JobInv(x, pc[x], job[x]) /\ job[x].topic \in Topics
          /\ job[x].kind = "cached" => NumberInv(pc[x], job[x], first[x], store[job[x].topic])
      BY DEF IInv, CallsOK, CallOK, CallInv, TypeInv, TypeOK, ThreadTypeOK, Jobs
    <3>2. CASE job[x].topic # t
      BY <1>4, <1>5, <3>1, <3>2, Zenon DEF CallOK, CallInv
    <3>3. CASE job[x].topic = t
      <4>1. job[x].kind = "cached" => NumberInv(pc[x], job[x], first[x], s)
        BY <1>d, <3>1, <3>3
      <4>2. ASSUME job[x].kind = "cached" PROVE NumberInv(pc[x], job[x], first[x], u)
        <5>1. pc[x] \in Writing => k # job[x].num
          BY <1>8, <3>3, <4>2
        <5>. QED
          BY <1>6, <4>1, <4>2, <5>1, NumberDel, Zenon
      <4>. QED
        BY <1>4, <1>5, <3>1, <3>3, <4>2 DEF CallOK, CallInv
    <3>. QED
      BY <3>2, <3>3
  <2>. QED
    BY <2>1 DEF CallsOK
<1>11. UnservedOK'
  <2>1. ASSUME NEW r \in Unserved PROVE ReportOK(r)'
    <3>1. ReportOK(r) /\ r.topic \in Topics
      BY UnservedType DEF IInv, UnservedOK
    <3>2. ReportInv(r, store[r.topic]) /\ \A x \in Threads : Older(r, pc[x], job[x])
      BY <3>1 DEF ReportOK
    <3>3. ReportInv(r, store'[r.topic])
      <4>1. CASE r.topic # t
        BY <1>5, <3>1, <3>2, <4>1
      <4>2. CASE r.topic = t
        <5>1. ReportInv(r, s)
          BY <1>d, <3>2, <4>2
        <5>2. ReportInv(r, u)
          BY <1>6, <5>1 DEF ReportInv
        <5>. QED
          BY <1>5, <4>2, <5>2
      <4>. QED
        BY <4>1, <4>2
    <3>. QED
      BY <1>4, <3>2, <3>3 DEF ReportOK
  <2>. QED
    BY <1>7, <2>1 DEF UnservedOK
<1>. QED
  BY <1>9, <1>10, <1>11 DEF IInv

-----------------------------------------------------------------------------
(* Kafka, crashes, and the theorem.                                        *)

\* After a crash or an abort nothing is in flight, and any version of the
\* database that survives is a good one.
LEMMA DiesInductive ==
  ASSUME IInv, TypeInv', ProcessDies,
         \A t \in Topics : surviving'[t] \subseteq surviving[t]
  PROVE  IInv'
<1>1. ASSUME NEW th \in Threads PROVE pc'[th] = "down" /\ job'[th].kind = "none"
  BY DEF ProcessDies, IdleJob
<1>2. Unserved' = {}
  <2>1. outq' = {} /\ rep' = << >> /\ \A th \in Threads : batch'[th] = << >>
    BY DEF ProcessDies
  <2>. QED
    BY <2>1, EmptyRange DEF Unserved
<1>3. ASSUME NEW th \in Threads PROVE CallOK(th)'
  <2>1. JobInv(th, pc'[th], job'[th])
    BY <1>1 DEF JobInv, Numbering
  <2>. QED
    BY <1>1, <2>1 DEF CallOK, CallInv
<1>4. StoresOK'
  BY DEF IInv, StoresOK
<1>5. CallsOK' /\ UnservedOK'
  BY <1>2, <1>3 DEF CallsOK, UnservedOK
<1>. QED
  BY <1>4, <1>5 DEF IInv

\* Kafka's steps only turn a message in flight into a report about it.
LEMMA KafkaStep ==
  ASSUME IInv, TypeInv', UNCHANGED <<store, surviving, pc, job, first>>,
         \A d \in Unserved' : \E e \in Unserved :
            d.topic = e.topic /\ d.key = e.key /\ d.msg = e.msg
  PROVE  IInv'
<1>1. StoresOK'
  BY DEF IInv, StoresOK
<1>2. CallsOK'
  BY DEF IInv, CallsOK, CallOK
<1>3. ASSUME NEW d \in Unserved' PROVE ReportOK(d)'
  <2>1. PICK e \in Unserved : d.topic = e.topic /\ d.key = e.key /\ d.msg = e.msg
    OBVIOUS
  <2>2. ReportInv(e, store[e.topic]) /\ \A x \in Threads : Older(e, pc[x], job[x])
    BY DEF IInv, UnservedOK, ReportOK
  <2>3. ReportInv(d, store[d.topic])
    BY <2>1, <2>2 DEF ReportInv
  <2>4. \A x \in Threads : Older(d, pc[x], job[x])
    BY <2>1, <2>2 DEF Older
  <2>. QED
    BY <2>3, <2>4 DEF ReportOK
<1>4. UnservedOK'
  BY <1>3 DEF UnservedOK
<1>. QED
  BY <1>1, <1>2, <1>4 DEF IInv

\* A thread that starts again is in no call.
LEMMA RestartInductive ==
  ASSUME IInv, TypeInv', Restart
  PROVE  IInv'
<1>1. UNCHANGED <<store, surviving, job, first, outq, rep, batch>>
  BY DEF Restart, dbvars, kafka
<1>2. \A th \in Threads : pc'[th] = "idle"
  BY DEF Restart
<1>3. Unserved' = Unserved
  BY <1>1 DEF Unserved
<1>4. ASSUME NEW th \in Threads PROVE CallOK(th)'
  <2>1. JobInv(th, pc[th], job[th])
    BY DEF IInv, CallsOK, CallOK, CallInv
  <2>2. JobInv(th, pc'[th], job'[th])
    BY <1>1, <1>2, <2>1 DEF JobInv, Numbering
  <2>3. NumberInv(pc'[th], job'[th], first'[th], store'[job'[th].topic])
    BY <1>2 DEF NumberInv
  <2>. QED
    BY <2>2, <2>3 DEF CallOK, CallInv
<1>5. ASSUME NEW d \in Unserved PROVE ReportOK(d)'
  <2>1. ReportInv(d, store[d.topic])
    BY DEF IInv, UnservedOK, ReportOK
  <2>2. \A x \in Threads : Older(d, pc'[x], job'[x])
    BY <1>2 DEF Older, Writing
  <2>. QED
    BY <1>1, <2>1, <2>2 DEF ReportOK
<1>6. StoresOK'
  BY <1>1 DEF IInv, StoresOK
<1>. QED
  BY <1>3, <1>4, <1>5, <1>6 DEF IInv, CallsOK, UnservedOK

\* The steps of Kafka, the ends and the starts of the process keep the
\* invariant.
LEMMA EnvironmentInductive ==
  ASSUME IInv, TypeInv',
         \/ Kafka \/ Crash \/ Restart \/ UNCHANGED vars
         \/ \E th \in Threads : TrimAbort(th)
  PROVE  IInv'
<1>1. ASSUME NEW e \in outq, BrokerPersists(e) PROVE IInv'
  <2>1. UNCHANGED <<store, surviving, pc, job, first, outq, rep, batch>>
    BY <1>1 DEF BrokerPersists, dbvars
  <2>2. Unserved' = Unserved
    BY <2>1 DEF Unserved
  <2>. QED
    BY <2>1, <2>2, KafkaStep
<1>2. ASSUME NEW e \in outq, NEW ok \in BOOLEAN, Report(e, ok) PROVE IInv'
  <2>a. PICK d : d = [topic |-> e.topic, key |-> e.key, msg |-> e.msg, ok |-> ok]
    BY Zenon
  <2>1. UNCHANGED <<store, surviving, pc, job, first, batch>> /\ outq' \subseteq outq
        /\ rep' = Append(rep, d)
    BY <1>2, <2>a DEF Report, dbvars
  <2>2. rep \in Seq(Reports) /\ e \in Entries
    BY Zenon DEF IInv, TypeInv, TypeOK, KafkaTypeOK
  <2>3. d \in Reports
    BY <2>a, <2>2 DEF Entries, Reports
  <2>4. Range(rep') = Range(rep) \cup {d}
    BY <2>1, <2>2, <2>3, QueueOps
  <2>5. d.topic = e.topic /\ d.key = e.key /\ d.msg = e.msg /\ e \in Unserved
    BY <2>a DEF Unserved
  <2>6. \A r \in Unserved' : r \in Unserved \/ r = d
    BY <2>1, <2>4 DEF Unserved
  <2>7. \A r \in Unserved' : \E q \in Unserved :
           r.topic = q.topic /\ r.key = q.key /\ r.msg = q.msg
    BY <2>5, <2>6
  <2>. QED
    BY <2>1, <2>7, KafkaStep, Zenon
<1>3. CASE Crash
  <2>1. ProcessDies /\ \A t \in Topics : surviving'[t] \subseteq surviving[t]
    BY <1>3 DEF Crash
  <2>. QED
    BY <2>1, DiesInductive
<1>4. ASSUME NEW th \in Threads, TrimAbort(th) PROVE IInv'
  <2>1. ProcessDies /\ surviving' = surviving
    BY <1>4 DEF TrimAbort
  <2>. QED
    BY <2>1, DiesInductive
<1>5. CASE UNCHANGED vars
  <2>1. UNCHANGED <<store, surviving, pc, job, first, outq, rep, batch>>
    BY <1>5 DEF vars, dbvars, kafka
  <2>2. Unserved' = Unserved
    BY <2>1 DEF Unserved
  <2>. QED
    BY <2>1, <2>2, KafkaStep
<1>6. CASE Restart
  BY <1>6, RestartInductive
<1>. QED
  BY <1>1, <1>2, <1>3, <1>4, <1>5, <1>6, Zenon DEF Kafka, ReportSuccess, ReportError

\* Every step keeps the invariant.
LEMMA NextInductive ==
  ASSUME Disciplined, IInv, [Next]_vars
  PROVE  IInv'
<1>1. TypeInv'
  BY NextType DEF IInv
<1>2. ASSUME NEW th \in Threads, Step(th) PROVE IInv'
  <2>1. ~GetCounterFails(th) /\ ~PutFails(th)
    BY DEF Disciplined, GetCounterFails, PutFails
  <2>2. CASE GetCounter(th) \/ PutMsg(th) \/ PutNext(th)
    BY <1>1, <2>2, GetInductive, PutMsgInductive, PutNextInductive
  <2>3. CASE TrimTest(th) \/ TrimDelete(th) \/ TrimDeleteFails(th)
    BY <1>1, <2>3, TrimTestInductive, TrimDeleteInductive, TrimFailsInductive
  <2>4. CASE TrimAbort(th)
    BY <1>1, <2>4, EnvironmentInductive
  <2>5. CASE Produce(th) \/ SendNothing(th) \/ ProduceFails(th) \/ PollReturn(th)
    BY <1>1, <2>5, ProduceInductive, SendInductive
  <2>6. CASE Poll(th) \/ AckIgnored(th) \/ AckConfirmed(th)
    BY <1>1, <2>6, PollInductive, AckInductive
  <2>7. CASE FlushReturn(th) \/ RecoverReturn(th) \/ \E t \in Topics : ReSend(th, t)
    BY <1>1, <2>7, ReturnInductive
  <2>. QED
    BY <1>2, <2>1, <2>2, <2>3, <2>4, <2>5, <2>6, <2>7 DEF Step
<1>3. ASSUME NEW th \in Threads, Call(th) PROVE IInv'
  BY <1>1, <1>3, CallInductive
<1>4. CASE Kafka \/ Crash \/ Restart \/ UNCHANGED vars
  BY <1>1, <1>4, EnvironmentInductive
<1>. QED
  BY <1>2, <1>3, <1>4 DEF Next, Running

\* For every disciplined application the databases, the numbers in hand and
\* the reports in flight stay consistent, through any number of crashes.
THEOREM Inductive ==
  ASSUME Disciplined
  PROVE  Spec => []IInv
<1>1. Init => IInv
  <2>. SUFFICES ASSUME Init PROVE IInv
    OBVIOUS
  <2>1. TypeInv
    BY InitType
  <2>2. ASSUME NEW th \in Threads PROVE pc[th] = "idle" /\ job[th].kind = "none"
    BY DEF Init, IdleJob
  <2>3. Unserved = {}
    <3>1. outq = {} /\ rep = << >> /\ \A th \in Threads : batch[th] = << >>
      BY DEF Init
    <3>. QED
      BY <3>1, EmptyRange DEF Unserved
  <2>4. StoresOK
    BY DEF Init, StoresOK, Counted, EmptyStore
  <2>5. ASSUME NEW th \in Threads PROVE CallOK(th)
    <3>1. JobInv(th, pc[th], job[th])
      BY <2>2 DEF JobInv, Numbering
    <3>. QED
      BY <2>2, <3>1 DEF CallOK, CallInv
  <2>. QED
    BY <2>1, <2>3, <2>4, <2>5 DEF IInv, CallsOK, UnservedOK
<1>2. IInv /\ [Next]_vars => IInv'
  BY NextInductive
<1>. QED
  BY <1>1, <1>2, PTL DEF Spec

=============================================================================
