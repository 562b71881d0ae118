-------------------------- MODULE CachedStoreProofs --------------------------
(***************************************************************************)
(* The proof that IInv of CachedInvariants is invariant, first part: what  *)
(* the writes of a database do to it, what each kind of step has to show   *)
(* about the thread that takes it, and the first steps of a call.          *)
(***************************************************************************)
EXTENDS CachedProducerProofs

-----------------------------------------------------------------------------
(* The writes of the database.                                             *)

\* storage_setkey of a message under the next number.
LEMMA PutMessageOps ==
  ASSUME NEW s, NEW n, NEW m, NEW u, u = PutMessage(s, n, m)
  PROVE  /\ Count(u) = Count(s) /\ Holds(u, n, m)
         /\ DOMAIN u.msg = DOMAIN s.msg \cup {n}
         /\ \A k \in DOMAIN s.msg : k # n => u.msg[k] = s.msg[k]
BY DEF PutMessage, Count, Holds

\* storage_setkey of the counter.
LEMMA PutCounterOps ==
  ASSUME NEW s, NEW n \in Nat, NEW u, u = PutCounter(s, n + 1)
  PROVE  Count(u) = n + 1 /\ u.msg = s.msg
<1>1. n + 1 # Absent
  BY DEF Absent
<1>2. u.msg = s.msg /\ u.next = n + 1
  BY DEF PutCounter
<1>. QED
  BY <1>1, <1>2 DEF Count

\* storage_delkey of a message.
LEMMA DelMessageOps ==
  ASSUME NEW s, NEW k, NEW u, u = DelMessage(s, k)
  PROVE  /\ Count(u) = Count(s) /\ DOMAIN u.msg = DOMAIN s.msg \ {k}
         /\ \A i \in DOMAIN u.msg : u.msg[i] = s.msg[i]
<1>1. u.next = s.next /\ u.msg = [i \in DOMAIN s.msg \ {k} |-> s.msg[i]]
  BY DEF DelMessage, Restrict
<1>. QED
  BY <1>1 DEF Count

\* The deletion of the trim loop: of a message, unless its key was cut.
LEMMA DelFirstOps ==
  ASSUME NEW s, NEW t, NEW f \in Nat, NEW u, u = DelFirst(s, t, f)
  PROVE  /\ KeyCut[t] = 0 => u = DelMessage(s, f)
         /\ KeyCut[t] # 0 => u = s
         /\ Count(u) = Count(s) /\ DOMAIN u.msg \subseteq DOMAIN s.msg
         /\ \A i \in DOMAIN u.msg : u.msg[i] = s.msg[i]
         /\ \A i \in DOMAIN s.msg : i \in DOMAIN u.msg \/ (KeyCut[t] = 0 /\ i = f)
<1>1. (KeyCut[t] = 0 => u = DelMessage(s, f)) /\ (KeyCut[t] # 0 => u = s)
  BY DEF DelFirst, DescKey
<1>2. CASE KeyCut[t] = 0
  BY <1>1, <1>2, DelMessageOps
<1>3. CASE KeyCut[t] # 0
  BY <1>1, <1>3
<1>. QED
  BY <1>1, <1>2, <1>3

-----------------------------------------------------------------------------
(* What a step leaves alone.                                               *)

\* Two threads inside send_msg_with_cache work on different topics.
LEMMA OwnTopic ==
  ASSUME Disciplined, IInv, NEW a \in Threads, NEW b \in Threads, a # b,
         job[a].kind = "cached", job[b].kind = "cached"
  PROVE  job[a].topic # job[b].topic
<1>1. job[a].topic \in Topics /\ job[b].topic \in Topics
  BY DEF IInv, TypeInv, TypeOK, ThreadTypeOK, Jobs
<1>2. CallOK(a) /\ CallOK(b)
  BY DEF IInv, CallsOK
<1>3. a \in CacheUsers[job[a].topic] /\ b \in CacheUsers[job[b].topic]
  BY <1>2 DEF CallOK, CallInv, JobInv
<1>4. ASSUME NEW t \in Topics, a \in CacheUsers[t], b \in CacheUsers[t] PROVE FALSE
  BY <1>4 DEF Disciplined
<1>. QED
  BY <1>1, <1>3, <1>4

\* Reports in flight are about topics of the client.
LEMMA UnservedType ==
  ASSUME TypeInv, NEW d \in Unserved
  PROVE  d.topic \in Topics /\ d.key \in Nat \cup {NoKey} /\ d.msg \in Msgs
<1>1. CASE d \in outq
  BY <1>1 DEF TypeInv, TypeOK, KafkaTypeOK, Entries
<1>2. CASE d \in Range(rep)
  <2>1. d \in Reports
    BY <1>2, QueueOps DEF TypeInv, TypeOK, KafkaTypeOK
  <2>. QED
    BY <2>1 DEF Reports
<1>3. ASSUME NEW x \in Threads, d \in Range(batch[x])
      PROVE  d.topic \in Topics /\ d.key \in Nat \cup {NoKey} /\ d.msg \in Msgs
  <2>1. d \in Reports
    BY <1>3, QueueOps DEF TypeInv, TypeOK, ThreadTypeOK
  <2>. QED
    BY <2>1 DEF Reports
<1>. QED
  BY <1>1, <1>2, <1>3 DEF Unserved

\* A step of th that writes no database and puts no report in flight has
\* only its own call to account for.
LEMMA FrameStep ==
  ASSUME IInv, TypeInv', NEW th \in Threads,
         UNCHANGED <<store, surviving>>, Unserved' \subseteq Unserved,
         \A x \in Threads \ {th} : pc'[x] = pc[x] /\ job'[x] = job[x] /\ first'[x] = first[x],
         CallOK(th)',
         \A d \in Unserved : Older(d, pc'[th], job'[th])
  PROVE  IInv'
<1>1. StoresOK'
  BY DEF IInv, StoresOK
<1>2. CallsOK'
  <2>1. ASSUME NEW x \in Threads \ {th} PROVE CallOK(x)'
    <3>1. CallOK(x)
      BY DEF IInv, CallsOK
    <3>. QED
      BY <3>1 DEF CallOK
  <2>. QED
    BY <2>1 DEF CallsOK
<1>3. ASSUME NEW d \in Unserved PROVE ReportOK(d)'
  <2>1. ReportOK(d)
    BY DEF IInv, UnservedOK
  <2>2. \A x \in Threads : Older(d, pc'[x], job'[x])
    BY <2>1 DEF ReportOK
  <2>. QED
    BY <2>1, <2>2 DEF ReportOK
<1>4. UnservedOK'
  BY <1>3 DEF UnservedOK
<1>. QED
  BY <1>1, <1>2, <1>4 DEF IInv

\* A step that leaves th outside the writing steps.
LEMMA QuietStep ==
  ASSUME IInv, TypeInv', NEW th \in Threads,
         UNCHANGED <<store, surviving>>, Unserved' \subseteq Unserved,
         \A x \in Threads \ {th} : pc'[x] = pc[x] /\ job'[x] = job[x] /\ first'[x] = first[x],
         pc'[th] \notin Writing,
         JobInv(th, pc'[th], job'[th])
  PROVE  IInv'
<1>1. \A d \in Unserved : Older(d, pc'[th], job'[th])
  BY DEF Older
<1>2. ASSUME NEW l, l \notin Writing, NEW j, NEW f, NEW s PROVE NumberInv(l, j, f, s)
  BY <1>2 DEF NumberInv, Writing
<1>3. CallOK(th)'
  BY <1>2 DEF CallOK, CallInv
<1>. QED
  BY <1>1, <1>3, FrameStep

\* A step from one writing step of the same call to another.
LEMMA OwnStep ==
  ASSUME IInv, TypeInv', NEW th \in Threads,
         UNCHANGED <<store, surviving, job>>, Unserved' = Unserved,
         \A x \in Threads \ {th} : pc'[x] = pc[x] /\ first'[x] = first[x],
         pc[th] \in Writing, CallOK(th)'
  PROVE  IInv'
<1>1. ASSUME NEW d \in Unserved PROVE Older(d, pc'[th], job'[th])
  <2>1. Older(d, pc[th], job[th])
    BY DEF IInv, UnservedOK, ReportOK
  <2>. QED
    BY <2>1 DEF Older
<1>. QED
  BY <1>1, FrameStep

\* A thread inside send_msg_with_cache writes the database s of its topic:
\* what is left to show is about u, the database after the write.
LEMMA WriteStep ==
  ASSUME Disciplined, IInv, TypeInv', NEW th \in Threads, NEW j, NEW t \in Topics, NEW s, NEW u,
         j = job[th], j.kind = "cached", j.topic = t, s = store[t], pc[th] \in Writing,
         Write(t, u), job' = job, Unserved' = Unserved,
         \A x \in Threads \ {th} : pc'[x] = pc[x] /\ first'[x] = first[x],
         CallInv(th, pc'[th], j, first'[th], u), Counted(u),
         j.num \in Nat, Count(u) \in Nat, j.num <= Count(u),
         \A k \in DOMAIN u.msg : k < j.num => k \in DOMAIN s.msg /\ u.msg[k] = s.msg[k]
  PROVE  IInv'
<1>1. /\ store'[t] = u /\ surviving'[t] \subseteq surviving[t] \cup {u}
      /\ \A x \in Topics \ {t} : store'[x] = store[x] /\ surviving'[x] = surviving[x]
  BY DEF Write, IInv, TypeInv, TypeOK, DBTypeOK
<1>2. CallOK(th)
  BY DEF IInv, CallsOK
<1>3. th \in CacheUsers[t]
  BY <1>2 DEF CallOK, CallInv, JobInv
<1>4. StoresOK'
  BY <1>1, <1>3 DEF IInv, StoresOK
<1>5. \A x \in Threads \ {th} : job[x].kind = "cached" => job[x].topic # t
  BY OwnTopic
<1>6. CallsOK'
  <2>1. CallOK(th)'
    BY <1>1 DEF CallOK
  <2>2. ASSUME NEW x \in Threads \ {th} PROVE CallOK(x)'
    <3>1. CallOK(x) /\ job[x].topic \in Topics
      BY DEF IInv, CallsOK, TypeInv, TypeOK, ThreadTypeOK, Jobs
    <3>2. job[x].kind = "cached" => store'[job[x].topic] = store[job[x].topic]
      BY <1>1, <1>5, <3>1
    <3>. QED
      BY <3>1, <3>2 DEF CallOK, CallInv
  <2>. QED
    BY <2>1, <2>2 DEF CallsOK
<1>7. ASSUME NEW d \in Unserved PROVE ReportOK(d)'
  <2>1. ReportOK(d) /\ d.topic \in Topics /\ d.key \in Nat \cup {NoKey}
    BY UnservedType DEF IInv, UnservedOK
  <2>2. ReportInv(d, store[d.topic]) /\ \A x \in Threads : Older(d, pc[x], job[x])
    BY <2>1 DEF ReportOK
  <2>3. ReportInv(d, store'[d.topic])
    <3>1. CASE d.topic # t
      BY <1>1, <2>1, <2>2, <3>1
    <3>2. CASE d.topic = t
      <4>1. d.key # NoKey /\ d.key \in Nat
        BY <1>3, <2>1, <2>2, <3>2, Zenon DEF ReportInv
      <4>2. d.key < j.num
        BY <2>2, <3>2, <4>1 DEF Older
      <4>3. d.key < Count(u)
        BY <4>1, <4>2
      <4>. QED
        BY <1>1, <2>2, <3>2, <4>1, <4>2, <4>3, Zenon DEF ReportInv
    <3>. QED
      BY <3>1, <3>2
  <2>4. ASSUME NEW x \in Threads PROVE Older(d, pc'[x], job'[x])
    <3>1. CASE x = th
      BY <2>2, <3>1 DEF Older
    <3>2. CASE x # th
      BY <2>2, <3>2
    <3>. QED
      BY <3>1, <3>2
  <2>. QED
    BY <2>3, <2>4 DEF ReportOK
<1>8. UnservedOK'
  BY <1>7 DEF UnservedOK
<1>. QED
  BY <1>4, <1>6, <1>8 DEF IInv

-----------------------------------------------------------------------------
(* Starting a call and taking a number.                                    *)

\* Starting a call.
LEMMA CallInductive ==
  ASSUME IInv, TypeInv', NEW th \in Threads, Call(th)
  PROVE  IInv'
<1>. USE DEF dbvars, kafka, loopvars, history
<1>0. job \in [Threads -> Jobs] /\ pc \in [Threads -> PCs]
  BY DEF IInv, TypeInv, TypeOK, ThreadTypeOK
<1>1. ASSUME NEW t \in Topics, NEW m \in Msgs, CallCached(th, t, m) PROVE IInv'
  <2>1. /\ UNCHANGED <<store, surviving, first, outq, rep, batch>>
        /\ pc'[th] = "get" /\ job'[th].kind = "cached" /\ job'[th].topic = t
        /\ th \in CacheUsers[t]
        /\ \A x \in Threads \ {th} : pc'[x] = pc[x] /\ job'[x] = job[x]
    BY <1>0, <1>1 DEF CallCached, Goto
  <2>2. JobInv(th, pc'[th], job'[th]) /\ pc'[th] \notin Writing
    BY <2>1 DEF JobInv, Writing
  <2>3. Unserved' = Unserved
    BY <2>1 DEF Unserved
  <2>. QED
    BY <2>1, <2>2, <2>3, QuietStep
<1>2. ASSUME NEW t \in Topics, NEW m \in Msgs, CallPlain(th, t, m) PROVE IInv'
  <2>1. /\ UNCHANGED <<store, surviving, first, outq, rep, batch>>
        /\ pc'[th] = "send" /\ job'[th].kind = "plain" /\ job'[th].topic = t
        /\ job'[th].num = NoKey /\ th \in PlainUsers[t]
        /\ \A x \in Threads \ {th} : pc'[x] = pc[x] /\ job'[x] = job[x]
    BY <1>0, <1>2 DEF CallPlain, Goto
  <2>2. JobInv(th, pc'[th], job'[th])
    BY <2>1 DEF JobInv, Numbering
  <2>3. CallOK(th)'
    BY <2>1, <2>2 DEF CallOK, CallInv
  <2>4. Unserved' = Unserved
    BY <2>1 DEF Unserved
  <2>5. \A d \in Unserved : Older(d, pc'[th], job'[th])
    BY <2>1 DEF Older
  <2>. QED
    BY <2>1, <2>3, <2>4, <2>5, FrameStep
<1>3. ASSUME NEW t \in Topics, AddProduceTopic(th, t) PROVE IInv'
  <2>1. UNCHANGED <<store, surviving, first, outq, rep, batch, pc, job>> /\ pc[th] = "idle"
    BY <1>3 DEF AddProduceTopic
  <2>2. CallOK(th)
    BY DEF IInv, CallsOK
  <2>3. JobInv(th, pc'[th], job'[th]) /\ pc'[th] \notin Writing
    BY <2>1, <2>2 DEF CallOK, CallInv, Writing
  <2>4. Unserved' = Unserved
    BY <2>1 DEF Unserved
  <2>. QED
    BY <2>1, <2>3, <2>4, QuietStep
<1>4. CASE CallFlush(th)
  <2>1. /\ UNCHANGED <<store, surviving, first, outq, rep, batch, job>> /\ pc'[th] = "flush"
        /\ \A x \in Threads \ {th} : pc'[x] = pc[x]
    BY <1>0, <1>4 DEF CallFlush, Goto
  <2>2. CallOK(th)
    BY DEF IInv, CallsOK
  <2>3. JobInv(th, pc'[th], job'[th]) /\ pc'[th] \notin Writing
    BY <2>1, <2>2 DEF CallOK, CallInv, JobInv, Numbering, Writing
  <2>4. Unserved' = Unserved
    BY <2>1 DEF Unserved
  <2>. QED
    BY <2>1, <2>3, <2>4, QuietStep
<1>5. CASE CallRecover(th)
  <2>1. /\ UNCHANGED <<store, surviving, first, outq, rep, batch>>
        /\ pc'[th] = "recover" /\ job'[th].kind = "resend"
        /\ \A x \in Threads \ {th} : pc'[x] = pc[x] /\ job'[x] = job[x]
    BY <1>0, <1>5 DEF CallRecover, Goto
  <2>2. JobInv(th, pc'[th], job'[th]) /\ pc'[th] \notin Writing
    BY <2>1 DEF JobInv, Numbering, Writing
  <2>3. Unserved' = Unserved
    BY <2>1 DEF Unserved
  <2>. QED
    BY <2>1, <2>2, <2>3, QuietStep
<1>. QED
  BY <1>1, <1>2, <1>3, <1>4, <1>5 DEF Call

\* What a thread inside send_msg_with_cache knows of its own database.
LEMMA OwnStore ==
  ASSUME IInv, NEW th \in Threads, pc[th] \in Numbering, NEW j, NEW t, NEW s,
         j = job[th], t = j.topic, s = store[t]
  PROVE  /\ j.kind = "cached" /\ t \in Topics /\ j.num \in Nat /\ j.msg \in Msgs
         /\ JobInv(th, pc[th], j) /\ NumberInv(pc[th], j, first[th], s)
         /\ IsStore(s) /\ Count(s) \in Nat /\ Counted(s)
<1>1. t \in Topics /\ j.num \in Nat /\ j.msg \in Msgs
  BY DEF IInv, TypeInv, TypeOK, ThreadTypeOK, Jobs
<1>2. JobInv(th, pc[th], j) /\ (j.kind = "cached" => NumberInv(pc[th], j, first[th], s))
  BY DEF IInv, CallsOK, CallOK, CallInv
<1>3. j.kind = "cached"
  BY <1>2 DEF JobInv
<1>4. s \in surviving[t] /\ IsStore(s)
  BY <1>1 DEF IInv, TypeInv, TypeOK, DBTypeOK
<1>5. Counted(s)
  BY <1>1, <1>4 DEF IInv, StoresOK
<1>6. Count(s) \in Nat
  BY <1>4 DEF Count, IsStore, Absent
<1>. QED
  BY <1>1, <1>2, <1>3, <1>4, <1>5, <1>6

\* The number taken is the counter's, above every report in flight.
LEMMA GetInductive ==
  ASSUME IInv, TypeInv', NEW th \in Threads, GetCounter(th)
  PROVE  IInv'
<1>a. PICK j, t, s : j = job[th] /\ t = j.topic /\ s = store[t]
  BY Zenon
<1>0. job \in [Threads -> Jobs] /\ pc \in [Threads -> PCs]
  BY DEF IInv, TypeInv, TypeOK, ThreadTypeOK
<1>1. /\ UNCHANGED <<store, surviving, first, outq, rep, batch>>
      /\ pc[th] = "get" /\ pc'[th] = "putmsg" /\ job'[th].kind = j.kind
      /\ job'[th].topic = t /\ job'[th].num = Count(s)
      /\ \A x \in Threads \ {th} : pc'[x] = pc[x] /\ job'[x] = job[x]
  BY <1>a, <1>0 DEF GetCounter, Goto, Jobs, dbvars, kafka
<1>2. j.kind = "cached" /\ JobInv(th, "get", j) /\ j.topic = t
  BY <1>a, <1>1, OwnStore, Zenon DEF Numbering
<1>3. JobInv(th, "putmsg", job'[th])
  BY <1>1, <1>2 DEF JobInv
<1>4. NumberInv("putmsg", job'[th], first'[th], s)
  BY <1>1 DEF NumberInv
<1>5. CallOK(th)'
  BY <1>a, <1>1, <1>3, <1>4 DEF CallOK, CallInv
<1>6. ASSUME NEW d \in Unserved PROVE Older(d, "putmsg", job'[th])
  <2>1. d.topic = t => ReportInv(d, s)
    BY <1>a DEF IInv, UnservedOK, ReportOK
  <2>. QED
    BY <1>1, <2>1, Zenon DEF ReportInv, Older
<1>7. Unserved' = Unserved
  BY <1>1 DEF Unserved
<1>. QED
  BY <1>1, <1>5, <1>6, <1>7, FrameStep

=============================================================================
