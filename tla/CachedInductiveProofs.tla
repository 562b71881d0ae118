------------------------ MODULE CachedInductiveProofs ------------------------
(***************************************************************************)
(* The proof that IInv is invariant, second part: the steps of             *)
(* send_msg_with_cache that write the database.                            *)
(***************************************************************************)
EXTENDS CachedStoreProofs

\* The message is written under the counter's number.
LEMMA PutMsgInductive ==
  ASSUME Disciplined, IInv, TypeInv', NEW th \in Threads, PutMsg(th)
  PROVE  IInv'
<1>a. PICK j, t, s, u : /\ j = job[th] /\ t = j.topic /\ s = store[t]
                        /\ u = PutMessage(s, j.num, j.msg)
  BY Zenon
<1>0. pc \in [Threads -> PCs]
  BY DEF IInv, TypeInv, TypeOK, ThreadTypeOK
<1>b. j = job[th] /\ j.topic = t /\ s = store[t]
  BY <1>a
<1>1. /\ Write(t, u) /\ UNCHANGED <<job, first, outq, rep, batch>>
      /\ pc[th] = "putmsg" /\ pc'[th] = "putnext"
      /\ \A x \in Threads \ {th} : pc'[x] = pc[x]
  BY <1>0, <1>a, Zenon DEF PutMsg, Goto, kafka
<1>2. /\ j.kind = "cached" /\ t \in Topics /\ j.num \in Nat /\ JobInv(th, "putmsg", j)
      /\ NumberInv("putmsg", j, first[th], s) /\ Count(s) \in Nat /\ Counted(s)
  BY <1>a, <1>1, OwnStore, Zenon DEF Numbering
<1>3. j.num = Count(s)
  BY <1>2, Zenon DEF NumberInv
<1>4. /\ Count(u) = Count(s) /\ Holds(u, j.num, j.msg)
      /\ DOMAIN u.msg = DOMAIN s.msg \cup {j.num}
      /\ \A k \in DOMAIN s.msg : k # j.num => u.msg[k] = s.msg[k]
  <2>1. u = PutMessage(s, j.num, j.msg)
    BY <1>a
  <2>. QED
    BY <2>1, PutMessageOps
<1>5. CallInv(th, "putnext", j, first[th], u)
  BY <1>2, <1>3, <1>4 DEF CallInv, JobInv, NumberInv
<1>6. Counted(u) /\ \A k \in DOMAIN u.msg : k < j.num => k \in DOMAIN s.msg /\ u.msg[k] = s.msg[k]
  BY <1>2, <1>3, <1>4 DEF Counted
<1>7. Unserved' = Unserved
  BY <1>1 DEF Unserved
<1>8. pc[th] \in Writing /\ Count(u) \in Nat /\ j.num <= Count(u)
  BY <1>1, <1>2, <1>3, <1>4 DEF Writing
<1>. QED
  BY <1>b, <1>1, <1>2, <1>5, <1>6, <1>7, <1>8, WriteStep

\* The counter moves past the message just written.
LEMMA PutNextInductive ==
  ASSUME Disciplined, IInv, TypeInv', NEW th \in Threads, PutNext(th)
  PROVE  IInv'
<1>a. PICK j, t, s, u : /\ j = job[th] /\ t = j.topic /\ s = store[t]
                        /\ u = PutCounter(s, j.num + 1)
  BY Zenon
<1>0. pc \in [Threads -> PCs]
  BY DEF IInv, TypeInv, TypeOK, ThreadTypeOK
<1>b. j = job[th] /\ j.topic = t /\ s = store[t]
  BY <1>a
<1>1. /\ Write(t, u) /\ UNCHANGED <<job, first, outq, rep, batch>>
      /\ pc[th] = "putnext" /\ pc'[th] = "trim"
      /\ \A x \in Threads \ {th} : pc'[x] = pc[x]
  BY <1>0, <1>a, Zenon DEF PutNext, Goto, kafka
<1>2. /\ j.kind = "cached" /\ t \in Topics /\ j.num \in Nat /\ JobInv(th, "putnext", j)
      /\ NumberInv("putnext", j, first[th], s) /\ Counted(s)
  BY <1>a, <1>1, OwnStore, Zenon DEF Numbering
<1>3. j.num = Count(s) /\ Holds(s, j.num, j.msg)
  BY <1>2, Zenon DEF NumberInv
<1>4. Count(u) = j.num + 1 /\ u.msg = s.msg
  <2>1. u = PutCounter(s, j.num + 1)
    BY <1>a, Zenon
  <2>. QED
    BY <1>2, <2>1, PutCounterOps
<1>5. \A k \in DOMAIN u.msg : k <= j.num
  BY <1>2, <1>3, <1>4 DEF Counted
<1>6. CallInv(th, "trim", j, first[th], u)
  BY <1>2, <1>3, <1>4, <1>5 DEF CallInv, JobInv, NumberInv, Holds
<1>7. Counted(u)
  <2>1. ASSUME NEW k \in DOMAIN u.msg PROVE k <= Count(u)
    <3>1. k \in Nat
      BY <1>1, <1>2 DEF TypeInv, TypeOK, DBTypeOK, IsStore, Write, IInv
    <3>. QED
      BY <1>2, <1>4, <1>5, <3>1
  <2>. QED
    BY <2>1 DEF Counted
<1>8. Unserved' = Unserved
  BY <1>1 DEF Unserved
<1>9. pc[th] \in Writing /\ Count(u) \in Nat /\ j.num <= Count(u)
  BY <1>1, <1>2, <1>4 DEF Writing
<1>. QED
  BY <1>b, <1>1, <1>2, <1>4, <1>6, <1>7, <1>8, <1>9, WriteStep

\* The trim loop goes on to delete the least number, or is over; then every
\* number left is inside the window.
LEMMA TrimTestInductive ==
  ASSUME IInv, TypeInv', NEW th \in Threads, TrimTest(th)
  PROVE  IInv'
<1>a. PICK j, t, s, f : /\ j = job[th] /\ t = j.topic /\ s = store[t]
                        /\ f = FirstKey(s)
  BY Zenon
<1>b. j = job[th] /\ t = j.topic /\ s = store[t]
  BY <1>a, Zenon
<1>0. pc \in [Threads -> PCs] /\ first \in [Threads -> Nat \cup {DescKey}]
  BY DEF IInv, TypeInv, TypeOK, ThreadTypeOK
<1>1. /\ UNCHANGED <<store, surviving, job, outq, rep, batch>> /\ pc[th] = "trim"
      /\ \/ pc'[th] = "del" /\ first'[th] = f /\ j.num - OffsetOf(t, f) > NumMax
         \/ pc'[th] = "send" /\ ~(j.num > NumMax /\ j.num - OffsetOf(t, f) > NumMax)
      /\ \A x \in Threads \ {th} : pc'[x] = pc[x] /\ first'[x] = first[x]
  BY <1>0, <1>a, Zenon DEF TrimTest, Goto, dbvars, kafka
<1>2. /\ j.kind = "cached" /\ j.num \in Nat /\ JobInv(th, "trim", j)
      /\ NumberInv("trim", j, first[th], s) /\ IsStore(s)
  BY <1>b, <1>1, OwnStore, Zenon DEF Numbering
<1>3. /\ j.num + 1 = Count(s) /\ Holds(s, j.num, j.msg)
      /\ \A k \in DOMAIN s.msg : k <= j.num
  BY <1>2 DEF NumberInv
<1>4. f \in Nat /\ \A i \in DOMAIN s.msg : f <= i /\ i \in Nat
  <2>1. f = FirstKey(s)
    BY <1>a
  <2>2. f \in DOMAIN s.msg /\ \A i \in DOMAIN s.msg : f <= i
    BY <1>2, <1>3, <2>1, FirstKeyLeast DEF Holds
  <2>. QED
    BY <1>2, <2>2 DEF IsStore
<1>5. KeyCut[t] = 0 => OffsetOf(t, f) = f
  BY <1>4 DEF OffsetOf, DescKey
<1>6. CallInv(th, pc'[th], j, first'[th], s)
  <2>1. CASE pc'[th] = "del"
    <3>1. first'[th] \in Nat /\ (KeyCut[j.topic] = 0 => j.num - first'[th] > NumMax)
      BY <1>b, <1>1, <1>4, <1>5, <2>1, Zenon
    <3>. QED
      BY <1>2, <1>3, <2>1, <3>1 DEF CallInv, JobInv, NumberInv
  <2>2. CASE pc'[th] = "send"
    <3>1. ASSUME KeyCut[j.topic] = 0, NEW i \in DOMAIN s.msg PROVE j.num - NumMax <= i
      <4>1. i \in Nat /\ f <= i /\ ~(j.num > NumMax /\ j.num - f > NumMax)
        BY <1>b, <1>1, <1>4, <1>5, <2>2, <3>1, Zenon
      <4>. QED
        BY <1>2, <1>4, <4>1, BoundsAssumption
    <3>. QED
      BY <1>2, <1>3, <2>2, <3>1 DEF CallInv, JobInv, NumberInv, Numbering
  <2>. QED
    BY <1>1, <2>1, <2>2, Zenon
<1>7. CallOK(th)'
  BY <1>b, <1>1, <1>6, Zenon DEF CallOK
<1>8. Unserved' = Unserved /\ pc[th] \in Writing
  BY <1>1 DEF Unserved, Writing
<1>. QED
  BY <1>1, <1>7, <1>8, OwnStep, Zenon

\* The trim loop deletes a number below the window, never its own.
LEMMA TrimDeleteInductive ==
  ASSUME Disciplined, IInv, TypeInv', NEW th \in Threads, TrimDelete(th)
  PROVE  IInv'
<1>a. PICK j, t, s, f, u : /\ j = job[th] /\ t = j.topic /\ s = store[t] /\ f = first[th]
                           /\ u = DelFirst(s, t, f)
  BY Zenon
<1>b. j = job[th] /\ j.topic = t /\ s = store[t]
  BY <1>a, Zenon
<1>0. pc \in [Threads -> PCs] /\ first \in [Threads -> Nat \cup {DescKey}]
  BY DEF IInv, TypeInv, TypeOK, ThreadTypeOK
<1>1. /\ Write(t, u) /\ UNCHANGED <<job, outq, rep, batch>>
      /\ pc[th] = "del" /\ pc'[th] = "trim"
      /\ \A x \in Threads \ {th} : pc'[x] = pc[x] /\ first'[x] = first[x]
  BY <1>0, <1>a, Zenon DEF TrimDelete, Goto, kafka
<1>2. /\ j.kind = "cached" /\ t \in Topics /\ j.num \in Nat /\ JobInv(th, "del", j)
      /\ NumberInv("del", j, f, s) /\ Counted(s)
  BY <1>a, <1>1, OwnStore, Zenon DEF Numbering
<1>3. /\ j.num + 1 = Count(s) /\ Holds(s, j.num, j.msg)
      /\ \A k \in DOMAIN s.msg : k <= j.num
      /\ f \in Nat /\ (KeyCut[j.topic] = 0 => j.num - f > NumMax)
  BY <1>2, Zenon DEF NumberInv
<1>c. u = DelFirst(s, t, f)
  BY <1>a
<1>4. /\ Count(u) = Count(s) /\ DOMAIN u.msg \subseteq DOMAIN s.msg
      /\ \A i \in DOMAIN u.msg : u.msg[i] = s.msg[i]
      /\ \A i \in DOMAIN s.msg : i \in DOMAIN u.msg \/ (KeyCut[t] = 0 /\ i = f)
  BY <1>c, <1>3, DelFirstOps
<1>5. ~(KeyCut[t] = 0 /\ j.num = f)
  BY <1>b, <1>2, <1>3, BoundsAssumption
<1>6. Holds(u, j.num, j.msg)
  BY <1>3, <1>4, <1>5 DEF Holds
<1>7. CallInv(th, "trim", j, first'[th], u)
  BY <1>2, <1>3, <1>4, <1>6, Zenon DEF CallInv, JobInv, NumberInv
<1>8. Counted(u)
  BY <1>2, <1>4, Zenon DEF Counted
<1>9. Unserved' = Unserved /\ pc[th] \in Writing
  BY <1>1 DEF Unserved, Writing
<1>10. Count(u) \in Nat /\ j.num <= Count(u)
  BY <1>2, <1>3, <1>4
<1>. QED
  BY <1>b, <1>1, <1>2, <1>4, <1>7, <1>8, <1>9, <1>10, WriteStep

\* A deletion of the trim loop that fails is tried again.
LEMMA TrimFailsInductive ==
  ASSUME IInv, TypeInv', NEW th \in Threads, TrimDeleteFails(th)
  PROVE  IInv'
<1>a. PICK j, s : j = job[th] /\ s = store[j.topic]
  BY Zenon
<1>0. pc \in [Threads -> PCs] /\ first \in [Threads -> Nat \cup {DescKey}]
  BY DEF IInv, TypeInv, TypeOK, ThreadTypeOK
<1>1. /\ UNCHANGED <<store, surviving, job, outq, rep, batch>>
      /\ pc[th] = "del" /\ pc'[th] = "trim"
      /\ \A x \in Threads \ {th} : pc'[x] = pc[x] /\ first'[x] = first[x]
  BY <1>0 DEF TrimDeleteFails, Goto, dbvars, kafka
<1>2. j.kind = "cached" /\ JobInv(th, "del", j) /\ NumberInv("del", j, first[th], s)
  BY <1>a, <1>1, OwnStore, Zenon DEF Numbering
<1>3. CallInv(th, "trim", j, first'[th], s)
  BY <1>2, Zenon DEF CallInv, JobInv, NumberInv
<1>4. CallOK(th)'
  BY <1>a, <1>1, <1>3, Zenon DEF CallOK
<1>5. Unserved' = Unserved /\ pc[th] \in Writing
  BY <1>1 DEF Unserved, Writing
<1>. QED
  BY <1>1, <1>4, <1>5, OwnStep, Zenon

=============================================================================
