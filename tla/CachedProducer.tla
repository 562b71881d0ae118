--------------------------- MODULE CachedProducer ---------------------------
(***************************************************************************)
(* The cached send path of client/for_go.cpp on top of client/Producer.cpp *)
(* and the LevelDB store of client/opdb.h: send_msg_with_cache numbers a   *)
(* message, writes it to the topic's database, trims the database to a     *)
(* window of num_max, hands the message to librdkafka and serves delivery  *)
(* reports, whose callback deletes the confirmed message again.  Threads   *)
(* interleave at every database and librdkafka call; the process or the    *)
(* machine may crash between any two of them.                              *)
(***************************************************************************)
EXTENDS Integers, Sequences, FiniteSets, Functions

CONSTANTS
  Threads,       \* application threads calling the exported functions
  NoThread,      \* "mutex not held"
  Topics,
  Msgs,          \* message bodies, each submitted once
  EmptyMsgs,     \* the bodies of length 0
  CacheUsers,    \* which threads call send_msg_with_cache on a topic
  PlainUsers,    \* which threads call send_msg on a topic
  NumMax,        \* num_max, the width of the cached window
  QueueMax,      \* queue.buffering.max.messages of librdkafka
  KeyCut,        \* digits of a topic's keys that do not fit in ktmp[256]
  DescNum,       \* atol of the tail of the counter's own key
  Faults,        \* database calls that may fail: "get", "put", "del"
  MachineCrash   \* may unsynced database writes be lost?

ASSUME ThreadsAssumption == NoThread \notin Threads
ASSUME TopicsAssumption ==
  /\ Topics # {} /\ Msgs # {}
  /\ EmptyMsgs \subseteq Msgs
  /\ CacheUsers \in [Topics -> SUBSET Threads]
  /\ PlainUsers \in [Topics -> SUBSET Threads]
ASSUME BoundsAssumption ==
  /\ NumMax \in Nat
  /\ QueueMax \in Nat
  /\ KeyCut \in [Topics -> Nat]
  /\ DescNum \in [Topics -> Int]
ASSUME FaultsAssumption ==
  /\ Faults \subseteq {"get", "put", "del"}
  /\ MachineCrash \in BOOLEAN

VARIABLES
  store,      \* per topic, its database: message keys and the counter
  surviving,  \* per topic, the versions of the database a crash may leave
  dirs,       \* topics with a directory under topic_cache/
  topics,     \* p_kafka_topics: topics registered with the producer
  mx,         \* holder of Producer::mx
  outq,       \* messages accepted by rd_kafka_produce, no report yet
  rep,        \* rk_rep: delivery reports not served yet, oldest first
  broker,     \* messages Kafka has persisted
  pc, job,    \* per thread: next step and the call it is executing
  first,      \* per thread: the key storage_first returned to the trim loop
  batch,      \* per thread: reports a poll took and is still serving
  left, todo, \* per thread in recover(): directories, and bodies to re-send
  used,       \* bodies already submitted
  recorded    \* history: numbered messages whose counter update was written

dbvars   == <<store, surviving, dirs>>
kafka    == <<outq, rep, broker>>
loopvars == <<left, todo>>
history  == <<used, recorded>>
vars == <<dbvars, topics, mx, kafka, pc, job, first, batch, loopvars, history>>

-----------------------------------------------------------------------------
(* The database of a topic.  A message key is the topic followed by the    *)
(* number in 20 digits, so keys sort by number; the counter's key, "~~zz"  *)
(* and the topic, sorts after all of them.                                 *)

Absent  == -1   \* no counter stored
NoKey   == -1   \* nkey of a send without a key
DescKey == -1   \* the counter's key, when storage_first returns it

EmptyStore == [msg |-> [k \in {} |-> k], next |-> Absent]

\* variant: the missing counter is not told from a stored one
CountUnchecked(s) == s.next

\* the number the next message gets: 0 when the counter is missing
Count(s) == IF s.next = Absent THEN 0 ELSE s.next

PutMessage(s, k, m) ==
  [msg  |-> [i \in DOMAIN s.msg \cup {k} |-> IF i = k THEN m ELSE s.msg[i]],
   next |-> s.next]

PutCounter(s, n) == [msg |-> s.msg, next |-> n]

DelMessage(s, k) == [msg |-> Restrict(s.msg, DOMAIN s.msg \ {k}), next |-> s.next]

DelCounter(s) == PutCounter(s, Absent)

IsEmpty(s) == DOMAIN s.msg = {} /\ s.next = Absent

\* LDB::_get_first: the least key in the database
FirstKey(s) ==
  IF DOMAIN s.msg = {} THEN DescKey
  ELSE CHOOSE k \in DOMAIN s.msg : \A i \in DOMAIN s.msg : k <= i

\* atol(&ktmp[strlen(topic)]): the number in the key, less its cut digits
OffsetOf(t, k) ==
  IF k = DescKey THEN DescNum[t]
  ELSE IF KeyCut[t] = 0 THEN k
  ELSE k \div (10 ^ KeyCut[t])

\* storage_delkey(ktmp): a key that was cut in ktmp is not in the database
DelFirst(s, t, k) ==
  IF k = DescKey THEN DelCounter(s)
  ELSE IF KeyCut[t] = 0 THEN DelMessage(s, k)
  ELSE s

\* LDB::_cursor lists from where its new iterator stands; NewIterator()
\* leaves an iterator that is not Valid() and _cursor does not seek
IteratorValid == FALSE
Cursor(s) == {s.msg[k] : k \in {i \in DOMAIN s.msg : IteratorValid}}

\* A write is in the page cache at once and on disk later (sync = false).
Write(t, s) ==
  /\ store' = [store EXCEPT ![t] = s]
  /\ surviving' = [surviving EXCEPT ![t] = IF MachineCrash THEN @ \cup {s} ELSE {s}]

-----------------------------------------------------------------------------
(* Calls of the application.                                               *)

Goto(th, l) == pc' = [pc EXCEPT ![th] = l]

\* the locals of a thread that is in no call
IdleJob == [kind |-> "none", topic |-> CHOOSE t \in Topics : TRUE,
            msg |-> CHOOSE m \in Msgs : TRUE, num |-> 0]

\* send_msg_with_cache up to the call of get_db
CallCached(th, t, m) ==
  /\ pc[th] = "idle" /\ th \in CacheUsers[t] /\ m \notin used
  /\ job' = [job EXCEPT ![th] = [kind |-> "cached", topic |-> t, msg |-> m, num |-> 0]]
  /\ dirs' = dirs \cup {t}
  /\ used' = used \cup {m}
  /\ Goto(th, "get")
  /\ UNCHANGED <<store, surviving, topics, mx, kafka, first, batch, loopvars, recorded>>

\* send_msg: no number, so the message carries no key
CallPlain(th, t, m) ==
  /\ pc[th] = "idle" /\ th \in PlainUsers[t] /\ m \notin used
  /\ job' = [job EXCEPT ![th] = [kind |-> "plain", topic |-> t, msg |-> m, num |-> NoKey]]
  /\ used' = used \cup {m}
  /\ Goto(th, "send")
  /\ UNCHANGED <<dbvars, topics, mx, kafka, first, batch, loopvars, recorded>>

\* create_producer and add_produce_topic
AddProduceTopic(th, t) ==
  /\ pc[th] = "idle" /\ mx = NoThread /\ t \notin topics
  /\ topics' = topics \cup {t}
  /\ UNCHANGED <<dbvars, mx, kafka, pc, job, first, batch, loopvars, history>>

\* flush
CallFlush(th) ==
  /\ pc[th] = "idle"
  /\ Goto(th, "flush")
  /\ UNCHANGED <<dbvars, topics, mx, kafka, job, first, batch, loopvars, history>>

-----------------------------------------------------------------------------
(* send_msg_with_cache, one step per database call.                        *)

GetCounter(th) ==
  /\ pc[th] = "get"
  /\ job' = [job EXCEPT ![th].num = Count(store[job[th].topic])]
  /\ Goto(th, "putmsg")
  /\ UNCHANGED <<dbvars, topics, mx, kafka, first, batch, loopvars, history>>

\* a failed read looks like a missing counter: num stays 0
GetCounterFails(th) ==
  /\ pc[th] = "get" /\ "get" \in Faults
  /\ Goto(th, "putmsg")
  /\ UNCHANGED <<dbvars, topics, mx, kafka, job, first, batch, loopvars, history>>

PutMsg(th) ==
  /\ pc[th] = "putmsg"
  /\ LET j == job[th] IN Write(j.topic, PutMessage(store[j.topic], j.num, j.msg))
  /\ Goto(th, "putnext")
  /\ UNCHANGED <<dirs, topics, mx, kafka, job, first, batch, loopvars, history>>

\* variant: the counter keeps the number just used
PutNextSame(th) ==
  /\ pc[th] = "putnext"
  /\ LET j == job[th] IN
       /\ Write(j.topic, PutCounter(store[j.topic], j.num))
       /\ recorded' = recorded \cup {[topic |-> j.topic, num |-> j.num, msg |-> j.msg]}
  /\ Goto(th, "trim")
  /\ UNCHANGED <<dirs, topics, mx, kafka, job, first, batch, loopvars, used>>

PutNext(th) ==
  /\ pc[th] = "putnext"
  /\ LET j == job[th] IN
       /\ Write(j.topic, PutCounter(store[j.topic], j.num + 1))
       /\ recorded' = recorded \cup {[topic |-> j.topic, num |-> j.num, msg |-> j.msg]}
  /\ Goto(th, "trim")
  /\ UNCHANGED <<dirs, topics, mx, kafka, job, first, batch, loopvars, used>>

\* the result of storage_setkey is ignored
PutFails(th) ==
  /\ pc[th] \in {"putmsg", "putnext"} /\ "put" \in Faults
  /\ Goto(th, IF pc[th] = "putmsg" THEN "putnext" ELSE "trim")
  /\ UNCHANGED <<dbvars, topics, mx, kafka, job, first, batch, loopvars, history>>

\* variant: a window one message narrower
TrimTestNarrow(th) ==
  /\ pc[th] = "trim"
  /\ LET j == job[th]
         k == FirstKey(store[j.topic])
     IN  IF j.num >= NumMax /\ j.num - OffsetOf(j.topic, k) >= NumMax
         THEN first' = [first EXCEPT ![th] = k] /\ Goto(th, "del")
         ELSE first' = first /\ Goto(th, "send")
  /\ UNCHANGED <<dbvars, topics, mx, kafka, job, batch, loopvars, history>>

\* while (num > num_max) ... if (num - offset > num_max)
TrimTest(th) ==
  /\ pc[th] = "trim"
  /\ LET j == job[th]
         k == FirstKey(store[j.topic])
     IN  /\ j.num > NumMax => ~IsEmpty(store[j.topic])
         /\ IF j.num > NumMax /\ j.num - OffsetOf(j.topic, k) > NumMax
            THEN first' = [first EXCEPT ![th] = k] /\ Goto(th, "del")
            ELSE first' = first /\ Goto(th, "send")
  /\ UNCHANGED <<dbvars, topics, mx, kafka, job, batch, loopvars, history>>

\* variant: if instead of while, one deletion per call
TrimDeleteOnce(th) ==
  /\ pc[th] = "del"
  /\ LET t == job[th].topic IN Write(t, DelFirst(store[t], t, first[th]))
  /\ first' = [first EXCEPT ![th] = DescKey]
  /\ Goto(th, "send")
  /\ UNCHANGED <<dirs, topics, mx, kafka, job, batch, loopvars, history>>

TrimDelete(th) ==
  /\ pc[th] = "del"
  /\ LET t == job[th].topic IN Write(t, DelFirst(store[t], t, first[th]))
  /\ first' = [first EXCEPT ![th] = DescKey]
  /\ Goto(th, "trim")
  /\ UNCHANGED <<dirs, topics, mx, kafka, job, batch, loopvars, history>>

TrimDeleteFails(th) ==
  /\ pc[th] = "del" /\ "del" \in Faults
  /\ first' = [first EXCEPT ![th] = DescKey]
  /\ Goto(th, "trim")
  /\ UNCHANGED <<dbvars, topics, mx, kafka, job, batch, loopvars, history>>

-----------------------------------------------------------------------------
(* Producer::send_msg, flush and the delivery callback.                    *)

\* Producer::send_msg returns: its caller flushes, or, in re_send, goes on
\* with the next listed body or the next directory
SendReturn(th) ==
  IF job[th].kind = "resend" /\ todo[th] # {}
  THEN \E m \in todo[th] :
         /\ job' = [job EXCEPT ![th] = [kind |-> "resend", topic |-> @.topic,
                                        msg |-> m, num |-> NoKey]]
         /\ todo' = [todo EXCEPT ![th] = @ \ {m}]
         /\ Goto(th, "send")
  ELSE /\ Goto(th, IF job[th].kind = "resend" THEN "recover" ELSE "flush")
       /\ UNCHANGED <<job, todo>>

\* the topic is not registered, or the message is empty
SendNothing(th) ==
  /\ pc[th] = "send" /\ mx = NoThread
  /\ job[th].topic \notin topics \/ job[th].msg \in EmptyMsgs
  /\ SendReturn(th)
  /\ UNCHANGED <<dbvars, topics, mx, kafka, first, batch, left, history>>

CanProduce(th) ==
  /\ pc[th] = "send" /\ mx = NoThread
  /\ job[th].topic \in topics /\ job[th].msg \notin EmptyMsgs

\* rk_curr_msgs: messages librdkafka holds until their reports are served
CurrMsgs ==
  Cardinality(outq) + Len(rep)
    + SumFunction([th \in Threads |-> Len(batch[th])])

\* rd_kafka_produce accepts the message
Produce(th) ==
  /\ CanProduce(th)
  /\ CurrMsgs < QueueMax
  /\ LET j == job[th] IN outq' = outq \cup {[topic |-> j.topic, key |-> j.num, msg |-> j.msg]}
  /\ mx' = th
  /\ Goto(th, "poll")
  /\ UNCHANGED <<dbvars, topics, rep, broker, job, first, batch, loopvars, history>>

\* rd_kafka_produce fails (queue full, message too large, unknown topic)
ProduceFails(th) ==
  /\ CanProduce(th)
  /\ mx' = th
  /\ Goto(th, "poll")
  /\ UNCHANGED <<dbvars, topics, kafka, job, first, batch, loopvars, history>>

\* rd_kafka_poll takes every report queued; none when it timed out
Poll(th) ==
  /\ pc[th] \in {"poll", "flush"}
  /\ batch' = [batch EXCEPT ![th] = rep]
  /\ rep' = << >>
  /\ Goto(th, IF pc[th] = "poll" THEN "serve" ELSE "flushserve")
  /\ UNCHANGED <<dbvars, topics, mx, outq, broker, job, first, loopvars, history>>

\* variant: the key is read one number too high
AckedKeyAfter(d) == d.key + 1

\* atol of the report's key: 0 for a message sent without one
AckedKey(d) == IF d.key = NoKey THEN 0 ELSE d.key

Serving(th) == pc[th] \in {"serve", "flushserve"} /\ batch[th] # << >>

\* variant: the report's error is not looked at
AckUnchecked(th) ==
  /\ Serving(th)
  /\ LET d == Head(batch[th]) IN
       /\ Write(d.topic, DelMessage(store[d.topic], AckedKey(d)))
       /\ dirs' = dirs \cup {d.topic}
  /\ batch' = [batch EXCEPT ![th] = Tail(@)]
  /\ UNCHANGED <<topics, mx, kafka, pc, job, first, loopvars, history>>

\* message_receipt_cbk of a confirmed message, with send_msg_callback
AckConfirmed(th) ==
  /\ Serving(th) /\ Head(batch[th]).ok
  /\ LET d == Head(batch[th]) IN
       /\ Write(d.topic, DelMessage(store[d.topic], AckedKey(d)))
       /\ dirs' = dirs \cup {d.topic}
  /\ batch' = [batch EXCEPT ![th] = Tail(@)]
  /\ UNCHANGED <<topics, mx, kafka, pc, job, first, loopvars, history>>

\* message_receipt_cbk of a failed one only logs; a failed delete is ignored
AckIgnored(th) ==
  /\ Serving(th) /\ (~Head(batch[th]).ok \/ "del" \in Faults)
  /\ dirs' = IF Head(batch[th]).ok THEN dirs \cup {Head(batch[th]).topic} ELSE dirs
  /\ batch' = [batch EXCEPT ![th] = Tail(@)]
  /\ UNCHANGED <<store, surviving, topics, mx, kafka, pc, job, first, loopvars, history>>

PollReturn(th) ==
  /\ pc[th] = "serve" /\ batch[th] = << >>
  /\ mx' = NoThread
  /\ SendReturn(th)
  /\ UNCHANGED <<dbvars, topics, kafka, first, batch, left, history>>

FlushReturn(th) ==
  /\ pc[th] = "flushserve" /\ batch[th] = << >>
  /\ job' = [job EXCEPT ![th] = IdleJob]
  /\ Goto(th, "idle")
  /\ UNCHANGED <<dbvars, topics, mx, kafka, first, batch, loopvars, history>>

-----------------------------------------------------------------------------
(* recover() and re_send.                                                  *)

CallRecover(th) ==
  /\ pc[th] = "idle"
  /\ left' = [left EXCEPT ![th] = dirs]
  /\ job' = [job EXCEPT ![th] = [kind |-> "resend", topic |-> @.topic,
                                 msg |-> @.msg, num |-> NoKey]]
  /\ Goto(th, "recover")
  /\ UNCHANGED <<dbvars, topics, mx, kafka, first, batch, todo, history>>

\* re_send of one directory: list its database, register the topic (which
\* takes mx), and send every listed body without a key
ReSend(th, t) ==
  /\ pc[th] = "recover" /\ t \in left[th] /\ mx = NoThread
  /\ left' = [left EXCEPT ![th] = @ \ {t}]
  /\ topics' = topics \cup {t}
  /\ LET v == Cursor(store[t]) IN
       IF v = {}
       THEN UNCHANGED <<pc, job, todo>>
       ELSE \E m \in v : /\ job' = [job EXCEPT ![th] = [kind |-> "resend", topic |-> t,
                                                        msg |-> m, num |-> NoKey]]
                         /\ todo' = [todo EXCEPT ![th] = v \ {m}]
                         /\ Goto(th, "send")
  /\ UNCHANGED <<dbvars, mx, kafka, first, batch, history>>

RecoverReturn(th) ==
  /\ pc[th] = "recover" /\ left[th] = {}
  /\ job' = [job EXCEPT ![th] = IdleJob]
  /\ Goto(th, "idle")
  /\ UNCHANGED <<dbvars, topics, mx, kafka, first, batch, loopvars, history>>

-----------------------------------------------------------------------------
(* librdkafka's broker threads and Kafka, as the client sees them.         *)

\* the broker appends the message; the response may still be lost
BrokerPersists(e) ==
  /\ e \in outq /\ e.msg \notin broker
  /\ broker' = broker \cup {e.msg}
  /\ UNCHANGED <<dbvars, topics, mx, outq, rep, pc, job, first, batch, loopvars, history>>

Report(e, ok) ==
  /\ outq' = outq \ {e}
  /\ rep' = Append(rep, [topic |-> e.topic, key |-> e.key, msg |-> e.msg, ok |-> ok])
  /\ UNCHANGED <<dbvars, topics, mx, broker, pc, job, first, batch, loopvars, history>>

\* a successful ProduceResponse
ReportSuccess(e) == e \in outq /\ e.msg \in broker /\ Report(e, TRUE)

\* timeout or permanent error; the message may have been persisted
ReportError(e) == e \in outq /\ Report(e, FALSE)

-----------------------------------------------------------------------------
(* The process ends, and is started again; the databases are reopened.     *)

ProcessDies ==
  /\ topics' = {} /\ mx' = NoThread
  /\ outq' = {} /\ rep' = << >>
  /\ pc' = [th \in Threads |-> "down"]
  /\ job' = [th \in Threads |-> IdleJob]
  /\ first' = [th \in Threads |-> DescKey]
  /\ batch' = [th \in Threads |-> << >>]
  /\ left' = [th \in Threads |-> {}]
  /\ todo' = [th \in Threads |-> {}]
  /\ UNCHANGED <<dirs, broker, history>>

Crash ==
  /\ ProcessDies
  /\ \E s \in [Topics -> UNION {surviving[t] : t \in Topics}] :
       /\ \A t \in Topics : s[t] \in surviving[t]
       /\ store' = s
       /\ surviving' = [t \in Topics |-> {s[t]}]

\* SeekToFirst on an empty database: key() asserts and the process aborts
TrimAbort(th) ==
  /\ pc[th] = "trim" /\ job[th].num > NumMax /\ IsEmpty(store[job[th].topic])
  /\ ProcessDies
  /\ UNCHANGED <<store, surviving>>

Restart ==
  /\ \A th \in Threads : pc[th] = "down"
  /\ pc' = [th \in Threads |-> "idle"]
  /\ UNCHANGED <<dbvars, topics, mx, kafka, job, first, batch, loopvars, history>>

-----------------------------------------------------------------------------
Init ==
  /\ store = [t \in Topics |-> EmptyStore]
  /\ surviving = [t \in Topics |-> {EmptyStore}]
  /\ dirs = {} /\ topics = {} /\ mx = NoThread
  /\ outq = {} /\ rep = << >> /\ broker = {}
  /\ pc = [th \in Threads |-> "idle"]
  /\ job = [th \in Threads |-> IdleJob]
  /\ first = [th \in Threads |-> DescKey]
  /\ batch = [th \in Threads |-> << >>]
  /\ left = [th \in Threads |-> {}]
  /\ todo = [th \in Threads |-> {}]
  /\ used = {} /\ recorded = {}

Call(th) ==
  \/ \E t \in Topics, m \in Msgs : CallCached(th, t, m) \/ CallPlain(th, t, m)
  \/ \E t \in Topics : AddProduceTopic(th, t)
  \/ CallFlush(th) \/ CallRecover(th)

\* the steps of a call in progress
Step(th) ==
  \/ GetCounter(th) \/ GetCounterFails(th)
  \/ PutMsg(th) \/ PutNext(th) \/ PutFails(th)
  \/ TrimTest(th) \/ TrimDelete(th) \/ TrimDeleteFails(th) \/ TrimAbort(th)
  \/ SendNothing(th) \/ Produce(th) \/ ProduceFails(th)
  \/ Poll(th) \/ AckConfirmed(th) \/ AckIgnored(th)
  \/ PollReturn(th) \/ FlushReturn(th)
  \/ (\E t \in Topics : ReSend(th, t)) \/ RecoverReturn(th)

Kafka == \E e \in outq : BrokerPersists(e) \/ ReportSuccess(e) \/ ReportError(e)

Running == (\E th \in Threads : Call(th) \/ Step(th)) \/ Kafka

Next == Running \/ Crash \/ Restart

Spec == Init /\ [][Next]_vars

\* Every thread that is inside a call keeps running, and rd_kafka_poll
\* returns by its timeout.  Nothing is assumed of the application's next
\* call, of Kafka, of crashes or of a restart.
Fairness == \A th \in Threads : WF_vars(Step(th))

\* Nobody kills the process, though it may end itself and stay down.
UpSpec == Init /\ [][Running \/ Restart]_vars /\ Fairness

\* A deletion that the trim loop tries again and again succeeds at last.
RetrySpec == UpSpec /\ \A th \in Threads : SF_vars(TrimDelete(th))

\* The application keeps calling flush.
FlushingSpec == UpSpec /\ SF_vars(\E th \in Threads : CallFlush(th))

-----------------------------------------------------------------------------
\* How an application has to share out the topics: a topic is either sent
\* to without the cache, or by a single caller of send_msg_with_cache.  Reads
\* and writes of the database succeed; deletions may fail.
Disciplined ==
  /\ \A t \in Topics : \A a, b \in CacheUsers[t] : a = b
  /\ \A t \in Topics : CacheUsers[t] = {} \/ PlainUsers[t] = {}
  /\ Faults \subseteq {"del"}

PCs == {"idle", "get", "putmsg", "putnext", "trim", "del", "send", "poll",
        "serve", "flush", "flushserve", "recover", "down"}

Jobs == [kind : {"none", "cached", "plain", "resend"},
         topic : Topics, msg : Msgs, num : Nat \cup {NoKey}]

Entries == [topic : Topics, key : Nat \cup {NoKey}, msg : Msgs]
Reports == [topic : Topics, key : Nat \cup {NoKey}, msg : Msgs, ok : BOOLEAN]

IsStore(s) ==
  /\ DOMAIN s.msg \subseteq Nat
  /\ \A k \in DOMAIN s.msg : s.msg[k] \in Msgs
  /\ s.next \in Nat \cup {Absent}

DBTypeOK ==
  /\ store = [t \in Topics |-> store[t]] /\ surviving = [t \in Topics |-> surviving[t]]
  /\ \A t \in Topics : store[t] \in surviving[t] /\ \A s \in surviving[t] : IsStore(s)
  /\ dirs \subseteq Topics

KafkaTypeOK ==
  /\ topics \subseteq Topics /\ mx \in Threads \cup {NoThread}
  /\ outq \subseteq Entries /\ rep \in Seq(Reports) /\ broker \subseteq Msgs

ThreadTypeOK ==
  /\ pc \in [Threads -> PCs] /\ job \in [Threads -> Jobs]
  /\ first \in [Threads -> Nat \cup {DescKey}]
  /\ batch \in [Threads -> Seq(Reports)]
  /\ left \in [Threads -> SUBSET Topics] /\ todo \in [Threads -> SUBSET Msgs]

HistoryTypeOK ==
  /\ used \subseteq Msgs
  /\ recorded \subseteq [topic : Topics, num : Nat, msg : Msgs]

\* Every variable has the shape the comment beside its declaration gives
\* it; in particular a database the process is using is one that a crash
\* of the process alone would leave.
TypeOK == DBTypeOK /\ KafkaTypeOK /\ ThreadTypeOK /\ HistoryTypeOK

\* A message whose number has been taken (the counter was written) is in
\* the cache until Kafka has it or it is more than num_max numbers old:
\* "write the data to the cache first, when Kafka confirms ... clears the
\* cache" (README.md).  Two callers of send_msg_with_cache, a callback that
\* deletes the wrong key, a crash between two writes, or a wrong trim bound
\* would each break it.
Retained ==
  \A r \in recorded :
    LET s == store[r.topic] IN
      \/ r.num \in DOMAIN s.msg /\ s.msg[r.num] = r.msg
      \/ r.msg \in broker
      \/ r.num + NumMax < Count(s) - 1

\* the messages librdkafka owes a report or a callback for
Unserved == outq \cup Range(rep) \cup UNION {Range(batch[th]) : th \in Threads}

\* The key a delivery callback is going to delete (send_msg_callback) holds
\* the very message the report is about, or nothing: no report in flight
\* can clear another message, however many crashes lie behind.
AckMatches ==
  \A d \in Unserved :
    LET m == store[d.topic].msg IN
      AckedKey(d) \in DOMAIN m => m[AckedKey(d)] = d.msg

\* When the trim loop of send_msg_with_cache is over, the topic's database
\* holds no message more than num_max numbers older than the one being
\* sent, whatever crashed calls had left behind, and none newer than it.
WindowTrimmed ==
  \A th \in Threads : pc[th] = "send" /\ job[th].kind = "cached" =>
    \A k \in DOMAIN store[job[th].topic].msg :
      job[th].num - NumMax <= k /\ k <= job[th].num

\* The trim loop always finds a message.  It never comes to the counter's
\* key, which it would delete, starting the numbers again at 0, nor to an
\* empty database, where the assertion of LevelDB ends the process
\* (LDB::_get_first does not ask whether its iterator is Valid()).
TrimSparesCounter ==
  \A th \in Threads :
    /\ pc[th] = "trim" => DOMAIN store[job[th].topic].msg # {}
    /\ pc[th] = "del" => first[th] # DescKey

\* Every exported call returns to its caller: the trim loop ends without
\* ending the process, no callback under Producer::mx waits for it, and
\* whoever holds it lets it go.
CallsReturn ==
  \A th \in Threads : pc[th] \notin {"idle", "down"} ~> pc[th] = "idle"

\* Callers that share a topic, and reads and writes of the database that
\* fail, may end the process (TrimAbort), but they leave no call hanging.
CallsEnd ==
  \A th \in Threads : pc[th] \notin {"idle", "down"} ~> pc[th] \in {"idle", "down"}

\* m is still cached although its successful report is waiting
ConfirmedWaits(t, m) ==
  /\ m \in Range(store[t].msg)
  /\ \E d \in Range(rep) \cup UNION {Range(batch[th]) : th \in Threads} :
       d.ok /\ d.topic = t /\ d.msg = m

\* "when Kafka confirms ... clears the cache" (README.md): a message whose
\* confirmation librdkafka has received leaves the database, unless the
\* process ends before the callback has run.
ConfirmedCleared ==
  \A t \in Topics, m \in Msgs :
    ConfirmedWaits(t, m)
      ~> m \notin Range(store[t].msg) \/ \A th \in Threads : pc[th] = "down"

\* re_send of a topic whose database holds messages starts sending them
\* (the callers of recover() expect the cache of the last run to go out).
RecoverSends ==
  [][\A th \in Threads, t \in Topics :
       ReSend(th, t) /\ DOMAIN store[t].msg # {} => pc'[th] = "send"]_vars

=============================================================================
