------------------------------ MODULE Consumer ------------------------------
(***************************************************************************)
(* client/Consumer.cpp on top of librdkafka's simple consumer.             *)
(* start_consumer first probes every topic for the offset of its last      *)
(* message (get_eof), then starts it at the offset the application asked   *)
(* for, or at its tail, and hands what rd_kafka_consume returns to Go.     *)
(* The calling thread, librdkafka's main thread (offset queries) and its   *)
(* broker threads (fetching) share a partition through two queues and      *)
(* keep the probe and the real start apart by version barriers.            *)
(***************************************************************************)
EXTENDS Integers, Sequences, SequencesExt

CONSTANTS
  Threads, NoThread,
  Starters,   \* threads that call start_consumer
  Topics,
  Requests,   \* offsets an application asks to start at
  MaxLog,     \* per topic, bound on its messages
  Faults,     \* "leader": none known; "offset", "fetch": the broker errors
  MaxErrors   \* bound on the error events waiting in a fetch queue

ASSUME ConsumerAssumption ==
  /\ NoThread \notin Threads /\ Starters \subseteq Threads
  /\ Requests \subseteq Nat /\ MaxLog \in [Topics -> Nat] /\ MaxErrors \in Nat
  /\ Faults \subseteq {"leader", "offset", "fetch"}

VARIABLES
  req,     \* c_kafka_topics: the requested offset of a registered topic
  eof,     \* topic_eof_offset
  mx,      \* holder of Consumer::mx
  pc,      \* per thread, where it is in start_consumer
  todo,    \* per thread, the topics its for loop has left
  tp,      \* per topic, librdkafka's state of its partition 0
  ops,     \* per topic, rktp_ops: control operations for the main thread
  fetchq,  \* per topic, rktp_fetchq: messages and errors for the application
  hi,      \* per topic, the end offset of the log at the broker
  got,     \* history: offsets of the messages handed to Go, in order
  passed,  \* history: topics whose error events were handed to Go
  seen     \* history: end offsets when start_consumer was called, or
           \* when the topic was added after that

app     == <<req, eof, mx, pc, todo>>
history == <<got, passed, seen>>
vars    == <<app, tp, ops, fetchq, hi, history>>

Invalid   == -1001   \* RD_KAFKA_OFFSET_INVALID
End       == -1      \* RD_KAFKA_OFFSET_END
TailBase  == -2000   \* RD_KAFKA_OFFSET_TAIL_BASE
NoRequest == -1      \* the topic is not in c_kafka_topics

Registered == {t \in Topics : req[t] # NoRequest}

-----------------------------------------------------------------------------
(* A partition in librdkafka: ver is the barrier the application counts up, *)
(* opver and fver how far the main and the broker thread have followed it. *)

NewPartition ==
  [ver |-> 0, opver |-> 0, fver |-> 0,
   state |-> "none", query |-> Invalid, next |-> Invalid, timer |-> FALSE,
   last |-> Invalid, fetch |-> Invalid, ls |-> Invalid,
   offreqs |-> {}, fetchreq |-> << >>]

\* rd_kafka_toppar_next_offset_handle for an offset of the log: a query for
\* TAIL(n) is moved back by n
Concrete(p, off) ==
  LET n == IF p.query <= TailBase THEN TailBase - p.query ELSE 0
  IN  [p EXCEPT !.next = IF n > off THEN 0 ELSE off - n, !.state = "active"]

\* rd_kafka_toppar_offset_request: ask the leader, or wait for one; the end of
\* the log now is the least that the answer can be
OffsetRequest(p, end, leader) ==
  IF leader
  THEN [p EXCEPT !.offreqs = @ \cup {[ver |-> p.opver, end |-> end]},
                 !.state = "wait", !.timer = FALSE]
  ELSE [p EXCEPT !.state = "query", !.timer = TRUE]

\* rd_kafka_toppar_fetch_start
FetchStart(p, v, off, end, leader) ==
  IF off <= TailBase
  THEN OffsetRequest([p EXCEPT !.opver = v, !.next = off, !.query = off], end, leader)
  ELSE [p EXCEPT !.opver = v, !.next = off, !.state = "active"]

\* rd_kafka_offset_reset after an error: auto.offset.reset is the end of
\* the log, known from the last fetch or asked for
OffsetReset(p, end, leader) ==
  IF p.ls >= 0 THEN Concrete(p, p.ls)
  ELSE OffsetRequest([p EXCEPT !.query = End], end, leader)

\* variant: a new barrier alone is not noticed
DecidedByOffset(p) ==
  IF p.state = "active" /\ (p.next # p.last \/ p.fetch = Invalid)
  THEN [p EXCEPT !.fetch = p.next, !.last = p.next, !.fver = p.opver]
  ELSE p

\* rd_kafka_toppar_fetch_decide: a new barrier, or a new offset to start at
NewBarrier(p) ==
  p.state = "active" /\ (p.opver > p.fver \/ p.next # p.last \/ p.fetch = Invalid)

\* rd_kafka_toppar_fetch_decide: the broker thread follows the main thread
Decided(p) ==
  IF NewBarrier(p)
  THEN [p EXCEPT !.fetch = p.next, !.last = p.next, !.fver = p.opver]
  ELSE p

\* rd_kafka_q_purge_toppar_version: the outdated events at the front of the
\* fetch queue q are dropped, those without a version among them
Purged(q, p) ==
  IF NewBarrier(p)
  THEN LET i == SelectInSeq(q, LAMBDA e : e.ver >= p.opver)
       IN  IF i = 0 THEN << >> ELSE SubSeq(q, i, Len(q))
  ELSE q

LeaderKnown == IF "leader" \in Faults THEN BOOLEAN ELSE {TRUE}

\* variant: the version is used without raising the barrier
ConsumeStartNoBarrier(t, off) ==
  /\ ops' = [ops EXCEPT ![t] = Append(@, [ver |-> tp[t].ver + 1, off |-> off])]
  /\ UNCHANGED tp

\* rd_kafka_consume_start
ConsumeStart(t, off) ==
  LET v == tp[t].ver + 1 IN
    /\ tp' = [tp EXCEPT ![t].ver = v]
    /\ ops' = [ops EXCEPT ![t] = Append(@, [ver |-> v, off |-> off])]

\* variant: the queue is not filtered by version
LiveUnfiltered(t) == fetchq[t]

\* the queued events rd_kafka_q_pop does not filter out; an event without
\* a version is never outdated
Live(t) == SelectSeq(fetchq[t], LAMBDA e : e.ver = 0 \/ e.ver >= tp[t].ver)

\* the error events in the fetch queue are fewer than their bound
RoomForError(t) == Len(SelectSeq(fetchq[t], LAMBDA e : e.err)) < MaxErrors

-----------------------------------------------------------------------------
(* The application and start_consumer.                                     *)

AddConsumeTopic(th, t, off) ==
  /\ pc[th] = "idle" /\ mx = NoThread /\ t \notin Registered
  /\ req' = [req EXCEPT ![t] = off]
  /\ eof' = [eof EXCEPT ![t] = -1]
  /\ seen' = [seen EXCEPT ![t] = hi[t]]
  /\ UNCHANGED <<mx, pc, todo, tp, ops, fetchq, hi, got, passed>>

CallStart(th) ==
  /\ pc[th] = "idle" /\ th \in Starters
  /\ pc' = [pc EXCEPT ![th] = "geteof"]
  /\ seen' = [t \in Topics |-> IF t \in Registered THEN hi[t] ELSE seen[t]]
  /\ UNCHANGED <<req, eof, mx, todo, tp, ops, fetchq, hi, got, passed>>

\* the lock_guards of get_eof and of start_consumer
Lock(th) ==
  /\ pc[th] \in {"geteof", "start"} /\ mx = NoThread
  /\ mx' = th
  /\ pc' = [pc EXCEPT ![th] = IF @ = "geteof" THEN "probe" ELSE "starting"]
  /\ todo' = [todo EXCEPT ![th] = Registered]
  /\ UNCHANGED <<req, eof, tp, ops, fetchq, hi, history>>

\* a for loop over c_kafka_topics is over and the one after it begins
NextLoop(th) ==
  /\ todo[th] = {}
  /\ \/ pc[th] = "probe" /\ pc' = [pc EXCEPT ![th] = "probing"]
     \/ pc[th] = "starting" /\ pc' = [pc EXCEPT ![th] = "running"]
     \/ pc[th] = "running" /\ pc' = pc
  /\ todo' = [todo EXCEPT ![th] = Registered]
  /\ UNCHANGED <<req, eof, mx, tp, ops, fetchq, hi, history>>

\* variant: the probe starts behind the last message
ProbeStartAtEnd(th, t) ==
  /\ pc[th] = "probe" /\ t \in todo[th]
  /\ ConsumeStart(t, TailBase)
  /\ todo' = [todo EXCEPT ![th] = @ \ {t}]
  /\ UNCHANGED <<req, eof, mx, pc, fetchq, hi, history>>

\* get_eof: consume from the last message
ProbeStart(th, t) ==
  /\ pc[th] = "probe" /\ t \in todo[th]
  /\ ConsumeStart(t, TailBase - 1)
  /\ todo' = [todo EXCEPT ![th] = @ \ {t}]
  /\ UNCHANGED <<req, eof, mx, pc, fetchq, hi, history>>

\* get_eof: rd_kafka_consume and get_eof_callback, which takes the offset
\* of the first event, message or error
Probe(th, t) ==
  /\ pc[th] = "probing" /\ t \in todo[th]
  /\ IF Live(t) = << >>
     THEN eof' = eof /\ fetchq' = [fetchq EXCEPT ![t] = << >>]
     ELSE /\ eof' = [eof EXCEPT ![t] = IF @ < 0 THEN Head(Live(t)).off ELSE @]
          /\ fetchq' = [fetchq EXCEPT ![t] = Tail(Live(t))]
  /\ todo' = [todo EXCEPT ![th] = @ \ {t}]
  /\ UNCHANGED <<req, mx, pc, tp, ops, hi, history>>

\* get_eof: another round unless every topic has answered
ProbeCheck(th) ==
  /\ pc[th] = "probing" /\ todo[th] = {}
  /\ IF \E t \in Registered : eof[t] < 0
     THEN todo' = [todo EXCEPT ![th] = Registered] /\ UNCHANGED <<mx, pc>>
     ELSE mx' = NoThread /\ pc' = [pc EXCEPT ![th] = "start"] /\ UNCHANGED todo
  /\ UNCHANGED <<req, eof, tp, ops, fetchq, hi, history>>

\* variant: the last message counts as too large an offset
StartOffsetStrict(t) == IF req[t] >= eof[t] THEN TailBase ELSE req[t]

\* variant: too large an offset starts at the last message
StartOffsetLast(t) == IF req[t] > eof[t] THEN TailBase - 1 ELSE req[t]

\* an offset behind the last message starts at the tail
StartOffset(t) == IF req[t] > eof[t] THEN TailBase ELSE req[t]

StartTopic(th, t) ==
  /\ pc[th] = "starting" /\ t \in todo[th]
  /\ ConsumeStart(t, StartOffset(t))
  /\ todo' = [todo EXCEPT ![th] = @ \ {t}]
  /\ UNCHANGED <<req, eof, mx, pc, fetchq, hi, history>>

\* rd_kafka_consume and consumer_callback, which hands errors to Go as well
Consume(th, t) ==
  /\ pc[th] = "running" /\ t \in todo[th]
  /\ IF Live(t) = << >>
     THEN fetchq' = [fetchq EXCEPT ![t] = << >>] /\ UNCHANGED <<got, passed>>
     ELSE LET e == Head(Live(t)) IN
            /\ fetchq' = [fetchq EXCEPT ![t] = Tail(Live(t))]
            /\ got' = IF e.err THEN got ELSE [got EXCEPT ![t] = Append(@, e.off)]
            /\ passed' = IF e.err THEN passed \cup {t} ELSE passed
  /\ todo' = [todo EXCEPT ![th] = @ \ {t}]
  /\ UNCHANGED <<req, eof, mx, pc, tp, ops, hi, seen>>

-----------------------------------------------------------------------------
(* librdkafka's threads and the broker.                                    *)

\* the main thread serves a FETCH_START
ServeStart(t) ==
  /\ ops[t] # << >>
  /\ \E leader \in LeaderKnown :
       tp' = [tp EXCEPT ![t] = FetchStart(@, Head(ops[t]).ver, Head(ops[t]).off, hi[t], leader)]
  /\ ops' = [ops EXCEPT ![t] = Tail(@)]
  /\ UNCHANGED <<app, fetchq, hi, history>>

\* rd_kafka_offset_query_tmr_cb
QueryTimer(t) ==
  /\ tp[t].timer
  /\ \E leader \in LeaderKnown : tp' = [tp EXCEPT ![t] = OffsetRequest(@, hi[t], leader)]
  /\ UNCHANGED <<app, ops, fetchq, hi, history>>

\* rd_kafka_toppar_handle_Offset: the answer counts if it is up to date
OffsetReply(t, r) ==
  /\ LET p == [tp[t] EXCEPT !.offreqs = @ \ {r}] IN
       IF r.ver < p.opver
       THEN tp' = [tp EXCEPT ![t] = [p EXCEPT !.state = "query", !.timer = TRUE]]
       ELSE \E end \in r.end .. hi[t] : tp' = [tp EXCEPT ![t] = Concrete(p, end)]
  /\ UNCHANGED <<app, ops, fetchq, hi, history>>

\* rd_kafka_toppar_handle_Offset of an error, reported without a version
OffsetError(t, r) ==
  /\ "offset" \in Faults /\ r.ver >= tp[t].opver /\ RoomForError(t)
  /\ \E leader \in LeaderKnown :
       LET p == OffsetReset([tp[t] EXCEPT !.offreqs = @ \ {r}], hi[t], leader)
           o == IF p.query <= TailBase THEN p.query - TailBase ELSE p.query
       IN  /\ tp' = [tp EXCEPT ![t] = p]
           /\ fetchq' = [fetchq EXCEPT ![t] = Append(@, [ver |-> 0, off |-> o, err |-> TRUE])]
  /\ UNCHANGED <<app, ops, hi, history>>

\* the broker thread follows a barrier while a fetch is under way
Decide(t) ==
  /\ tp[t].fetchreq # << >> /\ NewBarrier(tp[t])
  /\ tp' = [tp EXCEPT ![t] = Decided(@)]
  /\ fetchq' = [fetchq EXCEPT ![t] = Purged(@, tp[t])]
  /\ UNCHANGED <<app, ops, hi, history>>

\* rd_kafka_broker_fetch_toppars
Fetch(t) ==
  /\ tp[t].state = "active" /\ tp[t].fetchreq = << >>
  /\ LET p == Decided(tp[t]) IN
       tp' = [tp EXCEPT ![t] = [p EXCEPT !.fetchreq = <<[ver |-> p.fver, off |-> p.fetch, end |-> hi[t]]>>]]
  /\ fetchq' = [fetchq EXCEPT ![t] = Purged(@, tp[t])]
  /\ UNCHANGED <<app, ops, hi, history>>

\* rd_kafka_fetch_reply_handle and the message set reader: an outdated
\* answer is dropped, else its messages, n of the log up to end, are queued
FetchReply(t) ==
  /\ tp[t].fetchreq # << >>
  /\ LET f == Head(tp[t].fetchreq) IN
       \E end \in f.end .. hi[t] : \E n \in (IF f.off < end THEN f.off + 1 ELSE end) .. end :
         LET p    == [tp[t] EXCEPT !.fetchreq = << >>, !.ls = end]
             news == SelectSeq([i \in 1 .. n |-> i - 1], LAMBDA o : o >= f.off /\ o >= p.fetch)
         IN  IF f.ver < p.fver \/ news = << >>
             THEN tp' = [tp EXCEPT ![t] = p] /\ UNCHANGED fetchq
             ELSE /\ tp' = [tp EXCEPT ![t] = [p EXCEPT !.fetch = n]]
                  /\ fetchq' = [fetchq EXCEPT ![t] = @ \o
                       [i \in DOMAIN news |-> [ver |-> f.ver, off |-> news[i], err |-> FALSE]]]
  /\ UNCHANGED <<app, ops, hi, history>>

\* rd_kafka_broker_fetch_reply of a failed request
FetchFails(t) ==
  /\ "fetch" \in Faults /\ tp[t].fetchreq # << >>
  /\ tp' = [tp EXCEPT ![t].fetchreq = << >>]
  /\ UNCHANGED <<app, ops, fetchq, hi, history>>

\* rd_kafka_fetch_reply_handle of an error, which librdkafka handles itself
\* or, when the reply is not outdated, passes to the application
FetchError(t) ==
  /\ "fetch" \in Faults /\ tp[t].fetchreq # << >>
  /\ LET f == Head(tp[t].fetchreq)
         p == [tp[t] EXCEPT !.fetchreq = << >>, !.ls = Invalid]
     IN  /\ tp' = [tp EXCEPT ![t] = p]
         /\ \/ UNCHANGED fetchq
            \/ /\ f.ver >= p.fver /\ RoomForError(t)
               /\ fetchq' = [fetchq EXCEPT ![t] =
                    Append(@, [ver |-> f.ver, off |-> p.fetch, err |-> TRUE])]
  /\ UNCHANGED <<app, ops, hi, history>>

\* another client appends to the topic
Appended(t) ==
  /\ hi[t] < MaxLog[t]
  /\ hi' = [hi EXCEPT ![t] = @ + 1]
  /\ UNCHANGED <<app, tp, ops, fetchq, history>>

-----------------------------------------------------------------------------
Init ==
  /\ req = [t \in Topics |-> NoRequest] /\ eof = [t \in Topics |-> -1]
  /\ mx = NoThread
  /\ pc = [th \in Threads |-> "idle"] /\ todo = [th \in Threads |-> {}]
  /\ tp = [t \in Topics |-> NewPartition]
  /\ ops = [t \in Topics |-> << >>] /\ fetchq = [t \in Topics |-> << >>]
  /\ hi \in {h \in [Topics -> 0 .. Max(Range(MaxLog))] : \A t \in Topics : h[t] <= MaxLog[t]}
  /\ got = [t \in Topics |-> << >>] /\ passed = {}
  /\ seen = [t \in Topics |-> 0]

StartStep(th) ==
  \/ Lock(th) \/ NextLoop(th) \/ ProbeCheck(th)
  \/ \E t \in Topics : ProbeStart(th, t) \/ Probe(th, t) \/ StartTopic(th, t) \/ Consume(th, t)

LibraryStep(t) ==
  \/ ServeStart(t) \/ QueryTimer(t) \/ Decide(t) \/ Fetch(t) \/ FetchReply(t)
  \/ \E r \in tp[t].offreqs : OffsetReply(t, r)

Next ==
  \/ \E th \in Threads :
       \/ \E t \in Topics, off \in Requests : AddConsumeTopic(th, t, off)
       \/ CallStart(th) \/ StartStep(th)
  \/ \E t \in Topics :
       \/ LibraryStep(t) \/ FetchFails(t) \/ FetchError(t) \/ Appended(t)
       \/ \E r \in tp[t].offreqs : OffsetError(t, r)

Spec == Init /\ [][Next]_vars

\* The thread in start_consumer runs, and librdkafka's threads and the
\* broker answer; nothing is assumed of other clients' messages.
FairSpec ==
  /\ Spec
  /\ \A th \in Threads : WF_vars(StartStep(th))
  /\ \A t \in Topics :
       /\ WF_vars(ServeStart(t)) /\ WF_vars(QueryTimer(t))
       /\ WF_vars(Fetch(t)) /\ WF_vars(FetchReply(t))
       /\ WF_vars(\E r \in tp[t].offreqs : OffsetReply(t, r))

-----------------------------------------------------------------------------
\* Every variable has the shape its declaration gives it, and the threads of
\* librdkafka never run ahead of the barrier the application counts up.
TypeOK ==
  /\ req \in [Topics -> Requests \cup {NoRequest}]
  /\ mx \in Threads \cup {NoThread}
  /\ pc \in [Threads -> {"idle", "geteof", "probe", "probing", "start", "starting", "running"}]
  /\ todo \in [Threads -> SUBSET Topics] /\ passed \subseteq Topics
  /\ \A t \in Topics :
       /\ eof[t] \in -1 .. MaxLog[t] /\ hi[t] \in 0 .. MaxLog[t] /\ seen[t] \in 0 .. MaxLog[t]
       /\ got[t] \in Seq(0 .. MaxLog[t])
       /\ tp[t].fver <= tp[t].opver /\ tp[t].opver <= tp[t].ver

\* The callback of a started topic gets consecutive offsets: nothing that
\* the probe had fetched, and no message twice or out of order.
InSequence ==
  \A t \in Topics : \A i \in 1 .. Len(got[t]) - 1 : got[t][i + 1] = got[t][i] + 1

\* An offset that was in the log of a topic when start_consumer was called
\* (or when the topic was added, before the probe) is where its messages
\* begin, however late the probe's answer and whatever was appended since.
StartsWhereAsked ==
  \A t \in Registered :
    got[t] # << >> /\ req[t] < seen[t] /\ eof[t] >= 0 => Head(got[t]) = req[t]

\* An offset behind the log never makes the consumer hand out a message
\* that was there when start_consumer was called; nor does any offset of a
\* topic that another thread added between the probe and the start.
TailSkipsOld ==
  \A t \in Registered :
    got[t] # << >> /\ (req[t] >= seen[t] \/ eof[t] < 0) => Head(got[t]) >= seen[t]

Running == \E th \in Threads : pc[th] = "running"

\* start_consumer gets through its probe once every topic has a message.
ProbeEnds ==
  \A th \in Starters :
    (pc[th] = "probing" /\ \A t \in Registered : hi[t] > 0) ~> Running

\* A consumer that is running and was asked for an offset in the log of a
\* probed topic hands out every message from there on, those appended later
\* included.
AllDelivered ==
  \A t \in Topics : \A off \in 0 .. MaxLog[t] - 1 :
    (Running /\ t \in Registered /\ eof[t] >= 0
       /\ req[t] < seen[t] /\ req[t] <= off /\ off < hi[t])
      ~> off \in Range(got[t])

\* "The returned message's ..->err must be checked for errors" (rdkafka.h):
\* no error event is handed to Go as a message.
ErrorsStay == passed = {}

=============================================================================
