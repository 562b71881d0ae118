# kfkclient: a TLA+ model of the client, its checks and its proofs

kfkclient (libsyrdkafka) is a C++ library with a C interface for Go. It puts a
per-topic LevelDB cache in front of a librdkafka producer, offers a simple
consumer that can start at a given offset, and logs through a thread of its own.
The promise of its README is: *"When producing a message, write the data to the
cache first, when Kafka confirms. libsyrdkafka clears the cache."*

## The system

| part | state | operations | interacts with |
|---|---|---|---|
| cached send path, `client/for_go.cpp` | a database per topic: messages by number, a counter | `send_msg_with_cache`, `send_msg_callback` | topic database, Producer |
| Producer, `client/Producer.cpp` | registered topics, mutex `mx` | `add_produce_topic`, `send_msg`, `flush`, `message_receipt_cbk` | librdkafka's queue and delivery reports, the cache (through the callback) |
| recovery, `client/for_go.cpp` | directories under `topic_cache/` | `recover`, `re_send` | topic databases, Producer |
| topic database, `client/opdb.h`, `opdb2.cpp` | an ordered map on disk | put, delete, get, first key, cursor | LevelDB, unsynced |
| Consumer, `client/Consumer.cpp` | topics with requested offset, probed ends, mutex `mx` | `add_consume_topic`, `get_eof`, `start_consumer`, two callbacks | librdkafka's fetcher |
| librdkafka (vendored, `kfkcsrc/`) | producer queue, report queue; per partition: versions, fetch state, offset query, fetch, queues | main thread, broker threads | Kafka |
| Logger, `client/z_hglog.cpp` | two queues, the open file, month directory | `InitLogger`, `WriteLog`, `Run` | clock, file system |

What makes it hard: application threads interleave at every database call without
a lock; the delivery callback runs inside whichever call polls and deletes by
number; the process can die between any two writes, and writes are not synced; the
consumer starts every partition twice and relies on version barriers to tell the
two apart; requests fail, answers are late. `PROJECT.json` lists the hazards with
the line where each bites and the properties that would notice.

## Modules

**`CachedProducer`** models the send path, Producer, recovery and the topic
database together. A thread's `pc` and `job` are the position and the arguments of
the call it is in. One action is one call into LevelDB or librdkafka:

| code | actions |
|---|---|
| `send_msg_with_cache` | `CallCached` (with `get_db`), `GetCounter`, `PutMsg`, `PutNext`, `TrimTest`/`TrimDelete` (the while loop), then the send |
| `Producer::send_msg` | `SendNothing` (early returns), `Produce`, `ProduceFails` (queue full), `Poll`, the callbacks, `PollReturn`; `mx` is held from `Produce` to `PollReturn` |
| `message_receipt_cbk`, `send_msg_callback` | `AckConfirmed`, `AckIgnored` |
| `flush` | `CallFlush`, `Poll`, callbacks, `FlushReturn`, without `mx` |
| `recover`, `re_send` | `CallRecover`, `ReSend` per topic, `RecoverReturn` |
| failing database calls | `GetCounterFails`, `PutFails`, `TrimDeleteFails`; `TrimAbort` is the failed assertion of `SeekToFirst` and `key()` on an empty database |
| Kafka and librdkafka's threads | `BrokerPersists`, `ReportSuccess`, `ReportError` |
| the end of the process | `Crash`: threads, queues and reports vanish, each topic keeps one of its `surviving` databases; `TrimAbort` ends it in the same way. Every thread is then `"down"` until `Restart` |

A message is a model value, submitted once. Keys are numbers: the 20-digit format
makes LevelDB's order the order of numbers, and the counter's key sorts after them.
The two conversions that are not the identity are kept: `OffsetOf` (what `atol`
reads from a key cut to 255 bytes, or from the counter's key) and `AckedKey` (a
missing key reads as 0). `surviving` holds, for a machine crash, every version of
the database since the last crash; for a process crash, only the current one.

**`Outbox`** is the promise as a specification of its own: accept, confirm, clear a
confirmed message, evict one that the window has passed. **`CachedOutbox`** maps
`CachedProducer` onto it. **`CachedInvariants`** holds the inductive invariant.

**`Consumer`** models `Consumer.cpp` and the part of librdkafka that it depends on.
`tp[t]` is librdkafka's partition: `ver` is `rktp_version` (counted up by
`rd_kafka_consume_start`), `opver` and `fver` are `rktp_op_version` and
`rktp_fetch_version`, `next`, `last`, `fetch`, `query` and `ls` the offsets of the
same names; logical offsets keep their numbers (-1, -1001, -2000 - n). The calling
thread runs `Lock`, `ProbeStart`, `Probe`, `ProbeCheck`, `StartTopic`, `Consume`;
the main thread `ServeStart`, `QueryTimer`, `OffsetReply`, `OffsetError`; a broker
thread `Decide`, `Fetch`, `FetchReply`, `FetchFails` (the request fails) and
`FetchError` (the reply is an error). A broker thread that follows a new barrier also
purges the outdated events at the front of the fetch queue (`Purged`); what is behind
them is left to the filter of the version (`Live`). Answers of the broker are
delayed: an offset query or a fetch returns some end of the log between the one
when it was sent and the one when it is handled. librdkafka sends one fetch for all
partitions of a broker; the model sends one per partition, which allows more orders.

**`Logger`** models `z_hglog.cpp`: `WriteLog` queues a line, and `Run` is cut where
it reads the clock or the file system (`Swap`, `ReadClock`, `CheckMonth`,
`OpenFile`/`OpenFails`, `WriteLine`, or `Echo` on the console). A small calendar
gives seconds, days and months; somebody may remove the directories, and `mkdir`, `open`
and `write` may fail. A file that cannot be opened leaves its line in the queue. A write
that fails is not noticed: the stream stays `bad` until the next `open`, and its lines
are removed from the queue all the same (`lost`; part of such a line may still be in the
file, which the model leaves out). Sizes are in lines.

`MC*` modules name the model values and sets of the `.cfg` files. Definitions
commented "variant" are faulty versions of the definition after them, kept to show
that a property notices the fault.

## Runs

Runs that pass:

| run | instance | what it shows |
|---|---|---|
| `single_caller` | one caller of the cache, a second thread that flushes, registers and recovers; 4 messages, window 1, queue 2, deletions fail, process crashes | `Retained`, `AckMatches`, `WindowTrimmed`, `TrimSparesCounter`, `TypeOK`, and the refinement `ImplementsOutbox` |
| `mixed` | a cached and a plain topic, an empty body, window 0, queue 1, deletions that fail but not for ever; the process is not killed | `Retained`, `AckMatches` across topics that share the producer; `CallsReturn` |
| `power_loss` | machine crashes, 3 messages, window 0, deletions fail | `AckMatches`, `WindowTrimmed` although numbers are reused |
| `faulty` | two callers, queue of 1, window 0, failing reads and writes; the application keeps flushing | `ConfirmedCleared`; `CallsEnd`, for here the abort is reachable |
| `consumer_faulty` | one topic, requests 0 to 3, log up to 3, two threads, unknown leader, failing offset queries and fetches | `InSequence`, `StartsWhereAsked`, `TailSkipsOld`, `TypeOK` |
| `consumer_live` | two topics with logs up to 2 and 1, one probe, no errors | `InSequence`, `ProbeEnds`, `AllDelivered` |
| `logger` | to files or to the console, 4 lines, limit 1, files of 2 lines, two failures or removals, a calendar that wraps | `Conserved`, `LossBounded`, `Bounded`, `DatedFile`, `FiledByMonth`, `TypeOK`, `Drained` |

Runs that find a disagreement with what the repository says:

| run | what happens |
|---|---|
| `two_callers` | two callers on one topic take the same number and one message overwrites the other |
| `plain_sends` | the report of a `send_msg` deletes cached message 0 of the topic |
| `recover` | `recover` sends nothing: its iterator is never positioned |
| `errors_stay` | an error event is passed to Go as a message, against rdkafka.h: a failed fetch with the error text and a fetch position, a failed offset query with no text and a logical offset |
| `thrown_away` | a line whose file cannot be opened stays in the queue and is tried again, against the comment at `z_hglog.cpp:156` |

**Bounds.** Window and queue are 0 to 2 wide so that trimming, a full queue and
reuse of numbers happen within three or four messages; the code's 50000 and 100000
differ only in how long that takes. Two threads suffice for the races, since each
involves two calls. The bounds `MaxLog`, `MaxErrors`, `MaxLines`, `MaxFaults` and
`MaxTime` cut off what grows for ever. `MaxErrors` is the number of error events that
wait in a fetch queue at a time, 2 so that one can be behind another; `MaxFaults` is 2 so
that a failed write and a failed open, or an open and the `mkdir` after it, come together. A log of 3 has an offset before, at and after
the probed end, and the logger's calendar of 2 days, 2 months and 2 seconds a day
wraps around a year within `MaxTime`. Symmetry is over message bodies, in runs
without liveness only.

**Deadlock** is checked except in the logger's run, which stops when the bounded
number of lines is written and the bounded clock has run out.

**Fairness.** `UpSpec` of `CachedProducer` says that nobody kills the process and that a
thread inside a call keeps running, which covers `rd_kafka_poll` because of its timeout;
nothing is assumed of Kafka, of the next call or of a restart. Two hypotheses are added
where a property needs them:

- `RetrySpec` (`mixed`): a deletion that the trim loop tries again and again succeeds at
  last. The code does not see to that. The loop at `for_go.cpp:230` has no other way out,
  so a deletion that keeps failing keeps the caller in it for ever, and `CallsReturn` is
  false without the hypothesis.
- `FlushingSpec` (`faulty`): the application keeps calling `flush` (strong fairness, since
  the calling thread may be busy each time).

`Consumer` assumes that the thread in `start_consumer` and librdkafka's threads run and
that a broker answers; nothing of messages to come. `Logger` assumes that the logging
thread is scheduled; the bound on faults is, for `Drained`, the assumption that failures
stop.

## Proofs

TLAPS proves, for every value of the constants:

| theorem | statement | hypotheses |
|---|---|---|
| `TypeCorrect` | `[]TypeOK` | none |
| `Inductive` | `[]IInv` | `Disciplined` |
| `AcksMatch` | `[]AckMatches` | `Disciplined` |
| `TrimLeavesWindow` | `[]WindowTrimmed` | `Disciplined`, keys fit in `ktmp` |
| `TrimFindsMessage` | `[]TrimSparesCounter` | `Disciplined` |
| `MessagesRetained` | `[]Retained` | `Disciplined`, no machine crash |
| `SendPathImplementsOutbox` | `ImplementsOutbox` | `Disciplined`, no machine crash |
| `MemoryBounded` | `[]Bounded` (logger) | none |
| `LinesAreDated` | `[]DatedFile` (logger) | none |
| `LinesAreFiled` | `[]FiledByMonth` (logger) | none |
| `LossesBounded` | `[]LossBounded` (logger) | none |

`Disciplined` is what an application has to respect for the promise to hold: a
topic is either sent to without the cache or by a single caller of
`send_msg_with_cache`, and reads and writes of the database succeed. The runs
`two_callers` and `plain_sends` show why the first two parts are needed; the third is
because a failed read of the counter is taken for a missing one and numbering starts
again at 0. Crashes and restarts are part of every theorem.

*The send path.* `AckMatches` is not inductive: it says nothing of the number a
caller is about to write over. `IInv` adds, for each call, how its number relates to
the counter and the database at each step (`CallsOK`); for every database that may
survive, that at most one message is ahead of the counter (`StoresOK`); and for
every report in flight, that its number is below the counter and below the number of
any call that is writing (`UnservedOK`). So a number in flight is not handed out
again: numbers are reused only after a crash, and a crash takes the reports with it.
`CachedProducerProofs` proves types and the lemmas on queues and databases,
`CachedStoreProofs`, `CachedInductiveProofs` and `CachedDeliveryProofs` the
preservation of `IInv` action by action. `Retained` additionally needs that a
success report is only made of a message Kafka has (`RecordedOK`), and the
refinement that a message is not at Kafka before its own call hands it over
(`FreshOK`); these are in `CachedSafetyProofs` and `CachedOutboxProofs`.
`TrimSparesCounter` follows from `IInv`: the message a caller has just written is in the
database for as long as the caller trims, since no report in flight has its number.

*The logger.* `Bounded` needs that `Run` swaps only when it holds no line. For
`DatedFile` the invariant is that `m_nDate` is the day of the month of the open file
and, past the check, of the line; two times less than a month apart with the same
day of the month are on the same day. For `FiledByMonth` the invariant (`DirInv`) is that
`m_nMonth` is the month of `m_sLogDir`, that the open file is in `m_sLogDir` unless
`bMonthChange` or a closed file forces a new one, and that no directory is ahead of the
clock. For `LossBounded` (`LossInv`), while the stream is bad its lost lines are at most
`m_nLogFileSize`, and those of earlier streams are paid for by their own failures.

**Only model-checked.** Liveness (`CallsReturn`, `CallsEnd`, `ConfirmedCleared`,
`ProbeEnds`, `AllDelivered`, `Drained`), which is beyond the prover; all of `Consumer`; and
`Conserved`, whose filtered sequence would need induction.

## Reading the results

- The cache keeps its promise for disciplined applications, through crashes of the
  process. After a loss of power messages may be missing from it, but no
  confirmation removes another message.
- `StartsWhereAsked` covers offsets that are in the log when `start_consumer` is
  called. An offset just behind the end may be skipped when it is written while the
  consumer starts, since the start at the tail asks for the end again; so is any
  offset of a topic another thread adds between the probe and the start, which always
  begins at its tail (`TailSkipsOld`).
- `CallsReturn` holds for disciplined applications. Two callers on a topic, or failing reads
  and writes, can empty the database under the trim loop, and the assertion on it ends the
  process with every call in it; `CallsEnd` says that nothing else keeps a call. Neither
  covers a deletion that never succeeds, nor a topic name so long that its keys do not fit
  in `ktmp[256]` (`KeyCut` > 0), where the loop never gets past its first key; nor can the
  model show that a thread starves at `mx`, which `std::mutex` does not exclude: each body
  is sent once, so there are only finitely many senders to wait for.
- `ProbeEnds` has a condition for a reason: one empty topic keeps `start_consumer`
  waiting for all of them.
- `DatedFile` and `FiledByMonth` exclude files that stayed open until the same day of a
  later month, or the same month of a later year, came round (a file opened while the
  month changed, or a year of silence): the code compares `tm_mday` and `tm_mon` only.
- A write of the logger that fails loses at most the lines of one file (`LossBounded`),
  although nobody asks the stream how it is.
- `ConfirmedCleared` needs an application that keeps calling: a report that comes
  after the one second that `send_msg` waits in `rd_kafka_poll` is served by the next call, and one that the process does not live to serve is gone.
- `start_consumer` starts each partition a second time without stopping it, which
  `rdkafka.h` asks callers not to do; `InSequence` shows that the version barriers
  make it harmless here.
- A line that meets a failed open is tried again and written in its turn (`Conserved`);
  the comment at `z_hglog.cpp:156` says that it is thrown away (`thrown_away`). `Drained`
  holds once failures stop: an open that keeps failing (`EACCES`, `EMFILE`, `ENOSPC`) is
  tried for ever, and lines queued meanwhile are dropped at the limit.
- On the console the logger prints its first line for ever, because the loop goes on
  without removing it; memory stays bounded (`Bounded`), and `Drained` is a promise of
  file mode only.

## Not modelled

- Retention (`OFFSET_OUT_OF_RANGE`), logical offsets requested by the application
  (a negative one ends the process or starts at an end of the log), consumer
  groups, replicas, producer retries inside librdkafka.
- `SetLogLevel`, `DestroyLogger`, two concurrent first calls of `InitLogger`, whose
  two threads would race on an unlocked list.
- The one-byte overrun of `id[20]`; memory layout is below the model.
- `opdb.cpp` with LMDB (not in the build), the `write_leveldb` tool, the manual test
  drivers, and LevelDB and librdkafka beyond what the client relies on.

## Plan

1. Consumer: retention and resets, then an inductive invariant for `InSequence`
   (versions in the queues never exceed `ver`, offsets of one version are
   consecutive up to `fetch`), proved with TLAPS.
2. An abstract specification of a consumer (a start offset, then consecutive
   offsets) that `Consumer` implements.
3. The registries `get_producer` and `get_db` with their locks, the order of the
   locks, and the flag that is set before the producer exists.
4. librdkafka's producer below the report: batches, retries and time-outs, and what
   they mean for duplicates and order at the broker.
5. `recover` with a positioned iterator as an alternative: which of the properties
   its keyless sends would break.
