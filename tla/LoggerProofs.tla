---------------------------- MODULE LoggerProofs ----------------------------
(***************************************************************************)
(* For every limit, every calendar and any number of failing calls: the    *)
(* logger's memory is bounded, a line goes to the file of its day in the   *)
(* directory of its month, and a failed write costs at most a file.        *)
(***************************************************************************)
EXTENDS Logger, FiniteSetTheorems, TLAPS

\* Run takes the queue only when it has written the last one out.
QueueInv ==
  /\ queue \in Seq(Int) /\ out \in Seq(Int)
  /\ accepted \in Int
  /\ pc \in {"swap", "line", "month", "file", "write"}
  /\ pc = "swap" => out = << >>
  /\ pc # "swap" => out # << >>
  /\ Bounded

\* A queue is never longer than the limit and one line, whatever is put.
LEMMA PutBound ==
  ASSUME NEW q \in Seq(Int), NEW l \in Int, Len(q) <= Limit + 1
  PROVE  Put(q, l) \in Seq(Int) /\ Len(Put(q, l)) <= Limit + 1
<1>1. Limit \in Nat
  BY LoggerAssumption
<1>2. CASE Len(q) > Limit
  <2>1. Tail(q) \in Seq(Int) /\ Len(Tail(q)) = Len(q) - 1
    BY <1>1, <1>2
  <2>. QED
    BY <1>1, <1>2, <2>1 DEF Put
<1>3. CASE ~(Len(q) > Limit)
  BY <1>1, <1>3 DEF Put
<1>. QED
  BY <1>2, <1>3

\* The empty sequence is the one of length 0.
LEMMA EmptySequence ==
  ASSUME NEW s \in Seq(Int)
  PROVE  s = << >> <=> Len(s) = 0
OBVIOUS

\* The lines in memory are bounded, however long the logging thread is held
\* up and whether it writes to a file or to the console.
THEOREM MemoryBounded == Spec => []Bounded
<1>1. Init => QueueInv
  <2>1. Limit \in Nat
    BY LoggerAssumption
  <2>. QED
    BY <2>1 DEF Init, QueueInv, Bounded
<1>2. QueueInv /\ [Next]_vars => QueueInv'
  <2>. SUFFICES ASSUME QueueInv, [Next]_vars PROVE QueueInv'
    OBVIOUS
  <2>. USE DEF QueueInv
  <2>1. CASE WriteLog
    <3>1. accepted' \in Int /\ queue' = Put(queue, accepted')
      BY <2>1 DEF WriteLog
    <3>2. queue' \in Seq(Int) /\ Len(queue') <= Limit + 1
      BY <3>1, PutBound DEF Bounded
    <3>. QED
      BY <2>1, <3>1, <3>2 DEF WriteLog, run, Bounded
  <2>2. CASE Swap
    BY <2>2, LoggerAssumption DEF Swap, history, Bounded
  <2>3. CASE WriteLine
    <3>1. out # << >>
      BY <2>3 DEF WriteLine
    <3>2. Tail(out) \in Seq(Int) /\ Len(Tail(out)) = Len(out) - 1
      BY <3>1
    <3>3. Len(out) = 1 <=> Tail(out) = << >>
      <4>1. Tail(out) = << >> <=> Len(Tail(out)) = 0
        BY <3>2, EmptySequence
      <4>2. Len(out) \in Nat /\ (Len(out) = 1 <=> Len(Tail(out)) = 0)
        BY <3>2
      <4>. QED
        BY <4>1, <4>2, Zenon
    <3>4. out' = Tail(out) /\ UNCHANGED <<queue, accepted>> /\ pc' = IF Len(out) = 1 THEN "swap" ELSE "line"
      BY <2>3 DEF WriteLine, PopLine
    <3>5. Len(out') <= Limit + 1 /\ Len(queue') <= Limit + 1
      BY <3>2, <3>4, LoggerAssumption DEF Bounded
    <3>6. pc' = "swap" => out' = << >>
      BY <3>3, <3>4
    <3>7. pc' # "swap" => out' # << >>
      BY <3>3, <3>4
    <3>8. out' \in Seq(Int) /\ pc' \in {"swap", "line"}
      BY <3>2, <3>4
    <3>. QED
      BY <3>4, <3>5, <3>6, <3>7, <3>8 DEF Bounded
  <2>4. CASE ReadClock \/ CheckMonth \/ OpenFile \/ OpenFails
    BY <2>4 DEF ReadClock, CheckMonth, OpenFile, OpenFails, run, history, Bounded
  <2>5. CASE (\E tofile \in BOOLEAN : InitLogger(tofile)) \/ Tick \/ RemoveDirs \/ Echo \/ UNCHANGED vars
    BY <2>5 DEF InitLogger, Tick, RemoveDirs, Echo, vars, run, history, Bounded
  <2>. QED
    BY <2>1, <2>2, <2>3, <2>4, <2>5 DEF Next, Run
<1>3. QueueInv => Bounded
  BY DEF QueueInv
<1>. QED
  BY <1>1, <1>2, <1>3, PTL DEF Spec

-----------------------------------------------------------------------------
\* The open file was opened at a time of the day of the month in m_nDate,
\* and past the check of the file it is the day Run works with.
FileInv ==
  /\ clock \in Nat /\ now \in Nat /\ now <= clock
  /\ file \in Nat \cup {NoFile}
  /\ file # NoFile => file <= now /\ date = MDay(file)
  /\ pc = "write" => file # NoFile /\ date = MDay(now)
  /\ written = [i \in 1 .. Len(written) |-> written[i]] /\ Len(written) \in Nat
  /\ DatedFile

\* Days less than a month apart are told apart by their day of the month.
LEMMA SameDay ==
  ASSUME NEW a \in Nat, NEW b \in Nat, NEW d \in Nat \ {0},
         a <= b, b - a < d, a % d = b % d
  PROVE  a = b
<1>. DEFINE p == a \div d
            q == b \div d
<1>1. p \in Int /\ q \in Int /\ a = d * p + (a % d) /\ b = d * q + (b % d)
      /\ a % d \in Int
  OBVIOUS
<1>. HIDE DEF p, q
<1>2. b - a = d * (q - p)
  BY <1>1
<1>3. q - p \in Int /\ (q - p >= 1 => d * (q - p) >= d) /\ (q - p <= -1 => d * (q - p) <= -d)
  BY <1>1
<1>4. q - p = 0
  BY <1>2, <1>3
<1>. QED
  BY <1>2, <1>4

\* The calendar counts days, and an earlier time is not a later day.
LEMMA Days ==
  ASSUME NEW a \in Nat, NEW b \in Nat, a <= b
  PROVE  DayCount(a) \in Nat /\ DayCount(b) \in Nat /\ DayCount(a) <= DayCount(b)
<1>1. SecsPerDay \in Nat \ {0}
  BY LoggerAssumption
<1>. QED
  BY <1>1 DEF DayCount

\* The file that is open suits the day when its day of the month does.
LEMMA OpenFileSuits ==
  ASSUME NEW f \in Nat, NEW n \in Nat, f <= n, MDay(f) = MDay(n),
         DayCount(n) - DayCount(f) < DaysPerMonth
  PROVE  DayCount(n) = DayCount(f)
<1>1. DaysPerMonth \in Nat \ {0}
  BY LoggerAssumption
<1>2. DayCount(f) \in Nat /\ DayCount(n) \in Nat /\ DayCount(f) <= DayCount(n)
  BY Days
<1>3. DayCount(f) % DaysPerMonth = DayCount(n) % DaysPerMonth
  BY DEF MDay
<1>. QED
  BY <1>1, <1>2, <1>3, SameDay

\* The logger puts a line into the file of its day, for every calendar,
\* file size and interleaving with the clock.
THEOREM LinesAreDated == Spec => []DatedFile
<1>1. Init => FileInv
  BY DEF Init, FileInv, DatedFile, NoFile
<1>2. FileInv /\ [Next]_vars => FileInv'
  <2>. SUFFICES ASSUME FileInv, [Next]_vars PROVE FileInv'
    OBVIOUS
  <2>1. CASE WriteLine
    <3>. DEFINE w == [line |-> Head(out), file |-> file, dir |-> home, at |-> now]
    <3>1. pc = "write" /\ pc' # "write" /\ UNCHANGED <<clock, now, file, date>>
      BY <2>1 DEF WriteLine, PopLine
    <3>0. CASE written' = written
      BY <3>0, <3>1 DEF FileInv, DatedFile
    <3>a. CASE written' = Append(written, w)
      <4>2. file \in Nat /\ now \in Nat /\ file <= now /\ MDay(file) = MDay(now)
        BY <3>1 DEF FileInv
      <4>3. DayCount(now) - DayCount(file) < DaysPerMonth => DayCount(now) = DayCount(file)
        BY <4>2, OpenFileSuits
      <4>4. /\ DOMAIN written' = DOMAIN written \cup {Len(written) + 1}
            /\ \A i \in DOMAIN written : written'[i] = written[i]
            /\ written'[Len(written) + 1] = w
        BY <3>1, <3>a DEF FileInv
      <4>5. DatedFile'
        BY <4>3, <4>4 DEF FileInv, DatedFile
      <4>. QED
        BY <3>1, <3>a, <4>5 DEF FileInv
    <3>. QED
      BY <2>1, <3>0, <3>a DEF WriteLine
  <2>2. CASE OpenFile
    <3>1. CASE NeedsFile
      BY <2>2, <3>1 DEF OpenFile, FileInv, world, history, DatedFile, NoFile
    <3>2. CASE ~NeedsFile
      BY <2>2, <3>2 DEF OpenFile, NeedsFile, FileInv, stream, world, history, DatedFile
    <3>. QED
      BY <3>1, <3>2
  <2>3. CASE ReadClock
    BY <2>3 DEF ReadClock, FileInv, stream, world, history, DatedFile
  <2>4. CASE OpenFails
    BY <2>4 DEF OpenFails, FileInv, history, DatedFile
  <2>5. CASE (\E tofile \in BOOLEAN : InitLogger(tofile)) \/ WriteLog \/ Swap \/ CheckMonth \/ RemoveDirs \/ UNCHANGED vars
    <3>1. /\ UNCHANGED <<clock, now, file, date, written>>
          /\ pc' = "write" => pc = "write"
      BY <2>5 DEF InitLogger, WriteLog, Swap, CheckMonth, RemoveDirs, vars, run, stream, world, history
    <3>. QED
      BY <3>1 DEF FileInv, DatedFile
  <2>7. CASE Tick
    BY <2>7 DEF Tick, run, stream, history, FileInv, DatedFile
  <2>6. CASE Echo
    <3>1. UNCHANGED <<clock, now, file, date, pc, written>>
      BY <2>6 DEF Echo, run, stream, world
    <3>. QED
      BY <3>1 DEF FileInv, DatedFile
  <2>. QED
    BY <2>1, <2>2, <2>3, <2>4, <2>5, <2>6, <2>7 DEF Next, Run
<1>3. FileInv => DatedFile
  BY DEF FileInv
<1>. QED
  BY <1>1, <1>2, <1>3, PTL DEF Spec

-----------------------------------------------------------------------------
\* m_sLogDir is the directory of m_nMonth and not of the future; past the
\* check of the month it suits the line, and the open file lies in it unless
\* it is about to be closed for a change of month.
Suits(m, d) == m - d < MonthsPerYear => m <= d

DirInv ==
  /\ clock \in Nat /\ now \in Nat /\ now <= clock
  /\ dir \in Nat /\ dir <= MonthCount(clock) /\ month = dir % MonthsPerYear
  /\ pc = "month" => dir <= MonthCount(now)
  /\ pc \in {"file", "write"} => Suits(MonthCount(now), dir)
  /\ pc = "write" => file # NoFile
  /\ ~running => file = NoFile /\ pc = "swap"
  /\ file # NoFile /\ (pc = "file" => ~change) => home = dir
  /\ written = [i \in 1 .. Len(written) |-> written[i]] /\ Len(written) \in Nat
  /\ FiledByMonth

\* The calendar counts months, and an earlier time is not a later month.
LEMMA MonthOrder ==
  ASSUME NEW a \in Nat, NEW b \in Nat, a <= b
  PROVE  MonthCount(a) \in Nat /\ MonthCount(b) \in Nat /\ MonthCount(a) <= MonthCount(b)
<1>1. DaysPerMonth \in Nat \ {0}
  BY LoggerAssumption
<1>2. DayCount(a) \in Nat /\ DayCount(b) \in Nat /\ DayCount(a) <= DayCount(b)
  BY Days
<1>. QED
  BY <1>1, <1>2 DEF MonthCount

\* A directory whose month of the year is the line's suits the line.
LEMMA SameMonthSuits ==
  ASSUME NEW n \in Nat, NEW d \in Nat, d <= MonthCount(n), d % MonthsPerYear = Mon(n)
  PROVE  Suits(MonthCount(n), d)
<1>1. MonthsPerYear \in Nat \ {0} /\ MonthCount(n) \in Nat
  BY LoggerAssumption, MonthOrder
<1>2. MonthCount(n) % MonthsPerYear = d % MonthsPerYear
  BY DEF Mon
<1>3. MonthCount(n) - d < MonthsPerYear => d = MonthCount(n)
  BY <1>1, <1>2, SameDay
<1>. QED
  BY <1>1, <1>3 DEF Suits

\* What CreateMonthDir leaves in m_sLogDir and m_nMonth.
LEMMA NewMonthDir ==
  ASSUME clock \in Nat, NEW made \in BOOLEAN, CreateMonthDir(made)
  PROVE  dir' \in Nat /\ dir' = MonthCount(clock) /\ month' = dir' % MonthsPerYear
<1>1. MonthCount(clock) \in Nat
  BY MonthOrder
<1>. QED
  BY <1>1 DEF CreateMonthDir, Mon

\* A line goes to the directory of its month, for every calendar and
\* interleaving with the clock, whichever calls fail.
THEOREM LinesAreFiled == Spec => []FiledByMonth
<1>1. Init => DirInv
  <2>. SUFFICES ASSUME Init PROVE DirInv
    OBVIOUS
  <2>1. MonthsPerYear \in Nat \ {0} /\ MonthCount(0) \in Nat
    BY LoggerAssumption, MonthOrder
  <2>. QED
    BY <2>1 DEF Init, DirInv, FiledByMonth
<1>2. DirInv /\ [Next]_vars => DirInv'
  <2>. SUFFICES ASSUME DirInv, [Next]_vars PROVE DirInv'
    OBVIOUS
  <2>0. MonthCount(now) \in Nat /\ MonthCount(clock) \in Nat /\ MonthCount(now) <= MonthCount(clock)
    BY MonthOrder DEF DirInv
  <2>1. CASE WriteLine
    <3>. DEFINE w == [line |-> Head(out), file |-> file, dir |-> home, at |-> now]
    <3>1. /\ pc = "write" /\ pc' \in {"swap", "line"}
          /\ UNCHANGED <<running, clock, now, file, home, dir, month>>
      BY <2>1 DEF WriteLine, PopLine
    <3>2. home = dir /\ Suits(MonthCount(now), home)
      BY <3>1 DEF DirInv
    <3>3. CASE written' = written
      BY <3>1, <3>2, <3>3 DEF DirInv, FiledByMonth
    <3>4. CASE written' = Append(written, w)
      <4>1. /\ DOMAIN written' = DOMAIN written \cup {Len(written) + 1}
            /\ \A i \in DOMAIN written : written'[i] = written[i]
            /\ written'[Len(written) + 1] = w
            /\ written' = [i \in 1 .. Len(written') |-> written'[i]] /\ Len(written') \in Nat
        BY <3>4 DEF DirInv
      <4>2. w.at = now /\ w.dir = home
        OBVIOUS
      <4>. HIDE DEF w
      <4>3. FiledByMonth'
        BY <3>2, <4>1, <4>2 DEF DirInv, FiledByMonth, Suits
      <4>. QED
        BY <3>1, <3>2, <4>1, <4>3 DEF DirInv
    <3>. QED
      BY <2>1, <3>3, <3>4 DEF WriteLine
  <2>2. CASE OpenFile
    <3>1. /\ pc = "file" /\ pc' = "write" /\ UNCHANGED <<running, clock, now, dir, month, written>>
      BY <2>2 DEF OpenFile, world, history
    <3>2. file' # NoFile /\ home' = dir
      <4>1. CASE NeedsFile
        BY <2>2, <4>1 DEF OpenFile, DirInv, NoFile
      <4>2. CASE ~NeedsFile
        BY <2>2, <3>1, <4>2 DEF OpenFile, NeedsFile, DirInv, stream
      <4>. QED
        BY <4>1, <4>2
    <3>. QED
      BY <3>1, <3>2 DEF DirInv, FiledByMonth
  <2>3. CASE ReadClock
    <3>1. /\ pc = "line" /\ pc' = "month" /\ now' = clock
          /\ UNCHANGED <<running, clock, file, home, dir, month, written>>
      BY <2>3 DEF ReadClock, stream, world, history
    <3>. QED
      BY <3>1 DEF DirInv, FiledByMonth
  <2>4. CASE CheckMonth
    <3>1. /\ pc = "month" /\ pc' = "file" /\ change' = (Mon(now) # month)
          /\ UNCHANGED <<running, clock, now, file, home, written>>
      BY <2>4 DEF CheckMonth, stream, history
    <3>2. CASE Mon(now) # month
      <4>1. PICK made \in BOOLEAN : CreateMonthDir(made)
        BY <2>4, <3>2 DEF CheckMonth
      <4>2. dir' \in Nat /\ dir' = MonthCount(clock) /\ month' = dir' % MonthsPerYear
        BY <4>1, NewMonthDir DEF DirInv
      <4>3. Suits(MonthCount(now), dir')
        BY <2>0, <4>2 DEF Suits
      <4>4. /\ pc = "month" /\ pc' = "file" /\ change'
            /\ UNCHANGED <<running, clock, now, file, home, written>>
        BY <3>1, <3>2, Zenon
      <4>5. MonthCount(clock) <= MonthCount(clock')
        BY <2>0, <4>4
      <4>6. FiledByMonth'
        BY <4>4 DEF DirInv, FiledByMonth
      <4>7. file' # NoFile /\ (pc' = "file" => ~change') => home' = dir'
        BY <4>4, Zenon
      <4>. QED
        BY <4>2, <4>3, <4>4, <4>5, <4>6, <4>7 DEF DirInv
    <3>3. CASE Mon(now) = month
      <4>1. UNCHANGED <<dir, month>>
        BY <2>4, <3>3 DEF CheckMonth
      <4>2. Suits(MonthCount(now), dir)
        BY <3>1, <3>3, SameMonthSuits DEF DirInv
      <4>. QED
        BY <3>1, <4>1, <4>2 DEF DirInv, FiledByMonth
    <3>. QED
      BY <3>2, <3>3
  <2>5. CASE OpenFails
    <3>1. /\ pc = "file" /\ pc' = "line" /\ file' = NoFile
          /\ UNCHANGED <<running, clock, now, written>>
      BY <2>5 DEF OpenFails, history
    <3>2. dir' \in Nat /\ dir' <= MonthCount(clock) /\ month' = dir' % MonthsPerYear
      BY <2>0, <2>5, NewMonthDir DEF OpenFails, DirInv
    <3>. QED
      BY <3>1, <3>2 DEF DirInv, FiledByMonth
  <2>6. CASE \E tofile \in BOOLEAN : InitLogger(tofile)
    <3>1. /\ ~running /\ UNCHANGED <<clock, now, file, home, written, pc>>
      BY <2>6 DEF InitLogger, stream, history
    <3>2. dir' \in Nat /\ dir' = MonthCount(clock) /\ month' = dir' % MonthsPerYear /\ running'
      BY <2>6, NewMonthDir DEF InitLogger, DirInv
    <3>. QED
      BY <2>0, <3>1, <3>2 DEF DirInv, FiledByMonth
  <2>7. CASE Tick
    <3>1. clock' = clock + 1 /\ UNCHANGED <<running, now, file, home, dir, month, change, pc, written>>
      BY <2>7 DEF Tick, run, stream, history
    <3>2. MonthCount(clock') \in Nat /\ MonthCount(clock) <= MonthCount(clock')
      BY <3>1, MonthOrder DEF DirInv
    <3>. QED
      BY <2>0, <3>1, <3>2 DEF DirInv, FiledByMonth
  <2>8. CASE Swap \/ WriteLog \/ Echo \/ RemoveDirs \/ UNCHANGED vars
    <3>1. /\ UNCHANGED <<running, clock, now, file, home, dir, month, change, written>>
          /\ pc' = pc \/ (pc' = "line" /\ running)
      BY <2>8 DEF Swap, WriteLog, Echo, RemoveDirs, vars, run, stream, world, history
    <3>2. pc = "file" => pc' = "file"
      BY <2>8 DEF Swap, WriteLog, Echo, RemoveDirs, vars, run
    <3>. QED
      BY <3>1, <3>2 DEF DirInv, FiledByMonth
  <2>. QED
    BY <2>1, <2>2, <2>3, <2>4, <2>5, <2>6, <2>7, <2>8 DEF Next, Run
<1>3. DirInv => FiledByMonth
  BY DEF DirInv
<1>. QED
  BY <1>1, <1>2, <1>3, PTL DEF Spec

-----------------------------------------------------------------------------
\* The lines lost so far are paid for: a file's worth for every failure
\* before the one that broke the open file, and for that one what has been
\* counted in the file's size.
LossInv ==
  /\ faults \in Nat /\ size \in 0 .. MaxFileSize /\ bad \in BOOLEAN
  /\ pc = "write" => size + 1 <= MaxFileSize
  /\ ~running => pc = "swap" /\ ~bad
  /\ IsFiniteSet(lost)
  /\ bad => faults > 0 /\ Cardinality(lost) <= (faults - 1) * MaxFileSize + size
  /\ ~bad => Cardinality(lost) <= faults * MaxFileSize

\* One failure more pays for one file more.
LEMMA FilePerFault ==
  ASSUME NEW f \in Nat
  PROVE  /\ f * MaxFileSize \in Nat
         /\ (f + 1) * MaxFileSize = f * MaxFileSize + MaxFileSize
<1>1. MaxFileSize \in Nat
  BY LoggerAssumption
<1>. QED
  BY <1>1

\* The lines already lost stay paid for when more calls fail.
LEMMA PaidFor ==
  ASSUME LossInv
  PROVE  /\ Cardinality(lost) \in Nat
         /\ Cardinality(lost) <= faults * MaxFileSize
         /\ faults * MaxFileSize \in Nat
         /\ (faults + 1) * MaxFileSize = faults * MaxFileSize + MaxFileSize
         /\ bad => /\ faults > 0 /\ (faults - 1) * MaxFileSize \in Nat
                   /\ faults * MaxFileSize = (faults - 1) * MaxFileSize + MaxFileSize
<1>1. MaxFileSize \in Nat /\ faults \in Nat /\ size \in Nat /\ size <= MaxFileSize
  BY LoggerAssumption DEF LossInv
<1>2. Cardinality(lost) \in Nat
  BY FS_CardinalityType DEF LossInv
<1>3. faults * MaxFileSize \in Nat /\ (faults + 1) * MaxFileSize = faults * MaxFileSize + MaxFileSize
  BY <1>1, FilePerFault
<1>4. ASSUME bad
      PROVE  /\ faults > 0 /\ (faults - 1) * MaxFileSize \in Nat
             /\ faults * MaxFileSize = (faults - 1) * MaxFileSize + MaxFileSize
  <2>1. faults > 0
    BY <1>4 DEF LossInv
  <2>2. faults - 1 \in Nat /\ (faults - 1) + 1 = faults
    BY <1>1, <2>1
  <2>3. (faults - 1) * MaxFileSize \in Nat
        /\ ((faults - 1) + 1) * MaxFileSize = (faults - 1) * MaxFileSize + MaxFileSize
    BY <2>2, FilePerFault
  <2>. QED
    BY <2>1, <2>2, <2>3
<1>5. CASE bad
  <2>1. Cardinality(lost) <= (faults - 1) * MaxFileSize + size
    BY <1>5 DEF LossInv
  <2>2. Cardinality(lost) <= faults * MaxFileSize
    BY <1>1, <1>2, <1>4, <1>5, <2>1
  <2>. QED
    BY <1>2, <1>3, <1>4, <2>2
<1>6. CASE ~bad
  <2>1. Cardinality(lost) <= faults * MaxFileSize
    BY <1>6 DEF LossInv
  <2>. QED
    BY <1>2, <1>3, <1>4, <2>1
<1>. QED
  BY <1>5, <1>6

\* Steps that lose no line, whatever fails in them.
LEMMA NothingLost ==
  ASSUME LossInv, UNCHANGED <<lost, size, bad>>, faults' = faults \/ faults' = faults + 1,
         pc' = "write" => pc = "write" \/ size + 1 <= MaxFileSize,
         running' \/ (~running /\ pc' = pc)
  PROVE  LossInv'
<1>1. /\ faults \in Nat /\ Cardinality(lost) \in Nat /\ size \in Nat /\ MaxFileSize \in Nat
      /\ Cardinality(lost) <= faults * MaxFileSize /\ faults * MaxFileSize \in Nat
      /\ (faults + 1) * MaxFileSize = faults * MaxFileSize + MaxFileSize
  BY PaidFor, LoggerAssumption DEF LossInv
<1>2. faults' \in Nat /\ Cardinality(lost) <= faults' * MaxFileSize
  <2>1. CASE faults' = faults
    BY <1>1, <2>1
  <2>2. CASE faults' = faults + 1
    BY <1>1, <2>2
  <2>. QED
    BY <2>1, <2>2
<1>3. ASSUME bad PROVE faults' > 0 /\ Cardinality(lost) <= (faults' - 1) * MaxFileSize + size
  <2>1. CASE faults' = faults
    BY <1>3, <2>1 DEF LossInv
  <2>2. CASE faults' = faults + 1
    <3>1. faults' > 0 /\ faults' - 1 = faults
      BY <1>1, <2>2
    <3>. QED
      BY <1>1, <3>1
  <2>. QED
    BY <2>1, <2>2
<1>. QED
  BY <1>2, <1>3 DEF LossInv

\* However many calls fail, the lines lost to failed writes are at most a
\* file's worth for each.
THEOREM LossesBounded == Spec => []LossBounded
<1>1. Init => LossInv
  <2>. SUFFICES ASSUME Init PROVE LossInv
    OBVIOUS
  <2>1. MaxFileSize \in Nat
    BY LoggerAssumption
  <2>2. IsFiniteSet(lost) /\ Cardinality(lost) = 0
    BY FS_EmptySet DEF Init
  <2>3. faults = 0 /\ size = 0 /\ bad = FALSE /\ pc = "swap"
    BY Zenon DEF Init
  <2>4. Cardinality(lost) <= faults * MaxFileSize /\ faults \in Nat /\ size \in 0 .. MaxFileSize
    BY <2>1, <2>2, <2>3
  <2>5. pc # "write"
    BY <2>3
  <2>. QED
    BY <2>2, <2>3, <2>4, <2>5, Zenon DEF LossInv
<1>2. LossInv /\ [Next]_vars => LossInv'
  <2>. SUFFICES ASSUME LossInv, [Next]_vars PROVE LossInv'
    OBVIOUS
  <2>0. /\ faults \in Nat /\ Cardinality(lost) \in Nat /\ size \in Nat
        /\ MaxFileSize \in Nat /\ MaxFileSize > 0 /\ faults * MaxFileSize \in Nat
        /\ Cardinality(lost) <= faults * MaxFileSize
    BY PaidFor, LoggerAssumption DEF LossInv
  <2>1. CASE WriteLine
    <3>1. PICK failed \in BOOLEAN : CountFault(failed /\ ~bad) /\ bad' = (bad \/ failed)
      BY <2>1 DEF WriteLine
    <3>2. pc = "write" /\ size' = size + 1 /\ pc' # "write" /\ running' = running
      BY <2>1 DEF WriteLine, PopLine
    <3>3. running /\ size' \in 0 .. MaxFileSize
      BY <2>0, <3>2 DEF LossInv
    <3>6. bad' \in BOOLEAN
      BY <3>1, Zenon
    <3>4. CASE bad'
      <4>1. lost' = lost \cup {Head(out)}
        BY <2>1, <3>4 DEF WriteLine
      <4>2. IsFiniteSet(lost') /\ Cardinality(lost') \in Nat /\ Cardinality(lost') <= Cardinality(lost) + 1
        <5>1. IsFiniteSet(lost)
          BY DEF LossInv
        <5>2. /\ IsFiniteSet(lost \cup {Head(out)})
              /\ \/ Cardinality(lost \cup {Head(out)}) = Cardinality(lost)
                 \/ Cardinality(lost \cup {Head(out)}) = Cardinality(lost) + 1
          BY <5>1, FS_AddElement, Zenon
        <5>. QED
          BY <2>0, <4>1, <5>2
      <4>3. faults' \in Nat /\ faults' > 0 /\ Cardinality(lost') <= (faults' - 1) * MaxFileSize + size'
        <5>1. CASE bad
          <6>1. faults' = faults
            BY <3>1, <5>1 DEF CountFault
          <6>2. faults > 0 /\ Cardinality(lost) <= (faults - 1) * MaxFileSize + size
                /\ (faults - 1) * MaxFileSize \in Nat
            BY <5>1, PaidFor DEF LossInv
          <6>. QED
            BY <2>0, <3>2, <4>2, <6>1, <6>2
        <5>2. CASE ~bad
          <6>1. faults' = faults + 1
            BY <3>1, <3>4, <5>2 DEF CountFault
          <6>2. faults' > 0 /\ faults' - 1 = faults
            BY <2>0, <6>1
          <6>. QED
            BY <2>0, <3>2, <4>2, <6>1, <6>2
        <5>. QED
          BY <5>1, <5>2
      <4>. QED
        BY <3>2, <3>3, <3>4, <3>6, <4>2, <4>3, Zenon DEF LossInv
    <3>5. CASE ~bad'
      <4>1. ~bad /\ lost' = lost /\ faults' = faults
        BY <2>1, <3>1, <3>5 DEF WriteLine, CountFault
      <4>2. IsFiniteSet(lost') /\ Cardinality(lost') <= faults' * MaxFileSize /\ faults' \in Nat
        BY <2>0, <4>1 DEF LossInv
      <4>. QED
        BY <3>2, <3>3, <3>5, <3>6, <4>2, Zenon DEF LossInv
    <3>. QED
      BY <3>4, <3>5
  <2>2. CASE OpenFile
    <3>1. UNCHANGED <<lost, faults, running>> /\ pc = "file"
      BY <2>2 DEF OpenFile, history, world
    <3>2. CASE NeedsFile
      <4>1. bad' = FALSE /\ size' = 0
        BY <2>2, <3>2 DEF OpenFile
      <4>2. size' \in 0 .. MaxFileSize /\ size' + 1 <= MaxFileSize
        BY <2>0, <4>1
      <4>3. running' /\ faults' \in Nat /\ IsFiniteSet(lost')
            /\ Cardinality(lost') <= faults' * MaxFileSize
        BY <2>0, <3>1 DEF LossInv
      <4>. QED
        BY <4>1, <4>2, <4>3, Zenon DEF LossInv
    <3>3. CASE ~NeedsFile
      <4>1. UNCHANGED <<bad, size>> /\ size + 1 <= MaxFileSize
        BY <2>0, <2>2, <3>3 DEF OpenFile, NeedsFile, stream
      <4>. QED
        BY <3>1, <4>1 DEF LossInv
    <3>. QED
      BY <3>2, <3>3
  <2>3. CASE CheckMonth \/ OpenFails
    <3>1. /\ UNCHANGED <<lost, size, bad, running>> /\ pc \in {"month", "file"} /\ pc' # "write"
          /\ faults' = faults \/ faults' = faults + 1
      BY <2>3 DEF CheckMonth, OpenFails, CountFault, stream, history
    <3>2. running
      BY <3>1 DEF LossInv
    <3>. QED
      BY <3>1, <3>2, NothingLost
  <2>4. CASE \E tofile \in BOOLEAN : InitLogger(tofile)
    <3>1. /\ UNCHANGED <<lost, bad, pc>> /\ ~running /\ running' /\ size' = 0
          /\ faults' = faults \/ faults' = faults + 1
      BY <2>4 DEF InitLogger, CountFault, stream, history
    <3>2. ~bad /\ pc = "swap" /\ faults' \in Nat
      BY <2>0, <3>1 DEF LossInv
    <3>3. (faults + 1) * MaxFileSize = faults * MaxFileSize + MaxFileSize
      BY PaidFor
    <3>4. Cardinality(lost) <= faults' * MaxFileSize
      BY <2>0, <3>1, <3>3
    <3>. QED
      BY <2>0, <3>1, <3>2, <3>4 DEF LossInv
  <2>5. CASE ReadClock \/ Tick \/ Swap \/ WriteLog \/ Echo \/ RemoveDirs \/ UNCHANGED vars
    <3>1. /\ UNCHANGED <<lost, size, bad, running>>
          /\ faults' = faults \/ faults' = faults + 1
          /\ pc' = "write" => pc = "write"
          /\ pc' = pc \/ pc \in {"line"} \/ running
      BY <2>5 DEF ReadClock, Tick, Swap, WriteLog, Echo, RemoveDirs, CountFault, vars, run, stream,
           world, history
    <3>2. running \/ pc' = pc
      BY <3>1 DEF LossInv
    <3>. QED
      BY <3>1, <3>2, NothingLost
  <2>. QED
    BY <2>1, <2>2, <2>3, <2>4, <2>5 DEF Next, Run
<1>3. LossInv => LossBounded
  BY PaidFor DEF LossBounded
<1>. QED
  BY <1>1, <1>2, <1>3, PTL DEF Spec

=============================================================================
