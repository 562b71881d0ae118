------------------------------- MODULE Logger -------------------------------
(***************************************************************************)
(* client/z_hglog.cpp: the log macros queue a line from any thread, and    *)
(* one thread (Run) takes the queue and writes it to a file per day, in a  *)
(* directory per month, opening a new file when one is full.  Directories  *)
(* may be removed, and mkdir, open and write may fail.  Time is counted in *)
(* the seconds of a small calendar.                                        *)
(***************************************************************************)
EXTENDS Integers, Sequences, FiniteSets, Functions

CONSTANTS
  Limit,          \* 20000 in _PutLog
  MaxFileSize,    \* m_nMaxLogFileSize, in lines
  MaxLines,       \* bound on the lines logged
  MaxFaults,      \* bound on failing calls and on removals of the directories
  SecsPerDay, DaysPerMonth, MonthsPerYear, MaxTime

ASSUME LoggerAssumption ==
  /\ {Limit, MaxLines, MaxFaults, MaxTime} \subseteq Nat
  /\ {MaxFileSize, SecsPerDay, DaysPerMonth, MonthsPerYear} \subseteq Nat \ {0}

VARIABLES
  running,  \* ~m_bStop
  log2file, \* m_bLog2File
  queue,    \* m_Queue
  out,      \* m_QueueOut
  pc, now,  \* of Run: where it is, and the time t it works with
  change,   \* of Run: bMonthChange
  file,     \* m_fp: the time in the name of the open file, or NoFile
  home,     \* m_fp: the directory of that file, by its month
  bad,      \* m_fp: a write failed (badbit), so every later one does
  date, month, dir, size,  \* m_nDate, m_nMonth, m_sLogDir, m_nLogFileSize
  clock, dirs, faults,     \* the time, the directories there are, failures so far
  accepted, dropped,       \* history: lines queued, lines lost to overflow
  lost,                    \* history: lines whose write failed
  written, echoed          \* history: lines written, with file and time; line printed last

stream  == <<file, home, bad>>
run     == <<pc, now, change, stream, date, month, dir, size>>
world   == <<clock, dirs, faults>>
history == <<accepted, dropped, lost, written, echoed>>
vars    == <<running, log2file, queue, out, run, world, history>>

NoFile == -1

DayCount(t)   == t \div SecsPerDay
MDay(t)       == DayCount(t) % DaysPerMonth
MonthCount(t) == DayCount(t) \div DaysPerMonth
Mon(t)        == MonthCount(t) % MonthsPerYear

\* a step in which a call of the operating system fails uses up a fault
CountFault(failed) ==
  /\ failed => faults < MaxFaults
  /\ faults' = IF failed THEN faults + 1 ELSE faults

\* CreateMonthDir names the directory by year and month, and reads the clock
\* again; the result of mkdir is not looked at, and m_bDirCreated is always
\* true after it
CreateMonthDir(made) ==
  /\ dir' = MonthCount(clock) /\ month' = Mon(clock)
  /\ dirs' = IF made THEN dirs \cup {MonthCount(clock)} ELSE dirs

InitLogger(tofile) ==
  /\ ~running
  /\ log2file' = tofile
  /\ size' = 0
  /\ \E made \in BOOLEAN : CreateMonthDir(made) /\ CountFault(~made)
  /\ running' = TRUE
  /\ UNCHANGED <<queue, out, pc, now, change, stream, date, clock, history>>

\* variant: nothing is dropped
PutUnbounded(q, l) == Append(q, l)

\* _PutLog: the oldest line makes room
Put(q, l) == Append(IF Len(q) > Limit THEN Tail(q) ELSE q, l)

\* WriteLog of the next line
WriteLog ==
  /\ running /\ accepted < MaxLines
  /\ accepted' = accepted + 1
  /\ queue' = Put(queue, accepted')
  /\ dropped' = dropped \cup (Range(queue) \ Range(queue'))
  /\ UNCHANGED <<running, log2file, out, run, world, lost, written, echoed>>

-----------------------------------------------------------------------------
(* Run.                                                                    *)

\* std::swap; an empty queue is looked at again after 3 ms
Swap ==
  /\ running /\ pc = "swap" /\ queue # << >>
  /\ queue' = out /\ out' = queue
  /\ pc' = "line"
  /\ UNCHANGED <<running, log2file, now, change, stream, date, month, dir, size, world, history>>

\* to the console: the line is printed and stays in the queue
Echo ==
  /\ pc = "line" /\ ~log2file
  /\ echoed' = Head(out)
  /\ UNCHANGED <<running, log2file, queue, out, run, world, accepted, dropped, lost, written>>

\* the front line is taken up
ReadClock ==
  /\ pc = "line" /\ log2file
  /\ now' = clock /\ pc' = "month"
  /\ UNCHANGED <<running, log2file, queue, out, change, stream, date, month, dir, size, world, history>>

\* variant: the month is noted and its directory is not made
CheckMonthOnly ==
  /\ pc = "month"
  /\ pc' = "file" /\ change' = (Mon(now) # month)
  /\ month' = Mon(now)
  /\ UNCHANGED <<running, log2file, queue, out, now, stream, date, dir, size, world, history>>

CheckMonth ==
  /\ pc = "month"
  /\ pc' = "file" /\ change' = (Mon(now) # month)
  /\ IF Mon(now) # month
     THEN \E made \in BOOLEAN : CreateMonthDir(made) /\ CountFault(~made)
     ELSE UNCHANGED <<dir, month, dirs, faults>>
  /\ UNCHANGED <<running, log2file, queue, out, now, stream, date, size, clock, history>>

\* variant: the day is not looked at
NeedsFileAnyDay == file = NoFile \/ change \/ size + 1 > MaxFileSize

\* variant: the line to be written is not counted
NeedsFileLate == file = NoFile \/ date # MDay(now) \/ change \/ size > MaxFileSize

NeedsFile == file = NoFile \/ date # MDay(now) \/ change \/ size + 1 > MaxFileSize

\* the new file is opened, which clears the stream, or the old one will do
OpenFile ==
  /\ pc = "file" /\ (NeedsFile => dir \in dirs)
  /\ IF NeedsFile
     THEN file' = now /\ home' = dir /\ bad' = FALSE /\ date' = MDay(now) /\ size' = 0
     ELSE UNCHANGED <<stream, date, size>>
  /\ pc' = "write"
  /\ UNCHANGED <<running, log2file, queue, out, now, change, month, dir, world, history>>

\* the front line leaves m_QueueOut
PopLine == out' = Tail(out) /\ pc' = IF Len(out) = 1 THEN "swap" ELSE "line"

\* variant: the line is thrown away
OpenFailsDrops ==
  /\ pc = "file" /\ NeedsFile
  /\ file' = NoFile
  /\ \E made, create \in BOOLEAN :
       /\ CountFault(~(dir \notin dirs /\ create /\ made))
       /\ IF create THEN CreateMonthDir(made) ELSE UNCHANGED <<dir, month, dirs>>
  /\ PopLine
  /\ UNCHANGED <<running, log2file, queue, now, change, home, bad, date, size, clock, history>>

\* variant: the directory is not made again
OpenFailsOnly ==
  /\ pc = "file" /\ NeedsFile /\ dir \notin dirs
  /\ file' = NoFile
  /\ pc' = "line"
  /\ UNCHANGED <<running, log2file, queue, out, now, change, home, bad, date, month, dir, size, world, history>>

\* the directory is gone (ENOENT), or the open fails for another reason; for
\* ENOENT and EACCES the directory is made again; the line is tried again
OpenFails ==
  /\ pc = "file" /\ NeedsFile
  /\ file' = NoFile
  /\ \E made, create \in BOOLEAN :
       /\ CountFault(~(dir \notin dirs /\ create /\ made))
       /\ IF create THEN CreateMonthDir(made) ELSE UNCHANGED <<dir, month, dirs>>
  /\ pc' = "line"
  /\ UNCHANGED <<running, log2file, queue, out, now, change, home, bad, date, size, clock, history>>

\* variant: only what was written counts for the size of the file
WriteLineSized ==
  /\ pc = "write"
  /\ \E failed \in BOOLEAN :
       /\ CountFault(failed /\ ~bad)
       /\ bad' = (bad \/ failed)
  /\ IF bad'
     THEN lost' = lost \cup {Head(out)} /\ UNCHANGED <<written, size>>
     ELSE /\ written' = Append(written, [line |-> Head(out), file |-> file, dir |-> home, at |-> now])
          /\ size' = size + 1 /\ lost' = lost
  /\ PopLine
  /\ UNCHANGED <<running, log2file, queue, now, change, file, home, date, month, dir, clock, dirs, accepted, dropped, echoed>>

\* the stream is not asked whether the write succeeded: the line is counted
\* and removed from the queue either way
WriteLine ==
  /\ pc = "write"
  /\ \E failed \in BOOLEAN :
       /\ CountFault(failed /\ ~bad)
       /\ bad' = (bad \/ failed)
  /\ IF bad'
     THEN lost' = lost \cup {Head(out)} /\ written' = written
     ELSE /\ written' = Append(written, [line |-> Head(out), file |-> file, dir |-> home, at |-> now])
          /\ lost' = lost
  /\ size' = size + 1
  /\ PopLine
  /\ UNCHANGED <<running, log2file, queue, now, change, file, home, date, month, dir, clock, dirs, accepted, dropped, echoed>>

Run == Swap \/ Echo \/ ReadClock \/ CheckMonth \/ OpenFile \/ OpenFails \/ WriteLine

-----------------------------------------------------------------------------
Tick ==
  /\ clock < MaxTime
  /\ clock' = clock + 1
  /\ UNCHANGED <<running, log2file, queue, out, run, dirs, faults, history>>

\* somebody cleans up ./rdlog
RemoveDirs ==
  /\ dirs # {} /\ CountFault(TRUE)
  /\ dirs' = {}
  /\ UNCHANGED <<running, log2file, queue, out, run, clock, history>>

Init ==
  /\ running = FALSE /\ log2file \in BOOLEAN /\ queue = << >> /\ out = << >>
  /\ pc = "swap" /\ now = 0 /\ change = FALSE
  /\ file = NoFile /\ home = 0 /\ bad = FALSE /\ size = 0
  /\ date = 0 /\ month = 0 /\ dir = 0
  /\ clock = 0 /\ dirs = {} /\ faults = 0
  /\ accepted = 0 /\ dropped = {} /\ lost = {} /\ written = << >> /\ echoed = 0

Next == (\E tofile \in BOOLEAN : InitLogger(tofile)) \/ WriteLog \/ Run \/ Tick \/ RemoveDirs

Spec == Init /\ [][Next]_vars

\* The operating system schedules the logging thread.
FairSpec == Spec /\ WF_vars(Run)

-----------------------------------------------------------------------------
Months == 0 .. MonthCount(MaxTime)

\* Every variable has the shape its declaration gives it.
TypeOK ==
  /\ running \in BOOLEAN /\ log2file \in BOOLEAN /\ change \in BOOLEAN /\ bad \in BOOLEAN
  /\ queue \in Seq(1 .. MaxLines) /\ out \in Seq(1 .. MaxLines)
  /\ pc \in {"swap", "line", "month", "file", "write"}
  /\ (pc = "swap") = (out = << >>)
  /\ now \in 0 .. MaxTime /\ clock \in 0 .. MaxTime
  /\ file \in 0 .. MaxTime \cup {NoFile} /\ home \in Months
  /\ date \in 0 .. DaysPerMonth - 1 /\ month \in 0 .. MonthsPerYear - 1 /\ dir \in Months
  /\ size \in 0 .. MaxFileSize
  /\ dirs \subseteq Months /\ faults \in 0 .. MaxFaults
  /\ accepted \in 0 .. MaxLines /\ dropped \subseteq 1 .. MaxLines
  /\ lost \subseteq 1 .. MaxLines /\ echoed \in 0 .. MaxLines

\* The lines that were not lost to overflow or to a failed write are, in the
\* order they were logged, those written, those Run has taken and those in
\* the queue: no failed open or mkdir, rotation or swap loses, repeats or
\* reorders one.
Conserved ==
  SelectSeq([i \in 1 .. accepted |-> i], LAMBDA l : l \notin dropped \cup lost)
    = [i \in DOMAIN written |-> written[i].line] \o out \o queue

\* A failed write costs at most the lines of one file: those written to the
\* stream after it fail too, but they count for the size that Run compares
\* with m_nMaxLogFileSize, and the next open clears the stream.
LossBounded == Cardinality(lost) <= faults * MaxFileSize

\* However long Run is held up, the lines in memory are at most two queues
\* of one line more than the limit.
Bounded == Len(queue) <= Limit + 1 /\ Len(out) <= Limit + 1

\* A line goes to a file named after its own day, unless the file has been
\* open for so long that the day of the month has come round again.
DatedFile ==
  \A i \in DOMAIN written :
    LET w == written[i] IN
      DayCount(w.at) - DayCount(w.file) < DaysPerMonth => DayCount(w.at) = DayCount(w.file)

\* A line is filed in the directory of its month, or of the next one when
\* the month ends under Run's hands: never in that of an earlier month,
\* unless the month of the year has come round again.
FiledByMonth ==
  \A i \in DOMAIN written :
    LET w == written[i] IN
      MonthCount(w.at) - w.dir < MonthsPerYear => MonthCount(w.at) <= w.dir

\* A logger that writes to files is done with every line at last, once calls
\* have stopped failing: the line is written, its write has failed, or it
\* has made room for a later one.
Drained ==
  \A l \in 1 .. MaxLines :
    log2file /\ l <= accepted
      ~> l \in dropped \cup lost \/ \E i \in DOMAIN written : written[i].line = l

\* "the log directory may have been deleted, create it again, but this log
\* line is thrown away" (the comment where an open has failed).
ThrownAway == [][OpenFails => out' = Tail(out)]_vars

=============================================================================
