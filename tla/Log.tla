-------------------------------- MODULE Log --------------------------------
(***************************************************************************)
(* Log (log/log.h, log/log.cpp): threads that call LOG_INFO and its like,  *)
(* that is write_log() followed by flush(), and in asynchronous mode the   *)
(* thread of flush_log_thread().  The queue between them is the buffer     *)
(* that BlockQueue is shown to implement.  A section under m_mutex is one  *)
(* action; the formatting of the line in m_buf (lines 129-142) touches     *)
(* nothing else and is part of the step that follows it.  fopen() is taken *)
(* to succeed.                                                             *)
(***************************************************************************)
EXTENDS Integers, Sequences, FiniteSets

CONSTANTS
    Writers,     \* the threads that log
    SplitLines,  \* m_split_lines
    QueueSize,   \* max_queue_size when the log is asynchronous
    MaxLines,    \* bound: the lines each writer logs
    LastDay      \* bound: the days that pass

ASSUME LogAssumption ==
    /\ IsFiniteSet(Writers)
    /\ SplitLines \in Nat \ {0} /\ QueueSize \in Nat \ {0}
    /\ MaxLines \in Nat /\ LastDay \in Nat

VARIABLES
    day,         \* the system's clock
    sys_tm,      \* the one struct tm of localtime(), shared by all threads
    m_is_async, m_today, m_count,
    m_fp,        \* the open file: its day, and its number, 0 if it has none
    m_log_queue, \* the lines that wait for the flusher, oldest first
    pc,          \* where each writer is in the macro
    my_tm,       \* the day each writer works with
    no,          \* how many lines each writer has begun
    single_log,  \* the line the flusher has popped, as a sequence
    written,     \* history: the lines given to fputs(), with their file
    session,     \* history: the number of lines since m_fp was opened
    unflushed,   \* the lines in the buffer of m_fp
    dropped      \* history: the lines a full queue refused

vars == <<day, sys_tm, m_is_async, m_today, m_count, m_fp, m_log_queue, pc, my_tm,
          no, single_log, written, session, unflushed, dropped>>

Days == 0..LastDay
Lines == [by : Writers, no : 1..MaxLines, day : Days]
Files == [day : Days, part : 0..Cardinality(Writers) * MaxLines]

(* The line writer w has in hand. *)
Line(w) == [by |-> w, no |-> no[w], day |-> my_tm[w]]

(* init(), in either mode. *)
Init ==
    /\ day = 0 /\ sys_tm = 0
    /\ m_is_async \in BOOLEAN
    /\ m_today = day /\ m_count = 0 /\ m_fp = [day |-> day, part |-> 0]
    /\ m_log_queue = <<>> /\ single_log = <<>>
    /\ pc = [w \in Writers |-> "idle"]
    /\ my_tm = [w \in Writers |-> 0] /\ no = [w \in Writers |-> 0]
    /\ written = {} /\ session = 0 /\ unflushed = {} /\ dropped = {}

queueVars == <<m_log_queue, single_log, dropped>>
fileVars == <<m_today, m_count, m_fp, written, session, unflushed>>

Midnight ==
    /\ day < LastDay
    /\ day' = day + 1
    /\ UNCHANGED <<sys_tm, m_is_async, pc, my_tm, no, queueVars, fileVars>>

-----------------------------------------------------------------------------
(* write_log() and flush()                                                 *)

(* gettimeofday(). *)
GetTime(w) ==
    /\ pc[w] = "idle" /\ no[w] < MaxLines
    /\ no' = [no EXCEPT ![w] = @ + 1]
    /\ my_tm' = [my_tm EXCEPT ![w] = day]
    /\ pc' = [pc EXCEPT ![w] = "localtime"]
    /\ UNCHANGED <<day, sys_tm, m_is_async, queueVars, fileVars>>

(* localtime() fills its static result ... *)
Localtime(w) ==
    /\ pc[w] = "localtime"
    /\ sys_tm' = my_tm[w]
    /\ pc' = [pc EXCEPT ![w] = "copy"]
    /\ UNCHANGED <<day, m_is_async, my_tm, no, queueVars, fileVars>>

(* ... which is copied afterwards, another thread's call may have come     *)
(* in between.                                                             *)
CopyTm(w) ==
    /\ pc[w] = "copy"
    /\ my_tm' = [my_tm EXCEPT ![w] = sys_tm]
    /\ pc' = [pc EXCEPT ![w] = "count"]
    /\ UNCHANGED <<day, sys_tm, m_is_async, no, queueVars, fileVars>>

(* The old file is flushed and closed, another one opened. *)
Reopen(d, part) ==
    /\ m_fp' = [day |-> d, part |-> part]
    /\ unflushed' = {} /\ session' = 0

(* MUTANT: only a new day opens a new file. *)
CountNoSplit(w) ==
    /\ pc[w] = "count"
    /\ pc' = [pc EXCEPT ![w] = "full"]
    /\ IF m_today # my_tm[w]
         THEN m_today' = my_tm[w] /\ m_count' = 0 /\ Reopen(my_tm[w], 0)
         ELSE m_count' = m_count + 1 /\ UNCHANGED <<m_today, m_fp, session, unflushed>>
    /\ UNCHANGED <<day, sys_tm, m_is_async, my_tm, no, queueVars, written>>

(* The line is counted; a new day, or a full file, opens a new file. *)
Count(w) ==
    /\ pc[w] = "count"
    /\ pc' = [pc EXCEPT ![w] = "full"]
    /\ IF m_today # my_tm[w]
         THEN m_today' = my_tm[w] /\ m_count' = 0 /\ Reopen(my_tm[w], 0)
         ELSE /\ m_count' = m_count + 1
              /\ IF m_count' % SplitLines = 0
                   THEN Reopen(my_tm[w], m_count' \div SplitLines)
                   ELSE UNCHANGED <<m_fp, session, unflushed>>
              /\ UNCHANGED m_today
    /\ UNCHANGED <<day, sys_tm, m_is_async, my_tm, no, queueVars, written>>

(* full() decides between the queue and the file. *)
Full(w) ==
    /\ pc[w] = "full"
    /\ pc' = [pc EXCEPT ![w] =
                IF m_is_async /\ Len(m_log_queue) < QueueSize THEN "push" ELSE "put"]
    /\ UNCHANGED <<day, sys_tm, m_is_async, my_tm, no, queueVars, fileVars>>

(* push(), whose result is ignored. *)
Push(w) ==
    /\ pc[w] = "push"
    /\ IF Len(m_log_queue) < QueueSize
         THEN m_log_queue' = Append(m_log_queue, Line(w)) /\ UNCHANGED dropped
         ELSE dropped' = dropped \cup {Line(w)} /\ UNCHANGED m_log_queue
    /\ pc' = [pc EXCEPT ![w] = "flush"]
    /\ UNCHANGED <<day, sys_tm, m_is_async, my_tm, no, single_log, fileVars>>

(* fputs(line, m_fp) under m_mutex. *)
fputs(line) ==
    /\ written' = written \cup {[line |-> line, file |-> m_fp]}
    /\ unflushed' = unflushed \cup {line}
    /\ session' = session + 1
    /\ UNCHANGED <<m_today, m_count, m_fp>>

Put(w) ==
    /\ pc[w] = "put"
    /\ fputs(Line(w))
    /\ pc' = [pc EXCEPT ![w] = "flush"]
    /\ UNCHANGED <<day, sys_tm, m_is_async, my_tm, no, queueVars>>

(* MUTANT: flush() is left out while the file is not full. *)
FlushLate(w) ==
    /\ pc[w] = "flush"
    /\ unflushed' = IF session < SplitLines THEN unflushed ELSE {}
    /\ pc' = [pc EXCEPT ![w] = "idle"]
    /\ UNCHANGED <<day, sys_tm, m_is_async, my_tm, no, queueVars,
                   m_today, m_count, m_fp, written, session>>

(* flush(), the second half of the macro. *)
Flush(w) ==
    /\ pc[w] = "flush"
    /\ unflushed' = {}
    /\ pc' = [pc EXCEPT ![w] = "idle"]
    /\ UNCHANGED <<day, sys_tm, m_is_async, my_tm, no, queueVars,
                   m_today, m_count, m_fp, written, session>>

Write(w) ==
    \/ GetTime(w) \/ Localtime(w) \/ CopyTm(w) \/ Count(w)
    \/ Full(w) \/ Push(w) \/ Put(w) \/ Flush(w)

-----------------------------------------------------------------------------
(* async_write_log()                                                       *)

(* MUTANT: the next line is popped before the last one is written. *)
PopTwice ==
    /\ m_log_queue # <<>>
    /\ single_log' = <<Head(m_log_queue)>>
    /\ m_log_queue' = Tail(m_log_queue)
    /\ UNCHANGED <<day, sys_tm, m_is_async, pc, my_tm, no, dropped, fileVars>>

(* pop() waits on an empty queue. *)
Pop ==
    /\ single_log = <<>> /\ m_log_queue # <<>>
    /\ single_log' = <<Head(m_log_queue)>>
    /\ m_log_queue' = Tail(m_log_queue)
    /\ UNCHANGED <<day, sys_tm, m_is_async, pc, my_tm, no, dropped, fileVars>>

FlusherPut ==
    /\ single_log # <<>>
    /\ fputs(single_log[1])
    /\ single_log' = <<>>
    /\ UNCHANGED <<day, sys_tm, m_is_async, pc, my_tm, no, m_log_queue, dropped>>

Flusher == Pop \/ FlusherPut

Next ==
    \/ Midnight
    \/ \E w \in Writers : Write(w)
    \/ Flusher

(* Every thread is scheduled, and m_mutex is held for a bounded time only. *)
Fairness == WF_vars(Flusher) /\ \A w \in Writers : WF_vars(Write(w))

Spec == Init /\ [][Next]_vars /\ Fairness

-----------------------------------------------------------------------------
(* Properties                                                              *)

Begun == UNION {[by : {w}, no : 1..no[w]] : w \in Writers}
IdOf(line) == [by |-> line.by, no |-> line.no]
Ids(lines) == {IdOf(l) : l \in lines}
Queued == {m_log_queue[i] : i \in DOMAIN m_log_queue}
Popped == {single_log[i] : i \in DOMAIN single_log}
PutLines == {r.line : r \in written}
InHand == {Line(w) : w \in {v \in Writers : pc[v] \notin {"idle", "flush"}}}

TypeOK ==
    /\ day \in Days /\ sys_tm \in Days /\ m_today \in Days
    /\ m_is_async \in BOOLEAN
    /\ m_count \in 0..Cardinality(Writers) * MaxLines
    /\ m_fp \in Files
    /\ m_log_queue \in Seq(Lines) /\ Len(m_log_queue) <= QueueSize
    /\ single_log \in Seq(Lines) /\ Len(single_log) <= 1
    /\ pc \in [Writers -> {"idle", "localtime", "copy", "count", "full", "push", "put", "flush"}]
    /\ my_tm \in [Writers -> Days] /\ no \in [Writers -> 0..MaxLines]
    /\ written \subseteq [line : Lines, file : Files]
    /\ session \in Nat
    /\ unflushed \subseteq Lines /\ dropped \subseteq Lines

(* Whatever the interleaving of writers and flusher, a line that has been  *)
(* begun is in exactly one place: with its writer, in the queue, with the  *)
(* flusher, in a file (once), or refused by a full queue, which happens    *)
(* only in asynchronous mode: no line is written twice or vanishes on the  *)
(* way between two critical sections.                                      *)
LinesAccounted ==
    /\ TypeOK
    /\ Begun = Ids(InHand) \cup Ids(Queued) \cup Ids(Popped) \cup Ids(PutLines) \cup Ids(dropped)
    /\ Cardinality(Begun) = Cardinality(InHand) + Len(m_log_queue) + Len(single_log)
                              + Cardinality(written) + Cardinality(dropped)
    /\ dropped # {} => m_is_async

(* In synchronous mode a line is out of the process when its macro         *)
(* returns, although another thread may have closed and changed the file   *)
(* between fputs() and flush(): a crash loses no line but those of calls   *)
(* in progress.                                                            *)
DurableOnReturn ==
    ~m_is_async =>
        \A l \in unflushed : pc[l.by] = "flush" /\ no[l.by] = l.no

(* While a file is open it gets at most SplitLines lines, and one for      *)
(* every other place where a line that has been counted can be overtaken   *)
(* by the change of files.                                                 *)
SessionBound ==
    session <= SplitLines + (Cardinality(Writers) - 1)
                 + (IF m_is_async THEN QueueSize + 1 ELSE 0)

(* A line that is begun reaches fputs() in the end, or is refused.         *)
LinesReachFile ==
    \A w \in Writers, n \in 1..MaxLines :
        no[w] = n ~> [by |-> w, no |-> n] \in Ids(PutLines) \cup Ids(dropped)

-----------------------------------------------------------------------------
(* What the comments of log.h promise and the code does not keep           *)

(* log.h:52, m_split_lines is "the maximal number of lines of the log".    *)
FileBound ==
    \A f \in Files : Cardinality({r \in written : r.file = f}) <= SplitLines

(* log.h:55, the logs are "sorted by day": a line is in the file of the    *)
(* day it bears.                                                           *)
FiledByDay == \A r \in written : r.file.day = r.line.day
=============================================================================
