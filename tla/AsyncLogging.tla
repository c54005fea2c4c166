---------------------------- MODULE AsyncLogging ----------------------------
(***************************************************************************)
(* AsyncLogging (common/alog/async_logging.h, async_logging.cpp) behind    *)
(* Logger (logger.h, logger.cpp): any thread appends lines to a buffer     *)
(* under mutex_; a writing thread swaps the full buffers out and writes    *)
(* them to a LogFile.  A critical section is one action; outside of them   *)
(* the writing thread may be overtaken before each turn of its loops.      *)
(* A line is its number and length, with the bytes of it that were stored. *)
(***************************************************************************)
EXTENDS LogFile

CONSTANTS
  Null,            \* a unique_ptr that owns nothing
  kSmallBuffer,    \* bytes of a LogStream's buffer
  kLargeBuffer,    \* bytes of a buffer of AsyncLogging
  Bodies,          \* lengths of the text streamed into a Logger
  MaxLines,        \* bound: lines logged
  MaxStarts        \* bound: calls of rtc_log_init

LineType == [id : 1..MaxLines, len : 1..kSmallBuffer, kept : 1..kSmallBuffer]
BufferType == [lines : Seq(LineType), len : 0..kLargeBuffer]

ASSUME LoggingAssumption ==
  /\ kSmallBuffer \in Nat \ {0}
  /\ kLargeBuffer \in Nat /\ kSmallBuffer < kLargeBuffer
  /\ Bodies \subseteq Nat
  /\ MaxLines \in Nat /\ MaxStarts \in Nat
  /\ Null \notin BufferType

VARIABLES
  cur_buffer, next_buffer, buffers,     \* shared, under mutex_
  running,                              \* shared, without it
  temp_buffer1, temp_buffer2, buffers_to_write,     \* the thread's own
  pc,              \* where the thread is; "off": no AsyncLogging exists
  writing,         \* the buffer the write loop has come to
  notified,        \* condition_ was notified while the thread waited
  assert_failed,   \* an assert of thread_pro has failed
  logged,          \* history: the lines logged, in order
  written,         \* history: the lines given to the LogFile, in order
  opened,          \* history: length of written when the log was opened
  starts           \* history: calls of rtc_log_init

sharedVars  == <<cur_buffer, next_buffer, buffers>>
threadVars  == <<temp_buffer1, temp_buffer2, buffers_to_write, writing>>
historyVars == <<logged, written, opened, starts>>
vars == <<fileVars, sharedVars, running, threadVars, pc, notified,
          assert_failed, historyVars>>

Init ==
  /\ LogFileInit
  /\ cur_buffer = Null /\ next_buffer = Null /\ buffers = <<>>
  /\ temp_buffer1 = Null /\ temp_buffer2 = Null
  /\ buffers_to_write = <<>> /\ writing = 1
  /\ running = FALSE
  /\ pc = "off"
  /\ notified = FALSE /\ assert_failed = FALSE
  /\ logged = <<>> /\ written = <<>> /\ opened = 0 /\ starts = 0

-----------------------------------------------------------------------------
Shorter(m, n) == IF m < n THEN m ELSE n

(* FixedBuffer: append cuts off what does not fit.                         *)
Empty == [lines |-> <<>>, len |-> 0]
Valid(buffer) == kLargeBuffer - buffer.len
Appended(buffer, line) ==
  LET size == Shorter(Valid(buffer), line.len)
  IN  [lines |-> Append(buffer.lines, [line EXCEPT !.kept = size]),
       len   |-> buffer.len + size]

(* A Logger's line: the text and its newline, as far as they fit into the  *)
(* buffer of the stream.                                                   *)
Line(body) ==
  LET len == Shorter(Shorter(body, kSmallBuffer) + 1, kSmallBuffer)
  IN  [id |-> Len(logged) + 1, len |-> len, kept |-> len]

(* A mutant: nobody is notified.                                           *)
AppendLineSilently(line) ==
  IF Valid(cur_buffer) > line.len
    THEN /\ cur_buffer' = Appended(cur_buffer, line)
         /\ UNCHANGED <<next_buffer, buffers, notified>>
    ELSE /\ buffers' = Append(buffers, cur_buffer)
         /\ cur_buffer' =
              Appended(IF next_buffer # Null THEN next_buffer ELSE Empty, line)
         /\ next_buffer' = Null
         /\ UNCHANGED notified

(* append: a line that would fill the buffer goes to the next one.         *)
AppendLine(line) ==
  IF Valid(cur_buffer) > line.len
    THEN /\ cur_buffer' = Appended(cur_buffer, line)
         /\ UNCHANGED <<next_buffer, buffers, notified>>
    ELSE /\ buffers' = Append(buffers, cur_buffer)
         /\ cur_buffer' =
              Appended(IF next_buffer # Null THEN next_buffer ELSE Empty, line)
         /\ next_buffer' = Null
         /\ notified' = (notified \/ pc = "blocked")

(* ~Logger calls append, through a pointer that is good until the          *)
(* destructor of AsyncLogging has returned.                                *)
Log(body) ==
  /\ pc # "off" /\ Len(logged) < MaxLines
  /\ AppendLine(Line(body))
  /\ logged' = Append(logged, Line(body))
  /\ UNCHANGED <<fileVars, running, threadVars, pc, assert_failed, written,
                 opened, starts>>

(* rtc_log_init when no AsyncLogging exists: the constructor.              *)
Start ==
  /\ pc = "off" /\ starts < MaxStarts
  /\ cur_buffer' = Empty /\ next_buffer' = Empty /\ buffers' = <<>>
  /\ running' = TRUE
  /\ pc' = "start"
  /\ starts' = starts + 1
  /\ UNCHANGED <<fileVars, threadVars, notified, assert_failed, logged, written,
                 opened>>

(* rtc_log_uinit: ~AsyncLogging clears running_, without the mutex and     *)
(* without a notification ...                                              *)
Stop ==
  /\ running
  /\ running' = FALSE
  /\ UNCHANGED <<fileVars, sharedVars, threadVars, pc, notified, assert_failed,
                 historyVars>>

(* ... and joins the thread; the buffers are destroyed.                    *)
Join ==
  /\ ~running /\ pc = "done"
  /\ pc' = "off"
  /\ cur_buffer' = Null /\ next_buffer' = Null /\ buffers' = <<>>
  /\ UNCHANGED <<fileVars, running, threadVars, notified, assert_failed,
                 historyVars>>
-----------------------------------------------------------------------------
(* thread_pro before its loop; the constructor of LogFile rolls the log of *)
(* an earlier start.                                                       *)
OpenLog ==
  /\ pc = "start"
  /\ temp_buffer1' = Empty /\ temp_buffer2' = Empty
  /\ buffers_to_write' = <<>>
  /\ RollFile(current)
  /\ opened' = Len(written)
  /\ pc' = "check"
  /\ UNCHANGED <<sharedVars, running, writing, notified, assert_failed, logged,
                 written, starts>>

Asserted(condition) == assert_failed' = (assert_failed \/ ~condition)

(* The loop's condition, and the asserts at the head of its body.  When    *)
(* the loop ends nothing more is taken from the buffers.                   *)
CheckRunning ==
  /\ pc = "check"
  /\ IF running
       THEN /\ pc' = "wait"
            /\ Asserted(/\ temp_buffer1 # Null /\ temp_buffer2 # Null
                        /\ buffers_to_write = <<>>)
       ELSE pc' = "done" /\ UNCHANGED assert_failed
  /\ UNCHANGED <<fileVars, sharedVars, running, threadVars, notified,
                 historyVars>>

(* A mutant: the current buffer is written before the full ones.           *)
TakeCurrentFirst ==
  /\ buffers_to_write' = <<cur_buffer>> \o buffers
  /\ buffers' = buffers_to_write

(* The buffers so far are taken to be written, the current one last.       *)
TakeBuffers ==
  /\ buffers_to_write' = Append(buffers, cur_buffer)
  /\ buffers' = buffers_to_write

(* A mutant: the second spare is given away although it is not needed.     *)
GiveBothSpares ==
  /\ cur_buffer' = temp_buffer1 /\ temp_buffer1' = Null
  /\ next_buffer' = temp_buffer2 /\ temp_buffer2' = Null

(* A mutant: the next buffer, if any, becomes the current one.             *)
GiveNext ==
  /\ cur_buffer' = next_buffer
  /\ next_buffer' = temp_buffer1 /\ temp_buffer1' = Null
  /\ UNCHANGED temp_buffer2

(* The thread's spares replace the current buffer and, if it was used up,  *)
(* the next one.                                                           *)
GiveSpares ==
  /\ cur_buffer' = temp_buffer1 /\ temp_buffer1' = Null
  /\ IF next_buffer = Null
       THEN next_buffer' = temp_buffer2 /\ temp_buffer2' = Null
       ELSE UNCHANGED <<next_buffer, temp_buffer2>>

(* What remains of the critical section once wait_for has returned, up to  *)
(* the write loop.                                                         *)
Swap ==
  /\ TakeBuffers
  /\ GiveSpares
  /\ Asserted(buffers_to_write' # <<>>)
  /\ writing' = 1
  /\ notified' = FALSE
  /\ pc' = "write"
  /\ UNCHANGED <<fileVars, running, historyVars>>

(* wait_for tests its predicate before it waits, ...                       *)
Wait ==
  /\ pc = "wait"
  /\ IF buffers # <<>>
       THEN Swap
       ELSE /\ pc' = "blocked"
            /\ UNCHANGED <<fileVars, sharedVars, running, threadVars, notified,
                           assert_failed, historyVars>>

(* ... again when it is woken (a spurious wake-up finds it false), ...     *)
WakeUp == pc = "blocked" /\ notified /\ buffers # <<>> /\ Swap

(* A mutant: wait instead of wait_for.                                     *)
NoTimeout == pc = "blocked" /\ buffers # <<>> /\ Swap

(* A mutant: a thread that is to stop does not write what it has waited    *)
(* for.                                                                    *)
TimeoutOrDone ==
  /\ pc = "blocked"
  /\ IF running
       THEN Swap
       ELSE /\ pc' = "done"
            /\ UNCHANGED <<fileVars, sharedVars, running, threadVars, notified,
                           assert_failed, historyVars>>

(* ... and returns after three seconds whatever it says.                   *)
Timeout == pc = "blocked" /\ Swap

(* One turn of the write loop: the buffer is written unless it is empty,   *)
(* and cleared.                                                            *)
WriteOne ==
  LET buffer == buffers_to_write[writing] IN
  /\ pc = "write" /\ writing <= Len(buffers_to_write)
  /\ IF buffer.len > 0
       THEN /\ AppendFile(buffer.lines, buffer.len)
            /\ written' = written \o buffer.lines
            /\ buffers_to_write' = [buffers_to_write EXCEPT ![writing] = Empty]
       ELSE UNCHANGED <<fileVars, written, buffers_to_write>>
  /\ writing' = writing + 1
  /\ UNCHANGED <<sharedVars, running, temp_buffer1, temp_buffer2, pc, notified,
                 assert_failed, logged, opened, starts>>

(* After the write loop the thread takes its spares back from the end of   *)
(* what it has written, and frees the rest.                                *)
Refill ==
  LET spares == IF temp_buffer1 = Null THEN 1 ELSE 0 IN
  /\ pc = "write" /\ writing > Len(buffers_to_write)
  /\ Asserted(/\ temp_buffer1 = Null => Len(buffers_to_write) >= 1
              /\ temp_buffer2 = Null => Len(buffers_to_write) - spares >= 1)
  /\ temp_buffer1' = Empty /\ temp_buffer2' = Empty
  /\ buffers_to_write' = <<>>
  /\ pc' = "check"
  /\ UNCHANGED <<fileVars, sharedVars, running, writing, notified, historyVars>>

Next ==
  \/ \E body \in Bodies : Log(body)
  \/ Start
  \/ Stop
  \/ Join
  \/ OpenLog
  \/ CheckRunning
  \/ Wait
  \/ WakeUp
  \/ Timeout
  \/ WriteOne
  \/ Refill

Spec == Init /\ [][Next]_vars

(* The thread is scheduled, gets the mutex, its timer expires, and join    *)
(* returns when it has ended.                                              *)
Fairness ==
  /\ WF_vars(OpenLog) /\ WF_vars(CheckRunning)
  /\ WF_vars(Wait) /\ WF_vars(Timeout)
  /\ WF_vars(WriteOne) /\ WF_vars(Refill)
  /\ WF_vars(Join)

FairSpec == Spec /\ Fairness
-----------------------------------------------------------------------------
(* The types, and that a current buffer exists whenever append may be      *)
(* called (append does not look whether there is one).                     *)
TypeOK ==
  /\ current \in Seq(LineType) /\ backup \in Seq(LineType)
  /\ written_bytes \in Nat
  /\ IF pc = "off" THEN cur_buffer = Null ELSE cur_buffer \in BufferType
  /\ {next_buffer, temp_buffer1, temp_buffer2} \subseteq BufferType \union {Null}
  /\ buffers \in Seq(BufferType) /\ buffers_to_write \in Seq(BufferType)
  /\ {running, notified, assert_failed} \subseteq BOOLEAN
  /\ pc \in {"off", "start", "check", "wait", "blocked", "write", "done"}
  /\ writing \in Nat \ {0}
  /\ logged \in Seq(LineType) /\ Len(logged) <= MaxLines
  /\ written \in Seq(LineType) /\ opened \in Nat
  /\ starts \in 0..MaxStarts

(* No assert of thread_pro (async_logging.cpp:68-70, 86, 98, 105) fails:   *)
(* the thread finds two spares after each turn, because whenever the next  *)
(* buffer was used up a full one comes along with the current one.         *)
AssertsHold == ~assert_failed

(* A full buffer does not wait for the timeout: the thread is blocked with *)
(* one there only if it has been notified.                                 *)
NoLostWakeUp == pc = "blocked" /\ buffers # <<>> => notified

Bytes(lines) == FoldSeq(LAMBDA line, sum : line.kept + sum, 0, lines)

(* Rolling leaves no gap: backup and log are the last lines written.       *)
Ending(seq, n) == SubSeq(seq, Len(seq) - n + 1, Len(seq))
NoGap ==
  LET kept == backup \o current
  IN  Len(kept) <= Len(written) /\ kept = Ending(written, Len(kept))

(* Rolling keeps the end of the log: backup and log are the last lines     *)
(* written, without a gap; unless they are all lines since the log was     *)
(* opened they are more than RollSize bytes; and neither file outgrows     *)
(* RollSize by more than a buffer.                                         *)
RecentLinesKept ==
  LET kept == backup \o current IN
  /\ NoGap
  /\ \/ pc = "start" \/ Bytes(kept) > RollSize
     \/ Len(kept) >= Len(written) - opened
  /\ Bytes(current) <= RollSize /\ Bytes(backup) <= RollSize + kLargeBuffer

-----------------------------------------------------------------------------
Lines(buffer) == IF buffer = Null THEN <<>> ELSE buffer.lines

(* The lines on their way: those of the buffers being written, of the full *)
(* ones, and of the current one.                                           *)
Pending ==
  LET all == Append(buffers_to_write \o buffers, cur_buffer)
  IN  FlattenSeq([i \in DOMAIN all |-> Lines(all[i])])

(* A line as the Logger made it.                                           *)
WholeLine == {line \in LineType : line.kept = line.len}

Queue == INSTANCE Fifo WITH
  Items <- WholeLine, accepted <- logged, pending <- Pending,
  delivered <- written, open <- (pc # "off")

(* The log is a queue: the lines logged come to the file whole, in the     *)
(* order they were appended, each once; only the destructor throws any away; and      *)
(* while some wait, some are written.                                      *)
LogIsFifo == Queue!FairSpec

Waits(n) == \E i \in DOMAIN Pending : Pending[i].id = n
Written(n) == \E i \in DOMAIN written : written[i].id = n

(* Whatever is in the buffers while the thread waits is written, though    *)
(* the logger be stopped meanwhile ("clean up at intervals, or when the    *)
(* data is full", async_logging.cpp:55); what comes later may be lost.     *)
AwaitedLinesWritten ==
  \A n \in 1..MaxLines :
    pc \in {"wait", "blocked"} /\ Waits(n) ~> Written(n)

(* The destructor returns, though it wakes nobody.                         *)
StopReturns == ~running ~> pc = "off"
=============================================================================
