------------------------- MODULE AsyncLoggingProofs -------------------------
(***************************************************************************)
(* Proofs about AsyncLogging for every value of its constants: types, the  *)
(* asserts of the writing thread and its wake-ups; what rolling keeps of   *)
(* the log, by counting the bytes of its lines; and that the log is a      *)
(* queue, by what the buffers hold, read in the order they are written.    *)
(***************************************************************************)
EXTENDS AsyncLogging, SequenceTheorems, SumTheorems, TLAPS

-----------------------------------------------------------------------------
(* A buffer that is not the current one nor waiting to be written is       *)
(* empty.                                                                  *)
SparesEmpty == {next_buffer, temp_buffer1, temp_buffer2} \subseteq {Null, Empty}

(* The next buffer is used up only by an append that leaves a full one     *)
(* behind.                                                                 *)
FullOneBehind == pc # "off" /\ next_buffer = Null => buffers # <<>>

(* Between two turns the thread owns its two spares and nothing else.      *)
Rested ==
  pc \in {"check", "wait", "blocked"} =>
    temp_buffer1 = Empty /\ temp_buffer2 = Empty /\ buffers_to_write = <<>>

(* While it writes it has as many buffers as spares it gave away.          *)
Owed ==
  pc = "write" =>
    /\ temp_buffer1 = Null
    /\ Len(buffers_to_write) >= IF temp_buffer2 = Null THEN 2 ELSE 1

SparesInv == /\ SparesEmpty /\ FullOneBehind /\ Rested /\ Owed
             /\ NoLostWakeUp /\ AssertsHold

-----------------------------------------------------------------------------
(* The values the actions compute.                                         *)

LEMMA EmptyType == Empty \in BufferType /\ Empty # Null /\ Valid(Empty) > kSmallBuffer
<1>1. <<>> \in Seq(LineType)
  BY EmptySeq
<1>2. Empty \in BufferType
  BY <1>1, LoggingAssumption DEF Empty, BufferType
<1>. QED
  BY <1>2, LoggingAssumption DEF Empty, Valid

LEMMA LineIsTyped ==
  ASSUME TypeOK, Len(logged) < MaxLines, NEW body \in Bodies
  PROVE  Line(body) \in LineType
<1>. DEFINE len == Shorter(Shorter(body, kSmallBuffer) + 1, kSmallBuffer)
<1>1. len \in 1..kSmallBuffer
  BY LoggingAssumption DEF Shorter
<1>2. Len(logged) + 1 \in 1..MaxLines
  BY LoggingAssumption DEF TypeOK
<1>. QED
  BY <1>1, <1>2 DEF Line, LineType

(* A line goes into any buffer with room.                                  *)
LEMMA AppendedType ==
  ASSUME NEW buffer \in BufferType, Valid(buffer) >= 1, NEW line \in LineType
  PROVE  Appended(buffer, line) \in BufferType
<1>. DEFINE size == Shorter(Valid(buffer), line.len)
            stored == [line EXCEPT !.kept = size]
<1>1. /\ buffer.len \in 0..kLargeBuffer /\ buffer.lines \in Seq(LineType)
      /\ line.len \in 1..kSmallBuffer
  BY DEF BufferType, LineType
<1>2. size \in 1..kSmallBuffer /\ buffer.len + size \in 0..kLargeBuffer
  BY <1>1, LoggingAssumption DEF Shorter, Valid
<1>3. stored \in LineType
  <2>. HIDE DEF size
  <2>. QED  BY <1>2 DEF LineType
<1>4. Append(buffer.lines, stored) \in Seq(LineType)
  <2>. HIDE DEF stored
  <2>. QED  BY <1>1, <1>3, AppendProperties
<1>. QED
  BY <1>2, <1>4 DEF Appended, BufferType

(* append leaves a current buffer, and needs the spares to be empty only.  *)
LEMMA AppendLineTypes ==
  ASSUME TypeOK, SparesInv, pc # "off", NEW line \in LineType, AppendLine(line)
  PROVE  /\ cur_buffer' \in BufferType
         /\ buffers' \in Seq(BufferType)
         /\ next_buffer' \in {Null, Empty}
         /\ next_buffer' = Null => buffers' # <<>>
         /\ notified' \in BOOLEAN
         /\ pc = "blocked" /\ buffers' # <<>> => notified'
<1>1. /\ cur_buffer \in BufferType /\ buffers \in Seq(BufferType)
      /\ next_buffer \in {Null, Empty} /\ notified \in BOOLEAN
  BY DEF TypeOK, SparesInv, SparesEmpty
<1>2. line.len \in 1..kSmallBuffer
  BY DEF LineType
<1>3. CASE Valid(cur_buffer) > line.len
  <2>1. Valid(cur_buffer) >= 1
    BY <1>1, <1>2, <1>3, LoggingAssumption DEF Valid, BufferType
  <2>2. Appended(cur_buffer, line) \in BufferType
    BY <1>1, <2>1, AppendedType
  <2>3. /\ cur_buffer' = Appended(cur_buffer, line) /\ next_buffer' = next_buffer
        /\ buffers' = buffers /\ notified' = notified
    BY <1>3 DEF AppendLine
  <2>. QED
    BY <1>1, <2>2, <2>3 DEF SparesInv, FullOneBehind, NoLostWakeUp
<1>4. CASE ~(Valid(cur_buffer) > line.len)
  <2>1. /\ buffers' = Append(buffers, cur_buffer)
        /\ cur_buffer' = Appended(Empty, line)
        /\ next_buffer' = Null
        /\ notified' = (notified \/ pc = "blocked")
    BY <1>1, <1>4 DEF AppendLine
  <2>2. Valid(Empty) >= 1
    BY EmptyType, LoggingAssumption DEF Valid, Empty
  <2>3. cur_buffer' \in BufferType
    BY <2>1, <2>2, EmptyType, AppendedType
  <2>4. buffers' \in Seq(BufferType) /\ buffers' # <<>>
    BY <1>1, <2>1, AppendProperties
  <2>. QED
    BY <1>1, <2>1, <2>3, <2>4
<1>. QED
  BY <1>3, <1>4

LEMMA FileTypes ==
  ASSUME TypeOK, NEW lines \in Seq(LineType), NEW bytes \in Nat,
         AppendFile(lines, bytes)
  PROVE  /\ current' \in Seq(LineType) /\ backup' \in Seq(LineType)
         /\ written_bytes' \in Nat
<1>1. current \o lines \in Seq(LineType)
  BY ConcatProperties DEF TypeOK
<1>2. <<>> \in Seq(LineType) /\ written_bytes + bytes \in Nat
  BY EmptySeq DEF TypeOK
<1>3. CASE written_bytes + bytes > RollSize
  <2>1. /\ backup' = current \o lines /\ current' = <<>> /\ written_bytes' = 0
    BY <1>3 DEF AppendFile, RollFile
  <2>. QED
    BY <1>1, <1>2, <2>1
<1>4. CASE ~(written_bytes + bytes > RollSize)
  BY <1>1, <1>2, <1>4 DEF AppendFile, TypeOK
<1>. QED
  BY <1>3, <1>4

-----------------------------------------------------------------------------
(* One lemma for each action.                                              *)
LoggingInv == TypeOK /\ SparesInv

LEMMA InitStep == Init => LoggingInv
<1>. SUFFICES ASSUME Init PROVE LoggingInv
  OBVIOUS
<1>1. /\ <<>> \in Seq(LineType) /\ <<>> \in Seq(BufferType)
  BY EmptySeq
<1>2. TypeOK
  <2>1. /\ pc = "off" /\ cur_buffer = Null /\ writing = 1 /\ opened = 0
        /\ {running, notified, assert_failed} = {FALSE} /\ written_bytes = 0
    BY DEF Init, LogFileInit
  <2>2. /\ current = <<>> /\ backup = <<>> /\ written = <<>>
        /\ buffers = <<>> /\ buffers_to_write = <<>>
    BY DEF Init, LogFileInit
  <2>3. {next_buffer, temp_buffer1, temp_buffer2} = {Null}
    BY DEF Init
  <2>4. /\ logged \in Seq(LineType) /\ Len(logged) <= MaxLines
        /\ starts \in 0..MaxStarts
    <3>1. <<>> \in Seq(LineType) /\ Len(<<>>) = 0
      BY EmptySeq
    <3>. QED  BY <3>1, LoggingAssumption DEF Init
  <2>5. /\ {running, notified, assert_failed} \subseteq BOOLEAN
        /\ {next_buffer, temp_buffer1, temp_buffer2} \subseteq BufferType \union {Null}
    BY <2>1, <2>3, Zenon
  <2>. QED
    BY <1>1, <2>1, <2>2, <2>4, <2>5 DEF TypeOK
<1>3. SparesInv
  BY DEF Init, SparesInv, SparesEmpty, FullOneBehind, Rested, Owed, NoLostWakeUp,
         AssertsHold
<1>. QED
  BY <1>2, <1>3 DEF LoggingInv

LEMMA LogStep ==
  ASSUME LoggingInv, NEW body \in Bodies, Log(body)
  PROVE  LoggingInv'
<1>1. TypeOK /\ SparesInv /\ pc # "off" /\ Len(logged) < MaxLines
  BY DEF LoggingInv, Log
<1>2. Line(body) \in LineType /\ AppendLine(Line(body))
  BY <1>1, LineIsTyped DEF Log
<1>3. /\ cur_buffer' \in BufferType /\ buffers' \in Seq(BufferType)
      /\ next_buffer' \in {Null, Empty}
      /\ next_buffer' = Null => buffers' # <<>>
      /\ notified' \in BOOLEAN
      /\ pc = "blocked" /\ buffers' # <<>> => notified'
  BY <1>1, <1>2, AppendLineTypes
<1>4. /\ UNCHANGED <<current, backup, written_bytes, running, temp_buffer1,
                      temp_buffer2, buffers_to_write, writing, pc, assert_failed,
                      written, opened, starts>>
      /\ logged' = Append(logged, Line(body))
  BY DEF Log, fileVars, threadVars
<1>5. logged' \in Seq(LineType) /\ Len(logged') <= MaxLines
  <2>1. logged \in Seq(LineType) /\ Len(logged) \in Nat /\ MaxLines \in Nat
    BY <1>1, LoggingAssumption DEF TypeOK
  <2>2. logged' \in Seq(LineType) /\ Len(logged') = Len(logged) + 1
    BY <1>2, <1>4, <2>1, AppendProperties
  <2>. QED  BY <1>1, <2>1, <2>2
<1>6. TypeOK'
  BY <1>1, <1>3, <1>4, <1>5, EmptyType DEF TypeOK
<1>. QED
  BY <1>1, <1>3, <1>4, <1>6
     DEF LoggingInv, SparesInv, SparesEmpty, FullOneBehind, Rested, Owed,
         NoLostWakeUp, AssertsHold

LEMMA StartStep ==
  ASSUME LoggingInv, Start
  PROVE  LoggingInv'
<1>1. <<>> \in Seq(BufferType)
  BY EmptySeq
<1>2. starts' \in 0..MaxStarts
  BY LoggingAssumption DEF LoggingInv, TypeOK, Start
<1>. QED
  BY <1>1, <1>2, EmptyType
     DEF Start, LoggingInv, TypeOK, SparesInv, SparesEmpty, FullOneBehind, Rested,
         Owed, NoLostWakeUp, AssertsHold, fileVars, threadVars

LEMMA StopStep ==
  ASSUME LoggingInv, Stop
  PROVE  LoggingInv'
BY DEF Stop, LoggingInv, TypeOK, SparesInv, SparesEmpty, FullOneBehind, Rested,
       Owed, NoLostWakeUp, AssertsHold, fileVars, sharedVars, threadVars,
       historyVars

LEMMA JoinStep ==
  ASSUME LoggingInv, Join
  PROVE  LoggingInv'
<1>1. <<>> \in Seq(BufferType)
  BY EmptySeq
<1>. QED
  BY <1>1
     DEF Join, LoggingInv, TypeOK, SparesInv, SparesEmpty, FullOneBehind, Rested,
         Owed, NoLostWakeUp, AssertsHold, fileVars, threadVars, historyVars

LEMMA OpenLogStep ==
  ASSUME LoggingInv, OpenLog
  PROVE  LoggingInv'
<1>1. <<>> \in Seq(BufferType) /\ <<>> \in Seq(LineType)
  BY EmptySeq
<1>2. Len(written) \in Nat
  BY LenProperties DEF LoggingInv, TypeOK
<1>. QED
  BY <1>1, <1>2, EmptyType
     DEF OpenLog, RollFile, LoggingInv, TypeOK, SparesInv, SparesEmpty,
         FullOneBehind, Rested, Owed, NoLostWakeUp, AssertsHold, sharedVars

LEMMA CheckRunningStep ==
  ASSUME LoggingInv, CheckRunning
  PROVE  LoggingInv'
<1>1. temp_buffer1 # Null /\ temp_buffer2 # Null /\ buffers_to_write = <<>>
  BY EmptyType DEF CheckRunning, LoggingInv, SparesInv, Rested
<1>2. assert_failed' = FALSE
  BY <1>1 DEF CheckRunning, Asserted, LoggingInv, SparesInv, AssertsHold, TypeOK
<1>. QED
  BY <1>2
     DEF CheckRunning, LoggingInv, TypeOK, SparesInv, SparesEmpty, FullOneBehind,
         Rested, Owed, NoLostWakeUp, AssertsHold, fileVars, sharedVars, threadVars,
         historyVars

(* The critical section: what was full is followed by the current buffer,  *)
(* and a spare takes the place of each buffer used up.                     *)
LEMMA SwapStep ==
  ASSUME LoggingInv, pc \in {"wait", "blocked"}, Swap
  PROVE  LoggingInv'
<1>1. /\ TypeOK /\ cur_buffer \in BufferType /\ buffers \in Seq(BufferType)
      /\ temp_buffer1 = Empty /\ temp_buffer2 = Empty /\ buffers_to_write = <<>>
      /\ next_buffer \in {Null, Empty}
      /\ next_buffer = Null => buffers # <<>>
  BY DEF LoggingInv, TypeOK, SparesInv, SparesEmpty, Rested, FullOneBehind
<1>2. /\ buffers_to_write' = Append(buffers, cur_buffer) /\ buffers' = <<>>
      /\ cur_buffer' = Empty /\ temp_buffer1' = Null /\ writing' = 1
      /\ notified' = FALSE /\ pc' = "write"
      /\ UNCHANGED <<current, backup, written_bytes, running, logged, written,
                     opened, starts>>
  BY <1>1 DEF Swap, TakeBuffers, GiveSpares, fileVars, historyVars
<1>3. /\ next_buffer' = Empty
      /\ next_buffer = Null => temp_buffer2' = Null
      /\ next_buffer # Null => temp_buffer2' = Empty
  BY <1>1 DEF Swap, GiveSpares
<1>4. /\ buffers_to_write' \in Seq(BufferType) /\ buffers_to_write' # <<>>
      /\ Len(buffers_to_write') = Len(buffers) + 1
      /\ buffers # <<>> => Len(buffers) >= 1
      /\ Len(buffers) \in Nat
      /\ <<>> \in Seq(BufferType)
  BY <1>1, <1>2, AppendProperties, LenProperties, EmptySeq
<1>5. assert_failed' = FALSE
  BY <1>4 DEF Swap, Asserted, LoggingInv, SparesInv, AssertsHold, TypeOK
<1>6. TypeOK'
  <2>1. {running, notified, assert_failed}' \subseteq BOOLEAN
    BY <1>1, <1>2, <1>5 DEF TypeOK
  <2>2. {next_buffer, temp_buffer1, temp_buffer2}' \subseteq BufferType \union {Null}
    BY <1>1, <1>2, <1>3, EmptyType
  <2>3. /\ cur_buffer' \in BufferType /\ writing' \in Nat \ {0}
        /\ buffers' \in Seq(BufferType)
    BY <1>2, <1>4, EmptyType
  <2>. QED
    BY <1>1, <1>2, <1>4, <2>1, <2>2, <2>3 DEF TypeOK
<1>7. Owed'
  BY <1>1, <1>2, <1>3, <1>4, EmptyType DEF Owed
<1>. QED
  BY <1>2, <1>3, <1>5, <1>6, <1>7, EmptyType
     DEF LoggingInv, SparesInv, SparesEmpty, FullOneBehind, Rested,
         NoLostWakeUp, AssertsHold

LEMMA WaitStep ==
  ASSUME LoggingInv, Wait
  PROVE  LoggingInv'
<1>1. CASE buffers # <<>>
  BY <1>1, SwapStep DEF Wait
<1>2. CASE buffers = <<>>
  BY <1>2
     DEF Wait, LoggingInv, TypeOK, SparesInv, SparesEmpty, FullOneBehind, Rested,
         Owed, NoLostWakeUp, AssertsHold, fileVars, sharedVars, threadVars,
         historyVars
<1>. QED
  BY <1>1, <1>2

LEMMA WriteOneStep ==
  ASSUME LoggingInv, WriteOne
  PROVE  LoggingInv'
<1>. DEFINE buffer == buffers_to_write[writing]
<1>1. /\ TypeOK /\ pc = "write" /\ writing \in Nat \ {0}
      /\ buffers_to_write \in Seq(BufferType) /\ writing <= Len(buffers_to_write)
  BY DEF LoggingInv, TypeOK, WriteOne
<1>2. writing \in 1..Len(buffers_to_write) /\ buffer \in BufferType
  BY <1>1, LenProperties, ElementOfSeq
<1>3. /\ UNCHANGED <<cur_buffer, next_buffer, buffers, running, temp_buffer1,
                     temp_buffer2, pc, notified, assert_failed, logged, opened,
                     starts>>
      /\ writing' = writing + 1
  BY DEF WriteOne, sharedVars
<1>4. /\ buffers_to_write' \in Seq(BufferType)
      /\ Len(buffers_to_write') = Len(buffers_to_write)
      /\ current' \in Seq(LineType) /\ backup' \in Seq(LineType)
      /\ written_bytes' \in Nat /\ written' \in Seq(LineType)
  <2>1. CASE buffer.len > 0
    <3>1. buffer.lines \in Seq(LineType) /\ buffer.len \in Nat
      BY <1>2, LoggingAssumption DEF BufferType
    <3>2. /\ AppendFile(buffer.lines, buffer.len)
          /\ written' = written \o buffer.lines
          /\ buffers_to_write' = [buffers_to_write EXCEPT ![writing] = Empty]
      BY <2>1 DEF WriteOne
    <3>3. /\ current' \in Seq(LineType) /\ backup' \in Seq(LineType)
          /\ written_bytes' \in Nat
      <4>. HIDE DEF buffer
      <4>. QED  BY <1>1, <3>1, <3>2, FileTypes
    <3>4. written' \in Seq(LineType)
      BY <1>1, <3>1, <3>2, ConcatProperties DEF TypeOK
    <3>5. /\ buffers_to_write' \in Seq(BufferType)
          /\ Len(buffers_to_write') = Len(buffers_to_write)
      BY <1>1, <1>2, <3>2, EmptyType, ExceptSeq
    <3>. QED
      BY <3>3, <3>4, <3>5
  <2>2. CASE ~(buffer.len > 0)
    BY <1>1, <2>2 DEF WriteOne, fileVars, TypeOK
  <2>. QED
    BY <2>1, <2>2
<1>5. TypeOK'
  BY <1>1, <1>3, <1>4 DEF TypeOK
<1>. QED
  BY <1>1, <1>3, <1>4, <1>5
     DEF LoggingInv, SparesInv, SparesEmpty, FullOneBehind, Rested, Owed,
         NoLostWakeUp, AssertsHold

LEMMA RefillStep ==
  ASSUME LoggingInv, Refill
  PROVE  LoggingInv'
<1>1. /\ TypeOK /\ pc = "write" /\ temp_buffer1 = Null
      /\ Len(buffers_to_write) \in Nat
      /\ Len(buffers_to_write) >= IF temp_buffer2 = Null THEN 2 ELSE 1
  BY LenProperties DEF LoggingInv, TypeOK, SparesInv, Owed, Refill
<1>2. /\ temp_buffer1 = Null => Len(buffers_to_write) >= 1
      /\ temp_buffer2 = Null =>
           Len(buffers_to_write) - (IF temp_buffer1 = Null THEN 1 ELSE 0) >= 1
  BY <1>1
<1>3. assert_failed' = FALSE
  BY <1>2 DEF Refill, Asserted, LoggingInv, SparesInv, AssertsHold, TypeOK
<1>4. /\ temp_buffer1' = Empty /\ temp_buffer2' = Empty
      /\ buffers_to_write' = <<>> /\ pc' = "check"
      /\ UNCHANGED <<current, backup, written_bytes, cur_buffer, next_buffer,
                     buffers, running, writing, notified, logged, written, opened,
                     starts>>
  BY DEF Refill, fileVars, sharedVars, historyVars
<1>5. <<>> \in Seq(BufferType)
  BY EmptySeq
<1>6. TypeOK'
  BY <1>1, <1>3, <1>4, <1>5, EmptyType DEF TypeOK
<1>. QED
  BY <1>1, <1>3, <1>4, <1>6
     DEF LoggingInv, SparesInv, SparesEmpty, FullOneBehind, Rested, Owed,
         NoLostWakeUp, AssertsHold

LEMMA LoggingNext == LoggingInv /\ [Next]_vars => LoggingInv'
<1>. SUFFICES ASSUME LoggingInv, [Next]_vars PROVE LoggingInv'
  OBVIOUS
<1>1. CASE UNCHANGED vars
  BY <1>1
     DEF vars, fileVars, sharedVars, threadVars, historyVars, LoggingInv, TypeOK,
         SparesInv, SparesEmpty, FullOneBehind, Rested, Owed, NoLostWakeUp,
         AssertsHold
<1>2. CASE WakeUp \/ Timeout
  BY <1>2, SwapStep DEF WakeUp, Timeout
<1>. QED
  BY <1>1, <1>2, LogStep, StartStep, StopStep, JoinStep, OpenLogStep,
     CheckRunningStep, WaitStep, WriteOneStep, RefillStep DEF Next

LEMMA LoggingInvariant == Spec => []LoggingInv
BY InitStep, LoggingNext, PTL DEF Spec

(* Every variable keeps its type, for every size of the buffers and of the *)
(* log: whenever a line is appended there is a buffer to take it           *)
(* (async_logging.cpp:34, 51).                                             *)
THEOREM TypeCorrect == Spec => []TypeOK
<1>1. LoggingInv => TypeOK
  BY DEF LoggingInv
<1>. QED
  BY <1>1, LoggingInvariant, PTL

(* No assert of thread_pro fails, however many lines come meanwhile.       *)
THEOREM SparesSuffice == Spec => []AssertsHold
<1>1. LoggingInv => AssertsHold
  BY DEF LoggingInv, SparesInv
<1>. QED
  BY <1>1, LoggingInvariant, PTL

(* A full buffer never waits for the timeout of a thread that nobody has   *)
(* notified (async_logging.cpp:52, 73).                                    *)
THEOREM FullBufferWakes == Spec => []NoLostWakeUp
<1>1. LoggingInv => NoLostWakeUp
  BY DEF LoggingInv, SparesInv
<1>. QED
  BY <1>1, LoggingInvariant, PTL

-----------------------------------------------------------------------------
(* The end of a sequence, as what is appended to it makes it longer.       *)

LEMMA EndingProperties ==
  ASSUME NEW S, NEW t \in Seq(S), NEW n \in 0..Len(t)
  PROVE  /\ Ending(t, n) \in Seq(S) /\ Len(Ending(t, n)) = n
         /\ \A i \in 1..n : Ending(t, n)[i] = t[Len(t) - n + i]
<1>1. Len(t) \in Nat
  BY LenProperties
<1>2. \A i \in (Len(t) - n + 1)..Len(t) : t[i] \in S
  BY <1>1, ElementOfSeq
<1>. DEFINE m == Len(t) - n + 1
            e == SubSeq(t, m, Len(t))
<1>3. /\ e \in Seq(S)
      /\ Len(e) = IF m <= Len(t) THEN Len(t) - m + 1 ELSE 0
      /\ \A i \in 1..(Len(t) - m + 1) : e[i] = t[m + i - 1]
  BY <1>1, <1>2, SubSeqProperties
<1>. QED
  BY <1>1, <1>3 DEF Ending

(* What ends in b after a ends in b.                                       *)
LEMMA EndingOfEnding ==
  ASSUME NEW S, NEW a \in Seq(S), NEW b \in Seq(S), NEW t \in Seq(S),
         Len(a \o b) <= Len(t), a \o b = Ending(t, Len(a \o b))
  PROVE  Len(b) <= Len(t) /\ b = Ending(t, Len(b))
<1>1. /\ Len(a) \in Nat /\ Len(b) \in Nat /\ Len(t) \in Nat
      /\ Len(a \o b) = Len(a) + Len(b)
      /\ \A i \in 1..(Len(a) + Len(b)) :
           (a \o b)[i] = IF i <= Len(a) THEN a[i] ELSE b[i - Len(a)]
  BY LenProperties, ConcatProperties
<1>2. Len(b) \in 0..Len(t) /\ Len(a \o b) \in 0..Len(t)
  BY <1>1
<1>3. /\ Ending(t, Len(b)) \in Seq(S) /\ Len(Ending(t, Len(b))) = Len(b)
      /\ \A i \in 1..Len(b) : Ending(t, Len(b))[i] = t[Len(t) - Len(b) + i]
  BY <1>2, EndingProperties
<1>4. \A i \in 1..Len(a \o b) :
        (a \o b)[i] = t[Len(t) - Len(a \o b) + i]
  BY <1>2, EndingProperties
<1>5. ASSUME NEW i \in 1..Len(b)
      PROVE  b[i] = Ending(t, Len(b))[i]
  <2>1. /\ Len(a) + i \in 1..Len(a \o b) /\ ~(Len(a) + i <= Len(a))
        /\ Len(a) + i - Len(a) = i
        /\ Len(t) - Len(a \o b) + (Len(a) + i) = Len(t) - Len(b) + i
    BY <1>1
  <2>2. (a \o b)[Len(a) + i] = b[i]
    BY <1>1, <2>1
  <2>3. (a \o b)[Len(a) + i] = t[Len(t) - Len(b) + i]
    BY <1>4, <2>1
  <2>. QED
    BY <1>3, <2>2, <2>3
<1>6. b = Ending(t, Len(b))
  BY <1>3, <1>5, SeqEqual
<1>. QED
  BY <1>2, <1>6

(* What a sequence ends in, it ends in when both grow by the same.         *)
LEMMA EndingGrows ==
  ASSUME NEW S, NEW b \in Seq(S), NEW t \in Seq(S), NEW u \in Seq(S),
         Len(b) <= Len(t), b = Ending(t, Len(b))
  PROVE  Len(b \o u) <= Len(t \o u) /\ b \o u = Ending(t \o u, Len(b \o u))
<1>. DEFINE w == t \o u
            v == b \o u
<1>1. /\ Len(b) \in Nat /\ Len(t) \in Nat /\ Len(u) \in Nat
      /\ v \in Seq(S) /\ w \in Seq(S)
      /\ Len(v) = Len(b) + Len(u) /\ Len(w) = Len(t) + Len(u)
      /\ \A i \in 1..(Len(b) + Len(u)) :
           v[i] = IF i <= Len(b) THEN b[i] ELSE u[i - Len(b)]
      /\ \A i \in 1..(Len(t) + Len(u)) :
           w[i] = IF i <= Len(t) THEN t[i] ELSE u[i - Len(t)]
  BY LenProperties, ConcatProperties
<1>. HIDE DEF v, w
<1>2. Len(v) \in 0..Len(w) /\ Len(b) \in 0..Len(t)
  BY <1>1
<1>3. /\ Ending(w, Len(v)) \in Seq(S) /\ Len(Ending(w, Len(v))) = Len(v)
      /\ \A i \in 1..Len(v) : Ending(w, Len(v))[i] = w[Len(w) - Len(v) + i]
  BY <1>1, <1>2, EndingProperties
<1>4. \A i \in 1..Len(b) : b[i] = t[Len(t) - Len(b) + i]
  BY <1>2, EndingProperties
<1>5. ASSUME NEW i \in 1..Len(v)
      PROVE  v[i] = Ending(w, Len(v))[i]
  <2>. DEFINE k == Len(t) - Len(b) + i
  <2>0. /\ Len(b) \in Nat /\ Len(t) \in Nat /\ Len(u) \in Nat /\ i \in Nat
        /\ 1 <= i /\ i <= Len(b) + Len(u) /\ Len(b) <= Len(t)
        /\ Len(w) - Len(v) = Len(t) - Len(b)
    BY <1>1
  <2>1. k \in Nat /\ k = Len(t) - Len(b) + i /\ k \in 1..(Len(t) + Len(u))
    BY <2>0
  <2>2. Ending(w, Len(v))[i] = w[k]
    <3>1. Len(w) - Len(v) + i = k
      BY <2>0
    <3>. QED  BY <1>3, <3>1
  <2>. HIDE DEF k
  <2>3. CASE i <= Len(b)
    <3>1. k <= Len(t) /\ i \in 1..Len(b)
      BY <2>0, <2>1, <2>3
    <3>2. w[k] = t[k] /\ v[i] = b[i] /\ b[i] = t[k]
      BY <1>1, <1>4, <2>1, <2>3, <3>1
    <3>. QED
      BY <2>2, <3>2
  <2>4. CASE ~(i <= Len(b))
    <3>1. ~(k <= Len(t)) /\ k - Len(t) = i - Len(b)
      BY <2>0, <2>1, <2>4
    <3>2. w[k] = u[k - Len(t)] /\ v[i] = u[i - Len(b)]
      BY <1>1, <2>1, <2>4, <3>1
    <3>. QED
      BY <2>2, <3>1, <3>2
  <2>. QED
    BY <2>3, <2>4
<1>6. v = Ending(w, Len(v))
  BY <1>1, <1>3, <1>5, SeqEqual
<1>. QED
  BY <1>1, <1>2, <1>6 DEF v, w

LEMMA NoGapInit == Init => NoGap
<1>. SUFFICES ASSUME Init PROVE NoGap
  OBVIOUS
<1>1. backup \o current = <<>> /\ written = <<>> /\ Len(<<>>) = 0
  BY DEF Init, LogFileInit
<1>2. Ending(<<>>, 0) = <<>>
  BY SubSeqEmpty DEF Ending
<1>. QED
  BY <1>1, <1>2 DEF NoGap

(* Rolling when the log is opened, ...                                     *)
LEMMA NoGapOpenLog ==
  ASSUME TypeOK, NoGap, OpenLog
  PROVE  NoGap'
<1>1. /\ current \in Seq(LineType) /\ backup \in Seq(LineType)
      /\ written \in Seq(LineType)
  BY DEF TypeOK
<1>2. Len(current) <= Len(written) /\ current = Ending(written, Len(current))
  BY <1>1, EndingOfEnding DEF NoGap
<1>3. backup' = current /\ current' = <<>> /\ written' = written
  BY DEF OpenLog, RollFile
<1>4. backup' \o current' = current
  BY <1>1, <1>3, ConcatEmptySeq
<1>. QED
  BY <1>2, <1>3, <1>4 DEF NoGap

(* ... and when it has grown too long.                                     *)
LEMMA NoGapAppendFile ==
  ASSUME TypeOK, NoGap, NEW lines \in Seq(LineType), NEW bytes \in Nat,
         AppendFile(lines, bytes), written' = written \o lines
  PROVE  NoGap'
<1>1. /\ current \in Seq(LineType) /\ backup \in Seq(LineType)
      /\ written \in Seq(LineType) /\ backup \o current \in Seq(LineType)
      /\ current \o lines \in Seq(LineType)
  BY ConcatProperties DEF TypeOK
<1>2. CASE written_bytes + bytes > RollSize
  <2>1. backup' = current \o lines /\ current' = <<>>
    BY <1>2 DEF AppendFile, RollFile
  <2>2. backup' \o current' = current \o lines
    BY <1>1, <2>1, ConcatEmptySeq
  <2>3. Len(current) <= Len(written) /\ current = Ending(written, Len(current))
    BY <1>1, EndingOfEnding DEF NoGap
  <2>4. /\ Len(current \o lines) <= Len(written \o lines)
        /\ current \o lines = Ending(written \o lines, Len(current \o lines))
    BY <1>1, <2>3, EndingGrows
  <2>. QED
    BY <2>2, <2>4 DEF NoGap
<1>3. CASE ~(written_bytes + bytes > RollSize)
  <2>1. backup' = backup /\ current' = current \o lines
    BY <1>3 DEF AppendFile
  <2>2. backup' \o current' = (backup \o current) \o lines
    BY <1>1, <2>1, ConcatAssociative
  <2>3. LET kept == backup \o current
        IN  /\ Len(kept \o lines) <= Len(written \o lines)
            /\ kept \o lines = Ending(written \o lines, Len(kept \o lines))
    BY <1>1, EndingGrows DEF NoGap
  <2>. QED
    BY <2>2, <2>3 DEF NoGap
<1>. QED
  BY <1>2, <1>3

LEMMA NoGapNext == LoggingInv /\ NoGap /\ [Next]_vars => NoGap'
<1>. SUFFICES ASSUME LoggingInv, NoGap, [Next]_vars PROVE NoGap'
  OBVIOUS
<1>1. CASE UNCHANGED <<fileVars, written>>
  BY <1>1 DEF NoGap, fileVars
<1>2. CASE OpenLog
  BY <1>2, NoGapOpenLog DEF LoggingInv
<1>3. CASE WriteOne /\ ~UNCHANGED <<fileVars, written>>
  <2>. DEFINE buffer == buffers_to_write[writing]
  <2>1. /\ AppendFile(buffer.lines, buffer.len)
        /\ written' = written \o buffer.lines
    BY <1>3 DEF WriteOne
  <2>2. buffer \in BufferType
    <3>1. writing \in 1..Len(buffers_to_write) /\ buffers_to_write \in Seq(BufferType)
      BY <1>3, LenProperties DEF WriteOne, LoggingInv, TypeOK
    <3>. QED  BY <3>1, ElementOfSeq
  <2>3. buffer.lines \in Seq(LineType) /\ buffer.len \in Nat
    BY <2>2, LoggingAssumption DEF BufferType
  <2>. HIDE DEF buffer
  <2>. QED
    BY <2>1, <2>3, NoGapAppendFile DEF LoggingInv
<1>4. CASE Wait \/ WakeUp \/ Timeout
  BY <1>1, <1>4 DEF Wait, WakeUp, Timeout, Swap, historyVars
<1>5. CASE \E body \in Bodies : Log(body)
  BY <1>1, <1>5 DEF Log
<1>6. CASE Start \/ Stop \/ Join \/ CheckRunning \/ Refill
  BY <1>1, <1>6 DEF Start, Stop, Join, CheckRunning, Refill, historyVars
<1>7. CASE UNCHANGED vars
  BY <1>1, <1>7 DEF vars, historyVars
<1>. QED
  BY <1>1, <1>2, <1>3, <1>4, <1>5, <1>6, <1>7 DEF Next

(* Whatever rolls, at the start or on the way, backup and log are the last *)
(* lines the thread has written, without a gap (log_file.cpp:98-109).      *)
THEOREM RollingLeavesNoGap == Spec => []NoGap
<1>1. LoggingInv /\ NoGap /\ [Next]_vars => (LoggingInv /\ NoGap)'
  BY LoggingNext, NoGapNext
<1>. QED
  BY <1>1, InitStep, NoGapInit, PTL DEF Spec

-----------------------------------------------------------------------------
(* The bytes of lines.                                                     *)
Kept(lines) == [i \in DOMAIN lines |-> lines[i].kept]

LEMMA BytesIsTotal ==
  ASSUME NEW lines, IsFiniteSet(DOMAIN lines)
  PROVE  Bytes(lines) = Total(Kept(lines), DOMAIN lines)
<1>. DEFINE S == DOMAIN lines
            w == Kept(lines)
            Sums(g) == g = [s \in SUBSET S |->
                              IF s = {} THEN 0
                              ELSE lines[Pick(s)].kept + g[s \ {Pick(s)}]]
            f == CHOOSE g : Sums(g)
<1>1. Bytes(lines) = f[S]
  BY DEF Bytes, FoldSeq, FoldFunction, FoldFunctionOnSet, MapThenFoldSet, Pick
<1>2. \A s \in SUBSET S : s # {} => w[Pick(s)] = lines[Pick(s)].kept
  BY DEF Kept, Pick
<1>3. \A g : Sums(g) <=> SumsUp(g, w, S)
  <2>. TAKE g
  <2>1. [s \in SUBSET S |->
          IF s = {} THEN 0 ELSE lines[Pick(s)].kept + g[s \ {Pick(s)}]]
        = [s \in SUBSET S |->
          IF s = {} THEN 0 ELSE w[Pick(s)] + g[s \ {Pick(s)}]]
    <3>. HIDE DEF w
    <3>. QED  BY <1>2
  <2>. HIDE DEF w, S
  <2>. QED  BY <2>1 DEF SumsUp
<1>4. PICK h : SumsUp(h, w, S) /\ \A T \in SUBSET S : h[T] = Total(w, T)
  <2>. HIDE DEF w
  <2>. QED  BY TotalFunction
<1>5. SumsUp(f, w, S)
  <2>. HIDE DEF w, S, Sums
  <2>. QED  BY <1>3, <1>4
<1>6. f[S] = h[S]
  <2>. HIDE DEF f, w, S
  <2>. QED  BY <1>4, <1>5, SumsAgree DEF S
<1>. QED
  BY <1>1, <1>4, <1>6

LEMMA KeptOf ==
  ASSUME NEW lines \in Seq(LineType)
  PROVE  /\ DOMAIN lines = 1..Len(lines) /\ IsFiniteSet(DOMAIN lines)
         /\ Len(lines) \in Nat
         /\ \A i \in DOMAIN lines : Kept(lines)[i] = lines[i].kept
         /\ \A i \in DOMAIN lines : lines[i].kept \in Nat \ {0}
         /\ Weights(Kept(lines), DOMAIN lines)
<1>1. DOMAIN lines = 1..Len(lines) /\ Len(lines) \in Nat
  BY LenProperties
<1>2. \A i \in DOMAIN lines : lines[i] \in LineType
  BY <1>1, ElementOfSeq
<1>3. \A line \in LineType : line.kept \in Nat \ {0}
  BY LoggingAssumption DEF LineType
<1>4. IsFiniteSet(1..Len(lines))
  BY <1>1, FS_Interval
<1>5. \A i \in DOMAIN lines : /\ Kept(lines)[i] = lines[i].kept
                              /\ lines[i].kept \in Nat \ {0}
  BY <1>2, <1>3 DEF Kept
<1>. QED
  BY <1>1, <1>4, <1>5 DEF Weights

LEMMA BytesType ==
  ASSUME NEW lines \in Seq(LineType)
  PROVE  /\ Bytes(lines) \in Nat
         /\ lines = <<>> => Bytes(lines) = 0
         /\ Bytes(lines) = 0 => lines = <<>>
<1>. DEFINE S == DOMAIN lines
            w == Kept(lines)
<1>1. /\ S = 1..Len(lines) /\ IsFiniteSet(S) /\ Len(lines) \in Nat
      /\ \A i \in S : w[i] \in Nat \ {0}
      /\ Bytes(lines) = Total(w, S)
  BY KeptOf, BytesIsTotal
<1>. HIDE DEF w
<1>2. Total(w, S) \in Nat
  BY <1>1, TotalNat
<1>3. lines = <<>> => S = {}
  BY <1>1, EmptySeq
<1>4. ASSUME lines # <<>> PROVE Total(w, S) > 0
  <2>1. 1 \in S
    BY <1>1, <1>4, EmptySeq, LenProperties
  <2>. HIDE DEF S
  <2>2. Total(w, S \ {1}) = Total(w, S) - w[1]
    <3>1. Weights(w, S)
      BY <1>1 DEF Weights
    <3>. QED  BY <1>1, <2>1, <3>1, TotalWithout
  <2>3. Total(w, S \ {1}) \in Nat
    <3>1. IsFiniteSet(S \ {1})
      BY <1>1, FS_Subset
    <3>. QED  BY <1>1, <3>1, TotalNat
  <2>. QED  BY <1>1, <1>2, <2>1, <2>2, <2>3
<1>. QED
  BY <1>1, <1>2, <1>3, <1>4, TotalOfNone

LEMMA BytesConcat ==
  ASSUME NEW a \in Seq(LineType), NEW b \in Seq(LineType)
  PROVE  Bytes(a \o b) = Bytes(a) + Bytes(b)
<1>. DEFINE c == a \o b
            m == Len(a)
            n == Len(b)
            w == Kept(c)
            S == DOMAIN c
            T == 1..m
            I == 1..n
            f == [i \in I |-> m + i]
            N == {f[i] : i \in I}
            v == [i \in I |-> w[f[i]]]
<1>1. /\ c \in Seq(LineType) /\ Len(c) = m + n /\ m \in Nat /\ n \in Nat
      /\ \A i \in 1..m + n : c[i] = IF i <= m THEN a[i] ELSE b[i - m]
  BY ConcatProperties, LenProperties
<1>. HIDE DEF c
<1>2. /\ S = 1..m + n /\ IsFiniteSet(S) /\ Weights(w, S)
      /\ \A i \in S : w[i] = c[i].kept
  BY <1>1, KeptOf
<1>3. /\ T = DOMAIN a /\ \A i \in T : Kept(a)[i] = a[i].kept
      /\ 1..n = DOMAIN b /\ \A i \in 1..n : Kept(b)[i] = b[i].kept
      /\ IsFiniteSet(T) /\ IsFiniteSet(1..n)
  BY KeptOf
<1>. HIDE DEF w, S, m, n
<1>4. T \in SUBSET S
  BY <1>1, <1>2
<1>5. Total(w, S \ T) = Total(w, S) - Total(w, T)
  BY <1>2, <1>4, TotalSplit
<1>6. Total(w, T) = Bytes(a)
  <2>1. \A i \in T : w[i] = Kept(a)[i]
    BY <1>1, <1>2, <1>3, <1>4
  <2>. HIDE DEF T
  <2>2. Total(w, T) = Total(Kept(a), T)
    BY <1>3, <2>1, TotalCongruent
  <2>. QED  BY <1>3, <2>2, BytesIsTotal
<1>7. Total(w, S \ T) = Bytes(b)
  <2>1. S \ T = N
    <3>1. \A k \in S \ T : k - m \in 1..n /\ k = m + (k - m)
      BY <1>1, <1>2
    <3>2. \A i \in 1..n : m + i \in S \ T
      BY <1>1, <1>2
    <3>. QED  BY <3>1, <3>2
  <2>2. \A i, j \in 1..n : f[i] = f[j] => i = j
    BY <1>1
  <2>3. \A i \in 1..n : w[f[i]] = Kept(b)[i] /\ w[f[i]] \in Int
    <3>. TAKE i \in 1..n
    <3>1. f[i] = m + i /\ m + i \in S /\ m + i \in 1..m + n /\ ~(m + i <= m)
          /\ (m + i) - m = i
      BY <1>1, <1>2
    <3>. HIDE DEF f
    <3>2. c[m + i] = b[i]
      BY <1>1, <3>1
    <3>3. w[m + i] = c[m + i].kept /\ w[m + i] \in Int
      BY <1>2, <3>1 DEF Weights
    <3>. QED  BY <1>3, <3>1, <3>2, <3>3
  <2>4. Total(w, N) = Total(v, I)
    <3>1. IsFiniteSet(I) /\ \A i \in I : w[f[i]] \in Int
      BY <1>3, <2>3
    <3>2. \A i, j \in I : f[i] = f[j] => i = j
      BY <2>2
    <3>. HIDE DEF f, I
    <3>. QED  BY <3>1, <3>2, TotalReindexed
  <2>5. \A i \in 1..n : v[i] = Kept(b)[i]
    BY <2>3
  <2>. HIDE DEF f, v
  <2>6. Total(v, 1..n) = Total(Kept(b), 1..n)
    BY <1>3, <2>5, TotalCongruent
  <2>. QED  BY <1>3, <2>1, <2>4, <2>6, BytesIsTotal
<1>8. Bytes(c) = Total(w, S)
  BY <1>2, BytesIsTotal DEF w, S
<1>9. Bytes(a) \in Int /\ Bytes(b) \in Int /\ Total(w, S) \in Int
  BY <1>1, <1>8, BytesType
<1>. QED
  BY <1>5, <1>6, <1>7, <1>8, <1>9 DEF c

LEMMA BytesAppend ==
  ASSUME NEW a \in Seq(LineType), NEW line \in LineType
  PROVE  Bytes(Append(a, line)) = Bytes(a) + line.kept
<1>. DEFINE one == <<line>>
            w == Kept(one)
<1>1. one \in Seq(LineType) /\ Append(a, line) = a \o one
  BY AppendIsConcat
<1>2. DOMAIN one = {1} /\ one[1] = line
  OBVIOUS
<1>3. Bytes(one) = Total(w, {1}) /\ w[1] = line.kept /\ Weights(w, {1})
  <2>. HIDE DEF one
  <2>. QED  BY <1>1, <1>2, KeptOf, BytesIsTotal
<1>. HIDE DEF w, one
<1>4. Total(w, {1} \ {1}) = Total(w, {1}) - w[1]
  BY <1>3, FS_Singleton, TotalWithout
<1>5. Total(w, {1} \ {1}) = 0
  <2>1. {1} \ {1} = {}
    OBVIOUS
  <2>. QED  BY <2>1, TotalOfNone
<1>6. Total(w, {1}) \in Int /\ w[1] \in Int
  BY <1>3, FS_Singleton, TotalType DEF Weights
<1>7. Bytes(one) = line.kept
  BY <1>3, <1>4, <1>5, <1>6
<1>. QED
  BY <1>1, <1>7, BytesConcat
-----------------------------------------------------------------------------
(* A buffer counts the bytes of its lines, ...                             *)
Counted(buffer) == buffer.len = Bytes(buffer.lines)
BuffersCounted ==
  /\ pc # "off" => Counted(cur_buffer)
  /\ \A i \in DOMAIN buffers : Counted(buffers[i])
  /\ \A i \in DOMAIN buffers_to_write : Counted(buffers_to_write[i])

(* ... and so does the file that grows, which is rolled in time.           *)
FilesBounded ==
  /\ written_bytes = Bytes(current) /\ Bytes(current) <= RollSize
  /\ Bytes(backup) <= RollSize + kLargeBuffer

(* What the two files hold is enough.                                      *)
EnoughKept ==
  \/ pc = "start"
  \/ Bytes(backup \o current) > RollSize
  \/ Len(backup \o current) >= Len(written) - opened

RollInv == BuffersCounted /\ FilesBounded /\ EnoughKept

LEMMA EmptyCounted == Counted(Empty)
BY EmptySeq, BytesType DEF Counted, Empty

LEMMA AppendedCounted ==
  ASSUME NEW buffer \in BufferType, Valid(buffer) >= 1, NEW line \in LineType,
         Counted(buffer)
  PROVE  Counted(Appended(buffer, line))
<1>. DEFINE size == Shorter(Valid(buffer), line.len)
            stored == [line EXCEPT !.kept = size]
<1>1. /\ buffer.len \in 0..kLargeBuffer /\ buffer.lines \in Seq(LineType)
      /\ line.len \in 1..kSmallBuffer
  BY DEF BufferType, LineType
<1>2. size \in 1..kSmallBuffer
  BY <1>1, LoggingAssumption DEF Shorter, Valid
<1>3. stored \in LineType /\ stored.kept = size
  <2>. HIDE DEF size
  <2>. QED  BY <1>2 DEF LineType
<1>4. /\ Appended(buffer, line).lines = Append(buffer.lines, stored)
      /\ Appended(buffer, line).len = buffer.len + size
  BY DEF Appended
<1>5. Bytes(Append(buffer.lines, stored)) = Bytes(buffer.lines) + stored.kept
  <2>. HIDE DEF stored
  <2>. QED  BY <1>1, <1>3, BytesAppend
<1>. QED
  BY <1>3, <1>4, <1>5 DEF Counted

LEMMA RollInit == Init => RollInv
<1>. SUFFICES ASSUME Init PROVE RollInv
  OBVIOUS
<1>1. /\ current = <<>> /\ backup = <<>> /\ written = <<>>
      /\ buffers = <<>> /\ buffers_to_write = <<>> /\ pc = "off"
      /\ written_bytes = 0 /\ opened = 0
  BY DEF Init, LogFileInit
<1>2. Bytes(<<>>) = 0 /\ Len(<<>>) = 0
  BY EmptySeq, BytesType
<1>3. BuffersCounted
  BY <1>1 DEF BuffersCounted
<1>4. FilesBounded
  BY <1>1, <1>2, LoggingAssumption, LogFileAssumption DEF FilesBounded
<1>5. EnoughKept
  <2>1. backup \o current = <<>>
    BY <1>1
  <2>. QED  BY <1>1, <1>2, <2>1 DEF EnoughKept
<1>. QED
  BY <1>3, <1>4, <1>5 DEF RollInv

LEMMA RollLog ==
  ASSUME LoggingInv, RollInv, NEW body \in Bodies, Log(body)
  PROVE  RollInv'
<1>. DEFINE line == Line(body)
<1>1. TypeOK /\ pc # "off" /\ line \in LineType /\ AppendLine(line)
  BY LineIsTyped DEF LoggingInv, Log
<1>. HIDE DEF line
<1>2. UNCHANGED <<current, backup, written_bytes, buffers_to_write, pc, written,
                  opened>>
  BY DEF Log, fileVars, threadVars
<1>3. /\ cur_buffer \in BufferType /\ Counted(cur_buffer)
      /\ buffers \in Seq(BufferType)
      /\ next_buffer \in {Null, Empty} /\ line.len \in 1..kSmallBuffer
      /\ \A i \in DOMAIN buffers : Counted(buffers[i])
  BY <1>1 DEF TypeOK, LoggingInv, SparesInv, SparesEmpty, RollInv, BuffersCounted,
              LineType
<1>4. /\ Counted(cur_buffer')
      /\ \A i \in DOMAIN buffers' : Counted(buffers'[i])
  <2>1. CASE Valid(cur_buffer) > line.len
    <3>1. Valid(cur_buffer) >= 1
      BY <1>3, <2>1, LoggingAssumption DEF Valid, BufferType
    <3>2. cur_buffer' = Appended(cur_buffer, line) /\ buffers' = buffers
      BY <1>1, <2>1 DEF AppendLine
    <3>. QED
      BY <1>1, <1>3, <3>1, <3>2, AppendedCounted
  <2>2. CASE ~(Valid(cur_buffer) > line.len)
    <3>1. /\ buffers' = Append(buffers, cur_buffer)
          /\ cur_buffer' = Appended(Empty, line)
      BY <1>1, <1>3, <2>2 DEF AppendLine
    <3>2. Valid(Empty) >= 1
      BY EmptyType, LoggingAssumption DEF Valid, Empty
    <3>3. Counted(cur_buffer')
      BY <1>1, <3>1, <3>2, EmptyType, EmptyCounted, AppendedCounted
    <3>4. \A i \in DOMAIN buffers' : Counted(buffers'[i])
      <4>1. /\ Len(buffers) \in Nat /\ DOMAIN buffers = 1..Len(buffers)
            /\ DOMAIN buffers' = 1..Len(buffers) + 1
            /\ \A i \in 1..Len(buffers) : buffers'[i] = buffers[i]
            /\ buffers'[Len(buffers) + 1] = cur_buffer
        BY <1>3, <3>1, AppendProperties, LenProperties
      <4>. QED  BY <1>3, <4>1
    <3>. QED
      BY <3>3, <3>4
  <2>. QED
    BY <2>1, <2>2
<1>. QED
  BY <1>2, <1>4 DEF RollInv, BuffersCounted, FilesBounded, EnoughKept

(* Rolling when the log is opened, ...                                     *)
LEMMA RollOpenLog ==
  ASSUME LoggingInv, RollInv, OpenLog
  PROVE  RollInv'
<1>1. /\ backup' = current /\ current' = <<>> /\ written_bytes' = 0
      /\ buffers_to_write' = <<>> /\ pc = "start" /\ pc' = "check"
      /\ opened' = Len(written)
      /\ UNCHANGED <<cur_buffer, buffers, written>>
  BY DEF OpenLog, RollFile, sharedVars
<1>2. /\ current \in Seq(LineType) /\ Len(current) \in Nat /\ Len(written) \in Nat
  BY LenProperties DEF LoggingInv, TypeOK
<1>3. Bytes(<<>>) = 0 /\ Bytes(current) \in Nat
  BY <1>2, EmptySeq, BytesType
<1>4. BuffersCounted'
  BY <1>1 DEF RollInv, BuffersCounted
<1>5. FilesBounded'
  BY <1>1, <1>3, LoggingAssumption, LogFileAssumption DEF RollInv, FilesBounded
<1>6. EnoughKept'
  <2>1. backup' \o current' = current
    BY <1>1, <1>2, ConcatEmptySeq
  <2>. QED  BY <1>1, <1>2, <2>1 DEF EnoughKept
<1>. QED
  BY <1>4, <1>5, <1>6 DEF RollInv

(* ... and when what is added makes it too long.                           *)
LEMMA RollAppendFile ==
  ASSUME TypeOK, FilesBounded, EnoughKept, pc # "start",
         NEW lines \in Seq(LineType), NEW bytes \in 0..kLargeBuffer,
         bytes = Bytes(lines), AppendFile(lines, bytes),
         written' = written \o lines, opened' = opened
  PROVE  FilesBounded' /\ EnoughKept'
<1>. DEFINE kept == backup \o current
<1>1. /\ current \in Seq(LineType) /\ backup \in Seq(LineType)
      /\ kept \in Seq(LineType) /\ kept \o lines \in Seq(LineType)
      /\ current \o lines \in Seq(LineType) /\ opened \in Nat
      /\ written \in Seq(LineType)
  BY ConcatProperties DEF TypeOK
<1>2. /\ Bytes(current \o lines) = Bytes(current) + bytes
      /\ Bytes(kept \o lines) = Bytes(kept) + bytes
      /\ Bytes(current) \in Nat /\ Bytes(kept) \in Nat
      /\ bytes \in Nat /\ bytes <= kLargeBuffer
  <2>. HIDE DEF kept
  <2>. QED  BY <1>1, BytesConcat, BytesType, LoggingAssumption
<1>3. CASE written_bytes + bytes > RollSize
  <2>1. backup' = current \o lines /\ current' = <<>> /\ written_bytes' = 0
    BY <1>3 DEF AppendFile, RollFile
  <2>2. backup' \o current' = current \o lines
    BY <1>1, <2>1, ConcatEmptySeq
  <2>3. Bytes(<<>>) = 0
    BY EmptySeq, BytesType
  <2>4. Bytes(current) + bytes > RollSize
        /\ Bytes(current) + bytes <= RollSize + kLargeBuffer
    BY <1>2, <1>3, LoggingAssumption, LogFileAssumption DEF FilesBounded
  <2>. QED
    BY <1>2, <2>1, <2>2, <2>3, <2>4, LogFileAssumption DEF FilesBounded, EnoughKept
<1>4. CASE ~(written_bytes + bytes > RollSize)
  <2>1. /\ backup' = backup /\ current' = current \o lines
        /\ written_bytes' = written_bytes + bytes
    BY <1>4 DEF AppendFile
  <2>2. FilesBounded'
    BY <1>2, <1>4, <2>1, LogFileAssumption DEF FilesBounded
  <2>3. backup' \o current' = kept \o lines
    <3>1. backup \o (current \o lines) = (backup \o current) \o lines
      BY <1>1, ConcatAssociative
    <3>. QED  BY <2>1, <3>1
  <2>4. /\ Len(kept \o lines) = Len(kept) + Len(lines)
        /\ Len(written \o lines) = Len(written) + Len(lines)
        /\ Len(kept) \in Nat /\ Len(lines) \in Nat /\ Len(written) \in Nat
    <3>. HIDE DEF kept
    <3>. QED  BY <1>1, ConcatProperties, LenProperties
  <2>5. \/ Bytes(kept) > RollSize
        \/ Len(kept) >= Len(written) - opened
    BY DEF EnoughKept
  <2>6. \/ Bytes(kept \o lines) > RollSize
        \/ Len(kept \o lines) >= Len(written \o lines) - opened
    <3>. HIDE DEF kept
    <3>1. CASE Bytes(kept) > RollSize
      BY <1>2, <3>1, LogFileAssumption
    <3>2. CASE Len(kept) >= Len(written) - opened
      BY <1>1, <2>4, <3>2
    <3>. QED  BY <2>5, <3>1, <3>2
  <2>. QED
    BY <2>2, <2>3, <2>6 DEF EnoughKept
<1>. QED
  BY <1>3, <1>4

LEMMA RollWriteOne ==
  ASSUME LoggingInv, RollInv, WriteOne
  PROVE  RollInv'
<1>. DEFINE buffer == buffers_to_write[writing]
<1>1. /\ pc = "write" /\ pc' = pc /\ opened' = opened
      /\ UNCHANGED <<cur_buffer, buffers>>
  BY DEF WriteOne, sharedVars
<1>2. /\ writing \in 1..Len(buffers_to_write)
      /\ buffers_to_write \in Seq(BufferType)
      /\ DOMAIN buffers_to_write = 1..Len(buffers_to_write)
  BY LenProperties DEF WriteOne, LoggingInv, TypeOK
<1>3. buffer \in BufferType /\ Counted(buffer)
  BY <1>2, ElementOfSeq DEF RollInv, BuffersCounted
<1>4. CASE buffer.len > 0
  <2>1. /\ AppendFile(buffer.lines, buffer.len)
        /\ written' = written \o buffer.lines
        /\ buffers_to_write' = [buffers_to_write EXCEPT ![writing] = Empty]
    BY <1>4 DEF WriteOne
  <2>2. \A i \in DOMAIN buffers_to_write' : Counted(buffers_to_write'[i])
    BY <1>2, <2>1, EmptyCounted DEF RollInv, BuffersCounted
  <2>3. /\ buffer.lines \in Seq(LineType) /\ buffer.len \in 0..kLargeBuffer
        /\ buffer.len = Bytes(buffer.lines)
    BY <1>3 DEF BufferType, Counted
  <2>. HIDE DEF buffer
  <2>4. FilesBounded' /\ EnoughKept'
    BY <1>1, <2>1, <2>3, RollAppendFile DEF LoggingInv, RollInv
  <2>. QED
    BY <1>1, <2>2, <2>4 DEF RollInv, BuffersCounted
<1>5. CASE ~(buffer.len > 0)
  <2>1. UNCHANGED <<current, backup, written_bytes, written, buffers_to_write>>
    BY <1>5 DEF WriteOne, fileVars
  <2>. QED
    BY <1>1, <2>1 DEF RollInv, BuffersCounted, FilesBounded, EnoughKept
<1>. QED
  BY <1>4, <1>5

LEMMA RollSwap ==
  ASSUME LoggingInv, RollInv, pc \in {"wait", "blocked"}, Swap
  PROVE  RollInv'
<1>1. /\ buffers \in Seq(BufferType) /\ cur_buffer \in BufferType
      /\ temp_buffer1 = Empty /\ buffers_to_write = <<>>
  BY DEF LoggingInv, TypeOK, SparesInv, Rested
<1>2. /\ buffers_to_write' = Append(buffers, cur_buffer) /\ buffers' = <<>>
      /\ cur_buffer' = Empty /\ pc' = "write"
      /\ UNCHANGED <<current, backup, written_bytes, written, opened>>
  BY <1>1 DEF Swap, TakeBuffers, GiveSpares, fileVars, historyVars
<1>3. /\ Len(buffers) \in Nat /\ DOMAIN buffers = 1..Len(buffers)
      /\ DOMAIN buffers_to_write' = 1..Len(buffers) + 1
      /\ \A i \in 1..Len(buffers) : buffers_to_write'[i] = buffers[i]
      /\ buffers_to_write'[Len(buffers) + 1] = cur_buffer
  BY <1>1, <1>2, AppendProperties, LenProperties
<1>4. Counted(cur_buffer) /\ \A i \in DOMAIN buffers : Counted(buffers[i])
  BY DEF RollInv, BuffersCounted
<1>5. BuffersCounted'
  <2>1. \A i \in DOMAIN buffers_to_write' : Counted(buffers_to_write'[i])
    BY <1>3, <1>4
  <2>. QED  BY <1>2, <2>1, EmptyCounted DEF BuffersCounted
<1>. QED
  BY <1>2, <1>5 DEF RollInv, FilesBounded, EnoughKept

LEMMA RollNext == LoggingInv /\ RollInv /\ [Next]_vars => RollInv'
<1>. SUFFICES ASSUME LoggingInv, RollInv, [Next]_vars PROVE RollInv'
  OBVIOUS
<1>1. CASE UNCHANGED <<fileVars, written, opened, pc, cur_buffer, buffers,
                       buffers_to_write>>
  BY <1>1 DEF RollInv, BuffersCounted, FilesBounded, EnoughKept, fileVars
<1>2. CASE Swap /\ pc \in {"wait", "blocked"}
  BY <1>2, RollSwap
<1>3. CASE Wait /\ buffers = <<>>
  BY <1>3 DEF Wait, fileVars, sharedVars, threadVars, historyVars, RollInv,
              BuffersCounted, FilesBounded, EnoughKept
<1>4. CASE Start
  BY <1>4, EmptyCounted DEF Start, fileVars, threadVars, RollInv, BuffersCounted,
                            FilesBounded, EnoughKept
<1>5. CASE Join
  BY <1>5 DEF Join, fileVars, threadVars, historyVars, RollInv, BuffersCounted,
              FilesBounded, EnoughKept
<1>6. CASE CheckRunning
  <2>1. /\ UNCHANGED <<fileVars, written, opened, cur_buffer, buffers,
                       buffers_to_write>>
        /\ pc = "check" /\ pc' # "off"
    BY <1>6 DEF CheckRunning, sharedVars, threadVars, historyVars
  <2>. QED
    BY <2>1 DEF fileVars, RollInv, BuffersCounted, FilesBounded, EnoughKept
<1>9. CASE Refill
  <2>1. /\ UNCHANGED <<fileVars, written, opened, cur_buffer, buffers>>
        /\ pc = "write" /\ pc' = "check" /\ buffers_to_write' = <<>>
    BY <1>9 DEF Refill, sharedVars, historyVars
  <2>. QED
    BY <2>1 DEF fileVars, RollInv, BuffersCounted, FilesBounded, EnoughKept
<1>7. CASE Stop \/ UNCHANGED vars
  BY <1>1, <1>7 DEF Stop, vars, sharedVars, threadVars, historyVars
<1>8. CASE Wait \/ WakeUp \/ Timeout
  BY <1>2, <1>3, <1>8 DEF Wait, WakeUp, Timeout
<1>. QED
  BY <1>4, <1>5, <1>6, <1>7, <1>8, <1>9, RollLog, RollOpenLog, RollWriteOne DEF Next

(* Rolling keeps the end of the log, whatever its size and that of the     *)
(* buffers: the two files hold the last lines written without a gap, all   *)
(* since the log was opened or more than RollSize bytes of them, and       *)
(* neither outgrows RollSize by more than a buffer (log_file.cpp:47-66).   *)
THEOREM RecentLinesStay == Spec => []RecentLinesKept
<1>. DEFINE Inv == LoggingInv /\ NoGap /\ RollInv
<1>1. Init => Inv
  BY InitStep, NoGapInit, RollInit
<1>2. Inv /\ [Next]_vars => Inv'
  BY LoggingNext, NoGapNext, RollNext
<1>3. Inv => RecentLinesKept
  <2>. SUFFICES ASSUME Inv PROVE RecentLinesKept
    OBVIOUS
  <2>. QED  BY DEF RecentLinesKept, RollInv, FilesBounded, EnoughKept
<1>. QED
  BY <1>1, <1>2, <1>3, PTL DEF Spec

-----------------------------------------------------------------------------
(* FlattenSeq, whose recursive function is g.                              *)
Flattens(g, seqs, n) ==
  g = [i \in 1..n |-> IF i = 1 THEN seqs[i] ELSE g[i-1] \o seqs[i]]

LEMMA FlattenExists ==
  ASSUME NEW seqs, NEW N \in Nat
  PROVE  \E g : Flattens(g, seqs, N)
<1>. DEFINE Missing == {n \in Nat : ~ \E g : Flattens(g, seqs, n)}
<1>. SUFFICES ASSUME Missing # {} PROVE FALSE
  OBVIOUS
<1>1. PICK n \in Missing : \A k \in Missing : n <= k
  BY LeastNumber
<1>2. CASE n = 0
  <2>. DEFINE g == [i \in 1..0 |-> <<>>]
  <2>1. Flattens(g, seqs, 0)
    BY DEF Flattens
  <2>. QED  BY <1>1, <1>2, <2>1
<1>3. CASE n # 0
  <2>1. n - 1 \in Nat /\ ~(n <= n - 1) /\ n \in Nat
    BY <1>1, <1>3
  <2>2. n - 1 \notin Missing
    <3>. HIDE DEF Missing
    <3>. QED  BY <1>1, <2>1
  <2>3. PICK g : Flattens(g, seqs, n - 1)
    BY <2>1, <2>2
  <2>. DEFINE h == [i \in 1..n |-> IF i = 1 THEN seqs[i] ELSE g[i-1] \o seqs[i]]
  <2>4. \A i \in 1..(n - 1) : g[i] = IF i = 1 THEN seqs[i] ELSE g[i-1] \o seqs[i]
    BY <2>3 DEF Flattens
  <2>5. \A i \in 1..(n - 1) : h[i] = g[i]
    <3>1. \A i \in 1..(n - 1) : i \in 1..n
      BY <2>1
    <3>. QED  BY <2>4, <3>1
  <2>6. \A i \in 1..n : i # 1 => i - 1 \in 1..(n - 1)
    BY <2>1
  <2>7. \A i \in 1..n : (IF i = 1 THEN seqs[i] ELSE g[i-1] \o seqs[i])
                        = IF i = 1 THEN seqs[i] ELSE h[i-1] \o seqs[i]
    <3>. HIDE DEF h
    <3>. QED  BY <2>5, <2>6
  <2>8. h = [i \in 1..n |-> IF i = 1 THEN seqs[i] ELSE h[i-1] \o seqs[i]]
    <3>1. PICK k : k = h
      OBVIOUS
    <3>2. \A i \in 1..n : (IF i = 1 THEN seqs[i] ELSE g[i-1] \o seqs[i])
                          = IF i = 1 THEN seqs[i] ELSE k[i-1] \o seqs[i]
      BY <2>7, <3>1
    <3>3. k = [i \in 1..n |-> IF i = 1 THEN seqs[i] ELSE g[i-1] \o seqs[i]]
      BY <3>1
    <3>4. k = [i \in 1..n |-> IF i = 1 THEN seqs[i] ELSE k[i-1] \o seqs[i]]
      BY <3>2, <3>3
    <3>. HIDE DEF h
    <3>. QED  BY <3>1, <3>4
  <2>9. Flattens(h, seqs, n)
    <3>. HIDE DEF h
    <3>. QED  BY <2>8 DEF Flattens
  <2>. HIDE DEF h
  <2>. QED  BY <1>1, <2>9
<1>. QED
  BY <1>2, <1>3

(* What it computes for every beginning of seqs.                           *)
Flattened(g, seqs) ==
  \A i \in 1..Len(seqs) : g[i] = IF i = 1 THEN seqs[i] ELSE g[i-1] \o seqs[i]

LEMMA FlattenFunction ==
  ASSUME NEW S, NEW seqs \in Seq(Seq(S))
  PROVE  \E g : /\ Flattened(g, seqs)
                /\ \A i \in 1..Len(seqs) : g[i] \in Seq(S)
                /\ Len(seqs) = 0 => FlattenSeq(seqs) = <<>>
                /\ Len(seqs) # 0 => FlattenSeq(seqs) = g[Len(seqs)]
<1>. DEFINE f == CHOOSE g : Flattens(g, seqs, Len(seqs))
<1>1. Len(seqs) \in Nat /\ \A i \in 1..Len(seqs) : seqs[i] \in Seq(S)
  BY LenProperties, ElementOfSeq
<1>2. Flattens(f, seqs, Len(seqs))
  BY <1>1, FlattenExists
<1>3. FlattenSeq(seqs) = IF Len(seqs) = 0 THEN seqs ELSE f[Len(seqs)]
  BY DEF FlattenSeq, Flattens
<1>4. Len(seqs) = 0 => seqs = <<>>
  BY EmptySeq
<1>. HIDE DEF f
<1>5. \A i \in 1..Len(seqs) : f[i] = IF i = 1 THEN seqs[i] ELSE f[i-1] \o seqs[i]
  BY <1>2 DEF Flattens
<1>. DEFINE Bad == {i \in 1..Len(seqs) : f[i] \notin Seq(S)}
<1>6. Bad = {}
  <2>. SUFFICES ASSUME Bad # {} PROVE FALSE
    OBVIOUS
  <2>1. PICK n \in Bad : \A k \in Bad : n <= k
    <3>1. Bad \in SUBSET Nat
      BY <1>1
    <3>. HIDE DEF Bad
    <3>. QED  BY <3>1, LeastNumber
  <2>2. n \in 1..Len(seqs) /\ f[n] \notin Seq(S)
    BY <2>1
  <2>3. n # 1
    BY <1>1, <1>5, <2>2
  <2>4. n - 1 \in 1..Len(seqs) /\ ~(n <= n - 1)
    BY <1>1, <2>2, <2>3
  <2>5. f[n - 1] \in Seq(S)
    BY <2>1, <2>4
  <2>6. f[n - 1] \o seqs[n] \in Seq(S)
    BY <1>1, <2>2, <2>5, ConcatProperties
  <2>. QED  BY <1>5, <2>2, <2>3, <2>6
<1>. QED
  BY <1>3, <1>4, <1>5, <1>6 DEF Flattened

LEMMA FlattenNone == FlattenSeq(<<>>) = <<>>
<1>1. Len(<<>>) = 0
  BY EmptySeq
<1>. QED
  BY <1>1 DEF FlattenSeq

LEMMA FlattenType ==
  ASSUME NEW S, NEW seqs \in Seq(Seq(S))
  PROVE  FlattenSeq(seqs) \in Seq(S)
<1>1. Len(seqs) \in Nat /\ <<>> \in Seq(S)
  BY LenProperties, EmptySeq
<1>. QED
  BY <1>1, FlattenFunction

(* The last sequence comes last.                                           *)
LEMMA FlattenAppend ==
  ASSUME NEW S, NEW seqs \in Seq(Seq(S)), NEW s \in Seq(S)
  PROVE  FlattenSeq(Append(seqs, s)) = FlattenSeq(seqs) \o s
<1>. DEFINE more == Append(seqs, s)
            n == Len(seqs)
<1>1. /\ more \in Seq(Seq(S)) /\ n \in Nat /\ Len(more) = n + 1
      /\ \A i \in 1..n : more[i] = seqs[i]
      /\ more[n + 1] = s
  BY AppendProperties, LenProperties
<1>. HIDE DEF more
<1>2. PICK g : /\ Flattened(g, seqs)
               /\ n = 0 => FlattenSeq(seqs) = <<>>
               /\ n # 0 => FlattenSeq(seqs) = g[n]
  BY FlattenFunction
<1>3. PICK h : Flattened(h, more) /\ FlattenSeq(more) = h[n + 1]
  BY <1>1, FlattenFunction
<1>. HIDE DEF n
<1>4. /\ \A i \in 1..n : g[i] = IF i = 1 THEN seqs[i] ELSE g[i-1] \o seqs[i]
      /\ \A i \in 1..(n + 1) : h[i] = IF i = 1 THEN more[i] ELSE h[i-1] \o more[i]
  BY <1>1, <1>2, <1>3 DEF Flattened, n
<1>5. \A i \in 1..n : h[i] = g[i]
  <2>. DEFINE Bad == {i \in 1..n : h[i] # g[i]}
  <2>. SUFFICES ASSUME Bad # {} PROVE FALSE
    OBVIOUS
  <2>1. PICK k \in Bad : \A j \in Bad : k <= j
    <3>1. Bad \in SUBSET Nat
      BY <1>1
    <3>. HIDE DEF Bad
    <3>. QED  BY <3>1, LeastNumber
  <2>2. k \in 1..n /\ k \in 1..(n + 1) /\ h[k] # g[k]
    BY <1>1, <2>1
  <2>3. k # 1
    BY <1>1, <1>4, <2>2
  <2>4. k - 1 \in 1..n /\ ~(k <= k - 1)
    BY <1>1, <2>2, <2>3
  <2>5. h[k - 1] = g[k - 1]
    BY <2>1, <2>4
  <2>. QED  BY <1>1, <1>4, <2>2, <2>3, <2>5
<1>6. n + 1 \in 1..(n + 1) /\ (n + 1) - 1 = n
  BY <1>1
<1>7. CASE n = 0
  <2>1. h[n + 1] = s
    BY <1>1, <1>4, <1>6, <1>7
  <2>2. <<>> \o s = s
    BY ConcatEmptySeq
  <2>. QED  BY <1>2, <1>3, <1>7, <2>1, <2>2 DEF more
<1>8. CASE n # 0
  <2>1. n + 1 # 1 /\ n \in 1..n
    BY <1>1, <1>8
  <2>2. h[n + 1] = h[n] \o s
    BY <1>1, <1>4, <1>6, <2>1
  <2>. QED  BY <1>2, <1>3, <1>5, <1>8, <2>1, <2>2 DEF more
<1>. QED
  BY <1>7, <1>8

(* Empty ones at the beginning add nothing.                                *)
LEMMA FlattenNothing ==
  ASSUME NEW S, NEW seqs \in Seq(Seq(S)), NEW m \in 0..Len(seqs),
         \A i \in 1..m : seqs[i] = <<>>,
         NEW g, Flattened(g, seqs)
  PROVE  \A i \in 1..m : g[i] = <<>>
<1>. DEFINE Bad == {i \in 1..m : g[i] # <<>>}
<1>. SUFFICES ASSUME Bad # {} PROVE FALSE
  OBVIOUS
<1>0. Len(seqs) \in Nat
  BY LenProperties
<1>1. PICK k \in Bad : \A j \in Bad : k <= j
  <2>1. Bad \in SUBSET Nat
    BY <1>0
  <2>. HIDE DEF Bad
  <2>. QED  BY <2>1, LeastNumber
<1>2. k \in 1..m /\ k \in 1..Len(seqs) /\ g[k] # <<>> /\ seqs[k] = <<>>
  BY <1>0, <1>1
<1>3. g[k] = IF k = 1 THEN <<>> ELSE g[k - 1] \o <<>>
  BY <1>2 DEF Flattened
<1>4. k # 1
  BY <1>2, <1>3
<1>5. k - 1 \in 1..m /\ ~(k <= k - 1)
  BY <1>0, <1>2, <1>4
<1>6. g[k - 1] = <<>>
  BY <1>1, <1>5
<1>7. <<>> \o <<>> = <<>>
  OBVIOUS
<1>. QED
  BY <1>2, <1>3, <1>4, <1>6, <1>7

(* What differs by what comes first differs by no more after both grow.    *)
Together(S, s, g, h, t, k, n) ==
  /\ s \in Seq(S) /\ k \in Nat /\ n \in Nat
  /\ \A i \in k..n : h[i] \in Seq(S) /\ t[i] \in Seq(S)
  /\ g[k] = s \o h[k]
  /\ \A i \in k..n : i # k => /\ g[i] = g[i-1] \o t[i]
                              /\ h[i] = h[i-1] \o t[i]

LEMMA GrowTogether ==
  ASSUME NEW S, NEW s, NEW g, NEW h, NEW t, NEW k, NEW n,
         Together(S, s, g, h, t, k, n)
  PROVE  \A i \in k..n : g[i] = s \o h[i]
<1>0. /\ s \in Seq(S) /\ k \in Nat /\ n \in Nat
      /\ \A i \in k..n : h[i] \in Seq(S) /\ t[i] \in Seq(S)
      /\ g[k] = s \o h[k]
      /\ \A i \in k..n : i # k => /\ g[i] = g[i-1] \o t[i]
                                  /\ h[i] = h[i-1] \o t[i]
  BY DEF Together
<1>. DEFINE Bad == {i \in k..n : g[i] # s \o h[i]}
<1>. SUFFICES ASSUME Bad # {} PROVE FALSE
  OBVIOUS
<1>1. PICK j \in Bad : \A i \in Bad : j <= i
  <2>1. Bad \in SUBSET Nat
    BY <1>0
  <2>. HIDE DEF Bad
  <2>. QED  BY <2>1, LeastNumber
<1>2. j \in k..n /\ j # k /\ g[j] # s \o h[j]
  BY <1>0, <1>1
<1>3. j - 1 \in k..n /\ ~(j <= j - 1)
  BY <1>0, <1>2
<1>4. g[j - 1] = s \o h[j - 1]
  BY <1>1, <1>3
<1>5. /\ h[j - 1] \in Seq(S) /\ t[j] \in Seq(S)
      /\ g[j] = g[j - 1] \o t[j] /\ h[j] = h[j - 1] \o t[j]
  BY <1>0, <1>2, <1>3
<1>. HIDE DEF Bad
<1>6. PICK x, y : x = h[j - 1] /\ y = t[j]
  OBVIOUS
<1>7. (s \o x) \o y = s \o (x \o y)
  <2>1. x \in Seq(S) /\ y \in Seq(S)
    BY <1>5, <1>6
  <2>. QED  BY <1>0, <2>1, ConcatAssociative
<1>. QED
  BY <1>2, <1>4, <1>5, <1>6, <1>7

(* The first that is not empty comes first.                                *)
LEMMA FlattenFirst ==
  ASSUME NEW S, NEW seqs \in Seq(Seq(S)), NEW k \in 1..Len(seqs),
         \A i \in 1..(k - 1) : seqs[i] = <<>>,
         NEW rest, rest = [seqs EXCEPT ![k] = <<>>]
  PROVE  FlattenSeq(seqs) = seqs[k] \o FlattenSeq(rest)
<1>. DEFINE n == Len(seqs)
            s == seqs[k]
<1>1. /\ n \in Nat /\ k \in 1..n /\ n # 0 /\ DOMAIN seqs = 1..n
      /\ \A i \in 1..n : seqs[i] \in Seq(S)
  BY LenProperties, ElementOfSeq
<1>2. /\ rest \in Seq(Seq(S)) /\ Len(rest) = n
      /\ \A i \in 1..n : rest[i] = IF i = k THEN <<>> ELSE seqs[i]
  <2>1. <<>> \in Seq(S)
    BY EmptySeq
  <2>. QED  BY <1>1, <2>1, ExceptSeq
<1>3. PICK g : Flattened(g, seqs) /\ FlattenSeq(seqs) = g[n]
  BY <1>1, FlattenFunction
<1>4. PICK h : /\ Flattened(h, rest) /\ FlattenSeq(rest) = h[n]
               /\ \A i \in 1..n : h[i] \in Seq(S)
  BY <1>1, <1>2, FlattenFunction
<1>5. \A i \in 1..k : h[i] = <<>>
  <2>1. k \in 0..Len(rest) /\ \A i \in 1..k : rest[i] = <<>>
    <3>1. \A i \in 1..k : i \in 1..n /\ (i = k \/ i \in 1..(k - 1))
      BY <1>1
    <3>. QED  BY <1>1, <1>2, <3>1
  <2>2. rest \in Seq(Seq(S)) /\ Flattened(h, rest)
    BY <1>2, <1>4
  <2>. QED  BY <2>1, <2>2, FlattenNothing
<1>6. \A i \in 1..(k - 1) : g[i] = <<>>
  <2>1. k - 1 \in 0..Len(seqs)
    BY <1>1
  <2>. QED  BY <1>3, <2>1, FlattenNothing
<1>7. /\ \A i \in 1..n : g[i] = IF i = 1 THEN seqs[i] ELSE g[i-1] \o seqs[i]
      /\ \A i \in 1..n : h[i] = IF i = 1 THEN rest[i] ELSE h[i-1] \o rest[i]
  BY <1>2, <1>3, <1>4 DEF Flattened
<1>8. g[k] = s
  <2>1. CASE k = 1
    BY <1>1, <1>7, <2>1
  <2>2. CASE k # 1
    <3>1. k - 1 \in 1..(k - 1)
      BY <1>1, <2>2
    <3>2. g[k] = <<>> \o s
      BY <1>1, <1>6, <1>7, <2>2, <3>1
    <3>. QED  BY <1>1, <3>2, ConcatEmptySeq
  <2>. QED  BY <2>1, <2>2
<1>. HIDE DEF n, s
<1>9. s \in Seq(S)
  BY <1>1 DEF s
<1>10. \A i \in k..n : g[i] = s \o h[i]
  <2>1. g[k] = s \o h[k]
    <3>1. h[k] = <<>>
      BY <1>1, <1>5
    <3>2. s \o <<>> = s
      BY <1>9, ConcatEmptySeq
    <3>. QED  BY <1>8, <3>1, <3>2
  <2>2. \A i \in k..n : h[i] \in Seq(S) /\ seqs[i] \in Seq(S)
    BY <1>1, <1>4
  <2>3. \A i \in k..n : i # k => /\ g[i] = g[i-1] \o seqs[i]
                                 /\ h[i] = h[i-1] \o seqs[i]
    <3>1. \A i \in k..n : i # k => i \in 1..n /\ i # 1
      BY <1>1
    <3>. QED  BY <1>2, <1>7, <3>1
  <2>4. k \in Nat /\ n \in Nat
    BY <1>1
  <2>5. Together(S, s, g, h, seqs, k, n)
    BY <1>9, <2>1, <2>2, <2>3, <2>4 DEF Together
  <2>. QED  BY <2>5, GrowTogether
<1>11. n \in k..n
  BY <1>1
<1>. QED
  BY <1>3, <1>4, <1>10, <1>11 DEF s

(* Empty ones may be left out at the beginning.                            *)
LEMMA FlattenRest ==
  ASSUME NEW S, NEW a \in Seq(Seq(S)), NEW b \in Seq(Seq(S)),
         \A i \in 1..Len(a) : a[i] = <<>>
  PROVE  FlattenSeq(a \o b) = FlattenSeq(b)
<1>. DEFINE c == a \o b
            m == Len(a)
            n == Len(b)
<1>1. /\ m \in Nat /\ n \in Nat /\ c \in Seq(Seq(S)) /\ Len(c) = m + n
      /\ \A i \in 1..m + n : c[i] = IF i <= m THEN a[i] ELSE b[i - m]
      /\ \A i \in 1..n : b[i] \in Seq(S)
  BY ConcatProperties, LenProperties, ElementOfSeq
<1>. HIDE DEF c
<1>2. PICK g : /\ Flattened(g, c)
               /\ m + n = 0 => FlattenSeq(c) = <<>>
               /\ m + n # 0 => FlattenSeq(c) = g[m + n]
  BY <1>1, FlattenFunction
<1>3. PICK h : /\ Flattened(h, b)
               /\ n = 0 => FlattenSeq(b) = <<>>
               /\ n # 0 => FlattenSeq(b) = h[n]
  BY FlattenFunction
<1>4. \A i \in 1..m : g[i] = <<>>
  <2>1. m \in 0..Len(c) /\ \A i \in 1..m : c[i] = <<>>
    <3>1. \A i \in 1..m : i \in 1..m + n /\ i <= m /\ a[i] = <<>>
      BY <1>1
    <3>2. Len(c) \in Nat /\ m <= Len(c)
      BY <1>1
    <3>. HIDE DEF m, n
    <3>3. \A i \in 1..m : c[i] = <<>>
      BY <1>1, <3>1
    <3>. QED  BY <1>1, <3>2, <3>3
  <2>2. c \in Seq(Seq(S)) /\ Flattened(g, c)
    BY <1>1, <1>2
  <2>. HIDE DEF m
  <2>. QED  BY <2>1, <2>2, FlattenNothing
<1>5. /\ \A i \in 1..m + n : g[i] = IF i = 1 THEN c[i] ELSE g[i-1] \o c[i]
      /\ \A i \in 1..n : h[i] = IF i = 1 THEN b[i] ELSE h[i-1] \o b[i]
  BY <1>1, <1>2, <1>3 DEF Flattened
<1>. HIDE DEF m, n
<1>6. \A i \in 1..n : c[m + i] = b[i] /\ m + i \in 1..m + n /\ m + i - 1 = m + (i - 1)
  <2>. TAKE i \in 1..n
  <2>1. m + i \in 1..m + n /\ ~(m + i <= m) /\ (m + i) - m = i
        /\ m + i - 1 = m + (i - 1)
    BY <1>1
  <2>. QED  BY <1>1, <2>1
<1>7. \A i \in 1..n : g[m + i] = h[i]
  <2>. DEFINE Bad == {i \in 1..n : g[m + i] # h[i]}
  <2>. SUFFICES ASSUME Bad # {} PROVE FALSE
    OBVIOUS
  <2>1. PICK k \in Bad : \A j \in Bad : k <= j
    <3>1. Bad \in SUBSET Nat
      BY <1>1
    <3>. HIDE DEF Bad
    <3>. QED  BY <3>1, LeastNumber
  <2>2. /\ k \in 1..n /\ g[m + k] # h[k]
        /\ c[m + k] = b[k] /\ m + k \in 1..m + n /\ m + k - 1 = m + (k - 1)
        /\ b[k] \in Seq(S)
    BY <1>1, <1>6, <2>1
  <2>3. CASE k = 1
    <3>1. h[1] = b[1]
      BY <1>5, <2>2, <2>3
    <3>2. CASE m = 0
      BY <1>5, <2>2, <2>3, <3>1, <3>2
    <3>3. CASE m # 0
      <4>1. m + 1 # 1 /\ m \in 1..m /\ m + 1 - 1 = m
        BY <1>1, <3>3
      <4>2. g[m + 1] = <<>> \o b[1]
        <5>1. PICK p : p = m + 1
          OBVIOUS
        <5>2. p \in 1..m + n /\ p # 1 /\ p - 1 = m /\ c[p] = b[1]
          BY <2>2, <2>3, <4>1, <5>1
        <5>3. g[p] = g[p - 1] \o c[p]
          BY <1>5, <5>2
        <5>. QED  BY <1>4, <4>1, <5>1, <5>2, <5>3
      <4>3. <<>> \o b[1] = b[1]
        BY <2>2, <2>3, ConcatEmptySeq
      <4>. QED  BY <2>2, <2>3, <3>1, <4>2, <4>3
    <3>. QED  BY <3>2, <3>3
  <2>4. CASE k # 1
    <3>1. k - 1 \in 1..n /\ ~(k <= k - 1) /\ m + k # 1
      BY <1>1, <2>2, <2>4
    <3>2. g[m + (k - 1)] = h[k - 1]
      BY <2>1, <3>1
    <3>3. g[m + k] = g[m + k - 1] \o c[m + k]
      <4>1. PICK p : p = m + k
        OBVIOUS
      <4>2. p \in 1..m + n /\ p # 1
        BY <2>2, <3>1, <4>1
      <4>3. g[p] = g[p - 1] \o c[p]
        BY <1>5, <4>2
      <4>4. m \in Nat /\ k \in Nat /\ p - 1 = m + k - 1
        BY <1>1, <2>2, <4>1
      <4>. HIDE DEF Bad
      <4>. QED  BY <4>1, <4>3, <4>4
    <3>4. h[k] = h[k - 1] \o b[k]
      BY <1>5, <2>2, <2>4
    <3>. QED  BY <2>2, <3>2, <3>3, <3>4
  <2>. QED  BY <2>3, <2>4
<1>8. CASE n = 0
  <2>1. CASE m = 0
    BY <1>1, <1>2, <1>3, <1>8, <2>1 DEF c
  <2>2. CASE m # 0
    <3>1. m + n = m /\ m \in 1..m /\ m # 0
      BY <1>1, <1>8, <2>2
    <3>. QED  BY <1>2, <1>3, <1>4, <1>8, <3>1 DEF c
  <2>. QED  BY <2>1, <2>2
<1>9. CASE n # 0
  <2>1. n \in 1..n /\ m + n # 0
    BY <1>1, <1>9
  <2>. QED  BY <1>2, <1>3, <1>7, <1>9, <2>1 DEF c
<1>. QED
  BY <1>8, <1>9

-----------------------------------------------------------------------------
(* The lines of buffers, in order.                                         *)
LinesOf(seq) == [i \in DOMAIN seq |-> Lines(seq[i])]
Text(seq) == FlattenSeq(LinesOf(seq))
Place == BufferType \union {Null}

LEMMA LinesType ==
  /\ \A b \in Place : Lines(b) \in Seq(LineType)
  /\ \A b \in BufferType : Lines(b) = b.lines
  /\ Lines(Null) = <<>> /\ Lines(Empty) = <<>>
<1>1. <<>> \in Seq(LineType)
  BY EmptySeq
<1>2. \A b \in BufferType : b # Null /\ b.lines \in Seq(LineType)
  BY LoggingAssumption DEF BufferType
<1>3. Empty \in BufferType /\ Empty.lines = <<>>
  BY EmptyType DEF Empty
<1>. QED
  BY <1>1, <1>2, <1>3 DEF Place, Lines

LEMMA LinesOfType ==
  ASSUME NEW seq \in Seq(Place)
  PROVE  /\ LinesOf(seq) \in Seq(Seq(LineType))
         /\ Len(LinesOf(seq)) = Len(seq) /\ Len(seq) \in Nat
         /\ DOMAIN seq = 1..Len(seq)
         /\ \A i \in 1..Len(seq) : /\ LinesOf(seq)[i] = Lines(seq[i])
                                   /\ seq[i] \in Place
<1>1. /\ DOMAIN seq = 1..Len(seq) /\ Len(seq) \in Nat
      /\ \A i \in 1..Len(seq) : seq[i] \in Place
  BY LenProperties, ElementOfSeq
<1>2. \A i \in 1..Len(seq) : Lines(seq[i]) \in Seq(LineType)
  BY <1>1, LinesType
<1>3. LinesOf(seq) = [i \in 1..Len(seq) |-> Lines(seq[i])]
  BY <1>1 DEF LinesOf
<1>4. LinesOf(seq) \in [1..Len(seq) -> Seq(LineType)]
  BY <1>2, <1>3
<1>5. /\ LinesOf(seq) \in Seq(Seq(LineType))
      /\ Len(LinesOf(seq)) = Len(seq)
  BY <1>1, <1>4
<1>. QED
  BY <1>1, <1>3, <1>5

LEMMA TextNone == Text(<<>>) = <<>>
<1>1. LinesOf(<<>>) = <<>>
  BY DEF LinesOf
<1>. QED
  BY <1>1, FlattenNone DEF Text

LEMMA TextType ==
  ASSUME NEW seq \in Seq(Place)
  PROVE  Text(seq) \in Seq(LineType)
BY LinesOfType, FlattenType DEF Text

LEMMA TextAppend ==
  ASSUME NEW seq \in Seq(Place), NEW b \in Place
  PROVE  Text(Append(seq, b)) = Text(seq) \o Lines(b)
<1>. DEFINE more == Append(seq, b)
            left == LinesOf(more)
            right == Append(LinesOf(seq), Lines(b))
            n == Len(seq)
<1>1. /\ more \in Seq(Place) /\ Len(more) = n + 1 /\ n \in Nat
      /\ \A i \in 1..n : more[i] = seq[i]
      /\ more[n + 1] = b
  BY AppendProperties, LenProperties
<1>. HIDE DEF more
<1>2. /\ left \in Seq(Seq(LineType)) /\ Len(left) = n + 1
      /\ \A i \in 1..(n + 1) : left[i] = Lines(more[i])
  BY <1>1, LinesOfType
<1>3. /\ LinesOf(seq) \in Seq(Seq(LineType)) /\ Len(LinesOf(seq)) = n
      /\ \A i \in 1..n : LinesOf(seq)[i] = Lines(seq[i])
  BY LinesOfType
<1>4. Lines(b) \in Seq(LineType)
  BY LinesType
<1>5. /\ right \in Seq(Seq(LineType)) /\ Len(right) = n + 1
      /\ \A i \in 1..n : right[i] = LinesOf(seq)[i]
      /\ right[n + 1] = Lines(b)
  <2>. DEFINE T == Seq(LineType)
              mapped == LinesOf(seq)
              last == Lines(b)
  <2>1. mapped \in Seq(T) /\ last \in T /\ Len(mapped) = n
    BY <1>3, <1>4
  <2>. HIDE DEF T, mapped, last, n
  <2>2. /\ Append(mapped, last) \in Seq(T)
        /\ Len(Append(mapped, last)) = n + 1
        /\ \A i \in 1..n : Append(mapped, last)[i] = mapped[i]
        /\ Append(mapped, last)[n + 1] = last
    BY <2>1, AppendProperties
  <2>. QED  BY <2>2 DEF T, mapped, last
<1>. HIDE DEF left, right, n
<1>6. \A i \in 1..(n + 1) : left[i] = right[i]
  <2>. TAKE i \in 1..(n + 1)
  <2>1. CASE i = n + 1
    BY <1>1, <1>2, <1>5, <2>1
  <2>2. CASE i # n + 1
    <3>1. i \in 1..n
      BY <1>1, <2>2
    <3>. QED  BY <1>1, <1>2, <1>3, <1>5, <3>1
  <2>. QED  BY <2>1, <2>2
<1>7. left = right
  BY <1>2, <1>5, <1>6, SeqEqual
<1>8. FlattenSeq(right) = FlattenSeq(LinesOf(seq)) \o Lines(b)
  <2>. DEFINE mapped == LinesOf(seq)
              last == Lines(b)
  <2>. HIDE DEF mapped, last
  <2>1. mapped \in Seq(Seq(LineType)) /\ last \in Seq(LineType)
    BY <1>3, <1>4 DEF mapped, last
  <2>2. FlattenSeq(Append(mapped, last)) = FlattenSeq(mapped) \o last
    BY <2>1, FlattenAppend
  <2>. QED  BY <2>2 DEF mapped, last, right
<1>. QED
  BY <1>7, <1>8 DEF Text, left, more

LEMMA TextFirst ==
  ASSUME NEW seq \in Seq(Place), NEW k \in 1..Len(seq),
         \A i \in 1..(k - 1) : Lines(seq[i]) = <<>>
  PROVE  Text(seq) = Lines(seq[k]) \o Text([seq EXCEPT ![k] = Empty])
<1>. DEFINE rest == [seq EXCEPT ![k] = Empty]
            mapped == LinesOf(seq)
            left == LinesOf(rest)
            right == [mapped EXCEPT ![k] = <<>>]
            n == Len(seq)
<1>1. Empty \in Place
  BY EmptyType DEF Place
<1>2. /\ rest \in Seq(Place) /\ Len(rest) = n /\ n \in Nat
      /\ \A i \in 1..n : rest[i] = IF i = k THEN Empty ELSE seq[i]
  BY <1>1, ExceptSeq, LenProperties
<1>. HIDE DEF rest
<1>3. /\ left \in Seq(Seq(LineType)) /\ Len(left) = n
      /\ \A i \in 1..n : left[i] = Lines(rest[i])
  BY <1>2, LinesOfType
<1>4. /\ mapped \in Seq(Seq(LineType)) /\ Len(mapped) = n
      /\ \A i \in 1..n : mapped[i] = Lines(seq[i])
  BY LinesOfType
<1>. HIDE DEF mapped
<1>5. /\ right \in Seq(Seq(LineType)) /\ Len(right) = n
      /\ \A i \in 1..n : right[i] = IF i = k THEN <<>> ELSE mapped[i]
  <2>1. <<>> \in Seq(LineType) /\ k \in 1..Len(mapped)
    BY <1>4, EmptySeq
  <2>. QED  BY <1>4, <2>1, ExceptSeq
<1>6. left = right
  <2>. HIDE DEF left, right
  <2>1. \A i \in 1..n : left[i] = right[i]
    BY <1>2, <1>3, <1>4, <1>5, LinesType
  <2>. QED  BY <1>3, <1>5, <2>1, SeqEqual
<1>7. FlattenSeq(mapped) = mapped[k] \o FlattenSeq(right)
  <2>1. k \in 1..Len(mapped) /\ \A i \in 1..(k - 1) : mapped[i] = <<>>
    <3>1. \A i \in 1..(k - 1) : i \in 1..n
      BY <1>2
    <3>. QED  BY <1>4, <3>1
  <2>. QED  BY <1>4, <2>1, FlattenFirst
<1>. QED
  BY <1>4, <1>6, <1>7 DEF Text, mapped, left, rest

LEMMA TextRest ==
  ASSUME NEW a \in Seq(Place), NEW b \in Seq(Place),
         \A i \in 1..Len(a) : Lines(a[i]) = <<>>
  PROVE  Text(a \o b) = Text(b)
<1>. DEFINE c == a \o b
            la == LinesOf(a)
            lb == LinesOf(b)
            lc == LinesOf(c)
            both == la \o lb
            m == Len(a)
            n == Len(b)
<1>1. /\ c \in Seq(Place) /\ Len(c) = m + n /\ m \in Nat /\ n \in Nat
      /\ \A i \in 1..(m + n) : c[i] = IF i <= m THEN a[i] ELSE b[i - m]
  BY ConcatProperties, LenProperties
<1>. HIDE DEF c
<1>2. /\ la \in Seq(Seq(LineType)) /\ Len(la) = m
      /\ \A i \in 1..m : la[i] = Lines(a[i])
  BY LinesOfType
<1>3. /\ lb \in Seq(Seq(LineType)) /\ Len(lb) = n
      /\ \A i \in 1..n : lb[i] = Lines(b[i])
  BY LinesOfType
<1>4. /\ lc \in Seq(Seq(LineType)) /\ Len(lc) = m + n
      /\ \A i \in 1..(m + n) : lc[i] = Lines(c[i])
  BY <1>1, LinesOfType
<1>. HIDE DEF la, lb, lc
<1>5. /\ both \in Seq(Seq(LineType)) /\ Len(both) = m + n
      /\ \A i \in 1..(m + n) : both[i] = IF i <= m THEN la[i] ELSE lb[i - m]
  <2>. DEFINE T == Seq(LineType)
  <2>1. la \in Seq(T) /\ lb \in Seq(T) /\ Len(la) = m /\ Len(lb) = n
    BY <1>2, <1>3
  <2>. HIDE DEF T, m, n
  <2>2. /\ both \in Seq(T) /\ Len(both) = m + n
        /\ \A i \in 1..(m + n) : both[i] = IF i <= m THEN la[i] ELSE lb[i - m]
    BY <2>1, ConcatProperties
  <2>. QED  BY <2>2 DEF T
<1>. HIDE DEF m, n
<1>6. \A i \in 1..(m + n) : lc[i] = both[i]
  <2>. TAKE i \in 1..(m + n)
  <2>1. CASE i <= m
    <3>1. i \in 1..m
      BY <1>1, <2>1
    <3>. QED  BY <1>1, <1>2, <1>4, <1>5, <2>1, <3>1
  <2>2. CASE ~(i <= m)
    <3>1. i - m \in 1..n
      BY <1>1, <2>2
    <3>. QED  BY <1>1, <1>3, <1>4, <1>5, <2>2, <3>1
  <2>. QED  BY <2>1, <2>2
<1>7. lc = both
  <2>. HIDE DEF both
  <2>. QED  BY <1>4, <1>5, <1>6, SeqEqual
<1>8. FlattenSeq(both) = FlattenSeq(lb)
  <2>1. \A i \in 1..Len(la) : la[i] = <<>>
    BY <1>2 DEF m
  <2>. QED  BY <1>2, <1>3, <2>1, FlattenRest
<1>. QED
  BY <1>7, <1>8 DEF Text, lb, lc, c

-----------------------------------------------------------------------------
(* Facts about sequences of anything.                                      *)
LEMMA AppendAfter ==
  ASSUME NEW S, NEW s \in Seq(S), NEW t \in Seq(S), NEW e \in S
  PROVE  s \o Append(t, e) = Append(s \o t, e)
<1>1. <<e>> \in Seq(S)
  OBVIOUS
<1>2. s \o (t \o <<e>>) = (s \o t) \o <<e>>
  BY <1>1, ConcatAssociative
<1>3. Append(t, e) = t \o <<e>>
  BY AppendIsConcat
<1>4. s \o t \in Seq(S)
  BY ConcatProperties
<1>5. Append(s \o t, e) = (s \o t) \o <<e>>
  <2>. DEFINE st == s \o t
  <2>1. st \in Seq(S)
    BY <1>4
  <2>. HIDE DEF st
  <2>2. Append(st, e) = st \o <<e>>
    BY <2>1, AppendIsConcat
  <2>. QED  BY <2>2 DEF st
<1>. QED
  BY <1>2, <1>3, <1>5

LEMMA TakenOff ==
  ASSUME NEW S, NEW s \in Seq(S), NEW t \in Seq(S), s # <<>>,
         NEW p, p = s \o t
  PROVE  /\ Len(s) \in 1..Len(p)
         /\ SubSeq(p, 1, Len(s)) = s
         /\ SubSeq(p, Len(s) + 1, Len(p)) = t
<1>. DEFINE m == Len(s)
            n == Len(t)
<1>1. /\ p \in Seq(S) /\ Len(p) = m + n /\ m \in Nat /\ n \in Nat /\ m # 0
      /\ \A i \in 1..(m + n) : p[i] = IF i <= m THEN s[i] ELSE t[i - m]
  BY ConcatProperties, LenProperties, EmptySeq
<1>2. \A i \in 1..(m + n) : p[i] \in S
  BY <1>1, ElementOfSeq
<1>. DEFINE a == SubSeq(p, 1, m)
            b == SubSeq(p, m + 1, m + n)
<1>. HIDE DEF m, n
<1>3. /\ a \in Seq(S) /\ Len(a) = m /\ \A i \in 1..m : a[i] = p[i]
  <2>1. \A i \in 1..m : p[i] \in S /\ i \in 1..(m + n)
    BY <1>1, <1>2
  <2>2. /\ SubSeq(p, 1, m) \in Seq(S)
        /\ Len(SubSeq(p, 1, m)) = IF 1 <= m THEN m - 1 + 1 ELSE 0
        /\ \A i \in 1..(m - 1 + 1) : SubSeq(p, 1, m)[i] = p[1 + i - 1]
    BY <1>1, <2>1, SubSeqProperties
  <2>3. m - 1 + 1 = m /\ 1 <= m /\ \A i \in 1..m : 1 + i - 1 = i
    BY <1>1
  <2>. QED  BY <2>2, <2>3
<1>4. /\ b \in Seq(S) /\ Len(b) = n /\ \A i \in 1..n : b[i] = p[m + i]
  <2>1. n \in 0..Len(p) /\ Len(p) - n + 1 = m + 1 /\ Len(p) = m + n
        /\ \A i \in 1..n : Len(p) - n + i = m + i
    BY <1>1
  <2>2. b = Ending(p, n)
    BY <2>1 DEF Ending
  <2>3. /\ Ending(p, n) \in Seq(S) /\ Len(Ending(p, n)) = n
        /\ \A i \in 1..n : Ending(p, n)[i] = p[Len(p) - n + i]
    BY <1>1, <2>1, EndingProperties
  <2>. HIDE DEF b
  <2>. QED  BY <2>1, <2>2, <2>3
<1>. HIDE DEF a, b
<1>5. a = s
  <2>1. \A i \in 1..m : a[i] = s[i]
    <3>1. \A i \in 1..m : i \in 1..(m + n) /\ i <= m
      BY <1>1
    <3>. QED  BY <1>1, <1>3, <3>1
  <2>2. Len(a) = Len(s)
    BY <1>3 DEF m
  <2>. QED  BY <1>3, <2>1, <2>2, SeqEqual
<1>6. b = t
  <2>1. \A i \in 1..n : b[i] = t[i]
    <3>. TAKE i \in 1..n
    <3>1. m + i \in 1..(m + n) /\ ~(m + i <= m) /\ (m + i) - m = i
      BY <1>1
    <3>. QED  BY <1>1, <1>4, <3>1
  <2>2. Len(b) = Len(t)
    BY <1>4 DEF n
  <2>. QED  BY <1>4, <2>1, <2>2, SeqEqual
<1>7. m \in 1..Len(p) /\ Len(p) = m + n
  BY <1>1
<1>. QED
  BY <1>5, <1>6, <1>7 DEF a, b, m

(* r is s with e in its k-th place.                                        *)
Replaced(S, r, s, k, e) ==
  s \in Seq(S) /\ e \in S /\ k \in 1..Len(s) /\ r = [s EXCEPT ![k] = e]

LEMMA ReplacedInPart ==
  ASSUME NEW S, NEW r, NEW s, NEW k, NEW e, Replaced(S, r, s, k, e),
         NEW t \in Seq(S)
  PROVE  Replaced(S, r \o t, s \o t, k, e)
<1>0. s \in Seq(S) /\ e \in S /\ k \in 1..Len(s) /\ r = [s EXCEPT ![k] = e]
  BY DEF Replaced
<1>. DEFINE m == Len(s)
            n == Len(t)
            p == s \o t
            q == r \o t
            x == [p EXCEPT ![k] = e]
<1>1. /\ r \in Seq(S) /\ Len(r) = m
      /\ \A i \in 1..m : r[i] = IF i = k THEN e ELSE s[i]
  BY <1>0, ExceptSeq
<1>2. /\ p \in Seq(S) /\ Len(p) = m + n /\ m \in Nat /\ n \in Nat
      /\ \A i \in 1..(m + n) : p[i] = IF i <= m THEN s[i] ELSE t[i - m]
  BY <1>0, ConcatProperties, LenProperties
<1>3. /\ q \in Seq(S) /\ Len(q) = m + n
      /\ \A i \in 1..(m + n) : q[i] = IF i <= m THEN r[i] ELSE t[i - m]
  <2>1. /\ r \o t \in Seq(S) /\ Len(r \o t) = Len(r) + Len(t)
        /\ \A i \in 1..(Len(r) + Len(t)) :
             (r \o t)[i] = IF i <= Len(r) THEN r[i] ELSE t[i - Len(r)]
    <3>1. r \in Seq(S)
      BY <1>1
    <3>. QED  BY <3>1, ConcatProperties
  <2>. QED  BY <1>1, <2>1
<1>. HIDE DEF p, q
<1>4. k \in 1..m /\ k \in 1..Len(p)
  BY <1>0, <1>2
<1>5. /\ x \in Seq(S) /\ Len(x) = m + n
      /\ \A i \in 1..(m + n) : x[i] = IF i = k THEN e ELSE p[i]
  BY <1>0, <1>2, <1>4, ExceptSeq
<1>. HIDE DEF m, n, x
<1>6. \A i \in 1..(m + n) : q[i] = x[i]
  <2>. TAKE i \in 1..(m + n)
  <2>1. CASE i <= m
    <3>1. i \in 1..m
      BY <1>2, <2>1
    <3>. QED  BY <1>1, <1>2, <1>3, <1>5, <2>1, <3>1
  <2>2. CASE ~(i <= m)
    <3>1. i # k
      BY <1>2, <1>4, <2>2
    <3>. QED  BY <1>2, <1>3, <1>5, <2>2, <3>1
  <2>. QED  BY <2>1, <2>2
<1>7. q = x
  BY <1>3, <1>5, <1>6, SeqEqual
<1>. QED
  BY <1>0, <1>2, <1>4, <1>7 DEF p, q, x, Replaced

LEMMA PlaceCleared ==
  ASSUME NEW r, NEW a, NEW k, Replaced(BufferType, r, a, k, Empty),
         NEW b \in Seq(BufferType), NEW c \in Place
  PROVE  Replaced(Place, Append(r \o b, c), Append(a \o b, c), k, Empty)
<1>. DEFINE ab == a \o b
            rb == r \o b
            one == <<c>>
<1>1. /\ a \in Seq(Place) /\ b \in Seq(Place) /\ one \in Seq(Place)
      /\ Replaced(Place, r, a, k, Empty)
  <2>1. a \in Seq(BufferType) /\ BufferType \subseteq Place
    BY DEF Replaced, Place
  <2>2. a \in Seq(Place) /\ b \in Seq(Place)
    BY <2>1, SeqMonotonic
  <2>. QED  BY <2>1, <2>2 DEF Replaced
<1>2. Replaced(Place, rb, ab, k, Empty)
  BY <1>1, ReplacedInPart
<1>. HIDE DEF ab, rb
<1>3. ab \in Seq(Place) /\ rb \in Seq(Place)
  BY <1>2, ExceptSeq DEF Replaced
<1>. HIDE DEF one
<1>4. Replaced(Place, rb \o one, ab \o one, k, Empty)
  BY <1>1, <1>2, ReplacedInPart
<1>5. Append(rb, c) = rb \o one /\ Append(ab, c) = ab \o one
  BY <1>3, AppendIsConcat DEF one
<1>. QED
  BY <1>4, <1>5 DEF ab, rb

(* What is pending, given where the buffers are.                           *)
PendingOf(toWrite, full, cur) == Text(Append(toWrite \o full, cur))

LEMMA PendingIs ==
  /\ Pending = PendingOf(buffers_to_write, buffers, cur_buffer)
  /\ Pending' = PendingOf(buffers_to_write', buffers', cur_buffer')
BY DEF Pending, PendingOf, Text, LinesOf

LEMMA PendingSplit ==
  ASSUME NEW a \in Seq(BufferType), NEW b \in Seq(BufferType), NEW c \in Place
  PROVE  /\ PendingOf(a, b, c) = Text(a \o b) \o Lines(c)
         /\ a \o b \in Seq(Place) /\ Text(a \o b) \in Seq(LineType)
         /\ Lines(c) \in Seq(LineType)
<1>1. a \in Seq(Place) /\ b \in Seq(Place)
  BY SeqMonotonic DEF Place
<1>. DEFINE ab == a \o b
<1>2. ab \in Seq(Place)
  BY <1>1, ConcatProperties
<1>. HIDE DEF ab
<1>3. Text(Append(ab, c)) = Text(ab) \o Lines(c) /\ Text(ab) \in Seq(LineType)
  BY <1>2, TextAppend, TextType
<1>. QED
  BY <1>2, <1>3, LinesType DEF PendingOf, ab

(* Between the write loops nothing is being written, and no full buffer    *)
(* outlives the logger; what the loop has passed is empty.                 *)
WritesInOrder ==
  /\ pc # "write" => buffers_to_write = <<>>
  /\ pc = "off" => buffers = <<>>
  /\ pc = "write" => \A i \in DOMAIN buffers_to_write :
                        i < writing => buffers_to_write[i].lines = <<>>

DeliveryInv == LoggingInv /\ RollInv /\ WritesInOrder

LEMMA DeliveryTypes ==
  ASSUME DeliveryInv
  PROVE  /\ buffers \in Seq(BufferType) /\ buffers_to_write \in Seq(BufferType)
         /\ cur_buffer \in Place
         /\ pc = "off" => cur_buffer = Null
         /\ pc # "off" => cur_buffer \in BufferType
         /\ written \in Seq(LineType)
         /\ Pending \in Seq(LineType)
<1>1. /\ buffers \in Seq(BufferType) /\ buffers_to_write \in Seq(BufferType)
      /\ cur_buffer \in Place
      /\ pc = "off" => cur_buffer = Null
      /\ pc # "off" => cur_buffer \in BufferType
      /\ written \in Seq(LineType)
  BY DEF DeliveryInv, LoggingInv, TypeOK, Place
<1>2. Pending \in Seq(LineType)
  <2>. DEFINE t == Text(buffers_to_write \o buffers)
              l == Lines(cur_buffer)
  <2>1. Pending = t \o l /\ t \in Seq(LineType) /\ l \in Seq(LineType)
    BY <1>1, PendingIs, PendingSplit
  <2>. HIDE DEF t, l
  <2>. QED  BY <2>1, ConcatProperties
<1>. QED
  BY <1>1, <1>2

LEMMA DeliveryInit == Init => DeliveryInv /\ Queue!Init
<1>. SUFFICES ASSUME Init PROVE DeliveryInv /\ Queue!Init
  OBVIOUS
<1>1. /\ buffers = <<>> /\ buffers_to_write = <<>> /\ pc = "off"
      /\ cur_buffer = Null /\ written = <<>> /\ logged = <<>>
  BY DEF Init
<1>2. DeliveryInv
  BY <1>1, InitStep, RollInit DEF DeliveryInv, WritesInOrder
<1>3. Pending = <<>>
  <2>1. <<>> \in Seq(BufferType) /\ Null \in Place
    BY EmptySeq DEF Place
  <2>2. PendingOf(<<>>, <<>>, Null) = Text(<<>> \o <<>>) \o Lines(Null)
    BY <2>1, PendingSplit
  <2>3. <<>> \o <<>> = <<>>
    OBVIOUS
  <2>. QED  BY <1>1, <2>2, <2>3, PendingIs, TextNone, LinesType
<1>. QED
  BY <1>1, <1>2, <1>3 DEF Queue!Init

(* The line goes last, whole.                                              *)
LEMMA AppendedLines ==
  ASSUME NEW buffer \in BufferType, NEW line \in WholeLine,
         Valid(buffer) > line.len
  PROVE  /\ Appended(buffer, line) \in BufferType
         /\ Lines(Appended(buffer, line)) = Append(Lines(buffer), line)
<1>. DEFINE size == Shorter(Valid(buffer), line.len)
<1>1. /\ line \in LineType /\ line.kept = line.len /\ line.len \in 1..kSmallBuffer
      /\ Valid(buffer) \in Int
  BY LoggingAssumption DEF WholeLine, LineType, Valid, BufferType
<1>2. size = line.len /\ Valid(buffer) >= 1
  BY <1>1, LoggingAssumption DEF Shorter
<1>3. [line EXCEPT !.kept = size] = line
  BY <1>1, <1>2 DEF LineType
<1>4. Appended(buffer, line).lines = Append(buffer.lines, line)
  BY <1>3 DEF Appended
<1>5. Appended(buffer, line) \in BufferType
  BY <1>1, <1>2, AppendedType
<1>. QED
  BY <1>4, <1>5, LinesType

LEMMA DeliveryLog ==
  ASSUME DeliveryInv, NEW body \in Bodies, Log(body)
  PROVE  WritesInOrder' /\ Queue!Accept
<1>. DEFINE line == Line(body)
<1>1. /\ pc # "off" /\ AppendLine(line) /\ logged' = Append(logged, line)
      /\ UNCHANGED <<buffers_to_write, pc, writing, written>>
  BY DEF Log, threadVars
<1>2. line \in WholeLine
  <2>1. line \in LineType
    BY LineIsTyped DEF DeliveryInv, LoggingInv, Log
  <2>2. line.kept = line.len
    BY DEF Line
  <2>. QED  BY <2>1, <2>2 DEF WholeLine
<1>. HIDE DEF line
<1>3. line \in LineType /\ line.len \in 1..kSmallBuffer
  BY <1>2 DEF WholeLine, LineType
<1>4. /\ buffers \in Seq(BufferType) /\ buffers_to_write \in Seq(BufferType)
      /\ cur_buffer \in BufferType /\ cur_buffer \in Place
      /\ next_buffer \in {Null, Empty}
  BY <1>1, DeliveryTypes DEF DeliveryInv, LoggingInv, SparesInv, SparesEmpty
<1>. DEFINE t == Text(buffers_to_write \o buffers)
            l == Lines(cur_buffer)
<1>5. Pending = t \o l /\ t \in Seq(LineType) /\ l \in Seq(LineType)
  BY <1>4, PendingIs, PendingSplit
<1>6. Pending' = Append(Pending, line)
  <2>1. CASE Valid(cur_buffer) > line.len
    <3>1. cur_buffer' = Appended(cur_buffer, line) /\ buffers' = buffers
      BY <1>1, <2>1 DEF AppendLine
    <3>2. cur_buffer' \in Place /\ Lines(cur_buffer') = Append(l, line)
      BY <1>2, <1>4, <2>1, <3>1, AppendedLines DEF Place
    <3>3. Pending' = t \o Lines(cur_buffer')
      BY <1>1, <1>4, <3>1, <3>2, PendingIs, PendingSplit
    <3>. HIDE DEF t, l
    <3>4. t \o Append(l, line) = Append(t \o l, line)
      BY <1>3, <1>5, AppendAfter
    <3>. QED  BY <1>5, <3>2, <3>3, <3>4
  <2>2. CASE ~(Valid(cur_buffer) > line.len)
    <3>1. /\ buffers' = Append(buffers, cur_buffer)
          /\ cur_buffer' = Appended(Empty, line)
      BY <1>1, <1>4, <2>2 DEF AppendLine
    <3>2. Valid(Empty) > line.len
      BY <1>3, EmptyType, LoggingAssumption DEF Valid, Empty
    <3>3. /\ cur_buffer' \in Place
          /\ Lines(cur_buffer') = Append(<<>>, line)
      BY <1>2, <3>1, <3>2, EmptyType, LinesType, AppendedLines DEF Place
    <3>4. buffers' \in Seq(BufferType)
      BY <1>4, <3>1, AppendProperties
    <3>5. Pending' = Text(buffers_to_write \o buffers') \o Lines(cur_buffer')
      BY <1>1, <1>4, <3>3, <3>4, PendingIs, PendingSplit
    <3>6. buffers_to_write \o Append(buffers, cur_buffer)
          = Append(buffers_to_write \o buffers, cur_buffer)
      BY <1>4, AppendAfter
    <3>7. Text(buffers_to_write \o buffers') = Pending
      BY <3>1, <3>6, PendingIs DEF PendingOf
    <3>8. Pending \o Append(<<>>, line) = Append(Pending, line)
      <4>1. Pending \in Seq(LineType) /\ <<>> \in Seq(LineType)
        BY DeliveryTypes, EmptySeq
      <4>2. Pending \o Append(<<>>, line) = Append(Pending \o <<>>, line)
        BY <1>3, <4>1, AppendAfter
      <4>. QED  BY <4>1, <4>2, ConcatEmptySeq
    <3>. QED  BY <3>3, <3>5, <3>7, <3>8
  <2>. QED  BY <2>1, <2>2
<1>7. WritesInOrder'
  BY <1>1 DEF DeliveryInv, WritesInOrder
<1>8. Queue!Accept
  BY <1>1, <1>2, <1>6 DEF Queue!Accept
<1>. QED
  BY <1>7, <1>8

LEMMA DeliveryStart ==
  ASSUME DeliveryInv, Start
  PROVE  WritesInOrder' /\ Queue!Open
<1>1. /\ pc = "off" /\ pc' = "start" /\ cur_buffer' = Empty /\ buffers' = <<>>
      /\ UNCHANGED <<buffers_to_write, written, logged>>
  BY DEF Start, threadVars
<1>2. buffers = <<>> /\ buffers_to_write = <<>> /\ cur_buffer = Null
  BY <1>1, DeliveryTypes DEF DeliveryInv, WritesInOrder
<1>3. Pending' = Pending
  <2>1. <<>> \in Seq(BufferType) /\ Null \in Place /\ Empty \in Place
    BY EmptySeq, EmptyType DEF Place
  <2>2. /\ PendingOf(<<>>, <<>>, Null) = Text(<<>> \o <<>>) \o Lines(Null)
        /\ PendingOf(<<>>, <<>>, Empty) = Text(<<>> \o <<>>) \o Lines(Empty)
    BY <2>1, PendingSplit
  <2>. QED  BY <1>1, <1>2, <2>2, PendingIs, LinesType
<1>. QED
  BY <1>1, <1>2, <1>3 DEF WritesInOrder, Queue!Open

LEMMA DeliveryJoin ==
  ASSUME DeliveryInv, Join
  PROVE  WritesInOrder' /\ Queue!Close
<1>1. /\ pc = "done" /\ pc' = "off" /\ cur_buffer' = Null /\ buffers' = <<>>
      /\ UNCHANGED <<buffers_to_write, written, logged>>
  BY DEF Join, threadVars, historyVars
<1>2. buffers_to_write = <<>>
  BY <1>1 DEF DeliveryInv, WritesInOrder
<1>3. Pending' = <<>>
  <2>1. <<>> \in Seq(BufferType) /\ Null \in Place
    BY EmptySeq DEF Place
  <2>2. PendingOf(<<>>, <<>>, Null) = Text(<<>> \o <<>>) \o Lines(Null)
    BY <2>1, PendingSplit
  <2>3. <<>> \o <<>> = <<>>
    OBVIOUS
  <2>. QED  BY <1>1, <1>2, <2>2, <2>3, PendingIs, TextNone, LinesType
<1>. QED
  BY <1>1, <1>2, <1>3 DEF WritesInOrder, Queue!Close

(* The critical section moves buffers, in their order.                     *)
LEMMA DeliverySwap ==
  ASSUME DeliveryInv, pc \in {"wait", "blocked"}, Swap
  PROVE  WritesInOrder' /\ UNCHANGED Queue!fifoVars
<1>1. /\ buffers \in Seq(BufferType) /\ cur_buffer \in BufferType
      /\ cur_buffer \in Place
      /\ temp_buffer1 = Empty /\ buffers_to_write = <<>>
  BY DeliveryTypes DEF DeliveryInv, LoggingInv, SparesInv, Rested
<1>2. /\ buffers_to_write' = Append(buffers, cur_buffer) /\ buffers' = <<>>
      /\ cur_buffer' = Empty /\ writing' = 1 /\ pc' = "write"
      /\ UNCHANGED <<written, logged>>
  BY <1>1 DEF Swap, TakeBuffers, GiveSpares, historyVars
<1>3. /\ buffers_to_write' \in Seq(BufferType)
      /\ DOMAIN buffers_to_write' \in SUBSET Nat
      /\ \A i \in DOMAIN buffers_to_write' : ~(i < 1)
  <2>1. buffers_to_write' \in Seq(BufferType)
    BY <1>1, <1>2, AppendProperties
  <2>2. DOMAIN buffers_to_write' = 1..Len(buffers_to_write')
        /\ Len(buffers_to_write') \in Nat
    BY <2>1, LenProperties
  <2>. QED  BY <2>1, <2>2
<1>4. Pending' = Pending
  <2>. DEFINE moved == Append(buffers, cur_buffer)
  <2>1. /\ <<>> \in Seq(BufferType) /\ Empty \in Place
        /\ moved \in Seq(BufferType)
    BY <1>2, <1>3, EmptySeq, EmptyType DEF Place
  <2>2. /\ Pending' = Text(moved \o <<>>) \o Lines(Empty)
        /\ Text(moved \o <<>>) \in Seq(LineType)
    BY <1>2, <2>1, PendingIs, PendingSplit
  <2>3. moved \o <<>> = moved /\ <<>> \o buffers = buffers
    BY <1>1, <2>1, ConcatEmptySeq
  <2>4. Pending = Text(moved)
    BY <1>1, <2>3, PendingIs DEF PendingOf
  <2>. HIDE DEF moved
  <2>. QED  BY <2>2, <2>3, <2>4, LinesType, ConcatEmptySeq
<1>. QED
  BY <1>1, <1>2, <1>3, <1>4 DEF WritesInOrder, Queue!fifoVars

(* The write loop writes what has waited longest.                          *)
LEMMA DeliveryWriteOne ==
  ASSUME DeliveryInv, WriteOne
  PROVE  WritesInOrder' /\ (Queue!Deliver \/ UNCHANGED Queue!fifoVars)
<1>. DEFINE w == buffers_to_write
            k == writing
            buffer == w[k]
<1>1. /\ pc = "write" /\ pc' = pc /\ writing' = writing + 1
      /\ UNCHANGED <<cur_buffer, buffers, logged>>
  BY DEF WriteOne, sharedVars
<1>2. /\ k \in 1..Len(w) /\ Len(w) \in Nat /\ w \in Seq(BufferType)
      /\ DOMAIN w = 1..Len(w) /\ buffers \in Seq(BufferType)
      /\ cur_buffer \in Place /\ written \in Seq(LineType)
      /\ Pending \in Seq(LineType)
  BY DeliveryTypes, LenProperties DEF WriteOne, DeliveryInv, LoggingInv, TypeOK
<1>3. buffer \in BufferType /\ Counted(buffer) /\ Lines(buffer) = buffer.lines
      /\ buffer.lines \in Seq(LineType) /\ buffer.len \in Nat
  <2>1. buffer \in BufferType /\ Counted(buffer)
    BY <1>2, ElementOfSeq DEF DeliveryInv, RollInv, BuffersCounted
  <2>. HIDE DEF buffer
  <2>. QED  BY <2>1, LinesType, LoggingAssumption DEF BufferType
<1>4. \A i \in 1..Len(w) : i < k => w[i].lines = <<>>
  BY <1>1, <1>2 DEF DeliveryInv, WritesInOrder
<1>5. CASE buffer.len > 0
  <2>1. /\ written' = written \o buffer.lines
        /\ buffers_to_write' = [w EXCEPT ![k] = Empty]
    BY <1>5 DEF WriteOne
  <2>2. /\ buffers_to_write' \in Seq(BufferType)
        /\ Len(buffers_to_write') = Len(w)
        /\ \A i \in 1..Len(w) : buffers_to_write'[i] = IF i = k THEN Empty ELSE w[i]
    BY <1>2, <2>1, EmptyType, ExceptSeq
  <2>3. WritesInOrder'
    <3>1. DOMAIN buffers_to_write' = 1..Len(w)
      BY <2>2, LenProperties
    <3>2. \A i \in 1..Len(w) : i < k + 1 => buffers_to_write'[i].lines = <<>>
      <4>1. Empty.lines = <<>>
        BY DEF Empty
      <4>2. \A i \in 1..Len(w) : i < k + 1 => i = k \/ i < k
        BY <1>2
      <4>. QED  BY <1>4, <2>2, <4>1, <4>2
    <3>. QED  BY <1>1, <3>1, <3>2 DEF WritesInOrder
  <2>4. Pending = buffer.lines \o Pending'
    <3>. DEFINE all == Append(w \o buffers, cur_buffer)
                rest == Append(buffers_to_write' \o buffers, cur_buffer)
    <3>1. /\ all \in Seq(Place) /\ k \in 1..Len(all) /\ all[k] = buffer
          /\ \A i \in 1..(k - 1) : Lines(all[i]) = <<>>
          /\ Len(all) \in Nat
      <4>1. /\ w \o buffers \in Seq(BufferType)
            /\ Len(w \o buffers) = Len(w) + Len(buffers) /\ Len(buffers) \in Nat
            /\ \A i \in 1..Len(w) : (w \o buffers)[i] = w[i]
        <5>1. \A i \in 1..Len(w) : i \in 1..(Len(w) + Len(buffers)) /\ i <= Len(w)
          BY <1>2, LenProperties
        <5>. QED  BY <1>2, <5>1, ConcatProperties, LenProperties
      <4>2. w \o buffers \in Seq(Place)
        BY <1>2, PendingSplit
      <4>3. /\ all \in Seq(Place) /\ Len(all) = Len(w \o buffers) + 1
            /\ \A i \in 1..Len(w \o buffers) : all[i] = (w \o buffers)[i]
        <5>. DEFINE both == w \o buffers
        <5>1. both \in Seq(Place)
          BY <4>2
        <5>. HIDE DEF both
        <5>2. /\ Append(both, cur_buffer) \in Seq(Place)
              /\ Len(Append(both, cur_buffer)) = Len(both) + 1
              /\ \A i \in 1..Len(both) : Append(both, cur_buffer)[i] = both[i]
          BY <1>2, <5>1, AppendProperties
        <5>. QED  BY <5>2 DEF both
      <4>. HIDE DEF all
      <4>4. \A i \in 1..Len(w) : all[i] = w[i] /\ i \in 1..Len(all)
        <5>1. \A i \in 1..Len(w) : i \in 1..Len(w \o buffers) /\ i \in 1..Len(all)
          BY <1>2, <4>1, <4>3
        <5>. QED  BY <4>1, <4>3, <5>1
      <4>5. \A i \in 1..(k - 1) : Lines(w[i]) = <<>> /\ i \in 1..Len(w)
        <5>1. \A i \in 1..(k - 1) : i \in 1..Len(w) /\ i < k
          BY <1>2
        <5>2. \A i \in 1..Len(w) : w[i] \in BufferType
          BY <1>2, ElementOfSeq
        <5>. QED  BY <1>4, <5>1, <5>2, LinesType
      <4>6. Len(all) \in Nat
        BY <1>2, <4>1, <4>3
      <4>. QED  BY <1>2, <4>3, <4>4, <4>5, <4>6
    <3>2. rest = [all EXCEPT ![k] = Empty]
      <4>1. Replaced(BufferType, buffers_to_write', w, k, Empty)
        BY <1>2, <2>1, EmptyType DEF Replaced
      <4>2. Replaced(Place, rest, all, k, Empty)
        <5>. HIDE DEF w, k
        <5>. QED  BY <1>2, <4>1, PlaceCleared
      <4>. HIDE DEF all, rest
      <4>. QED  BY <4>2 DEF Replaced
    <3>3. Pending = Text(all) /\ Pending' = Text(rest)
      BY <1>1, PendingIs DEF PendingOf
    <3>. HIDE DEF all, rest
    <3>4. Text(all) = Lines(all[k]) \o Text([all EXCEPT ![k] = Empty])
      BY <3>1, TextFirst
    <3>. QED  BY <1>3, <3>1, <3>2, <3>3, <3>4
  <2>5. Pending' \in Seq(LineType)
    <3>1. Pending' = PendingOf(buffers_to_write', buffers, cur_buffer)
      BY <1>1, PendingIs
    <3>. DEFINE t == Text(buffers_to_write' \o buffers)
                l == Lines(cur_buffer)
    <3>2. /\ Pending' = t \o l /\ t \in Seq(LineType) /\ l \in Seq(LineType)
      BY <1>2, <2>2, <3>1, PendingSplit
    <3>. HIDE DEF t, l
    <3>. QED  BY <3>2, ConcatProperties
  <2>6. buffer.lines # <<>>
    BY <1>3, <1>5, EmptySeq, BytesType DEF Counted
  <2>7. Queue!Deliver
    <3>. DEFINE s == buffer.lines
                p == Pending
                n == Len(s)
    <3>1. /\ s \in Seq(LineType) /\ s # <<>> /\ Pending' \in Seq(LineType)
          /\ p = s \o Pending'
      BY <1>3, <2>4, <2>5, <2>6
    <3>. HIDE DEF s, p
    <3>2. /\ n \in 1..Len(p)
          /\ SubSeq(p, 1, n) = s
          /\ SubSeq(p, n + 1, Len(p)) = Pending'
      BY <3>1, TakenOff
    <3>3. written' = written \o SubSeq(Pending, 1, n)
      BY <2>1, <3>2 DEF s, p
    <3>. HIDE DEF n
    <3>. QED  BY <1>1, <3>2, <3>3 DEF Queue!Deliver, p
  <2>. QED  BY <2>3, <2>7
<1>6. CASE ~(buffer.len > 0)
  <2>1. UNCHANGED <<written, buffers_to_write>>
    BY <1>6 DEF WriteOne, fileVars
  <2>2. buffer.lines = <<>>
    BY <1>3, <1>6, BytesType DEF Counted
  <2>3. WritesInOrder'
    <3>1. \A i \in 1..Len(w) : i < k + 1 => w[i].lines = <<>>
      <4>1. \A i \in 1..Len(w) : i < k + 1 => i = k \/ i < k
        BY <1>2
      <4>. QED  BY <1>4, <2>2, <4>1
    <3>. QED  BY <1>1, <1>2, <2>1, <3>1 DEF WritesInOrder
  <2>4. Pending' = Pending
    BY <1>1, <2>1, PendingIs
  <2>. QED  BY <1>1, <2>1, <2>3, <2>4 DEF Queue!fifoVars
<1>. QED
  BY <1>5, <1>6

(* By the end of the loop nothing is left of what was being written.       *)
LEMMA DeliveryRefill ==
  ASSUME DeliveryInv, Refill
  PROVE  WritesInOrder' /\ UNCHANGED Queue!fifoVars
<1>. DEFINE w == buffers_to_write
<1>1. /\ pc = "write" /\ pc' = "check" /\ w' = <<>>
      /\ writing > Len(w)
      /\ UNCHANGED <<cur_buffer, buffers, written, logged>>
  BY DEF Refill, sharedVars, historyVars
<1>2. /\ Len(w) \in Nat /\ w \in Seq(BufferType) /\ w \in Seq(Place)
      /\ DOMAIN w = 1..Len(w) /\ writing \in Nat
      /\ buffers \in Seq(BufferType) /\ cur_buffer \in Place
      /\ <<>> \in Seq(BufferType)
      /\ \A i \in 1..Len(w) : w[i] \in BufferType
  <2>1. w \in Seq(BufferType) /\ buffers \in Seq(BufferType) /\ cur_buffer \in Place
        /\ writing \in Nat
    BY DeliveryTypes DEF DeliveryInv, LoggingInv, TypeOK
  <2>. HIDE DEF w
  <2>2. w \in Seq(Place)
    BY <2>1, SeqMonotonic DEF Place
  <2>. QED  BY <2>1, <2>2, LenProperties, EmptySeq, ElementOfSeq
<1>3. \A i \in 1..Len(w) : Lines(w[i]) = <<>>
  <2>1. \A i \in 1..Len(w) : i < writing
    BY <1>1, <1>2
  <2>. QED  BY <1>1, <1>2, <2>1, LinesType DEF DeliveryInv, WritesInOrder
<1>4. buffers \in Seq(Place)
  BY <1>2, SeqMonotonic DEF Place
<1>5. Text(w \o buffers) = Text(buffers)
  <2>. HIDE DEF w
  <2>. QED  BY <1>2, <1>3, <1>4, TextRest
<1>6. <<>> \o buffers = buffers
  BY <1>2, ConcatEmptySeq
<1>7. Pending' = Pending
  <2>1. Pending = Text(w \o buffers) \o Lines(cur_buffer)
    BY <1>2, PendingIs, PendingSplit
  <2>2. Pending' = Text(<<>> \o buffers) \o Lines(cur_buffer)
    BY <1>1, <1>2, PendingIs, PendingSplit
  <2>. QED  BY <1>5, <1>6, <2>1, <2>2
<1>. QED
  BY <1>1, <1>7 DEF WritesInOrder, Queue!fifoVars

-----------------------------------------------------------------------------
LEMMA DeliveryStep ==
  ASSUME DeliveryInv, [Next]_vars
  PROVE  WritesInOrder' /\ [Queue!Next]_(Queue!fifoVars)
<1>1. CASE UNCHANGED <<cur_buffer, buffers, buffers_to_write, written, logged, pc,
                       writing>>
  <2>1. Pending' = Pending
    BY <1>1, PendingIs
  <2>. QED
    BY <1>1, <2>1 DEF DeliveryInv, WritesInOrder, Queue!fifoVars
<1>2. CASE Swap /\ pc \in {"wait", "blocked"}
  BY <1>2, DeliverySwap
<1>3. ASSUME UNCHANGED <<cur_buffer, buffers, written, logged>>,
             buffers_to_write = <<>>, buffers_to_write' = <<>>,
             pc # "off", pc' \notin {"off", "write"}
      PROVE  WritesInOrder' /\ UNCHANGED Queue!fifoVars
  <2>1. Pending' = Pending
    BY <1>3, PendingIs
  <2>. QED
    BY <1>3, <2>1 DEF WritesInOrder, Queue!fifoVars
<1>4. CASE OpenLog
  BY <1>3, <1>4 DEF OpenLog, sharedVars, DeliveryInv, WritesInOrder
<1>5. CASE CheckRunning
  <2>1. /\ pc = "check" /\ pc' \in {"wait", "done"}
        /\ UNCHANGED <<cur_buffer, buffers, written, logged, buffers_to_write>>
    BY <1>5 DEF CheckRunning, sharedVars, threadVars, historyVars
  <2>. QED
    BY <1>3, <2>1 DEF DeliveryInv, WritesInOrder
<1>6. CASE Wait /\ buffers = <<>>
  <2>1. /\ pc = "wait" /\ pc' = "blocked"
        /\ UNCHANGED <<cur_buffer, buffers, written, logged, buffers_to_write>>
    BY <1>6 DEF Wait, sharedVars, threadVars, historyVars
  <2>. QED
    BY <1>3, <2>1 DEF DeliveryInv, WritesInOrder
<1>7. CASE Wait \/ WakeUp \/ Timeout
  BY <1>2, <1>6, <1>7 DEF Wait, WakeUp, Timeout
<1>8. CASE Stop \/ UNCHANGED vars
  BY <1>1, <1>8 DEF Stop, vars, sharedVars, threadVars, historyVars
<1>9. CASE \E body \in Bodies : Log(body)
  BY <1>9, DeliveryLog DEF Queue!Next
<1>10. CASE Start
  BY <1>10, DeliveryStart DEF Queue!Next
<1>11. CASE Join
  BY <1>11, DeliveryJoin DEF Queue!Next
<1>12. CASE WriteOne
  BY <1>12, DeliveryWriteOne DEF Queue!Next
<1>13. CASE Refill
  BY <1>13, DeliveryRefill
<1>. QED
  BY <1>4, <1>5, <1>7, <1>8, <1>9, <1>10, <1>11, <1>12, <1>13 DEF Next

(* The asynchronous log is a queue, whatever the threads do between the    *)
(* critical sections: the lines logged come to the file whole, in the      *)
(* order they were appended, each once, and only the destructor throws any *)
(* away (async_logging.cpp:30-53, 71-112).                                 *)
THEOREM LogImplementsQueue == Spec => Queue!Spec
<1>1. Init => DeliveryInv /\ Queue!Init
  BY DeliveryInit
<1>2. DeliveryInv /\ [Next]_vars => DeliveryInv' /\ [Queue!Next]_(Queue!fifoVars)
  <2>. SUFFICES ASSUME DeliveryInv, [Next]_vars
                PROVE  DeliveryInv' /\ [Queue!Next]_(Queue!fifoVars)
    OBVIOUS
  <2>1. LoggingInv' /\ RollInv'
    BY LoggingNext, RollNext DEF DeliveryInv
  <2>2. WritesInOrder' /\ [Queue!Next]_(Queue!fifoVars)
    BY DeliveryStep
  <2>. QED  BY <2>1, <2>2 DEF DeliveryInv
<1>. QED
  BY <1>1, <1>2, PTL DEF Spec, Queue!Spec
=============================================================================
