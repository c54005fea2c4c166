------------------------------ MODULE LogFile -------------------------------
(***************************************************************************)
(* LogFile and AppendFile (common/alog/log_file.h, log_file.cpp) with a    *)
(* path that is not empty: the log and its backup, each the sequence of    *)
(* lines in it.  Every write succeeds; what stdio still holds back is not  *)
(* told apart from what is on the disk.                                    *)
(***************************************************************************)
EXTENDS Integers, SequencesExt

CONSTANT RollSize      \* roll_size_
ASSUME LogFileAssumption == RollSize \in Nat

VARIABLES
  current, backup,     \* <path>_rtc.log and <path>_rtc.log.bk
  written_bytes        \* written_bytes_ of the AppendFile on current

fileVars == <<current, backup, written_bytes>>

LogFileInit == current = <<>> /\ backup = <<>> /\ written_bytes = 0

(* A mutant: a backup that exists is not replaced.                         *)
RollFileOnce(log) ==
  /\ backup' = IF backup = <<>> THEN log ELSE backup
  /\ current' = <<>>
  /\ written_bytes' = 0

(* roll_file, when the log holds these lines.                              *)
RollFile(log) ==
  /\ backup' = log
  /\ current' = <<>>
  /\ written_bytes' = 0

(* LogFile::append: the size is looked at after the lines are added.       *)
AppendFile(lines, bytes) ==
  IF written_bytes + bytes > RollSize
    THEN RollFile(current \o lines)
    ELSE /\ current' = current \o lines
         /\ written_bytes' = written_bytes + bytes
         /\ UNCHANGED backup
=============================================================================
