---------------------------- MODULE LogRotation ----------------------------
(***************************************************************************)
(* FileoutLogAppender (src/src/util/log.cpp): threads append lines to the  *)
(* current log file and move on to the next one of rotate_file_num files   *)
(* when it has grown beyond rotate_file_size, reusing the files in turn.   *)
(*                                                                         *)
(* A line is its number and counts 1 towards the size of its file; a file  *)
(* is the sequence of its lines. The files are empty at first. The name of *)
(* the files does not change while the appender is in use.                 *)
(***************************************************************************)
EXTENDS Integers, Sequences, SequencesExt

CONSTANTS Writers,                            \* threads that log
          rotate_file_num, rotate_file_size,
          MaxLines,                           \* bound: lines logged
          MaxFailures                         \* bound: file operations that fail

VARIABLES files,        \* the files by index
          m_file_idx,
          is_open,      \* m_filestream.is_open()
          m_rotating,
          writer,       \* where each writer is
          lines,        \* lines logged
          failures,     \* failed file operations
          twice         \* history: two threads had found the same file full
rotationVars == <<files, m_file_idx, is_open, m_rotating, writer, lines, failures, twice>>

RotationInit ==
  /\ files = [i \in 1 .. rotate_file_num |-> <<>>] /\ m_file_idx = 1 /\ is_open = TRUE /\ m_rotating = FALSE
  /\ writer = [w \in Writers |-> "idle"] /\ lines = 0 /\ failures = 0 /\ twice = FALSE

WriterAt(w, pc) == writer' = [writer EXCEPT ![w] = pc]

\* Under the lock. A line for a stream that is not open is lost, and the size that tellp() gives
\* then is the largest there is.
writeToFile(w) ==
  /\ writer[w] = "idle" /\ lines < MaxLines
  /\ lines' = lines + 1
  /\ files' = IF is_open THEN [files EXCEPT ![m_file_idx] = Append(@, lines')] ELSE files
  /\ WriterAt(w, IF (~is_open \/ Len(files'[m_file_idx]) > rotate_file_size) /\ ~m_rotating THEN "full" ELSE "idle")
  /\ UNCHANGED <<m_file_idx, is_open, m_rotating, failures, twice>>

\* rotateFile() asks again, without the lock ...
RotateAsks(w) ==
  /\ writer[w] = "full" /\ WriterAt(w, IF m_rotating THEN "idle" ELSE "claim")
  /\ UNCHANGED <<files, m_file_idx, is_open, m_rotating, lines, failures, twice>>
\* ... and sets the flag, as another thread may do at the same time.
RotateClaims(w) ==
  /\ writer[w] = "claim" /\ WriterAt(w, "swap") /\ m_rotating' = TRUE
  /\ twice' = (twice \/ \E o \in Writers \ {w} : writer[o] \in {"full", "claim", "swap"})
  /\ UNCHANGED <<files, m_file_idx, is_open, lines, failures>>

\* Mutant of NextIdx: the remainder is taken last.
NextIdxShort == IF (m_file_idx + 1) % rotate_file_num = 0 THEN 1 ELSE (m_file_idx + 1) % rotate_file_num
NextIdx == (m_file_idx % rotate_file_num) + 1

\* Under the lock: the next file is removed, or truncated when it cannot be, and opened.
rotateFile(w) ==
  /\ writer[w] = "swap" /\ WriterAt(w, "release")
  /\ files' = [files EXCEPT ![NextIdx] = <<>>] /\ m_file_idx' = NextIdx /\ is_open' = TRUE
  /\ UNCHANGED <<m_rotating, lines, failures, twice>>
\* Neither works, or the file cannot be opened: the stream stays closed, for the next line to try again.
RotateFails(w) ==
  /\ writer[w] = "swap" /\ failures < MaxFailures /\ failures' = failures + 1
  /\ \E removed \in BOOLEAN : files' = IF removed THEN [files EXCEPT ![NextIdx] = <<>>] ELSE files
  /\ is_open' = FALSE /\ m_rotating' = FALSE /\ WriterAt(w, "idle")
  /\ UNCHANGED <<m_file_idx, lines, twice>>

RotateEnds(w) ==
  /\ writer[w] = "release" /\ m_rotating' = FALSE /\ WriterAt(w, "idle")
  /\ UNCHANGED <<files, m_file_idx, is_open, lines, failures, twice>>

RotationNext ==
  \E w \in Writers : \/ writeToFile(w) \/ RotateAsks(w) \/ RotateClaims(w) \/ rotateFile(w)
                     \/ RotateFails(w) \/ RotateEnds(w)

-----------------------------------------------------------------------------
(* Properties. *)

\* The lines in the files, from the file that is reused next to the current one.
KeptLines ==
  FoldLeft(LAMBDA s, i : s \o files[((m_file_idx + i - 1) % rotate_file_num) + 1], <<>>, [i \in 1 .. rotate_file_num |-> i])

\* The files hold lines in the order they were logged. Without a failed rotation these are the
\* newest lines without a gap; and unless two threads found the same file full, all of them
\* are there until the files have been around once, and after that at least those that fill all
\* files but one.
LogKeepsNewest ==
  /\ \A i, j \in DOMAIN KeptLines : i < j => KeptLines[i] < KeptLines[j]
  /\ failures = 0 => \A i \in DOMAIN KeptLines : KeptLines[i] = lines - Len(KeptLines) + i
  /\ (failures = 0 /\ ~twice) =>
       \/ Len(KeptLines) = lines
       \/ Len(KeptLines) >= (rotate_file_num - 1) * (rotate_file_size + 1)
=============================================================================
