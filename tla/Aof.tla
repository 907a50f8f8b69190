--------------------------------- MODULE Aof ---------------------------------
(***************************************************************************)
(* The append-only file of src/redis_command/modules/AOF.{h,cpp}, with its *)
(* start and its end in the constructor and destructor of CommandHandler.  *)
(*                                                                         *)
(* A write command travels from the buffer (appendToAOF) through the hands *)
(* of the flush thread and the user-space buffer of the ofstream to a      *)
(* file. The files 1..MaxFiles are used in a circle. Threads: the clients' *)
(* workers, the flush thread, aofSyncLoop(), detached AOFROTATE threads,   *)
(* CONFIG SET, and the thread that destroys the server. A crash loses what *)
(* is not in a file.                                                       *)
(*                                                                         *)
(* Commands are numbered in the order in which they are appended; sizes    *)
(* and clocks are abstracted: whether a file has outgrown its limit, or    *)
(* what the parser of loadAOF() takes, and whether a second has passed     *)
(* since the last flush, is a choice.                                      *)
(***************************************************************************)
EXTENDS Integers, Sequences, SequencesExt

CONSTANTS
  MaxFiles,     \* s_aof_max_file_number
  Sync,         \* s_aof_sync
  Flusher,      \* the flush thread, as a caller of rotateAOF()
  Rotators,     \* AOFROTATE threads; each is started once (a bound)
  NoOne,
  MaxCommands,  \* bound: write commands
  MaxCrashes,   \* bound: crashes
  MayFail,      \* whether files may fail to be truncated, opened or read
  MayConfigure  \* whether CONFIG SET aof-enabled is used

Files == 1 .. MaxFiles
Threads == Rotators \cup {Flusher}

ASSUME FilesAssumption == MaxFiles \in Nat \ {0}
ASSUME SyncAssumption  == Sync \in {"always", "everysec", "no"}
ASSUME ThreadsAssumption == Flusher \notin Rotators /\ NoOne \notin Threads
ASSUME BoundsAssumption ==
  {MaxCommands, MaxCrashes} \subseteq Nat /\ {MayFail, MayConfigure} \subseteq BOOLEAN

VARIABLES
  enabled,   \* s_aof_enabled
  disk,      \* the contents of the files
  exists,    \* the files that exist
  cur,       \* m_aof_file_idx
  open, bad, \* m_aof_file: is_open(), and its failbit
  stream,    \* what m_aof_file holds in user space
  buffer,    \* m_aof_buffer
  hand,      \* data_to_write of the flush thread or of flushAOFBuffer()
  mutex,     \* m_aof_mutex
  rotating,  \* m_aof_rotating
  rpc,       \* each thread in rotateAOF()
  running,   \* m_aof_flush_running
  fpc,       \* the flush thread
  stop,      \* m_stop
  ppc,       \* the process and its destructor
  next,      \* the number of the next write command
  crashes,
  log,       \* history: what the log should hold, in order
  missed,    \* history: commands run with AOF enabled that were not appended
  off,       \* history: AOF was switched off, by CONFIG SET or by a failure
  wrapped,   \* history: a file was reused, or the log went on before its last file
  late,      \* history: commands appended after flushAOFBuffer() had taken the buffer
  skipped,   \* history: the files the last loadAOF() passed over
  recovered  \* history: the commands the last loadAOF() executed, in order

fileVars == <<disk, exists, cur, open, bad, stream>>
histVars == <<log, missed, off, wrapped, late, skipped, recovered>>
vars == <<enabled, fileVars, buffer, hand, mutex, rotating, rpc, running, fpc,
          stop, ppc, next, crashes, histVars>>

\* The files from the oldest to the newest.
ByAge == FlattenSeq(SubSeq(disk, cur + 1, MaxFiles) \o SubSeq(disk, 1, cur))

\* Everything on its way into the log, oldest first.
Pipeline == ByAge \o stream \o hand \o buffer

Init ==
  /\ enabled = TRUE
  /\ disk = [f \in Files |-> <<>>] /\ exists = {}
  /\ cur = 1 /\ open = FALSE /\ bad = FALSE /\ stream = <<>>
  /\ buffer = <<>> /\ hand = <<>>
  /\ mutex = NoOne /\ rotating = FALSE
  /\ rpc = [r \in Threads |-> "idle"]
  /\ running = FALSE /\ fpc = "off" /\ stop = FALSE
  /\ ppc = "boot"
  /\ next = 1 /\ crashes = 0
  /\ log = <<>> /\ missed = {} /\ off = FALSE /\ wrapped = FALSE
  /\ late = {} /\ skipped = {} /\ recovered = <<>>

\* From the end of the constructor to the end of the destructor: clients'
\* commands run and threads are alive, whatever the destructor has stopped.
Serving == ppc \notin {"boot", "down"}

-----------------------------------------------------------------------------
(* Opening and closing. *)

\* m_aof_file.flush() and close() put the user-space buffer into the file.
Flushed == [disk EXCEPT ![cur] = @ \o stream]

\* initAOF(): opens the current file for appending and starts the flush thread.
\* On a stream that is open already open() fails, and AOF is switched off.
InitAOF(idx) ==
  \/ /\ ~open
     /\ open' = TRUE /\ bad' = FALSE /\ enabled' = TRUE
     /\ exists' = exists \cup {idx}
     /\ running' = TRUE
     /\ fpc' = IF running THEN fpc ELSE "loop"
     /\ UNCHANGED off
  \/ /\ open \/ MayFail
     /\ bad' = TRUE /\ enabled' = FALSE /\ off' = TRUE
     /\ UNCHANGED <<exists, open, running, fpc>>

\* The file with the highest index that the test of loadAOF() could open.
LastOf(found) == IF found = {} THEN 1 ELSE CHOOSE f \in found : \A g \in found : g <= f

\* Mutant of Load: only the file it goes on with is executed.
LoadLastOnly ==
  /\ ppc = "boot"
  /\ cur' = LastOf(exists) /\ recovered' = disk[cur'] /\ InitAOF(cur')
  /\ skipped' = {}
  /\ ppc' = "up"
  /\ UNCHANGED <<disk, stream, buffer, hand, mutex, rotating, rpc, stop, next, crashes,
                 log, missed, wrapped, late>>

\* loadAOF() executes the files in the order of their index and goes on with
\* the last one; then initAOF(). A file that cannot be opened when they are
\* listed is not seen at all. One of the others is passed over as a whole when
\* it holds more than RespStreamParser takes (1 MB unless it is told
\* otherwise), or cannot be opened the second time.
Load ==
  /\ ppc = "boot"
  /\ \E unseen \in (IF MayFail THEN SUBSET exists ELSE {{}}) :
       /\ \E over \in SUBSET {f \in exists \ unseen : disk[f] # <<>>} :
            skipped' = unseen \cup over
       /\ cur' = LastOf(exists \ unseen)
       /\ wrapped' = (wrapped \/ unseen # {})
  /\ recovered' = FlattenSeq([f \in Files |-> IF f \in skipped' THEN <<>> ELSE disk[f]])
  /\ InitAOF(cur')
  /\ ppc' = "up"
  /\ UNCHANGED <<disk, stream, buffer, hand, mutex, rotating, rpc, stop, next, crashes,
                 log, missed, late>>

\* CONFIG SET aof-enabled yes. (After stopAOFFlushThread() a new flush thread
\* ends the process: std::terminate(), a crash.)
ConfigOn ==
  /\ MayConfigure /\ ppc \in {"up", "stopping"}
  /\ InitAOF(cur)
  /\ UNCHANGED <<disk, cur, stream, buffer, hand, mutex, rotating, rpc, stop, ppc, next,
                 crashes, log, missed, wrapped, late, skipped, recovered>>

\* CONFIG SET aof-enabled no: closeAOF(), without m_aof_mutex.
ConfigOff ==
  /\ MayConfigure /\ Serving
  /\ enabled' = FALSE /\ off' = TRUE
  /\ open' = FALSE
  /\ disk' = Flushed /\ stream' = <<>>
  /\ UNCHANGED <<exists, cur, bad, buffer, hand, mutex, rotating, rpc, running, fpc,
                 stop, ppc, next, crashes, log, missed, wrapped, late, skipped, recovered>>

-----------------------------------------------------------------------------
(* Appending and flushing. *)

\* appendToAOF(), which looks at m_aof_file without m_aof_mutex, and at nothing
\* that says whether the flush thread still runs.
AppendToAOF ==
  /\ Serving
  /\ next <= MaxCommands
  /\ next' = next + 1
  /\ IF enabled /\ open
     THEN /\ buffer' = Append(buffer, next)
          /\ log' = Append(log, next)
          /\ late' = IF ppc \in {"flushing", "closing"} THEN late \cup {next} ELSE late
          /\ UNCHANGED missed
     ELSE /\ missed' = IF enabled THEN missed \cup {next} ELSE missed
          /\ UNCHANGED <<buffer, log, late>>
  /\ UNCHANGED <<enabled, fileVars, hand, mutex, rotating, rpc, running, fpc, stop,
                 ppc, crashes, off, wrapped, skipped, recovered>>

\* The loop condition of aofFlushThread().
FlushLoop ==
  /\ fpc = "loop"
  /\ fpc' = IF running /\ ~stop THEN "wait" ELSE "exited"
  /\ UNCHANGED <<enabled, fileVars, buffer, hand, mutex, rotating, rpc, running, stop,
                 ppc, next, crashes, histVars>>

\* Mutant of FlushTake: the buffer is copied, not cleared.
FlushTakeCopies ==
  /\ fpc = "wait"
  /\ hand' = buffer
  /\ fpc' = IF buffer = <<>> THEN "loop" ELSE "write"
  /\ UNCHANGED <<enabled, fileVars, buffer, mutex, rotating, rpc, running, stop, ppc,
                 next, crashes, histVars>>

\* wait_for() ends: with data, which is moved out of the buffer, or without.
FlushTake ==
  /\ fpc = "wait"
  /\ hand' = buffer
  /\ buffer' = <<>>
  /\ fpc' = IF buffer = <<>> THEN "loop" ELSE "write"
  /\ UNCHANGED <<enabled, fileVars, mutex, rotating, rpc, running, stop, ppc, next,
                 crashes, histVars>>

\* `m_aof_file << data`, which a stream with its failbit set ignores, and the
\* flush: at once, when a second has passed, or when the stream's buffer is full.
WriteHand(mustFlush) ==
  /\ LET data == IF open /\ ~bad THEN stream \o hand ELSE stream
     IN \/ /\ disk' = [disk EXCEPT ![cur] = @ \o data]
           /\ stream' = <<>>
        \/ /\ ~mustFlush \/ ~open \/ bad
           /\ stream' = data
           /\ UNCHANGED disk
  /\ hand' = <<>>

\* The file part of the loop, with m_aof_mutex. A file over its limit, which a
\* failed tellp() always seems to be, leads to rotateAOF() after the unlock.
FlushWrite ==
  /\ fpc = "write"
  /\ mutex = NoOne
  /\ WriteHand(Sync = "always")
  /\ \/ /\ open /\ ~rotating
        /\ fpc' = "rotate"
        /\ rpc' = [rpc EXCEPT ![Flusher] = "test"]
     \/ /\ ~(open /\ bad /\ ~rotating)
        /\ fpc' = "loop"
        /\ UNCHANGED rpc
  /\ UNCHANGED <<enabled, exists, cur, open, bad, buffer, mutex, rotating, running,
                 stop, ppc, next, crashes, histVars>>

\* Mutant of SyncFlush: "everysec" is not handled.
SyncFlushAlwaysOnly ==
  /\ Serving
  /\ open /\ Sync = "always" /\ stream # <<>>
  /\ disk' = Flushed /\ stream' = <<>>
  /\ UNCHANGED <<enabled, exists, cur, open, bad, buffer, hand, mutex, rotating, rpc,
                 running, fpc, stop, ppc, next, crashes, histVars>>

\* aofSyncLoop(): flushes every second or, for "always", every time, and then
\* without m_aof_mutex; once more after stop().
SyncFlush ==
  /\ Serving
  /\ open
  /\ Sync = "always" \/ (Sync = "everysec" /\ mutex = NoOne)
  /\ stream # <<>>
  /\ disk' = Flushed /\ stream' = <<>>
  /\ UNCHANGED <<enabled, exists, cur, open, bad, buffer, hand, mutex, rotating, rpc,
                 running, fpc, stop, ppc, next, crashes, histVars>>

-----------------------------------------------------------------------------
(* rotateAOF() *)

\* AOFROTATE: refused while AOF is off or a rotation runs; starts a thread.
HandleAOFROTATE(r) ==
  /\ r \in Rotators
  /\ Serving
  /\ enabled /\ ~rotating
  /\ rpc[r] = "idle"
  /\ rpc' = [rpc EXCEPT ![r] = "test"]
  /\ UNCHANGED <<enabled, fileVars, buffer, hand, mutex, rotating, running, fpc, stop,
                 ppc, next, crashes, histVars>>

\* A thread leaves rotateAOF(); the flush thread goes on with its loop.
Leave(r) ==
  /\ rpc' = [rpc EXCEPT ![r] = IF r = Flusher THEN "idle" ELSE "done"]
  /\ fpc' = IF r = Flusher THEN "loop" ELSE fpc

\* m_aof_rotating is tested,
RotateTest(r) ==
  /\ rpc[r] = "test"
  /\ IF rotating
     THEN Leave(r)
     ELSE rpc' = [rpc EXCEPT ![r] = "set"] /\ UNCHANGED fpc
  /\ UNCHANGED <<enabled, fileVars, buffer, hand, mutex, rotating, running, stop, ppc,
                 next, crashes, histVars>>

\* and then set; two threads can both have seen it clear.
RotateSet(r) ==
  /\ rpc[r] = "set"
  /\ rotating' = TRUE
  /\ rpc' = [rpc EXCEPT ![r] = "lock"]
  /\ UNCHANGED <<enabled, fileVars, buffer, hand, mutex, running, fpc, stop, ppc, next,
                 crashes, histVars>>

\* m_aof_mutex is taken, the current file flushed and closed.
RotateClose(r) ==
  /\ rpc[r] = "lock"
  /\ mutex = NoOne
  /\ mutex' = r
  /\ open' = FALSE
  /\ disk' = Flushed /\ stream' = <<>>
  /\ rpc' = [rpc EXCEPT ![r] = "open"]
  /\ UNCHANGED <<enabled, exists, cur, bad, buffer, hand, rotating, running, fpc, stop,
                 ppc, next, crashes, histVars>>

\* The index of the next file, in 1..MaxFiles.
NextIdx == (cur % MaxFiles) + 1

\* The next file is removed or truncated, and opened.
RotateOpen(r) ==
  /\ rpc[r] = "open"
  /\ ~open
  /\ disk' = [disk EXCEPT ![NextIdx] = <<>>]
  /\ exists' = exists \cup {NextIdx}
  /\ wrapped' = (wrapped \/ NextIdx \in exists)
  /\ cur' = NextIdx
  /\ open' = TRUE /\ bad' = FALSE
  /\ mutex' = NoOne
  /\ rpc' = [rpc EXCEPT ![r] = "end"]
  /\ UNCHANGED <<enabled, stream, buffer, hand, rotating, running, fpc, stop, ppc, next,
                 crashes, log, missed, off, late, skipped, recovered>>

\* It cannot be truncated, or not be opened (CONFIG SET may have opened the
\* stream in the meantime): AOF is switched off.
RotateFails(r) ==
  /\ rpc[r] = "open"
  /\ MayFail \/ open
  /\ \/ MayFail /\ UNCHANGED <<disk, exists, bad, wrapped>>
     \/ /\ disk' = [disk EXCEPT ![NextIdx] = <<>>]
        /\ exists' \in {exists, exists \ {NextIdx}}
        /\ wrapped' = (wrapped \/ NextIdx \in exists)
        /\ bad' = TRUE
  /\ enabled' = FALSE /\ off' = TRUE
  /\ mutex' = NoOne /\ rotating' = FALSE
  /\ Leave(r)
  /\ UNCHANGED <<cur, open, stream, buffer, hand, running, stop, ppc, next, crashes,
                 log, missed, late, skipped, recovered>>

RotateEnd(r) ==
  /\ rpc[r] = "end"
  /\ rotating' = FALSE
  /\ Leave(r)
  /\ UNCHANGED <<enabled, fileVars, buffer, hand, mutex, running, stop, ppc, next,
                 crashes, histVars>>

RotateStep(r) ==
  \/ RotateTest(r) \/ RotateSet(r) \/ RotateClose(r) \/ RotateOpen(r)
  \/ RotateFails(r) \/ RotateEnd(r)

-----------------------------------------------------------------------------
(* The destructor of CommandHandler, and the crash. *)

\* AOFModule::stop() and a sleep; the clients' commands go on.
BeginShutdown ==
  /\ ppc = "up"
  /\ stop' = TRUE
  /\ ppc' = "stopping"
  /\ UNCHANGED <<enabled, fileVars, buffer, hand, mutex, rotating, rpc, running, fpc,
                 next, crashes, histVars>>

\* stopAOFFlushThread() does nothing when the thread was never started,
StopFlushThread ==
  /\ ppc = "stopping"
  /\ running' = FALSE
  /\ ppc' = IF running THEN "joining" ELSE "closing"
  /\ UNCHANGED <<enabled, fileVars, buffer, hand, mutex, rotating, rpc, fpc, stop, next,
                 crashes, histVars>>

\* joins it and takes what is left in the buffer: flushAOFBuffer(),
FlushRest ==
  /\ ppc = "joining"
  /\ fpc = "exited"
  /\ hand' = buffer /\ buffer' = <<>>
  /\ ppc' = "flushing"
  /\ UNCHANGED <<enabled, fileVars, mutex, rotating, rpc, running, fpc, stop, next,
                 crashes, histVars>>

\* writes and flushes it.
WriteRest ==
  /\ ppc = "flushing"
  /\ mutex = NoOne
  /\ WriteHand(TRUE)
  /\ ppc' = "closing"
  /\ UNCHANGED <<enabled, exists, cur, open, bad, buffer, mutex, rotating, rpc, running,
                 fpc, stop, next, crashes, histVars>>

\* closeAOFWithFlush(), without m_aof_mutex and without a look at the buffer;
\* then the process ends.
CloseAOF ==
  /\ ppc = "closing"
  /\ open' = FALSE
  /\ disk' = Flushed /\ stream' = <<>>
  /\ ppc' = "down"
  /\ UNCHANGED <<enabled, exists, cur, bad, buffer, hand, mutex, rotating, rpc, running,
                 fpc, stop, next, crashes, histVars>>

\* The commands of s that D holds, in their order.
Kept(s, D) == FlattenSeq([i \in 1 .. Len(s) |-> IF s[i] \in D THEN <<s[i]>> ELSE <<>>])

\* Memory is lost, and with it the commands no file holds.
Reboot ==
  /\ ppc' = "boot"
  /\ enabled' = TRUE /\ open' = FALSE /\ bad' = FALSE
  /\ stream' = <<>> /\ buffer' = <<>> /\ hand' = <<>>
  /\ mutex' = NoOne /\ rotating' = FALSE
  /\ rpc' = [r \in Threads |-> IF r # Flusher /\ rpc[r] # "idle" THEN "done" ELSE "idle"]
  /\ running' = FALSE /\ fpc' = "off" /\ stop' = FALSE
  /\ log' = Kept(log, UNION {ToSet(disk[f]) : f \in Files})
  /\ UNCHANGED <<disk, exists, cur, next, missed, off, wrapped, late, skipped, recovered>>

Crash ==
  /\ Serving
  /\ crashes < MaxCrashes
  /\ crashes' = crashes + 1
  /\ Reboot

\* The next start after an orderly shutdown.
Restart ==
  /\ ppc = "down"
  /\ crashes < MaxCrashes
  /\ crashes' = crashes + 1
  /\ Reboot

-----------------------------------------------------------------------------

FlushStep == FlushLoop \/ FlushTake \/ FlushWrite

ShutdownStep == StopFlushThread \/ FlushRest \/ WriteRest \/ CloseAOF

Next ==
  \/ Load \/ ConfigOn \/ ConfigOff
  \/ AppendToAOF
  \/ FlushStep \/ SyncFlush
  \/ \E r \in Rotators : HandleAOFROTATE(r)
  \/ \E r \in Threads : RotateStep(r) /\ Serving
  \/ BeginShutdown \/ ShutdownStep
  \/ Crash \/ Restart

\* Runnable threads run; the sync loop's timer expires.
Fairness ==
  /\ WF_vars(FlushStep) /\ WF_vars(SyncFlush) /\ WF_vars(ShutdownStep)
  /\ \A r \in Threads : WF_vars(RotateStep(r) /\ Serving)

Spec == Init /\ [][Next]_vars /\ Fairness

-----------------------------------------------------------------------------
(* Properties. *)

TypeOK ==
  /\ {enabled, open, bad, rotating, running, stop, off, wrapped} \subseteq BOOLEAN
  /\ disk \in [Files -> Seq(1 .. MaxCommands)]
  /\ exists \subseteq Files /\ cur \in Files
  /\ {stream, buffer, hand, log, recovered} \subseteq Seq(1 .. MaxCommands)
  /\ mutex \in Threads \cup {NoOne}
  /\ rpc \in [Threads -> {"idle", "test", "set", "lock", "open", "end", "done"}]
  /\ fpc \in {"off", "loop", "wait", "write", "rotate", "exited"}
  /\ ppc \in {"boot", "up", "stopping", "joining", "flushing", "closing", "down"}
  /\ next \in 1 .. MaxCommands + 1 /\ crashes \in 0 .. MaxCrashes
  /\ {missed, late} \subseteq SUBSET (1 .. MaxCommands) /\ skipped \subseteq Files

\* The log never loses, repeats or reorders a command it accepted: while the
\* flush thread, the sync loop and two rotations that both passed the
\* m_aof_rotating test move it on, buffer, stream and files together hold
\* exactly the accepted commands in order (from the first file on, as long as
\* no file was reused and AOF was not switched off); reusing the oldest file
\* drops the oldest commands and nothing else; and when the process has ended in
\* order, clients still appending and a rotation under way at that time, every
\* accepted command is in a file, except those at the end that were appended
\* after the destructor had emptied the buffer for the last time.
LogIsWhole ==
  ~off =>
    /\ ~wrapped => Pipeline = log
    /\ crashes = 0 => IsSuffix(Pipeline, log)
    /\ (ppc = "down" /\ ~wrapped) => ByAge \o buffer = log /\ ToSet(buffer) \subseteq late

\* After a crash or a shutdown at any point, loadAOF() executes the commands
\* that the process had in its files in the order in which they were appended,
\* each once, and leaves out none but those of the files it passes over.
RecoversTheLog ==
  [][ppc = "boot" /\ ppc' = "up" /\ ~off' /\ ~wrapped' =>
       recovered' = Kept(log, UNION {ToSet(disk[f]) : f \in Files \ skipped'})]_vars

\* AOF.h on appendToAOF(): appends the command to the AOF. Every write command
\* executed while AOF is enabled is appended.
EnabledMeansAppended == missed = {}

\* With "always" and "everysec", what is appended reaches a file while the
\* process lives and AOF is on.
AppendedReachesFile ==
  \A c \in 1 .. MaxCommands :
    c \in ToSet(buffer) ~> (\E f \in Files : c \in ToSet(disk[f])) \/ ppc \in {"boot", "down"} \/ off \/ wrapped
=============================================================================
