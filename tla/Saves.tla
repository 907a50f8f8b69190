------------------------------- MODULE Saves -------------------------------
(***************************************************************************)
(* SAVE and BGSAVE (command_handler_table.cpp) and the file they write,    *)
(* ServerData::saveToFile (server_data.cpp); module Snapshot has what is   *)
(* in the file.                                                            *)
(*                                                                         *)
(* saveToFile() truncates the file in place and then writes shard after    *)
(* shard with a stream of its own, so two saves at a time write over each  *)
(* other.  BGSAVE tests a flag and sets it in two steps; SAVE, and the     *)
(* save at the end of the program, do not look at it.                      *)
(***************************************************************************)
EXTENDS Integers, FiniteSets

CONSTANTS Savers,     \* threads that execute SAVE or BGSAVE
          DumpShards, \* shards of all the databases
          MaxSaves    \* bound: saves begun

ASSUME SaveAssumption == DumpShards \in Nat /\ MaxSaves \in Nat

VARIABLES m_bgsave_running,
          dump,       \* shard -> the save that wrote it, 0 if it is not in the file
          saver,      \* what each thread does
          saves,      \* how many saves were begun
          mixed,      \* history: the file was truncated while another save wrote it
          raced,      \* history: the flag was set when it was set already
          cutShort    \* history: the program died during the last save
saveVars == <<m_bgsave_running, dump, saver, saves, mixed, raced, cutShort>>

NoSave == [pc |-> "idle", id |-> 0, at |-> 0, bg |-> FALSE]
Writing(t) == saver[t].pc = "write"

SaveInit ==
  /\ m_bgsave_running = FALSE /\ dump = [i \in 1..DumpShards |-> 0]
  /\ saver = [t \in Savers |-> NoSave] /\ saves = 0 /\ mixed = FALSE /\ raced = FALSE /\ cutShort = FALSE

handleSAVE(t) ==
  /\ saver[t].pc = "idle" /\ saves < MaxSaves
  /\ saver' = [saver EXCEPT ![t].pc = "open"]
  /\ UNCHANGED <<m_bgsave_running, dump, saves, mixed, raced, cutShort>>

\* BGSAVE is refused while the flag is set.
handleBGSAVE(t) ==
  /\ saver[t].pc = "idle" /\ saves < MaxSaves /\ ~m_bgsave_running
  /\ saver' = [saver EXCEPT ![t] = [@ EXCEPT !.pc = "set", !.bg = TRUE]]
  /\ UNCHANGED <<m_bgsave_running, dump, saves, mixed, raced, cutShort>>

\* ... and its thread is started.
setBgSaveRunning(t) ==
  /\ saver[t].pc = "set"
  /\ m_bgsave_running' = TRUE
  /\ raced' = (raced \/ m_bgsave_running)
  /\ saver' = [saver EXCEPT ![t].pc = "open"]
  /\ UNCHANGED <<dump, saves, mixed, cutShort>>

\* The stream is opened, which truncates the file.
saveToFile(t) ==
  /\ saver[t].pc = "open" /\ saves < MaxSaves
  /\ saves' = saves + 1
  /\ dump' = [i \in 1..DumpShards |-> 0]
  /\ saver' = [saver EXCEPT ![t] = [@ EXCEPT !.pc = "write", !.id = saves', !.at = 0]]
  /\ mixed' = \E u \in Savers : Writing(u)
  /\ cutShort' = FALSE
  /\ UNCHANGED <<m_bgsave_running, raced>>

WriteShard(t) ==
  /\ Writing(t) /\ saver[t].at < DumpShards
  /\ dump' = [dump EXCEPT ![saver[t].at + 1] = saver[t].id]
  /\ saver' = [saver EXCEPT ![t].at = @ + 1]
  /\ UNCHANGED <<m_bgsave_running, saves, mixed, raced, cutShort>>

SaveEnds(t) ==
  /\ Writing(t) /\ saver[t].at = DumpShards
  /\ saver' = [saver EXCEPT ![t] = NoSave]
  /\ m_bgsave_running' = (m_bgsave_running /\ ~saver[t].bg)
  /\ UNCHANGED <<dump, saves, mixed, raced, cutShort>>

\* The program dies and is started again; what was written stays in the file.
ProgramDies ==
  /\ \E t \in Savers : saver[t].pc # "idle"
  /\ saver' = [t \in Savers |-> NoSave] /\ m_bgsave_running' = FALSE
  /\ cutShort' = (cutShort \/ \E t \in Savers : Writing(t))
  /\ UNCHANGED <<dump, saves, mixed, raced>>

SaveNext ==
  \/ ProgramDies
  \/ \E t \in Savers : \/ handleSAVE(t) \/ handleBGSAVE(t) \/ setBgSaveRunning(t)
                       \/ saveToFile(t) \/ WriteShard(t) \/ SaveEnds(t)

-----------------------------------------------------------------------------
\* Unless two saves wrote the file at a time, it is the beginning of one save, and the whole
\* of it when no save is under way and the program did not die during the last one. Two saves in the background write at
\* a time only if both found the flag clear before either set it, or if one of
\* two such saves cleared it for the other.
SavedFileIsWhole ==
  /\ ~mixed => /\ \A i, j \in 1..DumpShards : i < j => dump[j] \in {dump[i], 0}
               /\ (saves > 0 /\ ~cutShort /\ \A t \in Savers : ~Writing(t)) => \A i \in 1..DumpShards : dump[i] = saves
  /\ Cardinality({t \in Savers : Writing(t) /\ saver[t].bg}) > 1 => raced
=============================================================================
