--------------------------- MODULE Services_proofs ---------------------------
(***************************************************************************)
(* Proofs about the services, for any number of coroutines, connections,   *)
(* sockets and threads.                                                    *)
(***************************************************************************)
EXTENDS Services, FiniteSetTheorems, TLAPS

-----------------------------------------------------------------------------
(* The barrier. *)

AtWork == {d \in Runs : dpc[d] = "work"}

\* The count is that of the doers which have not called Done(), and nobody is woken
\* before it has come to zero.
GroupInv ==
  /\ dpc \in [Runs -> {"idle", "work", "swap", "schedule", "end"}]
  /\ wpc \in [Waiters -> {"begin", "ready", "lock", "waiting", "past", "done"}]
  /\ round \in {0, 1} /\ count = Cardinality(AtWork)
  /\ round = 0 => wpc[Leader] = "begin" /\ \A d \in Runs : dpc[d] = "idle"
  /\ round = 1 => wpc[Leader] # "begin"
  /\ (\E d \in Runs : dpc[d] \in {"swap", "schedule"}) => count = 0
  /\ jobs # {} => count = 0 /\ round = 1
  /\ wpc[Leader] \in {"past", "done"} => count = 0

LEMMA RunsFinite ==
  ASSUME Rounds = 1
  PROVE  IsFiniteSet(Runs) /\ Cardinality(Runs) = Cardinality(Doers) /\ IsFiniteSet(AtWork)
<1>1. IsFiniteSet(1 .. Rounds) /\ Cardinality(1 .. Rounds) = 1
  <2>1. 1 .. Rounds = {1}
    OBVIOUS
  <2> QED
    BY <2>1, FS_Singleton
<1>2. IsFiniteSet(Runs) /\ Cardinality(Runs) = Cardinality(Doers) * 1
  BY <1>1, FS_Product, GroupAssumption DEF Runs
<1>3. Cardinality(Doers) \in Nat
  BY FS_CardinalityType, GroupAssumption
<1>4. IsFiniteSet(AtWork)
  BY <1>2, FS_Subset DEF AtWork
<1> QED
  BY <1>2, <1>3, <1>4

LEMMA GroupAdds ==
  ASSUME Rounds = 1, GroupInv, Add
  PROVE  GroupInv'
<1>1. round = 0 /\ round' = 1 /\ \A d \in Runs : d[2] = 1 /\ dpc[d] = "idle"
  BY DEF Add, GroupInv, Runs
<1>2. dpc' = [d \in Runs |-> "work"]
  BY <1>1 DEF Add
<1>3. AtWork = {} /\ AtWork' = Runs
  BY <1>1, <1>2 DEF AtWork
<1>4. count = 0 /\ count' = Cardinality(Doers)
  BY <1>3, FS_EmptySet, FS_CardinalityType, GroupAssumption DEF Add, GroupInv
<1>5. count' = Cardinality(AtWork')
  BY <1>3, <1>4, RunsFinite
<1>6. wpc' \in [Waiters -> {"begin", "ready", "lock", "waiting", "past", "done"}] /\ wpc'[Leader] = "ready"
  BY GroupAssumption DEF Add, GroupInv
<1>7. jobs = {} /\ jobs' = jobs
  BY <1>1 DEF Add, GroupInv
<1> QED
  BY <1>1, <1>2, <1>5, <1>6, <1>7 DEF GroupInv

LEMMA GroupWaits ==
  ASSUME Rounds = 1, GroupInv, NEW w \in Waiters, Arrive(w) \/ WaiterStep(w)
  PROVE  GroupInv'
<1>1. dpc' = dpc /\ count' = count /\ round' = round /\ AtWork' = AtWork
  BY DEF Arrive, WaiterStep, AwaitReady, AwaitSuspend, Resume, GoOn, AtWork
<1>2. jobs' \subseteq jobs
  BY DEF Arrive, WaiterStep, AwaitReady, AwaitSuspend, Resume, GoOn
<1>3. \E pc \in {"begin", "ready", "lock", "waiting", "past", "done"} :
        /\ wpc' = [wpc EXCEPT ![w] = pc]
        /\ w = Leader => /\ round = 1 /\ pc # "begin"
                         /\ pc \in {"past", "done"} => count = 0
  <2>1. CASE Arrive(w)
    BY <2>1 DEF Arrive
  <2>2. CASE AwaitReady(w)
    BY <2>2 DEF AwaitReady, GroupInv
  <2>3. CASE AwaitSuspend(w)
    BY <2>3 DEF AwaitSuspend, GroupInv
  <2>4. CASE Resume(w)
    BY <2>4 DEF Resume, GroupInv
  <2>5. CASE GoOn(w)
    BY <2>5 DEF GoOn, GroupInv
  <2> QED
    BY <2>1, <2>2, <2>3, <2>4, <2>5 DEF WaiterStep
<1> QED
  BY <1>1, <1>2, <1>3, GroupAssumption DEF GroupInv

LEMMA GroupDoes ==
  ASSUME Rounds = 1, GroupInv, NEW d \in Runs, DoerStep(d)
  PROVE  GroupInv'
<1>1. wpc' = wpc /\ round' = round /\ round = 1
  <2>1. dpc[d] # "idle" /\ wpc' = wpc /\ round' = round
    BY DEF DoerStep, Subtract, Swap, ScheduleWaiters
  <2> QED
    BY <2>1 DEF GroupInv
<1>2. CASE Subtract(d)
  <2>1. d \in AtWork /\ AtWork' = AtWork \ {d} /\ dpc' = [dpc EXCEPT ![d] = IF count = 1 THEN "swap" ELSE "end"]
    BY <1>2 DEF Subtract, AtWork, GroupInv
  <2>2. count \in Nat /\ count' = count - 1 /\ count' = Cardinality(AtWork') /\ count # 0
    BY <1>2, <2>1, RunsFinite, FS_RemoveElement, FS_CardinalityType, FS_EmptySet DEF Subtract, GroupInv
  <2>3. \A e \in Runs : dpc'[e] \in {"swap", "schedule"} => count' = 0
    BY <2>1, <2>2 DEF GroupInv
  <2> QED
    BY <1>1, <1>2, <2>1, <2>2, <2>3 DEF GroupInv, Subtract
<1>3. CASE Swap(d) \/ ScheduleWaiters(d)
  <2>1. count = 0 /\ count' = count
    BY <1>3 DEF Swap, ScheduleWaiters, GroupInv
  <2>2. AtWork' = AtWork
    BY <1>3 DEF Swap, ScheduleWaiters, GroupInv, AtWork
  <2>3. dpc' \in [Runs -> {"idle", "work", "swap", "schedule", "end"}]
    BY <1>3 DEF Swap, ScheduleWaiters, GroupInv
  <2> QED
    BY <1>1, <2>1, <2>2, <2>3 DEF GroupInv
<1> QED
  BY <1>2, <1>3 DEF DoerStep

\* The barrier of a group that is used once: whoever adds n doers and awaits Wait() does not
\* get on before each of them has called Done(), whatever the threads, the other
\* waiters and the place where await_suspend() finds the count at zero
\* (src/src/core/wait_group.h).
THEOREM BarrierHolds ==
  ASSUME Rounds = 1
  PROVE  Spec => []LeaderWaitsForDoers
<1>1. Init => GroupInv
  <2> SUFFICES ASSUME Init PROVE GroupInv
    OBVIOUS
  <2>1. AtWork = {}
    BY DEF Init, GroupInit, AtWork
  <2> QED
    BY <2>1, FS_EmptySet, GroupAssumption DEF Init, GroupInit, GroupInv
<1>2. ASSUME GroupInv, [Next]_vars PROVE GroupInv'
  <2>1. CASE UNCHANGED groupVars
    BY <1>2, <2>1 DEF GroupInv, groupVars, AtWork
  <2>2. CASE GroupNext
    BY <1>2, <2>2, GroupAdds, GroupWaits, GroupDoes DEF GroupNext
  <2> QED
    BY <1>2, <2>1, <2>2 DEF Next, vars, OfGroup, OfPool, OfServer, OfMySql, OfSockets, OfSlowLog, OfRotation, OfSaves
<1>3. GroupInv => LeaderWaitsForDoers
  <2> SUFFICES ASSUME GroupInv, wpc[Leader] \in {"past", "done"} PROVE AtWork = {}
    BY DEF LeaderWaitsForDoers, AtWork
  <2> QED
    BY RunsFinite, FS_EmptySet DEF GroupInv
<1> QED
  BY <1>1, <1>2, <1>3, PTL DEF Spec

-----------------------------------------------------------------------------
(* The snapshot file. *)

Background(t) == saver[t].bg /\ saver[t].pc \in {"open", "write"}

\* The file holds the first n shards of the last save, and so does who writes it.
Cut(n) ==
  /\ \A i \in 1 .. DumpShards : dump[i] = IF i <= n THEN saves ELSE 0
  /\ \A t \in Savers : Writing(t) => saver[t].at = n /\ saver[t].id = saves
  /\ \A t, u \in Savers : Writing(t) /\ Writing(u) => t = u
  /\ saves > 0 /\ ~cutShort /\ (\A t \in Savers : ~Writing(t)) => n = DumpShards

SaverType == [pc : {"idle", "set", "open", "write"}, id : Nat, at : 0 .. DumpShards, bg : BOOLEAN]

SaveTypes ==
  /\ saves \in Nat /\ saver \in [Savers -> SaverType]
  /\ m_bgsave_running \in BOOLEAN /\ mixed \in BOOLEAN /\ raced \in BOOLEAN /\ cutShort \in BOOLEAN
  /\ dump \in [1 .. DumpShards -> Nat]

FileInv == ~mixed => \E n \in 0 .. DumpShards : Cut(n)

\* Without a race the flag is set while there is a save in the background, and there is one.
FlagInv ==
  /\ \A t \in Savers : saver[t].pc = "idle" => ~saver[t].bg
  /\ ~raced => \A t, u \in Savers : Background(t) /\ Background(u) => t = u
  /\ ~raced /\ (\E t \in Savers : Background(t)) => m_bgsave_running

\* Thread t goes on as r.
Becomes(t, r) ==
  /\ r \in SaverType /\ saver' \in [Savers -> SaverType]
  /\ saver'[t] = r /\ \A u \in Savers : u # t => saver'[u] = saver[u]

LEMMA SaverSteps ==
  ASSUME SaveTypes, NEW t \in Savers, NEW r \in SaverType, saver' = [saver EXCEPT ![t] = r]
  PROVE  Becomes(t, r)
BY DEF SaveTypes, Becomes

LEMMA SaveCommands ==
  ASSUME SaveTypes, FlagInv, FileInv, NEW t \in Savers, handleSAVE(t) \/ handleBGSAVE(t)
  PROVE  SaveTypes' /\ FlagInv' /\ FileInv'
<1>a. saver[t] \in SaverType
  BY DEF SaveTypes
<1>1. \E r \in SaverType : /\ Becomes(t, r) /\ (r.pc = "set" \/ (r.pc = "open" /\ ~r.bg))
                           /\ saver[t].pc = "idle"
  <2>1. CASE handleSAVE(t)
    <3> DEFINE r == [saver[t] EXCEPT !.pc = "open"]
    <3>1. r \in SaverType /\ r.pc = "open" /\ ~r.bg /\ saver' = [saver EXCEPT ![t] = r] /\ saver[t].pc = "idle"
      BY <1>a, <2>1 DEF SaverType, handleSAVE, FlagInv
    <3> HIDE DEF r
    <3>2. Becomes(t, r)
      BY <3>1, SaverSteps
    <3> QED
      BY <3>1, <3>2, Zenon
  <2>2. CASE handleBGSAVE(t)
    <3> DEFINE r == [saver[t] EXCEPT !.pc = "set", !.bg = TRUE]
    <3>1. r \in SaverType /\ r.pc = "set" /\ saver' = [saver EXCEPT ![t] = r] /\ saver[t].pc = "idle"
      BY <1>a, <2>2 DEF SaverType, handleBGSAVE
    <3> HIDE DEF r
    <3>2. Becomes(t, r)
      BY <3>1, SaverSteps
    <3> QED
      BY <3>1, <3>2, Zenon
  <2> QED
    BY <2>1, <2>2
<1>2. PICK r \in SaverType : /\ Becomes(t, r) /\ (r.pc = "set" \/ (r.pc = "open" /\ ~r.bg))
                             /\ saver[t].pc = "idle"
  BY <1>1
<1>3. UNCHANGED <<m_bgsave_running, dump, saves, mixed, raced, cutShort>>
  BY DEF handleSAVE, handleBGSAVE
<1>4. SaveTypes'
  BY <1>2, <1>3 DEF SaveTypes, Becomes
<1>5. \A u \in Savers : /\ Background(u)' <=> Background(u)
                        /\ Writing(u)' <=> Writing(u)
                        /\ saver'[u].pc = "idle" => saver[u].pc = "idle" /\ saver'[u].bg = saver[u].bg
                        /\ Writing(u) => saver'[u] = saver[u]
  <2> TAKE u \in Savers
  <2>1. CASE u # t
    BY <1>2, <2>1 DEF Becomes, Background, Writing
  <2>2. CASE u = t
    BY <1>2, <2>2 DEF Becomes, Background, Writing
  <2> QED
    BY <2>1, <2>2
<1>6. FlagInv'
  BY <1>3, <1>5 DEF FlagInv
<1>7. FileInv'
  BY <1>3, <1>5 DEF FileInv, Cut
<1> QED
  BY <1>4, <1>6, <1>7

LEMMA SaveStarts ==
  ASSUME SaveTypes, FlagInv, FileInv, NEW t \in Savers, setBgSaveRunning(t)
  PROVE  SaveTypes' /\ FlagInv' /\ FileInv'
<1>a. saver[t] \in SaverType
  BY DEF SaveTypes
<1> DEFINE r == [saver[t] EXCEPT !.pc = "open"]
<1>1. r \in SaverType /\ r.pc = "open" /\ saver' = [saver EXCEPT ![t] = r] /\ saver[t].pc = "set"
  BY <1>a DEF SaverType, setBgSaveRunning
<1> HIDE DEF r
<1>2. Becomes(t, r)
  BY <1>1, SaverSteps
<1>3. m_bgsave_running' = TRUE /\ raced' = (raced \/ m_bgsave_running) /\ UNCHANGED <<dump, saves, mixed, cutShort>>
  BY DEF setBgSaveRunning
<1>4. SaveTypes'
  BY <1>2, <1>3 DEF SaveTypes, Becomes
<1>5. \A u \in Savers : /\ Background(u)' => u = t \/ Background(u)
                        /\ Writing(u)' <=> Writing(u)
                        /\ saver'[u].pc = "idle" => saver[u].pc = "idle" /\ saver'[u].bg = saver[u].bg
                        /\ Writing(u) => saver'[u] = saver[u]
  <2> TAKE u \in Savers
  <2>1. CASE u # t
    BY <1>2, <2>1 DEF Becomes, Background, Writing
  <2>2. CASE u = t
    BY <1>1, <1>2, <2>2 DEF Becomes, Background, Writing
  <2> QED
    BY <2>1, <2>2
<1>6. ~raced' => \A u \in Savers : Background(u)' => u = t
  BY <1>3, <1>5 DEF FlagInv
<1>7. FlagInv'
  BY <1>3, <1>5, <1>6 DEF FlagInv
<1>8. FileInv'
  BY <1>3, <1>5 DEF FileInv, Cut
<1> QED
  BY <1>4, <1>7, <1>8

LEMMA SaveOpens ==
  ASSUME SaveTypes, FlagInv, FileInv, NEW t \in Savers, saveToFile(t)
  PROVE  SaveTypes' /\ FlagInv' /\ FileInv'
<1>a. saver[t] \in SaverType
  BY DEF SaveTypes
<1> DEFINE r == [saver[t] EXCEPT !.pc = "write", !.id = saves + 1, !.at = 0]
<1>1. /\ r \in SaverType /\ r.pc = "write" /\ r.bg = saver[t].bg /\ r.id = saves + 1 /\ r.at = 0
      /\ saver' = [saver EXCEPT ![t] = r] /\ saver[t].pc = "open"
  <2>1. saves \in Nat /\ saves' = saves + 1
    BY DEF saveToFile, SaveTypes
  <2>2. r \in SaverType /\ r.pc = "write" /\ r.bg = saver[t].bg /\ r.id = saves + 1 /\ r.at = 0
    <3>1. 0 \in 0 .. DumpShards /\ saves + 1 \in Nat
      BY <2>1, SaveAssumption
    <3> QED
      BY <1>a, <3>1 DEF SaverType
  <2>3. saver' = [saver EXCEPT ![t] = r] /\ saver[t].pc = "open"
    BY <2>1 DEF saveToFile
  <2> QED
    BY <2>2, <2>3
<1> HIDE DEF r
<1>2. Becomes(t, r)
  BY <1>1, SaverSteps
<1>3. /\ saves' = saves + 1 /\ dump' = [i \in 1 .. DumpShards |-> 0]
      /\ cutShort' = FALSE /\ UNCHANGED <<m_bgsave_running, raced>>
  BY DEF saveToFile
<1>b. mixed' = \E u \in Savers : Writing(u)
  BY DEF saveToFile
<1>4. SaveTypes'
  <2>1. mixed' \in BOOLEAN
    BY <1>b, Zenon
  <2>2. saves' \in Nat /\ dump' \in [1 .. DumpShards -> Nat] /\ cutShort' \in BOOLEAN /\ UNCHANGED <<m_bgsave_running, raced>>
    <3>1. saves' \in Nat
      BY <1>3 DEF SaveTypes
    <3>2. dump' \in [1 .. DumpShards -> Nat]
      BY <1>3
    <3> QED
      BY <1>3, <3>1, <3>2
  <2> QED
    BY <1>2, <2>1, <2>2 DEF SaveTypes, Becomes
<1>5. \A u \in Savers : /\ Background(u)' <=> Background(u)
                        /\ Writing(u)' => u = t \/ Writing(u)
                        /\ saver'[u].pc = "idle" => saver[u].pc = "idle" /\ saver'[u].bg = saver[u].bg
  <2> TAKE u \in Savers
  <2>1. CASE u # t
    BY <1>2, <2>1 DEF Becomes, Background, Writing
  <2>2. CASE u = t
    BY <1>1, <1>2, <2>2 DEF Becomes, Background, Writing
  <2> QED
    BY <2>1, <2>2
<1>6. FlagInv'
  BY <1>3, <1>5 DEF FlagInv
<1>7. ~mixed' => Cut(0)'
  <2> HAVE ~mixed'
  <2>1. \A u \in Savers : Writing(u)' => u = t
    BY <1>b, <1>5
  <2>2. Writing(t)' /\ saver'[t].at = 0 /\ saver'[t].id = saves'
    BY <1>1, <1>2, <1>3 DEF Writing, Becomes
  <2>3. \A i \in 1 .. DumpShards : dump'[i] = IF i <= 0 THEN saves' ELSE 0
    BY <1>3, SaveAssumption
  <2> QED
    BY <2>1, <2>2, <2>3 DEF Cut
<1>8. FileInv'
  BY <1>7, SaveAssumption DEF FileInv
<1> QED
  BY <1>4, <1>6, <1>8

LEMMA SaveWrites ==
  ASSUME SaveTypes, FlagInv, FileInv, NEW t \in Savers, WriteShard(t)
  PROVE  SaveTypes' /\ FlagInv' /\ FileInv'
<1>a. saver[t] \in SaverType
  BY DEF SaveTypes
<1> DEFINE r == [saver[t] EXCEPT !.at = saver[t].at + 1]
<1>1. /\ r \in SaverType /\ r.pc = "write" /\ r.bg = saver[t].bg /\ r.id = saver[t].id /\ r.at = saver[t].at + 1
      /\ saver' = [saver EXCEPT ![t] = r] /\ saver[t].pc = "write" /\ saver[t].at < DumpShards
  BY <1>a, SaveAssumption DEF SaverType, WriteShard, Writing
<1> HIDE DEF r
<1>2. Becomes(t, r)
  BY <1>1, SaverSteps
<1>3. /\ dump' = [dump EXCEPT ![saver[t].at + 1] = saver[t].id]
      /\ UNCHANGED <<m_bgsave_running, saves, mixed, raced, cutShort>>
  BY DEF WriteShard
<1>b. saver[t].at \in 0 .. DumpShards /\ saver[t].id \in Nat
  BY <1>a DEF SaverType
<1>4. SaveTypes'
  BY <1>b, <1>2, <1>3 DEF SaveTypes, Becomes
<1>5. \A u \in Savers : /\ Background(u)' <=> Background(u)
                        /\ Writing(u)' <=> Writing(u)
                        /\ saver'[u].pc = "idle" => saver[u].pc = "idle" /\ saver'[u].bg = saver[u].bg
  <2> TAKE u \in Savers
  <2>1. CASE u # t
    BY <1>2, <2>1 DEF Becomes, Background, Writing
  <2>2. CASE u = t
    BY <1>1, <1>2, <2>2 DEF Becomes, Background, Writing
  <2> QED
    BY <2>1, <2>2
<1>6. FlagInv'
  BY <1>3, <1>5 DEF FlagInv
<1>7. FileInv'
  <2> SUFFICES ASSUME ~mixed PROVE \E n \in 0 .. DumpShards : Cut(n)'
    BY <1>3 DEF FileInv
  <2>1. PICK n \in 0 .. DumpShards : Cut(n)
    BY DEF FileInv
  <2>2. Writing(t) /\ n = saver[t].at /\ saver[t].id = saves /\ n + 1 \in 0 .. DumpShards
    BY <1>1, <1>b, <2>1, SaveAssumption DEF Cut, Writing
  <2>3. \A i \in 1 .. DumpShards : dump'[i] = IF i <= n + 1 THEN saves' ELSE 0
    BY <1>3, <2>1, <2>2 DEF Cut, SaveTypes
  <2>4. \A u \in Savers : Writing(u)' => u = t
    BY <1>5, <2>1, <2>2 DEF Cut
  <2>5. saver'[t].at = n + 1 /\ saver'[t].id = saves' /\ Writing(t)'
    BY <1>1, <1>2, <1>3, <2>2 DEF Becomes, Writing
  <2> QED
    BY <2>2, <2>3, <2>4, <2>5 DEF Cut
<1> QED
  BY <1>4, <1>6, <1>7

LEMMA SaveDone ==
  ASSUME SaveTypes, FlagInv, FileInv, NEW t \in Savers, SaveEnds(t)
  PROVE  SaveTypes' /\ FlagInv' /\ FileInv'
<1>1. NoSave \in SaverType /\ NoSave.pc = "idle" /\ ~NoSave.bg
  BY SaveAssumption DEF NoSave, SaverType
<1>2. Becomes(t, NoSave) /\ Writing(t) /\ saver[t].at = DumpShards
  BY <1>1, SaverSteps DEF SaveEnds
<1>3. m_bgsave_running' = (m_bgsave_running /\ ~saver[t].bg) /\ UNCHANGED <<dump, saves, mixed, raced, cutShort>>
  BY DEF SaveEnds
<1>4. SaveTypes'
  BY <1>2, <1>3 DEF SaveTypes, Becomes
<1>5. \A u \in Savers : /\ Background(u)' <=> u # t /\ Background(u)
                        /\ Writing(u)' <=> u # t /\ Writing(u)
                        /\ u # t => saver'[u] = saver[u]
  <2> TAKE u \in Savers
  <2>1. CASE u # t
    BY <1>2, <2>1 DEF Becomes, Background, Writing
  <2>2. CASE u = t
    BY <1>1, <1>2, <2>2 DEF Becomes, Background, Writing
  <2> QED
    BY <2>1, <2>2
<1>6. FlagInv'
  <2>1. \A u \in Savers : saver'[u].pc = "idle" => ~saver'[u].bg
    BY <1>1, <1>2, <1>5 DEF FlagInv, Becomes
  <2>2. saver[t].bg => Background(t)
    BY <1>2 DEF Background, Writing
  <2>3. ~raced' /\ (\E u \in Savers : Background(u)') => m_bgsave_running'
    BY <1>3, <1>5, <2>2 DEF FlagInv
  <2>4. ~raced' => \A v, u \in Savers : Background(v)' /\ Background(u)' => v = u
    BY <1>3, <1>5 DEF FlagInv
  <2> QED
    BY <2>1, <2>3, <2>4 DEF FlagInv
<1>7. FileInv'
  <2> SUFFICES ASSUME ~mixed PROVE \E n \in 0 .. DumpShards : Cut(n)'
    BY <1>3 DEF FileInv
  <2>1. PICK n \in 0 .. DumpShards : Cut(n)
    BY DEF FileInv
  <2>2. n = DumpShards /\ \A u \in Savers : ~Writing(u)'
    BY <1>2, <1>5, <2>1 DEF Cut
  <2> QED
    BY <1>3, <2>1, <2>2 DEF Cut
<1> QED
  BY <1>4, <1>6, <1>7

LEMMA SaveDies ==
  ASSUME SaveTypes, FlagInv, FileInv, ProgramDies
  PROVE  SaveTypes' /\ FlagInv' /\ FileInv'
<1>1. NoSave \in SaverType /\ NoSave.pc = "idle" /\ ~NoSave.bg
  BY SaveAssumption DEF NoSave, SaverType
<1>2. saver' = [u \in Savers |-> NoSave] /\ m_bgsave_running' = FALSE
  BY DEF ProgramDies
<1>3. cutShort' = (cutShort \/ \E u \in Savers : Writing(u)) /\ UNCHANGED <<dump, saves, mixed, raced>>
  BY DEF ProgramDies
<1>4. SaveTypes'
  BY <1>1, <1>2, <1>3 DEF SaveTypes
<1>5. \A u \in Savers : ~Background(u)' /\ ~Writing(u)' /\ ~saver'[u].bg
  BY <1>1, <1>2 DEF Background, Writing
<1>6. FlagInv'
  BY <1>5 DEF FlagInv
<1>7. FileInv'
  BY <1>3, <1>5 DEF FileInv, Cut
<1> QED
  BY <1>4, <1>6, <1>7

\* The snapshot file, for any number of threads, shards and saves: unless it was truncated while another
\* save was writing it, it is the beginning of the last save, and all of it once that has
\* ended and the program did not die on the way; and two saves in the background write at a
\* time only after the test and the setting of m_bgsave_running have interleaved
\* (handleSAVE, handleBGSAVE and ServerData::saveToFile).
THEOREM SavesAreWhole == Spec => []SavedFileIsWhole
<1> DEFINE Inv == SaveTypes /\ FlagInv /\ FileInv
<1>1. Init => Inv
  <2> SUFFICES ASSUME Init PROVE Inv
    OBVIOUS
  <2>1. NoSave \in SaverType /\ NoSave.pc = "idle" /\ ~NoSave.bg
    BY SaveAssumption DEF NoSave, SaverType
  <2>2. SaveTypes
    BY <2>1 DEF Init, SaveInit, SaveTypes
  <2>3. \A u \in Savers : ~Background(u) /\ ~Writing(u) /\ ~saver[u].bg
    BY <2>1 DEF Init, SaveInit, Background, Writing
  <2>4. FlagInv
    BY <2>3 DEF FlagInv
  <2>5. Cut(0)
    BY <2>3, SaveAssumption DEF Cut, Init, SaveInit
  <2> QED
    BY <2>2, <2>4, <2>5, SaveAssumption DEF FileInv
<1>2. ASSUME Inv, [Next]_vars PROVE Inv'
  <2>1. CASE UNCHANGED saveVars
    BY <1>2, <2>1 DEF saveVars, SaveTypes, FlagInv, FileInv, Cut, Background, Writing
  <2>2. CASE SaveNext
    BY <1>2, <2>2, SaveCommands, SaveStarts, SaveOpens, SaveWrites, SaveDone, SaveDies DEF SaveNext
  <2> QED
    BY <1>2, <2>1, <2>2 DEF Next, vars, OfGroup, OfPool, OfServer, OfMySql, OfSockets, OfSlowLog, OfRotation, OfSaves
<1>3. Inv => SavedFileIsWhole
  <2> SUFFICES ASSUME Inv PROVE SavedFileIsWhole
    OBVIOUS
  <2>1. ~mixed => /\ \A i, j \in 1..DumpShards : i < j => dump[j] \in {dump[i], 0}
                  /\ (saves > 0 /\ ~cutShort /\ \A t \in Savers : ~Writing(t)) => \A i \in 1..DumpShards : dump[i] = saves
    BY SaveAssumption DEF FileInv, Cut
  <2>2. ~raced => Cardinality({t \in Savers : Writing(t) /\ saver[t].bg}) \in {0, 1}
    <3> DEFINE S == {t \in Savers : Writing(t) /\ saver[t].bg}
    <3> SUFFICES ASSUME ~raced PROVE Cardinality(S) \in {0, 1}
      OBVIOUS
    <3>1. \A t, u \in S : t = u
      BY DEF FlagInv, Background, Writing
    <3>2. CASE S = {}
      BY <3>2, FS_EmptySet
    <3>3. CASE \E t \in S : S = {t}
      BY <3>3, FS_Singleton
    <3> QED
      BY <3>1, <3>2, <3>3
  <2> QED
    BY <2>1, <2>2 DEF SavedFileIsWhole
<1> QED
  BY <1>1, <1>2, <1>3, PTL DEF Spec

-----------------------------------------------------------------------------
(* The connections of the HTTP server. *)

\* The remainder, close to zero and to the modulus.
LEMMA Wraps ==
  ASSUME NEW M \in Nat \ {0}, NEW x \in Int, -M <= x, x <= M
  PROVE  x % M = IF x < 0 THEN x + M ELSE IF x = M THEN 0 ELSE x
<1>1. CASE x < 0
  BY <1>1
<1>2. CASE x = M
  BY <1>2
<1>3. CASE 0 <= x /\ x < M
  BY <1>3
<1> QED
  BY <1>1, <1>2, <1>3

PeerPcs == {"away", "knocking", "scheduled", "peek", "recv", "close", "gone"}
LoopPcs == {"none", "begin", "check", "accept", "count", "sleep", "broken", "ended"}

Arrived == {p \in Peers : peer[p] \notin {"away", "knocking"}}

\* The counter for s clients of which u are not counted yet.
Counted(s, u) == IF s < u THEN s - u + Modulus ELSE s - u

\* m_connections, and why it cannot be below zero by more than there are peers: a
\* loop that has a client to count has accepted one.
ServerInv ==
  /\ peer \in [Peers -> PeerPcs] /\ loop \in [Listeners -> LoopPcs]
  /\ m_connections = Counted(Cardinality(Served), Cardinality(Uncounted))
  /\ Cardinality(Uncounted) <= Cardinality(Arrived)

LEMMA ServerSizes ==
  /\ IsFiniteSet(Served) /\ IsFiniteSet(Uncounted) /\ IsFiniteSet(Arrived)
  /\ Cardinality(Served) \in Nat /\ Cardinality(Uncounted) \in Nat /\ Cardinality(Arrived) \in Nat
  /\ Cardinality(Served) < Modulus - 1 /\ Cardinality(Arrived) < Modulus - 1
<1>1. Served \subseteq Peers /\ Uncounted \subseteq Listeners /\ Arrived \subseteq Peers
  BY DEF Served, Uncounted, Arrived
<1>2. IsFiniteSet(Served) /\ IsFiniteSet(Uncounted) /\ IsFiniteSet(Arrived)
  BY <1>1, FS_Subset, ServerBounds
<1>3. Cardinality(Served) <= Cardinality(Peers) /\ Cardinality(Arrived) <= Cardinality(Peers)
  BY <1>1, FS_Subset, ServerBounds
<1>4. /\ Cardinality(Served) \in Nat /\ Cardinality(Uncounted) \in Nat /\ Cardinality(Arrived) \in Nat
      /\ Cardinality(Peers) \in Nat
  BY <1>2, FS_CardinalityType, ServerBounds
<1> QED
  BY <1>2, <1>3, <1>4, ServerBounds

\* A handler or a loop goes on, from one set to another.
LEMMA PeerMoves ==
  ASSUME ServerInv, NEW p \in Peers, NEW pc \in PeerPcs, PeerAt(p, pc)
  PROVE  /\ peer' \in [Peers -> PeerPcs]
         /\ Served' = IF pc \in {"scheduled", "peek", "recv", "close"} THEN Served \cup {p} ELSE Served \ {p}
         /\ Arrived' = IF pc \in {"away", "knocking"} THEN Arrived \ {p} ELSE Arrived \cup {p}
<1>1. peer' \in [Peers -> PeerPcs] /\ peer'[p] = pc /\ \A q \in Peers : q # p => peer'[q] = peer[q]
  BY DEF PeerAt, ServerInv
<1>2. Served' = IF pc \in {"scheduled", "peek", "recv", "close"} THEN Served \cup {p} ELSE Served \ {p}
  BY <1>1 DEF Served
<1>3. Arrived' = IF pc \in {"away", "knocking"} THEN Arrived \ {p} ELSE Arrived \cup {p}
  BY <1>1 DEF Arrived
<1> QED
  BY <1>1, <1>2, <1>3

LEMMA LoopMoves ==
  ASSUME ServerInv, NEW l \in Listeners, NEW pc \in LoopPcs, At(l, pc)
  PROVE  /\ loop' \in [Listeners -> LoopPcs]
         /\ Uncounted' = IF pc = "count" THEN Uncounted \cup {l} ELSE Uncounted \ {l}
<1>1. loop' \in [Listeners -> LoopPcs] /\ loop'[l] = pc /\ \A k \in Listeners : k # l => loop'[k] = loop[k]
  BY DEF At, ServerInv
<1> QED
  BY <1>1 DEF Uncounted

\* What neither accepts, counts nor ends a client.
LEMMA ServerQuiet ==
  ASSUME ServerInv, peer' \in [Peers -> PeerPcs], loop' \in [Listeners -> LoopPcs],
         Served' = Served, Uncounted' = Uncounted, Arrived' = Arrived, m_connections' = m_connections
  PROVE  ServerInv'
BY DEF ServerInv

LEMMA ServerLoops ==
  ASSUME ServerInv, NEW l \in Listeners,
         \/ AcceptBegins(l) \/ AcceptEnds(l) \/ RefuseClients(l) \/ AwaitAccept(l)
         \/ AcceptTimesOut(l) \/ AcceptFails(l) \/ Wake(l)
  PROVE  ServerInv'
<1>1. /\ peer' = peer /\ m_connections' = m_connections /\ loop[l] # "count"
      /\ \E pc \in LoopPcs \ {"count"} : At(l, pc)
  BY DEF AcceptBegins, AcceptEnds, RefuseClients, AwaitAccept, AcceptTimesOut, AcceptFails, Wake, LoopPcs
<1>2. PICK pc \in LoopPcs \ {"count"} : At(l, pc)
  BY <1>1
<1>3. loop' \in [Listeners -> LoopPcs] /\ Uncounted' = Uncounted \ {l}
  BY <1>2, LoopMoves
<1>4. l \notin Uncounted
  BY <1>1 DEF Uncounted
<1>5. Served' = Served /\ Arrived' = Arrived /\ peer' \in [Peers -> PeerPcs]
  BY <1>1 DEF Served, Arrived, ServerInv
<1> QED
  BY <1>1, <1>3, <1>4, <1>5, ServerQuiet

LEMMA ServerHandles ==
  ASSUME ServerInv, NEW p \in Peers,
         HandlerBegins(p) \/ SessionMade(p) \/ HandshakeFails(p) \/ ServeRequest(p) \/ RecvEnds(p) \/ AdminShutdown(p)
  PROVE  ServerInv'
<1>1. /\ loop' = loop /\ m_connections' = m_connections /\ peer[p] \in {"scheduled", "peek", "recv"}
      /\ (peer' = peer \/ \E pc \in {"peek", "recv", "close"} : PeerAt(p, pc))
  BY DEF HandlerBegins, SessionMade, HandshakeFails, ServeRequest, RecvEnds, AdminShutdown
<1>2. p \in Served /\ p \in Arrived
  BY <1>1 DEF Served, Arrived
<1>3. Uncounted' = Uncounted /\ loop' \in [Listeners -> LoopPcs]
  BY <1>1 DEF Uncounted, ServerInv
<1>4. CASE peer' = peer
  <2>1. Served' = Served /\ Arrived' = Arrived /\ peer' \in [Peers -> PeerPcs]
    BY <1>4 DEF Served, Arrived, ServerInv
  <2> QED
    BY <1>1, <1>3, <2>1, ServerQuiet
<1>5. ASSUME NEW pc \in {"peek", "recv", "close"}, PeerAt(p, pc) PROVE ServerInv'
  <2>1. pc \in PeerPcs
    BY DEF PeerPcs
  <2>2. Served' = Served \cup {p} /\ Arrived' = Arrived \cup {p} /\ peer' \in [Peers -> PeerPcs]
    BY <1>5, <2>1, PeerMoves
  <2> QED
    BY <1>1, <1>2, <1>3, <2>2, ServerQuiet
<1> QED
  BY <1>1, <1>4, <1>5

LEMMA ServerAccepts ==
  ASSUME ServerInv, NEW l \in Listeners, NEW p \in Peers, Accept(l, p)
  PROVE  ServerInv'
<1>1. loop' \in [Listeners -> LoopPcs] /\ Uncounted' = Uncounted \cup {l} /\ l \notin Uncounted
  BY LoopMoves DEF Accept, LoopPcs, Uncounted
<1>2. /\ peer' \in [Peers -> PeerPcs] /\ Served' = Served \cup {p} /\ Arrived' = Arrived \cup {p}
      /\ p \notin Served /\ p \notin Arrived
  BY PeerMoves DEF Accept, PeerPcs, Served, Arrived
<1>3. /\ Cardinality(Uncounted') = Cardinality(Uncounted) + 1
      /\ Cardinality(Served') = Cardinality(Served) + 1
      /\ Cardinality(Arrived') = Cardinality(Arrived) + 1
  BY <1>1, <1>2, FS_AddElement, ServerSizes
<1>4. m_connections' = m_connections
  BY DEF Accept
<1> QED
  BY <1>1, <1>2, <1>3, <1>4, ServerSizes, ServerBounds DEF ServerInv, Counted

LEMMA ServerCounts ==
  ASSUME ServerInv, NEW l \in Listeners, addConnection(l)
  PROVE  ServerInv'
<1>1. loop' \in [Listeners -> LoopPcs] /\ Uncounted' = Uncounted \ {l} /\ l \in Uncounted
  BY LoopMoves DEF addConnection, LoopPcs, Uncounted
<1>2. peer' \in [Peers -> PeerPcs] /\ Served' = Served /\ Arrived' = Arrived
  BY DEF addConnection, Served, Arrived, ServerInv
<1> DEFINE s == Cardinality(Served)
           u == Cardinality(Uncounted)
           v == Cardinality(Uncounted')
<1>3. v = u - 1 /\ u \in Nat /\ s \in Nat /\ v \in Nat /\ s < Modulus - 1
  BY <1>1, FS_RemoveElement, FS_CardinalityType, ServerSizes
<1>4. u < Modulus - 1 /\ v <= Cardinality(Arrived) /\ m_connections = Counted(s, u)
  BY <1>3, ServerSizes, ServerBounds DEF ServerInv
<1>5. m_connections' = (m_connections + 1) % Modulus
  BY DEF addConnection
<1> HIDE DEF s, u, v
<1>6. m_connections + 1 \in Int /\ -Modulus <= m_connections + 1 /\ m_connections + 1 <= Modulus
  BY <1>3, <1>4, ServerBounds DEF Counted
<1>7. m_connections' = Counted(s, v)
  <2> DEFINE x == m_connections + 1
  <2>1. x % Modulus = IF x < 0 THEN x + Modulus ELSE IF x = Modulus THEN 0 ELSE x
    BY <1>6, Wraps, ServerBounds
  <2> QED
    BY <1>3, <1>4, <1>5, <2>1, ServerBounds DEF Counted
<1> QED
  BY <1>1, <1>2, <1>4, <1>7 DEF ServerInv, s, v

LEMMA ServerEnds ==
  ASSUME ServerInv, NEW p \in Peers, subConnection(p)
  PROVE  ServerInv'
<1>1. /\ peer' \in [Peers -> PeerPcs] /\ Served' = Served \ {p} /\ Arrived' = Arrived \cup {p}
      /\ p \in Served /\ p \in Arrived
  BY PeerMoves DEF subConnection, PeerPcs, Served, Arrived
<1>2. loop' \in [Listeners -> LoopPcs] /\ Uncounted' = Uncounted
  BY DEF subConnection, Uncounted, ServerInv
<1>a. Arrived' = Arrived
  BY <1>1
<1> DEFINE s == Cardinality(Served)
           u == Cardinality(Uncounted)
           v == Cardinality(Served')
<1>3. v = s - 1 /\ u \in Nat /\ s \in Nat /\ v \in Nat /\ s < Modulus - 1
  BY <1>1, FS_RemoveElement, FS_CardinalityType, ServerSizes
<1>4. u < Modulus - 1 /\ u <= Cardinality(Arrived) /\ m_connections = Counted(s, u)
  BY <1>3, ServerSizes, ServerBounds DEF ServerInv
<1>5. m_connections' = (m_connections - 1) % Modulus
  BY DEF subConnection
<1> HIDE DEF s, u, v
<1>6. m_connections - 1 \in Int /\ -Modulus <= m_connections - 1 /\ m_connections - 1 <= Modulus
  BY <1>3, <1>4, ServerBounds DEF Counted
<1>7. m_connections' = Counted(v, u)
  <2> DEFINE x == m_connections - 1
  <2>1. x % Modulus = IF x < 0 THEN x + Modulus ELSE IF x = Modulus THEN 0 ELSE x
    BY <1>6, Wraps, ServerBounds
  <2> QED
    BY <1>3, <1>4, <1>5, <2>1, ServerBounds DEF Counted
<1> QED
  BY <1>1, <1>2, <1>a, <1>4, <1>7 DEF ServerInv, u, v

LEMMA ServerOthers ==
  ASSUME ServerInv, bind \/ start \/ StopAccepting \/ closeAllFds \/ CloseClients \/ (\E p \in Peers : Knock(p))
  PROVE  ServerInv'
<1>1. m_connections' = m_connections
  BY DEF bind, start, StopAccepting, closeAllFds, CloseClients, Knock
<1>2. Uncounted' = Uncounted /\ loop' \in [Listeners -> LoopPcs]
  <2>1. CASE start
    <3>1. \A l \in Listeners : loop'[l] \in {"begin", "none"} /\ loop[l] = "none"
      BY <2>1 DEF start
    <3>2. loop' \in [Listeners -> LoopPcs]
      BY <2>1 DEF start, LoopPcs
    <3> QED
      BY <3>1, <3>2 DEF Uncounted
  <2>2. CASE ~start
    <3>1. loop' = loop
      BY <2>2 DEF bind, StopAccepting, closeAllFds, CloseClients, Knock
    <3> QED
      BY <3>1 DEF Uncounted, ServerInv
  <2> QED
    BY <2>1, <2>2
<1>3. Served' = Served /\ Arrived' = Arrived /\ peer' \in [Peers -> PeerPcs]
  <2>1. ASSUME NEW p \in Peers, Knock(p) PROVE Served' = Served /\ Arrived' = Arrived /\ peer' \in [Peers -> PeerPcs]
    <3>1. peer[p] = "away" /\ PeerAt(p, "knocking") /\ "knocking" \in PeerPcs
      BY <2>1 DEF Knock, PeerPcs
    <3>2. peer' \in [Peers -> PeerPcs] /\ Served' = Served \ {p} /\ Arrived' = Arrived \ {p}
      BY <3>1, PeerMoves
    <3>3. p \notin Served /\ p \notin Arrived
      BY <3>1 DEF Served, Arrived
    <3> QED
      BY <3>2, <3>3
  <2>2. CASE ~\E p \in Peers : Knock(p)
    <3>1. peer' = peer
      BY <2>2 DEF bind, start, StopAccepting, closeAllFds, CloseClients
    <3> QED
      BY <3>1 DEF Served, Arrived, ServerInv
  <2> QED
    BY <2>1, <2>2
<1> QED
  BY <1>1, <1>2, <1>3, ServerQuiet

\* The connections of a server, for any number of accept loops and of peers below the counter's
\* limit: m_connections is the number of handlers less the clients that an accept loop has
\* scheduled and not counted yet, modulo 2^32, and it is at the limit only while a handler ended
\* before its client was counted (TcpServer::startAccept, HttpServer::handleClient).
THEOREM CounterIsExact == Spec => []ConnectionsCounted
<1>1. Init => ServerInv
  <2> SUFFICES ASSUME Init PROVE ServerInv
    OBVIOUS
  <2>1. Served = {} /\ Uncounted = {} /\ Arrived = {}
    BY DEF Init, ServerInit, Served, Uncounted, Arrived
  <2>2. peer \in [Peers -> PeerPcs] /\ loop \in [Listeners -> LoopPcs] /\ m_connections = 0
    BY DEF Init, ServerInit, PeerPcs, LoopPcs
  <2> QED
    BY <2>1, <2>2, FS_EmptySet DEF ServerInv, Counted
<1>2. ASSUME ServerInv, [Next]_vars PROVE ServerInv'
  <2>1. CASE UNCHANGED serverVars
    BY <1>2, <2>1 DEF serverVars, ServerInv, Served, Uncounted, Arrived
  <2>2. CASE ServerNext
    <3>1. ASSUME NEW l \in Listeners, LoopStep(l) PROVE ServerInv'
      BY <1>2, <3>1, ServerLoops, ServerCounts, ServerAccepts DEF LoopStep
    <3>2. ASSUME NEW p \in Peers, HandlerStep(p) \/ AdminShutdown(p) PROVE ServerInv'
      BY <1>2, <3>2, ServerHandles, ServerEnds DEF HandlerStep
    <3> QED
      BY <1>2, <2>2, <3>1, <3>2, ServerOthers DEF ServerNext
  <2> QED
    BY <1>2, <2>1, <2>2 DEF Next, vars, OfGroup, OfPool, OfServer, OfMySql, OfSockets, OfSlowLog, OfRotation, OfSaves
<1>3. ServerInv => ConnectionsCounted
  <2> SUFFICES ASSUME ServerInv PROVE ConnectionsCounted
    OBVIOUS
  <2> DEFINE s == Cardinality(Served)
             u == Cardinality(Uncounted)
             x == s - u
  <2>1. s \in Nat /\ u \in Nat /\ s < Modulus - 1 /\ u < Modulus - 1 /\ m_connections = Counted(s, u)
    BY ServerSizes, ServerBounds DEF ServerInv
  <2> HIDE DEF s, u
  <2>2. x \in Int /\ -Modulus <= x /\ x < Modulus
    BY <2>1, ServerBounds
  <2>3. x % Modulus = IF x < 0 THEN x + Modulus ELSE IF x = Modulus THEN 0 ELSE x
    BY <2>2, Wraps, ServerBounds
  <2>4. m_connections = (s - u) % Modulus /\ (m_connections >= Modulus - 1 => s < u)
    BY <2>1, <2>2, <2>3, ServerBounds DEF Counted
  <2> QED
    BY <2>4 DEF ConnectionsCounted, s, u
<1> QED
  BY <1>1, <1>2, <1>3, PTL DEF Spec

-----------------------------------------------------------------------------
(* The MySQL connections. *)

Idle  == {m_pool[i] : i \in DOMAIN m_pool}
Taken == UNION {user[t].conn : t \in Threads}
Users == {t \in Threads : user[t].conn # {}}

UserType == [pc : {"away", "ping", "query"}, conn : SUBSET Connections]

UserInv ==
  /\ user \in [Threads -> UserType]
  /\ \A t \in Threads : IF user[t].pc = "away" THEN user[t].conn = {} ELSE \E k \in Connections : user[t].conn = {k}
  /\ \A t, u \in Threads : t # u => user[t].conn \cap user[u].conn = {}
  /\ IsFiniteSet(Users) /\ Cardinality(Taken) = Cardinality(Users)

QueueOfIdle ==
  /\ m_pool \in Seq(Connections) /\ m_idle = Len(m_pool) /\ Cardinality(Idle) = Len(m_pool)
  /\ \A i, j \in DOMAIN m_pool : m_pool[i] = m_pool[j] => i = j

\* The connections are in three places, and in one of them each.
Places(idle, taken, lost) ==
  /\ idle \cup taken \cup lost = Connections
  /\ idle \cap taken = {} /\ idle \cap lost = {} /\ taken \cap lost = {}

MySqlInv == UserInv /\ QueueOfIdle /\ Places(Idle, Taken, dropped)

LEMMA PlacesFinite ==
  ASSUME NEW I, NEW T, NEW D, Places(I, T, D)
  PROVE  /\ IsFiniteSet(I) /\ IsFiniteSet(T) /\ IsFiniteSet(D)
         /\ Cardinality(I) + Cardinality(T) + Cardinality(D) = pool_size
<1>1. IsFiniteSet(Connections) /\ Cardinality(Connections) = pool_size
  <2>1. 1 \in Int /\ pool_size \in Int
    BY MySqlAssumption
  <2>2. IsFiniteSet(1 .. pool_size) /\ Cardinality(1 .. pool_size) = IF 1 > pool_size THEN 0 ELSE pool_size - 1 + 1
    BY <2>1, FS_Interval
  <2> QED
    BY <2>2, MySqlAssumption DEF Connections
<1>2. IsFiniteSet(I) /\ IsFiniteSet(T) /\ IsFiniteSet(D)
  BY <1>1, FS_Subset DEF Places
<1>3. Cardinality({}) = 0
  BY FS_EmptySet
<1>4. IsFiniteSet(I \cup T) /\ Cardinality(I \cup T) = Cardinality(I) + Cardinality(T) - Cardinality(I \cap T)
  BY <1>2, FS_Union
<1>5. Cardinality((I \cup T) \cup D) = Cardinality(I \cup T) + Cardinality(D) - Cardinality((I \cup T) \cap D)
  BY <1>2, <1>4, FS_Union
<1>6. I \cap T = {} /\ (I \cup T) \cap D = {} /\ (I \cup T) \cup D = Connections
  BY DEF Places
<1>7. Cardinality(I) \in Nat /\ Cardinality(T) \in Nat /\ Cardinality(D) \in Nat /\ Cardinality(I \cup T) \in Nat
  BY <1>2, <1>4, FS_CardinalityType
<1>8. Cardinality(I \cap T) = 0 /\ Cardinality((I \cup T) \cap D) = 0 /\ Cardinality((I \cup T) \cup D) = pool_size
  BY <1>1, <1>3, <1>6, Zenon
<1>9. Cardinality(I) + Cardinality(T) + Cardinality(D) = pool_size
  BY <1>4, <1>5, <1>7, <1>8
<1> QED
  BY <1>2, <1>9

\* A thread gets a connection.
LEMMA UserGets ==
  ASSUME UserInv, Places(Idle, Taken, dropped), NEW t \in Threads, NEW k \in Connections \ Taken, NEW r \in UserType,
         user' = [user EXCEPT ![t] = r], user[t].conn = {}, r.conn = {k}, r.pc # "away"
  PROVE  UserInv' /\ Taken' = Taken \cup {k}
<1>1. user' \in [Threads -> UserType] /\ user'[t] = r /\ \A u \in Threads : u # t => user'[u] = user[u]
  BY DEF UserInv
<1>2. \A u \in Threads : user[u].conn \subseteq Taken
  BY DEF Taken
<1>3. Taken' = Taken \cup {k}
  <2>1. \A x \in Taken' : x \in Taken \cup {k}
    <3> TAKE x \in Taken'
    <3>1. PICK u \in Threads : x \in user'[u].conn
      BY DEF Taken
    <3> QED
      BY <1>1, <1>2, <3>1
  <2>2. \A x \in Taken \cup {k} : x \in Taken'
    <3> TAKE x \in Taken \cup {k}
    <3>1. CASE x = k
      BY <1>1, <3>1 DEF Taken
    <3>2. CASE x \in Taken
      <4>1. PICK u \in Threads : x \in user[u].conn
        BY <3>2 DEF Taken
      <4> QED
        BY <1>1, <4>1 DEF Taken
    <3> QED
      BY <3>1, <3>2
  <2> QED
    BY <2>1, <2>2
<1>4. Users' = Users \cup {t} /\ t \notin Users
  BY <1>1 DEF Users
<1>5. IsFiniteSet(Users') /\ Cardinality(Users') = Cardinality(Users) + 1
  BY <1>4, FS_AddElement DEF UserInv
<1>6. Cardinality(Taken') = Cardinality(Taken) + 1
  BY <1>3, FS_AddElement, PlacesFinite
<1>7. \A u \in Threads : IF user'[u].pc = "away" THEN user'[u].conn = {} ELSE \E x \in Connections : user'[u].conn = {x}
  BY <1>1 DEF UserInv
<1>8. \A u, v \in Threads : u # v => user'[u].conn \cap user'[v].conn = {}
  BY <1>1, <1>2 DEF UserInv
<1> QED
  BY <1>1, <1>3, <1>5, <1>6, <1>7, <1>8 DEF UserInv

\* ... and has it no more.
LEMMA UserGives ==
  ASSUME UserInv, Places(Idle, Taken, dropped), NEW t \in Threads, NEW k \in Connections,
         user' = [user EXCEPT ![t] = Away], user[t].conn = {k}
  PROVE  UserInv' /\ Taken' = Taken \ {k} /\ k \in Taken
<1>a. Away \in UserType /\ Away.conn = {} /\ Away.pc = "away"
  BY DEF Away, UserType
<1>1. user' \in [Threads -> UserType] /\ user'[t] = Away /\ \A u \in Threads : u # t => user'[u] = user[u]
  BY <1>a DEF UserInv
<1>2. k \in Taken /\ \A u \in Threads : u # t => k \notin user[u].conn
  BY DEF Taken, UserInv
<1>3. Taken' = Taken \ {k}
  <2>1. \A x \in Taken' : x \in Taken \ {k}
    <3> TAKE x \in Taken'
    <3>1. PICK u \in Threads : x \in user'[u].conn
      BY DEF Taken
    <3>2. u # t /\ x \in user[u].conn
      BY <1>a, <1>1, <3>1
    <3> QED
      BY <1>2, <3>2 DEF Taken
  <2>2. \A x \in Taken \ {k} : x \in Taken'
    <3> TAKE x \in Taken \ {k}
    <3>1. PICK u \in Threads : x \in user[u].conn
      BY DEF Taken
    <3> QED
      BY <1>1, <3>1 DEF Taken
  <2> QED
    BY <2>1, <2>2
<1>4. Users' = Users \ {t} /\ t \in Users
  BY <1>a, <1>1 DEF Users
<1>5. IsFiniteSet(Users') /\ Cardinality(Users') = Cardinality(Users) - 1
  BY <1>4, FS_RemoveElement DEF UserInv
<1>6. Cardinality(Taken') = Cardinality(Taken) - 1
  BY <1>2, <1>3, FS_RemoveElement, PlacesFinite
<1>7. \A u \in Threads : IF user'[u].pc = "away" THEN user'[u].conn = {} ELSE \E x \in Connections : user'[u].conn = {x}
  BY <1>a, <1>1 DEF UserInv
<1>8. \A u, v \in Threads : u # v => user'[u].conn \cap user'[v].conn = {}
  BY <1>a, <1>1 DEF UserInv
<1> QED
  BY <1>1, <1>2, <1>3, <1>5, <1>6, <1>7, <1>8 DEF UserInv

\* The pool without its front, and with one more.
LEMMA PoolFront ==
  ASSUME QueueOfIdle, Places(Idle, Taken, dropped), m_pool # <<>>, m_pool' = Tail(m_pool), m_idle' = m_idle - 1
  PROVE  /\ QueueOfIdle' /\ Idle' = Idle \ {Head(m_pool)} /\ Head(m_pool) \in Idle
<1>1. /\ m_pool \in Seq(Connections) /\ Len(m_pool) \in Nat /\ Len(m_pool) > 0 /\ DOMAIN m_pool = 1 .. Len(m_pool)
      /\ Head(m_pool) = m_pool[1]
  BY DEF QueueOfIdle
<1>2. /\ m_pool' \in Seq(Connections) /\ Len(m_pool') = Len(m_pool) - 1 /\ DOMAIN m_pool' = 1 .. (Len(m_pool) - 1)
      /\ \A i \in 1 .. (Len(m_pool) - 1) : m_pool'[i] = m_pool[i + 1]
  BY <1>1
<1>3. \A i, j \in DOMAIN m_pool' : m_pool'[i] = m_pool'[j] => i = j
  BY <1>1, <1>2 DEF QueueOfIdle
<1>4. Head(m_pool) \in Idle
  BY <1>1 DEF Idle
<1>5. Idle' = Idle \ {Head(m_pool)}
  <2>1. \A x \in Idle' : x \in Idle \ {Head(m_pool)}
    <3> TAKE x \in Idle'
    <3>1. PICK i \in DOMAIN m_pool' : x = m_pool'[i]
      BY DEF Idle
    <3>2. i + 1 \in DOMAIN m_pool /\ x = m_pool[i + 1] /\ 1 \in DOMAIN m_pool /\ i + 1 # 1
      BY <1>1, <1>2, <3>1
    <3>3. m_pool[i + 1] # m_pool[1]
      BY <3>2 DEF QueueOfIdle
    <3> QED
      BY <1>1, <3>2, <3>3 DEF Idle
  <2>2. \A x \in Idle \ {Head(m_pool)} : x \in Idle'
    <3> TAKE x \in Idle \ {Head(m_pool)}
    <3>1. PICK i \in DOMAIN m_pool : x = m_pool[i]
      BY DEF Idle
    <3>2. i - 1 \in DOMAIN m_pool' /\ x = m_pool'[i - 1]
      BY <1>1, <1>2, <3>1
    <3> QED
      BY <3>2 DEF Idle
  <2> QED
    BY <2>1, <2>2
<1>6. Cardinality(Idle') = Cardinality(Idle) - 1
  BY <1>4, <1>5, FS_RemoveElement, PlacesFinite
<1> QED
  BY <1>2, <1>3, <1>4, <1>5, <1>6 DEF QueueOfIdle

LEMMA PoolBack ==
  ASSUME QueueOfIdle, Places(Idle, Taken, dropped), NEW k \in Connections, k \notin Idle,
         m_pool' = Append(m_pool, k), m_idle' = m_idle + 1
  PROVE  QueueOfIdle' /\ Idle' = Idle \cup {k}
<1>1. m_pool \in Seq(Connections) /\ Len(m_pool) \in Nat /\ DOMAIN m_pool = 1 .. Len(m_pool)
  BY DEF QueueOfIdle
<1>2. /\ m_pool' \in Seq(Connections) /\ Len(m_pool') = Len(m_pool) + 1 /\ DOMAIN m_pool' = 1 .. (Len(m_pool) + 1)
      /\ \A i \in 1 .. Len(m_pool) : m_pool'[i] = m_pool[i]
      /\ m_pool'[Len(m_pool) + 1] = k
  BY <1>1
<1>3. \A i \in DOMAIN m_pool : m_pool[i] # k
  BY DEF Idle
<1>4. \A i, j \in DOMAIN m_pool' : m_pool'[i] = m_pool'[j] => i = j
  <2> TAKE i, j \in DOMAIN m_pool'
  <2>1. CASE i \in DOMAIN m_pool /\ j \in DOMAIN m_pool
    BY <1>1, <1>2, <2>1 DEF QueueOfIdle
  <2>2. CASE i = Len(m_pool) + 1 \/ j = Len(m_pool) + 1
    BY <1>1, <1>2, <1>3, <2>2
  <2> QED
    BY <1>1, <1>2, <2>1, <2>2
<1>5. Idle' = Idle \cup {k}
  <2>1. \A x \in Idle' : x \in Idle \cup {k}
    <3> TAKE x \in Idle'
    <3>1. PICK i \in DOMAIN m_pool' : x = m_pool'[i]
      BY DEF Idle
    <3>2. CASE i = Len(m_pool) + 1
      BY <1>2, <3>1, <3>2
    <3>3. CASE i \in DOMAIN m_pool
      BY <1>1, <1>2, <3>1, <3>3 DEF Idle
    <3> QED
      BY <1>1, <1>2, <3>2, <3>3
  <2>2. \A x \in Idle \cup {k} : x \in Idle'
    <3> TAKE x \in Idle \cup {k}
    <3>1. CASE x = k
      <4>1. Len(m_pool) + 1 \in DOMAIN m_pool'
        BY <1>1, <1>2
      <4> QED
        BY <1>2, <3>1, <4>1 DEF Idle
    <3>2. CASE x \in Idle
      <4>1. PICK i \in DOMAIN m_pool : x = m_pool[i]
        BY <3>2 DEF Idle
      <4>2. i \in DOMAIN m_pool' /\ x = m_pool'[i]
        BY <1>1, <1>2, <4>1
      <4> QED
        BY <4>2 DEF Idle
    <3> QED
      BY <3>1, <3>2
  <2> QED
    BY <2>1, <2>2
<1>6. Cardinality(Idle') = Cardinality(Idle) + 1
  BY <1>5, FS_AddElement, PlacesFinite
<1> QED
  BY <1>1, <1>2, <1>4, <1>5, <1>6 DEF QueueOfIdle

LEMMA MySqlStep ==
  ASSUME MySqlInv, MySqlNext
  PROVE  MySqlInv'
<1> USE DEF MySqlInv
<1>a. \A t \in Threads : user[t] \in UserType
  BY DEF UserInv
<1>1. ASSUME NEW t \in Threads, getConnection(t) PROVE MySqlInv'
  <2> DEFINE k == Head(m_pool)
             r == [pc |-> "ping", conn |-> {k}]
  <2>1. m_pool # <<>> /\ m_pool' = Tail(m_pool) /\ m_idle' = m_idle - 1 /\ dropped' = dropped /\ user' = [user EXCEPT ![t] = r]
    BY <1>1 DEF getConnection
  <2>2. QueueOfIdle' /\ Idle' = Idle \ {k} /\ k \in Idle
    BY <2>1, PoolFront
  <2>3. k \in Connections \ Taken
    BY <2>2 DEF Places
  <2>4. user[t].conn = {}
    BY <1>1 DEF getConnection, UserInv
  <2>5. r \in UserType /\ r.conn = {k} /\ r.pc # "away"
    BY <2>3 DEF UserType
  <2> HIDE DEF k, r
  <2>6. UserInv' /\ Taken' = Taken \cup {k}
    BY <2>1, <2>3, <2>4, <2>5, UserGets
  <2>7. Places(Idle', Taken', dropped')
    BY <2>1, <2>2, <2>3, <2>6 DEF Places
  <2> QED
    BY <2>2, <2>6, <2>7 DEF Places
<1>2. ASSUME NEW t \in Threads, Ping(t) \/ Reconnect(t) PROVE MySqlInv'
  <2> DEFINE r == [user[t] EXCEPT !.pc = "query"]
  <2>1. user' = [user EXCEPT ![t] = r] /\ m_pool' = m_pool /\ m_idle' = m_idle /\ dropped' = dropped /\ user[t].pc # "away"
    BY <1>2 DEF Ping, Reconnect, UserAt
  <2>2. r \in UserType /\ r.conn = user[t].conn /\ r.pc = "query"
    BY <1>a DEF UserType
  <2> HIDE DEF r
  <2>3. user' \in [Threads -> UserType] /\ \A u \in Threads : user'[u].conn = user[u].conn
    BY <2>1, <2>2 DEF UserInv
  <2>4. \A u \in Threads : user'[u].pc = "away" <=> user[u].pc = "away"
    BY <2>1, <2>2 DEF UserInv
  <2>5. Taken' = Taken /\ Users' = Users /\ Idle' = Idle
    BY <2>1, <2>3 DEF Taken, Users, Idle
  <2>6. UserInv'
    BY <2>3, <2>4, <2>5 DEF UserInv
  <2> QED
    BY <2>1, <2>5, <2>6 DEF QueueOfIdle, Places
<1>3. ASSUME NEW t \in Threads, ReconnectFails(t) PROVE MySqlInv'
  <2>1. user' = [user EXCEPT ![t] = Away] /\ m_pool' = m_pool /\ m_idle' = m_idle /\ dropped' = dropped \cup user[t].conn
    BY <1>3 DEF ReconnectFails
  <2>2. PICK k \in Connections : user[t].conn = {k}
    BY <1>3 DEF ReconnectFails, UserInv
  <2>3. UserInv' /\ Taken' = Taken \ {k} /\ k \in Taken
    BY <2>1, <2>2, UserGives
  <2>4. Idle' = Idle /\ QueueOfIdle'
    BY <2>1 DEF Idle, QueueOfIdle
  <2>5. Places(Idle', Taken', dropped')
    BY <2>1, <2>2, <2>3, <2>4 DEF Places
  <2> QED
    BY <2>3, <2>4, <2>5 DEF Places
<1>4. ASSUME NEW t \in Threads, releaseConnection(t) PROVE MySqlInv'
  <2>1. user' = [user EXCEPT ![t] = Away] /\ m_idle' = m_idle + 1 /\ dropped' = dropped
    BY <1>4 DEF releaseConnection
  <2>2. PICK k \in Connections : user[t].conn = {k}
    BY <1>4 DEF releaseConnection, UserInv
  <2>3. m_pool' = Append(m_pool, k)
    BY <1>4, <2>2 DEF releaseConnection
  <2>4. UserInv' /\ Taken' = Taken \ {k} /\ k \in Taken
    BY <2>1, <2>2, UserGives
  <2>5. k \notin Idle
    BY <2>4 DEF Places
  <2>6. QueueOfIdle' /\ Idle' = Idle \cup {k}
    BY <2>1, <2>3, <2>5, PoolBack
  <2>7. Places(Idle', Taken', dropped')
    BY <2>1, <2>4, <2>6 DEF Places
  <2> QED
    BY <2>4, <2>6, <2>7 DEF Places
<1>5. CASE UNCHANGED <<m_pool, m_idle, user, dropped>>
  BY <1>5 DEF UserInv, QueueOfIdle, Places, Idle, Taken, Users
<1> QED
  BY <1>1, <1>2, <1>3, <1>4, <1>5 DEF MySqlNext, PoolTimesOut, ServerDrops, mysqlVars

LEMMA MySqlStart == Init => MySqlInv
<1> SUFFICES ASSUME Init PROVE MySqlInv
  OBVIOUS
<1>1. m_pool = [i \in 1 .. pool_size |-> i] /\ m_idle = pool_size /\ dropped = {} /\ user = [t \in Threads |-> Away]
  BY DEF Init, MySqlInit, Connections
<1>2. Away \in UserType /\ Away.conn = {} /\ Away.pc = "away"
  BY DEF Away, UserType
<1>3. Taken = {} /\ Users = {}
  BY <1>1, <1>2 DEF Taken, Users
<1>4. /\ m_pool \in Seq(Connections) /\ Len(m_pool) = pool_size /\ DOMAIN m_pool = 1 .. pool_size
      /\ \A i \in 1 .. pool_size : m_pool[i] = i
  BY <1>1, MySqlAssumption DEF Connections
<1>5. Idle = Connections
  BY <1>4 DEF Idle, Connections
<1>6. Places(Idle, Taken, dropped)
  BY <1>1, <1>3, <1>5 DEF Places
<1>7. Cardinality(Idle) = pool_size
  <2>1. Cardinality(Idle) + Cardinality(Taken) + Cardinality(dropped) = pool_size
    BY <1>6, PlacesFinite
  <2>2. Cardinality(Taken) = 0 /\ Cardinality(dropped) = 0
    BY <1>1, <1>3, FS_EmptySet
  <2>3. Cardinality(Idle) \in Nat
    BY <1>6, PlacesFinite, FS_CardinalityType
  <2> QED
    BY <2>1, <2>2, <2>3
<1>8. UserInv
  BY <1>1, <1>2, <1>3, FS_EmptySet DEF UserInv
<1>9. QueueOfIdle
  BY <1>1, <1>4, <1>7 DEF QueueOfIdle
<1> QED
  BY <1>6, <1>8, <1>9 DEF MySqlInv

LEMMA MySqlExact ==
  ASSUME MySqlInv
  PROVE  MySqlPoolIsExact
<1>1. Cardinality(Idle) + Cardinality(Taken) + Cardinality(dropped) = pool_size
  BY PlacesFinite DEF MySqlInv
<1> QED
  BY <1>1 DEF MySqlInv, MySqlPoolIsExact, UserInv, QueueOfIdle, Places, Idle, Taken, Users

-----------------------------------------------------------------------------
(* The descriptors of the sockets. *)

Stages == {"new", "refused", "connecting", "live", "accepted", "registered", "lost"}
Steps  == {"out", "close", "del", "reset"}
Number == Fds \cup {-1}

SocketTypes ==
  /\ kernel \in [Fds -> Socks \cup {NoSock}] /\ m_datas \in [Fds -> {"absent", "socket", "other"}]
  /\ m_sockfd \in [Socks -> Number] /\ connfd \in [Socks -> Number] /\ m_isConnected \subseteq Socks
  /\ stage \in [Socks -> Stages] /\ closing \in [Socks -> [Closers -> Steps]]
  /\ busy \in [Socks -> [Ways -> Number]] /\ twoClosers \in BOOLEAN /\ late \subseteq Fds

\* What a socket has, by the stage of its opening and of its closing.
Opened(s) ==
  /\ stage[s] \notin {"connecting", "live"} => m_sockfd[s] = -1
  /\ stage[s] = "connecting" => m_sockfd[s] # -1
  /\ stage[s] # "live" => /\ s \notin m_isConnected
                          /\ \A t \in Closers : closing[s][t] = "out"
                          /\ \A way \in Ways : busy[s][way] = -1
Accepted(s) ==
  /\ stage[s] \in {"accepted", "registered"} => connfd[s] \in Fds /\ kernel[connfd[s]] = s
  /\ stage[s] = "registered" => m_datas[connfd[s]] = "socket" \/ connfd[s] \in late
  /\ stage[s] = "lost" => connfd[s] \in late
Closed(s) ==
  /\ m_sockfd[s] # -1 /\ (\A t \in Closers : closing[s][t] \in {"out", "close"}) => kernel[m_sockfd[s]] = s
  /\ \A t \in Closers : closing[s][t] # "out" => /\ m_sockfd[s] # -1 /\ s \notin m_isConnected
                                                 /\ \A u \in Closers : u # t => closing[s][u] = "out"
  /\ s \in m_isConnected => m_sockfd[s] # -1 /\ \A way \in Ways : busy[s][way] \in {-1, m_sockfd[s]}

\* FdManager: a number that is not open is in it until del().
Registered ==
  \A f \in Fds :
    /\ m_datas[f] # "other"
    /\ m_datas[f] # "absent" => \/ kernel[f] # NoSock
                                \/ \E s \in Socks, t \in Closers : m_sockfd[s] = f /\ closing[s][t] = "del"

SocketsApart == (\A s \in Socks : Opened(s) /\ Accepted(s) /\ Closed(s)) /\ Registered

SocketInv == twoClosers \/ (SocketTypes /\ SocketsApart)

\* Another socket: its own state stays, and so do its numbers in the kernel.
Apart(d) ==
  /\ stage'[d] = stage[d] /\ m_sockfd'[d] = m_sockfd[d] /\ connfd'[d] = connfd[d]
  /\ closing'[d] = closing[d] /\ busy'[d] = busy[d] /\ (d \in m_isConnected' <=> d \in m_isConnected)
  /\ \A f \in Fds : kernel[f] = d => /\ kernel'[f] = d
                                     /\ m_datas[f] = "socket" => m_datas'[f] = "socket" \/ f \in late'

LEMMA ApartKept ==
  ASSUME SocketTypes, NEW d \in Socks, Opened(d), Accepted(d), Closed(d), Apart(d), late \subseteq late'
  PROVE  Opened(d)' /\ Accepted(d)' /\ Closed(d)'
<1>1. Opened(d)'
  BY DEF Opened, Apart
<1>2. Accepted(d)'
  BY DEF Accepted, Apart
<1>3. Closed(d)'
  <2>1. m_sockfd[d] # -1 => m_sockfd[d] \in Fds
    BY DEF SocketTypes, Number
  <2>2. m_sockfd'[d] # -1 /\ (\A t \in Closers : closing'[d][t] \in {"out", "close"}) => kernel'[m_sockfd'[d]] = d
    BY <2>1 DEF Closed, Apart
  <2> QED
    BY <2>2 DEF Closed, Apart
<1> QED
  BY <1>1, <1>2, <1>3

\* bind(), connect() and accept(): the kernel gives a number to a new socket.
LEMMA SocketOpens ==
  ASSUME SocketTypes, SocketsApart, NEW s \in Socks, bindSock(s) \/ connect(s) \/ accept(s)
  PROVE  SocketsApart' /\ SocketTypes' /\ twoClosers' = twoClosers
<1>1. /\ UNCHANGED <<m_datas, m_isConnected, closing, busy, twoClosers, late>>
      /\ stage[s] = "new"
      /\ \/ stage' = [stage EXCEPT ![s] = "refused"] /\ UNCHANGED <<kernel, m_sockfd, connfd>>
         \/ \E f \in Fds : /\ kernel[f] = NoSock /\ kernel' = [kernel EXCEPT ![f] = s]
                           /\ \/ /\ m_sockfd' = [m_sockfd EXCEPT ![s] = f] /\ connfd' = connfd
                                 /\ \E n \in {"live", "connecting"} : stage' = [stage EXCEPT ![s] = n]
                              \/ /\ connfd' = [connfd EXCEPT ![s] = f] /\ m_sockfd' = m_sockfd
                                 /\ stage' = [stage EXCEPT ![s] = "accepted"]
  <2>1. CASE bindSock(s)
    BY <2>1 DEF bindSock, _newSocket, LowestFree, FreeFds
  <2>2. CASE connect(s)
    BY <2>2 DEF connect, _newSocket, LowestFree, FreeFds
  <2>3. CASE accept(s)
    BY <2>3 DEF accept, LowestFree, FreeFds
  <2> QED
    BY <2>1, <2>2, <2>3
<1>a. stage \in [Socks -> Stages] /\ m_sockfd \in [Socks -> Number] /\ connfd \in [Socks -> Number]
  BY DEF SocketTypes
<1>b. Opened(s) /\ Accepted(s) /\ Closed(s)
  BY DEF SocketsApart
<1>c. /\ m_sockfd[s] = -1 /\ s \notin m_isConnected /\ (\A t \in Closers : closing[s][t] = "out")
      /\ \A way \in Ways : busy[s][way] = -1
  BY <1>1, <1>b DEF Opened
<1>2. CASE stage' = [stage EXCEPT ![s] = "refused"] /\ UNCHANGED <<kernel, m_sockfd, connfd>>
  <2>1. SocketTypes'
    BY <1>1, <1>2 DEF SocketTypes, Stages
  <2>2. \A d \in Socks : d # s => Apart(d)
    BY <1>1, <1>2, <1>a DEF Apart
  <2>3. Opened(s)' /\ Accepted(s)' /\ Closed(s)'
    BY <1>1, <1>2, <1>a, <1>c DEF Opened, Accepted, Closed
  <2>4. Registered'
    BY <1>1, <1>2 DEF Registered, SocketsApart
  <2>5. \A d \in Socks : Opened(d)' /\ Accepted(d)' /\ Closed(d)'
    BY <1>1, <2>2, <2>3, ApartKept DEF SocketsApart
  <2> QED
    BY <1>1, <2>1, <2>4, <2>5 DEF SocketsApart
<1>3. ASSUME NEW f \in Fds, kernel[f] = NoSock, kernel' = [kernel EXCEPT ![f] = s],
             \/ /\ m_sockfd' = [m_sockfd EXCEPT ![s] = f] /\ connfd' = connfd
                /\ \E n \in {"live", "connecting"} : stage' = [stage EXCEPT ![s] = n]
             \/ /\ connfd' = [connfd EXCEPT ![s] = f] /\ m_sockfd' = m_sockfd
                /\ stage' = [stage EXCEPT ![s] = "accepted"]
      PROVE  SocketsApart' /\ SocketTypes'
  <2>1. SocketTypes'
    <3>1. kernel' \in [Fds -> Socks \cup {NoSock}]
      BY <1>3 DEF SocketTypes
    <3>2. m_sockfd' \in [Socks -> Number] /\ connfd' \in [Socks -> Number]
      BY <1>3, <1>a DEF Number
    <3>3. stage' \in [Socks -> Stages]
      BY <1>3, <1>a DEF Stages
    <3> QED
      BY <1>1, <3>1, <3>2, <3>3 DEF SocketTypes
  <2>2. \A d \in Socks : d # s => Apart(d)
    <3> SUFFICES ASSUME NEW d \in Socks, d # s PROVE Apart(d)
      OBVIOUS
    <3>1. stage'[d] = stage[d] /\ m_sockfd'[d] = m_sockfd[d] /\ connfd'[d] = connfd[d]
      BY <1>3, <1>a
    <3>2. \A g \in Fds : kernel[g] = d => kernel'[g] = d
      BY <1>3, NoneIsNoSocket DEF SocketTypes
    <3> QED
      BY <1>1, <3>1, <3>2 DEF Apart
  <2>3. Opened(s)' /\ Accepted(s)' /\ Closed(s)'
    <3>1. kernel'[f] = s /\ f # -1
      BY <1>3, FdsAreNumbers DEF SocketTypes
    <3>2. \/ m_sockfd'[s] = f /\ stage'[s] \in {"live", "connecting"}
          \/ connfd'[s] = f /\ m_sockfd'[s] = -1 /\ stage'[s] = "accepted"
      BY <1>3, <1>a, <1>c
    <3> QED
      BY <1>1, <1>c, <3>1, <3>2 DEF Opened, Accepted, Closed
  <2>4. Registered'
    <3> SUFFICES ASSUME NEW g \in Fds
                 PROVE  /\ m_datas'[g] # "other"
                        /\ m_datas'[g] # "absent" => \/ kernel'[g] # NoSock
                                                     \/ \E d \in Socks, t \in Closers : m_sockfd'[d] = g /\ closing'[d][t] = "del"
      BY DEF Registered
    <3>1. CASE g = f
      BY <1>1, <1>3, <3>1, NoneIsNoSocket DEF Registered, SocketsApart, SocketTypes
    <3>2. CASE g # f
      <4>1. kernel'[g] = kernel[g]
        BY <1>3, <3>2 DEF SocketTypes
      <4>2. \A d \in Socks, t \in Closers : closing[d][t] = "del" => m_sockfd'[d] = m_sockfd[d]
        BY <1>3, <1>a, <1>c
      <4> QED
        BY <1>1, <4>1, <4>2 DEF Registered, SocketsApart
    <3> QED
      BY <3>1, <3>2
  <2>5. \A d \in Socks : Opened(d)' /\ Accepted(d)' /\ Closed(d)'
    BY <1>1, <2>2, <2>3, ApartKept DEF SocketsApart
  <2> QED
    BY <2>1, <2>4, <2>5 DEF SocketsApart
<1> QED
  BY <1>1, <1>2, <1>3

\* The steps that change a socket and neither the kernel nor FdManager.
LEMMA SocketLocal ==
  ASSUME SocketTypes, SocketsApart, NEW s \in Socks, SocketTypes', UNCHANGED <<kernel, m_datas, connfd, late>>,
         \A d \in Socks : d # s => Apart(d), Opened(s)', Accepted(s)', Closed(s)',
         \A t \in Closers : closing[s][t] = "del" => closing'[s][t] = "del" /\ m_sockfd'[s] = m_sockfd[s]
  PROVE  SocketsApart'
<1>1. \A d \in Socks : Opened(d)' /\ Accepted(d)' /\ Closed(d)'
  BY ApartKept DEF SocketsApart
<1>2. \A d \in Socks, t \in Closers : closing[d][t] = "del" => closing'[d][t] = "del" /\ m_sockfd'[d] = m_sockfd[d]
  BY DEF Apart
<1>3. Registered'
  BY <1>2 DEF Registered, SocketsApart
<1> QED
  BY <1>1, <1>3 DEF SocketsApart

\* connect() returns.
LEMMA SocketConnected ==
  ASSUME SocketTypes, SocketsApart, NEW s \in Socks, NEW ok \in BOOLEAN, Connected(s, ok)
  PROVE  SocketsApart' /\ SocketTypes' /\ twoClosers' = twoClosers
<1>a. stage \in [Socks -> Stages] /\ closing \in [Socks -> [Closers -> Steps]] /\ Handler \in Closers
  BY DEF SocketTypes, Closers
<1>b. Opened(s) /\ Accepted(s) /\ Closed(s)
  BY DEF SocketsApart
<1>1. /\ stage[s] = "connecting" /\ stage' = [stage EXCEPT ![s] = "live"]
      /\ UNCHANGED <<kernel, m_datas, m_sockfd, connfd, busy, twoClosers, late>>
  BY DEF Connected
<1>2. \/ m_isConnected' = m_isConnected \cup {s} /\ closing' = closing
      \/ m_isConnected' = m_isConnected /\ closing' = [closing EXCEPT ![s][Handler] = "close"]
  BY DEF Connected
<1>c. /\ m_sockfd[s] # -1 /\ s \notin m_isConnected /\ (\A t \in Closers : closing[s][t] = "out")
      /\ (\A way \in Ways : busy[s][way] = -1) /\ kernel[m_sockfd[s]] = s
  BY <1>1, <1>b DEF Opened, Closed
<1>3. /\ closing' \in [Socks -> [Closers -> Steps]] /\ (\A d \in Socks : d # s => closing'[d] = closing[d])
      /\ \/ closing'[s] = closing[s] /\ m_isConnected' = m_isConnected \cup {s}
         \/ /\ closing'[s][Handler] = "close" /\ m_isConnected' = m_isConnected
            /\ \A t \in Closers : t # Handler => closing'[s][t] = "out"
  <2>1. CASE m_isConnected' = m_isConnected \cup {s} /\ closing' = closing
    BY <1>a, <2>1
  <2>2. CASE m_isConnected' = m_isConnected /\ closing' = [closing EXCEPT ![s][Handler] = "close"]
    BY <1>a, <1>c, <2>2 DEF Steps
  <2> QED
    BY <1>2, <2>1, <2>2
<1>4. SocketTypes'
  <2>1. stage' \in [Socks -> Stages]
    BY <1>1, <1>a DEF Stages
  <2> QED
    BY <1>1, <1>3, <2>1 DEF SocketTypes
<1>5. \A d \in Socks : d # s => Apart(d)
  BY <1>1, <1>3, <1>a DEF Apart
<1>6. stage'[s] = "live"
  BY <1>1, <1>a
<1>7. Opened(s)' /\ Accepted(s)'
  BY <1>6 DEF Opened, Accepted
<1>8. Closed(s)'
  <2>1. CASE closing'[s] = closing[s] /\ m_isConnected' = m_isConnected \cup {s}
    BY <1>1, <1>c, <2>1 DEF Closed
  <2>2. CASE /\ closing'[s][Handler] = "close" /\ m_isConnected' = m_isConnected
             /\ \A t \in Closers : t # Handler => closing'[s][t] = "out"
    BY <1>1, <1>c, <2>2 DEF Closed
  <2> QED
    BY <1>3, <2>1, <2>2
<1> QED
  BY <1>1, <1>4, <1>5, <1>7, <1>8, <1>c, SocketLocal

\* FdManager::get() for an accepted connection.
LEMMA SocketGets ==
  ASSUME SocketTypes, SocketsApart, NEW s \in Socks, get(s)
  PROVE  SocketsApart' /\ SocketTypes' /\ twoClosers' = twoClosers
<1>a. stage \in [Socks -> Stages] /\ m_datas \in [Fds -> {"absent", "socket", "other"}]
  BY DEF SocketTypes
<1>b. Opened(s) /\ Accepted(s) /\ Closed(s)
  BY DEF SocketsApart
<1>1. /\ stage[s] = "accepted" /\ stage' = [stage EXCEPT ![s] = "registered"]
      /\ UNCHANGED <<kernel, m_sockfd, m_isConnected, connfd, closing, busy, twoClosers, late>>
  BY DEF get
<1> DEFINE f == connfd[s]
<1>2. f \in Fds /\ kernel[f] = s /\ s # NoSock
  BY <1>1, <1>b, NoneIsNoSocket DEF Accepted
<1>3. m_datas' = [m_datas EXCEPT ![f] = "socket"]
  <2>1. m_datas[f] # "other"
    BY <1>2 DEF SocketsApart, Registered
  <2> QED
    BY <1>2, <1>a, <2>1 DEF get
<1> HIDE DEF f
<1>4. SocketTypes'
  <2>1. stage' \in [Socks -> Stages] /\ m_datas' \in [Fds -> {"absent", "socket", "other"}]
    BY <1>1, <1>3, <1>a DEF Stages
  <2> QED
    BY <1>1, <2>1 DEF SocketTypes
<1>5. \A g \in Fds : m_datas'[g] = IF g = f THEN "socket" ELSE m_datas[g]
  BY <1>3, <1>a
<1>6. \A d \in Socks : d # s => Apart(d)
  BY <1>1, <1>5, <1>a DEF Apart
<1>7. stage'[s] = "registered" /\ m_datas'[f] = "socket" /\ connfd'[s] = f /\ kernel'[f] = s
  BY <1>1, <1>2, <1>5, <1>a DEF f
<1>8. Opened(s)' /\ Accepted(s)' /\ Closed(s)'
  BY <1>1, <1>2, <1>7, <1>b DEF Opened, Accepted, Closed
<1>9. Registered'
  <2> SUFFICES ASSUME NEW g \in Fds
               PROVE  /\ m_datas'[g] # "other"
                      /\ m_datas'[g] # "absent" => \/ kernel'[g] # NoSock
                                                   \/ \E d \in Socks, t \in Closers : m_sockfd'[d] = g /\ closing'[d][t] = "del"
    BY DEF Registered
  <2>1. CASE g = f
    BY <1>1, <1>2, <1>5, <2>1
  <2>2. CASE g # f
    BY <1>1, <1>5, <2>2 DEF SocketsApart, Registered
  <2> QED
    BY <2>1, <2>2
<1>10. \A d \in Socks : Opened(d)' /\ Accepted(d)' /\ Closed(d)'
  BY <1>1, <1>6, <1>8, ApartKept DEF SocketsApart
<1> QED
  BY <1>1, <1>4, <1>9, <1>10 DEF SocketsApart

\* _init() takes the number over, or drops the object.
LEMMA SocketTakes ==
  ASSUME SocketTypes, SocketsApart, NEW s \in Socks, _init(s)
  PROVE  SocketsApart' /\ SocketTypes' /\ twoClosers' = twoClosers
<1>a. stage \in [Socks -> Stages] /\ m_sockfd \in [Socks -> Number] /\ connfd \in [Socks -> Number]
  BY DEF SocketTypes
<1>b. Opened(s) /\ Accepted(s) /\ Closed(s)
  BY DEF SocketsApart
<1>1. stage[s] = "registered" /\ UNCHANGED <<kernel, m_datas, connfd, closing, busy, twoClosers, late>>
  BY DEF _init
<1>c. /\ m_sockfd[s] = -1 /\ s \notin m_isConnected /\ (\A t \in Closers : closing[s][t] = "out")
      /\ (\A way \in Ways : busy[s][way] = -1) /\ connfd[s] \in Fds /\ kernel[connfd[s]] = s
      /\ (m_datas[connfd[s]] = "socket" \/ connfd[s] \in late) /\ connfd[s] # -1
  BY <1>1, <1>b, FdsAreNumbers DEF Opened, Accepted
<1>2. \/ /\ m_sockfd' = [m_sockfd EXCEPT ![s] = connfd[s]] /\ m_isConnected' = m_isConnected \cup {s}
         /\ stage' = [stage EXCEPT ![s] = "live"]
      \/ /\ m_sockfd' = m_sockfd /\ m_isConnected' = m_isConnected /\ connfd[s] \in late
         /\ stage' = [stage EXCEPT ![s] = "lost"]
  BY <1>c DEF _init
<1>3. SocketTypes'
  <2>1. stage' \in [Socks -> Stages] /\ m_sockfd' \in [Socks -> Number] /\ m_isConnected' \subseteq Socks
    BY <1>2, <1>a DEF Stages, SocketTypes
  <2> QED
    BY <1>1, <2>1 DEF SocketTypes
<1>4. \A d \in Socks : d # s => Apart(d)
  BY <1>1, <1>2, <1>a DEF Apart
<1>5. \/ m_sockfd'[s] = connfd[s] /\ s \in m_isConnected' /\ stage'[s] = "live"
      \/ m_sockfd'[s] = -1 /\ s \notin m_isConnected' /\ stage'[s] = "lost" /\ connfd[s] \in late
  BY <1>2, <1>a, <1>c
<1>6. Opened(s)' /\ Accepted(s)' /\ Closed(s)'
  BY <1>1, <1>5, <1>c DEF Opened, Accepted, Closed
<1> QED
  BY <1>1, <1>3, <1>4, <1>6, <1>c, SocketLocal

\* A read or a write waits, or ends.
LEMMA SocketTransfers ==
  ASSUME SocketTypes, SocketsApart, NEW s \in Socks, NEW way \in Ways, Waits(s, way) \/ Transferred(s, way)
  PROVE  SocketsApart' /\ SocketTypes' /\ twoClosers' = twoClosers
<1>a. busy \in [Socks -> [Ways -> Number]] /\ m_sockfd \in [Socks -> Number]
  BY DEF SocketTypes
<1>b. Opened(s) /\ Accepted(s) /\ Closed(s)
  BY DEF SocketsApart
<1>1. UNCHANGED <<kernel, m_datas, m_sockfd, m_isConnected, stage, connfd, closing, twoClosers, late>>
  BY DEF Waits, Transferred
<1>2. \E n \in Number : busy' = [busy EXCEPT ![s][way] = n] /\ (n = -1 \/ (n = m_sockfd[s] /\ s \in m_isConnected))
  BY <1>a DEF Waits, Transferred, Number
<1>3. PICK n \in Number : busy' = [busy EXCEPT ![s][way] = n] /\ (n = -1 \/ (n = m_sockfd[s] /\ s \in m_isConnected))
  BY <1>2
<1>4. busy' \in [Socks -> [Ways -> Number]] /\ \A d \in Socks : d # s => busy'[d] = busy[d]
  BY <1>3, <1>a
<1>5. \A w \in Ways : busy'[s][w] = IF w = way THEN n ELSE busy[s][w]
  BY <1>3, <1>a
<1>6. SocketTypes'
  BY <1>1, <1>4 DEF SocketTypes
<1>7. \A d \in Socks : d # s => Apart(d)
  BY <1>1, <1>4 DEF Apart
<1>8. Opened(s)'
  BY <1>1, <1>3, <1>5, <1>b DEF Opened
<1>9. Accepted(s)' /\ Closed(s)'
  BY <1>1, <1>3, <1>5, <1>b DEF Accepted, Closed
<1> QED
  BY <1>1, <1>6, <1>7, <1>8, <1>9, SocketLocal

\* close() begins.
LEMMA SocketCloses ==
  ASSUME SocketTypes, SocketsApart, NEW s \in Socks, NEW t \in Closers, close(s, t), ~twoClosers'
  PROVE  SocketsApart' /\ SocketTypes'
<1>a. closing \in [Socks -> [Closers -> Steps]]
  BY DEF SocketTypes
<1>b. Opened(s) /\ Accepted(s) /\ Closed(s)
  BY DEF SocketsApart
<1>1. /\ stage[s] = "live" /\ m_isConnected' = m_isConnected \ {s}
      /\ UNCHANGED <<kernel, m_datas, m_sockfd, stage, connfd, busy, late>>
  BY DEF close
<1>2. \A u \in Closers : closing[s][u] = "out"
  BY DEF close
<1>3. \/ m_sockfd[s] = -1 /\ closing' = closing
      \/ m_sockfd[s] # -1 /\ closing' = [closing EXCEPT ![s][t] = "close"]
  BY DEF close
<1>4. /\ closing' \in [Socks -> [Closers -> Steps]] /\ (\A d \in Socks : d # s => closing'[d] = closing[d])
      /\ \/ m_sockfd[s] = -1 /\ \A u \in Closers : closing'[s][u] = "out"
         \/ m_sockfd[s] # -1 /\ \A u \in Closers : closing'[s][u] = IF u = t THEN "close" ELSE "out"
  BY <1>2, <1>3, <1>a DEF Steps
<1>5. SocketTypes'
  <2>1. twoClosers' \in BOOLEAN
    BY Zenon DEF close
  <2> QED
    BY <1>1, <1>4, <2>1 DEF SocketTypes
<1>6. \A d \in Socks : d # s => Apart(d)
  BY <1>1, <1>4 DEF Apart
<1>7. Opened(s)' /\ Accepted(s)'
  BY <1>1 DEF Opened, Accepted
<1>8. Closed(s)'
  BY <1>1, <1>2, <1>4, <1>b DEF Closed
<1> QED
  BY <1>1, <1>2, <1>5, <1>6, <1>7, <1>8, SocketLocal

\* A step of close() that is under way.
ClosingGoes(s, t, n) == n \in Steps /\ closing[s][t] # "out" /\ closing' = [closing EXCEPT ![s][t] = n]

LEMMA ClosingStep ==
  ASSUME SocketTypes, SocketsApart, NEW s \in Socks, NEW t \in Closers, NEW n, ClosingGoes(s, t, n)
  PROVE  /\ stage[s] = "live" /\ m_sockfd[s] \in Fds /\ m_sockfd[s] # -1 /\ s \notin m_isConnected
         /\ closing' \in [Socks -> [Closers -> Steps]] /\ \A d \in Socks : d # s => closing'[d] = closing[d]
         /\ \A u \in Closers : closing'[s][u] = (IF u = t THEN n ELSE "out") /\ (u # t => closing[s][u] = "out")
         /\ closing[s][t] = "close" => kernel[m_sockfd[s]] = s
<1>a. closing \in [Socks -> [Closers -> Steps]] /\ m_sockfd[s] \in Number
  BY DEF SocketTypes
<1> USE DEF ClosingGoes
<1>b. Opened(s) /\ Closed(s)
  BY DEF SocketsApart
<1>1. stage[s] = "live"
  BY <1>b DEF Opened
<1>2. m_sockfd[s] # -1 /\ s \notin m_isConnected /\ \A u \in Closers : u # t => closing[s][u] = "out"
  BY <1>b DEF Closed
<1>3. m_sockfd[s] \in Fds
  BY <1>2, <1>a DEF Number
<1>4. closing' \in [Socks -> [Closers -> Steps]] /\ \A d \in Socks : d # s => closing'[d] = closing[d]
  BY <1>a
<1>5. \A u \in Closers : closing'[s][u] = IF u = t THEN n ELSE closing[s][u]
  BY <1>a
<1>6. closing[s][t] = "close" => kernel[m_sockfd[s]] = s
  BY <1>2, <1>b DEF Closed
<1> QED
  BY <1>1, <1>2, <1>3, <1>4, <1>5, <1>6

\* ::close() of the number.
LEMMA SocketShut ==
  ASSUME SocketTypes, SocketsApart, NEW s \in Socks, NEW t \in Closers, CloseNumber(s, t)
  PROVE  SocketsApart' /\ SocketTypes'
<1> DEFINE f == m_sockfd[s]
<1>1. /\ closing[s][t] = "close" /\ ClosingGoes(s, t, "del")
      /\ kernel' = [g \in Fds |-> IF g = f THEN NoSock ELSE kernel[g]]
      /\ UNCHANGED <<m_datas, m_sockfd, m_isConnected, stage, connfd, busy, twoClosers, late>>
  BY DEF CloseNumber, ClosingGoes, Steps
<1>2. /\ stage[s] = "live" /\ f \in Fds /\ f # -1 /\ s \notin m_isConnected
      /\ closing' \in [Socks -> [Closers -> Steps]] /\ (\A d \in Socks : d # s => closing'[d] = closing[d])
      /\ \A u \in Closers : closing'[s][u] = (IF u = t THEN "del" ELSE "out") /\ (u # t => closing[s][u] = "out")
      /\ kernel[f] = s
  BY <1>1, ClosingStep
<1> HIDE DEF f
<1>3. SocketTypes'
  <2>1. kernel' \in [Fds -> Socks \cup {NoSock}]
    BY <1>1 DEF SocketTypes
  <2> QED
    BY <1>1, <1>2, <2>1 DEF SocketTypes
<1>4. \A d \in Socks : d # s => Apart(d)
  BY <1>1, <1>2 DEF Apart
<1>5. Opened(s)' /\ Accepted(s)'
  BY <1>1, <1>2 DEF Opened, Accepted
<1>6. Closed(s)'
  BY <1>1, <1>2 DEF Closed, f
<1>7. \A d \in Socks : Opened(d)' /\ Accepted(d)' /\ Closed(d)'
  BY <1>1, <1>4, <1>5, <1>6, ApartKept DEF SocketsApart
<1>8. Registered'
  <2> SUFFICES ASSUME NEW g \in Fds
               PROVE  /\ m_datas'[g] # "other"
                      /\ m_datas'[g] # "absent" => \/ kernel'[g] # NoSock
                                                   \/ \E d \in Socks, u \in Closers : m_sockfd'[d] = g /\ closing'[d][u] = "del"
    BY DEF Registered
  <2>1. CASE g = f
    BY <1>1, <1>2, <2>1 DEF SocketsApart, Registered, f
  <2>2. CASE g # f
    <3>1. \A d \in Socks, u \in Closers : closing[d][u] = "del" => closing'[d][u] = "del"
      BY <1>1, <1>2
    <3> QED
      BY <1>1, <2>2, <3>1 DEF SocketsApart, Registered
  <2> QED
    BY <2>1, <2>2
<1> QED
  BY <1>3, <1>7, <1>8 DEF SocketsApart

\* FdManager::del().
LEMMA SocketDel ==
  ASSUME SocketTypes, SocketsApart, NEW s \in Socks, NEW t \in Closers, del(s, t)
  PROVE  SocketsApart' /\ SocketTypes'
<1> DEFINE f == m_sockfd[s]
<1>1. /\ closing[s][t] = "del" /\ ClosingGoes(s, t, "reset")
      /\ m_datas' = [g \in Fds |-> IF g = f THEN "absent" ELSE m_datas[g]]
      /\ late' = late \cup {g \in Fds : g = f /\ kernel[g] # NoSock}
      /\ UNCHANGED <<kernel, m_sockfd, m_isConnected, stage, connfd, busy, twoClosers>>
  BY DEF del, ClosingGoes, Steps
<1>2. /\ stage[s] = "live" /\ f \in Fds /\ f # -1 /\ s \notin m_isConnected
      /\ closing' \in [Socks -> [Closers -> Steps]] /\ (\A d \in Socks : d # s => closing'[d] = closing[d])
      /\ \A u \in Closers : closing'[s][u] = (IF u = t THEN "reset" ELSE "out") /\ (u # t => closing[s][u] = "out")
  BY <1>1, ClosingStep
<1> HIDE DEF f
<1>3. SocketTypes'
  <2>1. m_datas' \in [Fds -> {"absent", "socket", "other"}] /\ late' \subseteq Fds
    BY <1>1 DEF SocketTypes
  <2> QED
    BY <1>1, <1>2, <2>1 DEF SocketTypes
<1>4. \A d \in Socks : d # s => Apart(d)
  BY <1>1, <1>2, NoneIsNoSocket DEF Apart
<1>5. Opened(s)' /\ Accepted(s)' /\ Closed(s)'
  BY <1>1, <1>2 DEF Opened, Accepted, Closed, f
<1>6. late \subseteq late'
  BY <1>1
<1>7. \A d \in Socks : Opened(d)' /\ Accepted(d)' /\ Closed(d)'
  BY <1>4, <1>5, <1>6, ApartKept DEF SocketsApart
<1>8. Registered'
  <2> SUFFICES ASSUME NEW g \in Fds
               PROVE  /\ m_datas'[g] # "other"
                      /\ m_datas'[g] # "absent" => \/ kernel'[g] # NoSock
                                                   \/ \E d \in Socks, u \in Closers : m_sockfd'[d] = g /\ closing'[d][u] = "del"
    BY DEF Registered
  <2>1. CASE g = f
    BY <1>1, <2>1
  <2>2. CASE g # f
    <3>1. \A d \in Socks, u \in Closers : closing[d][u] = "del" /\ m_sockfd[d] = g => closing'[d][u] = "del" /\ m_sockfd'[d] = g
      BY <1>1, <1>2, <2>2 DEF f
    <3> QED
      BY <1>1, <2>2, <3>1 DEF SocketsApart, Registered
  <2> QED
    BY <2>1, <2>2
<1> QED
  BY <1>3, <1>7, <1>8 DEF SocketsApart

\* m_sockfd = -1.
LEMMA SocketForgets ==
  ASSUME SocketTypes, SocketsApart, NEW s \in Socks, NEW t \in Closers, ForgetNumber(s, t)
  PROVE  SocketsApart' /\ SocketTypes'
<1>1. /\ closing[s][t] = "reset" /\ ClosingGoes(s, t, "out")
      /\ m_sockfd' = [m_sockfd EXCEPT ![s] = -1]
      /\ UNCHANGED <<kernel, m_datas, m_isConnected, stage, connfd, busy, twoClosers, late>>
  BY DEF ForgetNumber, ClosingGoes, Steps
<1>2. /\ stage[s] = "live" /\ s \notin m_isConnected
      /\ closing' \in [Socks -> [Closers -> Steps]] /\ (\A d \in Socks : d # s => closing'[d] = closing[d])
      /\ \A u \in Closers : closing'[s][u] = "out" /\ (u # t => closing[s][u] = "out")
  BY <1>1, ClosingStep
<1>3. /\ m_sockfd' \in [Socks -> Number] /\ m_sockfd'[s] = -1
      /\ \A d \in Socks : d # s => m_sockfd'[d] = m_sockfd[d]
  BY <1>1 DEF SocketTypes, Number
<1>4. SocketTypes'
  BY <1>1, <1>2, <1>3 DEF SocketTypes
<1>5. \A d \in Socks : d # s => Apart(d)
  BY <1>1, <1>2, <1>3 DEF Apart
<1>6. Opened(s)' /\ Accepted(s)' /\ Closed(s)'
  BY <1>1, <1>2, <1>3 DEF Opened, Accepted, Closed
<1>7. \A u \in Closers : closing[s][u] # "del"
  BY <1>1, <1>2
<1> QED
  BY <1>1, <1>4, <1>5, <1>6, <1>7, SocketLocal

LEMMA SocketStep ==
  ASSUME SocketInv, SocketNext
  PROVE  SocketInv'
<1>1. twoClosers => twoClosers'
  <2>1. PICK s \in Socks :
          \/ bindSock(s) \/ connect(s) \/ (\E ok \in BOOLEAN : Connected(s, ok))
          \/ accept(s) \/ get(s) \/ _init(s)
          \/ send(s) \/ recv(s) \/ (\E way \in Ways : Transferred(s, way))
          \/ \E t \in Closers : close(s, t) \/ CloseNumber(s, t) \/ del(s, t) \/ ForgetNumber(s, t)
    BY DEF SocketNext
  <2> QED
    BY <2>1 DEF bindSock, connect, _newSocket, Connected, accept, get, _init, send, recv, Waits, Transferred,
                close, CloseNumber, del, ForgetNumber
<1>2. CASE twoClosers
  BY <1>1, <1>2 DEF SocketInv
<1>3. CASE SocketTypes /\ SocketsApart
  <2> SUFFICES ASSUME NEW s \in Socks,
                      \/ bindSock(s) \/ connect(s) \/ (\E ok \in BOOLEAN : Connected(s, ok))
                      \/ accept(s) \/ get(s) \/ _init(s)
                      \/ send(s) \/ recv(s) \/ (\E way \in Ways : Transferred(s, way))
                      \/ \E t \in Closers : close(s, t) \/ CloseNumber(s, t) \/ del(s, t) \/ ForgetNumber(s, t)
               PROVE  SocketInv'
    BY DEF SocketNext
  <2>1. CASE bindSock(s) \/ connect(s) \/ accept(s)
    BY <1>3, <2>1, SocketOpens DEF SocketInv
  <2>2. CASE (\E ok \in BOOLEAN : Connected(s, ok)) \/ get(s) \/ _init(s)
    BY <1>3, <2>2, SocketConnected, SocketGets, SocketTakes DEF SocketInv
  <2>3. CASE send(s) \/ recv(s) \/ (\E way \in Ways : Transferred(s, way))
    <3>1. PICK way \in Ways : Waits(s, way) \/ Transferred(s, way)
      BY <2>3 DEF send, recv, Ways
    <3> QED
      BY <1>3, <3>1, SocketTransfers DEF SocketInv
  <2>4. ASSUME NEW t \in Closers, close(s, t) PROVE SocketInv'
    BY <1>3, <2>4, SocketCloses DEF SocketInv
  <2>5. ASSUME NEW t \in Closers, CloseNumber(s, t) \/ del(s, t) \/ ForgetNumber(s, t) PROVE SocketInv'
    BY <1>3, <2>5, SocketShut, SocketDel, SocketForgets DEF SocketInv
  <2> QED
    BY <2>1, <2>2, <2>3, <2>4, <2>5
<1> QED
  BY <1>2, <1>3 DEF SocketInv

LEMMA SocketStart == Init => SocketInv
<1> SUFFICES ASSUME Init PROVE SocketTypes /\ SocketsApart
  BY DEF SocketInv
<1>1. SocketTypes
  <2>1. kernel \in [Fds -> Socks \cup {NoSock}] /\ m_datas \in [Fds -> {"absent", "socket", "other"}]
    BY DEF Init, SocketInit
  <2>2. m_sockfd \in [Socks -> Number] /\ connfd \in [Socks -> Number] /\ m_isConnected \subseteq Socks
    BY DEF Init, SocketInit, Number
  <2>3. stage \in [Socks -> Stages] /\ closing \in [Socks -> [Closers -> Steps]]
    BY DEF Init, SocketInit, Stages, Steps
  <2>4. busy \in [Socks -> [Ways -> Number]] /\ twoClosers \in BOOLEAN /\ late \subseteq Fds
    BY DEF Init, SocketInit, Number
  <2> QED
    BY <2>1, <2>2, <2>3, <2>4 DEF SocketTypes
<1>2. \A s \in Socks : /\ stage[s] = "new" /\ m_sockfd[s] = -1 /\ s \notin m_isConnected
                       /\ \A t \in Closers : closing[s][t] = "out"
                       /\ \A way \in Ways : busy[s][way] = -1
  BY DEF Init, SocketInit
<1>3. \A s \in Socks : Opened(s) /\ Accepted(s) /\ Closed(s)
  BY <1>2 DEF Opened, Accepted, Closed
<1>4. Registered
  BY DEF Registered, Init, SocketInit
<1> QED
  BY <1>1, <1>3, <1>4 DEF SocketsApart

LEMMA SocketExact ==
  ASSUME SocketInv
  PROVE  SocketsOwnDescriptors
<1> SUFFICES ASSUME SocketTypes, SocketsApart
             PROVE  /\ \A s \in Socks : m_sockfd[s] # -1 /\ (\A t \in Closers : closing[s][t] \in {"out", "close"})
                                          => kernel[m_sockfd[s]] = s
                    /\ \A s \in m_isConnected, way \in Ways : busy[s][way] # -1 => kernel[busy[s][way]] = s
                    /\ \A f \in Fds : m_datas[f] # "absent" => kernel[f] # NoSock \/ \E s \in Socks : m_sockfd[s] = f
                    /\ \A s \in Socks : stage[s] = "lost" => connfd[s] \in late
  BY DEF SocketInv, SocketsOwnDescriptors
<1>1. \A s \in Socks : Opened(s) /\ Accepted(s) /\ Closed(s)
  BY DEF SocketsApart
<1>2. \A s \in m_isConnected, way \in Ways : busy[s][way] # -1 => kernel[busy[s][way]] = s
  <2> SUFFICES ASSUME NEW s \in m_isConnected, NEW way \in Ways, busy[s][way] # -1 PROVE kernel[busy[s][way]] = s
    OBVIOUS
  <2>1. s \in Socks
    BY DEF SocketTypes
  <2>2. busy[s][way] = m_sockfd[s] /\ m_sockfd[s] # -1 /\ \A t \in Closers : closing[s][t] = "out"
    BY <1>1, <2>1 DEF Closed
  <2> QED
    BY <1>1, <2>1, <2>2 DEF Closed
<1>3. \A f \in Fds : m_datas[f] # "absent" => kernel[f] # NoSock \/ \E s \in Socks : m_sockfd[s] = f
  BY DEF SocketsApart, Registered
<1> QED
  BY <1>1, <1>2, <1>3 DEF Closed, Accepted

-----------------------------------------------------------------------------
(* The connections of the HTTP client. *)

Using    == {"send", "recv", "release", "push"}
ConnType == [live : BOOLEAN, connected : BOOLEAN, size : Nat, open : BOOLEAN, owed : Seq(Nat), arrived : Seq(Nat),
             behind : BOOLEAN, pooled : BOOLEAN]
ReqType  == [pc : Using \cup {"idle", "connect", "count", "done"}, conn : SUBSET Conns, id : Nat, got : Nat]

PoolTypes ==
  /\ pool \in Seq(Conns) /\ conn \in [Conns -> ConnType] /\ req \in [Requesters -> ReqType]
  /\ requests \in Nat /\ total \in Int

Holds(r, k) == req[r].pc \in Using /\ req[r].conn = {k}
InPool   == {pool[i] : i \in DOMAIN pool}
Pooled   == {k \in Conns : conn[k].live /\ conn[k].pooled}
Counting == {r \in Requesters : req[r].pc = "count"}

\* A connection that lives is in the pool or with one requester, and what is in the pool
\* is still connected.
HoldersInv ==
  /\ \A r \in Requesters :
       /\ req[r].pc \in Using => \E k \in Conns : req[r].conn = {k} /\ conn[k].live
       /\ req[r].pc \in {"idle", "connect", "done"} => req[r].conn = {}
  /\ \A r, u \in Requesters, k \in Conns : Holds(r, k) /\ Holds(u, k) => r = u
  /\ \A r \in Requesters, k \in Conns : Holds(r, k) => k \notin InPool
  /\ \A r \in Requesters, k \in Conns : Holds(r, k) /\ req[r].pc = "push" => conn[k].connected /\ conn[k].pooled
  /\ \A k \in Conns : conn[k].live => k \in InPool \/ \E r \in Requesters : Holds(r, k)
  /\ \A k \in InPool : conn[k].live /\ conn[k].connected /\ conn[k].pooled
SizesInv ==
  /\ Len(pool) <= m_maxSize /\ \A i, j \in DOMAIN pool : pool[i] = pool[j] => i = j
  /\ total = Cardinality(Pooled) + Cardinality(Counting)

PoolInv == PoolTypes /\ HoldersInv /\ SizesInv

\* Requester r goes on as q, connection k as c.
ReqGoes(r, q) ==
  /\ q \in ReqType /\ req' \in [Requesters -> ReqType]
  /\ req'[r] = q /\ \A u \in Requesters : u # r => req'[u] = req[u]
ConnGoes(k, c) ==
  /\ c \in ConnType /\ conn' \in [Conns -> ConnType]
  /\ conn'[k] = c /\ \A h \in Conns : h # k => conn'[h] = conn[h]

LEMMA ReqStep ==
  ASSUME PoolTypes, NEW r \in Requesters, NEW q \in ReqType, req' = [req EXCEPT ![r] = q]
  PROVE  ReqGoes(r, q)
BY DEF PoolTypes, ReqGoes

LEMMA ConnStep ==
  ASSUME PoolTypes, NEW k \in Conns, NEW c \in ConnType, conn' = [conn EXCEPT ![k] = c]
  PROVE  ConnGoes(k, c)
BY DEF PoolTypes, ConnGoes

LEMMA ConnSame ==
  ASSUME PoolTypes, NEW k \in Conns, conn' = conn
  PROVE  ConnGoes(k, conn[k])
BY DEF PoolTypes, ConnGoes

LEMMA ReqSame ==
  ASSUME PoolTypes, NEW r \in Requesters, req' = req
  PROVE  ReqGoes(r, req[r])
BY DEF PoolTypes, ReqGoes

LEMMA PoolSizes ==
  /\ IsFiniteSet(Pooled) /\ IsFiniteSet(Counting) /\ Cardinality(Pooled) \in Nat /\ Cardinality(Counting) \in Nat
<1>1. Pooled \subseteq Conns /\ Counting \subseteq Requesters
  BY DEF Pooled, Counting
<1> QED
  BY <1>1, FS_Subset, FS_CardinalityType, PoolAssumption

LEMMA InPoolIsConn ==
  ASSUME PoolTypes
  PROVE  InPool \subseteq Conns
<1>1. \A i \in DOMAIN pool : pool[i] \in Conns
  BY DEF PoolTypes
<1> QED
  BY <1>1 DEF InPool

\* The holder goes on with its connection.
LEMMA HolderGoesOn ==
  ASSUME PoolInv, NEW r \in Requesters, NEW k \in Conns, Holds(r, k), NEW q, NEW c, ReqGoes(r, q), ConnGoes(k, c),
         q.pc \in Using, q.conn = {k}, c.live, c.pooled = conn[k].pooled, q.pc = "push" => c.connected /\ c.pooled,
         pool' = pool, total' = total, requests' = requests
  PROVE  PoolInv'
<1>1. PoolTypes'
  BY DEF PoolInv, PoolTypes, ReqGoes, ConnGoes
<1>2. \A u \in Requesters, h \in Conns : Holds(u, h)' <=> Holds(u, h)
  <2> TAKE u \in Requesters, h \in Conns
  <2>1. CASE u = r
    BY <2>1 DEF Holds, ReqGoes
  <2>2. CASE u # r
    BY <2>2 DEF Holds, ReqGoes
  <2> QED
    BY <2>1, <2>2
<1>3. InPool' = InPool /\ k \notin InPool /\ conn[k].live
  <2>1. InPool' = InPool
    BY DEF InPool
  <2>2. k \notin InPool
    BY DEF PoolInv, HoldersInv
  <2>3. conn[k].live
    BY DEF PoolInv, HoldersInv, Holds
  <2> QED
    BY <2>1, <2>2, <2>3
<1>4. \A h \in Conns : h # k => conn'[h] = conn[h]
  BY DEF ConnGoes
<1>5. conn'[k] = c /\ conn'[k].live
  BY DEF ConnGoes
<1>6. Pooled' = Pooled
  BY <1>3, <1>4, <1>5 DEF Pooled
<1>7. Counting' = Counting
  BY DEF Counting, ReqGoes, Using, Holds
<1>8. HoldersInv'
  <2>1. \A u \in Requesters :
          /\ req'[u].pc \in Using => \E h \in Conns : req'[u].conn = {h} /\ conn'[h].live
          /\ req'[u].pc \in {"idle", "connect", "done"} => req'[u].conn = {}
    <3> TAKE u \in Requesters
    <3>1. CASE u = r
      BY <1>5, <3>1 DEF ReqGoes, Using
    <3>2. CASE u # r
      <4>1. req'[u] = req[u]
        BY <3>2 DEF ReqGoes
      <4> QED
        BY <1>4, <1>5, <4>1 DEF PoolInv, HoldersInv
    <3> QED
      BY <3>1, <3>2
  <2>2. \A u \in Requesters, h \in Conns : Holds(u, h)' /\ req'[u].pc = "push" => conn'[h].connected /\ conn'[h].pooled
    <3> TAKE u \in Requesters, h \in Conns
    <3>1. CASE u = r
      BY <1>5, <3>1 DEF Holds, ReqGoes
    <3>2. CASE u # r
      <4>1. req'[u] = req[u] /\ (Holds(u, h) => h # k)
        BY <3>2 DEF ReqGoes, PoolInv, HoldersInv
      <4> QED
        BY <1>2, <1>4, <4>1 DEF PoolInv, HoldersInv
    <3> QED
      BY <3>1, <3>2
  <2>3. \A h \in Conns : conn'[h].live => h \in InPool' \/ \E u \in Requesters : Holds(u, h)'
    BY <1>2, <1>3, <1>4 DEF PoolInv, HoldersInv
  <2>4. \A h \in InPool' : conn'[h].live /\ conn'[h].connected /\ conn'[h].pooled
    BY <1>3, <1>4, InPoolIsConn DEF PoolInv, HoldersInv
  <2>5. \A u, v \in Requesters, h \in Conns : Holds(u, h)' /\ Holds(v, h)' => u = v
    BY <1>2 DEF PoolInv, HoldersInv
  <2>6. \A u \in Requesters, h \in Conns : Holds(u, h)' => h \notin InPool'
    BY <1>2, <1>3 DEF PoolInv, HoldersInv
  <2> QED
    BY <2>1, <2>2, <2>3, <2>4, <2>5, <2>6 DEF HoldersInv
<1>9. SizesInv'
  BY <1>6, <1>7 DEF PoolInv, SizesInv
<1> QED
  BY <1>1, <1>8, <1>9 DEF PoolInv

\* The connection is deleted, and counted later if it is one of the pool's.
LEMMA HolderDeletes ==
  ASSUME PoolInv, NEW r \in Requesters, NEW k \in Conns, Holds(r, k), NEW q, ReqGoes(r, q), ConnGoes(k, NoConn),
         \/ q.pc = "done" /\ q.conn = {} /\ ~conn[k].pooled
         \/ q.pc = "count" /\ conn[k].pooled,
         pool' = pool, total' = total, requests' = requests
  PROVE  PoolInv'
<1>1. PoolTypes'
  BY DEF PoolInv, PoolTypes, ReqGoes, ConnGoes
<1>2. \A u \in Requesters, h \in Conns : Holds(u, h)' <=> u # r /\ Holds(u, h)
  <2> TAKE u \in Requesters, h \in Conns
  <2>1. CASE u = r
    BY <2>1 DEF Holds, ReqGoes, Using
  <2>2. CASE u # r
    BY <2>2 DEF Holds, ReqGoes
  <2> QED
    BY <2>1, <2>2
<1>3. InPool' = InPool /\ k \notin InPool /\ conn[k].live
  <2>1. InPool' = InPool
    BY DEF InPool
  <2>2. k \notin InPool
    BY DEF PoolInv, HoldersInv
  <2>3. conn[k].live
    BY DEF PoolInv, HoldersInv, Holds
  <2> QED
    BY <2>1, <2>2, <2>3
<1>4. (\A h \in Conns : h # k => conn'[h] = conn[h]) /\ ~conn'[k].live
  BY DEF ConnGoes, NoConn
<1>5. \A u \in Requesters : u # r => ~Holds(u, k) /\ req'[u] = req[u]
  BY DEF PoolInv, HoldersInv, ReqGoes
<1>6. Pooled' = Pooled \ {k} /\ (k \in Pooled <=> conn[k].pooled)
  BY <1>3, <1>4 DEF Pooled
<1>7. r \notin Counting /\ Counting' = IF q.pc = "count" THEN Counting \cup {r} ELSE Counting
  <2>1. r \notin Counting /\ req'[r] = q
    BY DEF Counting, Holds, Using, ReqGoes
  <2> QED
    BY <1>5, <2>1 DEF Counting
<1>8. HoldersInv'
  <2>1. \A u \in Requesters :
          /\ req'[u].pc \in Using => \E h \in Conns : req'[u].conn = {h} /\ conn'[h].live
          /\ req'[u].pc \in {"idle", "connect", "done"} => req'[u].conn = {}
    <3> TAKE u \in Requesters
    <3>1. CASE u = r
      BY <3>1 DEF ReqGoes, Using
    <3>2. CASE u # r
      <4>1. req'[u] = req[u] /\ ~Holds(u, k)
        BY <1>5, <3>2
      <4> QED
        BY <1>4, <4>1 DEF PoolInv, HoldersInv, Holds
    <3> QED
      BY <3>1, <3>2
  <2>2. \A u \in Requesters, h \in Conns : Holds(u, h)' /\ req'[u].pc = "push" => conn'[h].connected /\ conn'[h].pooled
    BY <1>2, <1>4, <1>5 DEF PoolInv, HoldersInv
  <2>3. \A h \in Conns : conn'[h].live => h \in InPool' \/ \E u \in Requesters : Holds(u, h)'
    <3> SUFFICES ASSUME NEW h \in Conns, conn'[h].live, h \notin InPool PROVE \E u \in Requesters : Holds(u, h)'
      BY <1>3
    <3>1. h # k /\ conn[h].live
      BY <1>4
    <3>2. PICK u \in Requesters : Holds(u, h)
      BY <3>1 DEF PoolInv, HoldersInv
    <3>3. u # r
      BY <3>1, <3>2 DEF Holds
    <3> QED
      BY <1>2, <3>2, <3>3
  <2>4. \A h \in InPool' : conn'[h].live /\ conn'[h].connected /\ conn'[h].pooled
    BY <1>3, <1>4, InPoolIsConn DEF PoolInv, HoldersInv
  <2>5. \A u, v \in Requesters, h \in Conns : Holds(u, h)' /\ Holds(v, h)' => u = v
    BY <1>2 DEF PoolInv, HoldersInv
  <2>6. \A u \in Requesters, h \in Conns : Holds(u, h)' => h \notin InPool'
    BY <1>2, <1>3 DEF PoolInv, HoldersInv
  <2> QED
    BY <2>1, <2>2, <2>3, <2>4, <2>5, <2>6 DEF HoldersInv
<1>9. SizesInv'
  <2>1. CASE conn[k].pooled
    <3>1. Cardinality(Pooled') = Cardinality(Pooled) - 1
      BY <1>6, <2>1, FS_RemoveElement, PoolSizes
    <3>2. Cardinality(Counting') = Cardinality(Counting) + 1
      BY <1>7, <2>1, FS_AddElement, PoolSizes
    <3> QED
      BY <3>1, <3>2, PoolSizes DEF PoolInv, SizesInv
  <2>2. CASE ~conn[k].pooled
    <3>1. Pooled' = Pooled /\ Counting' = Counting
      BY <1>6, <1>7, <2>2
    <3> QED
      BY <3>1 DEF PoolInv, SizesInv
  <2> QED
    BY <2>1, <2>2
<1> QED
  BY <1>1, <1>8, <1>9 DEF PoolInv

\* A connection is made.
LEMMA HolderMakes ==
  ASSUME PoolInv, NEW r \in Requesters, NEW k \in Conns, ~conn[k].live, req[r].pc \in {"idle", "connect"},
         NEW q, NEW c, ReqGoes(r, q), ConnGoes(k, c), q.pc = "send", q.conn = {k}, c.live,
         pool' = pool, total' = total + (IF c.pooled THEN 1 ELSE 0), requests' \in Nat
  PROVE  PoolInv'
<1>1. PoolTypes'
  BY DEF PoolInv, PoolTypes, ReqGoes, ConnGoes
<1>2. \A u \in Requesters, h \in Conns : Holds(u, h)' <=> IF u = r THEN h = k ELSE Holds(u, h)
  <2> TAKE u \in Requesters, h \in Conns
  <2>1. CASE u = r
    BY <2>1 DEF Holds, ReqGoes, Using
  <2>2. CASE u # r
    BY <2>2 DEF Holds, ReqGoes
  <2> QED
    BY <2>1, <2>2
<1>3. InPool' = InPool /\ k \notin InPool
  BY DEF InPool, PoolInv, HoldersInv
<1>4. (\A h \in Conns : h # k => conn'[h] = conn[h]) /\ conn'[k] = c
  BY DEF ConnGoes
<1>5. \A u \in Requesters : ~Holds(u, k) /\ (u # r => req'[u] = req[u])
  BY DEF PoolInv, HoldersInv, ReqGoes, Holds
<1>6. k \notin Pooled /\ Pooled' = IF c.pooled THEN Pooled \cup {k} ELSE Pooled
  BY <1>4 DEF Pooled
<1>7. Counting' = Counting
  <2>1. req'[r] = q /\ r \notin Counting
    BY DEF ReqGoes, Counting
  <2> QED
    BY <1>5, <2>1 DEF Counting
<1>8. HoldersInv'
  <2>1. \A u \in Requesters :
          /\ req'[u].pc \in Using => \E h \in Conns : req'[u].conn = {h} /\ conn'[h].live
          /\ req'[u].pc \in {"idle", "connect", "done"} => req'[u].conn = {}
    <3> TAKE u \in Requesters
    <3>1. CASE u = r
      BY <1>4, <3>1 DEF ReqGoes, Using
    <3>2. CASE u # r
      <4>1. req'[u] = req[u] /\ ~Holds(u, k)
        BY <1>5, <3>2
      <4> QED
        BY <1>4, <4>1 DEF PoolInv, HoldersInv, Holds
    <3> QED
      BY <3>1, <3>2
  <2>2. \A u \in Requesters, h \in Conns : Holds(u, h)' /\ req'[u].pc = "push" => conn'[h].connected /\ conn'[h].pooled
    <3> TAKE u \in Requesters, h \in Conns
    <3>1. CASE u = r
      BY <3>1 DEF ReqGoes
    <3>2. CASE u # r
      BY <1>2, <1>4, <1>5, <3>2 DEF PoolInv, HoldersInv
    <3> QED
      BY <3>1, <3>2
  <2>3. \A h \in Conns : conn'[h].live => h \in InPool' \/ \E u \in Requesters : Holds(u, h)'
    <3> SUFFICES ASSUME NEW h \in Conns, conn'[h].live, h \notin InPool PROVE \E u \in Requesters : Holds(u, h)'
      BY <1>3
    <3>1. CASE h = k
      BY <1>2, <3>1
    <3>2. CASE h # k
      <4>1. PICK u \in Requesters : Holds(u, h)
        BY <1>4, <3>2 DEF PoolInv, HoldersInv
      <4>2. u # r
        BY <4>1 DEF Holds, Using
      <4> QED
        BY <1>2, <4>1, <4>2
    <3> QED
      BY <3>1, <3>2
  <2>4. \A h \in InPool' : conn'[h].live /\ conn'[h].connected /\ conn'[h].pooled
    BY <1>3, <1>4, InPoolIsConn DEF PoolInv, HoldersInv
  <2>5. \A u, v \in Requesters, h \in Conns : Holds(u, h)' /\ Holds(v, h)' => u = v
    BY <1>2, <1>5 DEF PoolInv, HoldersInv
  <2>6. \A u \in Requesters, h \in Conns : Holds(u, h)' => h \notin InPool'
    BY <1>2, <1>3 DEF PoolInv, HoldersInv
  <2> QED
    BY <2>1, <2>2, <2>3, <2>4, <2>5, <2>6 DEF HoldersInv
<1>9. SizesInv'
  <2>1. CASE c.pooled
    <3>1. Cardinality(Pooled') = Cardinality(Pooled) + 1
      BY <1>6, <2>1, FS_AddElement, PoolSizes
    <3> QED
      BY <1>7, <2>1, <3>1, PoolSizes DEF PoolInv, SizesInv
  <2>2. CASE ~c.pooled
    <3>1. Pooled' = Pooled
      BY <1>6, <2>2
    <3> QED
      BY <1>7, <2>2, <3>1, PoolSizes DEF PoolInv, SizesInv
  <2> QED
    BY <2>1, <2>2
<1> QED
  BY <1>1, <1>8, <1>9 DEF PoolInv

\* A requester that has no connection goes on without one.
LEMMA OtherGoesOn ==
  ASSUME PoolInv, NEW r \in Requesters, req[r].pc \notin Using, NEW q, ReqGoes(r, q),
         q.pc \in {"idle", "connect", "done"}, q.conn = {}, conn' = conn, pool' = pool,
         total' = total - (IF req[r].pc = "count" THEN 1 ELSE 0), requests' \in Nat
  PROVE  PoolInv'
<1>1. PoolTypes'
  BY DEF PoolInv, PoolTypes, ReqGoes
<1>2. \A u \in Requesters, h \in Conns : Holds(u, h)' <=> Holds(u, h)
  <2> TAKE u \in Requesters, h \in Conns
  <2>1. CASE u = r
    BY <2>1 DEF Holds, ReqGoes, Using
  <2>2. CASE u # r
    BY <2>2 DEF Holds, ReqGoes
  <2> QED
    BY <2>1, <2>2
<1>3. InPool' = InPool /\ Pooled' = Pooled
  BY DEF InPool, Pooled
<1>4. req'[r] = q /\ \A u \in Requesters : u # r => req'[u] = req[u]
  BY DEF ReqGoes
<1>5. Counting' = Counting \ {r} /\ (r \in Counting <=> req[r].pc = "count")
  BY <1>4 DEF Counting
<1>6. HoldersInv'
  <2>1. \A u \in Requesters :
          /\ req'[u].pc \in Using => \E h \in Conns : req'[u].conn = {h} /\ conn'[h].live
          /\ req'[u].pc \in {"idle", "connect", "done"} => req'[u].conn = {}
    <3> TAKE u \in Requesters
    <3>1. CASE u = r
      BY <1>4, <3>1 DEF Using
    <3>2. CASE u # r
      BY <1>4, <3>2 DEF PoolInv, HoldersInv
    <3> QED
      BY <3>1, <3>2
  <2>2. \A u \in Requesters, h \in Conns : Holds(u, h)' /\ req'[u].pc = "push" => conn'[h].connected /\ conn'[h].pooled
    <3> TAKE u \in Requesters, h \in Conns
    <3>1. CASE u = r
      BY <1>4, <3>1
    <3>2. CASE u # r
      BY <1>2, <1>4, <3>2 DEF PoolInv, HoldersInv
    <3> QED
      BY <3>1, <3>2
  <2>3. \A h \in Conns : conn'[h].live => h \in InPool' \/ \E u \in Requesters : Holds(u, h)'
    BY <1>2, <1>3 DEF PoolInv, HoldersInv
  <2>4. \A h \in InPool' : conn'[h].live /\ conn'[h].connected /\ conn'[h].pooled
    BY <1>3 DEF PoolInv, HoldersInv
  <2>5. \A u, v \in Requesters, h \in Conns : Holds(u, h)' /\ Holds(v, h)' => u = v
    BY <1>2 DEF PoolInv, HoldersInv
  <2>6. \A u \in Requesters, h \in Conns : Holds(u, h)' => h \notin InPool'
    BY <1>2, <1>3 DEF PoolInv, HoldersInv
  <2> QED
    BY <2>1, <2>2, <2>3, <2>4, <2>5, <2>6 DEF HoldersInv
<1>7. SizesInv'
  <2>1. CASE req[r].pc = "count"
    <3>1. Cardinality(Counting') = Cardinality(Counting) - 1
      BY <1>5, <2>1, FS_RemoveElement, PoolSizes
    <3> QED
      BY <1>3, <2>1, <3>1, PoolSizes DEF PoolInv, SizesInv
  <2>2. CASE req[r].pc # "count"
    <3>1. Counting' = Counting
      BY <1>5, <2>2
    <3> QED
      BY <1>3, <2>2, <3>1, PoolSizes DEF PoolInv, SizesInv
  <2> QED
    BY <2>1, <2>2
<1> QED
  BY <1>1, <1>6, <1>7 DEF PoolInv

\* The front of the pool is taken.
LEMMA HolderTakes ==
  ASSUME PoolInv, pool # <<>>, NEW r \in Requesters, req[r].pc = "idle", NEW q, ReqGoes(r, q),
         q.pc = "send", q.conn = {pool[1]}, conn' = conn, pool' = Tail(pool), total' = total, requests' \in Nat
  PROVE  PoolInv'
<1> DEFINE k == pool[1]
<1>1. pool \in Seq(Conns) /\ Len(pool) \in Nat /\ Len(pool) > 0 /\ DOMAIN pool = 1 .. Len(pool) /\ k \in Conns /\ k \in InPool
  BY DEF PoolInv, PoolTypes, InPool
<1>2. /\ pool' \in Seq(Conns) /\ Len(pool') = Len(pool) - 1 /\ DOMAIN pool' = 1 .. (Len(pool) - 1)
      /\ \A i \in 1 .. (Len(pool) - 1) : pool'[i] = pool[i + 1]
  BY <1>1
<1>3. InPool' = InPool \ {k}
  <2>1. \A x \in InPool' : x \in InPool \ {k}
    <3> TAKE x \in InPool'
    <3>1. PICK i \in DOMAIN pool' : x = pool'[i]
      BY DEF InPool
    <3>2. i + 1 \in DOMAIN pool /\ x = pool[i + 1] /\ 1 \in DOMAIN pool /\ i + 1 # 1
      BY <1>1, <1>2, <3>1
    <3>3. pool[i + 1] # pool[1]
      BY <3>2 DEF PoolInv, SizesInv
    <3> QED
      BY <3>2, <3>3 DEF InPool
  <2>2. \A x \in InPool \ {k} : x \in InPool'
    <3> TAKE x \in InPool \ {k}
    <3>1. PICK i \in DOMAIN pool : x = pool[i]
      BY DEF InPool
    <3>2. i - 1 \in DOMAIN pool' /\ x = pool'[i - 1]
      BY <1>1, <1>2, <3>1
    <3> QED
      BY <3>2 DEF InPool
  <2> QED
    BY <2>1, <2>2
<1>4. Len(pool') <= m_maxSize /\ \A i, j \in DOMAIN pool' : pool'[i] = pool'[j] => i = j
  BY <1>1, <1>2, PoolAssumption DEF PoolInv, SizesInv
<1>5. conn[k].live /\ conn[k].connected /\ conn[k].pooled /\ \A u \in Requesters : ~Holds(u, k)
  BY <1>1 DEF PoolInv, HoldersInv
<1> HIDE DEF k
<1>6. PoolTypes'
  BY <1>2 DEF PoolInv, PoolTypes, ReqGoes
<1>7. \A u \in Requesters, h \in Conns : Holds(u, h)' <=> IF u = r THEN h = k ELSE Holds(u, h)
  <2> TAKE u \in Requesters, h \in Conns
  <2>1. CASE u = r
    BY <2>1 DEF Holds, ReqGoes, Using, k
  <2>2. CASE u # r
    BY <2>2 DEF Holds, ReqGoes
  <2> QED
    BY <2>1, <2>2
<1>8. req'[r] = q /\ (\A u \in Requesters : u # r => req'[u] = req[u]) /\ \A h \in Conns : ~Holds(r, h)
  BY DEF ReqGoes, Holds, Using
<1>9. Counting' = Counting /\ Pooled' = Pooled
  BY <1>8 DEF Counting, Pooled
<1>10. HoldersInv'
  <2>1. \A u \in Requesters :
          /\ req'[u].pc \in Using => \E h \in Conns : req'[u].conn = {h} /\ conn'[h].live
          /\ req'[u].pc \in {"idle", "connect", "done"} => req'[u].conn = {}
    <3> TAKE u \in Requesters
    <3>1. CASE u = r
      BY <1>1, <1>5, <1>8, <3>1 DEF Using, k
    <3>2. CASE u # r
      BY <1>8, <3>2 DEF PoolInv, HoldersInv
    <3> QED
      BY <3>1, <3>2
  <2>2. \A u \in Requesters, h \in Conns : Holds(u, h)' /\ req'[u].pc = "push" => conn'[h].connected /\ conn'[h].pooled
    <3> TAKE u \in Requesters, h \in Conns
    <3>1. CASE u = r
      BY <1>8, <3>1
    <3>2. CASE u # r
      BY <1>7, <1>8, <3>2 DEF PoolInv, HoldersInv
    <3> QED
      BY <3>1, <3>2
  <2>3. \A h \in Conns : conn'[h].live => h \in InPool' \/ \E u \in Requesters : Holds(u, h)'
    <3> SUFFICES ASSUME NEW h \in Conns, conn[h].live, h \notin InPool' PROVE \E u \in Requesters : Holds(u, h)'
      OBVIOUS
    <3>1. CASE h = k
      BY <1>7, <3>1
    <3>2. CASE h # k
      <4>1. PICK u \in Requesters : Holds(u, h)
        BY <1>3, <3>2 DEF PoolInv, HoldersInv
      <4>2. u # r
        BY <1>8, <4>1
      <4> QED
        BY <1>7, <4>1, <4>2
    <3> QED
      BY <3>1, <3>2
  <2>4. \A h \in InPool' : conn'[h].live /\ conn'[h].connected /\ conn'[h].pooled
    BY <1>3 DEF PoolInv, HoldersInv
  <2>5. \A u, v \in Requesters, h \in Conns : Holds(u, h)' /\ Holds(v, h)' => u = v
    BY <1>5, <1>7 DEF PoolInv, HoldersInv
  <2>6. \A u \in Requesters, h \in Conns : Holds(u, h)' => h \notin InPool'
    BY <1>3, <1>7 DEF PoolInv, HoldersInv
  <2> QED
    BY <2>1, <2>2, <2>3, <2>4, <2>5, <2>6 DEF HoldersInv
<1>11. SizesInv'
  BY <1>4, <1>9 DEF PoolInv, SizesInv
<1> QED
  BY <1>6, <1>10, <1>11 DEF PoolInv

\* A connection comes back to the pool.
LEMMA HolderGives ==
  ASSUME PoolInv, NEW r \in Requesters, NEW k \in Conns, Holds(r, k), req[r].pc = "push", NEW q, ReqGoes(r, q),
         q.pc = "done", q.conn = {}, conn' = conn, Len(pool) < m_maxSize, pool' = Append(pool, k),
         total' = total, requests' = requests
  PROVE  PoolInv'
<1>1. pool \in Seq(Conns) /\ Len(pool) \in Nat /\ DOMAIN pool = 1 .. Len(pool)
  BY DEF PoolInv, PoolTypes
<1>2. /\ pool' \in Seq(Conns) /\ Len(pool') = Len(pool) + 1 /\ DOMAIN pool' = 1 .. (Len(pool) + 1)
      /\ \A i \in 1 .. Len(pool) : pool'[i] = pool[i]
      /\ pool'[Len(pool) + 1] = k
  BY <1>1
<1>3. k \notin InPool /\ conn[k].live /\ conn[k].connected /\ conn[k].pooled
  <2>1. conn[k].live
    BY DEF PoolInv, HoldersInv, Holds
  <2> QED
    BY <2>1 DEF PoolInv, HoldersInv
<1>4. \A i \in DOMAIN pool : pool[i] # k
  BY <1>3 DEF InPool
<1>5. \A i, j \in DOMAIN pool' : pool'[i] = pool'[j] => i = j
  <2> TAKE i, j \in DOMAIN pool'
  <2>1. CASE i \in DOMAIN pool /\ j \in DOMAIN pool
    BY <1>1, <1>2, <2>1 DEF PoolInv, SizesInv
  <2>2. CASE i = Len(pool) + 1 \/ j = Len(pool) + 1
    BY <1>1, <1>2, <1>4, <2>2
  <2> QED
    BY <1>1, <1>2, <2>1, <2>2
<1>6. InPool' = InPool \cup {k}
  <2>1. \A x \in InPool' : x \in InPool \cup {k}
    <3> TAKE x \in InPool'
    <3>1. PICK i \in DOMAIN pool' : x = pool'[i]
      BY DEF InPool
    <3>2. CASE i = Len(pool) + 1
      BY <1>2, <3>1, <3>2
    <3>3. CASE i \in DOMAIN pool
      BY <1>1, <1>2, <3>1, <3>3 DEF InPool
    <3> QED
      BY <1>1, <1>2, <3>2, <3>3
  <2>2. \A x \in InPool \cup {k} : x \in InPool'
    <3> TAKE x \in InPool \cup {k}
    <3>1. CASE x = k
      <4>1. Len(pool) + 1 \in DOMAIN pool'
        BY <1>1, <1>2
      <4> QED
        BY <1>2, <3>1, <4>1 DEF InPool
    <3>2. CASE x \in InPool
      <4>1. PICK i \in DOMAIN pool : x = pool[i]
        BY <3>2 DEF InPool
      <4>2. i \in DOMAIN pool' /\ x = pool'[i]
        BY <1>1, <1>2, <4>1
      <4> QED
        BY <4>2 DEF InPool
    <3> QED
      BY <3>1, <3>2
  <2> QED
    BY <2>1, <2>2
<1>7. PoolTypes'
  BY <1>2 DEF PoolInv, PoolTypes, ReqGoes
<1>8. \A u \in Requesters, h \in Conns : Holds(u, h)' <=> u # r /\ Holds(u, h)
  <2> TAKE u \in Requesters, h \in Conns
  <2>1. CASE u = r
    BY <2>1 DEF Holds, ReqGoes, Using
  <2>2. CASE u # r
    BY <2>2 DEF Holds, ReqGoes
  <2> QED
    BY <2>1, <2>2
<1>9. req'[r] = q /\ \A u \in Requesters : u # r => req'[u] = req[u] /\ ~Holds(u, k)
  BY DEF ReqGoes, PoolInv, HoldersInv
<1>10. Counting' = Counting /\ Pooled' = Pooled
  BY <1>9 DEF Counting, Pooled
<1>11. HoldersInv'
  <2>1. \A u \in Requesters :
          /\ req'[u].pc \in Using => \E h \in Conns : req'[u].conn = {h} /\ conn'[h].live
          /\ req'[u].pc \in {"idle", "connect", "done"} => req'[u].conn = {}
    <3> TAKE u \in Requesters
    <3>1. CASE u = r
      BY <1>9, <3>1 DEF Using
    <3>2. CASE u # r
      BY <1>9, <3>2 DEF PoolInv, HoldersInv
    <3> QED
      BY <3>1, <3>2
  <2>2. \A u \in Requesters, h \in Conns : Holds(u, h)' /\ req'[u].pc = "push" => conn'[h].connected /\ conn'[h].pooled
    BY <1>8, <1>9 DEF PoolInv, HoldersInv
  <2>3. \A h \in Conns : conn'[h].live => h \in InPool' \/ \E u \in Requesters : Holds(u, h)'
    <3> SUFFICES ASSUME NEW h \in Conns, conn[h].live, h \notin InPool' PROVE \E u \in Requesters : Holds(u, h)'
      OBVIOUS
    <3>1. h # k /\ h \notin InPool
      BY <1>6
    <3>2. PICK u \in Requesters : Holds(u, h)
      BY <3>1 DEF PoolInv, HoldersInv
    <3>3. u # r
      BY <3>1, <3>2 DEF Holds
    <3> QED
      BY <1>8, <3>2, <3>3
  <2>4. \A h \in InPool' : conn'[h].live /\ conn'[h].connected /\ conn'[h].pooled
    BY <1>3, <1>6 DEF PoolInv, HoldersInv
  <2>5. \A u, v \in Requesters, h \in Conns : Holds(u, h)' /\ Holds(v, h)' => u = v
    BY <1>8 DEF PoolInv, HoldersInv
  <2>6. \A u \in Requesters, h \in Conns : Holds(u, h)' => h \notin InPool'
    BY <1>6, <1>8, <1>9 DEF PoolInv, HoldersInv
  <2> QED
    BY <2>1, <2>2, <2>3, <2>4, <2>5, <2>6 DEF HoldersInv
<1>12. SizesInv'
  BY <1>1, <1>2, <1>5, <1>10, PoolAssumption DEF PoolInv, SizesInv
<1> QED
  BY <1>7, <1>11, <1>12 DEF PoolInv

\* The peer changes what it does with a connection.
LEMMA PeerGoesOn ==
  ASSUME PoolInv, NEW k \in Conns, NEW c, ConnGoes(k, c), c.live = conn[k].live, c.pooled = conn[k].pooled,
         c.connected = conn[k].connected, req' = req, pool' = pool, total' = total, requests' = requests
  PROVE  PoolInv'
<1>1. PoolTypes'
  BY DEF PoolInv, PoolTypes, ConnGoes
<1>2. \A h \in Conns : conn'[h].live = conn[h].live /\ conn'[h].pooled = conn[h].pooled /\ conn'[h].connected = conn[h].connected
  BY DEF ConnGoes
<1>3. InPool' = InPool /\ Counting' = Counting /\ \A u \in Requesters, h \in Conns : Holds(u, h)' <=> Holds(u, h)
  BY DEF InPool, Counting, Holds
<1>4. Pooled' = Pooled
  BY <1>2 DEF Pooled
<1>5. HoldersInv'
  BY <1>2, <1>3, InPoolIsConn DEF PoolInv, HoldersInv
<1>6. SizesInv'
  BY <1>3, <1>4 DEF PoolInv, SizesInv
<1> QED
  BY <1>1, <1>5, <1>6 DEF PoolInv

\* Every number of s is at most n.
Bounded(s, n) == \A i \in DOMAIN s : s[i] <= n
Silent(c)     == c.owed = <<>> /\ c.arrived = <<>>

\* What a requester that has a connection knows of it: no request or response later than its own
\* is on the connection, nothing is on it but its own request while nobody gave up a response,
\* and the connection is one of the pool's when somebody did.
Mine(q, c) ==
  /\ Bounded(c.owed, q.id) /\ Bounded(c.arrived, q.id)
  /\ \/ c.behind
     \/ Silent(c)
     \/ q.pc = "recv" /\ c.owed = <<q.id>> /\ c.arrived = <<>>
     \/ q.pc = "recv" /\ c.owed = <<>> /\ c.arrived = <<q.id>>
  /\ q.pc \in {"send", "recv"} => q.got = 0 /\ (c.behind => c.pooled)
  /\ q.got \notin {0, q.id} => c.behind /\ c.pooled

Asked(q, n) == q.id <= n /\ (q.pc = "connect" => q.got = 0) /\ (q.got \notin {0, q.id} => q.got < q.id)
Quiet(c, n) == Bounded(c.owed, n) /\ Bounded(c.arrived, n)

ResponseInv ==
  /\ \A r \in Requesters : Asked(req[r], requests)
  /\ \A k \in Conns : Quiet(conn[k], requests)
  /\ \A k \in InPool : conn[k].behind \/ Silent(conn[k])
  /\ \A r \in Requesters, k \in Conns : Holds(r, k) => Mine(req[r], conn[k])

ClientInv == PoolInv /\ ResponseInv

OnlyFor(r, k) == \A u \in Requesters : u # r => ~Holds(u, k)

LEMMA BoundedMore ==
  ASSUME NEW s \in Seq(Nat), NEW m \in Nat, NEW n \in Nat, m <= n, Bounded(s, m)
  PROVE  Bounded(s, n)
<1>1. \A i \in DOMAIN s : s[i] \in Nat
  OBVIOUS
<1> QED
  BY <1>1 DEF Bounded

\* Requester r goes on with connection k.
LEMMA ResponseMoves ==
  ASSUME ClientInv, NEW r \in Requesters, NEW k \in Conns, OnlyFor(r, k), NEW q, NEW c, ReqGoes(r, q), ConnGoes(k, c),
         requests' \in Nat, requests <= requests', Asked(q, requests'), Quiet(c, requests'),
         q.pc \in Using => q.conn = {k} /\ Mine(q, c),
         InPool' \subseteq InPool \cup {k}, k \in InPool' => c.behind \/ Silent(c)
  PROVE  ResponseInv'
<1>1. req'[r] = q /\ (\A u \in Requesters : u # r => req'[u] = req[u])
  BY DEF ReqGoes
<1>2. conn'[k] = c /\ (\A h \in Conns : h # k => conn'[h] = conn[h])
  BY DEF ConnGoes
<1>3. \A u \in Requesters : Asked(req'[u], requests')
  <2> TAKE u \in Requesters
  <2>1. CASE u = r
    BY <1>1, <2>1
  <2>2. CASE u # r
    <3>1. req[u].id \in Nat /\ requests \in Nat
      BY DEF ClientInv, PoolInv, PoolTypes, ReqType
    <3> QED
      BY <1>1, <2>2, <3>1 DEF ClientInv, ResponseInv, Asked
  <2> QED
    BY <2>1, <2>2
<1>4. \A h \in Conns : Quiet(conn'[h], requests')
  <2> TAKE h \in Conns
  <2>1. CASE h = k
    BY <1>2, <2>1
  <2>2. CASE h # k
    <3>1. conn[h].owed \in Seq(Nat) /\ conn[h].arrived \in Seq(Nat) /\ requests \in Nat
      BY DEF ClientInv, PoolInv, PoolTypes, ConnType
    <3>2. Quiet(conn[h], requests)
      BY DEF ClientInv, ResponseInv
    <3> QED
      BY <1>2, <2>2, <3>1, <3>2, BoundedMore DEF Quiet
  <2> QED
    BY <2>1, <2>2
<1>5. \A h \in InPool' : conn'[h].behind \/ Silent(conn'[h])
  <2> TAKE h \in InPool'
  <2>1. CASE h = k
    BY <1>2, <2>1
  <2>2. CASE h # k
    <3>1. h \in InPool /\ h \in Conns
      BY <2>2, InPoolIsConn DEF ClientInv, PoolInv
    <3> QED
      BY <1>2, <2>2, <3>1 DEF ClientInv, ResponseInv
  <2> QED
    BY <2>1, <2>2
<1>6. \A u \in Requesters, h \in Conns : Holds(u, h)' => Mine(req'[u], conn'[h])
  <2> SUFFICES ASSUME NEW u \in Requesters, NEW h \in Conns, Holds(u, h)' PROVE Mine(req'[u], conn'[h])
    OBVIOUS
  <2>1. CASE u = r
    <3>1. q.pc \in Using /\ q.conn = {h}
      BY <1>1, <2>1 DEF Holds
    <3>2. h = k
      BY <3>1
    <3> QED
      BY <1>1, <1>2, <2>1, <3>1, <3>2
  <2>2. CASE u # r
    <3>1. Holds(u, h) /\ req'[u] = req[u]
      BY <1>1, <2>2 DEF Holds
    <3>2. h # k
      BY <2>2, <3>1 DEF OnlyFor
    <3> QED
      BY <1>2, <3>1, <3>2 DEF ClientInv, ResponseInv
  <2> QED
    BY <2>1, <2>2
<1> QED
  BY <1>3, <1>4, <1>5, <1>6 DEF ResponseInv

\* Requester r goes on without a connection.
LEMMA ResponseStays ==
  ASSUME ClientInv, NEW r \in Requesters, NEW q, ReqGoes(r, q), conn' = conn, requests' \in Nat, requests <= requests',
         Asked(q, requests'), q.pc \notin Using, pool' = pool
  PROVE  ResponseInv'
<1>1. req'[r] = q /\ (\A u \in Requesters : u # r => req'[u] = req[u])
  BY DEF ReqGoes
<1>2. InPool' = InPool
  BY DEF InPool
<1>3. \A u \in Requesters : Asked(req'[u], requests')
  <2> TAKE u \in Requesters
  <2>1. CASE u = r
    BY <1>1, <2>1
  <2>2. CASE u # r
    <3>1. req[u].id \in Nat /\ requests \in Nat
      BY DEF ClientInv, PoolInv, PoolTypes, ReqType
    <3> QED
      BY <1>1, <2>2, <3>1 DEF ClientInv, ResponseInv, Asked
  <2> QED
    BY <2>1, <2>2
<1>4. \A h \in Conns : Quiet(conn[h], requests')
  <2> TAKE h \in Conns
  <2>1. conn[h].owed \in Seq(Nat) /\ conn[h].arrived \in Seq(Nat) /\ requests \in Nat
    BY DEF ClientInv, PoolInv, PoolTypes, ConnType
  <2>2. Quiet(conn[h], requests)
    BY DEF ClientInv, ResponseInv
  <2> QED
    BY <2>1, <2>2, BoundedMore DEF Quiet
<1>5. \A u \in Requesters, h \in Conns : Holds(u, h)' => Mine(req'[u], conn[h])
  BY <1>1 DEF Holds, ClientInv, ResponseInv
<1> QED
  BY <1>2, <1>3, <1>4, <1>5 DEF ResponseInv, ClientInv

LEMMA HeldConn ==
  ASSUME PoolInv, NEW r \in Requesters, req[r].pc \in Using
  PROVE  /\ Held(r) \in Conns /\ Holds(r, Held(r)) /\ conn[Held(r)].live /\ OnlyFor(r, Held(r)) /\ Held(r) \notin InPool
         /\ req[r].conn = {Held(r)}
<1>1. PICK k \in Conns : req[r].conn = {k} /\ conn[k].live
  BY DEF PoolInv, HoldersInv
<1>2. Held(r) = k
  BY <1>1 DEF Held
<1>3. Holds(r, k)
  BY <1>1 DEF Holds
<1>4. OnlyFor(r, k) /\ k \notin InPool
  BY <1>3 DEF OnlyFor, PoolInv, HoldersInv
<1> QED
  BY <1>1, <1>2, <1>3, <1>4

\* The holder of a connection sends on it, fails to, reads from it or gives up.
LEMMA ClientSends ==
  ASSUME ClientInv, NEW r \in Requesters, sendRequest(r)
  PROVE  ClientInv'
<1> DEFINE k == Held(r)
           q == [req[r] EXCEPT !.pc = "recv"]
           o == IF conn[k].open THEN Append(conn[k].owed, req[r].id) ELSE conn[k].owed
           c == [conn[k] EXCEPT !.owed = o]
<1>1. req[r].pc = "send" /\ pool' = pool /\ total' = total /\ requests' = requests
  BY DEF sendRequest
<1>2. k \in Conns /\ Holds(r, k) /\ conn[k].live /\ OnlyFor(r, k) /\ k \notin InPool /\ req[r].conn = {k}
  BY <1>1, HeldConn DEF ClientInv, Using
<1>3. PoolTypes /\ conn[k] \in ConnType /\ req[r] \in ReqType /\ requests \in Nat
  BY <1>2 DEF ClientInv, PoolInv, PoolTypes
<1>4. req' = [req EXCEPT ![r] = q] /\ conn' = [conn EXCEPT ![k] = c]
  BY DEF sendRequest, Go
<1>5. q \in ReqType /\ q.pc = "recv" /\ q.conn = req[r].conn /\ q.id = req[r].id /\ q.got = req[r].got
  BY <1>3 DEF ReqType, Using
<1>6. req[r].id \in Nat /\ conn[k].owed \in Seq(Nat) /\ conn[k].arrived \in Seq(Nat)
  BY <1>3 DEF ReqType, ConnType
<1>7. /\ c \in ConnType /\ c.live = conn[k].live /\ c.pooled = conn[k].pooled /\ c.behind = conn[k].behind
      /\ c.arrived = conn[k].arrived /\ (c.owed = conn[k].owed \/ c.owed = Append(conn[k].owed, req[r].id))
  <2>1. o \in Seq(Nat) /\ (o = conn[k].owed \/ o = Append(conn[k].owed, req[r].id))
    BY <1>6
  <2> HIDE DEF o
  <2>2. c.owed = o
    BY <1>3 DEF ConnType
  <2> QED
    BY <1>3, <2>1, <2>2 DEF ConnType
<1> HIDE DEF k, q, c, o
<1>8. ReqGoes(r, q) /\ ConnGoes(k, c)
  BY <1>2, <1>3, <1>4, <1>5, <1>7, ReqStep, ConnStep
<1>9. Mine(req[r], conn[k]) /\ Asked(req[r], requests) /\ Quiet(conn[k], requests)
  BY <1>2 DEF ClientInv, ResponseInv
<1>10. Asked(q, requests)
  BY <1>5, <1>9 DEF Asked
<1>11. Quiet(c, requests) /\ Bounded(c.owed, q.id)
  <2>1. ASSUME NEW n \in Nat, Bounded(conn[k].owed, n), req[r].id <= n PROVE Bounded(c.owed, n)
    <3>1. CASE c.owed = conn[k].owed
      BY <2>1, <3>1
    <3>2. CASE c.owed = Append(conn[k].owed, req[r].id)
      <4> DEFINE s == conn[k].owed
                 x == req[r].id
      <4>1. s \in Seq(Nat) /\ x \in Nat /\ Bounded(s, n) /\ x <= n /\ c.owed = Append(s, x)
        BY <1>6, <2>1, <3>2
      <4> HIDE DEF s, x
      <4>2. /\ Len(s) \in Nat /\ DOMAIN s = 1 .. Len(s) /\ DOMAIN Append(s, x) = 1 .. (Len(s) + 1)
            /\ Append(s, x)[Len(s) + 1] = x /\ \A i \in 1 .. Len(s) : Append(s, x)[i] = s[i]
        BY <4>1
      <4>3. \A i \in 1 .. (Len(s) + 1) : Append(s, x)[i] <= n
        BY <4>1, <4>2 DEF Bounded
      <4> QED
        BY <4>1, <4>2, <4>3 DEF Bounded
    <3> QED
      BY <1>7, <3>1, <3>2
  <2> QED
    BY <1>3, <1>5, <1>6, <1>7, <1>9, <2>1 DEF Quiet, Mine, Asked
<1>12. Mine(q, c)
  <2>1. conn[k].behind \/ Silent(conn[k])
    BY <1>1, <1>9 DEF Mine
  <2>2. c.behind \/ (c.arrived = <<>> /\ (c.owed = <<>> \/ c.owed = <<q.id>>))
    BY <1>5, <1>6, <1>7, <2>1 DEF Silent
  <2> QED
    BY <1>1, <1>5, <1>7, <1>9, <1>11, <2>2 DEF Mine, Silent
<1>13. InPool' = InPool
  BY <1>1 DEF InPool
<1>14. PoolInv'
  BY <1>1, <1>2, <1>5, <1>7, <1>8, HolderGoesOn DEF ClientInv, Using
<1>15. ResponseInv'
  BY <1>1, <1>2, <1>3, <1>5, <1>8, <1>10, <1>11, <1>12, <1>13, ResponseMoves DEF Using
<1> QED
  BY <1>14, <1>15 DEF ClientInv

LEMMA ClientFails ==
  ASSUME ClientInv, NEW r \in Requesters, SendFails(r)
  PROVE  ClientInv'
<1> DEFINE k == Held(r)
           q == [req[r] EXCEPT !.pc = "release"]
<1>1. req[r].pc = "send" /\ pool' = pool /\ total' = total /\ requests' = requests /\ conn' = conn
  BY DEF SendFails
<1>2. k \in Conns /\ Holds(r, k) /\ conn[k].live /\ OnlyFor(r, k) /\ k \notin InPool /\ req[r].conn = {k}
  BY <1>1, HeldConn DEF ClientInv, Using
<1>3. PoolTypes /\ conn[k] \in ConnType /\ req[r] \in ReqType /\ requests \in Nat
  BY <1>2 DEF ClientInv, PoolInv, PoolTypes
<1>4. req' = [req EXCEPT ![r] = q]
  BY DEF SendFails, Go
<1>5. q \in ReqType /\ q.pc = "release" /\ q.conn = req[r].conn /\ q.id = req[r].id /\ q.got = req[r].got
  BY <1>3 DEF ReqType, Using
<1> HIDE DEF k, q
<1>8. ReqGoes(r, q) /\ ConnGoes(k, conn[k])
  BY <1>1, <1>2, <1>3, <1>4, <1>5, ReqStep, ConnSame
<1>9. Mine(req[r], conn[k]) /\ Asked(req[r], requests) /\ Quiet(conn[k], requests)
  BY <1>2 DEF ClientInv, ResponseInv
<1>10. Asked(q, requests)
  BY <1>5, <1>9 DEF Asked
<1>12. Mine(q, conn[k])
  BY <1>1, <1>5, <1>9 DEF Mine
<1>13. InPool' = InPool
  BY <1>1 DEF InPool
<1>14. PoolInv'
  BY <1>1, <1>2, <1>5, <1>8, HolderGoesOn DEF ClientInv, Using
<1>15. ResponseInv'
  BY <1>1, <1>2, <1>3, <1>5, <1>8, <1>9, <1>10, <1>12, <1>13, ResponseMoves DEF Using
<1> QED
  BY <1>14, <1>15 DEF ClientInv

LEMMA ClientReads ==
  ASSUME ClientInv, NEW r \in Requesters, RecvResponse(r)
  PROVE  ClientInv'
<1> DEFINE k == Held(r)
           q == [req[r] EXCEPT !.pc = "release", !.got = Head(conn[k].arrived)]
           c == [conn[k] EXCEPT !.arrived = <<>>]
<1>1. req[r].pc = "recv" /\ pool' = pool /\ total' = total /\ requests' = requests /\ conn[k].arrived # <<>>
  BY DEF RecvResponse
<1>2. k \in Conns /\ Holds(r, k) /\ conn[k].live /\ OnlyFor(r, k) /\ k \notin InPool /\ req[r].conn = {k}
  BY <1>1, HeldConn DEF ClientInv, Using
<1>3. PoolTypes /\ conn[k] \in ConnType /\ req[r] \in ReqType /\ requests \in Nat
  BY <1>2 DEF ClientInv, PoolInv, PoolTypes
<1>4. req' = [req EXCEPT ![r] = q] /\ conn' = [conn EXCEPT ![k] = c]
  BY DEF RecvResponse
<1>6. /\ req[r].id \in Nat /\ conn[k].owed \in Seq(Nat) /\ conn[k].arrived \in Seq(Nat)
      /\ Head(conn[k].arrived) \in Nat /\ Head(conn[k].arrived) = conn[k].arrived[1] /\ 1 \in DOMAIN conn[k].arrived
  BY <1>1, <1>3 DEF ReqType, ConnType
<1>5. q \in ReqType /\ q.pc = "release" /\ q.conn = req[r].conn /\ q.id = req[r].id /\ q.got = conn[k].arrived[1]
  BY <1>3, <1>6 DEF ReqType, Using
<1>7. /\ c \in ConnType /\ c.live = conn[k].live /\ c.pooled = conn[k].pooled /\ c.behind = conn[k].behind
      /\ c.arrived = <<>> /\ c.owed = conn[k].owed
  <2> DEFINE e == <<>>
  <2>1. e \in Seq(Nat) /\ c = [conn[k] EXCEPT !.arrived = e]
    OBVIOUS
  <2>2. e = <<>>
    OBVIOUS
  <2> HIDE DEF e, c
  <2> QED
    BY <1>3, <2>1, <2>2 DEF ConnType
<1> HIDE DEF k, q, c
<1>8. ReqGoes(r, q) /\ ConnGoes(k, c)
  BY <1>2, <1>3, <1>4, <1>5, <1>7, ReqStep, ConnStep
<1>9. Mine(req[r], conn[k]) /\ Asked(req[r], requests) /\ Quiet(conn[k], requests)
  BY <1>2 DEF ClientInv, ResponseInv
<1>10. Asked(q, requests)
  <2>1. q.got <= q.id /\ q.got \in Nat
    BY <1>5, <1>6, <1>9 DEF Mine, Bounded
  <2> QED
    BY <1>5, <1>6, <1>9, <2>1 DEF Asked
<1>11. Quiet(c, requests) /\ Bounded(c.owed, q.id) /\ Bounded(c.arrived, q.id)
  BY <1>5, <1>7, <1>9 DEF Quiet, Mine, Bounded
<1>12. Mine(q, c)
  <2>1. conn[k].behind \/ (conn[k].owed = <<>> /\ conn[k].arrived = <<req[r].id>>)
    BY <1>1, <1>9 DEF Mine, Silent
  <2>2. conn[k].behind => conn[k].pooled
    BY <1>1, <1>9 DEF Mine
  <2>3. CASE conn[k].behind
    BY <1>5, <1>7, <1>11, <2>2, <2>3 DEF Mine
  <2>4. CASE conn[k].owed = <<>> /\ conn[k].arrived = <<req[r].id>>
    <3>1. q.got = q.id
      BY <1>5, <2>4
    <3> QED
      BY <1>5, <1>7, <1>11, <2>4, <3>1 DEF Mine, Silent
  <2> QED
    BY <2>1, <2>3, <2>4
<1>13. InPool' = InPool
  BY <1>1 DEF InPool
<1>14. PoolInv'
  BY <1>1, <1>2, <1>5, <1>7, <1>8, HolderGoesOn DEF ClientInv, Using
<1>15. ResponseInv'
  BY <1>1, <1>2, <1>3, <1>5, <1>8, <1>10, <1>11, <1>12, <1>13, ResponseMoves DEF Using
<1> QED
  BY <1>14, <1>15 DEF ClientInv

LEMMA ClientGivesUp ==
  ASSUME ClientInv, NEW r \in Requesters, RecvFails(r)
  PROVE  ClientInv'
<1> DEFINE k == Held(r)
           q == [req[r] EXCEPT !.pc = "release"]
           c == [conn[k] EXCEPT !.behind = TRUE]
<1>1. req[r].pc = "recv" /\ pool' = pool /\ total' = total /\ requests' = requests
  BY DEF RecvFails
<1>2. k \in Conns /\ Holds(r, k) /\ conn[k].live /\ OnlyFor(r, k) /\ k \notin InPool /\ req[r].conn = {k}
  BY <1>1, HeldConn DEF ClientInv, Using
<1>3. PoolTypes /\ conn[k] \in ConnType /\ req[r] \in ReqType /\ requests \in Nat
  BY <1>2 DEF ClientInv, PoolInv, PoolTypes
<1>4. req' = [req EXCEPT ![r] = q] /\ conn' = [conn EXCEPT ![k] = c]
  BY DEF RecvFails, Go
<1>5. q \in ReqType /\ q.pc = "release" /\ q.conn = req[r].conn /\ q.id = req[r].id /\ q.got = req[r].got
  BY <1>3 DEF ReqType, Using
<1>7. /\ c \in ConnType /\ c.live = conn[k].live /\ c.pooled = conn[k].pooled /\ c.behind
      /\ c.arrived = conn[k].arrived /\ c.owed = conn[k].owed
  BY <1>3 DEF ConnType
<1> HIDE DEF k, q, c
<1>8. ReqGoes(r, q) /\ ConnGoes(k, c)
  BY <1>2, <1>3, <1>4, <1>5, <1>7, ReqStep, ConnStep
<1>9. Mine(req[r], conn[k]) /\ Asked(req[r], requests) /\ Quiet(conn[k], requests)
  BY <1>2 DEF ClientInv, ResponseInv
<1>10. Asked(q, requests)
  BY <1>5, <1>9 DEF Asked
<1>11. Quiet(c, requests)
  BY <1>7, <1>9 DEF Quiet
<1>12. Mine(q, c)
  BY <1>1, <1>5, <1>7, <1>9 DEF Mine
<1>13. InPool' = InPool
  BY <1>1 DEF InPool
<1>14. PoolInv'
  BY <1>1, <1>2, <1>5, <1>7, <1>8, HolderGoesOn DEF ClientInv, Using
<1>15. ResponseInv'
  BY <1>1, <1>2, <1>3, <1>5, <1>8, <1>10, <1>11, <1>12, <1>13, ResponseMoves DEF Using
<1> QED
  BY <1>14, <1>15 DEF ClientInv

LEMMA ClientCloses ==
  ASSUME ClientInv, NEW r \in Requesters, CloseHeld(r)
  PROVE  ClientInv'
<1> DEFINE k == Held(r)
           c == [conn[k] EXCEPT !.connected = FALSE]
<1>1. req[r].pc \in {"send", "release"} /\ pool' = pool /\ total' = total /\ requests' = requests /\ req' = req
  BY DEF CloseHeld
<1>2. k \in Conns /\ Holds(r, k) /\ conn[k].live /\ OnlyFor(r, k) /\ k \notin InPool /\ req[r].conn = {k}
  BY <1>1, HeldConn DEF ClientInv, Using
<1>3. PoolTypes /\ conn[k] \in ConnType /\ req[r] \in ReqType /\ requests \in Nat
  BY <1>2 DEF ClientInv, PoolInv, PoolTypes
<1>4. conn' = [conn EXCEPT ![k] = c]
  BY DEF CloseHeld
<1>7. /\ c \in ConnType /\ c.live = conn[k].live /\ c.pooled = conn[k].pooled /\ c.behind = conn[k].behind
      /\ c.arrived = conn[k].arrived /\ c.owed = conn[k].owed
  BY <1>3 DEF ConnType
<1> HIDE DEF k, c
<1>8. ReqGoes(r, req[r]) /\ ConnGoes(k, c)
  BY <1>1, <1>2, <1>3, <1>4, <1>7, ReqSame, ConnStep
<1>9. Mine(req[r], conn[k]) /\ Asked(req[r], requests) /\ Quiet(conn[k], requests)
  BY <1>2 DEF ClientInv, ResponseInv
<1>11. Quiet(c, requests)
  BY <1>7, <1>9 DEF Quiet
<1>12. Mine(req[r], c)
  BY <1>7, <1>9 DEF Mine, Silent
<1>13. InPool' = InPool
  BY <1>1 DEF InPool
<1>14. PoolInv'
  BY <1>1, <1>2, <1>7, <1>8, HolderGoesOn DEF ClientInv, Using
<1>15. ResponseInv'
  BY <1>1, <1>2, <1>3, <1>8, <1>9, <1>11, <1>12, <1>13, ResponseMoves DEF Using
<1> QED
  BY <1>14, <1>15 DEF ClientInv

LEMMA ClientResets ==
  ASSUME ClientInv, NEW r \in Requesters, ReleaseResets(r)
  PROVE  ClientInv'
<1> DEFINE k == Held(r)
           q == [req[r] EXCEPT !.pc = "push"]
           c == [conn[k] EXCEPT !.size = @ + 1, !.arrived = <<>>]
<1>1. /\ req[r].pc = "release" /\ pool' = pool /\ total' = total /\ requests' = requests
      /\ conn[k].connected /\ conn[k].pooled
  BY DEF ReleaseResets
<1>2. k \in Conns /\ Holds(r, k) /\ conn[k].live /\ OnlyFor(r, k) /\ k \notin InPool /\ req[r].conn = {k}
  BY <1>1, HeldConn DEF ClientInv, Using
<1>3. PoolTypes /\ conn[k] \in ConnType /\ req[r] \in ReqType /\ requests \in Nat
  BY <1>2 DEF ClientInv, PoolInv, PoolTypes
<1>4. req' = [req EXCEPT ![r] = q] /\ conn' = [conn EXCEPT ![k] = c]
  BY DEF ReleaseResets, Go
<1>5. q \in ReqType /\ q.pc = "push" /\ q.conn = req[r].conn /\ q.id = req[r].id /\ q.got = req[r].got
  BY <1>3 DEF ReqType, Using
<1>7. /\ c \in ConnType /\ c.live = conn[k].live /\ c.pooled = conn[k].pooled /\ c.behind = conn[k].behind
      /\ c.arrived = <<>> /\ c.owed = conn[k].owed /\ c.connected = conn[k].connected
  <2> DEFINE e == <<>>
             z == conn[k].size + 1
  <2>1. e \in Seq(Nat) /\ c = [conn[k] EXCEPT !.size = z, !.arrived = e]
    OBVIOUS
  <2>2. e = <<>> /\ z \in Nat
    BY <1>3 DEF ConnType
  <2> HIDE DEF e, z, c
  <2> QED
    BY <1>3, <2>1, <2>2 DEF ConnType
<1> HIDE DEF k, q, c
<1>8. ReqGoes(r, q) /\ ConnGoes(k, c)
  BY <1>2, <1>3, <1>4, <1>5, <1>7, ReqStep, ConnStep
<1>9. Mine(req[r], conn[k]) /\ Asked(req[r], requests) /\ Quiet(conn[k], requests)
  BY <1>2 DEF ClientInv, ResponseInv
<1>10. Asked(q, requests)
  BY <1>5, <1>9 DEF Asked
<1>11. Quiet(c, requests) /\ Bounded(c.owed, q.id) /\ Bounded(c.arrived, q.id)
  BY <1>5, <1>7, <1>9 DEF Quiet, Mine, Bounded
<1>12. Mine(q, c)
  BY <1>1, <1>5, <1>7, <1>9, <1>11 DEF Mine, Silent
<1>13. InPool' = InPool
  BY <1>1 DEF InPool
<1>14. PoolInv'
  BY <1>1, <1>2, <1>5, <1>7, <1>8, HolderGoesOn DEF ClientInv, Using
<1>15. ResponseInv'
  BY <1>1, <1>2, <1>3, <1>5, <1>8, <1>10, <1>11, <1>12, <1>13, ResponseMoves DEF Using
<1> QED
  BY <1>14, <1>15 DEF ClientInv

LEMMA NothingOwed ==
  NoConn \in ConnType /\ ~NoConn.live /\ Silent(NoConn) /\ \A n \in Nat : Quiet(NoConn, n)
<1>1. <<>> \in Seq(Nat)
  OBVIOUS
<1>2. NoConn \in ConnType
  BY <1>1 DEF NoConn, ConnType
<1>3. NoConn.owed = <<>> /\ NoConn.arrived = <<>> /\ NoConn.live = FALSE
  BY DEF NoConn
<1> QED
  BY <1>2, <1>3 DEF Silent, Quiet, Bounded

\* Both kinds of new connections are silent.
LEMMA NewOnes ==
  ASSUME NEW c \in {NewConn, PooledConn}
  PROVE  /\ c \in ConnType /\ c.live /\ c.behind = FALSE /\ Silent(c) /\ (\A n \in Nat : Quiet(c, n))
         /\ NewConn.pooled = FALSE /\ PooledConn.pooled = TRUE
<1>1. /\ NoConn \in ConnType /\ NoConn.owed = <<>> /\ NoConn.arrived = <<>> /\ NoConn.behind = FALSE
      /\ NoConn.pooled = FALSE
  BY NothingOwed DEF Silent, NoConn
<1>2. /\ NewConn \in ConnType /\ NewConn.live = TRUE /\ NewConn.owed = <<>> /\ NewConn.arrived = <<>>
      /\ NewConn.behind = FALSE /\ NewConn.pooled = FALSE
  BY <1>1 DEF NewConn, ConnType
<1>3. /\ PooledConn \in ConnType /\ PooledConn.live = TRUE /\ PooledConn.owed = <<>> /\ PooledConn.arrived = <<>>
      /\ PooledConn.behind = FALSE /\ PooledConn.pooled = TRUE
  BY <1>2 DEF PooledConn, ConnType
<1> QED
  BY <1>2, <1>3 DEF Silent, Quiet, Bounded

\* The connection is deleted.
LEMMA ClientDeletes ==
  ASSUME ClientInv, NEW r \in Requesters, req[r].pc \in {"release", "push"},
         conn' = [conn EXCEPT ![Held(r)] = NoConn], pool' = pool, total' = total, requests' = requests,
         \/ ~conn[Held(r)].pooled /\ req' = [req EXCEPT ![r].pc = "done", ![r].conn = {}]
         \/ conn[Held(r)].pooled /\ req' = [req EXCEPT ![r].pc = "count"]
  PROVE  ClientInv'
<1> DEFINE k == Held(r)
           q == IF conn[k].pooled THEN [req[r] EXCEPT !.pc = "count"] ELSE [req[r] EXCEPT !.pc = "done", !.conn = {}]
<1>2. k \in Conns /\ Holds(r, k) /\ conn[k].live /\ OnlyFor(r, k) /\ k \notin InPool /\ req[r].conn = {k}
  BY HeldConn DEF ClientInv, Using
<1>3. PoolTypes /\ conn[k] \in ConnType /\ req[r] \in ReqType /\ requests \in Nat
  BY <1>2 DEF ClientInv, PoolInv, PoolTypes
<1>4. req' = [req EXCEPT ![r] = q]
  <2>1. CASE conn[k].pooled
    BY <2>1
  <2>2. CASE ~conn[k].pooled
    BY <2>2
  <2> QED
    BY <2>1, <2>2
<1>5. /\ q \in ReqType /\ q.id = req[r].id /\ q.got = req[r].got
      /\ \/ q.pc = "done" /\ q.conn = {} /\ ~conn[k].pooled
         \/ q.pc = "count" /\ conn[k].pooled
  <2>1. CASE conn[k].pooled
    BY <1>3, <2>1 DEF ReqType
  <2>2. CASE ~conn[k].pooled
    BY <1>3, <2>2 DEF ReqType
  <2> QED
    BY <2>1, <2>2
<1>6. conn' = [conn EXCEPT ![k] = NoConn]
  OBVIOUS
<1> HIDE DEF k, q
<1>8. ReqGoes(r, q) /\ ConnGoes(k, NoConn)
  BY <1>2, <1>3, <1>4, <1>5, <1>6, ReqStep, ConnStep, NothingOwed
<1>10. Asked(q, requests) /\ Quiet(NoConn, requests)
  <2>1. Asked(req[r], requests)
    BY DEF ClientInv, ResponseInv
  <2> QED
    BY <1>3, <1>5, <2>1, NothingOwed DEF Asked
<1>13. InPool' = InPool
  BY DEF InPool
<1>14. PoolInv'
  BY <1>2, <1>5, <1>8, HolderDeletes DEF ClientInv
<1>15. ResponseInv'
  BY <1>2, <1>3, <1>5, <1>8, <1>10, <1>13, NothingOwed, ResponseMoves DEF Using
<1> QED
  BY <1>14, <1>15 DEF ClientInv

LEMMA ClientReleases ==
  ASSUME ClientInv, NEW r \in Requesters, DoRequestEnds(r) \/ ReleaseDeletes(r) \/ ReleasePushes(r)
  PROVE  ClientInv'
<1>1. CASE DoRequestEnds(r)
  BY <1>1, ClientDeletes DEF DoRequestEnds
<1>2. CASE ReleaseDeletes(r)
  BY <1>2, ClientDeletes DEF ReleaseDeletes, Go
<1>3. ASSUME ReleasePushes(r), Len(pool) >= m_maxSize PROVE ClientInv'
  <2>1. req[r].pc = "push" /\ ~(Len(pool) < m_maxSize) /\ total' = total /\ requests' = requests
    BY <1>3, PoolAssumption DEF ReleasePushes, ClientInv, PoolInv, PoolTypes
  <2>2. Holds(r, Held(r)) /\ Held(r) \in Conns
    BY <2>1, HeldConn DEF ClientInv, Using
  <2>3. conn[Held(r)].pooled
    BY <2>1, <2>2 DEF ClientInv, PoolInv, HoldersInv
  <2>4. conn' = [conn EXCEPT ![Held(r)] = NoConn] /\ pool' = pool /\ req' = [req EXCEPT ![r].pc = "count"]
    BY <1>3, <2>1 DEF ReleasePushes, Go
  <2> QED
    BY <2>1, <2>3, <2>4, ClientDeletes
<1>4. ASSUME ReleasePushes(r), Len(pool) < m_maxSize PROVE ClientInv'
  <2> DEFINE k == Held(r)
             q == [req[r] EXCEPT !.pc = "done", !.conn = {}]
  <2>1. /\ req[r].pc = "push" /\ total' = total /\ requests' = requests /\ conn' = conn
        /\ pool' = Append(pool, k) /\ req' = [req EXCEPT ![r] = q]
    BY <1>4 DEF ReleasePushes
  <2>2. k \in Conns /\ Holds(r, k) /\ conn[k].live /\ OnlyFor(r, k) /\ k \notin InPool /\ req[r].conn = {k}
    BY <2>1, HeldConn DEF ClientInv, Using
  <2>3. PoolTypes /\ conn[k] \in ConnType /\ req[r] \in ReqType /\ requests \in Nat
    BY <2>2 DEF ClientInv, PoolInv, PoolTypes
  <2>4. q \in ReqType /\ q.pc = "done" /\ q.conn = {} /\ q.id = req[r].id /\ q.got = req[r].got
    BY <2>3 DEF ReqType
  <2> HIDE DEF k, q
  <2>5. ReqGoes(r, q) /\ ConnGoes(k, conn[k])
    BY <2>1, <2>2, <2>3, <2>4, ReqStep, ConnSame
  <2>6. Mine(req[r], conn[k]) /\ Asked(req[r], requests) /\ Quiet(conn[k], requests)
    BY <2>2 DEF ClientInv, ResponseInv
  <2>7. Asked(q, requests) /\ (conn[k].behind \/ Silent(conn[k]))
    BY <2>1, <2>4, <2>6 DEF Asked, Mine
  <2>8. InPool' \subseteq InPool \cup {k}
    <3>1. pool \in Seq(Conns) /\ Len(pool) \in Nat /\ DOMAIN pool = 1 .. Len(pool)
      BY <2>3 DEF PoolTypes
    <3>2. /\ DOMAIN pool' = 1 .. (Len(pool) + 1) /\ pool'[Len(pool) + 1] = k
          /\ \A i \in 1 .. Len(pool) : pool'[i] = pool[i]
      BY <2>1, <2>2, <3>1
    <3>3. \A i \in DOMAIN pool' : pool'[i] \in InPool \cup {k}
      BY <3>1, <3>2 DEF InPool
    <3> QED
      BY <3>3 DEF InPool
  <2>9. PoolInv'
    BY <1>4, <2>1, <2>2, <2>4, <2>5, HolderGives DEF ClientInv
  <2>10. ResponseInv'
    <3>1. requests' \in Nat /\ requests <= requests' /\ Asked(q, requests') /\ Quiet(conn[k], requests') /\ q.pc \notin Using
      BY <2>1, <2>3, <2>4, <2>6, <2>7 DEF Using
    <3> QED
      BY <2>2, <2>5, <2>7, <2>8, <3>1, ResponseMoves
  <2> QED
    BY <2>9, <2>10 DEF ClientInv
<1> QED
  BY <1>1, <1>2, <1>3, <1>4, PoolAssumption DEF ClientInv, PoolInv, PoolTypes

\* A connection is made at an address that is free.
LEMMA ClientConnects ==
  ASSUME ClientInv, NEW r \in Requesters, Connect(r) \/ DoRequest(r)
  PROVE  ClientInv'
<1> DEFINE k == Free
<1>1. k \in Conns /\ ~conn[k].live
  BY DEF Connect, DoRequest, Live, Free
<1>2. PoolTypes /\ req[r] \in ReqType /\ requests \in Nat
  BY DEF ClientInv, PoolInv, PoolTypes
<1>3. OnlyFor(r, k)
  BY <1>1 DEF OnlyFor, Holds, ClientInv, PoolInv, HoldersInv
<1>4. Asked(req[r], requests)
  BY DEF ClientInv, ResponseInv
<1>5. CASE Connect(r)
  <2> DEFINE q == [req[r] EXCEPT !.pc = "send", !.conn = {k}]
             c == PooledConn
  <2>1. /\ req[r].pc = "connect" /\ conn' = [conn EXCEPT ![k] = c] /\ total' = total + 1
        /\ req' = [req EXCEPT ![r] = q] /\ pool' = pool /\ requests' = requests
    BY <1>5 DEF Connect
  <2>2. q \in ReqType /\ q.pc = "send" /\ q.conn = {k} /\ q.id = req[r].id /\ q.got = req[r].got
    BY <1>1, <1>2 DEF ReqType, Using
  <2>3. c \in ConnType /\ c.live /\ c.behind = FALSE /\ Silent(c) /\ (\A n \in Nat : Quiet(c, n)) /\ c.pooled = TRUE
    BY NewOnes
  <2> HIDE DEF k, q, c
  <2>4. ReqGoes(r, q) /\ ConnGoes(k, c)
    BY <1>1, <1>2, <2>1, <2>2, <2>3, ReqStep, ConnStep
  <2>5. q.id \in Nat /\ q.got = 0 /\ Asked(q, requests) /\ Quiet(c, requests) /\ Quiet(c, q.id)
    BY <1>2, <1>4, <2>1, <2>2, <2>3 DEF Asked, ReqType
  <2>6. Mine(q, c)
    BY <2>2, <2>3, <2>5 DEF Mine, Quiet
  <2>7. InPool' = InPool
    BY <2>1 DEF InPool
  <2>8. PoolInv'
    BY <1>1, <1>2, <2>1, <2>2, <2>3, <2>4, HolderMakes DEF ClientInv
  <2>9. ResponseInv'
    BY <1>1, <1>2, <1>3, <2>1, <2>2, <2>3, <2>4, <2>5, <2>6, <2>7, ResponseMoves
  <2> QED
    BY <2>8, <2>9 DEF ClientInv
<1>6. CASE DoRequest(r)
  <2> DEFINE q == [pc |-> "send", conn |-> {k}, id |-> requests', got |-> 0]
             c == NewConn
  <2>1. /\ req[r].pc = "idle" /\ conn' = [conn EXCEPT ![k] = c] /\ total' = total
        /\ req' = [req EXCEPT ![r] = q] /\ pool' = pool /\ requests' = requests + 1
    BY <1>6 DEF DoRequest
  <2>2. q \in ReqType /\ q.pc = "send" /\ q.conn = {k} /\ q.id = requests + 1 /\ q.got = 0
    BY <1>1, <1>2, <2>1 DEF ReqType, Using
  <2>3. c \in ConnType /\ c.live /\ c.behind = FALSE /\ Silent(c) /\ (\A n \in Nat : Quiet(c, n)) /\ c.pooled = FALSE
    BY NewOnes
  <2> HIDE DEF k, q, c
  <2>4. ReqGoes(r, q) /\ ConnGoes(k, c)
    BY <1>1, <1>2, <2>1, <2>2, <2>3, ReqStep, ConnStep
  <2>5. requests' \in Nat /\ requests <= requests' /\ Asked(q, requests') /\ Quiet(c, requests') /\ Quiet(c, q.id)
    BY <1>2, <2>1, <2>2, <2>3 DEF Asked
  <2>6. Mine(q, c)
    BY <2>2, <2>3, <2>5 DEF Mine, Quiet
  <2>7. InPool' = InPool
    BY <2>1 DEF InPool
  <2>8. PoolInv'
    <3>1. total' = total + 0
      BY <1>2, <2>1 DEF PoolTypes
    <3> QED
      BY <1>1, <2>1, <2>2, <2>3, <2>4, <2>5, <3>1, HolderMakes DEF ClientInv
  <2>9. ResponseInv'
    BY <1>1, <1>3, <2>1, <2>2, <2>3, <2>4, <2>5, <2>6, <2>7, ResponseMoves
  <2> QED
    BY <2>8, <2>9 DEF ClientInv
<1> QED
  BY <1>5, <1>6

\* Nothing is left to do for a requester: the connection could not be made, its deletion is counted,
\* the response is returned.
LEMMA ClientEnds ==
  ASSUME ClientInv, NEW r \in Requesters, ConnectFails(r) \/ CountDeleted(r) \/ Returned(r)
  PROVE  ClientInv'
<1>1. PoolTypes /\ req[r] \in ReqType /\ requests \in Nat /\ total \in Int /\ Asked(req[r], requests)
  BY DEF ClientInv, PoolInv, PoolTypes, ResponseInv
<1>2. pool' = pool /\ conn' = conn /\ requests' = requests
  BY DEF ConnectFails, CountDeleted, Returned
<1>3. CASE ConnectFails(r) \/ Returned(r)
  <2> DEFINE q == Idling
  <2>1. req' = [req EXCEPT ![r] = q] /\ total' = total /\ req[r].pc \in {"connect", "done"}
    BY <1>3 DEF ConnectFails, Returned
  <2>2. q \in ReqType /\ q.pc = "idle" /\ q.conn = {} /\ q.id = 0 /\ q.got = 0
    BY DEF Idling, ReqType
  <2> HIDE DEF q
  <2>3. ReqGoes(r, q) /\ Asked(q, requests)
    <3>1. ReqGoes(r, q)
      BY <1>1, <2>1, <2>2, ReqStep
    <3>2. Asked(q, requests)
      BY <1>1, <2>1, <2>2 DEF Asked
    <3> QED
      BY <3>1, <3>2
  <2>4. total' = total - 0
    BY <1>1, <2>1
  <2>5. PoolInv'
    BY <1>1, <1>2, <2>1, <2>2, <2>3, <2>4, OtherGoesOn DEF ClientInv, Using
  <2>6. ResponseInv'
    BY <1>1, <1>2, <2>2, <2>3, ResponseStays DEF Using
  <2> QED
    BY <2>5, <2>6 DEF ClientInv
<1>4. CASE CountDeleted(r)
  <2> DEFINE q == [req[r] EXCEPT !.pc = "done", !.conn = {}]
  <2>1. req' = [req EXCEPT ![r] = q] /\ total' = total - 1 /\ req[r].pc = "count"
    BY <1>4 DEF CountDeleted
  <2>2. q \in ReqType /\ q.pc = "done" /\ q.conn = {} /\ q.id = req[r].id /\ q.got = req[r].got
    BY <1>1 DEF ReqType
  <2> HIDE DEF q
  <2>3. ReqGoes(r, q) /\ Asked(q, requests)
    <3>1. ReqGoes(r, q)
      BY <1>1, <2>1, <2>2, ReqStep
    <3>2. Asked(q, requests)
      BY <1>1, <2>1, <2>2 DEF Asked
    <3> QED
      BY <3>1, <3>2
  <2>5. PoolInv'
    BY <1>1, <1>2, <2>1, <2>2, <2>3, OtherGoesOn DEF ClientInv, Using
  <2>6. ResponseInv'
    BY <1>1, <1>2, <2>2, <2>3, ResponseStays DEF Using
  <2> QED
    BY <2>5, <2>6 DEF ClientInv
<1> QED
  BY <1>3, <1>4

\* What is in the pool is connected, so its front is taken and nothing is dropped.
LEMMA ClientGets ==
  ASSUME ClientInv, NEW r \in Requesters, getConnnection(r)
  PROVE  ClientInv'
<1> DEFINE usable == {i \in DOMAIN pool : conn[pool[i]].connected}
           n == IF usable = {} THEN Len(pool) + 1 ELSE CHOOSE i \in usable : \A j \in usable : i <= j
           invalid == {pool[i] : i \in 1..(n - 1)}
           q == [pc |-> IF usable = {} THEN "connect" ELSE "send",
                 conn |-> IF usable = {} THEN {} ELSE {pool[n]}, id |-> requests', got |-> 0]
<1>1. /\ req[r].pc = "idle" /\ requests' = requests + 1 /\ pool' = SubSeq(pool, n + 1, Len(pool))
      /\ conn' = [k \in Conns |-> IF k \in invalid THEN NoConn ELSE conn[k]]
      /\ total' = total - Cardinality(invalid) /\ req' = [req EXCEPT ![r] = q]
  BY DEF getConnnection
<1>2. PoolTypes /\ pool \in Seq(Conns) /\ Len(pool) \in Nat /\ DOMAIN pool = 1 .. Len(pool) /\ requests \in Nat /\ total \in Int
  BY DEF ClientInv, PoolInv, PoolTypes
<1>3. usable = DOMAIN pool
  <2>1. \A i \in DOMAIN pool : pool[i] \in InPool
    BY DEF InPool
  <2> QED
    BY <2>1 DEF ClientInv, PoolInv, HoldersInv
<1> HIDE DEF usable
<1>4. n = 1
  <2>1. CASE usable = {}
    <3>1. ~(Len(pool) > 0)
      BY <1>2, <1>3, <2>1
    <3> QED
      BY <1>2, <2>1, <3>1
  <2>2. CASE usable # {}
    <3>1. 1 \in usable /\ \A j \in usable : j \in Int /\ 1 <= j
      BY <1>2, <1>3, <2>2
    <3>2. n \in usable /\ \A j \in usable : n <= j
      BY <2>2, <3>1
    <3> HIDE DEF n
    <3> QED
      BY <3>1, <3>2
  <2> QED
    BY <2>1, <2>2
<1> HIDE DEF n
<1>5. invalid = {}
  BY <1>4
<1> HIDE DEF invalid
<1>6. conn' = conn /\ total' = total
  <2>1. conn' = [k \in Conns |-> conn[k]]
    BY <1>1, <1>5
  <2>2. Cardinality(invalid) = 0
    BY <1>5, FS_EmptySet
  <2> QED
    BY <1>1, <1>2, <2>1, <2>2 DEF PoolTypes
<1>7. requests' \in Nat /\ requests <= requests'
  BY <1>1, <1>2
<1>8. CASE pool = <<>>
  <2>1. usable = {} /\ pool' = pool
    BY <1>1, <1>2, <1>3, <1>4, <1>8
  <2>2. q.pc = "connect" /\ q.conn = {} /\ q.id = requests' /\ q.got = 0 /\ q \in ReqType
    BY <1>7, <2>1 DEF ReqType
  <2> HIDE DEF q
  <2>3. ReqGoes(r, q) /\ Asked(q, requests')
    <3>1. ReqGoes(r, q)
      BY <1>1, <1>2, <2>2, ReqStep
    <3>2. Asked(q, requests')
      BY <1>7, <2>2 DEF Asked
    <3> QED
      BY <3>1, <3>2
  <2>4. total' = total - 0
    BY <1>2, <1>6
  <2>5. PoolInv'
    BY <1>1, <1>6, <1>7, <2>1, <2>2, <2>3, <2>4, OtherGoesOn DEF ClientInv, Using
  <2>6. ResponseInv'
    BY <1>6, <1>7, <2>1, <2>2, <2>3, ResponseStays DEF Using
  <2> QED
    BY <2>5, <2>6 DEF ClientInv
<1>9. CASE pool # <<>>
  <2> DEFINE k == pool[1]
  <2>1. usable # {} /\ pool' = Tail(pool) /\ k \in Conns /\ k \in InPool
    <3>1. 1 \in DOMAIN pool /\ k \in Conns
      BY <1>2, <1>9
    <3>2. pool' = SubSeq(pool, 2, Len(pool))
      BY <1>1, <1>4
    <3>3. pool' = Tail(pool)
      BY <1>2, <1>9, <3>2
    <3>4. k \in InPool
      BY <3>1 DEF InPool
    <3> QED
      BY <1>3, <3>1, <3>3, <3>4
  <2>2. q.pc = "send" /\ q.conn = {k} /\ q.id = requests' /\ q.got = 0 /\ q \in ReqType
    BY <1>4, <1>7, <2>1 DEF ReqType, Using
  <2>3. InPool' \subseteq InPool
    <3>1. DOMAIN pool' = 1 .. (Len(pool) - 1) /\ \A i \in 1 .. (Len(pool) - 1) : pool'[i] = pool[i + 1]
      BY <1>2, <1>9, <2>1
    <3>2. \A i \in DOMAIN pool' : i + 1 \in DOMAIN pool /\ pool'[i] = pool[i + 1]
      BY <1>2, <3>1
    <3> QED
      BY <3>2 DEF InPool
  <2>4. conn[k].pooled /\ (conn[k].behind \/ Silent(conn[k])) /\ OnlyFor(r, k) /\ Quiet(conn[k], requests)
    BY <2>1 DEF ClientInv, PoolInv, HoldersInv, ResponseInv, OnlyFor
  <2>5. PoolInv'
    <3>1. ReqGoes(r, q)
      BY <1>1, <1>2, <2>2, ReqStep
    <3> HIDE DEF q
    <3> QED
      BY <1>1, <1>6, <1>7, <1>9, <2>1, <2>2, <3>1, HolderTakes DEF ClientInv
  <2> HIDE DEF k, q
  <2>6. ReqGoes(r, q) /\ ConnGoes(k, conn[k])
    BY <1>1, <1>2, <1>6, <2>1, <2>2, ReqStep, ConnSame
  <2>7. Quiet(conn[k], requests')
    <3>1. conn[k].owed \in Seq(Nat) /\ conn[k].arrived \in Seq(Nat)
      BY <1>2, <2>1 DEF PoolTypes, ConnType
    <3> QED
      BY <1>2, <1>7, <2>4, <3>1, BoundedMore DEF Quiet
  <2>8. Asked(q, requests') /\ Mine(q, conn[k])
    BY <1>7, <2>2, <2>4, <2>7 DEF Asked, Mine, Quiet
  <2>9. ResponseInv'
    BY <1>7, <2>1, <2>2, <2>3, <2>4, <2>6, <2>7, <2>8, ResponseMoves
  <2> QED
    BY <2>5, <2>9 DEF ClientInv
<1> QED
  BY <1>8, <1>9

\* The peer answers or closes the connection, whoever has it.
LEMMA PeerActs ==
  ASSUME ClientInv, NEW k \in Conns, Respond(k) \/ PeerCloses(k)
  PROVE  ClientInv'
<1> DEFINE h == Head(conn[k].owed)
           o == IF Respond(k) THEN Tail(conn[k].owed) ELSE <<>>
           a == IF Respond(k) THEN Append(conn[k].arrived, h) ELSE conn[k].arrived
           p == IF Respond(k) THEN conn[k].open ELSE FALSE
           c == [conn[k] EXCEPT !.open = p, !.owed = o, !.arrived = a]
<1>1. req' = req /\ pool' = pool /\ total' = total /\ requests' = requests
  BY DEF Respond, PeerCloses
<1>2. PoolTypes /\ conn[k] \in ConnType /\ requests \in Nat
  BY DEF ClientInv, PoolInv, PoolTypes
<1>3. conn[k].owed \in Seq(Nat) /\ conn[k].arrived \in Seq(Nat)
  BY <1>2 DEF ConnType
<1>4. conn' = [conn EXCEPT ![k] = c]
  <2>1. CASE Respond(k)
    <3>1. c = [conn[k] EXCEPT !.owed = Tail(conn[k].owed), !.arrived = Append(conn[k].arrived, h)]
      BY <1>2, <2>1 DEF ConnType
    <3>2. conn' = [conn EXCEPT ![k] = [conn[k] EXCEPT !.owed = Tail(conn[k].owed), !.arrived = Append(conn[k].arrived, h)]]
      BY <2>1 DEF Respond
    <3> QED
      BY <3>1, <3>2
  <2>2. CASE ~Respond(k)
    <3>1. c = [conn[k] EXCEPT !.open = FALSE, !.owed = <<>>]
      BY <1>2, <2>2 DEF ConnType
    <3>2. conn' = [conn EXCEPT ![k] = [conn[k] EXCEPT !.open = FALSE, !.owed = <<>>]]
      BY <2>2 DEF PeerCloses
    <3> QED
      BY <3>1, <3>2
  <2> QED
    BY <2>1, <2>2
<1>5. ASSUME Respond(k)
      PROVE  /\ conn[k].owed # <<>> /\ o = Tail(conn[k].owed) /\ a = Append(conn[k].arrived, h) /\ h \in Nat
             /\ o \in Seq(Nat) /\ a \in Seq(Nat)
             /\ \A n \in Nat : Bounded(conn[k].owed, n) /\ Bounded(conn[k].arrived, n) => Bounded(o, n) /\ Bounded(a, n)
  <2> DEFINE s == conn[k].owed
             t == conn[k].arrived
  <2>1. s # <<>> /\ o = Tail(s) /\ a = Append(t, h) /\ h = Head(s) /\ s \in Seq(Nat) /\ t \in Seq(Nat)
    BY <1>3, <1>5 DEF Respond
  <2> HIDE DEF s, t, o, a, h
  <2>2. /\ h \in Nat /\ o \in Seq(Nat) /\ a \in Seq(Nat) /\ 1 \in DOMAIN s /\ h = s[1]
        /\ DOMAIN o = 1 .. (Len(s) - 1) /\ DOMAIN s = 1 .. Len(s) /\ DOMAIN t = 1 .. Len(t) /\ DOMAIN a = 1 .. (Len(t) + 1)
        /\ Len(s) \in Nat /\ Len(t) \in Nat
        /\ (\A i \in 1 .. (Len(s) - 1) : o[i] = s[i + 1]) /\ a[Len(t) + 1] = h /\ (\A i \in 1 .. Len(t) : a[i] = t[i])
    BY <2>1
  <2>3. ASSUME NEW n \in Nat, Bounded(s, n), Bounded(t, n) PROVE Bounded(o, n) /\ Bounded(a, n)
    <3>1. (\A i \in 1 .. Len(s) : s[i] <= n) /\ (\A i \in 1 .. Len(t) : t[i] <= n)
      BY <2>2, <2>3 DEF Bounded
    <3>2. \A i \in 1 .. (Len(s) - 1) : i + 1 \in 1 .. Len(s) /\ o[i] = s[i + 1]
      BY <2>2
    <3>3. h <= n
      BY <2>2, <3>1
    <3>4. \A i \in 1 .. (Len(t) + 1) : a[i] <= n
      <4> TAKE i \in 1 .. (Len(t) + 1)
      <4>1. CASE i = Len(t) + 1
        BY <2>2, <3>3, <4>1
      <4>2. CASE i \in 1 .. Len(t)
        BY <2>2, <3>1, <4>2
      <4> QED
        BY <2>2, <4>1, <4>2
    <3>5. \A i \in 1 .. (Len(s) - 1) : o[i] <= n
      BY <3>1, <3>2
    <3> QED
      BY <2>2, <3>4, <3>5 DEF Bounded
  <2> QED
    BY <2>1, <2>2, <2>3 DEF s, t
<1>6. ASSUME ~Respond(k)
      PROVE  /\ o = <<>> /\ a = conn[k].arrived /\ o \in Seq(Nat) /\ a \in Seq(Nat) /\ \A n \in Nat : Bounded(o, n)
  <2>1. o = <<>> /\ a = conn[k].arrived
    BY <1>6
  <2> HIDE DEF o, a
  <2> QED
    BY <1>3, <2>1 DEF Bounded
<1>7. p \in BOOLEAN /\ o \in Seq(Nat) /\ a \in Seq(Nat)
  <2>1. p \in BOOLEAN
    BY <1>2 DEF ConnType
  <2> HIDE DEF o, a, p
  <2> QED
    BY <1>5, <1>6, <2>1
<1> HIDE DEF p, o, a
<1>8. /\ c \in ConnType /\ c.live = conn[k].live /\ c.pooled = conn[k].pooled /\ c.connected = conn[k].connected
      /\ c.behind = conn[k].behind /\ c.owed = o /\ c.arrived = a
  BY <1>2, <1>7 DEF ConnType
<1> HIDE DEF c
<1>9. ConnGoes(k, c)
  BY <1>2, <1>4, <1>8, ConnStep
<1>10. PoolInv'
  BY <1>1, <1>8, <1>9, PeerGoesOn DEF ClientInv
<1>11. \A n \in Nat : Quiet(conn[k], n) => Quiet(c, n)
  BY <1>5, <1>6, <1>8 DEF Quiet
<1>12. conn'[k] = c /\ \A g \in Conns : g # k => conn'[g] = conn[g]
  BY <1>9 DEF ConnGoes
<1>13. InPool' = InPool /\ \A u \in Requesters, g \in Conns : Holds(u, g)' <=> Holds(u, g)
  BY <1>1 DEF InPool, Holds
<1>14. Silent(conn[k]) => Silent(c)
  <2>1. CASE Respond(k)
    BY <1>5, <2>1 DEF Silent
  <2>2. CASE ~Respond(k)
    BY <1>6, <1>8, <2>2 DEF Silent
  <2> QED
    BY <2>1, <2>2
<1>15. \A g \in Conns : Quiet(conn'[g], requests')
  <2> TAKE g \in Conns
  <2>1. Quiet(conn[g], requests)
    BY DEF ClientInv, ResponseInv
  <2> QED
    BY <1>1, <1>2, <1>11, <1>12, <2>1
<1>16. \A g \in InPool : conn'[g].behind \/ Silent(conn'[g])
  <2> TAKE g \in InPool
  <2>1. g \in Conns /\ (conn[g].behind \/ Silent(conn[g]))
    BY InPoolIsConn DEF ClientInv, PoolInv, ResponseInv
  <2> QED
    BY <1>8, <1>12, <1>14, <2>1
<1>17. ASSUME NEW u \in Requesters, Holds(u, k) PROVE Mine(req[u], c)
  <2> DEFINE x == req[u].id
  <2>1. Mine(req[u], conn[k]) /\ x \in Nat
    BY <1>17 DEF ClientInv, ResponseInv, PoolInv, PoolTypes, ReqType
  <2>2. Bounded(c.owed, x) /\ Bounded(c.arrived, x)
    BY <1>11, <2>1 DEF Mine, Quiet
  <2>3. \/ c.behind
        \/ Silent(c)
        \/ req[u].pc = "recv" /\ c.owed = <<x>> /\ c.arrived = <<>>
        \/ req[u].pc = "recv" /\ c.owed = <<>> /\ c.arrived = <<x>>
    <3>1. CASE conn[k].behind
      BY <1>8, <3>1
    <3>2. CASE Silent(conn[k])
      BY <1>14, <3>2
    <3>3. CASE req[u].pc = "recv" /\ conn[k].owed = <<x>> /\ conn[k].arrived = <<>>
      <4>1. CASE Respond(k)
        <5>1. o = <<>> /\ a = <<x>>
          BY <1>5, <2>1, <3>3, <4>1
        <5> QED
          BY <1>8, <3>3, <5>1
      <4>2. CASE ~Respond(k)
        BY <1>6, <1>8, <3>3, <4>2 DEF Silent
      <4> QED
        BY <4>1, <4>2
    <3>4. CASE req[u].pc = "recv" /\ conn[k].owed = <<>> /\ conn[k].arrived = <<x>>
      <4>1. ~Respond(k)
        BY <3>4 DEF Respond
      <4> QED
        BY <1>6, <1>8, <3>4, <4>1
    <3> QED
      BY <2>1, <3>1, <3>2, <3>3, <3>4 DEF Mine
  <2> QED
    BY <1>8, <2>1, <2>2, <2>3 DEF Mine
<1>18. \A u \in Requesters, g \in Conns : Holds(u, g) => Mine(req[u], conn'[g])
  <2> SUFFICES ASSUME NEW u \in Requesters, NEW g \in Conns, Holds(u, g) PROVE Mine(req[u], conn'[g])
    OBVIOUS
  <2>1. CASE g = k
    BY <1>12, <1>17, <2>1
  <2>2. CASE g # k
    BY <1>12, <2>2 DEF ClientInv, ResponseInv
  <2> QED
    BY <2>1, <2>2
<1>19. ResponseInv'
  BY <1>1, <1>13, <1>15, <1>16, <1>18 DEF ResponseInv, ClientInv
<1> QED
  BY <1>10, <1>19 DEF ClientInv

LEMMA ClientStep ==
  ASSUME ClientInv, PoolNext
  PROVE  ClientInv'
<1>1. ASSUME NEW r \in Requesters, Requester(r) PROVE ClientInv'
  BY <1>1, ClientGets, ClientConnects, ClientEnds, ClientSends, ClientFails, ClientReads, ClientGivesUp, ClientCloses,
     ClientReleases, ClientResets DEF Requester
<1> QED
  BY <1>1, PeerActs DEF PoolNext

LEMMA ClientStart == Init => ClientInv
<1> SUFFICES ASSUME Init PROVE ClientInv
  OBVIOUS
<1>1. /\ pool = <<>> /\ conn = [k \in Conns |-> NoConn] /\ total = 0 /\ requests = 0
      /\ req = [r \in Requesters |-> Idling]
  BY DEF Init, PoolInit
<1>2. Idling \in ReqType /\ Idling.pc = "idle" /\ Idling.conn = {} /\ Idling.id = 0 /\ Idling.got = 0
  BY DEF Idling, ReqType
<1>3. /\ \A r \in Requesters : req[r] = Idling
      /\ \A k \in Conns : conn[k] = NoConn
  BY <1>1
<1>4. pool \in Seq(Conns) /\ DOMAIN pool = {} /\ Len(pool) = 0 /\ InPool = {}
  BY <1>1 DEF InPool
<1>5. PoolTypes
  BY <1>1, <1>2, <1>4, NothingOwed DEF PoolTypes
<1>6. \A r \in Requesters, k \in Conns : ~Holds(r, k)
  BY <1>2, <1>3 DEF Holds, Using
<1>7. HoldersInv
  BY <1>2, <1>3, <1>4, <1>6, NothingOwed DEF HoldersInv, Using
<1>8. SizesInv
  <2>1. Pooled = {} /\ Counting = {}
    BY <1>2, <1>3, NothingOwed DEF Pooled, Counting
  <2> QED
    BY <1>1, <1>4, <2>1, FS_EmptySet, PoolAssumption DEF SizesInv
<1>9. ResponseInv
  BY <1>1, <1>2, <1>3, <1>4, <1>6, NothingOwed DEF ResponseInv, Asked
<1> QED
  BY <1>5, <1>7, <1>8, <1>9 DEF ClientInv, PoolInv

LEMMA PoolExact ==
  ASSUME PoolInv
  PROVE  PoolIsExact
<1>1. IsInjective(pool) /\ Len(pool) <= m_maxSize
  BY DEF PoolInv, SizesInv, IsInjective
<1>2. ASSUME NEW k \in Live
      PROVE  Cardinality({r \in Requesters : k \in req[r].conn /\ req[r].pc # "count"}) = (IF k \in Range(pool) THEN 0 ELSE 1)
  <2> DEFINE S == {r \in Requesters : k \in req[r].conn /\ req[r].pc # "count"}
  <2>1. \A r \in Requesters : r \in S <=> Holds(r, k)
    <3> TAKE r \in Requesters
    <3>1. req[r].pc \in Using \cup {"idle", "connect", "count", "done"}
      BY DEF PoolInv, PoolTypes, ReqType
    <3>2. CASE req[r].pc \in Using
      <4>1. PICK h \in Conns : req[r].conn = {h}
        BY <3>2 DEF PoolInv, HoldersInv
      <4> QED
        BY <3>2, <4>1 DEF Holds, Using
    <3>3. CASE req[r].pc \in {"idle", "connect", "done"}
      BY <3>3 DEF PoolInv, HoldersInv, Holds, Using
    <3>4. CASE req[r].pc = "count"
      BY <3>4 DEF Holds, Using
    <3> QED
      BY <3>1, <3>2, <3>3, <3>4
  <2>2. S \subseteq Requesters /\ k \in Conns /\ conn[k].live /\ Range(pool) = InPool
    BY DEF Live, Range, InPool
  <2> HIDE DEF S
  <2>3. CASE k \in Range(pool)
    <3>1. S = {}
      BY <2>1, <2>2, <2>3 DEF PoolInv, HoldersInv
    <3> QED
      BY <2>3, <3>1, FS_EmptySet DEF S
  <2>4. CASE k \notin Range(pool)
    <3>1. PICK r \in Requesters : Holds(r, k)
      BY <2>2, <2>4 DEF PoolInv, HoldersInv
    <3>2. S = {r}
      BY <2>1, <2>2, <3>1 DEF PoolInv, HoldersInv
    <3> QED
      BY <2>4, <3>2, FS_Singleton DEF S
  <2> QED
    BY <2>3, <2>4
<1>3. \A i \in DOMAIN pool : conn[pool[i]].live /\ conn[pool[i]].connected
  BY DEF PoolInv, HoldersInv, InPool
<1>4. total = Cardinality({k \in Live : conn[k].pooled}) + Cardinality({r \in Requesters : req[r].pc = "count"})
  <2>1. {k \in Live : conn[k].pooled} = Pooled
    BY DEF Live, Pooled
  <2> QED
    BY <2>1 DEF PoolInv, SizesInv, Counting
<1> QED
  BY <1>1, <1>2, <1>3, <1>4 DEF PoolIsExact

LEMMA ClientKept == Spec => []ClientInv
<1>1. ASSUME ClientInv, [Next]_vars PROVE ClientInv'
  <2>1. CASE UNCHANGED poolVars
    <3>1. pool' = pool /\ conn' = conn /\ total' = total /\ req' = req /\ requests' = requests
      BY <2>1 DEF poolVars
    <3>2. /\ InPool' = InPool /\ Pooled' = Pooled /\ Counting' = Counting
          /\ \A r \in Requesters, k \in Conns : Holds(r, k)' <=> Holds(r, k)
      BY <3>1 DEF InPool, Pooled, Counting, Holds
    <3>3. PoolTypes' /\ SizesInv'
      BY <1>1, <3>1, <3>2 DEF ClientInv, PoolInv, PoolTypes, SizesInv
    <3>4. HoldersInv'
      BY <1>1, <3>1, <3>2 DEF ClientInv, PoolInv, HoldersInv
    <3>5. ResponseInv'
      BY <1>1, <3>1, <3>2 DEF ClientInv, ResponseInv
    <3> QED
      BY <3>3, <3>4, <3>5 DEF ClientInv, PoolInv
  <2>2. CASE PoolNext
    BY <1>1, <2>2, ClientStep
  <2> QED
    BY <1>1, <2>1, <2>2 DEF Next, vars, OfGroup, OfPool, OfServer, OfMySql, OfSockets, OfSlowLog, OfRotation, OfSaves
<1> QED
  BY <1>1, ClientStart, PTL DEF Spec

\* The resources of the services are exact: no HTTP connection is lost, shared or counted wrongly
\* (HttpConnectionPool, httpconnection.cpp), no MySQL connection is in two places, and while no
\* socket has two closers a descriptor belongs to one socket.
THEOREM ResourcesAreKept == Spec => []ResourcesAreExact
<1>1. Init => MySqlInv /\ SocketInv
  BY MySqlStart, SocketStart
<1>2. ASSUME MySqlInv, [Next]_vars PROVE MySqlInv'
  <2>1. CASE UNCHANGED mysqlVars
    BY <1>2, <2>1 DEF mysqlVars, MySqlInv, UserInv, QueueOfIdle, Places, Idle, Taken, Users
  <2>2. CASE MySqlNext
    BY <1>2, <2>2, MySqlStep
  <2> QED
    BY <1>2, <2>1, <2>2 DEF Next, vars, OfGroup, OfPool, OfServer, OfMySql, OfSockets, OfSlowLog, OfRotation, OfSaves
<1>3. ASSUME SocketInv, [Next]_vars PROVE SocketInv'
  <2>1. CASE UNCHANGED socketVars
    BY <1>3, <2>1 DEF socketVars, SocketInv, SocketTypes, SocketsApart, Opened, Accepted, Closed, Registered
  <2>2. CASE SocketNext
    BY <1>3, <2>2, SocketStep
  <2> QED
    BY <1>3, <2>1, <2>2 DEF Next, vars, OfGroup, OfPool, OfServer, OfMySql, OfSockets, OfSlowLog, OfRotation, OfSaves
<1>4. ClientInv /\ MySqlInv /\ SocketInv => ResourcesAreExact
  BY PoolExact, MySqlExact, SocketExact DEF ResourcesAreExact, ClientInv
<1> QED
  BY <1>1, <1>2, <1>3, <1>4, ClientKept, PTL DEF Spec

\* A request of the HTTP client returns with its own response, or with an earlier one on a pooled
\* connection on which somebody gave up a response (HttpConnection::doRequest and ReleasePtr).
THEOREM ResponsesAreOwn == Spec => []ResponseIsOwn
<1>1. ClientInv => ResponseIsOwn
  <2> SUFFICES ASSUME ClientInv, NEW r \in Requesters, req[r].got \notin {0, req[r].id}
               PROVE  /\ req[r].got < req[r].id
                      /\ req[r].pc \in {"release", "push"} => conn[Held(r)].behind /\ conn[Held(r)].pooled
    BY DEF ResponseIsOwn
  <2>1. req[r].got < req[r].id
    BY DEF ClientInv, ResponseInv, Asked
  <2>2. ASSUME req[r].pc \in {"release", "push"} PROVE conn[Held(r)].behind /\ conn[Held(r)].pooled
    <3>1. Held(r) \in Conns /\ Holds(r, Held(r))
      BY <2>2, HeldConn DEF ClientInv, Using
    <3> QED
      BY <3>1 DEF ClientInv, ResponseInv, Mine
  <2> QED
    BY <2>1, <2>2
<1> QED
  BY <1>1, ClientKept, PTL
=============================================================================
