------------------------------ MODULE SlowLog ------------------------------
(***************************************************************************)
(* The slow log: SlowLogModule (redis_command/modules/slowlog.cpp) and the *)
(* ring it is fed through, SPSCQueue (src/src/util/spscqueue.h).           *)
(*                                                                         *)
(* Every thread that runs a slow command pushes an entry, so the ring for  *)
(* one producer has several.  An entry is its id.  Assigning an entry to a *)
(* slot is not atomic: a slot that is written or read while another thread *)
(* writes it holds Torn.  SLOWLOG GET and LEN move the entries to          *)
(* m_slow_logs_cache, SLOWLOG RESET drops them, both under the mutex of    *)
(* the cache, so there is one consumer at a time.                          *)
(***************************************************************************)
EXTENDS Integers, Sequences, SequencesExt

CONSTANTS Pushers,      \* threads that run commands
          Capacity,     \* slots of the ring, a power of two
          MaxLens,      \* values of slowlog-max-len
          MaxEntries,   \* bound: entries made
          MaxSyncs      \* bound: SLOWLOG commands

Torn == 0
Slots == 0 .. (Capacity - 1)

VARIABLES m_buffer, m_write, m_read,   \* the ring
          m_slow_log_id,
          m_cache,                     \* m_slow_logs_cache
          max_len,                     \* s_slow_log_max_len
          pusher,                      \* where each pusher is in push()
          reader,                      \* what the holder of the mutex is doing
          made, syncs,                 \* counters for the bounds
          accepted,                    \* history: entries that came into the log and were not reset,
                                       \* followed until two threads overlap
          overlapped                   \* history: two threads were in push() at a time
slowVars == <<m_buffer, m_write, m_read, m_slow_log_id, m_cache, max_len, pusher, reader, made, syncs, accepted, overlapped>>

Resting == [pc |-> "run", id |-> 0, w |-> 0]

SlowInit ==
  /\ m_buffer = [i \in Slots |-> Torn] /\ m_write = 0 /\ m_read = 0 /\ m_slow_log_id = 0
  /\ m_cache = <<>> /\ max_len = (CHOOSE n \in MaxLens : \A k \in MaxLens : k <= n) /\ reader = "none" /\ made = 0 /\ syncs = 0
  /\ pusher = [p \in Pushers |-> Resting] /\ accepted = <<>> /\ overlapped = FALSE

LastN(s, n) == SubSeq(s, Len(s) - n + 1, Len(s))
NextSlot(i) == (i + 1) % Capacity

\* pushEntry: a command was slow.
pushEntry(p) ==
  /\ pusher[p].pc = "run" /\ made < MaxEntries
  /\ made' = made + 1 /\ m_slow_log_id' = m_slow_log_id + 1
  /\ pusher' = [pusher EXCEPT ![p] = [pc |-> "load", id |-> m_slow_log_id', w |-> 0]]
  /\ UNCHANGED <<m_buffer, m_write, m_read, m_cache, max_len, reader, syncs, accepted, overlapped>>

\* push() reads m_write and gives up when the ring is full; pushEntry does not notice.
PushLoads(p) ==
  /\ pusher[p].pc = "load"
  /\ pusher' = [pusher EXCEPT ![p] = IF NextSlot(m_write) = m_read THEN Resting
                                     ELSE [@ EXCEPT !.pc = "assign", !.w = m_write]]
  /\ overlapped' = (overlapped \/ \E q \in Pushers \ {p} : pusher[q].pc \in {"assign", "assigning", "publish"})
  /\ UNCHANGED <<m_buffer, m_write, m_read, m_slow_log_id, m_cache, max_len, reader, made, syncs, accepted>>

\* m_buffer[w] = item begins and ends.
PushAssigns(p) ==
  /\ pusher[p].pc = "assign"
  /\ m_buffer' = [m_buffer EXCEPT ![pusher[p].w] = Torn]
  /\ pusher' = [pusher EXCEPT ![p].pc = "assigning"]
  /\ UNCHANGED <<m_write, m_read, m_slow_log_id, m_cache, max_len, reader, made, syncs, accepted, overlapped>>
PushAssigned(p) ==
  LET torn == \E q \in Pushers \ {p} : pusher[q].pc = "assigning" /\ pusher[q].w = pusher[p].w
  IN /\ pusher[p].pc = "assigning"
     /\ m_buffer' = [m_buffer EXCEPT ![pusher[p].w] = IF torn THEN Torn ELSE pusher[p].id]
     /\ pusher' = [pusher EXCEPT ![p].pc = "publish"]
     /\ UNCHANGED <<m_write, m_read, m_slow_log_id, m_cache, max_len, reader, made, syncs, accepted, overlapped>>

PushPublishes(p) ==
  /\ pusher[p].pc = "publish"
  /\ m_write' = NextSlot(pusher[p].w)
  /\ accepted' = IF overlapped THEN <<>> ELSE Append(accepted, pusher[p].id)
  /\ pusher' = [pusher EXCEPT ![p] = Resting]
  /\ UNCHANGED <<m_buffer, m_read, m_slow_log_id, m_cache, max_len, reader, made, syncs, overlapped>>

-----------------------------------------------------------------------------
(* SLOWLOG. *)

\* Under the lock from here to the empty ring.
BeginSync ==
  /\ reader = "none" /\ syncs < MaxSyncs /\ syncs' = syncs + 1 /\ reader' = "sync"
  /\ UNCHANGED <<m_buffer, m_write, m_read, m_slow_log_id, m_cache, max_len, pusher, made, accepted, overlapped>>

Longer(cache) == IF Len(cache) > max_len THEN Tail(cache) ELSE cache
syncSlowLogs ==
  /\ reader = "sync"
  /\ IF m_read = m_write THEN reader' = "none" /\ UNCHANGED <<m_read, m_cache>>
     ELSE /\ m_cache' = Longer(Append(m_cache, m_buffer[m_read])) /\ m_read' = NextSlot(m_read)
          /\ UNCHANGED reader
  /\ UNCHANGED <<m_buffer, m_write, m_slow_log_id, max_len, pusher, made, syncs, accepted, overlapped>>

\* reset(): the cache, the ring, and at the end the numbering.
BeginReset ==
  /\ reader = "none" /\ syncs < MaxSyncs /\ syncs' = syncs + 1 /\ reader' = "reset"
  /\ m_cache' = <<>>
  /\ accepted' = IF overlapped THEN <<>> ELSE LastN(accepted, (m_write - m_read) % Capacity)
  /\ UNCHANGED <<m_buffer, m_write, m_read, m_slow_log_id, max_len, pusher, made, overlapped>>
reset ==
  /\ reader = "reset"
  /\ IF m_read = m_write THEN reader' = "none" /\ m_slow_log_id' = 0 /\ UNCHANGED <<m_read, accepted>>
     ELSE /\ m_read' = NextSlot(m_read) /\ accepted' = (IF overlapped THEN <<>> ELSE Tail(accepted))
          /\ UNCHANGED <<reader, m_slow_log_id>>
  /\ UNCHANGED <<m_buffer, m_write, m_cache, max_len, pusher, made, syncs, overlapped>>

\* CONFIG SET slowlog-max-len
SetMaxLen ==
  /\ syncs < MaxSyncs /\ syncs' = syncs + 1 /\ max_len' \in MaxLens \ {max_len}
  /\ UNCHANGED <<m_buffer, m_write, m_read, m_slow_log_id, m_cache, pusher, reader, made, accepted, overlapped>>

PusherStep(p) == pushEntry(p) \/ PushLoads(p) \/ PushAssigns(p) \/ PushAssigned(p) \/ PushPublishes(p)
SlowNext ==
  \/ BeginSync \/ syncSlowLogs \/ BeginReset \/ reset \/ SetMaxLen
  \/ \E p \in Pushers : PusherStep(p)

-----------------------------------------------------------------------------
(* Properties. *)

Queued == [i \in 1 .. ((m_write - m_read) % Capacity) |-> m_buffer[(m_read + i - 1) % Capacity]]
\* getSlowLogs(count): the newest entries of the cache, at most count.
getSlowLogs(n) == LastN(m_cache, IF n < Len(m_cache) THEN n ELSE Len(m_cache))

\* As long as no two commands were being logged at a time, the cache and the ring together hold
\* the newest of the entries that came in, whole and in their order, and an entry is missing only
\* from a cache that has reached slowlog-max-len (which never shortens a cache that is longer).
SlowLogIsExact ==
  ~overlapped =>
    LET known == m_cache \o Queued
    IN /\ IsSuffix(known, accepted)
       /\ known # accepted => \E n \in MaxLens : Len(m_cache) >= n
       /\ \A n \in MaxLens : Len(m_cache) <= n \/ \E k \in MaxLens : k > n
       /\ IsSuffix(getSlowLogs(1), m_cache)
=============================================================================
