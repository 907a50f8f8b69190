-------------------------------- MODULE Timers --------------------------------
(***************************************************************************)
(* Timer and TimerManager (src/src/core/timer.{h,cpp}) with the loop of    *)
(* the IOManager's epoll thread that drives them (IOManager::idle: the     *)
(* timeout from getNextTime, processExpired, and the eventfd that tickle() *)
(* writes). Time is counted in milliseconds.                               *)
(*                                                                         *)
(* m_timers, a std::set ordered by expiry, is the sequence of its          *)
(* in-order traversal. processExpired changes the expiry of a recurring    *)
(* timer inside the set; from then on the set may be out of order, and     *)
(* where an insertion ends up and whether a lookup succeeds depends on the *)
(* shape of the tree: both are then left open.                             *)
(***************************************************************************)
EXTENDS Integers, Sequences, SequencesExt

CONSTANTS
  Timers,      \* the timers that get created
  Ms,          \* the period each is created with
  Recurring,   \* those created with recurring == true
  ResetMs,     \* periods handed to reset()
  MaxResets,   \* bound: calls of reset()
  MaxTime,     \* bound: the clock
  MaxWait      \* MAX_WAIT_TIMEOUT

ASSUME TimersAssumption ==
  /\ Ms \in [Timers -> Nat] /\ Recurring \subseteq Timers
  /\ ResetMs \subseteq Nat
  /\ MaxTime \in Nat /\ MaxWait \in Nat \ {0} /\ MaxResets \in Nat

VARIABLES
  now,        \* the steady clock
  set,        \* m_timers in traversal order
  expire, ms, \* m_expire and m_ms of each timer
  cb,         \* the timers whose m_cb or m_handle is not null
  created,    \* history: timers that exist
  owing,      \* threads that inserted at the front and have not tickled yet
  tickle,     \* the eventfd is readable
  ipc,        \* where the epoll thread is in idle()
  wakeAt,     \* when its epoll_wait times out
  woken,      \* epoll_wait reported the eventfd
  pnow,       \* processExpired's `now`
  expired,    \* its to_process
  fired,      \* history: how often each timer was scheduled
  resets      \* number of reset() calls, bounded by MaxResets

vars == <<now, set, expire, ms, cb, created, owing, tickle, ipc, wakeAt, woken, pnow,
          expired, fired, resets>>
idleVars == <<ipc, wakeAt, woken, pnow, expired, fired>>

Elems(s) == {s[i] : i \in 1 .. Len(s)}

\* The traversal order agrees with the expiry times.
Sorted(s, e) == \A i, j \in 1 .. Len(s) : i < j => e[s[i]] <= e[s[j]]

Init ==
  /\ now = 0
  /\ set = <<>>
  /\ expire = [t \in Timers |-> 0] /\ ms = Ms
  /\ cb = {} /\ created = {} /\ owing = {}
  /\ tickle = FALSE
  /\ ipc = "plan" /\ wakeAt = 0 /\ woken = FALSE
  /\ pnow = 0 /\ expired = <<>>
  /\ fired = [t \in Timers |-> 0]
  /\ resets = 0

\* The clock advances, not beyond a time at which the epoll thread must wake.
Tick ==
  /\ now < MaxTime
  /\ ipc = "sleep" => now < wakeAt /\ ~tickle
  /\ now' = now + 1
  /\ UNCHANGED <<set, expire, ms, cb, created, owing, tickle, idleVars, resets>>

-----------------------------------------------------------------------------
(* The set. *)

\* Positions at which m_timers.insert may put t, given the expiry times e.
\* Timers with equal expiry are ordered by address.
Places(s, t, e) ==
  {p \in 0 .. Len(s) :
     Sorted(s, e) => /\ \A i \in 1 .. p : e[s[i]] <= e[t]
                     /\ \A i \in p + 1 .. Len(s) : e[t] <= e[s[i]]}

\* The sequence without t, which it holds at most once.
Without(s, t) ==
  IF t \in Elems(s) THEN RemoveAt(s, CHOOSE i \in 1 .. Len(s) : s[i] = t) ELSE s

\* What erasing t by key may leave: in a set that is out of order the lookup
\* may miss it.
Erasures(s, t) == {Without(s, t)} \cup (IF Sorted(s, expire) THEN {} ELSE {s})

-----------------------------------------------------------------------------
(* Timer and TimerManager. *)

\* Mutant of AddTimer: only the first timer of an empty set tickles.
AddTimerTicklesEmpty(t) ==
  /\ t \notin created
  /\ created' = created \cup {t}
  /\ cb' = cb \cup {t}
  /\ expire' = [expire EXCEPT ![t] = now + ms[t]]
  /\ \E p \in Places(set, t, expire') : set' = InsertAt(set, p + 1, t)
  /\ owing' = IF set = <<>> THEN owing \cup {t} ELSE owing
  /\ UNCHANGED <<now, ms, tickle, idleVars, resets>>

\* addTimer(): the timer is created and inserted; a thread that inserted at the
\* front has to tickle.
AddTimer(t) ==
  /\ t \notin created
  /\ created' = created \cup {t}
  /\ cb' = cb \cup {t}
  /\ expire' = [expire EXCEPT ![t] = now + ms[t]]
  /\ \E p \in Places(set, t, expire') :
       /\ set' = InsertAt(set, p + 1, t)
       /\ owing' = IF p = 0 THEN owing \cup {t} ELSE owing
  /\ UNCHANGED <<now, ms, tickle, idleVars, resets>>

\* onTimerInsertedAtFront(), after the lock is released.
Tickle(t) ==
  /\ t \in owing
  /\ owing' = owing \ {t}
  /\ tickle' = TRUE
  /\ UNCHANGED <<now, set, expire, ms, cb, created, idleVars, resets>>

\* Timer::cancel(): empties the callback and erases the timer.
Cancel(t) ==
  /\ t \in created
  /\ cb' = cb \ {t}
  /\ set' \in Erasures(set, t)
  /\ UNCHANGED <<now, expire, ms, created, owing, tickle, idleVars, resets>>

\* Timer::reset(m, from_now). Without from_now the start is computed from the
\* period that was just stored, so the expiry stays what it is.
Reset(t, m, fromNow) ==
  /\ t \in created
  /\ resets < MaxResets
  /\ resets' = resets + 1
  /\ ms' = [ms EXCEPT ![t] = m]
  /\ LET start == IF fromNow THEN now ELSE expire[t] - m
         later == start + m
     IN IF later = expire[t] \/ t \notin Elems(set)
        THEN UNCHANGED <<set, expire, owing>>
        ELSE \/ /\ ~Sorted(set, expire)         \* find() misses: returns false
                /\ UNCHANGED <<set, expire, owing>>
             \/ /\ expire' = [expire EXCEPT ![t] = later]
                /\ \E p \in Places(Without(set, t), t, expire') :
                     /\ set' = InsertAt(Without(set, t), p + 1, t)
                     /\ owing' = IF p = 0 THEN owing \cup {t} ELSE owing
  /\ UNCHANGED <<now, cb, created, tickle, idleVars>>

\* TimerManager::clear()
Clear ==
  /\ cb' = cb \ Elems(set)
  /\ set' = <<>>
  /\ set # <<>>
  /\ UNCHANGED <<now, expire, ms, created, owing, tickle, idleVars, resets>>

-----------------------------------------------------------------------------
(* The epoll thread. *)

\* getNextTime(), which looks at the first timer of the set only.
NextTime ==
  IF set = <<>> THEN MaxWait
  ELSE IF now >= expire[set[1]] THEN 0
  ELSE expire[set[1]] - now

SmallerOf(a, b) == IF a < b THEN a ELSE b

\* The timeout is computed and epoll_wait entered.
Plan ==
  /\ ipc = "plan"
  /\ ipc' = "sleep"
  /\ wakeAt' = now + SmallerOf(NextTime, MaxWait)
  /\ UNCHANGED <<now, set, expire, ms, cb, created, owing, tickle, woken, pnow, expired,
                 fired, resets>>

\* epoll_wait returns, on the eventfd, on a timeout or for some descriptor.
WakeUp ==
  /\ ipc = "sleep"
  /\ woken' = tickle
  /\ pnow' = now                       \* processExpired reads the clock
  /\ ipc' = "collect"
  /\ UNCHANGED <<now, set, expire, ms, cb, created, owing, tickle, wakeAt, expired,
                 fired, resets>>

\* Mutant of ExpiredPrefix: a timer that expires this millisecond is left.
ExpiredPrefixStrict ==
  CHOOSE n \in 0 .. Len(set) :
    /\ \A i \in 1 .. n : expire[set[i]] < pnow
    /\ n < Len(set) => expire[set[n + 1]] >= pnow

\* The timers processExpired visits: the longest expired prefix of the set.
ExpiredPrefix ==
  CHOOSE n \in 0 .. Len(set) :
    /\ \A i \in 1 .. n : expire[set[i]] <= pnow
    /\ n < Len(set) => expire[set[n + 1]] > pnow

\* The recurring timers among those visited, in their order.
Staying(hit) == FlattenSeq([i \in 1 .. Len(hit) |-> IF hit[i] \in Recurring THEN <<hit[i]>> ELSE <<>>])

\* Mutant of Collect: the first expired timer is erased but not scheduled.
CollectSkipsFirst ==
  /\ ipc = "collect"
  /\ LET hit == SubSeq(set, 1, ExpiredPrefix)
     IN /\ expired' = SubSeq(hit, 2, Len(hit))
        /\ set' = SubSeq(set, Len(hit) + 1, Len(set))
  /\ ipc' = "fire"
  /\ UNCHANGED <<now, expire, ms, cb, created, owing, tickle, wakeAt, woken, pnow, fired,
                 resets>>

\* processExpired() under its lock: one-shot timers leave the set, recurring
\* ones stay where they are with a new expiry.
Collect ==
  /\ ipc = "collect"
  /\ LET hit == SubSeq(set, 1, ExpiredPrefix)
     IN /\ expired' = hit
        /\ set' = Staying(hit) \o SubSeq(set, Len(hit) + 1, Len(set))
        /\ expire' = [t \in Timers |-> IF t \in Elems(hit) /\ t \in Recurring
                                       THEN pnow + ms[t] ELSE expire[t]]
  /\ ipc' = "fire"
  /\ UNCHANGED <<now, ms, cb, created, owing, tickle, wakeAt, woken, pnow, fired, resets>>

\* The collected timers are scheduled one by one, without the lock; one that
\* was cancelled meanwhile has neither callback nor handle left.
Fire ==
  /\ ipc = "fire"
  /\ expired # <<>>
  /\ expired' = Tail(expired)
  /\ fired' = [fired EXCEPT ![Head(expired)] = IF Head(expired) \in cb THEN @ + 1 ELSE @]
  /\ UNCHANGED <<now, set, expire, ms, cb, created, owing, tickle, ipc, wakeAt, woken,
                 pnow, resets>>

\* The event loop of idle() drains the eventfd if it was reported.
DrainEventfd ==
  /\ ipc = "fire"
  /\ expired = <<>>
  /\ tickle' = (tickle /\ ~woken)
  /\ ipc' = "plan"
  /\ UNCHANGED <<now, set, expire, ms, cb, created, owing, wakeAt, woken, pnow, expired,
                 fired, resets>>

IdleStep == Plan \/ Collect \/ Fire \/ DrainEventfd

Next ==
  \/ Tick
  \/ \E t \in Timers :
       \/ AddTimer(t) \/ Tickle(t) \/ Cancel(t)
       \/ \E m \in ResetMs, f \in BOOLEAN : Reset(t, m, f)
  \/ Clear
  \/ WakeUp \/ IdleStep

\* The clock goes on, a thread inside addTimer() finishes it, and the epoll
\* thread runs; epoll_wait returns when its timeout or a tickle is due.
Fairness ==
  /\ WF_vars(Tick)
  /\ \A t \in Timers : WF_vars(Tickle(t))
  /\ WF_vars(IdleStep)
  /\ WF_vars(WakeUp /\ (tickle \/ now >= wakeAt))

Spec == Init /\ [][Next]_vars /\ Fairness

-----------------------------------------------------------------------------
(* Properties. *)

TypeOK ==
  /\ now \in 0 .. MaxTime
  /\ set \in Seq(Timers)
  /\ expire \in [Timers -> Nat] /\ ms \in [Timers -> Nat]
  /\ cb \subseteq created /\ created \subseteq Timers /\ owing \subseteq Timers
  /\ tickle \in BOOLEAN /\ woken \in BOOLEAN
  /\ ipc \in {"plan", "sleep", "collect", "fire"}
  /\ wakeAt \in Nat /\ pnow \in 0 .. MaxTime
  /\ expired \in Seq(Timers)
  /\ fired \in [Timers -> Nat]
  /\ resets \in 0 .. MaxResets

\* The epoll thread never oversleeps: while it sleeps and no tickle is on its
\* way, its timeout is no later than the expiry of any timer, however
\* addTimer(), reset() and cancel() changed the set since it went to sleep.
NoOversleep ==
  ipc = "sleep" /\ ~tickle /\ owing = {} =>
    \A t \in Elems(set) : wakeAt <= expire[t] \/ wakeAt <= now

\* timer.h: processExpired() handles all expired timers, so none that was due
\* when it read the clock is left in the set; and it takes none before its time,
\* nor a one-shot timer that was scheduled before, whatever cancel() and reset()
\* did in between.
ProcessesAllExpired ==
  [][ipc = "collect" /\ ipc' = "fire" =>
       /\ \A t \in Elems(set') : expire'[t] > pnow
       /\ \A t \in Elems(expired') : expire[t] <= pnow
       /\ \A t \in Elems(expired') \ Recurring : fired[t] = 0]_vars

\* A timer of the set whose time comes is scheduled, unless it is cancelled or
\* reset to a time beyond the clock's bound.
TimerFires ==
  \A t \in Timers : t \in Elems(set) ~> fired[t] > 0 \/ t \notin cb \/ expire[t] > MaxTime
=============================================================================
