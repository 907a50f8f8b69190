------------------------------ MODULE Keyspace ------------------------------
(***************************************************************************)
(* What the commands of redis_command/command/command_handler_table.cpp do *)
(* to one database, as operators on its contents: a command's operator     *)
(* takes the contents d and the command's arguments and returns the new    *)
(* contents (a write) or the reply (a read).                               *)
(*                                                                         *)
(* The contents are the six maps of struct DataShard (server_data.h:56),   *)
(* merged over the shards of the database: a key always hashes to the same *)
(* shard, so the shard only matters where a handler looks at it (RENAME,   *)
(* FLUSHDB, SCAN).  The maps are independent: nothing stops a key from     *)
(* being in several of them.  A skip list is the set of its                *)
(* <<score, member>> pairs; module SkipList shows that the list keeps them *)
(* sorted, which is what Ordered() assumes.                                *)
(*                                                                         *)
(* Data.  A character is a number, a digit when it is below 10; a string   *)
(* value is a sequence of characters, an element of a collection is one    *)
(* character.  A point of time is its distance from now, so that it is     *)
(* past when it is negative; an optional is a set of at most one element.  *)
(***************************************************************************)
EXTENDS Integers, Sequences, FiniteSets, SequencesExt

CONSTANTS Keys,     \* the names of keys, numbers
          ShardOf   \* the shard of a key: std::hash(key) % SHARD_COUNT

ASSUME KeysAreNumbers == Keys \subseteq Nat
ASSUME ShardsAreNumbers == ShardOf \in [Keys -> Nat]

Types == <<"store", "hash", "lists", "sets", "zset">>

EmptyDb == [store |-> <<>>, hash |-> <<>>, lists |-> <<>>, sets |-> <<>>,
            zset |-> <<>>, zset_score |-> <<>>]

Has(f, k) == k \in DOMAIN f
Put(f, k, v) == [x \in DOMAIN f \cup {k} |-> IF x = k THEN v ELSE f[x]]
Drop(f, k) == [x \in DOMAIN f \ {k} |-> f[x]]
Get(f, k, none) == IF Has(f, k) THEN f[k] ELSE none

\* The collection v under k, erased when nothing is left in it.
PutOrErase(f, k, v, nothing) == IF v = nothing THEN Drop(f, k) ELSE Put(f, k, v)

(***************************************************************************)
(* Strings.                                                                *)
(***************************************************************************)
StoreData(val, expire) == [val |-> val, expire |-> expire]
IsExpired(sd) == \E t \in sd.expire : t < 0

Digit == 0..9
\* std::stoll reads the longest prefix of digits and throws when there is none.
Digits(s) == LET bad == {i \in DOMAIN s : s[i] \notin Digit}
             IN IF bad = {} THEN s ELSE SubSeq(s, 1, Min(bad) - 1)
IsNumber(s) == Digits(s) # <<>>
stoll(s) == FoldLeft(LAMBDA n, c : 10 * n + c, 0, Digits(s))
to_string(n) == IF n < 10 THEN <<n>> ELSE <<n \div 10, n % 10>>

SET(d, k, v, e) == [d EXCEPT !.store = Put(@, k, StoreData(<<v>>, e))]

GETSET(d, k, v) ==
  [d EXCEPT !.store = Put(@, k, StoreData(<<v>>, IF Has(@, k) THEN @[k].expire ELSE {}))]

APPEND(d, k, v) ==
  [d EXCEPT !.store = Put(@, k, IF Has(@, k) THEN StoreData(Append(@[k].val, v), @[k].expire)
                                             ELSE StoreData(<<v>>, {}))]

SETNX(d, k, v) == IF Has(d.store, k) THEN d ELSE SET(d, k, v, {})

DEL(d, k) == [d EXCEPT !.store = Drop(@, k)]

INCRBY(d, k, n) ==
  IF ~Has(d.store, k)
    THEN [d EXCEPT !.store = Put(@, k, StoreData(to_string(n), {}))]
    ELSE IF IsNumber(d.store[k].val)
           THEN [d EXCEPT !.store = Put(@, k, StoreData(to_string(stoll(@[k].val) + n), @[k].expire))]
           ELSE d

INCR(d, k) == INCRBY(d, k, 1)

\* PEXPIRE counts in units of time, EXPIRE in seconds; both refuse a time that is
\* not positive and know strings only.
Second == 2
PEXPIRE(d, k, t) ==
  IF t > 0 /\ Has(d.store, k) THEN [d EXCEPT !.store = Put(@, k, StoreData(@[k].val, {t}))] ELSE d
EXPIRE(d, k, s) ==
  IF s > 0 /\ Has(d.store, k) THEN [d EXCEPT !.store = Put(@, k, StoreData(@[k].val, {Second * s}))] ELSE d

PERSIST(d, k) ==
  IF Has(d.store, k) /\ d.store[k].expire # {}
    THEN [d EXCEPT !.store = Put(@, k, StoreData(@[k].val, {}))] ELSE d

\* -2 for no value or one whose time has come, -1 for one that does not expire.
PTTL(d, k) == IF ~Has(d.store, k) THEN -2
              ELSE IF d.store[k].expire = {} THEN -1
              ELSE LET t == CHOOSE x \in d.store[k].expire : TRUE
                   IN IF t <= 0 THEN -2 ELSE t
TTL(d, k) == IF ~Has(d.store, k) THEN -2
             ELSE IF d.store[k].expire = {} THEN -1
             ELSE LET t == CHOOSE x \in d.store[k].expire : TRUE
                  IN IF t <= 0 THEN -2 ELSE t \div Second

\* The first of the maps that has the key, in the order in which TYPE asks.
TYPE(d, k) == IF Has(d.store, k) THEN "string" ELSE IF Has(d.hash, k) THEN "hash"
              ELSE IF Has(d.lists, k) THEN "list" ELSE IF Has(d.zset, k) THEN "zset"
              ELSE IF Has(d.sets, k) THEN "set" ELSE "none"

\* STRLEN, HLEN, HEXISTS, HKEYS and HVALS refuse a key of another type.
WrongType(d, k, map) == ~Has(d[map], k) /\ TYPE(d, k) # "none"
STRLEN(d, k) == IF ~Has(d.store, k) THEN 0 ELSE Len(d.store[k].val)
EXISTS(d, k) == \E i \in 1..5 : Has(d[Types[i]], k)

\* The counts of DBSIZE, which leaves the sets out, and of INFO (getTotalKeys).
DBSIZE(d) == Cardinality(DOMAIN d.store) + Cardinality(DOMAIN d.lists)
             + Cardinality(DOMAIN d.hash) + Cardinality(DOMAIN d.zset)
getTotalKeys(d) == DBSIZE(d) + Cardinality(DOMAIN d.sets)
RANDOMKEY(d) == UNION {DOMAIN d[Types[i]] : i \in 1..5}

\* The keys that match the pattern, shard by shard and map by map; a shard is not
\* begun once max keys were found.
KEYS(d, matches, max) ==
  LET of(s, i) == SetToSeq({k \in DOMAIN d[Types[i]] : ShardOf[k] = s /\ k \in matches})
      shard(s) == of(s, 1) \o of(s, 2) \o of(s, 3) \o of(s, 4) \o of(s, 5)
      last == Max({ShardOf[k] : k \in Keys})
  IN FoldLeft(LAMBDA found, i : IF Len(found) >= max THEN found ELSE found \o shard(i - 1),
              <<>>, [i \in 1..last + 1 |-> i])

(***************************************************************************)
(* Hashes.  HSET handles one field and value per turn of its lock.         *)
(***************************************************************************)
HSET(d, k, f, v) == [d EXCEPT !.hash = Put(@, k, Put(Get(@, k, <<>>), f, v))]
HDEL(d, k, fs) ==
  IF Has(d.hash, k)
    THEN [d EXCEPT !.hash = PutOrErase(@, k, [f \in DOMAIN @[k] \ fs |-> @[k][f]], <<>>)] ELSE d
HGET(d, k, f) == LET h == Get(d.hash, k, <<>>) IN IF Has(h, f) THEN {h[f]} ELSE {}
HGETALL(d, k) == LET h == Get(d.hash, k, <<>>) IN {<<f, h[f]>> : f \in DOMAIN h}
HKEYS(d, k) == DOMAIN Get(d.hash, k, <<>>)
HVALS(d, k) == LET h == Get(d.hash, k, <<>>) IN {h[f] : f \in DOMAIN h}
HLEN(d, k) == Cardinality(HKEYS(d, k))
HEXISTS(d, k, f) == f \in HKEYS(d, k)

(***************************************************************************)
(* Lists.                                                                  *)
(***************************************************************************)
LPUSH(d, k, vs) == [d EXCEPT !.lists = Put(@, k, Reverse(vs) \o Get(@, k, <<>>))]
RPUSH(d, k, vs) == [d EXCEPT !.lists = Put(@, k, Get(@, k, <<>>) \o vs)]

\* An empty list under a key is answered like an absent one, and stays.
LPOP(d, k, n) ==
  IF Get(d.lists, k, <<>>) = <<>> THEN d
  ELSE [d EXCEPT !.lists = PutOrErase(@, k, SubSeq(@[k], n + 1, Len(@[k])), <<>>)]
RPOP(d, k, n) ==
  IF Get(d.lists, k, <<>>) = <<>> THEN d
  ELSE [d EXCEPT !.lists = PutOrErase(@, k, SubSeq(@[k], 1, Len(@[k]) - n), <<>>)]

LINSERT(d, k, after, pivot, v) ==
  LET l == Get(d.lists, k, <<>>)
      at == SelectInSeq(l, LAMBDA x : x = pivot)
  IN IF at = 0 THEN d ELSE [d EXCEPT !.lists[k] = InsertAt(l, IF after THEN at + 1 ELSE at, v)]

\* The test idx >= size is unsigned: every negative index is out of range.
InRange(l, idx) == idx >= 0 /\ idx < Len(l)
LSET(d, k, idx, v) ==
  IF InRange(Get(d.lists, k, <<>>), idx) THEN [d EXCEPT !.lists[k][idx + 1] = v] ELSE d
LINDEX(d, k, idx) == LET l == Get(d.lists, k, <<>>)
                     IN IF InRange(l, idx) THEN {l[idx + 1]} ELSE {}
LLEN(d, k) == Len(Get(d.lists, k, <<>>))

\* Mutant of Slice: a stop before the beginning is taken for the first position.
SliceClampsStop(s, start, stop) ==
  LET lo == IF start < 0 THEN start + Len(s) ELSE start
      hi == IF stop < 0 THEN 0 ELSE stop
  IN SubSeq(s, (IF lo < 0 THEN 0 ELSE lo) + 1, (IF hi >= Len(s) THEN Len(s) - 1 ELSE hi) + 1)

\* Positions start..stop of a sequence, counted from 0 or, below 0, from its end.
Slice(s, start, stop) ==
  LET lo == IF start < 0 THEN start + Len(s) ELSE start
      hi == IF stop < 0 THEN stop + Len(s) ELSE stop
  IN SubSeq(s, (IF lo < 0 THEN 0 ELSE lo) + 1, (IF hi >= Len(s) THEN Len(s) - 1 ELSE hi) + 1)
LRANGE(d, k, start, stop) == Slice(Get(d.lists, k, <<>>), start, stop)

\* The element is pushed through a reference into the node that was popped: `tem`
\* is whatever that memory holds by then.  The source list may be left empty.
MoveEnd(d, k, k2, tem, src, Push(_)) ==
  IF k = k2 \/ ~Has(d.lists, k) THEN d
  ELSE [d EXCEPT !.lists = Put(Put(@, k2, Push(Get(@, k2, <<>>))), k, src)]
RPOPLPUSH(d, k, k2, tem) ==
  MoveEnd(d, k, k2, tem, Front(Get(d.lists, k, <<>>)), LAMBDA l : <<tem>> \o l)
LPOPRPUSH(d, k, k2, tem) ==
  MoveEnd(d, k, k2, tem, Tail(Get(d.lists, k, <<>>)), LAMBDA l : Append(l, tem))

(***************************************************************************)
(* Sets.                                                                   *)
(***************************************************************************)
Members(d, k) == Get(d.sets, k, {})
SADD(d, k, ms) == [d EXCEPT !.sets = Put(@, k, Get(@, k, {}) \cup ms)]
SREM(d, k, ms) ==
  IF Has(d.sets, k) THEN [d EXCEPT !.sets = PutOrErase(@, k, @[k] \ ms, {})] ELSE d

\* SPOP removes `gone`, which it drew; it leaves an empty set alone.
SPOP(d, k, gone) == IF Members(d, k) = {} \/ gone = {} THEN d ELSE SREM(d, k, gone)
SPOPDraws(d, k, n) == {g \in SUBSET Members(d, k) : \/ Cardinality(g) = n
                                                    \/ Cardinality(g) < n /\ g = Members(d, k)}

\* The destination is created before the member is looked for.
SMOVE(d, k, k2, m) ==
  IF k = k2 \/ ~Has(d.sets, k) THEN d
  ELSE LET made == [d EXCEPT !.sets = Put(@, k2, Get(@, k2, {}))]
       IN IF m \notin d.sets[k] THEN made
          ELSE SREM([made EXCEPT !.sets[k2] = @ \cup {m}], k, {m})

SMEMBERS(d, k) == Members(d, k)
SISMEMBER(d, k, m) == m \in Members(d, k)
SCARD(d, k) == Cardinality(Members(d, k))
\* rand() % members.size() divides by zero when the set is there and empty.
SRANDMEMBERFaults(d, k) == Has(d.sets, k) /\ d.sets[k] = {}
SDIFF(d, k, ks) == Members(d, k) \ UNION {Members(d, x) : x \in ks}
SINTER(d, k, ks) == IF \E x \in ks : ~Has(d.sets, x) THEN {}
                    ELSE {m \in Members(d, k) : \A x \in ks : m \in d.sets[x]}
SUNION(d, k, ks) == IF Has(d.sets, k) THEN UNION {Members(d, x) : x \in ks \cup {k}} ELSE {}

(***************************************************************************)
(* Sorted sets: the skip list and the map from member to score.            *)
(***************************************************************************)
\* The scores map without the members ms, and the skip list without their pairs.
Without(scores, ms) == [m \in DOMAIN scores \ ms |-> scores[m]]
Unlink(list, scores, ms) == list \ {<<scores[m], m>> : m \in ms \cap DOMAIN scores}

\* Both maps get an entry before the score is parsed; `score` is empty when it is
\* not a number.
ZADD(d, k, score, m) ==
  LET list == Get(d.zset, k, {})
      scores == Get(d.zset_score, k, <<>>)
  IN IF score = {}
       THEN [d EXCEPT !.zset = Put(@, k, list), !.zset_score = Put(@, k, scores)]
       ELSE LET s == CHOOSE x \in score : TRUE
            IN [d EXCEPT !.zset = Put(@, k, Unlink(list, scores, {m}) \cup {<<s, m>>}),
                         !.zset_score = Put(@, k, Put(scores, m, s))]

\* Mutant of ZREM: the members leave the skip list only.
ZREMKeepsScores(d, k, ms) ==
  IF ~Has(d.zset, k) \/ ~Has(d.zset_score, k) THEN d
  ELSE [d EXCEPT !.zset = Put(@, k, Unlink(@[k], d.zset_score[k], ms))]

ZREM(d, k, ms) ==
  IF ~Has(d.zset, k) \/ ~Has(d.zset_score, k) THEN d
  ELSE LET left == Unlink(d.zset[k], d.zset_score[k], ms)
       IN IF left = {} THEN [d EXCEPT !.zset = Drop(@, k), !.zset_score = Drop(@, k)]
          ELSE [d EXCEPT !.zset = Put(@, k, left),
                         !.zset_score = Put(@, k, Without(@[k], ms))]

\* ZINCRBY and ZINCRBYFLOAT: only for a member that is there.
ZINCRBY(d, k, n, m) ==
  IF ~Has(d.zset, k) \/ ~Has(d.zset_score, k) \/ ~Has(Get(d.zset_score, k, <<>>), m) THEN d
  ELSE LET s == d.zset_score[k][m] + n
       IN [d EXCEPT !.zset = Put(@, k, (@[k] \ {<<d.zset_score[k][m], m>>}) \cup {<<s, m>>}),
                    !.zset_score = Put(@, k, Put(@[k], m, s))]

ScoredIn(d, k, min, max) ==
  LET scores == Get(d.zset_score, k, <<>>)
  IN {m \in DOMAIN scores : scores[m] >= min /\ scores[m] <= max}

ZREMRANGEBYSCORE(d, k, min, max) ==
  IF min > max \/ ~Has(d.zset, k) \/ ~Has(d.zset_score, k) THEN d
  ELSE LET ms == ScoredIn(d, k, min, max)
           left == Without(d.zset_score[k], ms)
       IN IF DOMAIN left = {} THEN [d EXCEPT !.zset = Drop(@, k), !.zset_score = Drop(@, k)]
          ELSE [d EXCEPT !.zset = Put(@, k, Unlink(@[k], d.zset_score[k], ms)),
                         !.zset_score = Put(@, k, left)]

Before(p, q) == p[1] < q[1] \/ (p[1] = q[1] /\ p[2] < q[2])
Ordered(list) == SetToSortSeq(list, Before)
ZRANGE(d, k, start, stop) ==
  LET s == Slice(Ordered(Get(d.zset, k, {})), start, stop) IN [i \in DOMAIN s |-> s[i][2]]
ZRANK(d, k, m) ==
  LET scores == Get(d.zset_score, k, <<>>)
      list == Ordered(Get(d.zset, k, {}))
  IN IF Has(scores, m) THEN SelectInSeq(list, LAMBDA p : p = <<scores[m], m>>) - 1 ELSE -1
ZCOUNT(d, k, min, max) == IF min > max THEN -1 ELSE Cardinality(ScoredIn(d, k, min, max))
ZRANGEBYSCORE(d, k, min, max) == IF min > max THEN {} ELSE ScoredIn(d, k, min, max)
ZSCORE(d, k, m) == LET scores == Get(d.zset_score, k, <<>>)
                   IN IF Has(scores, m) THEN {scores[m]} ELSE {}

(***************************************************************************)
(* Keys.                                                                   *)
(***************************************************************************)
\* RENAME and RENAMENX ask for the set before the sorted set, TYPE after it.
RenameType(d, k) == IF Has(d.store, k) THEN "store" ELSE IF Has(d.hash, k) THEN "hash"
                    ELSE IF Has(d.lists, k) THEN "lists" ELSE IF Has(d.sets, k) THEN "sets"
                    ELSE IF Has(d.zset, k) THEN "zset" ELSE "none"

\* The value of the first type of a key; the other maps keep theirs.
EraseFirst(d, k) ==
  LET t == RenameType(d, k)
  IN IF t = "none" THEN d
     ELSE IF t = "zset" THEN [d EXCEPT !.zset = Drop(@, k), !.zset_score = Drop(@, k)]
     ELSE [d EXCEPT ![t] = Drop(@, k)]

\* Between two shards a sorted set is moved with emplace(), which does not replace
\* one that the new key still has; everything else is assigned.
MoveZset(f, k, k2) ==
  Drop(IF ShardOf[k] # ShardOf[k2] /\ Has(f, k2) THEN f ELSE Put(f, k2, f[k]), k)
MoveFirst(d, k, k2) ==
  LET t == RenameType(d, k)
  IN IF t = "zset" THEN [d EXCEPT !.zset = MoveZset(@, k, k2), !.zset_score = MoveZset(@, k, k2)]
     ELSE [d EXCEPT ![t] = Drop(Put(@, k2, @[k]), k)]

\* Within one shard the value is read through a reference into the map that the new
\* key is inserted into: when the insertion rehashes it, the reference dangles.  Each
\* of the two maps of a sorted set is moved by a statement of its own, so either may
\* do so; only a hash is copied out of the map before.
MoveDangles(d, k, k2) ==
  LET t == RenameType(d, k)
  IN /\ ShardOf[k] = ShardOf[k2] /\ t # "hash"
     /\ ~Has(d[t], k2) \/ (t = "zset" /\ ~Has(d.zset_score, k2))

RENAMERefuses(d, k, k2) == k = k2 \/ RenameType(d, k) = "none"
RENAME(d, k, k2) == IF RENAMERefuses(d, k, k2) THEN d ELSE MoveFirst(EraseFirst(d, k2), k, k2)
RENAMEDangles(d, k, k2) == ~RENAMERefuses(d, k, k2) /\ MoveDangles(EraseFirst(d, k2), k, k2)

RENAMENXRefuses(d, k, k2) == RENAMERefuses(d, k, k2) \/ RenameType(d, k2) # "none"
RENAMENX(d, k, k2) == IF RENAMENXRefuses(d, k, k2) THEN d ELSE MoveFirst(d, k, k2)
RENAMENXDangles(d, k, k2) == ~RENAMENXRefuses(d, k, k2) /\ MoveDangles(d, k, k2)

\* FLUSHDB and FLUSHDBALL clear the six maps of one shard per turn of its lock.
Outside(f, s) == [k \in {x \in DOMAIN f : ShardOf[x] # s} |-> f[k]]
FLUSHSHARD(d, s) == [t \in DOMAIN d |-> Outside(d[t], s)]
=============================================================================
