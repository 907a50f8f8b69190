---------------------------- MODULE Store_proofs ----------------------------
(***************************************************************************)
(* What module Store promises of every set of keys, databases, shards and  *)
(* connections, proved: the two maps of a sorted set always agree, and the *)
(* log rebuilds the databases.                                             *)
(*                                                                         *)
(* ZSetAgrees needs little to be inductive (IInv): the databases have to   *)
(* be functions with the six maps, or an assignment to one of the maps     *)
(* says nothing about the others.  The lemmas go through the operators of  *)
(* module Keyspace: each of them takes a database whose sorted sets agree  *)
(* to another one, and most do so because they leave the sorted sets       *)
(* alone.                                                                  *)
(*                                                                         *)
(* LogReplays speaks of states with no command in flight.  What is         *)
(* inductive (LInv) says of every state that one logged command is in      *)
(* flight at most, and what is left of it is all that the replay of the    *)
(* log is ahead of the databases: the keys of MSET from the present one    *)
(* on, the shards that a flush has yet to come to, the one turn of any     *)
(* other command (Pending).  The proof rests on the operators of Keyspace  *)
(* making the same of databases that differ in times of expiry only.       *)
(***************************************************************************)
EXTENDS Store, FiniteSetTheorems, TLAPS

Maps == {"store", "hash", "lists", "sets", "zset", "zset_score"}

\* A database has the six maps and nothing else.
IsDb(d) == d = [t \in Maps |-> d[t]]

\* The pairs of the skip list, as the scores give them.
Pairs(scores) == {<<scores[m], m>> : m \in DOMAIN scores}

\* ZSetAgrees, of one database.
Agrees(d) ==
  /\ DOMAIN d.zset = DOMAIN d.zset_score
  /\ \A k \in DOMAIN d.zset : d.zset[k] = Pairs(d.zset_score[k])

Sound(d) == IsDb(d) /\ Agrees(d)

\* e is d with other strings, hashes, lists or sets.
SameScores(d, e) == IsDb(e) /\ e.zset = d.zset /\ e.zset_score = d.zset_score

\* The databases as a whole.
IInv == dbs = [n \in DBs |-> dbs[n]] /\ \A n \in DBs : Sound(dbs[n])

-----------------------------------------------------------------------------
(* Maps. *)

\* A database with another map in place of one of its own.
LEMMA WithMap ==
  ASSUME NEW d, IsDb(d), NEW t \in Maps, NEW v
  PROVE /\ IsDb([d EXCEPT ![t] = v])
        /\ [d EXCEPT ![t] = v][t] = v
        /\ \A u \in Maps \ {t} : [d EXCEPT ![t] = v][u] = d[u]
BY DEF IsDb

\* What is assigned to another map than the two of the sorted sets leaves these as
\* they are.
LEMMA Elsewhere ==
  ASSUME NEW d, IsDb(d), NEW t \in {"store", "hash", "lists", "sets"}, NEW v
  PROVE SameScores(d, [d EXCEPT ![t] = v])
<1>1. t \in Maps /\ "zset" \in Maps \ {t} /\ "zset_score" \in Maps \ {t}
  BY DEF Maps
<1> QED BY <1>1, WithMap DEF SameScores

LEMMA SameIsSound ==
  ASSUME NEW d, Sound(d), NEW e, SameScores(d, e)
  PROVE Sound(e)
BY DEF Sound, SameScores, Agrees

\* An assignment to both maps of the sorted sets.
LEMMA SoundWith ==
  ASSUME NEW d, Sound(d), NEW z, NEW s, DOMAIN z = DOMAIN s,
         \A k \in DOMAIN z : z[k] = Pairs(s[k])
  PROVE Sound([d EXCEPT !.zset = z, !.zset_score = s])
<1>1. IsDb(d)
  BY DEF Sound
<1> DEFINE e == [d EXCEPT !.zset = z, !.zset_score = s]
<1>2. IsDb(e)
  BY <1>1 DEF IsDb, Maps
<1>3. e.zset = z /\ e.zset_score = s
  BY <1>1 DEF IsDb, Maps
<1> HIDE DEF e
<1>4. Sound(e)
  BY <1>2, <1>3 DEF Sound, Agrees
<1> QED BY <1>4 DEF e

\* Both maps get the value of a key that fits, or lose the key.
LEMMA SoundPut ==
  ASSUME NEW d, Sound(d), NEW k, NEW v, NEW s, v = Pairs(s)
  PROVE Sound([d EXCEPT !.zset = Put(@, k, v), !.zset_score = Put(@, k, s)])
<1>1. /\ DOMAIN d.zset = DOMAIN d.zset_score
      /\ \A x \in DOMAIN d.zset : d.zset[x] = Pairs(d.zset_score[x])
  BY DEF Sound, Agrees
<1>2. /\ DOMAIN Put(d.zset, k, v) = DOMAIN Put(d.zset_score, k, s)
      /\ \A x \in DOMAIN Put(d.zset, k, v) : Put(d.zset, k, v)[x] = Pairs(Put(d.zset_score, k, s)[x])
  BY <1>1 DEF Put
<1> QED BY <1>2, SoundWith

LEMMA SoundDrop ==
  ASSUME NEW d, Sound(d), NEW k
  PROVE Sound([d EXCEPT !.zset = Drop(@, k), !.zset_score = Drop(@, k)])
<1>1. /\ DOMAIN d.zset = DOMAIN d.zset_score
      /\ \A x \in DOMAIN d.zset : d.zset[x] = Pairs(d.zset_score[x])
  BY DEF Sound, Agrees
<1>2. /\ DOMAIN Drop(d.zset, k) = DOMAIN Drop(d.zset_score, k)
      /\ \A x \in DOMAIN Drop(d.zset, k) : Drop(d.zset, k)[x] = Pairs(Drop(d.zset_score, k)[x])
  BY <1>1 DEF Drop
<1> QED BY <1>2, SoundWith

-----------------------------------------------------------------------------
(* The commands on sorted sets. *)

\* The pairs that stay when a member leaves the skip list or gets another score.
LEMMA UnlinkIs ==
  ASSUME NEW scores, NEW ms
  PROVE Unlink(Pairs(scores), scores, ms) = Pairs(Without(scores, ms))
BY DEF Unlink, Pairs, Without

LEMMA PairsPut ==
  ASSUME NEW scores, NEW m, NEW s
  PROVE Pairs(Put(scores, m, s)) = Pairs(Without(scores, {m})) \cup {<<s, m>>}
BY DEF Pairs, Put, Without

\* The skip list of a key is made of the scores it has.
LEMMA ListIs ==
  ASSUME NEW d, Sound(d), NEW k
  PROVE Get(d.zset, k, {}) = Pairs(Get(d.zset_score, k, <<>>))
<1>1. CASE Has(d.zset, k)
  BY <1>1 DEF Get, Has, Sound, Agrees
<1>2. CASE ~Has(d.zset, k)
  <2>1. Get(d.zset, k, {}) = {} /\ Get(d.zset_score, k, <<>>) = <<>>
    BY <1>2 DEF Get, Has, Sound, Agrees
  <2>2. DOMAIN <<>> = {}
    OBVIOUS
  <2> QED BY <2>1, <2>2 DEF Pairs
<1> QED BY <1>1, <1>2

LEMMA ZaddIsSound ==
  ASSUME NEW d, Sound(d), NEW k, NEW score, NEW m
  PROVE Sound(ZADD(d, k, score, m))
<1> DEFINE list == Get(d.zset, k, {})
           scores == Get(d.zset_score, k, <<>>)
           s == CHOOSE x \in score : TRUE
<1>1. list = Pairs(scores)
  BY ListIs
<1> HIDE DEF list, scores, s
<1>2. Unlink(list, scores, {m}) \cup {<<s, m>>} = Pairs(Put(scores, m, s))
  BY <1>1, UnlinkIs, PairsPut
<1>3. Sound([d EXCEPT !.zset = Put(@, k, list), !.zset_score = Put(@, k, scores)])
  BY <1>1, SoundPut
<1>4. Sound([d EXCEPT !.zset = Put(@, k, Unlink(list, scores, {m}) \cup {<<s, m>>}),
                      !.zset_score = Put(@, k, Put(scores, m, s))])
  BY <1>2, SoundPut
<1> QED BY <1>3, <1>4 DEF ZADD, list, scores, s

LEMMA ZremIsSound ==
  ASSUME NEW d, Sound(d), NEW k, NEW ms
  PROVE Sound(ZREM(d, k, ms))
<1>1. CASE ~Has(d.zset, k) \/ ~Has(d.zset_score, k)
  BY <1>1 DEF ZREM
<1>2. CASE Has(d.zset, k) /\ Has(d.zset_score, k)
  <2> DEFINE left == Unlink(d.zset[k], d.zset_score[k], ms)
  <2>1. d.zset[k] = Pairs(d.zset_score[k])
    BY <1>2 DEF Has, Sound, Agrees
  <2>2. left = Pairs(Without(d.zset_score[k], ms))
    BY <2>1, UnlinkIs
  <2> HIDE DEF left
  <2>3. Sound([d EXCEPT !.zset = Put(@, k, left),
                        !.zset_score = Put(@, k, Without(d.zset_score[k], ms))])
    BY <2>2, SoundPut
  <2>4. Sound([d EXCEPT !.zset = Drop(@, k), !.zset_score = Drop(@, k)])
    BY SoundDrop
  <2> QED BY <1>2, <2>3, <2>4 DEF ZREM, left
<1> QED BY <1>1, <1>2

LEMMA ZincrbyIsSound ==
  ASSUME NEW d, Sound(d), NEW k, NEW n, NEW m
  PROVE Sound(ZINCRBY(d, k, n, m))
<1>1. CASE ~Has(d.zset, k) \/ ~Has(d.zset_score, k) \/ ~Has(Get(d.zset_score, k, <<>>), m)
  BY <1>1 DEF ZINCRBY
<1>2. CASE Has(d.zset, k) /\ Has(d.zset_score, k) /\ Has(Get(d.zset_score, k, <<>>), m)
  <2> DEFINE scores == d.zset_score[k]
             s == scores[m] + n
             list == (d.zset[k] \ {<<scores[m], m>>}) \cup {<<s, m>>}
  <2>1. d.zset[k] = Pairs(scores) /\ m \in DOMAIN scores
    BY <1>2 DEF Has, Get, Sound, Agrees
  <2>2. d.zset[k] \ {<<scores[m], m>>} = Unlink(d.zset[k], scores, {m})
    BY <2>1 DEF Unlink
  <2>3. list = Pairs(Put(scores, m, s))
    BY <2>1, <2>2, UnlinkIs, PairsPut
  <2> HIDE DEF list, s, scores
  <2>4. Sound([d EXCEPT !.zset = Put(@, k, list), !.zset_score = Put(@, k, Put(scores, m, s))])
    BY <2>3, SoundPut
  <2> QED BY <1>2, <2>4 DEF ZINCRBY, list, s, scores
<1> QED BY <1>1, <1>2

LEMMA ZremrangeIsSound ==
  ASSUME NEW d, Sound(d), NEW k, NEW min, NEW max
  PROVE Sound(ZREMRANGEBYSCORE(d, k, min, max))
<1>1. CASE min > max \/ ~Has(d.zset, k) \/ ~Has(d.zset_score, k)
  BY <1>1 DEF ZREMRANGEBYSCORE
<1>2. CASE ~(min > max) /\ Has(d.zset, k) /\ Has(d.zset_score, k)
  <2> DEFINE ms == ScoredIn(d, k, min, max)
             left == Without(d.zset_score[k], ms)
  <2>1. d.zset[k] = Pairs(d.zset_score[k])
    BY <1>2 DEF Has, Sound, Agrees
  <2>2. Unlink(d.zset[k], d.zset_score[k], ms) = Pairs(left)
    BY <2>1, UnlinkIs
  <2> HIDE DEF left, ms
  <2>3. Sound([d EXCEPT !.zset = Put(@, k, Unlink(d.zset[k], d.zset_score[k], ms)),
                        !.zset_score = Put(@, k, left)])
    BY <2>2, SoundPut
  <2>4. Sound([d EXCEPT !.zset = Drop(@, k), !.zset_score = Drop(@, k)])
    BY SoundDrop
  <2> QED BY <1>2, <2>3, <2>4 DEF ZREMRANGEBYSCORE, left, ms
<1> QED BY <1>1, <1>2

-----------------------------------------------------------------------------
(* The commands that move, erase and flush keys of any type. *)

LEMMA EraseIsSound ==
  ASSUME NEW d, Sound(d), NEW k
  PROVE Sound(EraseFirst(d, k))
<1> DEFINE t == RenameType(d, k)
<1>1. t \in {"store", "hash", "lists", "sets", "zset", "none"}
  BY DEF RenameType
<1> HIDE DEF t
<1>2. CASE t = "none"
  BY <1>2 DEF EraseFirst, t
<1>3. CASE t = "zset"
  <2>1. Sound([d EXCEPT !.zset = Drop(@, k), !.zset_score = Drop(@, k)])
    BY SoundDrop
  <2> QED BY <1>3, <2>1 DEF EraseFirst, t
<1>4. CASE t \in {"store", "hash", "lists", "sets"}
  <2>1. SameScores(d, [d EXCEPT ![t] = Drop(d[t], k)])
    BY <1>4, Elsewhere DEF Sound
  <2>2. Sound([d EXCEPT ![t] = Drop(d[t], k)])
    BY <2>1, SameIsSound
  <2>3. EraseFirst(d, k) = [d EXCEPT ![t] = Drop(d[t], k)]
    BY <1>4 DEF EraseFirst, t
  <2> QED BY <2>2, <2>3
<1> QED BY <1>1, <1>2, <1>3, <1>4

\* What the two maps of the sorted sets hold after a move, whether the target was
\* there and in which shard.
LEMMA MoveIsSound ==
  ASSUME NEW d, Sound(d), NEW k, NEW k2, RenameType(d, k) # "none"
  PROVE Sound(MoveFirst(d, k, k2))
<1> DEFINE t == RenameType(d, k)
<1>1. t \in {"store", "hash", "lists", "sets", "zset"}
  BY DEF RenameType
<1>2. t = "zset" => k \in DOMAIN d.zset
  BY DEF RenameType, Has
<1> HIDE DEF t
<1>3. CASE t = "zset"
  <2> DEFINE z == MoveZset(d.zset, k, k2)
             s == MoveZset(d.zset_score, k, k2)
             same == ShardOf[k] = ShardOf[k2]
             there == k2 \in DOMAIN d.zset
             zv == d.zset[k]
             sv == d.zset_score[k]
             zf == IF ~same /\ there THEN d.zset ELSE Put(d.zset, k2, zv)
             sf == IF ~same /\ there THEN d.zset_score ELSE Put(d.zset_score, k2, sv)
  <2>1. /\ DOMAIN d.zset = DOMAIN d.zset_score
        /\ \A x \in DOMAIN d.zset : d.zset[x] = Pairs(d.zset_score[x])
    BY DEF Sound, Agrees
  <2>2. z = Drop(zf, k) /\ s = Drop(sf, k)
    BY <2>1 DEF MoveZset, Has
  <2>3. zv = Pairs(sv)
    BY <1>2, <1>3, <2>1
  <2> HIDE DEF zv, sv, same, there
  <2>4. DOMAIN zf = DOMAIN sf /\ \A x \in DOMAIN zf : zf[x] = Pairs(sf[x])
    BY <2>1, <2>3 DEF Put
  <2> HIDE DEF zf, sf, z, s
  <2>5. DOMAIN z = DOMAIN s /\ \A x \in DOMAIN z : z[x] = Pairs(s[x])
    BY <2>2, <2>4 DEF Drop
  <2>6. Sound([d EXCEPT !.zset = z, !.zset_score = s])
    BY <2>5, SoundWith
  <2>7. MoveFirst(d, k, k2) = [d EXCEPT !.zset = z, !.zset_score = s]
    BY <1>3 DEF MoveFirst, t, z, s
  <2> QED BY <2>6, <2>7
<1>4. CASE t \in {"store", "hash", "lists", "sets"}
  <2> DEFINE v == Drop(Put(d[t], k2, d[t][k]), k)
  <2>1. SameScores(d, [d EXCEPT ![t] = v])
    BY <1>4, Elsewhere DEF Sound
  <2>2. Sound([d EXCEPT ![t] = v])
    BY <2>1, SameIsSound
  <2>3. MoveFirst(d, k, k2) = [d EXCEPT ![t] = v]
    BY <1>4 DEF MoveFirst, t
  <2> QED BY <2>2, <2>3
<1> QED BY <1>1, <1>3, <1>4

\* Erasing another key first leaves a key with the type it had.
LEMMA EraseKeepsType ==
  ASSUME NEW d, Sound(d), NEW k, NEW k2, k # k2
  PROVE RenameType(EraseFirst(d, k2), k) = RenameType(d, k)
<1> DEFINE t == RenameType(d, k2)
<1>1. t \in {"store", "hash", "lists", "sets", "zset", "none"}
  BY DEF RenameType
<1>2. ASSUME NEW u \in {"store", "hash", "lists", "sets", "zset"}
      PROVE Has(EraseFirst(d, k2)[u], k) <=> Has(d[u], k)
  <2>1. \A f : k \in DOMAIN Drop(f, k2) <=> k \in DOMAIN f
    BY DEF Drop
  <2>2. d = [x \in Maps |-> d[x]]
    BY DEF Sound, IsDb
  <2> HIDE DEF t
  <2>3. CASE t = "none"
    BY <2>3 DEF EraseFirst, t
  <2>4. CASE t = "zset"
    <3>1. EraseFirst(d, k2)[u] = IF u = "zset" THEN Drop(d[u], k2) ELSE d[u]
      BY <2>2, <2>4 DEF EraseFirst, t, Maps
    <3> QED BY <2>1, <3>1 DEF Has
  <2>5. CASE t \in {"store", "hash", "lists", "sets"}
    <3>1. EraseFirst(d, k2)[u] = IF u = t THEN Drop(d[u], k2) ELSE d[u]
      BY <2>2, <2>5 DEF EraseFirst, t, Maps
    <3> QED BY <2>1, <3>1 DEF Has
  <2> QED BY <1>1, <2>3, <2>4, <2>5
<1> QED BY <1>2 DEF RenameType

LEMMA RenameIsSound ==
  ASSUME NEW d, Sound(d), NEW k, NEW k2
  PROVE Sound(RENAME(d, k, k2)) /\ Sound(RENAMENX(d, k, k2))
<1>1. Sound(RENAME(d, k, k2))
  <2>1. CASE k = k2 \/ RenameType(d, k) = "none"
    BY <2>1 DEF RENAME, RENAMERefuses
  <2>2. CASE k # k2 /\ RenameType(d, k) # "none"
    <3>1. Sound(EraseFirst(d, k2))
      BY EraseIsSound
    <3>2. RenameType(EraseFirst(d, k2), k) # "none"
      BY <2>2, EraseKeepsType
    <3>3. Sound(MoveFirst(EraseFirst(d, k2), k, k2))
      BY <3>1, <3>2, MoveIsSound
    <3> QED BY <2>2, <3>3 DEF RENAME, RENAMERefuses
  <2> QED BY <2>1, <2>2
<1>2. Sound(RENAMENX(d, k, k2))
  <2>1. RenameType(d, k) # "none" => Sound(MoveFirst(d, k, k2))
    BY MoveIsSound
  <2> QED BY <2>1 DEF RENAMENX, RENAMENXRefuses, RENAMERefuses
<1> QED BY <1>1, <1>2

LEMMA FlushIsSound ==
  ASSUME NEW d, Sound(d), NEW s
  PROVE Sound(FLUSHSHARD(d, s))
<1> DEFINE e == FLUSHSHARD(d, s)
<1>1. d = [t \in Maps |-> d[t]]
  BY DEF Sound, IsDb
<1>2. DOMAIN d = Maps
  BY <1>1
<1>3. e = [t \in Maps |-> Outside(d[t], s)]
  BY <1>2 DEF FLUSHSHARD
<1>4. IsDb(e) /\ e.zset = Outside(d.zset, s) /\ e.zset_score = Outside(d.zset_score, s)
  BY <1>3 DEF IsDb, Maps
<1> HIDE DEF e
<1>5. Agrees(e)
  BY <1>4 DEF Sound, Agrees, Outside
<1> QED BY <1>4, <1>5 DEF Sound, e

-----------------------------------------------------------------------------
(* One turn of the lock. *)

StringOps == {"SET", "MSET", "GETSET", "APPEND", "SETNX", "DEL", "INCR", "INCRBY",
              "EXPIRE", "PEXPIRE", "PERSIST"}
CollectionOps == {"HSET", "HDEL", "LPUSH", "RPUSH", "LPOP", "RPOP", "LINSERT", "LSET",
                  "RPOPLPUSH", "LPOPRPUSH", "SADD", "SREM", "SPOP", "SMOVE"}
ZsetOps == {"ZADD", "ZREM", "ZINCRBY", "ZINCRBYFLOAT", "ZREMRANGEBYSCORE"}

\* d or d with another map of strings, hashes, lists or sets.
Touches(d, e, t) == e = d \/ \E v : e = [d EXCEPT ![t] = v]

LEMMA TouchIsSound ==
  ASSUME NEW d, Sound(d), NEW t \in {"store", "hash", "lists", "sets"}, NEW e, Touches(d, e, t)
  PROVE Sound(e)
<1>1. CASE e = d
  BY <1>1
<1>2. ASSUME NEW v, e = [d EXCEPT ![t] = v] PROVE Sound(e)
  <2>1. SameScores(d, [d EXCEPT ![t] = v])
    BY Elsewhere DEF Sound
  <2> QED BY <1>2, <2>1, SameIsSound
<1> QED BY <1>1, <1>2 DEF Touches

LEMMA StringResults ==
  ASSUME NEW d, NEW c, c.op \in StringOps, NEW r \in Results(c, d)
  PROVE Touches(d, r, "store")
<1> DEFINE k == c.ks[1]
<1>1. \A v, e : Touches(d, SET(d, k, v, e), "store")
  BY DEF Touches, SET
<1>2. \A v : Touches(d, GETSET(d, k, v), "store") /\ Touches(d, APPEND(d, k, v), "store")
  BY DEF Touches, GETSET, APPEND
<1>3. \A v : Touches(d, SETNX(d, k, v), "store")
  BY DEF SETNX, SET, Touches
<1>4. Touches(d, DEL(d, k), "store")
  BY DEF Touches, DEL
<1>5. \A n : Touches(d, INCRBY(d, k, n), "store")
  BY DEF Touches, INCRBY
<1>6. Touches(d, INCR(d, k), "store")
  BY <1>5 DEF INCR
<1>7. \A n : Touches(d, EXPIRE(d, k, n), "store") /\ Touches(d, PEXPIRE(d, k, n), "store")
  BY DEF Touches, EXPIRE, PEXPIRE
<1>8. Touches(d, PERSIST(d, k), "store")
  BY DEF Touches, PERSIST
<1> HIDE DEF k
<1> QED BY <1>1, <1>2, <1>3, <1>4, <1>5, <1>6, <1>7, <1>8 DEF Results, StringOps, k

LEMMA CollectionResults ==
  ASSUME NEW d, Sound(d), NEW c, c.op \in CollectionOps, NEW r \in Results(c, d)
  PROVE \E t \in {"hash", "lists", "sets"} : Touches(d, r, t)
<1> DEFINE k == c.ks[1]
           k2 == c.ks[Len(c.ks)]
<1>0. d = [x \in Maps |-> d[x]]
  BY DEF Sound, IsDb
<1>1. Touches(d, HSET(d, k, c.m, c.v), "hash") /\ Touches(d, HDEL(d, k, {c.m}), "hash")
  BY DEF Touches, HSET, HDEL
<1>2. Touches(d, LPUSH(d, k, <<c.v>>), "lists") /\ Touches(d, RPUSH(d, k, <<c.v>>), "lists")
  BY DEF Touches, LPUSH, RPUSH
<1>3. Touches(d, LPOP(d, k, c.n), "lists") /\ Touches(d, RPOP(d, k, c.n), "lists")
  BY DEF Touches, LPOP, RPOP
<1>4. Touches(d, LINSERT(d, k, c.n = 1, c.m, c.v), "lists")
  BY DEF Touches, LINSERT
<1>5. Touches(d, LSET(d, k, c.n, c.v), "lists")
  BY DEF Touches, LSET
<1>6. \A tem : Touches(d, RPOPLPUSH(d, k, k2, tem), "lists") /\ Touches(d, LPOPRPUSH(d, k, k2, tem), "lists")
  BY DEF Touches, RPOPLPUSH, LPOPRPUSH, MoveEnd
<1>7. Touches(d, SADD(d, k, {c.m}), "sets")
  BY DEF Touches, SADD
<1>8. \A ms : Touches(d, SREM(d, k, ms), "sets")
  BY DEF Touches, SREM
<1>9. \A gone : Touches(d, SPOP(d, k, gone), "sets")
  BY <1>8 DEF Touches, SPOP
<1>10. Touches(d, SMOVE(d, k, k2, c.m), "sets")
  <2> DEFINE made == [d EXCEPT !.sets = Put(@, k2, Get(@, k2, {}))]
             full == [made EXCEPT !.sets[k2] = @ \cup {c.m}]
  <2>1. \A v, w : [[d EXCEPT !.sets = v] EXCEPT !.sets = w] = [d EXCEPT !.sets = w]
    BY <1>0
  <2>2. PICK v : made = [d EXCEPT !.sets = v]
    OBVIOUS
  <2>3. PICK w : full = [made EXCEPT !.sets = w]
    OBVIOUS
  <2>4. full = [d EXCEPT !.sets = w]
    BY <2>1, <2>2, <2>3
  <2>5. SREM(full, k, {c.m}) = full \/ \E x : SREM(full, k, {c.m}) = [full EXCEPT !.sets = x]
    BY DEF SREM
  <2> DEFINE left == SREM(full, k, {c.m})
  <2> HIDE DEF made, full, left
  <2>6. left = d \/ \E x : left = [d EXCEPT !.sets = x]
    <3>1. left = full \/ \E x : left = [full EXCEPT !.sets = x]
      BY <2>5 DEF left
    <3>2. \A x : [full EXCEPT !.sets = x] = [d EXCEPT !.sets = x]
      BY <2>1, <2>4
    <3> QED BY <2>4, <3>1, <3>2
  <2>7. Touches(d, made, "sets") /\ Touches(d, left, "sets")
    BY <2>2, <2>6 DEF Touches
  <2>8. SMOVE(d, k, k2, c.m) \in {d, made, left}
    BY DEF SMOVE, left, full, made
  <2> QED BY <2>7, <2>8 DEF Touches
<1> HIDE DEF k, k2
<1> QED BY <1>1, <1>2, <1>3, <1>4, <1>5, <1>6, <1>7, <1>8, <1>9, <1>10
        DEF Results, CollectionOps, k, k2

LEMMA ZsetResults ==
  ASSUME NEW d, Sound(d), NEW c, c.op \in ZsetOps, NEW r \in Results(c, d)
  PROVE Sound(r)
<1> DEFINE k == c.ks[1]
<1>1. /\ Sound(ZADD(d, k, c.e, c.m)) /\ Sound(ZREM(d, k, {c.m})) /\ Sound(ZINCRBY(d, k, c.n, c.m))
      /\ Sound(ZREMRANGEBYSCORE(d, k, c.n, c.n))
  BY ZaddIsSound, ZremIsSound, ZincrbyIsSound, ZremrangeIsSound
<1> HIDE DEF k
<1> QED BY <1>1 DEF Results, ZsetOps, k

LEMMA ResultsAreSound ==
  ASSUME NEW d, Sound(d), NEW c, NEW r \in Results(c, d)
  PROVE Sound(r)
<1>1. CASE c.op \in StringOps
  BY <1>1, StringResults, TouchIsSound
<1>2. CASE c.op \in CollectionOps
  BY <1>2, CollectionResults, TouchIsSound
<1>3. CASE c.op \in ZsetOps
  BY <1>3, ZsetResults
<1>4. CASE c.op \in {"RENAME", "RENAMENX"}
  <2> DEFINE k == c.ks[1]
             k2 == c.ks[Len(c.ks)]
  <2>1. Sound(RENAME(d, k, k2)) /\ Sound(RENAMENX(d, k, k2))
    BY RenameIsSound
  <2> HIDE DEF k, k2
  <2> QED BY <1>4, <2>1 DEF Results, k, k2
<1>5. CASE c.op \notin StringOps \cup CollectionOps \cup ZsetOps \cup {"RENAME", "RENAMENX"}
  <2>1. r = d
    BY <1>5 DEF Results, StringOps, CollectionOps, ZsetOps
  <2> QED BY <2>1
<1> QED BY <1>1, <1>2, <1>3, <1>4, <1>5

-----------------------------------------------------------------------------
(* Every step. *)

\* An assignment to one of the databases.
LEMMA AssignIsSound ==
  ASSUME IInv, NEW n, NEW d, n \in DBs => Sound(d), dbs' = [dbs EXCEPT ![n] = d]
  PROVE IInv'
<1>1. dbs' = [x \in DBs |-> IF x = n THEN d ELSE dbs[x]]
  BY DEF IInv
<1> QED BY <1>1 DEF IInv

LEMMA KeptIsSound == ASSUME IInv, UNCHANGED dbs PROVE IInv'
BY DEF IInv

LEMMA HandleIsSound ==
  ASSUME IInv, NEW c, NEW job, Handle(c, job)
  PROVE IInv'
<1>1. CASE Refuse(c, job) \/ Select(c, job) \/ FindExpired(c, job) \/ Fault(c, job)
  BY <1>1, KeptIsSound DEF Refuse, Select, FindExpired, Fault
<1>2. CASE Flush(c, job)
  <2>1. CASE UNCHANGED dbs
    BY <2>1, KeptIsSound
  <2>2. ASSUME NEW n, NEW s, dbs' = [dbs EXCEPT ![n] = FLUSHSHARD(dbs[n], s)]
        PROVE IInv'
    <3>1. n \in DBs => Sound(FLUSHSHARD(dbs[n], s))
      BY FlushIsSound DEF IInv
    <3> QED BY <2>2, <3>1, AssignIsSound
  <2>3. UNCHANGED dbs \/ \E n, s : dbs' = [dbs EXCEPT ![n] = FLUSHSHARD(dbs[n], s)]
    BY <1>2 DEF Flush
  <2> QED BY <2>1, <2>2, <2>3
<1>3. CASE EraseExpired(c, job)
  <2> DEFINE n == conn[c].db
             d == DEL(dbs[n], job.cmd.ks[1])
  <2>1. dbs' = [dbs EXCEPT ![n] = d]
    BY <1>3 DEF EraseExpired, SetDb, Db
  <2>2. ASSUME n \in DBs PROVE Sound(d)
    <3>1. Sound(dbs[n])
      BY <2>2 DEF IInv
    <3>2. Touches(dbs[n], d, "store")
      BY DEF Touches, DEL
    <3> QED BY <3>1, <3>2, TouchIsSound
  <2> HIDE DEF n, d
  <2> QED BY <2>1, <2>2, AssignIsSound
<1>4. CASE Turn(c, job)
  <2> DEFINE n == conn[c].db
  <2>1. PICK r \in Results(job.cmd, dbs[n]) : dbs' = [dbs EXCEPT ![n] = r]
    BY <1>4 DEF Turn, SetDb, Db
  <2>2. n \in DBs => Sound(r)
    BY ResultsAreSound DEF IInv
  <2> HIDE DEF n
  <2> QED BY <2>1, <2>2, AssignIsSound
<1> QED BY <1>1, <1>2, <1>3, <1>4 DEF Handle

LEMMA TickIsSound == ASSUME IInv, Tick PROVE IInv'
<1> DEFINE e(n) == [dbs[n] EXCEPT !.store = [k \in DOMAIN @ |-> Later(@[k])]]
<1>1. dbs' = [n \in DBs |-> e(n)]
  BY DEF Tick
<1>2. ASSUME NEW n \in DBs PROVE Sound(e(n))
  <2>1. Sound(dbs[n]) /\ Touches(dbs[n], e(n), "store")
    BY DEF IInv, Touches
  <2> HIDE DEF e
  <2> QED BY <2>1, TouchIsSound
<1> HIDE DEF e
<1> QED BY <1>1, <1>2 DEF IInv

LEMMA InitIsSound == Init => IInv
<1>1. Sound(EmptyDb)
  BY DEF Sound, IsDb, Maps, Agrees, EmptyDb
<1> QED BY <1>1 DEF Init, IInv

LEMMA NextIsSound == IInv /\ [Next]_vars => IInv'
<1> SUFFICES ASSUME IInv, [Next]_vars PROVE IInv'
  OBVIOUS
<1>1. CASE Tick
  BY <1>1, TickIsSound
<1>2. ASSUME NEW c \in Clients, ClientStep(c) PROVE IInv'
  <2>1. CASE AuthClient(c) \/ CheckAdmin(c) \/ SetAdmin(c) \/ Reconnect(c) \/ Log(c)
    BY <2>1, KeptIsSound DEF AuthClient, CheckAdmin, SetAdmin, Reconnect, Log
  <2>2. CASE LogAndExecute(c)
    BY <2>2, HandleIsSound DEF LogAndExecute
  <2>3. CASE Execute(c)
    BY <2>3, HandleIsSound DEF Execute
  <2>4. CASE Call(c)
    BY <2>4, HandleIsSound DEF Call
  <2> QED BY <1>2, <2>1, <2>2, <2>3, <2>4 DEF ClientStep
<1>3. CASE UNCHANGED vars
  BY <1>3, KeptIsSound DEF vars
<1> QED BY <1>1, <1>2, <1>3 DEF Next

\* In every state reached the databases have their six maps, and the skip lists of
\* each are made of its scores.
THEOREM Invariant == Spec => []IInv
BY InitIsSound, NextIsSound, PTL DEF Spec

\* The skip list of a sorted set and its map from member to score always agree
\* (ZADD, ZREM, ZINCRBY, ZREMRANGEBYSCORE, RENAME, RENAMENX and the flushes of
\* command_handler_table.cpp), whatever the connections do at the same time.
THEOREM SortedSetsAgree == Spec => []ZSetAgrees
<1>1. IInv => ZSetAgrees
  BY DEF IInv, Sound, Agrees, Pairs, ZSetAgrees
<1> QED BY <1>1, Invariant, PTL

-----------------------------------------------------------------------------
(* The log and the databases. *)

ServerOps == {"SELECT", "FLUSHDB", "FLUSHDBALL"}

Ops == StringOps \cup CollectionOps \cup ZsetOps \cup ServerOps
       \cup {"AUTH", "GET", "STRLEN", "MGET", "SRANDMEMBER", "RENAME", "RENAMENX"}

\* A command that was made from its arguments, or what an MSET has left of it.
CmdType == [op : Ops, ks : Seq(Keys), v : Int, m : Int, n : Int, e : SUBSET Int]

JobType == [cmd : CmdType, pc : {"run", "erase"}, nth : 1..Cardinality(DBs), at : 0..Shards - 1]

JobFits(job) ==
  /\ job.pc = "erase" => job.cmd.op \in Lazy
  /\ job.cmd.op \in ServerOps => job.cmd.ks = <<>>
  /\ job.cmd.op = "SELECT" => job.cmd.n \in DBs

KeysIn(d) == \A t \in Maps : DOMAIN d[t] \subseteq Keys

TypeInv ==
  /\ conn \in [Clients -> [level : 0..2, db : DBs]]
  /\ running \in [Clients -> {<<>>} \cup {<<job>> : job \in JobType}]
  /\ \A c \in Clients : running[c] # <<>> => JobFits(running[c][1])
  /\ \A n \in DBs : KeysIn(dbs[n])
  /\ aof = [db |-> aof.db, dbs |-> [n \in DBs |-> aof.dbs[n]]]
  /\ \A n \in DBs : Sound(aof.dbs[n])

\* Values(d) = Values(e): only the times at which values expire may differ.
Alike(d, e) ==
  /\ \A t \in Maps \ {"store"} : d[t] = e[t]
  /\ DOMAIN d.store = DOMAIN e.store
  /\ \A k \in DOMAIN d.store : d.store[k].val = e.store[k].val

AlikeAll(A, D) == \A n \in DBs : Alike(A[n], D[n])

\* What a flush that has come to shard s has left of a database.
IsMap(f) == f = [k \in DOMAIN f |-> f[k]]
Cleared(d, s) ==
  /\ \A t \in Maps : \A k \in DOMAIN d[t] : ShardOf[k] >= s
  /\ s > 0 => \A t \in Maps \ {"store"} : IsMap(d[t])

\* The databases D during a flush, and what the replay A has made of those it is about.
Flushing(A, D, db, job) ==
  IF job.cmd.op = "FLUSHDBALL"
    THEN /\ \A n \in DBs : A[n] = EmptyDb
         /\ \A i \in 1..Cardinality(DBs) :
              /\ i < job.nth => Cleared(D[SetToSeq(DBs)[i]], Shards)
              /\ i = job.nth => Cleared(D[SetToSeq(DBs)[i]], job.at)
    ELSE /\ A[db] = EmptyDb /\ Cleared(D[db], job.at)
         /\ \A n \in DBs \ {db} : Alike(A[n], D[n])

\* The replay A has the logged command that job is about to take or to finish on the
\* database db of D.
Pending(A, D, db, level, job) ==
  LET cmd == job.cmd
  IN /\ level > 0
     /\ cmd.op = "SELECT" => AlikeAll(A, D)
     /\ cmd.op \in {"FLUSHDB", "FLUSHDBALL"} =>
          IF MayFlush(level, cmd) THEN Flushing(A, D, db, job) ELSE AlikeAll(A, D)
     /\ cmd.op \notin ServerOps => \A n \in DBs \ {db} : Alike(A[n], D[n])
     /\ cmd.op = "MSET" => Alike(A[db], SetAll(D[db], cmd.ks, cmd.v))
     /\ cmd.op \notin ServerOps \cup {"MSET"} =>
          ~Faults(cmd, D[db]) /\ \A r \in Results(cmd, D[db]) : Alike(A[db], r)

InFlight(c) == ~Idle(c) /\ Logs(running[c][1].cmd)

\* While the log is of use it has one command in flight at most, and apart from that
\* command it makes what the databases hold.
LogInv ==
  exact =>
    /\ \A c, o \in Clients : InFlight(c) /\ InFlight(o) => c = o
    /\ (\A c \in Clients : ~InFlight(c)) => AlikeAll(aof.dbs, dbs)
    /\ \A c \in Clients : InFlight(c) =>
         Pending(aof.dbs, dbs, conn[c].db, conn[c].level, running[c][1])

\* The whole of what is inductive.
LInv == IInv /\ TypeInv /\ LogInv

-----------------------------------------------------------------------------
(* Databases that differ in the times of expiry only. *)

LEMMA AlikeRefl == ASSUME NEW d PROVE Alike(d, d)
BY DEF Alike

LEMMA AlikeSym == ASSUME NEW d, NEW e, Alike(d, e) PROVE Alike(e, d)
BY DEF Alike

LEMMA AlikeTrans == ASSUME NEW d, NEW e, NEW f, Alike(d, e), Alike(e, f) PROVE Alike(d, f)
BY DEF Alike

LEMMA ValuesAreAlike ==
  ASSUME NEW d, NEW e, IsDb(d), IsDb(e)
  PROVE Values(d) = Values(e) <=> Alike(d, e)
<1> DEFINE f(x) == [k \in DOMAIN x.store |-> x.store[k].val]
<1>1. ASSUME NEW x, IsDb(x)
      PROVE Values(x) = [t \in Maps |-> IF t = "store" THEN f(x) ELSE x[t]]
  BY <1>1 DEF Values, IsDb, Maps
<1>2. /\ Values(d) = [t \in Maps |-> IF t = "store" THEN f(d) ELSE d[t]]
      /\ Values(e) = [t \in Maps |-> IF t = "store" THEN f(e) ELSE e[t]]
  BY <1>1
<1>3. f(d) = f(e) <=> DOMAIN d.store = DOMAIN e.store
                      /\ \A k \in DOMAIN d.store : d.store[k].val = e.store[k].val
  <2>1. DOMAIN f(d) = DOMAIN d.store /\ DOMAIN f(e) = DOMAIN e.store
    OBVIOUS
  <2>2. \A k \in DOMAIN d.store : f(d)[k] = d.store[k].val
    OBVIOUS
  <2>3. \A k \in DOMAIN e.store : f(e)[k] = e.store[k].val
    OBVIOUS
  <2>4. ASSUME f(d) = f(e)
        PROVE DOMAIN d.store = DOMAIN e.store
              /\ \A k \in DOMAIN d.store : d.store[k].val = e.store[k].val
    <3> HIDE DEF f
    <3> QED BY <2>1, <2>2, <2>3, <2>4
  <2>5. ASSUME DOMAIN d.store = DOMAIN e.store,
               \A k \in DOMAIN d.store : d.store[k].val = e.store[k].val
        PROVE f(d) = f(e)
    BY <2>5
  <2> QED BY <2>4, <2>5
<1>4. "store" \in Maps
  BY DEF Maps
<1> DEFINE V(x) == [t \in Maps |-> IF t = "store" THEN f(x) ELSE x[t]]
<1> HIDE DEF f
<1>5. V(d) = V(e) <=> f(d) = f(e) /\ \A t \in Maps \ {"store"} : d[t] = e[t]
  <2>1. ASSUME NEW x PROVE V(x)["store"] = f(x) /\ \A t \in Maps \ {"store"} : V(x)[t] = x[t]
    BY <1>4
  <2>2. ASSUME V(d) = V(e) PROVE f(d) = f(e) /\ \A t \in Maps \ {"store"} : d[t] = e[t]
    <3> HIDE DEF V
    <3> QED BY <2>1, <2>2
  <2>3. ASSUME f(d) = f(e), \A t \in Maps \ {"store"} : d[t] = e[t] PROVE V(d) = V(e)
    BY <2>3
  <2> QED BY <2>2, <2>3
<1> QED BY <1>2, <1>3, <1>5 DEF Alike

\* An assignment of the same map of hashes, lists, sets, or of the two of sorted sets.
LEMMA AlikeWith ==
  ASSUME NEW d, NEW e, IsDb(d), IsDb(e), Alike(d, e), NEW t \in {"hash", "lists", "sets"}, NEW v
  PROVE Alike([d EXCEPT ![t] = v], [e EXCEPT ![t] = v])
BY DEF Alike, IsDb, Maps

LEMMA AlikeScores ==
  ASSUME NEW d, NEW e, IsDb(d), IsDb(e), Alike(d, e), NEW z, NEW s
  PROVE Alike([d EXCEPT !.zset = z, !.zset_score = s], [e EXCEPT !.zset = z, !.zset_score = s])
BY DEF Alike, IsDb, Maps

LEMMA AlikeStore ==
  ASSUME NEW d, NEW e, IsDb(d), IsDb(e), Alike(d, e), NEW f, NEW g,
         DOMAIN f = DOMAIN g, \A k \in DOMAIN f : f[k].val = g[k].val
  PROVE Alike([d EXCEPT !.store = f], [e EXCEPT !.store = g])
BY DEF Alike, IsDb, Maps

LEMMA AlikeMaps ==
  ASSUME NEW d, NEW e, Alike(d, e)
  PROVE /\ d.hash = e.hash /\ d.lists = e.lists /\ d.sets = e.sets
        /\ d.zset = e.zset /\ d.zset_score = e.zset_score
BY DEF Alike, Maps

\* Forgetting the times of expiry.
LEMMA ForgetIs ==
  ASSUME NEW d, Sound(d)
  PROVE Sound(Forget(d)) /\ Alike(Forget(d), d)
<1> DEFINE f == [k \in DOMAIN d.store |-> StoreData(d.store[k].val, {})]
<1>1. IsDb(d)
  BY DEF Sound
<1>2. Forget(d) = [d EXCEPT !.store = f]
  BY DEF Forget
<1>3. DOMAIN f = DOMAIN d.store /\ \A k \in DOMAIN f : f[k].val = d.store[k].val
  BY DEF StoreData
<1> HIDE DEF f
<1>4. Alike([d EXCEPT !.store = f], d)
  BY <1>1, <1>3 DEF Alike, IsDb, Maps
<1>5. Touches(d, Forget(d), "store")
  BY <1>2 DEF Touches
<1> QED BY <1>2, <1>4, <1>5, TouchIsSound

-----------------------------------------------------------------------------
(* A logged command makes the same of databases that are alike. *)

LEMMA AlikePut ==
  ASSUME NEW d, NEW e, IsDb(d), IsDb(e), Alike(d, e), NEW k, NEW v, NEW w, v.val = w.val
  PROVE Alike([d EXCEPT !.store = Put(d.store, k, v)], [e EXCEPT !.store = Put(e.store, k, w)])
<1> DEFINE f == Put(d.store, k, v)
           g == Put(e.store, k, w)
<1>1. DOMAIN f = DOMAIN g /\ \A x \in DOMAIN f : f[x].val = g[x].val
  BY DEF Put, Alike
<1> HIDE DEF f, g
<1>2. Alike([d EXCEPT !.store = f], [e EXCEPT !.store = g])
  BY <1>1, AlikeStore
<1> QED BY <1>2 DEF f, g

LEMMA AlikeDrop ==
  ASSUME NEW d, NEW e, IsDb(d), IsDb(e), Alike(d, e), NEW k
  PROVE Alike(DEL(d, k), DEL(e, k))
<1> DEFINE f == Drop(d.store, k)
           g == Drop(e.store, k)
<1>1. DOMAIN f = DOMAIN g /\ \A x \in DOMAIN f : f[x].val = g[x].val
  BY DEF Drop, Alike
<1> HIDE DEF f, g
<1>2. Alike([d EXCEPT !.store = f], [e EXCEPT !.store = g])
  BY <1>1, AlikeStore
<1> QED BY <1>2 DEF f, g, DEL

LEMMA AlikeStrings ==
  ASSUME NEW d, NEW e, IsDb(d), IsDb(e), Alike(d, e), NEW k, NEW v, NEW t
  PROVE /\ Alike(SET(d, k, v, t), SET(e, k, v, t))
        /\ Alike(GETSET(d, k, v), GETSET(e, k, v))
        /\ Alike(APPEND(d, k, v), APPEND(e, k, v))
        /\ Alike(SETNX(d, k, v), SETNX(e, k, v))
<1>1. /\ Has(d.store, k) <=> Has(e.store, k)
      /\ Has(d.store, k) => d.store[k].val = e.store[k].val
  BY DEF Alike, Has
<1>2. \A x, y, z : StoreData(x, y).val = StoreData(x, z).val
  BY DEF StoreData
<1>3. \A u : Alike(SET(d, k, v, u), SET(e, k, v, u))
  BY <1>2, AlikePut DEF SET
<1>4. Alike(GETSET(d, k, v), GETSET(e, k, v))
  BY <1>2, AlikePut DEF GETSET
<1>5. Alike(APPEND(d, k, v), APPEND(e, k, v))
  <2> DEFINE a(x) == IF Has(x.store, k) THEN StoreData(Append(x.store[k].val, v), x.store[k].expire)
                                        ELSE StoreData(<<v>>, {})
  <2>1. a(d).val = a(e).val
    BY <1>1, <1>2
  <2>2. /\ APPEND(d, k, v) = [d EXCEPT !.store = Put(d.store, k, a(d))]
        /\ APPEND(e, k, v) = [e EXCEPT !.store = Put(e.store, k, a(e))]
    BY DEF APPEND
  <2> HIDE DEF a
  <2>3. Alike([d EXCEPT !.store = Put(d.store, k, a(d))], [e EXCEPT !.store = Put(e.store, k, a(e))])
    BY <2>1, AlikePut
  <2> QED BY <2>2, <2>3
<1>6. Alike(SETNX(d, k, v), SETNX(e, k, v))
  BY <1>1, <1>3 DEF SETNX
<1> QED BY <1>3, <1>4, <1>5, <1>6

LEMMA AlikeCollections ==
  ASSUME NEW d, NEW e, IsDb(d), IsDb(e), Alike(d, e), NEW k, NEW k2, NEW m, NEW n, NEW v
  PROVE /\ Alike(HSET(d, k, m, v), HSET(e, k, m, v))
        /\ Alike(HDEL(d, k, {m}), HDEL(e, k, {m}))
        /\ Alike(LPUSH(d, k, <<v>>), LPUSH(e, k, <<v>>))
        /\ Alike(RPUSH(d, k, <<v>>), RPUSH(e, k, <<v>>))
        /\ Alike(LPOP(d, k, n), LPOP(e, k, n))
        /\ Alike(RPOP(d, k, n), RPOP(e, k, n))
        /\ Alike(LINSERT(d, k, n = 1, m, v), LINSERT(e, k, n = 1, m, v))
        /\ Alike(LSET(d, k, n, v), LSET(e, k, n, v))
        /\ Alike(RPOPLPUSH(d, k, k2, m), RPOPLPUSH(e, k, k2, m))
        /\ Alike(LPOPRPUSH(d, k, k2, m), LPOPRPUSH(e, k, k2, m))
        /\ Alike(SADD(d, k, {m}), SADD(e, k, {m}))
<1>1. d.hash = e.hash /\ d.lists = e.lists /\ d.sets = e.sets
  BY AlikeMaps
<1>2. ASSUME NEW v1
      PROVE /\ Alike([d EXCEPT !.hash = v1], [e EXCEPT !.hash = v1])
            /\ Alike([d EXCEPT !.lists = v1], [e EXCEPT !.lists = v1])
            /\ Alike([d EXCEPT !.sets = v1], [e EXCEPT !.sets = v1])
  BY AlikeWith
<1>3. Alike(HSET(d, k, m, v), HSET(e, k, m, v)) /\ Alike(HDEL(d, k, {m}), HDEL(e, k, {m}))
  BY <1>1, <1>2 DEF HSET, HDEL
<1>4. Alike(LPUSH(d, k, <<v>>), LPUSH(e, k, <<v>>)) /\ Alike(RPUSH(d, k, <<v>>), RPUSH(e, k, <<v>>))
  BY <1>1, <1>2 DEF LPUSH, RPUSH
<1>5. Alike(LPOP(d, k, n), LPOP(e, k, n)) /\ Alike(RPOP(d, k, n), RPOP(e, k, n))
  BY <1>1, <1>2 DEF LPOP, RPOP
<1>6. Alike(LINSERT(d, k, n = 1, m, v), LINSERT(e, k, n = 1, m, v))
  BY <1>1, <1>2 DEF LINSERT
<1>7. Alike(LSET(d, k, n, v), LSET(e, k, n, v))
  BY <1>1, <1>2 DEF LSET
<1>8. Alike(RPOPLPUSH(d, k, k2, m), RPOPLPUSH(e, k, k2, m))
  BY <1>1, <1>2 DEF RPOPLPUSH, MoveEnd
<1>9. Alike(LPOPRPUSH(d, k, k2, m), LPOPRPUSH(e, k, k2, m))
  BY <1>1, <1>2 DEF LPOPRPUSH, MoveEnd
<1>10. Alike(SADD(d, k, {m}), SADD(e, k, {m}))
  BY <1>1, <1>2 DEF SADD
<1> QED BY <1>3, <1>4, <1>5, <1>6, <1>7, <1>8, <1>9, <1>10

LEMMA AlikeSets ==
  ASSUME NEW d, NEW e, IsDb(d), IsDb(e), Alike(d, e), NEW k, NEW k2, NEW m, NEW ms
  PROVE /\ Alike(SREM(d, k, ms), SREM(e, k, ms))
        /\ Alike(SPOP(d, k, ms), SPOP(e, k, ms))
        /\ Alike(SMOVE(d, k, k2, m), SMOVE(e, k, k2, m))
<1>1. d.sets = e.sets
  BY AlikeMaps
<1>2. ASSUME NEW a, NEW b, IsDb(a), IsDb(b), Alike(a, b), NEW x, NEW g
      PROVE Alike(SREM(a, x, g), SREM(b, x, g))
  <2>1. a.sets = b.sets
    BY <1>2, AlikeMaps
  <2>2. \A v1 : Alike([a EXCEPT !.sets = v1], [b EXCEPT !.sets = v1])
    BY <1>2, AlikeWith
  <2> QED BY <1>2, <2>1, <2>2 DEF SREM
<1>3. Alike(SPOP(d, k, ms), SPOP(e, k, ms))
  BY <1>1, <1>2 DEF SPOP, Members
<1>4. Alike(SMOVE(d, k, k2, m), SMOVE(e, k, k2, m))
  <2> DEFINE made(x) == [x EXCEPT !.sets = Put(@, k2, Get(@, k2, {}))]
             full(x) == [made(x) EXCEPT !.sets[k2] = @ \cup {m}]
  <2>1. ASSUME NEW x, IsDb(x) PROVE IsDb(made(x)) /\ IsDb(full(x))
    BY <2>1 DEF IsDb, Maps
  <2>2. Alike(made(d), made(e))
    BY <1>1, AlikeWith
  <2>3. Alike(full(d), full(e))
    <3>1. made(d).sets = made(e).sets /\ IsDb(made(d)) /\ IsDb(made(e))
      BY <2>1, <2>2, AlikeMaps
    <3> HIDE DEF made
    <3>2. \A v1 : Alike([made(d) EXCEPT !.sets = v1], [made(e) EXCEPT !.sets = v1])
      BY <2>2, <3>1, AlikeWith
    <3> QED BY <3>1, <3>2
  <2> HIDE DEF full
  <2>4. Alike(SREM(full(d), k, {m}), SREM(full(e), k, {m}))
    BY <1>2, <2>1, <2>3
  <2> HIDE DEF made
  <2>5. SMOVE(d, k, k2, m) = IF k = k2 \/ ~Has(d.sets, k) THEN d
                             ELSE IF m \notin d.sets[k] THEN made(d) ELSE SREM(full(d), k, {m})
    BY DEF SMOVE, made, full
  <2>6. SMOVE(e, k, k2, m) = IF k = k2 \/ ~Has(e.sets, k) THEN e
                             ELSE IF m \notin e.sets[k] THEN made(e) ELSE SREM(full(e), k, {m})
    BY DEF SMOVE, made, full
  <2> QED BY <1>1, <2>2, <2>4, <2>5, <2>6
<1> QED BY <1>2, <1>3, <1>4

LEMMA AlikeSorted ==
  ASSUME NEW d, NEW e, IsDb(d), IsDb(e), Alike(d, e), NEW k, NEW s, NEW m, NEW min, NEW max
  PROVE /\ Alike(ZADD(d, k, s, m), ZADD(e, k, s, m))
        /\ Alike(ZREM(d, k, {m}), ZREM(e, k, {m}))
        /\ Alike(ZREMRANGEBYSCORE(d, k, min, max), ZREMRANGEBYSCORE(e, k, min, max))
<1>1. d.zset = e.zset /\ d.zset_score = e.zset_score
  BY AlikeMaps
<1>2. \A x, y : Alike([d EXCEPT !.zset = x, !.zset_score = y], [e EXCEPT !.zset = x, !.zset_score = y])
  BY AlikeScores
<1>3. Alike(ZADD(d, k, s, m), ZADD(e, k, s, m))
  <2> DEFINE list == Get(d.zset, k, {})
             scores == Get(d.zset_score, k, <<>>)
             y == CHOOSE x \in s : TRUE
             z1 == IF s = {} THEN Put(d.zset, k, list)
                             ELSE Put(d.zset, k, Unlink(list, scores, {m}) \cup {<<y, m>>})
             z2 == IF s = {} THEN Put(d.zset_score, k, scores)
                             ELSE Put(d.zset_score, k, Put(scores, m, y))
  <2>1. ZADD(d, k, s, m) = [d EXCEPT !.zset = z1, !.zset_score = z2]
    BY DEF ZADD
  <2>2. ZADD(e, k, s, m) = [e EXCEPT !.zset = z1, !.zset_score = z2]
    BY <1>1 DEF ZADD
  <2> HIDE DEF z1, z2
  <2>3. Alike([d EXCEPT !.zset = z1, !.zset_score = z2], [e EXCEPT !.zset = z1, !.zset_score = z2])
    BY <1>2
  <2> QED BY <2>1, <2>2, <2>3
<1>4. Alike(ZREM(d, k, {m}), ZREM(e, k, {m}))
  BY <1>1, <1>2 DEF ZREM
<1>5. Alike(ZREMRANGEBYSCORE(d, k, min, max), ZREMRANGEBYSCORE(e, k, min, max))
  BY <1>1, <1>2 DEF ZREMRANGEBYSCORE, ScoredIn
<1> QED BY <1>3, <1>4, <1>5

\* The commands that are logged, the ones of the server apart.
KeyOps == {"SET", "DEL", "HSET", "LPUSH", "LPOP", "SADD", "ZADD", "MSET", "GETSET", "APPEND",
           "SETNX", "HDEL", "RPUSH", "RPOP", "LINSERT", "LSET", "RPOPLPUSH", "LPOPRPUSH",
           "ZREM", "ZREMRANGEBYSCORE", "SREM", "SPOP", "SMOVE"}

LEMMA LoggedOps == ASSUME NEW c, Logs(c) PROVE c.op \in KeyOps \cup ServerOps
BY DEF Logs, HotCommands, isWriteCommand, TableWrites, KeyOps, ServerOps

LEMMA AlikeFaults ==
  ASSUME NEW d, NEW e, Alike(d, e), NEW c
  PROVE Faults(c, d) <=> Faults(c, e)
BY AlikeMaps DEF Faults, SRANDMEMBERFaults

\* One result of the first for each of the second.
LEMMA ResultsAreAlike ==
  ASSUME NEW d, NEW e, IsDb(d), IsDb(e), Alike(d, e), NEW c, c.op \in KeyOps, NEW r \in Results(c, d)
  PROVE \E q \in Results(c, e) : Alike(r, q)
<1> DEFINE k == c.ks[1]
           k2 == c.ks[Len(c.ks)]
<1>1. ~Faults(c, d) /\ ~Faults(c, e)
  <2>1. ~Faults(c, d)
    BY DEF Results
  <2> QED BY <2>1, AlikeFaults
<1>2. CASE c.op \in {"SET", "MSET", "GETSET", "APPEND", "SETNX", "DEL"}
  <2>1. /\ Alike(SET(d, k, c.v, c.e), SET(e, k, c.v, c.e)) /\ Alike(SET(d, k, c.v, {}), SET(e, k, c.v, {}))
        /\ Alike(GETSET(d, k, c.v), GETSET(e, k, c.v)) /\ Alike(APPEND(d, k, c.v), APPEND(e, k, c.v))
        /\ Alike(SETNX(d, k, c.v), SETNX(e, k, c.v)) /\ Alike(DEL(d, k), DEL(e, k))
    BY AlikeStrings, AlikeDrop
  <2> HIDE DEF k
  <2> QED BY <1>1, <1>2, <2>1 DEF Results, k
<1>3. CASE c.op \in {"HSET", "HDEL", "LPUSH", "RPUSH", "LPOP", "RPOP", "LINSERT", "LSET", "SADD"}
  <2>1. /\ Alike(HSET(d, k, c.m, c.v), HSET(e, k, c.m, c.v))
        /\ Alike(HDEL(d, k, {c.m}), HDEL(e, k, {c.m}))
        /\ Alike(LPUSH(d, k, <<c.v>>), LPUSH(e, k, <<c.v>>))
        /\ Alike(RPUSH(d, k, <<c.v>>), RPUSH(e, k, <<c.v>>))
        /\ Alike(LPOP(d, k, c.n), LPOP(e, k, c.n))
        /\ Alike(RPOP(d, k, c.n), RPOP(e, k, c.n))
        /\ Alike(LINSERT(d, k, c.n = 1, c.m, c.v), LINSERT(e, k, c.n = 1, c.m, c.v))
        /\ Alike(LSET(d, k, c.n, c.v), LSET(e, k, c.n, c.v))
        /\ Alike(SADD(d, k, {c.m}), SADD(e, k, {c.m}))
    BY AlikeCollections
  <2> HIDE DEF k
  <2> QED BY <1>1, <1>3, <2>1 DEF Results, k
<1>4. CASE c.op \in {"RPOPLPUSH", "LPOPRPUSH"}
  <2>1. \A tem : /\ Alike(RPOPLPUSH(d, k, k2, tem), RPOPLPUSH(e, k, k2, tem))
                 /\ Alike(LPOPRPUSH(d, k, k2, tem), LPOPRPUSH(e, k, k2, tem))
    BY AlikeCollections
  <2> HIDE DEF k, k2
  <2> QED BY <1>1, <1>4, <2>1 DEF Results, k, k2
<1>5. CASE c.op \in {"SREM", "SPOP", "SMOVE"}
  <2>1. /\ Alike(SREM(d, k, {c.m}), SREM(e, k, {c.m})) /\ Alike(SMOVE(d, k, k2, c.m), SMOVE(e, k, k2, c.m))
        /\ \A g : Alike(SPOP(d, k, g), SPOP(e, k, g))
    BY AlikeSets
  <2>2. \A n : SPOPDraws(d, k, n) = SPOPDraws(e, k, n)
    BY AlikeMaps DEF SPOPDraws, Members
  <2> HIDE DEF k, k2
  <2> QED BY <1>1, <1>5, <2>1, <2>2 DEF Results, k, k2
<1>6. CASE c.op \in {"ZADD", "ZREM", "ZREMRANGEBYSCORE"}
  <2>1. /\ Alike(ZADD(d, k, c.e, c.m), ZADD(e, k, c.e, c.m)) /\ Alike(ZREM(d, k, {c.m}), ZREM(e, k, {c.m}))
        /\ Alike(ZREMRANGEBYSCORE(d, k, c.n, c.n), ZREMRANGEBYSCORE(e, k, c.n, c.n))
    BY AlikeSorted
  <2> HIDE DEF k
  <2> QED BY <1>1, <1>6, <2>1 DEF Results, k
<1> QED BY <1>2, <1>3, <1>4, <1>5, <1>6 DEF KeyOps

\* MSET, all at once and key by key.
LEMMA SetAllIs ==
  ASSUME NEW d, Sound(d), NEW ks, NEW v
  PROVE Sound(SetAll(d, ks, v))
<1>1. Touches(d, SetAll(d, ks, v), "store")
  BY DEF Touches, SetAll
<1> QED BY <1>1, TouchIsSound

LEMMA SetAllAlike ==
  ASSUME NEW d, NEW e, IsDb(d), IsDb(e), Alike(d, e), NEW ks, NEW v
  PROVE Alike(SetAll(d, ks, v), SetAll(e, ks, v))
<1> DEFINE f(x) == [k \in DOMAIN x.store \cup Range(ks) |->
                      IF k \in Range(ks) THEN StoreData(<<v>>, {}) ELSE x.store[k]]
<1>1. DOMAIN f(d) = DOMAIN f(e) /\ \A k \in DOMAIN f(d) : f(d)[k].val = f(e)[k].val
  BY DEF Alike
<1>2. SetAll(d, ks, v) = [d EXCEPT !.store = f(d)] /\ SetAll(e, ks, v) = [e EXCEPT !.store = f(e)]
  BY DEF SetAll
<1> HIDE DEF f
<1>3. Alike([d EXCEPT !.store = f(d)], [e EXCEPT !.store = f(e)])
  BY <1>1, AlikeStore
<1> QED BY <1>2, <1>3

LEMMA SetAllStep ==
  ASSUME NEW d, IsDb(d), NEW ks \in Seq(Keys), ks # <<>>, NEW v
  PROVE Alike(SetAll(SET(d, ks[1], v, {}), Tail(ks), v), SetAll(d, ks, v))
<1> DEFINE w == StoreData(<<v>>, {})
           f == [k \in DOMAIN d.store \cup Range(ks) |-> IF k \in Range(ks) THEN w ELSE d.store[k]]
           h == Put(d.store, ks[1], w)
           g == [k \in DOMAIN h \cup Range(Tail(ks)) |-> IF k \in Range(Tail(ks)) THEN w ELSE h[k]]
<1>1. Range(ks) = {ks[1]} \cup Range(Tail(ks))
  <2>1. /\ Tail(ks) \in Seq(Keys) /\ Len(Tail(ks)) = Len(ks) - 1
        /\ \A i \in 1..Len(ks) - 1 : Tail(ks)[i] = ks[i + 1]
    OBVIOUS
  <2>2. Range(ks) = {ks[i] : i \in 1..Len(ks)} /\ Range(Tail(ks)) = {Tail(ks)[i] : i \in 1..Len(ks) - 1}
    <3>1. DOMAIN ks = 1..Len(ks) /\ DOMAIN Tail(ks) = 1..Len(ks) - 1
      BY <2>1
    <3> QED BY <3>1, Zenon DEF Range
  <2>3. ASSUME NEW x \in Range(ks) PROVE x = ks[1] \/ x \in Range(Tail(ks))
    <3>1. PICK i \in 1..Len(ks) : x = ks[i]
      BY <2>2
    <3>2. i # 1 => i - 1 \in 1..Len(ks) - 1 /\ Tail(ks)[i - 1] = x
      BY <2>1, <3>1
    <3> QED BY <2>2, <3>1, <3>2
  <2>4. ASSUME NEW x \in Range(Tail(ks)) PROVE x \in Range(ks)
    <3>1. PICK i \in 1..Len(ks) - 1 : x = Tail(ks)[i]
      BY <2>2
    <3>2. i + 1 \in 1..Len(ks) /\ ks[i + 1] = x
      BY <2>1, <3>1
    <3> QED BY <2>2, <3>2
  <2>5. ks[1] \in Range(ks)
    BY <2>2
  <2> QED BY <2>3, <2>4, <2>5
<1>2. DOMAIN h = DOMAIN d.store \cup {ks[1]} /\ \A k \in DOMAIN h : h[k] = IF k = ks[1] THEN w ELSE d.store[k]
  BY DEF Put
<1>3. SET(d, ks[1], v, {}) = [d EXCEPT !.store = h]
  BY DEF SET
<1>4. [d EXCEPT !.store = h].store = h /\ [[d EXCEPT !.store = h] EXCEPT !.store = g] = [d EXCEPT !.store = g]
  BY DEF IsDb, Maps
<1> HIDE DEF h, w
<1>5. SetAll(SET(d, ks[1], v, {}), Tail(ks), v) = [d EXCEPT !.store = g]
  BY <1>3, <1>4 DEF SetAll, w
<1>6. SetAll(d, ks, v) = [d EXCEPT !.store = f]
  BY DEF SetAll, w
<1>7. DOMAIN f = DOMAIN g /\ \A k \in DOMAIN f : f[k] = g[k]
  BY <1>1, <1>2
<1> HIDE DEF f, g
<1>8. Alike([d EXCEPT !.store = g], [d EXCEPT !.store = f])
  BY <1>7, AlikeStore, AlikeRefl
<1> QED BY <1>5, <1>6, <1>8

LEMMA SetAllNone == ASSUME NEW d, IsDb(d), NEW v PROVE Alike(SetAll(d, <<>>, v), d)
<1> DEFINE f == [k \in DOMAIN d.store \cup Range(<<>>) |->
                   IF k \in Range(<<>>) THEN StoreData(<<v>>, {}) ELSE d.store[k]]
<1>1. Range(<<>>) = {}
  BY DEF Range
<1>2. DOMAIN f = DOMAIN d.store /\ \A k \in DOMAIN f : f[k] = d.store[k]
  BY <1>1
<1>3. SetAll(d, <<>>, v) = [d EXCEPT !.store = f]
  BY DEF SetAll
<1> HIDE DEF f
<1>4. Alike([d EXCEPT !.store = f], d)
  BY <1>2 DEF Alike, IsDb, Maps
<1> QED BY <1>3, <1>4

-----------------------------------------------------------------------------
(* The keys of the databases are among Keys. *)

LEMMA KeysWith ==
  ASSUME NEW d, IsDb(d), KeysIn(d), NEW t \in Maps, NEW v, DOMAIN v \subseteq Keys
  PROVE KeysIn([d EXCEPT ![t] = v])
BY DEF KeysIn, IsDb

LEMMA KeysScores ==
  ASSUME NEW d, IsDb(d), KeysIn(d), NEW z, NEW s, DOMAIN z \subseteq Keys, DOMAIN s \subseteq Keys
  PROVE KeysIn([d EXCEPT !.zset = z, !.zset_score = s])
BY DEF KeysIn, IsDb, Maps

LEMMA KeysPut ==
  ASSUME NEW f, DOMAIN f \subseteq Keys, NEW k \in Keys, NEW v
  PROVE DOMAIN Put(f, k, v) \subseteq Keys
BY DEF Put

LEMMA KeysDrop == ASSUME NEW f, DOMAIN f \subseteq Keys, NEW k PROVE DOMAIN Drop(f, k) \subseteq Keys
BY DEF Drop

\* One map gets or loses a key, or keeps the ones it has.
LEMMA KeysStep ==
  ASSUME NEW d, IsDb(d), KeysIn(d), NEW t \in Maps, NEW k \in Keys
  PROVE /\ \A v : KeysIn([d EXCEPT ![t] = Put(d[t], k, v)])
        /\ KeysIn([d EXCEPT ![t] = Drop(d[t], k)])
        /\ \A v, n : KeysIn([d EXCEPT ![t] = PutOrErase(d[t], k, v, n)])
        /\ \A v : KeysIn([d EXCEPT ![t] = [d[t] EXCEPT ![k] = v]])
<1>1. DOMAIN d[t] \subseteq Keys
  BY DEF KeysIn
<1>2. ASSUME NEW v PROVE DOMAIN Put(d[t], k, v) \subseteq Keys
  BY <1>1, KeysPut
<1>3. DOMAIN Drop(d[t], k) \subseteq Keys
  BY <1>1, KeysDrop
<1>4. ASSUME NEW v PROVE DOMAIN [d[t] EXCEPT ![k] = v] \subseteq Keys
  BY <1>1
<1>5. ASSUME NEW v, NEW n PROVE DOMAIN PutOrErase(d[t], k, v, n) \subseteq Keys
  BY <1>2, <1>3 DEF PutOrErase
<1>6. ASSUME NEW w, DOMAIN w \subseteq Keys PROVE KeysIn([d EXCEPT ![t] = w])
  BY <1>6, KeysWith
<1> QED BY <1>2, <1>3, <1>4, <1>5, <1>6

LEMMA KeysStrings ==
  ASSUME NEW d, IsDb(d), KeysIn(d), NEW k \in Keys
  PROVE /\ \A v, t : KeysIn(SET(d, k, v, t))
        /\ \A v : KeysIn(GETSET(d, k, v)) /\ KeysIn(APPEND(d, k, v)) /\ KeysIn(SETNX(d, k, v))
        /\ KeysIn(DEL(d, k)) /\ KeysIn(PERSIST(d, k)) /\ KeysIn(INCR(d, k))
        /\ \A n : KeysIn(INCRBY(d, k, n)) /\ KeysIn(EXPIRE(d, k, n)) /\ KeysIn(PEXPIRE(d, k, n))
<1>1. "store" \in Maps
  BY DEF Maps
<1>2. \A v : KeysIn([d EXCEPT !.store = Put(d.store, k, v)])
  BY <1>1, KeysStep
<1>3. KeysIn([d EXCEPT !.store = Drop(d.store, k)])
  BY <1>1, KeysStep
<1>4. \A v, t : KeysIn(SET(d, k, v, t))
  BY <1>2 DEF SET
<1>5. \A v : KeysIn(GETSET(d, k, v)) /\ KeysIn(APPEND(d, k, v)) /\ KeysIn(SETNX(d, k, v))
  BY <1>2, <1>4 DEF GETSET, APPEND, SETNX
<1>6. KeysIn(DEL(d, k)) /\ KeysIn(PERSIST(d, k))
  BY <1>2, <1>3 DEF DEL, PERSIST
<1>7. \A n : KeysIn(INCRBY(d, k, n))
  BY <1>2 DEF INCRBY
<1>8. \A n : KeysIn(EXPIRE(d, k, n)) /\ KeysIn(PEXPIRE(d, k, n))
  BY <1>2 DEF EXPIRE, PEXPIRE
<1> QED BY <1>4, <1>5, <1>6, <1>7, <1>8 DEF INCR

LEMMA KeysCollections ==
  ASSUME NEW d, IsDb(d), KeysIn(d), NEW k \in Keys, NEW k2 \in Keys, NEW m, NEW n, NEW v
  PROVE /\ KeysIn(HSET(d, k, m, v)) /\ KeysIn(HDEL(d, k, {m}))
        /\ KeysIn(LPUSH(d, k, <<v>>)) /\ KeysIn(RPUSH(d, k, <<v>>))
        /\ KeysIn(LPOP(d, k, n)) /\ KeysIn(RPOP(d, k, n))
        /\ KeysIn(LINSERT(d, k, n = 1, m, v)) /\ KeysIn(LSET(d, k, n, v))
        /\ KeysIn(RPOPLPUSH(d, k, k2, m)) /\ KeysIn(LPOPRPUSH(d, k, k2, m))
        /\ KeysIn(SADD(d, k, {m}))
<1>1. "hash" \in Maps /\ "lists" \in Maps /\ "sets" \in Maps
  BY DEF Maps
<1>2. KeysIn(HSET(d, k, m, v)) /\ KeysIn(HDEL(d, k, {m}))
  BY <1>1, KeysStep DEF HSET, HDEL
<1>3. KeysIn(LPUSH(d, k, <<v>>)) /\ KeysIn(RPUSH(d, k, <<v>>))
  BY <1>1, KeysStep DEF LPUSH, RPUSH
<1>4. KeysIn(LPOP(d, k, n)) /\ KeysIn(RPOP(d, k, n))
  BY <1>1, KeysStep DEF LPOP, RPOP
<1>5. KeysIn(LINSERT(d, k, n = 1, m, v))
  BY <1>1, KeysStep DEF LINSERT
<1>6. KeysIn(LSET(d, k, n, v))
  BY <1>1, KeysStep DEF LSET
<1>7. ASSUME NEW x, NEW y PROVE DOMAIN Put(Put(d.lists, k2, x), k, y) \subseteq Keys
  BY <1>1 DEF KeysIn, Put
<1>8. ASSUME NEW x, NEW y PROVE KeysIn([d EXCEPT !.lists = Put(Put(d.lists, k2, x), k, y)])
  BY <1>1, <1>7, KeysWith
<1>9. KeysIn(RPOPLPUSH(d, k, k2, m)) /\ KeysIn(LPOPRPUSH(d, k, k2, m))
  BY <1>8 DEF RPOPLPUSH, LPOPRPUSH, MoveEnd
<1>10. KeysIn(SADD(d, k, {m}))
  BY <1>1, KeysStep DEF SADD
<1> QED BY <1>2, <1>3, <1>4, <1>5, <1>6, <1>9, <1>10

LEMMA KeysSets ==
  ASSUME NEW d, IsDb(d), KeysIn(d), NEW k \in Keys, NEW k2 \in Keys, NEW m
  PROVE /\ \A ms : KeysIn(SREM(d, k, ms)) /\ KeysIn(SPOP(d, k, ms))
        /\ KeysIn(SMOVE(d, k, k2, m))
<1>1. "sets" \in Maps
  BY DEF Maps
<1>2. ASSUME NEW x, IsDb(x), KeysIn(x), NEW ms PROVE KeysIn(SREM(x, k, ms))
  BY <1>1, <1>2, KeysStep DEF SREM
<1>3. \A ms : KeysIn(SPOP(d, k, ms))
  BY <1>2 DEF SPOP
<1>4. KeysIn(SMOVE(d, k, k2, m))
  <2> DEFINE made == [d EXCEPT !.sets = Put(@, k2, Get(@, k2, {}))]
             full == [made EXCEPT !.sets[k2] = @ \cup {m}]
  <2>1. IsDb(made)
    BY DEF IsDb, Maps
  <2>2. KeysIn(made)
    BY <1>1, KeysStep
  <2> HIDE DEF made
  <2>3. IsDb(full)
    BY <2>1 DEF IsDb, Maps
  <2>4. KeysIn(full)
    BY <1>1, <2>1, <2>2, KeysStep
  <2> HIDE DEF full
  <2>5. KeysIn(SREM(full, k, {m}))
    BY <1>2, <2>3, <2>4
  <2>6. SMOVE(d, k, k2, m) = IF k = k2 \/ ~Has(d.sets, k) THEN d
                             ELSE IF m \notin d.sets[k] THEN made ELSE SREM(full, k, {m})
    BY DEF SMOVE, made, full
  <2> QED BY <2>2, <2>5, <2>6
<1> QED BY <1>2, <1>3, <1>4

LEMMA KeysSorted ==
  ASSUME NEW d, Sound(d), KeysIn(d), NEW k \in Keys, NEW s, NEW m, NEW n, NEW min, NEW max
  PROVE /\ KeysIn(ZADD(d, k, s, m)) /\ KeysIn(ZREM(d, k, {m})) /\ KeysIn(ZINCRBY(d, k, n, m))
        /\ KeysIn(ZREMRANGEBYSCORE(d, k, min, max))
<1>1. IsDb(d) /\ DOMAIN d.zset \subseteq Keys /\ DOMAIN d.zset_score \subseteq Keys
  BY DEF KeysIn, Sound, Maps
<1>2. ASSUME NEW x, NEW y
      PROVE KeysIn([d EXCEPT !.zset = Put(d.zset, k, x), !.zset_score = Put(d.zset_score, k, y)])
  BY <1>1, KeysPut, KeysScores
<1>3. KeysIn([d EXCEPT !.zset = Drop(d.zset, k), !.zset_score = Drop(d.zset_score, k)])
  BY <1>1, KeysDrop, KeysScores
<1>4. KeysIn(ZADD(d, k, s, m))
  BY <1>2 DEF ZADD
<1>5. KeysIn(ZREM(d, k, {m}))
  BY <1>2, <1>3 DEF ZREM
<1>6. KeysIn(ZINCRBY(d, k, n, m))
  BY <1>2 DEF ZINCRBY
<1>7. KeysIn(ZREMRANGEBYSCORE(d, k, min, max))
  BY <1>2, <1>3 DEF ZREMRANGEBYSCORE
<1> QED BY <1>4, <1>5, <1>6, <1>7

LEMMA KeysErase ==
  ASSUME NEW d, Sound(d), KeysIn(d), NEW k \in Keys
  PROVE KeysIn(EraseFirst(d, k))
<1> DEFINE t == RenameType(d, k)
<1>1. t \in {"store", "hash", "lists", "sets", "zset", "none"}
  BY DEF RenameType
<1>2. IsDb(d) /\ DOMAIN d.zset \subseteq Keys /\ DOMAIN d.zset_score \subseteq Keys
  BY DEF KeysIn, Sound, Maps
<1>3. KeysIn([d EXCEPT !.zset = Drop(d.zset, k), !.zset_score = Drop(d.zset_score, k)])
  BY <1>2, KeysDrop, KeysScores
<1>4. ASSUME t \in {"store", "hash", "lists", "sets"}
      PROVE KeysIn([d EXCEPT ![t] = Drop(d[t], k)])
  <2>1. t \in Maps
    BY <1>4 DEF Maps
  <2> HIDE DEF t
  <2> QED BY <1>2, <2>1, KeysStep
<1>5. EraseFirst(d, k) = IF t = "none" THEN d
        ELSE IF t = "zset" THEN [d EXCEPT !.zset = Drop(d.zset, k), !.zset_score = Drop(d.zset_score, k)]
        ELSE [d EXCEPT ![t] = Drop(d[t], k)]
  BY DEF EraseFirst
<1> HIDE DEF t
<1> QED BY <1>1, <1>3, <1>4, <1>5

LEMMA KeysMove ==
  ASSUME NEW d, Sound(d), KeysIn(d), NEW k \in Keys, NEW k2 \in Keys, RenameType(d, k) # "none"
  PROVE KeysIn(MoveFirst(d, k, k2))
<1> DEFINE t == RenameType(d, k)
<1>1. t \in {"store", "hash", "lists", "sets", "zset"}
  BY DEF RenameType
<1>2. IsDb(d) /\ \A u \in Maps : DOMAIN d[u] \subseteq Keys
  BY DEF KeysIn, Sound
<1>3. ASSUME NEW f, DOMAIN f \subseteq Keys
      PROVE DOMAIN MoveZset(f, k, k2) \subseteq Keys
  BY <1>3, KeysPut, KeysDrop DEF MoveZset
<1>4. KeysIn([d EXCEPT !.zset = MoveZset(d.zset, k, k2),
                       !.zset_score = MoveZset(d.zset_score, k, k2)])
  <2>1. DOMAIN d.zset \subseteq Keys /\ DOMAIN d.zset_score \subseteq Keys
    BY <1>2 DEF Maps
  <2> QED BY <1>2, <1>3, <2>1, KeysScores
<1>5. ASSUME t \in {"store", "hash", "lists", "sets"}
      PROVE KeysIn([d EXCEPT ![t] = Drop(Put(d[t], k2, d[t][k]), k)])
  <2>1. t \in Maps
    BY <1>5 DEF Maps
  <2> HIDE DEF t
  <2>2. DOMAIN Drop(Put(d[t], k2, d[t][k]), k) \subseteq Keys
    BY <1>2, <2>1, KeysPut, KeysDrop
  <2> QED BY <1>2, <2>1, <2>2, KeysWith
<1>6. MoveFirst(d, k, k2) =
        IF t = "zset" THEN [d EXCEPT !.zset = MoveZset(d.zset, k, k2),
                                     !.zset_score = MoveZset(d.zset_score, k, k2)]
        ELSE [d EXCEPT ![t] = Drop(Put(d[t], k2, d[t][k]), k)]
  BY DEF MoveFirst
<1> HIDE DEF t
<1> QED BY <1>1, <1>4, <1>5, <1>6

LEMMA KeysRename ==
  ASSUME NEW d, Sound(d), KeysIn(d), NEW k \in Keys, NEW k2 \in Keys
  PROVE KeysIn(RENAME(d, k, k2)) /\ KeysIn(RENAMENX(d, k, k2))
<1>1. k # k2 /\ RenameType(d, k) # "none" => KeysIn(MoveFirst(EraseFirst(d, k2), k, k2))
  BY EraseIsSound, KeysErase, EraseKeepsType, KeysMove
<1>2. RenameType(d, k) # "none" => KeysIn(MoveFirst(d, k, k2))
  BY KeysMove
<1> QED BY <1>1, <1>2 DEF RENAME, RENAMENX, RENAMERefuses, RENAMENXRefuses

LEMMA KeysFlush == ASSUME NEW d, Sound(d), KeysIn(d), NEW s PROVE KeysIn(FLUSHSHARD(d, s))
BY DEF KeysIn, Sound, IsDb, FLUSHSHARD, Outside

LEMMA ResultsHaveKeys ==
  ASSUME NEW d, Sound(d), KeysIn(d), NEW c, c.ks \in Seq(Keys), c.ks # <<>>, NEW r \in Results(c, d)
  PROVE KeysIn(r)
<1> DEFINE k == c.ks[1]
           k2 == c.ks[Len(c.ks)]
<1>1. k \in Keys /\ k2 \in Keys
  OBVIOUS
<1>2. IsDb(d)
  BY DEF Sound
<1>3. CASE c.op \in StringOps
  <2> HIDE DEF k, k2
  <2>1. /\ \A v, t : KeysIn(SET(d, k, v, t))
        /\ \A v : KeysIn(GETSET(d, k, v)) /\ KeysIn(APPEND(d, k, v)) /\ KeysIn(SETNX(d, k, v))
        /\ KeysIn(DEL(d, k)) /\ KeysIn(PERSIST(d, k)) /\ KeysIn(INCR(d, k))
        /\ \A n : KeysIn(INCRBY(d, k, n)) /\ KeysIn(EXPIRE(d, k, n)) /\ KeysIn(PEXPIRE(d, k, n))
    BY <1>1, <1>2, KeysStrings
  <2> QED BY <1>3, <2>1 DEF Results, StringOps, k
<1>4. CASE c.op \in CollectionOps
  <2> HIDE DEF k, k2
  <2>1. /\ KeysIn(HSET(d, k, c.m, c.v)) /\ KeysIn(HDEL(d, k, {c.m}))
        /\ KeysIn(LPUSH(d, k, <<c.v>>)) /\ KeysIn(RPUSH(d, k, <<c.v>>))
        /\ KeysIn(LPOP(d, k, c.n)) /\ KeysIn(RPOP(d, k, c.n))
        /\ KeysIn(LINSERT(d, k, c.n = 1, c.m, c.v)) /\ KeysIn(LSET(d, k, c.n, c.v))
        /\ KeysIn(SADD(d, k, {c.m}))
        /\ \A tem : KeysIn(RPOPLPUSH(d, k, k2, tem)) /\ KeysIn(LPOPRPUSH(d, k, k2, tem))
    BY <1>1, <1>2, KeysCollections
  <2>2. /\ \A ms : KeysIn(SREM(d, k, ms)) /\ KeysIn(SPOP(d, k, ms))
        /\ KeysIn(SMOVE(d, k, k2, c.m))
    BY <1>1, <1>2, KeysSets
  <2> QED BY <1>4, <2>1, <2>2 DEF Results, CollectionOps, k, k2
<1>5. CASE c.op \in ZsetOps
  <2> HIDE DEF k, k2
  <2>1. /\ KeysIn(ZADD(d, k, c.e, c.m)) /\ KeysIn(ZREM(d, k, {c.m})) /\ KeysIn(ZINCRBY(d, k, c.n, c.m))
        /\ KeysIn(ZREMRANGEBYSCORE(d, k, c.n, c.n))
    BY <1>1, KeysSorted
  <2> QED BY <1>5, <2>1 DEF Results, ZsetOps, k
<1>6. CASE c.op \in {"RENAME", "RENAMENX"}
  <2> HIDE DEF k, k2
  <2>1. KeysIn(RENAME(d, k, k2)) /\ KeysIn(RENAMENX(d, k, k2))
    BY <1>1, KeysRename
  <2> QED BY <1>6, <2>1 DEF Results, k, k2
<1>7. CASE c.op \notin StringOps \cup CollectionOps \cup ZsetOps \cup {"RENAME", "RENAMENX"}
  <2>1. r = d
    BY <1>7 DEF Results, StringOps, CollectionOps, ZsetOps
  <2> QED BY <2>1
<1> QED BY <1>3, <1>4, <1>5, <1>6, <1>7

-----------------------------------------------------------------------------
(* Flushing. *)

\* A turn of a flush clears one more shard.
LEMMA ClearedMore ==
  ASSUME NEW d, Sound(d), KeysIn(d), NEW s \in 0..Shards - 1, Cleared(d, s)
  PROVE Cleared(FLUSHSHARD(d, s), s + 1)
<1>1. DOMAIN d = Maps
  BY DEF Sound, IsDb
<1>2. ASSUME NEW t \in Maps, NEW k \in DOMAIN FLUSHSHARD(d, s)[t] PROVE ShardOf[k] >= s + 1
  <2>1. k \in DOMAIN d[t] /\ ShardOf[k] # s
    BY <1>1, <1>2 DEF FLUSHSHARD, Outside
  <2>2. ShardOf[k] \in Nat /\ ShardOf[k] >= s
    BY <2>1, ShardsAreNumbers DEF Cleared, KeysIn
  <2> QED BY <2>1, <2>2, StoreBounds
<1>3. \A t \in Maps \ {"store"} : IsMap(FLUSHSHARD(d, s)[t])
  BY <1>1 DEF FLUSHSHARD, Outside, IsMap
<1> QED BY <1>2, <1>3 DEF Cleared

LEMMA ClearedNone == ASSUME NEW d, KeysIn(d) PROVE Cleared(d, 0)
BY ShardsAreNumbers DEF Cleared, KeysIn

LEMMA ClearedAlike ==
  ASSUME NEW d, NEW e, Alike(d, e), NEW s, Cleared(d, s)
  PROVE Cleared(e, s)
<1>1. \A t \in Maps : DOMAIN e[t] = DOMAIN d[t]
  BY DEF Alike, Maps
<1>2. \A t \in Maps \ {"store"} : e[t] = d[t]
  BY DEF Alike
<1> QED BY <1>1, <1>2 DEF Cleared

\* With all shards cleared a database is empty.
LEMMA ClearedAll ==
  ASSUME NEW d, KeysIn(d), Cleared(d, Shards)
  PROVE Alike(EmptyDb, d)
<1>1. ASSUME NEW t \in Maps, NEW k \in DOMAIN d[t] PROVE FALSE
  <2>1. k \in Keys /\ ShardOf[k] >= Shards
    BY <1>1 DEF KeysIn, Cleared
  <2> QED BY <2>1, StoreBounds, ShardsAreNumbers
<1>2. \A t \in Maps : DOMAIN d[t] = {} /\ DOMAIN EmptyDb[t] = {}
  BY <1>1 DEF EmptyDb, Maps
<1>3. ASSUME NEW t \in Maps \ {"store"} PROVE EmptyDb[t] = d[t]
  <2>1. IsMap(d[t])
    BY StoreBounds DEF Cleared
  <2>2. EmptyDb[t] = <<>>
    BY DEF EmptyDb, Maps
  <2>3. ASSUME NEW f, IsMap(f), DOMAIN f = {} PROVE f = <<>>
    BY <2>3 DEF IsMap
  <2> QED BY <1>2, <2>1, <2>2, <2>3
<1>4. "store" \in Maps
  BY DEF Maps
<1> QED BY <1>2, <1>3, <1>4 DEF Alike

\* The order in which FLUSHDBALL goes through the databases meets each of them once.
LEMMA DbOrder ==
  /\ Cardinality(DBs) \in Nat \ {0}
  /\ SetToSeq(DBs) \in [1..Cardinality(DBs) -> DBs]
  /\ \A i, j \in 1..Cardinality(DBs) : SetToSeq(DBs)[i] = SetToSeq(DBs)[j] => i = j
  /\ \A n \in DBs : \E i \in 1..Cardinality(DBs) : SetToSeq(DBs)[i] = n
<1> DEFINE C == Cardinality(DBs)
           q == SetToSeq(DBs)
<1>1. IsFiniteSet(DBs) /\ 0 \in DBs
  BY StoreBounds
<1>2. C \in Nat /\ ExistsBijection(1..C, DBs)
  BY <1>1, FS_CardinalityType
<1>3. PICK f \in [1..C -> DBs] : IsInjective(f)
  BY <1>2 DEF ExistsBijection, Bijection, Injection, IsInjective
<1>4. q \in [1..C -> DBs] /\ IsInjective(q)
  BY <1>3 DEF SetToSeq
<1> HIDE DEF q
<1>5. q \in Injection(1..C, DBs)
  BY <1>4 DEF Injection, IsInjective
<1>6. IsFiniteSet(1..C) /\ Cardinality(1..C) = C
  BY <1>2, FS_Interval
<1>7. q \in Surjection(1..C, DBs)
  BY <1>1, <1>5, <1>6, FS_Injection
<1>8. \A n \in DBs : \E i \in 1..C : q[i] = n
  BY <1>7 DEF Surjection
<1>9. C # 0
  BY <1>1, <1>8
<1> QED BY <1>2, <1>4, <1>8, <1>9 DEF IsInjective, q

-----------------------------------------------------------------------------
(* Commands in flight. *)

JobOk(job) == job \in JobType /\ JobFits(job)

\* The jobs that a handler makes of the one it has.
LEMMA JobKey ==
  ASSUME NEW job, JobOk(job), job.cmd.op \notin ServerOps, job.cmd.ks # <<>>
  PROVE LET j == [job EXCEPT !.cmd.ks = Tail(@), !.pc = "run"]
        IN /\ JobOk(j) /\ j.cmd.op = job.cmd.op /\ j.cmd.ks = Tail(job.cmd.ks) /\ j.cmd.v = job.cmd.v
           /\ j.pc = "run"
<1> DEFINE j == [job EXCEPT !.cmd.ks = Tail(@), !.pc = "run"]
           C == 1..Cardinality(DBs)
           S == 0..Shards - 1
<1>1. /\ job \in [cmd : CmdType, pc : {"run", "erase"}, nth : C, at : S] /\ JobFits(job)
      /\ Tail(job.cmd.ks) \in Seq(Keys)
  BY DEF JobOk, JobType, CmdType
<1> HIDE DEF C, S
<1> DEFINE cmd == [job.cmd EXCEPT !.ks = Tail(@)]
<1>0. cmd \in CmdType /\ cmd.op = job.cmd.op /\ cmd.ks = Tail(job.cmd.ks) /\ cmd.v = job.cmd.v /\ cmd.n = job.cmd.n
  BY <1>1 DEF CmdType
<1>2. j = [job EXCEPT !.cmd = cmd, !.pc = "run"]
  BY <1>1
<1> HIDE DEF j, cmd
<1>a. /\ [job EXCEPT !.cmd = cmd, !.pc = "run"] \in [cmd : CmdType, pc : {"run", "erase"}, nth : C, at : S]
      /\ [job EXCEPT !.cmd = cmd, !.pc = "run"].cmd = cmd /\ [job EXCEPT !.cmd = cmd, !.pc = "run"].pc = "run"
  BY <1>0, <1>1
<1>3. /\ j.cmd \in CmdType /\ j.cmd.op = job.cmd.op /\ j.cmd.ks = Tail(job.cmd.ks)
      /\ j.cmd.v = job.cmd.v /\ j.cmd.n = job.cmd.n /\ j.pc = "run"
  BY <1>0, <1>2, <1>a
<1>4. j \in JobType
  BY <1>2, <1>a DEF JobType, C, S
<1>5. JobFits(j)
  BY <1>1, <1>3 DEF JobFits, ServerOps
<1> QED BY <1>3, <1>4, <1>5 DEF JobOk, j

Moved(job, at, nth, j) == JobOk(j) /\ j.cmd = job.cmd /\ j.pc = job.pc /\ j.at = at /\ j.nth = nth

LEMMA JobShard ==
  ASSUME NEW job, JobOk(job), NEW at \in 0..Shards - 1, NEW nth \in 1..Cardinality(DBs)
  PROVE Moved(job, at, nth, [job EXCEPT !.at = at, !.nth = nth])
<1> DEFINE j == [job EXCEPT !.at = at, !.nth = nth]
           C == 1..Cardinality(DBs)
           S == 0..Shards - 1
<1>1. job \in [cmd : CmdType, pc : {"run", "erase"}, nth : C, at : S] /\ JobFits(job) /\ at \in S /\ nth \in C
  BY DEF JobOk, JobType
<1> HIDE DEF C, S
<1>2. /\ j \in [cmd : CmdType, pc : {"run", "erase"}, nth : C, at : S]
      /\ j.cmd = job.cmd /\ j.pc = job.pc /\ j.at = at /\ j.nth = nth
  BY <1>1
<1> HIDE DEF j
<1>3. JobOk(j)
  BY <1>1, <1>2 DEF JobOk, JobType, JobFits, C, S
<1> QED BY <1>2, <1>3 DEF j, Moved

LEMMA JobFound ==
  ASSUME NEW job, JobOk(job), job.cmd.op \in Lazy
  PROVE LET j == [job EXCEPT !.pc = "erase"] IN JobOk(j) /\ j.cmd = job.cmd
<1> DEFINE j == [job EXCEPT !.pc = "erase"]
           C == 1..Cardinality(DBs)
           S == 0..Shards - 1
<1>1. job \in [cmd : CmdType, pc : {"run", "erase"}, nth : C, at : S] /\ JobFits(job)
  BY DEF JobOk, JobType
<1> HIDE DEF C, S
<1>2. j \in [cmd : CmdType, pc : {"run", "erase"}, nth : C, at : S] /\ j.cmd = job.cmd
  BY <1>1
<1> HIDE DEF j
<1>3. JobOk(j)
  BY <1>1, <1>2 DEF JobOk, JobType, JobFits, C, S
<1> QED BY <1>2, <1>3 DEF j

\* What a client may ask for makes a job.
LEMMA JobNew ==
  ASSUME NEW cmd \in CmdType, cmd.op \in ServerOps => cmd.ks = <<>>, cmd.op = "SELECT" => cmd.n \in DBs
  PROVE JobOk(Job(cmd)) /\ Job(cmd).cmd = cmd /\ Job(cmd).at = 0 /\ Job(cmd).nth = 1 /\ Job(cmd).pc = "run"
<1>1. 1 \in 1..Cardinality(DBs) /\ 0 \in 0..Shards - 1
  BY DbOrder, StoreBounds
<1> QED BY <1>1 DEF Job, JobOk, JobType, JobFits

\* The arguments of a command.
CmdFits(cmd) ==
  /\ cmd \in CmdType
  /\ cmd.op \in ServerOps => cmd.ks = <<>>
  /\ cmd.op = "SELECT" => cmd.n \in DBs

LEMMA CmdIs ==
  ASSUME NEW op \in Ops, NEW ks \in Seq(Keys), NEW v \in Int, NEW m \in Int, NEW n \in Int,
         NEW e \in SUBSET Int, op \in ServerOps => ks = <<>>, op = "SELECT" => n \in DBs
  PROVE CmdFits(Cmd(op, ks, v, m, n, e))
BY DEF CmdFits, CmdType, Cmd

LEMMA OneFits ==
  ASSUME NEW names \in SUBSET Ops, names \cap ServerOps = {}, NEW vs \in SUBSET Int, NEW ms \in SUBSET Int,
         NEW ns \in SUBSET Int, NEW cmd \in One(names, vs, ms, ns)
  PROVE CmdFits(cmd)
<1>1. PICK op \in names, k \in Single, v \in vs, m \in ms, n \in ns : cmd = Cmd(op, <<k>>, v, m, n, {})
  BY SMTT(30) DEF One
<1>2. <<k>> \in Seq(Keys) /\ {} \in SUBSET Int
  BY StoreBounds
<1> DEFINE ks == <<k>>
           e == {}
<1>3. ks \in Seq(Keys) /\ e \in SUBSET Int
  BY <1>2
<1>4. cmd = Cmd(op, ks, v, m, n, e)
  BY <1>1, Zenon
<1> HIDE DEF ks, e
<1>5. op \in Ops /\ op \notin ServerOps /\ op # "SELECT" /\ v \in Int /\ m \in Int /\ n \in Int
  BY DEF ServerOps
<1> QED BY <1>3, <1>4, <1>5, CmdIs

LEMMA TwoFits ==
  ASSUME NEW names \in SUBSET Ops, names \cap ServerOps = {}, NEW ms \in SUBSET Int, NEW cmd \in Two(names, ms)
  PROVE CmdFits(cmd)
<1>1. PICK op \in names, k \in Keys, k2 \in Keys, m \in ms : cmd = Cmd(op, <<k, k2>>, 0, m, 0, {})
  BY SMTT(30) DEF Two
<1>2. <<k, k2>> \in Seq(Keys) /\ {} \in SUBSET Int
  OBVIOUS
<1> DEFINE ks == <<k, k2>>
           e == {}
<1>3. ks \in Seq(Keys) /\ e \in SUBSET Int /\ cmd = Cmd(op, ks, 0, m, 0, e)
  BY <1>1, <1>2
<1> HIDE DEF ks, e
<1>4. op \in Ops /\ op \notin ServerOps /\ 0 \in Int /\ m \in Int
  BY DEF ServerOps
<1> QED BY <1>3, <1>4, CmdIs DEF ServerOps

LEMMA KeyOrder == SetToSeq(Single) \in Seq(Keys)
<1> DEFINE C == Cardinality(Single)
<1>1. Single \subseteq Keys /\ IsFiniteSet(Single)
  BY StoreBounds, FS_Subset
<1>2. C \in Nat /\ ExistsBijection(1..C, Single)
  BY <1>1, FS_CardinalityType
<1>3. PICK f \in [1..C -> Single] : IsInjective(f)
  BY <1>2 DEF ExistsBijection, Bijection, Injection, IsInjective
<1>4. SetToSeq(Single) \in [1..C -> Single]
  BY <1>3 DEF SetToSeq
<1> QED BY <1>1, <1>2, <1>4

LEMMA CommandsFit == ASSUME NEW cmd \in AllCommands PROVE CmdFits(cmd)
<1>1. Chars \in SUBSET Int /\ Scores \subseteq Int /\ DBs \subseteq Int /\ {0} \in SUBSET Int
      /\ {1} \in SUBSET Int /\ {-1, 1} \in SUBSET Int /\ {0, 1} \in SUBSET Int
  BY StoreBounds
<1>2. CASE cmd \in SetCmds
  <2>1. PICK k \in Single, v \in Chars, e \in {{}, {1}} : cmd = Cmd("SET", <<k>>, v, 0, 0, e)
    BY <1>2 DEF SetCmds
  <2> DEFINE ks == <<k>>
  <2>2. ks \in Seq(Keys) /\ e \in SUBSET Int /\ v \in Int /\ cmd = Cmd("SET", ks, v, 0, 0, e)
    BY <1>1, <2>1, StoreBounds
  <2> HIDE DEF ks
  <2> QED BY <2>2, CmdIs DEF Ops, ServerOps, StringOps, ZsetOps
<1>3. CASE cmd \in ZaddCmds
  <2>1. CASE cmd \in {ZaddBare(k, m) : k \in Single, m \in Chars}
    <3>1. PICK k \in Single, m \in Chars : cmd = ZaddBare(k, m)
      BY <2>1
    <3> DEFINE ks == <<k>>
               e == {}
    <3>2. ks \in Seq(Keys) /\ e \in SUBSET Int /\ m \in Int
      BY <1>1, StoreBounds
    <3>3. cmd = Cmd("ZADD", ks, 0, m, 0, e)
      BY <3>1 DEF ZaddBare
    <3> HIDE DEF ks, e
    <3> QED BY <3>2, <3>3, CmdIs DEF Ops, ServerOps, StringOps, ZsetOps
  <2>2. CASE cmd \in {Zadd(k, m, s) : k \in Single, m \in Chars, s \in Scores}
    <3>1. PICK k \in Single, m \in Chars, s \in Scores : cmd = Zadd(k, m, s)
      BY <2>2
    <3> DEFINE ks == <<k>>
               e == {s}
    <3>2. ks \in Seq(Keys) /\ e \in SUBSET Int /\ m \in Int
      BY <1>1, StoreBounds
    <3>3. cmd = Cmd("ZADD", ks, 0, m, 0, e)
      BY <3>1 DEF Zadd
    <3> HIDE DEF ks, e
    <3> QED BY <3>2, <3>3, CmdIs DEF Ops, ServerOps, StringOps, ZsetOps
  <2> QED BY <1>3, <2>1, <2>2 DEF ZaddCmds
<1>4. CASE cmd \in ServerCmds
  <2>1. PICK op \in ServerOps, n \in DBs \cup {0, 1} :
          cmd = Cmd(op, <<>>, 0, 0, n, {}) /\ (op = "SELECT" => n \in DBs)
    BY <1>4 DEF ServerCmds, ServerOps
  <2> DEFINE ks == <<>>
             e == {}
  <2>2. ks \in Seq(Keys) /\ e \in SUBSET Int /\ n \in Int /\ cmd = Cmd(op, ks, 0, 0, n, e) /\ ks = <<>>
    BY <1>1, <2>1
  <2> HIDE DEF ks, e
  <2>3. op \in Ops /\ 0 \in Int
    BY DEF Ops
  <2> QED BY <2>1, <2>2, <2>3, CmdIs
<1>5. CASE cmd \in {Cmd(op, SetToSeq(Single), v, 0, 0, {}) : op \in {"MSET", "MGET"}, v \in Chars}
  <2>1. PICK op \in {"MSET", "MGET"}, v \in Chars : cmd = Cmd(op, SetToSeq(Single), v, 0, 0, {})
    BY <1>5
  <2> DEFINE e == {}
  <2>2. SetToSeq(Single) \in Seq(Keys) /\ e \in SUBSET Int /\ v \in Int /\ cmd = Cmd(op, SetToSeq(Single), v, 0, 0, e)
    BY <1>1, <2>1, KeyOrder
  <2> HIDE DEF e
  <2> QED BY <2>1, <2>2, CmdIs DEF Ops, ServerOps, StringOps, ZsetOps
<1>6. CASE cmd \in One({"GET", "STRLEN", "DEL", "INCR", "PERSIST", "SRANDMEMBER"}, {0}, {0}, {0})
  <2>1. {"GET", "STRLEN", "DEL", "INCR", "PERSIST", "SRANDMEMBER"} \in SUBSET Ops /\ {"GET", "STRLEN", "DEL", "INCR", "PERSIST", "SRANDMEMBER"} \cap ServerOps = {}
    BY DEF Ops, ServerOps, StringOps, CollectionOps, ZsetOps
  <2> DEFINE names == {"GET", "STRLEN", "DEL", "INCR", "PERSIST", "SRANDMEMBER"}
  <2>2. names \in SUBSET Ops /\ names \cap ServerOps = {} /\ cmd \in One(names, {0}, {0}, {0})
    BY <1>6, <2>1
  <2> HIDE DEF names
  <2> QED BY <1>1, <2>2, OneFits
<1>7. CASE cmd \in One({"INCRBY", "EXPIRE", "PEXPIRE", "LPOP", "RPOP", "SPOP"}, {0}, {0}, {1})
  <2>1. {"INCRBY", "EXPIRE", "PEXPIRE", "LPOP", "RPOP", "SPOP"} \in SUBSET Ops /\ {"INCRBY", "EXPIRE", "PEXPIRE", "LPOP", "RPOP", "SPOP"} \cap ServerOps = {}
    BY DEF Ops, ServerOps, StringOps, CollectionOps, ZsetOps
  <2> DEFINE names == {"INCRBY", "EXPIRE", "PEXPIRE", "LPOP", "RPOP", "SPOP"}
  <2>2. names \in SUBSET Ops /\ names \cap ServerOps = {} /\ cmd \in One(names, {0}, {0}, {1})
    BY <1>7, <2>1
  <2> HIDE DEF names
  <2> QED BY <1>1, <2>2, OneFits
<1>8. CASE cmd \in One({"GETSET", "APPEND", "SETNX", "LPUSH", "RPUSH"}, Chars, {0}, {0})
  <2>1. {"GETSET", "APPEND", "SETNX", "LPUSH", "RPUSH"} \in SUBSET Ops /\ {"GETSET", "APPEND", "SETNX", "LPUSH", "RPUSH"} \cap ServerOps = {}
    BY DEF Ops, ServerOps, StringOps, CollectionOps, ZsetOps
  <2> DEFINE names == {"GETSET", "APPEND", "SETNX", "LPUSH", "RPUSH"}
  <2>2. names \in SUBSET Ops /\ names \cap ServerOps = {} /\ cmd \in One(names, Chars, {0}, {0})
    BY <1>8, <2>1
  <2> HIDE DEF names
  <2> QED BY <1>1, <2>2, OneFits
<1>9. CASE cmd \in One({"LSET"}, Chars, {0}, {-1, 1})
  <2>1. {"LSET"} \in SUBSET Ops /\ {"LSET"} \cap ServerOps = {}
    BY DEF Ops, ServerOps, StringOps, CollectionOps, ZsetOps
  <2> DEFINE names == {"LSET"}
  <2>2. names \in SUBSET Ops /\ names \cap ServerOps = {} /\ cmd \in One(names, Chars, {0}, {-1, 1})
    BY <1>9, <2>1
  <2> HIDE DEF names
  <2> QED BY <1>1, <2>2, OneFits
<1>10. CASE cmd \in One({"LINSERT"}, Chars, Chars, {0, 1})
  <2>1. {"LINSERT"} \in SUBSET Ops /\ {"LINSERT"} \cap ServerOps = {}
    BY DEF Ops, ServerOps, StringOps, CollectionOps, ZsetOps
  <2> DEFINE names == {"LINSERT"}
  <2>2. names \in SUBSET Ops /\ names \cap ServerOps = {} /\ cmd \in One(names, Chars, Chars, {0, 1})
    BY <1>10, <2>1
  <2> HIDE DEF names
  <2> QED BY <1>1, <2>2, OneFits
<1>11. CASE cmd \in One({"HSET"}, Chars, Chars, {0})
  <2>1. {"HSET"} \in SUBSET Ops /\ {"HSET"} \cap ServerOps = {}
    BY DEF Ops, ServerOps, StringOps, CollectionOps, ZsetOps
  <2> DEFINE names == {"HSET"}
  <2>2. names \in SUBSET Ops /\ names \cap ServerOps = {} /\ cmd \in One(names, Chars, Chars, {0})
    BY <1>11, <2>1
  <2> HIDE DEF names
  <2> QED BY <1>1, <2>2, OneFits
<1>12. CASE cmd \in One({"HDEL", "SADD", "SREM", "ZREM"}, {0}, Chars, {0})
  <2>1. {"HDEL", "SADD", "SREM", "ZREM"} \in SUBSET Ops /\ {"HDEL", "SADD", "SREM", "ZREM"} \cap ServerOps = {}
    BY DEF Ops, ServerOps, StringOps, CollectionOps, ZsetOps
  <2> DEFINE names == {"HDEL", "SADD", "SREM", "ZREM"}
  <2>2. names \in SUBSET Ops /\ names \cap ServerOps = {} /\ cmd \in One(names, {0}, Chars, {0})
    BY <1>12, <2>1
  <2> HIDE DEF names
  <2> QED BY <1>1, <2>2, OneFits
<1>13. CASE cmd \in One({"ZINCRBY", "ZINCRBYFLOAT", "ZREMRANGEBYSCORE"}, {0}, Chars, {1})
  <2>1. {"ZINCRBY", "ZINCRBYFLOAT", "ZREMRANGEBYSCORE"} \in SUBSET Ops /\ {"ZINCRBY", "ZINCRBYFLOAT", "ZREMRANGEBYSCORE"} \cap ServerOps = {}
    BY DEF Ops, ServerOps, StringOps, CollectionOps, ZsetOps
  <2> DEFINE names == {"ZINCRBY", "ZINCRBYFLOAT", "ZREMRANGEBYSCORE"}
  <2>2. names \in SUBSET Ops /\ names \cap ServerOps = {} /\ cmd \in One(names, {0}, Chars, {1})
    BY <1>13, <2>1
  <2> HIDE DEF names
  <2> QED BY <1>1, <2>2, OneFits
<1>14. CASE cmd \in Two({"RENAME", "RENAMENX", "RPOPLPUSH", "LPOPRPUSH"}, {0})
  <2>1. {"RENAME", "RENAMENX", "RPOPLPUSH", "LPOPRPUSH"} \in SUBSET Ops /\ {"RENAME", "RENAMENX", "RPOPLPUSH", "LPOPRPUSH"} \cap ServerOps = {}
    BY DEF Ops, ServerOps, StringOps, CollectionOps, ZsetOps
  <2> DEFINE names == {"RENAME", "RENAMENX", "RPOPLPUSH", "LPOPRPUSH"}
  <2>2. names \in SUBSET Ops /\ names \cap ServerOps = {} /\ cmd \in Two(names, {0})
    BY <1>14, <2>1
  <2> HIDE DEF names
  <2> QED BY <1>1, <2>2, TwoFits
<1>15. CASE cmd \in Two({"SMOVE"}, Chars)
  <2>1. {"SMOVE"} \in SUBSET Ops /\ {"SMOVE"} \cap ServerOps = {}
    BY DEF Ops, ServerOps, StringOps, CollectionOps, ZsetOps
  <2> DEFINE names == {"SMOVE"}
  <2>2. names \in SUBSET Ops /\ names \cap ServerOps = {} /\ cmd \in Two(names, Chars)
    BY <1>15, <2>1
  <2> HIDE DEF names
  <2> QED BY <1>1, <2>2, TwoFits
<1> QED BY <1>2, <1>3, <1>4, <1>5, <1>6, <1>7, <1>8, <1>9, <1>10, <1>11, <1>12, <1>13, <1>14, <1>15
        DEF AllCommands

-----------------------------------------------------------------------------
(* The types are kept. *)

\* What is in flight at a connection after a turn: nothing, or the same command.
Continues(c, job) ==
  \/ Finish(c)
  \/ \E q : JobOk(q) /\ q.cmd.op = job.cmd.op /\ running' = [running EXCEPT ![c] = <<q>>]

LEMMA NextKeyContinues ==
  ASSUME NEW c, NEW job, JobOk(job), NextKey(c, job)
  PROVE Continues(c, job)
<1>1. CASE job.cmd.op \in PerKey /\ Len(job.cmd.ks) > 1
  <2> DEFINE q == [job EXCEPT !.cmd.ks = Tail(@), !.pc = "run"]
  <2>1. job.cmd.op \notin ServerOps /\ job.cmd.ks # <<>>
    BY <1>1 DEF PerKey, ServerOps
  <2>2. JobOk(q) /\ q.cmd.op = job.cmd.op
    BY <2>1, JobKey
  <2>3. running' = [running EXCEPT ![c] = <<q>>]
    BY <1>1 DEF NextKey
  <2> HIDE DEF q
  <2> QED BY <2>2, <2>3 DEF Continues
<1>2. CASE ~(job.cmd.op \in PerKey /\ Len(job.cmd.ks) > 1)
  BY <1>2 DEF NextKey, Continues
<1> QED BY <1>1, <1>2

\* The next shard of the same or of the next database.
LEMMA FlushContinues ==
  ASSUME NEW c, NEW job, JobOk(job), Flush(c, job)
  PROVE Continues(c, job)
<1>1. job.at \in 0..Shards - 1 /\ job.nth \in 1..Cardinality(DBs) /\ Shards \in Nat /\ Cardinality(DBs) \in Nat
  BY StoreBounds, DbOrder DEF JobOk, JobType
<1>2. CASE job.at + 1 < Shards /\ running' = [running EXCEPT ![c] = <<[job EXCEPT !.at = @ + 1]>>]
  <2> DEFINE a == job.at + 1
             q == [job EXCEPT !.at = a, !.nth = job.nth]
  <2>1. a \in 0..Shards - 1
    BY <1>1, <1>2
  <2>2. [job EXCEPT !.at = @ + 1] = q
    BY DEF JobOk, JobType
  <2> HIDE DEF a
  <2>4. Moved(job, a, job.nth, q)
    BY <1>1, <2>1, JobShard, Zenon
  <2>3. JobOk(q) /\ q.cmd = job.cmd
    BY <2>4, Zenon DEF Moved
  <2> HIDE DEF q
  <2> QED BY <1>2, <2>2, <2>3 DEF Continues
<1>3. CASE job.nth < Cardinality(DBs) /\ running' = [running EXCEPT ![c] = <<[job EXCEPT !.at = 0, !.nth = @ + 1]>>]
  <2> DEFINE a == 0
             n == job.nth + 1
             q == [job EXCEPT !.at = a, !.nth = n]
  <2>1. a \in 0..Shards - 1 /\ n \in 1..Cardinality(DBs)
    BY <1>1, <1>3
  <2>2. [job EXCEPT !.at = 0, !.nth = @ + 1] = q
    OBVIOUS
  <2> HIDE DEF a, n
  <2>4. Moved(job, a, n, q)
    BY <2>1, JobShard, Zenon
  <2>3. JobOk(q) /\ q.cmd = job.cmd
    BY <2>4, Zenon DEF Moved
  <2> HIDE DEF q
  <2> QED BY <1>3, <2>2, <2>3 DEF Continues
<1>4. CASE Finish(c)
  BY <1>4 DEF Continues
<1> QED BY <1>2, <1>3, <1>4 DEF Flush

LEMMA HandleContinues ==
  ASSUME NEW c, NEW job, JobOk(job), Handle(c, job)
  PROVE Continues(c, job)
<1>1. CASE Refuse(c, job) \/ Select(c, job) \/ Fault(c, job)
  BY <1>1 DEF Refuse, Select, Fault, Continues
<1>2. CASE Flush(c, job)
  BY <1>2, FlushContinues
<1>3. CASE FindExpired(c, job)
  <2> DEFINE q == [job EXCEPT !.pc = "erase"]
  <2>1. job.cmd.op \in Lazy /\ running' = [running EXCEPT ![c] = <<q>>]
    BY <1>3 DEF FindExpired
  <2>2. JobOk(q) /\ q.cmd = job.cmd
    BY <2>1, JobFound
  <2> HIDE DEF q
  <2> QED BY <2>1, <2>2 DEF Continues
<1>4. CASE EraseExpired(c, job) \/ Turn(c, job)
  BY <1>4, NextKeyContinues DEF EraseExpired, Turn
<1> QED BY <1>1, <1>2, <1>3, <1>4 DEF Handle

LEMMA HandleConn ==
  ASSUME NEW c \in Clients, NEW job, JobOk(job), Handle(c, job), conn \in [Clients -> [level : 0..2, db : DBs]]
  PROVE /\ conn' \in [Clients -> [level : 0..2, db : DBs]]
        /\ \A o \in Clients \ {c} : conn'[o] = conn[o]
        /\ job.cmd.op # "SELECT" => conn' = conn
<1>1. CASE Select(c, job)
  <2>1. job.cmd.op = "SELECT" /\ job.cmd.n \in DBs /\ conn' = [conn EXCEPT ![c].db = job.cmd.n]
    BY <1>1 DEF Select, JobOk, JobFits
  <2> QED BY <2>1
<1>2. CASE ~Select(c, job)
  BY <1>2 DEF Handle, Refuse, Flush, FindExpired, EraseExpired, Turn, Fault
<1> QED BY <1>1, <1>2

LEMMA HandleKeys ==
  ASSUME IInv, \A n \in DBs : KeysIn(dbs[n]), NEW c, NEW job, JobOk(job), Handle(c, job)
  PROVE \A n \in DBs : KeysIn(dbs'[n])
<1>0. job.cmd.ks \in Seq(Keys) /\ JobFits(job)
  BY DEF JobOk, JobType, CmdType
<1>1. CASE UNCHANGED dbs
  BY <1>1
<1>2. ASSUME NEW m, NEW d, m \in DBs => KeysIn(d), dbs' = [dbs EXCEPT ![m] = d]
      PROVE \A n \in DBs : KeysIn(dbs'[n])
  <2>1. dbs' = [n \in DBs |-> IF n = m THEN d ELSE dbs[n]]
    BY <1>2 DEF IInv
  <2> QED BY <1>2, <2>1
<1>3. CASE Flush(c, job)
  <2>1. ASSUME NEW m, NEW s, dbs' = [dbs EXCEPT ![m] = FLUSHSHARD(dbs[m], s)]
        PROVE \A n \in DBs : KeysIn(dbs'[n])
    <3>1. m \in DBs => KeysIn(FLUSHSHARD(dbs[m], s))
      BY KeysFlush DEF IInv
    <3> QED BY <1>2, <2>1, <3>1
  <2>2. UNCHANGED dbs \/ \E m, s : dbs' = [dbs EXCEPT ![m] = FLUSHSHARD(dbs[m], s)]
    BY <1>3 DEF Flush
  <2> QED BY <1>1, <2>1, <2>2
<1>4. CASE EraseExpired(c, job)
  <2> DEFINE m == conn[c].db
             d == [dbs[m] EXCEPT !.store = Drop(dbs[m].store, job.cmd.ks[1])]
  <2>1. dbs' = [dbs EXCEPT ![m] = d]
    BY <1>4 DEF EraseExpired, SetDb, Db, DEL
  <2>2. ASSUME m \in DBs PROVE KeysIn(d)
    <3>1. IsDb(dbs[m]) /\ KeysIn(dbs[m]) /\ "store" \in Maps
      BY <2>2 DEF IInv, Sound, Maps
    <3>2. DOMAIN Drop(dbs[m].store, job.cmd.ks[1]) \subseteq Keys
      BY <3>1, KeysDrop DEF KeysIn
    <3> QED BY <3>1, <3>2, KeysWith
  <2> HIDE DEF m, d
  <2> QED BY <1>2, <2>1, <2>2
<1>5. CASE Turn(c, job)
  <2> DEFINE m == conn[c].db
  <2>1. PICK r \in Results(job.cmd, dbs[m]) : dbs' = [dbs EXCEPT ![m] = r]
    BY <1>5 DEF Turn, SetDb, Db
  <2>2. job.cmd.ks # <<>>
    BY <1>5 DEF Turn, OnKey
  <2> HIDE DEF m
  <2>3. m \in DBs => KeysIn(r)
    BY <1>0, <2>1, <2>2, ResultsHaveKeys DEF IInv
  <2> QED BY <1>2, <2>1, <2>3
<1>6. CASE Refuse(c, job) \/ Select(c, job) \/ FindExpired(c, job) \/ Fault(c, job)
  BY <1>1, <1>6 DEF Refuse, Select, FindExpired, Fault
<1> QED BY <1>3, <1>4, <1>5, <1>6 DEF Handle

\* The replay of a command keeps the databases of the replay sound.
ReplayOk(a) == a = [db |-> a.db, dbs |-> [n \in DBs |-> a.dbs[n]]] /\ \A n \in DBs : Sound(a.dbs[n])

LEMMA BlankIs == ReplayOk(Blank)
<1>1. Sound(EmptyDb)
  BY DEF Sound, IsDb, Maps, Agrees, EmptyDb
<1> QED BY <1>1 DEF ReplayOk, Blank

\* What a replay assigns.
LEMMA ReplayWith ==
  ASSUME NEW a, ReplayOk(a), NEW n, NEW d, n \in DBs => Sound(d)
  PROVE LET b == [a EXCEPT !.dbs[n] = d]
        IN ReplayOk(b) /\ b.db = a.db /\ \A x \in DBs : b.dbs[x] = IF x = n THEN d ELSE a.dbs[x]
<1> DEFINE b == [a EXCEPT !.dbs[n] = d]
<1>1. b = [db |-> a.db, dbs |-> [x \in DBs |-> IF x = n THEN d ELSE a.dbs[x]]]
  BY DEF ReplayOk
<1> QED BY <1>1 DEF ReplayOk

-----------------------------------------------------------------------------
(* A command is logged. *)

\* Replaying a command of one key on databases that are alike.
LEMMA ReplayKey ==
  ASSUME IInv, NEW a, ReplayOk(a), AlikeAll(a.dbs, dbs), NEW cmd, cmd.op \in KeyOps, cmd.op # "MSET",
         NEW db \in DBs, a.db = db, NEW r, Results(cmd, dbs[db]) = {r}
  PROVE /\ ReplayOk(Replay(a, cmd))
        /\ \A n \in DBs : Alike(Replay(a, cmd).dbs[n], IF n = db THEN r ELSE dbs[n])
        /\ ~Faults(cmd, dbs[db])
<1> DEFINE R == Results(cmd, a.dbs[db])
           x == CHOOSE y \in R : TRUE
           e == Forget(x)
<1>1. Sound(a.dbs[db]) /\ Sound(dbs[db]) /\ Alike(a.dbs[db], dbs[db]) /\ Alike(dbs[db], a.dbs[db])
  BY AlikeSym DEF ReplayOk, IInv, AlikeAll
<1>2. IsDb(a.dbs[db]) /\ IsDb(dbs[db])
  BY <1>1 DEF Sound
<1>3. r \in Results(cmd, dbs[db])
  OBVIOUS
<1>4. x \in R
  <2>1. \E q \in R : Alike(r, q)
    BY <1>1, <1>2, <1>3, ResultsAreAlike
  <2> QED BY <2>1
<1>5. Sound(x) /\ Alike(x, r)
  <2>1. Sound(x)
    BY <1>1, <1>4, ResultsAreSound
  <2>2. \E q \in Results(cmd, dbs[db]) : Alike(x, q)
    BY <1>1, <1>2, <1>4, ResultsAreAlike
  <2> QED BY <2>1, <2>2
<1> HIDE DEF x, R
<1>6. Sound(e) /\ Alike(e, r)
  BY <1>5, ForgetIs, AlikeTrans
<1>7. Replay(a, cmd) = [a EXCEPT !.dbs[db] = e]
  BY DEF Replay, KeyOps, x, R
<1> HIDE DEF e
<1>8. ReplayOk(Replay(a, cmd)) /\ \A n \in DBs : Replay(a, cmd).dbs[n] = IF n = db THEN e ELSE a.dbs[n]
  BY <1>6, <1>7, ReplayWith
<1>9. ~Faults(cmd, dbs[db])
  BY <1>3 DEF Results
<1> QED BY <1>6, <1>8, <1>9 DEF AlikeAll

LEMMA ReplayMset ==
  ASSUME IInv, NEW a, ReplayOk(a), AlikeAll(a.dbs, dbs), NEW cmd, cmd.op = "MSET", NEW db \in DBs, a.db = db
  PROVE /\ ReplayOk(Replay(a, cmd))
        /\ \A n \in DBs : Alike(Replay(a, cmd).dbs[n], IF n = db THEN SetAll(dbs[n], cmd.ks, cmd.v) ELSE dbs[n])
<1> DEFINE e == SetAll(a.dbs[db], cmd.ks, cmd.v)
<1>1. Sound(a.dbs[db]) /\ Sound(dbs[db]) /\ Alike(a.dbs[db], dbs[db])
  BY DEF ReplayOk, IInv, AlikeAll
<1>2. Sound(e)
  BY <1>1, SetAllIs
<1>3. Alike(e, SetAll(dbs[db], cmd.ks, cmd.v))
  BY <1>1, SetAllAlike DEF Sound
<1>4. Replay(a, cmd) = [a EXCEPT !.dbs[db] = e]
  BY DEF Replay
<1> HIDE DEF e
<1>5. ReplayOk(Replay(a, cmd)) /\ \A n \in DBs : Replay(a, cmd).dbs[n] = IF n = db THEN e ELSE a.dbs[n]
  BY <1>2, <1>4, ReplayWith
<1> QED BY <1>3, <1>5 DEF AlikeAll

LEMMA ReplayServer ==
  ASSUME NEW a, ReplayOk(a), NEW cmd, cmd.op \in ServerOps
  PROVE /\ ReplayOk(Replay(a, cmd))
        /\ cmd.op = "SELECT" => Replay(a, cmd).dbs = a.dbs
        /\ cmd.op # "SELECT" =>
             \A n \in DBs : Replay(a, cmd).dbs[n] =
               IF MayFlush(1, cmd) /\ (cmd.op = "FLUSHDBALL" \/ n = a.db) THEN EmptyDb ELSE a.dbs[n]
<1>1. Sound(EmptyDb)
  BY DEF Sound, IsDb, Maps, Agrees, EmptyDb
<1>2. CASE cmd.op = "SELECT"
  <2>1. Replay(a, cmd) = [a EXCEPT !.db = cmd.n]
    BY <1>2 DEF Replay
  <2>2. a = [db |-> a.db, dbs |-> [n \in DBs |-> a.dbs[n]]]
    BY DEF ReplayOk
  <2> DEFINE F == [n \in DBs |-> a.dbs[n]]
  <2>3. a.dbs = F
    BY <2>2
  <2> HIDE DEF F
  <2>4. a = [db |-> a.db, dbs |-> F]
    BY <2>2 DEF F
  <2>5. Replay(a, cmd) = [db |-> cmd.n, dbs |-> F]
    BY <2>1, <2>4
  <2>6. Replay(a, cmd).db = cmd.n /\ Replay(a, cmd).dbs = F
    BY <2>5
  <2> QED BY <1>2, <2>3, <2>5, <2>6 DEF ReplayOk, F
<1>3. CASE cmd.op # "SELECT"
  <2> DEFINE f(n) == IF cmd.op = "FLUSHDBALL" \/ n = a.db THEN EmptyDb ELSE a.dbs[n]
  <2>1. Replay(a, cmd) = IF MayFlush(1, cmd) THEN [a EXCEPT !.dbs = [n \in DBs |-> f(n)]] ELSE a
    BY <1>3 DEF Replay, ReplayFlush, ServerOps
  <2>2. CASE MayFlush(1, cmd)
    <3>1. Replay(a, cmd) = [db |-> a.db, dbs |-> [n \in DBs |-> f(n)]]
      BY <2>1, <2>2 DEF ReplayOk
    <3>2. \A n \in DBs : Sound(f(n))
      BY <1>1 DEF ReplayOk
    <3> HIDE DEF f
    <3>3. ReplayOk(Replay(a, cmd)) /\ \A n \in DBs : Replay(a, cmd).dbs[n] = f(n)
      BY <3>1, <3>2 DEF ReplayOk
    <3> QED BY <1>3, <2>2, <3>3 DEF f
  <2>3. CASE ~MayFlush(1, cmd)
    BY <1>3, <2>1, <2>3
  <2> QED BY <2>2, <2>3
<1> QED BY <1>2, <1>3

\* What LogEffect asks of a command and a client for the log to stay of use.
Followed(c, cmd) ==
  /\ conn[c].level # 0
  /\ \A o \in Clients \ {c} : ~InFlight(o)
  /\ cmd.op # "SELECT" => aof.db = conn[c].db
  /\ cmd.op \in {"FLUSHDB", "FLUSHDBALL"} /\ MayFlush(conn[c].level, cmd) => MayFlush(1, cmd)
  /\ \E r \in Results(cmd, Db(c)) : Results(cmd, Db(c)) = {r}

LEMMA LogEffectIs ==
  ASSUME NEW c, NEW cmd, LogEffect(c, cmd)
  PROVE \/ exact' = FALSE /\ aof' = Blank
        \/ Followed(c, cmd) /\ exact' = exact /\ aof' = IF exact THEN Replay(aof, cmd) ELSE aof
BY DEF LogEffect, Part, Followed, InFlight

LEMMA LogStarts ==
  ASSUME IInv, TypeInv, LogInv, exact, NEW c \in Clients, Idle(c), NEW cmd, CmdFits(cmd), Logs(cmd), Followed(c, cmd)
  PROVE /\ ReplayOk(Replay(aof, cmd))
        /\ Pending(Replay(aof, cmd).dbs, dbs, conn[c].db, conn[c].level, Job(cmd))
<1> DEFINE db == conn[c].db
           level == conn[c].level
           A == Replay(aof, cmd).dbs
<1>1. \A o \in Clients : ~InFlight(o)
  BY DEF Followed, InFlight
<1>2. AlikeAll(aof.dbs, dbs)
  BY <1>1 DEF LogInv
<1>3. ReplayOk(aof) /\ db \in DBs /\ level \in 0..2 /\ level > 0 /\ \A n \in DBs : KeysIn(dbs[n])
  <2>1. conn[c] \in [level : 0..2, db : DBs]
    BY DEF TypeInv
  <2> QED BY <2>1 DEF TypeInv, ReplayOk, Followed
<1>4. /\ Job(cmd).cmd = cmd /\ Job(cmd).at = 0 /\ Job(cmd).nth = 1
  BY DEF Job
<1>5. cmd.op \in KeyOps \cup ServerOps
  BY LoggedOps
<1>6. CASE cmd.op \in KeyOps \ {"MSET"}
  <2>1. PICK r : Results(cmd, dbs[db]) = {r}
    BY DEF Followed, Db
  <2>2. aof.db = db
    BY <1>6 DEF Followed, KeyOps
  <2>3. cmd.op \notin ServerOps \cup {"MSET"}
    BY <1>6 DEF KeyOps, ServerOps
  <2> HIDE DEF db, level
  <2>4. /\ ReplayOk(Replay(aof, cmd)) /\ ~Faults(cmd, dbs[db])
        /\ \A n \in DBs : Alike(A[n], IF n = db THEN r ELSE dbs[n])
    BY <1>2, <1>3, <1>6, <2>1, <2>2, ReplayKey
  <2> HIDE DEF A
  <2>5. Pending(A, dbs, db, level, Job(cmd))
    BY <1>3, <1>4, <2>1, <2>3, <2>4 DEF Pending, ServerOps
  <2> QED BY <2>4, <2>5 DEF A, db, level
<1>7. CASE cmd.op = "MSET"
  <2>2. aof.db = db
    BY <1>7 DEF Followed
  <2> HIDE DEF db, level
  <2>4. /\ ReplayOk(Replay(aof, cmd))
        /\ \A n \in DBs : Alike(A[n], IF n = db THEN SetAll(dbs[n], cmd.ks, cmd.v) ELSE dbs[n])
    BY <1>2, <1>3, <1>7, <2>2, ReplayMset
  <2> HIDE DEF A
  <2>5. Pending(A, dbs, db, level, Job(cmd))
    BY <1>3, <1>4, <1>7, <2>4 DEF Pending, ServerOps
  <2> QED BY <2>4, <2>5 DEF A, db, level
<1>8. CASE cmd.op = "SELECT"
  <2>1. ReplayOk(Replay(aof, cmd)) /\ A = aof.dbs
    BY <1>3, <1>8, ReplayServer DEF ServerOps
  <2> HIDE DEF A, db, level
  <2>2. Pending(A, dbs, db, level, Job(cmd))
    BY <1>2, <1>3, <1>4, <1>8, <2>1 DEF Pending, ServerOps
  <2> QED BY <2>1, <2>2 DEF A, db, level
<1>9. CASE cmd.op \in {"FLUSHDB", "FLUSHDBALL"}
  <2>1. aof.db = db /\ cmd.op \in ServerOps /\ cmd.op # "SELECT"
    BY <1>9 DEF Followed, ServerOps
  <2>2. MayFlush(level, cmd) <=> MayFlush(1, cmd)
    BY <1>3, <1>9 DEF Followed, MayFlush
  <2>3. /\ ReplayOk(Replay(aof, cmd))
        /\ \A n \in DBs : A[n] = IF MayFlush(level, cmd) /\ (cmd.op = "FLUSHDBALL" \/ n = db) THEN EmptyDb ELSE aof.dbs[n]
    BY <1>3, <2>1, <2>2, ReplayServer
  <2> HIDE DEF A, db, level
  <2>4. MayFlush(level, cmd) => Flushing(A, dbs, db, Job(cmd))
    <3>1. \A n \in DBs : Cleared(dbs[n], 0)
      BY <1>3, ClearedNone
    <3>2. \A i \in 1..Cardinality(DBs) : ~(i < 1) /\ SetToSeq(DBs)[i] \in DBs
      BY DbOrder
    <3> QED BY <1>2, <1>3, <1>4, <2>3, <3>1, <3>2 DEF Flushing, AlikeAll
  <2>5. ~MayFlush(level, cmd) => AlikeAll(A, dbs)
    BY <1>2, <2>3 DEF AlikeAll
  <2>6. Pending(A, dbs, db, level, Job(cmd))
    BY <1>3, <1>4, <1>9, <2>1, <2>4, <2>5 DEF Pending
  <2> QED BY <2>3, <2>6 DEF A, db, level
<1> QED BY <1>5, <1>6, <1>7, <1>8, <1>9 DEF ServerOps

-----------------------------------------------------------------------------
(* A logged command takes its turns. *)

\* What is pending does not depend on the times of expiry.
LEMMA PendingAlike ==
  ASSUME NEW A, NEW D, NEW E, \A n \in DBs : IsDb(D[n]) /\ IsDb(E[n]) /\ Alike(D[n], E[n]),
         NEW db \in DBs, NEW level, NEW job, Logs(job.cmd), Pending(A, D, db, level, job)
  PROVE Pending(A, E, db, level, job)
<1> DEFINE cmd == job.cmd
<1>0. IsDb(D[db]) /\ IsDb(E[db]) /\ Alike(D[db], E[db]) /\ Alike(E[db], D[db])
  BY AlikeSym
<1>1. \A n \in DBs : Alike(A[n], D[n]) => Alike(A[n], E[n])
  BY AlikeTrans
<1>2. AlikeAll(A, D) => AlikeAll(A, E)
  BY <1>1 DEF AlikeAll
<1>3. Flushing(A, D, db, job) => Flushing(A, E, db, job)
  <2>1. \A n \in DBs : \A s : Cleared(D[n], s) => Cleared(E[n], s)
    BY ClearedAlike
  <2>2. \A i \in 1..Cardinality(DBs) : SetToSeq(DBs)[i] \in DBs
    BY DbOrder
  <2> QED BY <1>1, <2>1, <2>2 DEF Flushing
<1>4. Alike(A[db], SetAll(D[db], cmd.ks, cmd.v)) => Alike(A[db], SetAll(E[db], cmd.ks, cmd.v))
  <2>1. Alike(SetAll(D[db], cmd.ks, cmd.v), SetAll(E[db], cmd.ks, cmd.v))
    BY <1>0, SetAllAlike
  <2> QED BY <2>1, AlikeTrans
<1>5. ASSUME cmd.op \notin ServerOps, ~Faults(cmd, D[db]), \A r \in Results(cmd, D[db]) : Alike(A[db], r)
      PROVE ~Faults(cmd, E[db]) /\ \A r \in Results(cmd, E[db]) : Alike(A[db], r)
  <2>1. cmd.op \in KeyOps
    BY <1>5, LoggedOps
  <2>2. ~Faults(cmd, E[db])
    BY <1>0, <1>5, AlikeFaults
  <2>3. ASSUME NEW r \in Results(cmd, E[db]) PROVE Alike(A[db], r)
    <3>1. PICK q \in Results(cmd, D[db]) : Alike(r, q)
      BY <1>0, <2>1, ResultsAreAlike
    <3>2. Alike(A[db], q) /\ Alike(q, r)
      BY <1>5, <3>1, AlikeSym
    <3> QED BY <3>2, AlikeTrans
  <2> QED BY <2>2, <2>3
<1> HIDE DEF cmd
<1> QED BY <1>1, <1>2, <1>3, <1>4, <1>5 DEF Pending, cmd

\* What a turn may leave of a logged command: nothing, and then the replay A is what
\* the databases hold, or a command that is pending.
Follows(A, c, job) ==
  \/ Finish(c) /\ AlikeAll(A, dbs')
  \/ \E q : /\ JobOk(q) /\ q.cmd.op = job.cmd.op /\ running' = [running EXCEPT ![c] = <<q>>]
            /\ Pending(A, dbs', conn[c].db, conn[c].level, q)

LEMMA FlushFollows ==
  ASSUME IInv, \A n \in DBs : KeysIn(dbs[n]), NEW c, conn[c].db \in DBs, NEW job, JobOk(job),
         NEW A, Pending(A, dbs, conn[c].db, conn[c].level, job), Flush(c, job)
  PROVE Follows(A, c, job)
<1> DEFINE here == conn[c].db
           level == conn[c].level
           q == SetToSeq(DBs)
           N == Cardinality(DBs)
           all == job.cmd.op = "FLUSHDBALL"
           db == IF all THEN q[job.nth] ELSE here
<1>0. Handle(c, job)
  BY DEF Handle
<1>1. job.at \in 0..Shards - 1 /\ job.nth \in 1..N /\ Shards \in Nat /\ N \in Nat
  BY StoreBounds, DbOrder DEF JobOk, JobType
<1>2. level > 0 /\ job.cmd.op \in {"FLUSHDB", "FLUSHDBALL"} /\ job.cmd.op \in ServerOps /\ job.cmd.op # "SELECT"
  BY DEF Flush, ServerOps
<1>3. /\ q \in [1..N -> DBs] /\ \A i, j \in 1..N : q[i] = q[j] => i = j
      /\ \A n \in DBs : \E i \in 1..N : q[i] = n
  BY DbOrder
<1>4. db \in DBs
  BY <1>1, <1>3
<1>5. CASE ~MayFlush(level, job.cmd)
  <2>1. Finish(c) /\ UNCHANGED dbs
    BY <1>5 DEF Flush
  <2>2. AlikeAll(A, dbs)
    BY <1>2, <1>5 DEF Pending
  <2> QED BY <2>1, <2>2 DEF Follows
<1>6. CASE MayFlush(level, job.cmd)
  <2>1. Flushing(A, dbs, here, job)
    BY <1>2, <1>6 DEF Pending
  <2>2. /\ dbs' = [dbs EXCEPT ![db] = FLUSHSHARD(dbs[db], job.at)]
        /\ IF job.at + 1 < Shards
             THEN running' = [running EXCEPT ![c] = <<[job EXCEPT !.at = @ + 1]>>]
           ELSE IF all /\ job.nth < N
             THEN running' = [running EXCEPT ![c] = <<[job EXCEPT !.at = 0, !.nth = @ + 1]>>]
           ELSE Finish(c)
    BY <1>6 DEF Flush
  <2> HIDE DEF db
  <2>3. \A n \in DBs : dbs'[n] = IF n = db THEN FLUSHSHARD(dbs[n], job.at) ELSE dbs[n]
    BY <2>2 DEF IInv
  <2>4. \A n \in DBs : KeysIn(dbs'[n])
    BY <1>0, HandleKeys
  <2>5. Cleared(dbs[db], job.at)
    BY <1>1, <1>3, <2>1 DEF Flushing, db
  <2>6. Cleared(dbs'[db], job.at + 1)
    <3>1. Cleared(FLUSHSHARD(dbs[db], job.at), job.at + 1)
      BY <1>1, <1>4, <2>5, ClearedMore DEF IInv
    <3> QED BY <1>4, <2>3, <3>1
  <2>7. all => \A i \in 1..N : i < job.nth => Cleared(dbs'[q[i]], Shards)
    BY <1>1, <1>3, <2>1, <2>3 DEF Flushing, db
  <2>8. /\ all => \A n \in DBs : A[n] = EmptyDb
        /\ ~all => A[here] = EmptyDb /\ db = here /\ \A n \in DBs \ {here} : Alike(A[n], dbs'[n])
    BY <2>1, <2>3 DEF Flushing, db
  <2>9. ASSUME NEW j, JobOk(j), j.cmd = job.cmd, running' = [running EXCEPT ![c] = <<j>>],
               Flushing(A, dbs', here, j)
        PROVE Follows(A, c, job)
    <3>1. Pending(A, dbs', here, level, j)
      BY <1>2, <1>6, <2>9 DEF Pending
    <3> QED BY <2>9, <3>1 DEF Follows
  <2>10. CASE job.at + 1 < Shards
    <3> DEFINE a == job.at + 1
               j == [job EXCEPT !.at = a, !.nth = job.nth]
    <3>1. a \in 0..Shards - 1
      BY <1>1, <2>10
    <3>2. [job EXCEPT !.at = @ + 1] = j
      BY DEF JobOk, JobType
    <3>3. running' = [running EXCEPT ![c] = <<j>>]
      BY <2>2, <2>10, <3>2
    <3> HIDE DEF a
    <3>4. Moved(job, a, job.nth, j)
      BY <1>1, <3>1, JobShard, Zenon
    <3>5. JobOk(j) /\ j.cmd = job.cmd /\ j.at = a /\ j.nth = job.nth
      BY <3>4, Zenon DEF Moved
    <3> HIDE DEF j
    <3>6. Flushing(A, dbs', here, j)
      <4>1. CASE all
        <5>1. db = q[job.nth]
          BY <4>1 DEF db
        <5> QED BY <2>6, <2>7, <2>8, <3>5, <4>1, <5>1 DEF Flushing, a
      <4>2. CASE ~all
        BY <2>6, <2>8, <3>5, <4>2 DEF Flushing, a
      <4> QED BY <4>1, <4>2
    <3> QED BY <2>9, <3>3, <3>5, <3>6
  <2>11. CASE ~(job.at + 1 < Shards) /\ all /\ job.nth < N
    <3> DEFINE a == 0
               n1 == job.nth + 1
               j == [job EXCEPT !.at = a, !.nth = n1]
    <3>1. a \in 0..Shards - 1 /\ n1 \in 1..N
      BY <1>1, <2>11
    <3>2. [job EXCEPT !.at = 0, !.nth = @ + 1] = j
      OBVIOUS
    <3>3. running' = [running EXCEPT ![c] = <<j>>]
      BY <2>2, <2>11, <3>2
    <3> HIDE DEF a, n1
    <3>4. Moved(job, a, n1, j)
      BY <3>1, JobShard, Zenon
    <3>5. JobOk(j) /\ j.cmd = job.cmd /\ j.at = a /\ j.nth = n1
      BY <3>4, Zenon DEF Moved
    <3> HIDE DEF j
    <3>6. job.at + 1 = Shards /\ db = q[job.nth]
      BY <1>1, <2>11 DEF db
    <3>7. \A i \in 1..N : i < n1 => Cleared(dbs'[q[i]], Shards)
      <4>1. \A i \in 1..N : i < n1 => i < job.nth \/ i = job.nth
        BY <1>1 DEF n1
      <4> QED BY <2>6, <2>7, <2>11, <3>6, <4>1
    <3>8. Cleared(dbs'[q[n1]], 0)
      BY <1>3, <2>4, <3>1, ClearedNone
    <3>9. Flushing(A, dbs', here, j)
      BY <2>8, <2>11, <3>5, <3>7, <3>8 DEF Flushing, a
    <3> QED BY <2>9, <3>3, <3>5, <3>9
  <2>12. CASE ~(job.at + 1 < Shards) /\ ~(all /\ job.nth < N)
    <3>1. Finish(c) /\ job.at + 1 = Shards
      BY <1>1, <2>2, <2>12
    <3>2. \A n \in DBs : Cleared(dbs'[n], Shards) => Alike(EmptyDb, dbs'[n])
      BY <2>4, ClearedAll
    <3>3. CASE all
      <4>1. \A i \in 1..N : (i < job.nth \/ i = job.nth) /\ db = q[job.nth]
        BY <1>1, <2>12, <3>3 DEF db
      <4>2. \A i \in 1..N : Cleared(dbs'[q[i]], Shards)
        BY <2>6, <2>7, <3>1, <3>3, <4>1
      <4>3. \A n \in DBs : Cleared(dbs'[n], Shards)
        BY <1>3, <4>2
      <4> QED BY <2>8, <3>1, <3>2, <3>3, <4>3 DEF Follows, AlikeAll
    <3>4. CASE ~all
      BY <2>6, <2>8, <3>1, <3>2, <3>4 DEF Follows, AlikeAll
    <3> QED BY <3>3, <3>4
  <2> QED BY <2>10, <2>11, <2>12
<1> QED BY <1>5, <1>6

LEMMA TurnFollows ==
  ASSUME IInv, NEW c, conn[c].db \in DBs, NEW job, JobOk(job), Logs(job.cmd),
         NEW A, Pending(A, dbs, conn[c].db, conn[c].level, job), Turn(c, job)
  PROVE Follows(A, c, job)
<1> DEFINE here == conn[c].db
           level == conn[c].level
           cmd == job.cmd
<1>1. cmd.ks # <<>> /\ cmd.ks \in Seq(Keys) /\ level > 0 /\ NextKey(c, job)
  BY DEF Turn, OnKey, JobOk, JobType, CmdType
<1>2. cmd.op \in KeyOps /\ cmd.op \notin ServerOps
  BY <1>1, LoggedOps DEF JobOk, JobFits
<1>3. PICK r \in Results(cmd, dbs[here]) : dbs' = [dbs EXCEPT ![here] = r]
  BY DEF Turn, SetDb, Db
<1>4. \A n \in DBs : dbs'[n] = IF n = here THEN r ELSE dbs[n]
  BY <1>3 DEF IInv
<1>5. \A n \in DBs \ {here} : Alike(A[n], dbs'[n])
  BY <1>2, <1>4 DEF Pending
<1>6. CASE cmd.op # "MSET"
  <2>1. cmd.op \notin PerKey
    BY <1>2, <1>6 DEF KeyOps, PerKey
  <2>2. Finish(c)
    BY <1>1, <2>1 DEF NextKey
  <2>3. Alike(A[here], r)
    BY <1>2, <1>3, <1>6 DEF Pending
  <2> QED BY <1>4, <1>5, <2>2, <2>3 DEF Follows, AlikeAll
<1>7. CASE cmd.op = "MSET"
  <2> DEFINE d == dbs[here]
             rest == Tail(cmd.ks)
  <2>1. IsDb(d)
    BY DEF IInv, Sound
  <2>2. r = SET(d, cmd.ks[1], cmd.v, {}) /\ IsDb(r)
    <3>1. r = SET(d, cmd.ks[1], cmd.v, {})
      BY <1>3, <1>7 DEF Results
    <3>2. Sound(r)
      BY <1>3, ResultsAreSound DEF IInv
    <3> QED BY <3>1, <3>2 DEF Sound
  <2>3. Alike(A[here], SetAll(d, cmd.ks, cmd.v))
    BY <1>7 DEF Pending
  <2>4. Alike(SetAll(r, rest, cmd.v), SetAll(d, cmd.ks, cmd.v))
    BY <1>1, <2>1, <2>2, SetAllStep
  <2>5. Alike(A[here], SetAll(r, rest, cmd.v))
    BY <2>3, <2>4, AlikeSym, AlikeTrans
  <2>6. CASE Len(cmd.ks) > 1
    <3> DEFINE q == [job EXCEPT !.cmd.ks = Tail(@), !.pc = "run"]
    <3>1. JobOk(q) /\ q.cmd.op = cmd.op /\ q.cmd.ks = rest /\ q.cmd.v = cmd.v
      BY <1>1, <1>2, JobKey
    <3>2. running' = [running EXCEPT ![c] = <<q>>]
      BY <1>1, <1>7, <2>6 DEF NextKey, PerKey
    <3> HIDE DEF q, rest
    <3>3. Pending(A, dbs', here, level, q)
      BY <1>1, <1>2, <1>4, <1>5, <1>7, <2>5, <3>1 DEF Pending, ServerOps
    <3> QED BY <3>1, <3>2, <3>3 DEF Follows
  <2>7. CASE ~(Len(cmd.ks) > 1)
    <3>1. rest = <<>>
      BY <1>1, <2>7
    <3>2. Finish(c)
      BY <1>1, <2>7 DEF NextKey
    <3>3. Alike(A[here], r)
      BY <2>2, <2>5, <3>1, SetAllNone, AlikeTrans
    <3> QED BY <1>4, <1>5, <3>2, <3>3 DEF Follows, AlikeAll
  <2> QED BY <2>6, <2>7
<1> QED BY <1>6, <1>7

LEMMA HandleFollows ==
  ASSUME IInv, \A n \in DBs : KeysIn(dbs[n]), NEW c, conn[c].db \in DBs, NEW job, JobOk(job), Logs(job.cmd),
         NEW A, Pending(A, dbs, conn[c].db, conn[c].level, job), Handle(c, job)
  PROVE /\ Follows(A, c, job)
        /\ Finish(c) \/ conn' = conn
<1> DEFINE level == conn[c].level
           cmd == job.cmd
<1>1. level > 0 /\ JobFits(job) /\ cmd.op \in KeyOps \cup ServerOps
  BY LoggedOps DEF Pending, JobOk
<1>2. Finish(c) \/ conn' = conn
  BY DEF Handle, Refuse, Select, Flush, FindExpired, EraseExpired, Turn, Fault
<1>3. ~Refuse(c, job)
  BY <1>1 DEF Refuse
<1>4. CASE Select(c, job)
  <2>1. AlikeAll(A, dbs) /\ Finish(c) /\ UNCHANGED dbs
    BY <1>4 DEF Pending, Select
  <2> QED BY <1>2, <2>1 DEF Follows
<1>5. CASE Flush(c, job)
  BY <1>2, <1>5, FlushFollows
<1>6. ~FindExpired(c, job) /\ ~EraseExpired(c, job)
  BY <1>1 DEF FindExpired, EraseExpired, JobFits, Lazy, KeyOps, ServerOps
<1>7. CASE Turn(c, job)
  BY <1>2, <1>7, TurnFollows
<1>8. ~Fault(c, job)
  <2>1. ASSUME Fault(c, job) PROVE FALSE
    <3>1. Faults(cmd, dbs[conn[c].db]) /\ cmd.ks # <<>>
      <4>1. ~Dangles(cmd, dbs[conn[c].db])
        BY <1>1 DEF Dangles, KeyOps, ServerOps
      <4> QED BY <2>1, <4>1 DEF Fault, OnKey, Db
    <3>2. cmd.op \notin ServerOps /\ cmd.op # "MSET"
      BY <1>1, <3>1 DEF JobFits, Faults
    <3> QED BY <3>1, <3>2 DEF Pending
  <2> QED BY <2>1
<1> QED BY <1>3, <1>4, <1>5, <1>6, <1>7, <1>8 DEF Handle

\* A turn of a command that is not logged is in the database the client selected.
LEMMA HandleOther ==
  ASSUME IInv, NEW c, conn[c].db \in DBs, NEW job, JobOk(job), ~Logs(job.cmd), Handle(c, job), IInv',
         Values(dbs'[conn[c].db]) = Values(Db(c))
  PROVE conn' = conn /\ \A n \in DBs : Alike(dbs[n], dbs'[n])
<1>1. job.cmd.op \notin ServerOps
  BY DEF Logs, HotCommands, TableWrites, ServerOps
<1>2. ~Select(c, job) /\ ~Flush(c, job)
  BY <1>1 DEF Select, Flush, ServerOps
<1>3. conn' = conn
  BY <1>2 DEF Handle, Refuse, FindExpired, EraseExpired, Turn, Fault
<1>4. \A n \in DBs \ {conn[c].db} : dbs'[n] = dbs[n]
  <2>1. UNCHANGED dbs \/ \E d : dbs' = [dbs EXCEPT ![conn[c].db] = d]
    BY <1>2 DEF Handle, Refuse, FindExpired, EraseExpired, Turn, Fault, SetDb
  <2>2. ASSUME NEW d, dbs' = [dbs EXCEPT ![conn[c].db] = d]
        PROVE \A n \in DBs \ {conn[c].db} : dbs'[n] = dbs[n]
    BY <2>2 DEF IInv
  <2> QED BY <2>1, <2>2
<1>5. Alike(dbs[conn[c].db], dbs'[conn[c].db])
  <2>1. IsDb(dbs[conn[c].db]) /\ IsDb(dbs'[conn[c].db])
    BY DEF IInv, Sound
  <2> QED BY <2>1, ValuesAreAlike DEF Db
<1> QED BY <1>3, <1>4, <1>5, AlikeRefl

-----------------------------------------------------------------------------
(* Every step keeps the log in step with the databases. *)

RunningOk ==
  /\ running \in [Clients -> {<<>>} \cup {<<job>> : job \in JobType}]
  /\ \A c \in Clients : running[c] # <<>> => JobFits(running[c][1])

ConnOk == conn \in [Clients -> [level : 0..2, db : DBs]]

LEMMA TypeParts ==
  TypeInv <=> ConnOk /\ RunningOk /\ (\A n \in DBs : KeysIn(dbs[n])) /\ ReplayOk(aof)
BY DEF TypeInv, ConnOk, RunningOk, ReplayOk

LEMMA RunningIs == ASSUME RunningOk, NEW c \in Clients, ~Idle(c) PROVE JobOk(running[c][1])
<1>1. running[c] \in {<<job>> : job \in JobType}
  BY DEF RunningOk, Idle
<1>2. PICK job \in JobType : running[c] = <<job>>
  BY <1>1
<1> QED BY <1>2 DEF RunningOk, JobOk, Idle

LEMMA Starts ==
  ASSUME RunningOk, NEW c \in Clients, NEW j, JobOk(j), running' = [running EXCEPT ![c] = <<j>>]
  PROVE /\ RunningOk' /\ running'[c] = <<j>>
        /\ \A o \in Clients \ {c} : running'[o] = running[o]
<1> DEFINE T == {<<>>} \cup {<<job>> : job \in JobType}
<1>1. running \in [Clients -> T] /\ <<j>> \in T
  BY DEF RunningOk, JobOk
<1> HIDE DEF T
<1>2. /\ running' \in [Clients -> T] /\ running'[c] = <<j>>
      /\ \A o \in Clients \ {c} : running'[o] = running[o]
  BY <1>1
<1>3. <<j>>[1] = j /\ JobFits(j)
  BY DEF JobOk
<1>4. ASSUME NEW o \in Clients, running'[o] # <<>> PROVE JobFits(running'[o][1])
  <2>1. CASE o = c
    BY <1>2, <1>3, <2>1
  <2>2. CASE o # c
    BY <1>2, <1>4, <2>2 DEF RunningOk
  <2> QED BY <2>1, <2>2
<1> QED BY <1>2, <1>4 DEF RunningOk, T

LEMMA Ends ==
  ASSUME RunningOk, NEW c \in Clients, Finish(c)
  PROVE /\ RunningOk' /\ running'[c] = <<>>
        /\ \A o \in Clients \ {c} : running'[o] = running[o]
BY DEF RunningOk, Finish

\* A turn touches no other connection's command.
LEMMA Proceeds ==
  ASSUME RunningOk, NEW c \in Clients, NEW job, Continues(c, job)
  PROVE /\ RunningOk'
        /\ \A o \in Clients \ {c} : running'[o] = running[o]
        /\ running'[c] # <<>> => running'[c][1].cmd.op = job.cmd.op
<1>1. CASE Finish(c)
  BY <1>1, Ends
<1>2. CASE ~Finish(c)
  <2>1. PICK q : JobOk(q) /\ q.cmd.op = job.cmd.op /\ running' = [running EXCEPT ![c] = <<q>>]
    BY <1>2 DEF Continues
  <2>2. /\ RunningOk' /\ running'[c] = <<q>>
        /\ \A o \in Clients \ {c} : running'[o] = running[o]
    BY <2>1, Starts
  <2> QED BY <2>1, <2>2
<1> QED BY <1>1, <1>2

LEMMA LogsByOp == ASSUME NEW c, NEW d, c.op = d.op PROVE Logs(c) <=> Logs(d)
BY DEF Logs

LEMMA HandleTypes ==
  ASSUME IInv, TypeInv, NEW c \in Clients, NEW job, JobOk(job), Handle(c, job), ReplayOk(aof')
  PROVE TypeInv'
<1>1. ConnOk'
  BY HandleConn, TypeParts DEF ConnOk
<1>2. RunningOk'
  BY HandleContinues, Proceeds, TypeParts
<1>3. \A n \in DBs : KeysIn(dbs'[n])
  BY HandleKeys, TypeParts
<1>4. TypeInv' <=> ConnOk' /\ RunningOk' /\ (\A n \in DBs : KeysIn(dbs'[n])) /\ ReplayOk(aof')
  BY DEF TypeInv, ConnOk, RunningOk, ReplayOk
<1> QED BY <1>1, <1>2, <1>3, <1>4

\* A step that changes nothing but times of expiry and connections with no logged
\* command.
LEMMA QuietStep ==
  ASSUME LInv, IInv', UNCHANGED <<exact, aof>>, \A n \in DBs : Alike(dbs[n], dbs'[n]),
         \A c \in Clients : /\ InFlight(c)' => InFlight(c)
                            /\ InFlight(c) => conn'[c] = conn[c] /\ running'[c] = running[c]
  PROVE LogInv'
<1> SUFFICES ASSUME exact' PROVE LogInv'
  BY DEF LogInv
<1>1. exact /\ aof' = aof
  OBVIOUS
<1>2. \A c \in Clients : InFlight(c)' <=> InFlight(c)
  BY DEF InFlight, Idle
<1>3. \A c, o \in Clients : InFlight(c)' /\ InFlight(o)' => c = o
  BY <1>1, <1>2 DEF LInv, LogInv
<1>4. ASSUME \A c \in Clients : ~InFlight(c)' PROVE AlikeAll(aof.dbs, dbs')
  <2>1. AlikeAll(aof.dbs, dbs)
    BY <1>1, <1>2, <1>4 DEF LInv, LogInv
  <2> QED BY <2>1, AlikeTrans DEF AlikeAll
<1>5. ASSUME NEW c \in Clients, InFlight(c)
      PROVE Pending(aof.dbs, dbs', conn'[c].db, conn'[c].level, running'[c][1])
  <2>1. Pending(aof.dbs, dbs, conn[c].db, conn[c].level, running[c][1]) /\ Logs(running[c][1].cmd)
    BY <1>1, <1>5 DEF LInv, LogInv, InFlight
  <2>2. conn[c].db \in DBs
    BY TypeParts DEF LInv, ConnOk
  <2>3. \A n \in DBs : IsDb(dbs[n]) /\ IsDb(dbs'[n]) /\ Alike(dbs[n], dbs'[n])
    BY DEF LInv, IInv, Sound
  <2>4. Pending(aof.dbs, dbs', conn[c].db, conn[c].level, running[c][1])
    BY <2>1, <2>2, <2>3, PendingAlike
  <2> QED BY <1>5, <2>4
<1>6. LogInv' <=>
        (exact' =>
          /\ \A c, o \in Clients : InFlight(c)' /\ InFlight(o)' => c = o
          /\ (\A c \in Clients : ~InFlight(c)') => AlikeAll(aof'.dbs, dbs')
          /\ \A c \in Clients : InFlight(c)' =>
               Pending(aof'.dbs, dbs', conn'[c].db, conn'[c].level, running'[c][1]))
  BY DEF LogInv
<1> QED BY <1>1, <1>2, <1>3, <1>4, <1>5, <1>6

\* A turn of the one logged command in flight.
LEMMA FollowsStep ==
  ASSUME RunningOk, NEW c \in Clients, \A o \in Clients \ {c} : ~InFlight(o), NEW job, Logs(job.cmd),
         Follows(aof'.dbs, c, job), Finish(c) \/ conn' = conn
  PROVE LogInv'
<1>1. CASE Finish(c) /\ AlikeAll(aof'.dbs, dbs')
  <2>1. \A o \in Clients : ~InFlight(o)'
    BY <1>1, Ends DEF InFlight, Idle
  <2> QED BY <1>1, <2>1 DEF LogInv
<1>2. ASSUME NEW q, JobOk(q), q.cmd.op = job.cmd.op, running' = [running EXCEPT ![c] = <<q>>],
             Pending(aof'.dbs, dbs', conn[c].db, conn[c].level, q)
      PROVE LogInv'
  <2>1. running'[c] = <<q>> /\ \A o \in Clients \ {c} : running'[o] = running[o]
    BY <1>2, Starts
  <2>2. running'[c][1] = q /\ running'[c] # <<>>
    BY <2>1
  <2>3. InFlight(c)' /\ \A o \in Clients \ {c} : ~InFlight(o)'
    BY <1>2, <2>1, <2>2, LogsByOp DEF InFlight, Idle
  <2>4. conn' = conn
    <3>1. ~Finish(c)
      BY <2>2, Ends
    <3> QED BY <3>1
  <2> QED BY <1>2, <2>2, <2>3, <2>4 DEF LogInv
<1> QED BY <1>1, <1>2 DEF Follows

LEMMA TickTypes ==
  ASSUME IInv, TypeInv, Tick
  PROVE TypeInv' /\ \A n \in DBs : Alike(dbs[n], dbs'[n])
<1> DEFINE f(n) == [k \in DOMAIN dbs[n].store |-> Later(dbs[n].store[k])]
<1>1. \A n \in DBs : dbs'[n] = [dbs[n] EXCEPT !.store = f(n)]
  BY DEF Tick
<1>2. ASSUME NEW n \in DBs PROVE KeysIn(dbs'[n]) /\ Alike(dbs[n], dbs'[n])
  <2>1. IsDb(dbs[n]) /\ KeysIn(dbs[n]) /\ "store" \in Maps
    BY DEF IInv, Sound, TypeInv, Maps
  <2>2. DOMAIN f(n) = DOMAIN dbs[n].store /\ \A k \in DOMAIN f(n) : f(n)[k].val = dbs[n].store[k].val
    BY DEF Later, StoreData
  <2> HIDE DEF f
  <2>3. DOMAIN f(n) \subseteq Keys
    BY <2>1, <2>2 DEF KeysIn
  <2>4. KeysIn([dbs[n] EXCEPT !.store = f(n)])
    BY <2>1, <2>3, KeysWith
  <2>5. Alike(dbs[n], [dbs[n] EXCEPT !.store = f(n)])
    BY <2>1, <2>2 DEF Alike, IsDb, Maps
  <2> QED BY <1>1, <2>4, <2>5
<1>3. TypeInv'
  BY <1>2 DEF TypeInv, Tick
<1> QED BY <1>2, <1>3

\* What is logged is replayed, or the log is given up.
LEMMA LogBegins ==
  ASSUME LInv, NEW c \in Clients, Idle(c), NEW cmd, CmdFits(cmd), Logs(cmd), LogEffect(c, cmd)
  PROVE /\ ReplayOk(aof')
        /\ exact' => /\ \A o \in Clients \ {c} : ~InFlight(o)
                     /\ Pending(aof'.dbs, dbs, conn[c].db, conn[c].level, Job(cmd))
<1>1. CASE exact' = FALSE /\ aof' = Blank
  BY <1>1, BlankIs
<1>2. CASE Followed(c, cmd) /\ exact' = exact /\ aof' = IF exact THEN Replay(aof, cmd) ELSE aof
  <2>1. CASE exact
    <3>1. /\ ReplayOk(Replay(aof, cmd))
          /\ Pending(Replay(aof, cmd).dbs, dbs, conn[c].db, conn[c].level, Job(cmd))
      BY <1>2, <2>1, LogStarts DEF LInv
    <3> QED BY <1>2, <2>1, <3>1 DEF Followed
  <2>2. CASE ~exact
    BY <1>2, <2>2, TypeParts DEF LInv
  <2> QED BY <2>1, <2>2
<1> QED BY <1>1, <1>2, LogEffectIs

LEMMA LogStep ==
  ASSUME LInv, NEW c \in Clients, Log(c)
  PROVE TypeInv' /\ LogInv'
<1>1. PICK cmd \in AllCommands :
        Logs(cmd) /\ running' = [running EXCEPT ![c] = <<Job(cmd)>>] /\ LogEffect(c, cmd)
  BY DEF Log, Commands
<1>2. Idle(c) /\ UNCHANGED <<dbs, conn>>
  BY DEF Log, Ready
<1>3. JobOk(Job(cmd)) /\ Job(cmd).cmd = cmd /\ CmdFits(cmd)
  BY CommandsFit, JobNew DEF CmdFits
<1>4. /\ ReplayOk(aof')
      /\ exact' => /\ \A o \in Clients \ {c} : ~InFlight(o)
                   /\ Pending(aof'.dbs, dbs, conn[c].db, conn[c].level, Job(cmd))
  BY <1>1, <1>2, <1>3, LogBegins
<1>5. RunningOk /\ RunningOk'
  BY <1>1, <1>3, Starts, TypeParts DEF LInv
<1>6. TypeInv'
  BY <1>2, <1>4, <1>5 DEF LInv, TypeInv, RunningOk, ReplayOk
<1>7. ASSUME exact' PROVE LogInv'
  <2>1. Follows(aof'.dbs, c, Job(cmd))
    BY <1>1, <1>2, <1>3, <1>4, <1>7 DEF Follows
  <2> QED BY <1>1, <1>2, <1>3, <1>4, <1>5, <1>7, <2>1, FollowsStep
<1>8. ~exact' => LogInv'
  BY DEF LogInv
<1> QED BY <1>6, <1>7, <1>8

\* A turn of a logged command.
LEMMA LoggedStep ==
  ASSUME LInv, NEW c \in Clients, NEW job, JobOk(job), Logs(job.cmd), Handle(c, job), ReplayOk(aof'),
         exact' => /\ \A o \in Clients \ {c} : ~InFlight(o)
                   /\ Pending(aof'.dbs, dbs, conn[c].db, conn[c].level, job)
  PROVE TypeInv' /\ LogInv'
<1>1. TypeInv'
  BY HandleTypes DEF LInv
<1>2. RunningOk /\ conn[c].db \in DBs /\ \A n \in DBs : KeysIn(dbs[n])
  BY TypeParts DEF LInv, ConnOk
<1>3. ASSUME exact' PROVE LogInv'
  <2>1. Follows(aof'.dbs, c, job) /\ (Finish(c) \/ conn' = conn)
    BY <1>2, <1>3, HandleFollows DEF LInv
  <2> QED BY <1>2, <1>3, <2>1, FollowsStep
<1>4. ~exact' => LogInv'
  BY DEF LogInv
<1> QED BY <1>1, <1>3, <1>4

\* A turn of a command that is not logged.
LEMMA OtherStep ==
  ASSUME LInv, IInv', NEW c \in Clients, NEW job, JobOk(job), ~Logs(job.cmd), ~InFlight(c),
         Handle(c, job), Drift(c, job)
  PROVE TypeInv' /\ LogInv'
<1>1. CASE exact' = FALSE /\ aof' = Blank
  <2>1. TypeInv'
    BY <1>1, BlankIs, HandleTypes DEF LInv
  <2> QED BY <1>1, <2>1 DEF LogInv
<1>2. CASE Values(dbs'[conn[c].db]) = Values(Db(c)) /\ UNCHANGED <<exact, aof>>
  <2>1. RunningOk /\ conn[c].db \in DBs /\ ReplayOk(aof')
    BY <1>2, TypeParts DEF LInv, ConnOk
  <2>2. TypeInv'
    BY <2>1, HandleTypes DEF LInv
  <2>3. conn' = conn /\ \A n \in DBs : Alike(dbs[n], dbs'[n])
    BY <1>2, <2>1, HandleOther DEF LInv
  <2>4. /\ \A o \in Clients \ {c} : running'[o] = running[o]
        /\ running'[c] # <<>> => running'[c][1].cmd.op = job.cmd.op
    BY <2>1, HandleContinues, Proceeds
  <2>5. ~InFlight(c)'
    BY <2>4, LogsByOp DEF InFlight, Idle
  <2>6. \A o \in Clients : /\ InFlight(o)' => InFlight(o)
                           /\ InFlight(o) => conn'[o] = conn[o] /\ running'[o] = running[o]
    BY <2>3, <2>4, <2>5 DEF InFlight, Idle
  <2> QED BY <1>2, <2>2, <2>3, <2>6, QuietStep
<1> QED BY <1>1, <1>2 DEF Drift, Part

\* Signing in and reconnecting.
LEMMA ConnectionStep ==
  ASSUME LInv, IInv', NEW c \in Clients, AuthClient(c) \/ CheckAdmin(c) \/ SetAdmin(c) \/ Reconnect(c)
  PROVE TypeInv' /\ LogInv'
<1>1. ConnOk /\ RunningOk
  BY TypeParts DEF LInv
<1>2. UNCHANGED <<dbs, exact, aof>>
  BY DEF AuthClient, CheckAdmin, SetAdmin, Reconnect
<1>3. ~InFlight(c)
  BY DEF AuthClient, CheckAdmin, SetAdmin, Reconnect, Ready, Authenticating, InFlight, Idle, Logs,
         HotCommands, TableWrites
<1>4. ConnOk' /\ \A o \in Clients \ {c} : conn'[o] = conn[o]
  <2>1. ASSUME NEW x \in [level : 0..2, db : DBs], conn' = [conn EXCEPT ![c] = x]
        PROVE ConnOk' /\ \A o \in Clients \ {c} : conn'[o] = conn[o]
    BY <1>1, <2>1 DEF ConnOk
  <2>2. conn[c] \in [level : 0..2, db : DBs] /\ NewConn \in [level : 0..2, db : DBs]
    BY <1>1, StoreBounds DEF ConnOk, NewConn
  <2>3. [conn[c] EXCEPT !.level = 1] \in [level : 0..2, db : DBs]
        /\ [conn[c] EXCEPT !.level = 2] \in [level : 0..2, db : DBs]
    BY <2>2
  <2>4. CASE CheckAdmin(c)
    BY <1>1, <2>4 DEF CheckAdmin, ConnOk
  <2> QED BY <2>1, <2>2, <2>3, <2>4 DEF AuthClient, SetAdmin, Reconnect
<1>5. RunningOk' /\ ~InFlight(c)' /\ \A o \in Clients \ {c} : running'[o] = running[o]
  <2>1. CASE AuthClient(c) \/ Reconnect(c)
    BY <1>1, <1>3, <2>1 DEF AuthClient, Reconnect, RunningOk, InFlight, Idle
  <2>2. CASE SetAdmin(c)
    BY <1>1, <2>2, Ends DEF SetAdmin, Finish, InFlight, Idle
  <2>3. CASE CheckAdmin(c)
    <3> DEFINE cmd == Cmd("AUTH", <<>>, 0, 0, 0, {})
    <3>1. <<>> \in Seq(Keys) /\ {} \in SUBSET Int /\ 0 \in Int /\ "AUTH" \in Ops /\ "AUTH" \notin ServerOps
          /\ "AUTH" # "SELECT"
      BY DEF Ops, ServerOps
    <3>2. CmdFits(cmd)
      BY <3>1, CmdIs
    <3>3. cmd.op = "AUTH"
      BY DEF Cmd
    <3>4. running' = [running EXCEPT ![c] = <<Job(cmd)>>]
      BY <2>3 DEF CheckAdmin
    <3> HIDE DEF cmd
    <3>5. JobOk(Job(cmd)) /\ Job(cmd).cmd = cmd
      BY <3>2, JobNew DEF CmdFits
    <3>6. ~Logs(cmd)
      BY <3>3 DEF Logs, HotCommands, TableWrites
    <3>7. /\ RunningOk' /\ running'[c] = <<Job(cmd)>>
          /\ \A o \in Clients \ {c} : running'[o] = running[o]
      BY <1>1, <3>4, <3>5, Starts
    <3> QED BY <3>5, <3>6, <3>7 DEF InFlight
  <2> QED BY <2>1, <2>2, <2>3
<1>6. TypeInv'
  BY <1>2, <1>4, <1>5 DEF LInv, TypeInv, ConnOk, RunningOk
<1>7. \A o \in Clients : /\ InFlight(o)' => InFlight(o)
                         /\ InFlight(o) => conn'[o] = conn[o] /\ running'[o] = running[o]
  BY <1>3, <1>4, <1>5 DEF InFlight, Idle
<1>8. \A n \in DBs : Alike(dbs[n], dbs'[n])
  BY <1>2, AlikeRefl
<1> QED BY <1>2, <1>6, <1>7, <1>8, QuietStep

LEMMA ExecuteStep ==
  ASSUME LInv, IInv', NEW c \in Clients, Execute(c)
  PROVE TypeInv' /\ LogInv'
<1> DEFINE job == running[c][1]
<1>1. ~Idle(c) /\ Handle(c, job) /\ Drift(c, job)
  BY DEF Execute
<1>2. JobOk(job)
  BY <1>1, RunningIs, TypeParts DEF LInv
<1>3. InFlight(c) <=> Logs(job.cmd)
  BY <1>1 DEF InFlight
<1>4. CASE Logs(job.cmd)
  <2>1. exact' = exact /\ aof' = aof
    BY <1>1, <1>4 DEF Drift
  <2>2. ReplayOk(aof')
    BY <2>1, TypeParts DEF LInv
  <2>3. ASSUME exact
        PROVE /\ \A o \in Clients \ {c} : ~InFlight(o)
              /\ Pending(aof.dbs, dbs, conn[c].db, conn[c].level, job)
    BY <1>3, <1>4, <2>3 DEF LInv, LogInv
  <2> HIDE DEF job
  <2> QED BY <1>1, <1>2, <1>4, <2>1, <2>2, <2>3, LoggedStep
<1>5. CASE ~Logs(job.cmd)
  <2> HIDE DEF job
  <2> QED BY <1>1, <1>2, <1>3, <1>5, OtherStep
<1> QED BY <1>4, <1>5

LEMMA LInvStarts == Init => LInv
<1> SUFFICES ASSUME Init PROVE LInv
  OBVIOUS
<1>1. IInv
  BY InitIsSound
<1>2. \A c \in Clients : running[c] = <<>>
  BY DEF Init
<1>3. ConnOk /\ RunningOk
  BY <1>2, StoreBounds DEF Init, NewConn, ConnOk, RunningOk
<1>4. \A n \in DBs : dbs[n] = EmptyDb /\ aof.dbs[n] = EmptyDb
  BY DEF Init, Blank
<1>5. KeysIn(EmptyDb)
  BY DEF KeysIn, EmptyDb, Maps
<1>6. TypeInv
  BY <1>3, <1>4, <1>5, BlankIs, TypeParts DEF Init
<1>7. LogInv
  BY <1>2, <1>4, AlikeRefl DEF LogInv, InFlight, Idle, AlikeAll
<1> QED BY <1>1, <1>6, <1>7 DEF LInv

LEMMA LInvStays == LInv /\ [Next]_vars => LInv'
<1> SUFFICES ASSUME LInv, [Next]_vars PROVE LInv'
  OBVIOUS
<1>1. IInv'
  BY NextIsSound DEF LInv
<1>2. CASE Tick
  <2>1. TypeInv' /\ \A n \in DBs : Alike(dbs[n], dbs'[n])
    BY <1>2, TickTypes DEF LInv
  <2>2. UNCHANGED <<exact, aof>> /\ conn' = conn /\ running' = running
    BY <1>2 DEF Tick
  <2>3. \A c \in Clients : InFlight(c)' => InFlight(c)
    BY <2>2 DEF InFlight, Idle
  <2>4. LogInv'
    BY <1>1, <2>1, <2>2, <2>3, QuietStep
  <2> QED BY <1>1, <2>1, <2>4 DEF LInv
<1>3. ASSUME NEW c \in Clients, ClientStep(c) PROVE LInv'
  <2>1. CASE AuthClient(c) \/ CheckAdmin(c) \/ SetAdmin(c) \/ Reconnect(c)
    BY <1>1, <2>1, ConnectionStep DEF LInv
  <2>2. CASE Log(c)
    BY <1>1, <2>2, LogStep DEF LInv
  <2>3. CASE LogAndExecute(c)
    <3>1. PICK cmd \in AllCommands : Logs(cmd) /\ Handle(c, Job(cmd)) /\ LogEffect(c, cmd)
      BY <2>3 DEF LogAndExecute, Commands
    <3>2. Idle(c)
      BY <2>3 DEF LogAndExecute, Ready
    <3>3. JobOk(Job(cmd)) /\ Job(cmd).cmd = cmd /\ CmdFits(cmd)
      BY CommandsFit, JobNew DEF CmdFits
    <3>4. /\ ReplayOk(aof')
          /\ exact' => /\ \A o \in Clients \ {c} : ~InFlight(o)
                       /\ Pending(aof'.dbs, dbs, conn[c].db, conn[c].level, Job(cmd))
      BY <3>1, <3>2, <3>3, LogBegins
    <3>5. TypeInv' /\ LogInv'
      BY <3>1, <3>3, <3>4, LoggedStep
    <3> QED BY <1>1, <3>5 DEF LInv
  <2>4. CASE Execute(c)
    BY <1>1, <2>4, ExecuteStep DEF LInv
  <2>5. CASE Call(c)
    <3>1. PICK cmd \in AllCommands : ~Logs(cmd) /\ Handle(c, Job(cmd)) /\ Drift(c, Job(cmd))
      BY <2>5 DEF Call, Commands
    <3>2. JobOk(Job(cmd)) /\ Job(cmd).cmd = cmd
      BY CommandsFit, JobNew DEF CmdFits
    <3>3. ~InFlight(c)
      BY <2>5 DEF Call, Ready, InFlight
    <3>4. TypeInv' /\ LogInv'
      BY <1>1, <3>1, <3>2, <3>3, OtherStep
    <3> QED BY <1>1, <3>4 DEF LInv
  <2> QED BY <1>3, <2>1, <2>2, <2>3, <2>4, <2>5 DEF ClientStep
<1>4. CASE UNCHANGED vars
  <2>1. UNCHANGED <<dbs, conn, running, aof, exact>>
    BY <1>4 DEF vars
  <2>2. TypeInv'
    BY <2>1 DEF LInv, TypeInv
  <2>3. \A c \in Clients : InFlight(c)' => InFlight(c)
    BY <2>1 DEF InFlight, Idle
  <2>4. \A n \in DBs : Alike(dbs[n], dbs'[n])
    BY <2>1, AlikeRefl
  <2>5. LogInv'
    BY <1>1, <2>1, <2>3, <2>4, QuietStep
  <2> QED BY <1>1, <2>2, <2>5 DEF LInv
<1> QED BY <1>2, <1>3, <1>4 DEF Next

\* In every state reached the commands in flight are well formed, the databases have
\* no other keys, and the log makes the databases, apart from one pending command.
THEOREM LogInvariant == Spec => []LInv
BY LInvStarts, LInvStays, PTL DEF Spec

\* loadAOF() rebuilds the databases from what executeTable() logged before each
\* handler ran, for every command that is logged, at every number of connections, as
\* long as none of the known ways to spoil the log (LogEffect, Drift) was taken.
THEOREM LogRebuildsDatabases == Spec => []LogReplays
<1>1. ASSUME LInv PROVE LogReplays
  <2> SUFFICES ASSUME exact, \A c \in Clients : Idle(c), NEW n \in DBs
               PROVE Values(aof.dbs[n]) = Values(dbs[n])
    BY DEF LogReplays
  <2>1. AlikeAll(aof.dbs, dbs)
    BY <1>1 DEF LInv, LogInv, InFlight
  <2>2. IsDb(aof.dbs[n]) /\ IsDb(dbs[n])
    BY <1>1 DEF LInv, IInv, TypeInv, Sound
  <2> QED BY <2>1, <2>2, ValuesAreAlike DEF AlikeAll
<1> QED BY <1>1, LogInvariant, PTL
=============================================================================
