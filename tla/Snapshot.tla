------------------------------ MODULE Snapshot ------------------------------
(***************************************************************************)
(* The two snapshots of the databases: the file of SAVE and shutdown       *)
(* (saveToFile, loadFromFile) and the stream of commands that a replica    *)
(* loads (generateRDB), in redis_command/server_data.cpp.                  *)
(*                                                                         *)
(* A line of the file is a text, the fields with a '|' between them, and   *)
(* is taken apart again at every '|', the ones within a value too.  Texts  *)
(* are sequences of characters without line ends; a key, a field, a member *)
(* and an element are one character long, a printed number is one, too,    *)
(* and NoText is the empty one.  Iterating over a hash table has some      *)
(* order; the order of SetToSeq stands for it.                             *)
(***************************************************************************)
EXTENDS Keyspace

CONSTANT Bar   \* the character '|', a member of the characters

JoinBars(texts) == FlattenSeq([i \in DOMAIN texts |-> IF i = 1 THEN texts[i] ELSE <<Bar>> \o texts[i]])
Parts(text) ==
  LET bars == {i \in DOMAIN text : text[i] = Bar}
      ends == SetToSortSeq(bars \cup {0, Len(text) + 1}, <)
  IN [i \in 1..(Cardinality(bars) + 1) |-> SubSeq(text, ends[i] + 1, ends[i + 1] - 1)]

Line(db, type, texts) == [db |-> db, type |-> type, text |-> JoinBars(texts)]
Each(f, Make(_, _)) == FlattenSeq([i \in 1..Cardinality(DOMAIN f) |->
                         Make(SetToSeq(DOMAIN f)[i], f[SetToSeq(DOMAIN f)[i]])])
PerElement(s, Make(_)) == [i \in DOMAIN s |-> Make(s[i])]

\* A score is a number of ten-millionths. Printed by operator<< it keeps six
\* significant digits, by std::to_string six decimals.
Nearest(n, unit) ==
  LET q == n \div unit
      r == 2 * (n % unit)
  IN unit * (IF r > unit \/ (r = unit /\ q % 2 = 1) THEN q + 1 ELSE q)
Significant(n) == IF n < 10^6 THEN n ELSE Nearest(n, 10^(Min({i \in 7..9 : n < 10^i}) - 6))
Decimals(n) == Nearest(n, 10)


\* The expiry is written when it is over, not when it is still to come.
saveToFile(db, d) ==
  Each(d.store, LAMBDA k, v : <<Line(db, "STR", <<<<k>>, v.val>> \o
                                     (IF IsExpired(v) THEN <<SetToSeq(v.expire)>> ELSE <<>>))>>)
  \o Each(d.hash, LAMBDA k, h : Each(h, LAMBDA f, v : <<Line(db, "HASH", <<<<k>>, <<f>>, <<v>>>>)>>))
  \o Each(d.lists, LAMBDA k, l : PerElement(l, LAMBDA v : Line(db, "LIST", <<<<k>>, <<v>>>>)))
  \o Each(d.sets, LAMBDA k, s : PerElement(SetToSeq(s), LAMBDA m : Line(db, "SET", <<<<k>>, <<m>>>>)))
  \o Each(d.zset_score, LAMBDA k, z : Each(z, LAMBDA m, s : <<Line(db, "ZSET", <<<<k>>, <<Significant(s)>>, <<m>>>>)>>))

NoText == -2
One(text) == IF text = <<>> THEN NoText ELSE text[1]
IsPrinted(text) == text # <<>> /\ (text[1] \in Digit \/ text[1] = -1 \/ text[1] > Bar)

\* std::stoll and std::stod throw at a text that is not a number: the rest of the file
\* is not loaded.
Throws(line) ==
  LET p == Parts(line.text)
  IN \/ line.type = "STR" /\ Len(p) > 2 /\ ~IsPrinted(p[3])
     \/ line.type = "ZSET" /\ ~IsPrinted(p[2])

\* One line: loadFromFile() inserts into whatever the database has, a string first
\* without its expiry.
loadLine(d, line) ==
  LET p == Parts(line.text)
      k == One(p[1])
  IN CASE line.type = "STR" ->
            [d EXCEPT !.store = Put(@, k, StoreData(p[2], IF Len(p) = 2 \/ Throws(line) THEN {} ELSE {One(p[3])}))]
       [] line.type = "HASH" -> HSET(d, k, One(p[2]), One(p[3]))
       [] line.type = "LIST" -> RPUSH(d, k, <<One(p[2])>>)
       [] line.type = "SET" -> SADD(d, k, {One(p[2])})
       [] line.type = "ZSET" /\ ~Throws(line) ->
            [d EXCEPT !.zset = Put(@, k, Get(@, k, {}) \cup {<<One(p[2]), One(p[3])>>}),
                      !.zset_score = Put(@, k, Put(Get(@, k, <<>>), One(p[3]), One(p[2])))]
       [] OTHER -> d
loadFromFile(d, lines) ==
  LET bad == {i \in DOMAIN lines : Throws(lines[i])}
  IN FoldLeft(loadLine, d, IF bad = {} THEN lines ELSE SubSeq(lines, 1, Min(bad)))

\* generateRDB(): one command per element, executed by the replica; the remaining
\* time of a value is sent as a command of its own, EX, that no table has.
generateRDB(d) ==
  Each(d.store, LAMBDA k, v : <<[op |-> "SET", k |-> k, args |-> v.val]>>
                              \o (IF v.expire = {} THEN <<>> ELSE <<[op |-> "EX", k |-> k, args |-> <<>>]>>))
  \o Each(d.hash, LAMBDA k, h : Each(h, LAMBDA f, v : <<[op |-> "HSET", k |-> k, args |-> <<f, v>>]>>))
  \o Each(d.lists, LAMBDA k, l : PerElement(l, LAMBDA v : [op |-> "RPUSH", k |-> k, args |-> <<v>>]))
  \o Each(d.sets, LAMBDA k, s : PerElement(SetToSeq(s), LAMBDA m : [op |-> "SADD", k |-> k, args |-> <<m>>]))
  \o Each(d.zset_score, LAMBDA k, z : Each(z, LAMBDA m, s : <<[op |-> "ZADD", k |-> k, args |-> <<Decimals(s), m>>]>>))

\* The replica's executor.
loadCommand(d, c) ==
  CASE c.op = "SET" -> [d EXCEPT !.store = Put(@, c.k, StoreData(c.args, {}))]
    [] c.op = "HSET" -> HSET(d, c.k, c.args[1], c.args[2])
    [] c.op = "RPUSH" -> RPUSH(d, c.k, c.args)
    [] c.op = "SADD" -> SADD(d, c.k, Range(c.args))
    [] c.op = "ZADD" -> ZADD(d, c.k, {c.args[1]}, c.args[2])
    [] OTHER -> d
loadRDB(d, commands) == FoldLeft(loadCommand, d, commands)

-----------------------------------------------------------------------------
(* What survives: everything but empty collections, and of the strings the *)
(* value and, in the file, an expiry that is past; of the scores what is   *)
(* printed of them.                                                        *)

NonEmpty(f, nothing) == [k \in {x \in DOMAIN f : f[x] # nothing} |-> f[k]]
Surviving(d, Expiry(_), Printed(_)) ==
  LET scores == NonEmpty(d.zset_score, <<>>)
  IN [store |-> [k \in DOMAIN d.store |-> StoreData(d.store[k].val, Expiry(d.store[k]))],
      hash |-> NonEmpty(d.hash, <<>>), lists |-> NonEmpty(d.lists, <<>>), sets |-> NonEmpty(d.sets, {}),
      zset |-> [k \in DOMAIN scores |-> {<<Printed(scores[k][m]), m>> : m \in DOMAIN scores[k]}],
      zset_score |-> [k \in DOMAIN scores |-> [m \in DOMAIN scores[k] |-> Printed(scores[k][m])]]]

\* The maps of a database that have a bar in one of their texts.
Barred(d) ==
  {t \in {"store", "hash", "lists", "sets", "zset", "zset_score"} :
     \/ t = "store" /\ \E k \in DOMAIN d.store : Bar \in Range(d.store[k].val)
     \/ t = "hash" /\ \E k \in DOMAIN d.hash : Bar \in DOMAIN d.hash[k] \cup Range(d.hash[k])
     \/ t = "lists" /\ \E k \in DOMAIN d.lists : Bar \in Range(d.lists[k])
     \/ t = "sets" /\ \E k \in DOMAIN d.sets : Bar \in d.sets[k]
     \/ t \in {"zset", "zset_score"} /\ \E k \in DOMAIN d.zset_score : Bar \in DOMAIN d.zset_score[k]}
=============================================================================
