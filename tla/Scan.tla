-------------------------------- MODULE Scan --------------------------------
(***************************************************************************)
(* SCAN over the shards and the five maps of a database                    *)
(* (ServerData::scanKeys and scanContainer, src/src/util/scan_cursor.h,    *)
(* CommandHandlerTable::handleSCAN).                                       *)
(*                                                                         *)
(* The containers are one sequence of keys per shard and type, in the      *)
(* order of their iterators; the pattern is the set of keys that match.    *)
(***************************************************************************)
EXTENDS Integers, Sequences, SequencesExt

CONSTANT SHARD_COUNT

Cursor(shard, type, offset) == [shard |-> shard, type |-> type, offset |-> offset]
Start == Cursor(0, 0, 0)
LastType == 4

\* scanContainer: the elements from `offset` on, until `count` keys have matched in
\* this call; what was found, where it stopped, and whether the count was reached.
RECURSIVE scanContainer(_, _, _, _, _)
scanContainer(c, pattern, count, offset, keys) ==
  IF offset >= Len(c) \/ Len(keys) >= count
    THEN [keys |-> keys, offset |-> IF offset > Len(c) THEN Len(c) ELSE offset,
          full |-> offset <= Len(c) /\ Len(keys) >= count]
    ELSE scanContainer(c, pattern, count, offset + 1,
                       IF c[offset + 1] \in pattern THEN Append(keys, c[offset + 1]) ELSE keys)

\* Mutant of scanKeys: the offset of the cursor is used in every container.
RECURSIVE scanKeysKeepsOffset(_, _, _, _, _)
scanKeysKeepsOffset(db, cursor, pattern, count, keys) ==
  IF cursor.shard >= SHARD_COUNT THEN [keys |-> keys, cursor |-> Start, completed |-> TRUE]
  ELSE IF cursor.type > LastType
         THEN scanKeysKeepsOffset(db, Cursor(cursor.shard + 1, 0, cursor.offset), pattern, count, keys)
  ELSE LET r == scanContainer(db[cursor.shard][cursor.type], pattern, count, cursor.offset, keys)
       IN IF r.full THEN [keys |-> r.keys, cursor |-> [cursor EXCEPT !.offset = r.offset], completed |-> FALSE]
          ELSE scanKeysKeepsOffset(db, Cursor(cursor.shard, cursor.type + 1, r.offset), pattern, count, r.keys)

\* scanKeys: container after container, shard after shard, from the cursor on.
RECURSIVE scanKeys(_, _, _, _, _)
scanKeys(db, cursor, pattern, count, keys) ==
  IF cursor.shard >= SHARD_COUNT THEN [keys |-> keys, cursor |-> Start, completed |-> TRUE]
  ELSE IF cursor.type > LastType
         THEN scanKeys(db, Cursor(cursor.shard + 1, 0, 0), pattern, count, keys)
  ELSE LET r == scanContainer(db[cursor.shard][cursor.type], pattern, count, cursor.offset, keys)
       IN IF r.full THEN [keys |-> r.keys, cursor |-> [cursor EXCEPT !.offset = r.offset], completed |-> FALSE]
          ELSE scanKeys(db, Cursor(cursor.shard, cursor.type + 1, 0), pattern, count, r.keys)

\* handleSCAN: `saved` is the cursor of the connection, `arg` the one of the request,
\* each empty for none and for "0". A request with "0" goes on from a saved cursor.
handleSCAN(db, saved, arg, pattern, count) ==
  scanKeys(db, IF arg # {} THEN CHOOSE c \in arg : TRUE
               ELSE IF saved # {} THEN CHOOSE c \in saved : TRUE ELSE Start,
           pattern, count, <<>>)
=============================================================================
