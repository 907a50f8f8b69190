-------------------------------- MODULE Resp --------------------------------
(***************************************************************************)
(* The RESP encoding of values and the incremental parser                  *)
(* (src/src/util/resp_parser.cpp).  Bytes are strings of one character,    *)
(* "CR" and "LF" the two bytes of a line end; lengths have one digit.      *)
(***************************************************************************)
EXTENDS Integers, Sequences, SequencesExt

CONSTANTS Compact,     \* parsed bytes beyond which the buffer is compacted (65536)
          MaxBuffer    \* max_buffer_size_

CRLF == <<"CR", "LF">>
Numerals == <<"0", "1", "2", "3", "4", "5", "6", "7", "8", "9">>
Numeral(n) == Numerals[n + 1]
Number(line) == (CHOOSE i \in DOMAIN Numerals : line = <<Numerals[i]>>) - 1
Value(type, str, arr) == [type |-> type, str |-> str, arr |-> arr]
Simple(s) == Value("+", s, <<>>)
Failure(s) == Value("-", s, <<>>)
Integer(s) == Value(":", s, <<>>)
Bulk(s) == Value("$", s, <<>>)
Null == Value("null", <<>>, <<>>)
Array(a) == Value("*", <<>>, a)

RECURSIVE encode(_)
encode(v) ==
  CASE v.type \in {"+", "-", ":"} -> <<v.type>> \o v.str \o CRLF
    [] v.type = "$" -> <<"$", Numeral(Len(v.str))>> \o CRLF \o v.str \o CRLF
    [] v.type = "*" -> FoldLeft(LAMBDA out, e : out \o encode(e), <<"*", Numeral(Len(v.arr))>> \o CRLF, v.arr)
    [] v.type = "null" -> <<"$", "-", "1">> \o CRLF

\* The position before the first line end from position `from` on; 0 when there is none.
LineEnd(d, from) ==
  LET ends == {i \in from..(Len(d) - 1) : d[i] = "CR" /\ d[i + 1] = "LF"}
  IN IF ends = {} THEN 0 ELSE CHOOSE i \in ends : \A j \in ends : i <= j

Incomplete == [val |-> Null, used |-> 0]

\* RespValue::parse: the value at the beginning of d and its length in bytes, 0 when
\* it is not complete or not well-formed.  A bulk string is complete when the first
\* line end after its header is where its length says.
RECURSIVE parse(_)
RECURSIVE elements(_, _, _, _)
parse(d) ==
  LET pos == LineEnd(d, 1)
      line == SubSeq(d, 2, pos - 1)
  IN IF d = <<>> \/ pos = 0 THEN Incomplete
     ELSE CASE d[1] \in {"+", "-", ":"} -> [val |-> Value(d[1], line, <<>>), used |-> pos + 1]
            [] d[1] = "$" /\ line = <<"-", "1">> -> [val |-> Null, used |-> pos + 1]
            [] d[1] = "$" /\ line # <<"-", "1">> ->
                 LET end == LineEnd(d, pos + 2)
                 IN IF end = 0 \/ end - (pos + 2) # Number(line) THEN Incomplete
                    ELSE [val |-> Bulk(SubSeq(d, pos + 2, end - 1)), used |-> end + 1]
            [] d[1] = "*" -> elements(d, Number(line), pos + 1, <<>>)
            [] OTHER -> Incomplete
elements(d, count, start, got) ==
  IF count = 0 THEN [val |-> Array(got), used |-> start]
  ELSE LET e == parse(SubSeq(d, start + 1, Len(d)))
       IN IF e.used = 0 THEN Incomplete
          ELSE elements(d, count - 1, start + e.used, Append(got, e.val))

-----------------------------------------------------------------------------
(* RespStreamParser: the buffer, how much of it is parsed, and the values    *)
(* taken out of it so far.                                                   *)

NewParser == [buffer |-> <<>>, offset |-> 0, got |-> <<>>, refused |-> FALSE]

feed(p, data) == IF Len(p.buffer) + Len(data) > MaxBuffer THEN [p EXCEPT !.refused = TRUE]
                 ELSE [p EXCEPT !.buffer = @ \o data]

\* Mutant of Trim: parsed bytes are erased and counted still.
TrimKeepsOffset(p) == IF p.offset > Compact
                        THEN [p EXCEPT !.buffer = SubSeq(@, p.offset + 1, Len(@))] ELSE p

\* The end of next(): what is parsed is erased when nothing else is left or when it
\* is a lot.
Trim(p) == IF p.offset = Len(p.buffer) \/ p.offset > Compact
             THEN [p EXCEPT !.buffer = SubSeq(@, p.offset + 1, Len(@)), !.offset = 0] ELSE p

\* while (parser.next(cmd)) ...
RECURSIVE drain(_)
drain(p) ==
  LET r == parse(SubSeq(p.buffer, p.offset + 1, Len(p.buffer)))
  IN IF r.used = 0 THEN p
     ELSE drain(Trim([p EXCEPT !.offset = @ + r.used, !.got = Append(@, r.val)]))
=============================================================================
