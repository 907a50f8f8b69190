------------------------------ MODULE ByteArray ------------------------------
(***************************************************************************)
(* ByteArray (src/src/util/bytearray.cpp): a chain of pages with a         *)
(* position, to which integers and strings are written and from which they *)
(* are read, and which TLS sockets fill and send                           *)
(* (SSLSocket::read, SSLSocket::write).                                    *)
(*                                                                         *)
(* The pages are a sequence and m_curr is an index into it; the index      *)
(* behind the last page stands for a null pointer.                         *)
(***************************************************************************)
EXTENDS Integers, Sequences, SequencesExt

CONSTANT BaseSize,   \* m_baseSize
         WordBits    \* the width of the integers that zigzag encodes (32 and 64 in the code)

Blank == [i \in 1..BaseSize |-> 0]
NewByteArray == [pages |-> <<Blank>>, curr |-> 1, pos |-> 0, size |-> 0, cap |-> BaseSize, little |-> FALSE]

Grown(b, count) == [b EXCEPT !.cap = @ + count * BaseSize, !.pages = @ \o [i \in 1..count |-> Blank]]

getReadSize(b) == b.size - b.pos

addCapacity(b, n) ==
  LET remain == b.cap - b.size
  IN IF n = 0 \/ remain >= n THEN b ELSE Grown(b, (n - remain + BaseSize - 1) \div BaseSize)

\* The cell that is k bytes behind m_curr and m_position % m_baseSize; the loops of the code
\* step from page to page.
Cell(b, k) ==
  LET offset == (b.pos % BaseSize) + k
  IN [page |-> b.curr + (offset \div BaseSize), at |-> (offset % BaseSize) + 1]

Copied(b, bytes) ==
  [b EXCEPT !.pages =
     [p \in DOMAIN @ |-> [i \in 1..BaseSize |->
        LET k == (p - b.curr) * BaseSize + (i - 1) - (b.pos % BaseSize)
        IN IF k \in 0..(Len(bytes) - 1) THEN bytes[k + 1] ELSE @[p][i]]]]

\* m_position and m_curr behind n bytes
Advance(b, n) == [b EXCEPT !.pos = @ + n, !.curr = Cell(b, n).page]

write(b, bytes) ==
  IF bytes = <<>> THEN b
  ELSE LET w == Advance(Copied(addCapacity(b, Len(bytes)), bytes), Len(bytes))
           size == Max({w.pos, w.size})
       IN [w EXCEPT !.size = size, !.cap = Max({@, size})]

\* The bytes that read() copies; it throws when there are too few.
Peek(b, n) == [k \in 1..n |-> b.pages[Cell(b, k - 1).page][Cell(b, k - 1).at]]
read(b, n) == IF n > getReadSize(b) THEN [b |-> b, bytes |-> <<>>, threw |-> TRUE]
              ELSE [b |-> IF n = 0 THEN b ELSE Advance(b, n), bytes |-> Peek(b, n), threw |-> FALSE]

\* read(buf, size, position), toString(): from the first page on.
ReadAt(b, n, position) ==
  [k \in 1..n |-> b.pages[(position + k - 1) \div BaseSize + 1][((position + k - 1) % BaseSize) + 1]]
ByteArrayToString(b) == ReadAt(b, getReadSize(b), b.pos)

\* At the end of the data, on the boundary of a page, a page is added when there is one
\* behind the boundary and none behind that, and m_curr goes one page too far.
OnePageTooFar(b, v) == v = b.size /\ v % BaseSize = 0 /\ (v \div BaseSize) + 1 = Len(b.pages)
\* Mutant of setPosition: a page that is used up is not left.
setPositionOnFullPage(b, v) ==
  IF v > b.size THEN b ELSE [b EXCEPT !.pos = v, !.curr = IF v = 0 THEN 1 ELSE ((v - 1) \div BaseSize) + 1]
setPosition(b, v) ==
  IF v > b.size THEN b
  ELSE LET at == [b EXCEPT !.pos = v, !.curr = (v \div BaseSize) + 1]
       IN IF OnePageTooFar(b, v) THEN [Grown(at, 1) EXCEPT !.curr = @ + 1] ELSE at

setSize(b, v) == [b EXCEPT !.size = Max({@, v})]

clearBytes(b) == [b EXCEPT !.pages = <<@[1]>>, !.curr = 1, !.pos = 0, !.size = 0, !.cap = BaseSize]

\* The cells from the position on that an iovec is made of.
getReadBuffers(b, n) == Peek(b, IF n > getReadSize(b) THEN getReadSize(b) ELSE n)
getWriteBuffers(b, n) ==
  LET grown == addCapacity(b, n)
      missing == Cell(grown, n - 1).page - Len(grown.pages)
  IN IF n > 0 /\ missing > 0 THEN Grown(grown, missing) ELSE grown

\* writeToFile() copies what is left to be read, readFromFile() writes a file page by page.
writeToFile(b) == getReadBuffers(b, getReadSize(b))
readFromFile(b, content) ==
  FoldLeft(LAMBDA x, i : write(x, SubSeq(content, (i - 1) * BaseSize + 1, IF i * BaseSize > Len(content) THEN Len(content) ELSE i * BaseSize)),
           b, [i \in 1..(Len(content) \div BaseSize + 1) |-> i])

\* SSLSocket::read(data, len) when got arrives, SSLSocket::write(data, len) when n bytes are sent.
Filled(b, len, got) == setSize(Copied(getWriteBuffers(b, len), got), b.size + Len(got))
SslRead(b, len, got) == setPosition(Filled(b, len, got), b.pos + Len(got))
SslWrite(b, len, n) == [sent |-> SubSeq(getReadBuffers(b, len), 1, n), b |-> setPosition(b, b.pos + n)]

-----------------------------------------------------------------------------
(* Integers and strings. *)

\* writeFint8 to writeFuint64: n bytes in the byte order of the array.
InByteOrder(b, bytes) == IF b.little THEN bytes ELSE Reverse(bytes)
FixedBytes(b, val, n) == InByteOrder(b, [i \in 1..n |-> (val \div 256^(i - 1)) % 256])
FixedValue(b, bytes) ==
  LET low == InByteOrder(b, bytes) IN FoldLeft(LAMBDA v, i : v + low[i] * 256^(i - 1), 0, [i \in DOMAIN low |-> i])
Signed(val, n) == IF val >= 256^n \div 2 THEN val - 256^n ELSE val

\* (u << 1) ^ (val >> 31) and its inverse
EncodeZigzag(val) ==
  LET u == IF val < 0 THEN val + 2^WordBits ELSE val
      twice == (2 * u) % 2^WordBits
  IN IF val < 0 THEN 2^WordBits - 1 - twice ELSE twice

DecodeZigzag(val) == IF val % 2 = 1 THEN -(val \div 2) - 1 ELSE val \div 2

\* writeUint32: seven bits at a time, the lowest first, all but the last marked.
VarintBytes(val) ==
  LET n == CHOOSE n \in 1..5 : val < 128^n /\ (n = 1 \/ val >= 128^(n - 1))
  IN [i \in 1..n |-> ((val \div 128^(i - 1)) % 128) + (IF i < n THEN 128 ELSE 0)]

\* readUint32: one byte after the other until one is not marked (it throws at the end of the data).
ReadVarint(b) ==
  LET rest == getReadBuffers(b, getReadSize(b))
      ends == {i \in DOMAIN rest : rest[i] < 128}
      n == Min(ends)
  IN IF ends = {} THEN [b |-> read(b, Len(rest)).b, val |-> 0]
     ELSE [b |-> read(b, n).b,
           val |-> FoldLeft(LAMBDA v, i : v + (rest[i] % 128) * 128^(i - 1), 0, [i \in 1..n |-> i])]

\* A value has a kind: a fixed number of bytes, "varint", "zigzag", or a string behind its length.
writeValue(b, kind, val) ==
  CASE kind.type = "unsigned" -> write(b, FixedBytes(b, val, kind.bytes))
    [] kind.type = "signed"   -> write(b, FixedBytes(b, val % 256^kind.bytes, kind.bytes))
    [] kind.type = "varint"   -> write(b, VarintBytes(val))
    [] kind.type = "zigzag"   -> write(b, VarintBytes(EncodeZigzag(val)))
    [] kind.type = "string"   -> write(write(b, FixedBytes(b, Len(val), kind.bytes)), val)

readValue(b, kind) ==
  LET r == read(b, kind.bytes)
      v == ReadVarint(b)
      len == FixedValue(b, r.bytes)
      s == read(r.b, len)
  IN CASE kind.type = "unsigned" -> [b |-> r.b, val |-> FixedValue(b, r.bytes)]
       [] kind.type = "signed"   -> [b |-> r.b, val |-> Signed(FixedValue(b, r.bytes), kind.bytes)]
       [] kind.type = "varint"   -> [b |-> v.b, val |-> v.val]
       [] kind.type = "zigzag"   -> [b |-> v.b, val |-> DecodeZigzag(v.val)]
       [] kind.type = "string"   -> [b |-> s.b, val |-> s.bytes]
=============================================================================
