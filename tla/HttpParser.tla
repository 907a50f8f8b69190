----------------------------- MODULE HttpParser -----------------------------
(***************************************************************************)
(* The HTTP parsers (src/src/http/httpParser.cpp) and the loops that feed  *)
(* them (HttpSession::recvRequest, HttpConnection::recvResponse).          *)
(*                                                                         *)
(* llhttp is external: it calls back with the spans of a message, and with *)
(* the two parts of a span that is cut by the end of a chunk. Texts are    *)
(* sequences of bytes.                                                     *)
(***************************************************************************)
EXTENDS Url

CONSTANTS MaxSpan,      \* longest URL or header name (8192)
          GzipMin       \* shortest body that is compressed (20)

Lower(b) == IF b \in 65..90 THEN b + 32 ELSE b
Upper(b) == IF b \in 97..122 THEN b - 32 ELSE b
Folded(text) == [i \in DOMAIN text |-> Lower(text[i])]

\* The maps compare their keys without case; the key keeps the case it was inserted with.
With(map, key, val) ==
  [k \in DOMAIN map \cup {Folded(key)} |->
     IF k # Folded(key) THEN map[k]
     ELSE [key |-> IF k \in DOMAIN map THEN map[k].key ELSE key, val |-> val]]
HasKey(map, key) == Folded(key) \in DOMAIN map
Got(map, key) == IF HasKey(map, key) THEN map[Folded(key)].val ELSE <<>>

Equals == 61
Ampersand == 38
Semicolon == 59
Hyphen == 45
Question == 63
Cookie == <<67, 111, 111, 107, 105, 101>>
ContentEncoding == <<67, 69>>      \* names and values of which only the identity matters
ContentType == <<67, 84>>
Form == <<102>>
Gzip == <<103>>

Split(text, sep) ==
  LET cuts == <<0>> \o SetToSortSeq({i \in DOMAIN text : text[i] = sep}, <) \o <<Len(text) + 1>>
  IN [j \in 1..(Len(cuts) - 1) |-> SubSeq(text, cuts[j] + 1, cuts[j + 1] - 1)]
Find(text, b) == IF b \in Range(text) THEN SelectInSeq(text, LAMBDA x : x = b) ELSE 0

\* The items of a list that have an equals sign, as keys and values.
Pairs(text, sep) ==
  LET items == SelectSeq(Split(text, sep), LAMBDA item : Equals \in Range(item))
      cut(item) == Find(item, Equals)
  IN [i \in DOMAIN items |-> [key |-> SubSeq(items[i], 1, cut(items[i]) - 1),
                              val |-> SubSeq(items[i], cut(items[i]) + 1, Len(items[i]))]]
WithAll(map, pairs) == FoldLeft(LAMBDA acc, p : With(acc, p.key, p.val), map, pairs)

_urlDecode(param) == UrlDecode(param)
TrimSpaces(text) ==
  LET kept == {i \in DOMAIN text : text[i] # Space}
  IN IF kept = {} THEN <<>> ELSE SubSeq(text, Min(kept), Max(kept))

DecodedPairs(text) ==
  LET pairs == Pairs(text, Ampersand)
  IN [i \in DOMAIN pairs |-> [key |-> _urlDecode(pairs[i].key), val |-> _urlDecode(pairs[i].val)]]
TrimmedPairs(text) ==
  LET pairs == Pairs(text, Semicolon)
  IN [i \in DOMAIN pairs |-> [pairs[i] EXCEPT !.key = TrimSpaces(@)]]

_parseQuery(data) == [data EXCEPT !.params = WithAll(@, DecodedPairs(data.query))]
_parsePostBody(data) ==
  IF Got(data.headers, ContentType) # Form THEN data
  ELSE [data EXCEPT !.params = WithAll(@, DecodedPairs(data.body))]
_parseCookie(data) == [data EXCEPT !.cookies = WithAll(@, TrimmedPairs(Got(data.headers, Cookie)))]

\* The letter behind a hyphen is made a capital, and made small again at the next index.
_headerFieldFormat(field) ==
  FoldLeft(LAMBDA f, i :
             IF i = 1 THEN [f EXCEPT ![i] = Upper(@)]
             ELSE IF f[i] = Hyphen /\ i < Len(f) THEN [f EXCEPT ![i + 1] = Upper(@)]
             ELSE [f EXCEPT ![i] = Lower(@)],
           field, [i \in DOMAIN field |-> i])

-----------------------------------------------------------------------------
(* A parser and its callbacks. *)

NoMessage == [method |-> <<>>, path |-> <<>>, query |-> <<>>, version |-> <<>>, headers |-> <<>>, params |-> <<>>,
              cookies |-> <<>>, body |-> <<>>]
NewHttpParser == [method |-> <<>>, url |-> <<>>, version |-> <<>>, field |-> <<>>, value |-> <<>>, body |-> <<>>,
                  data |-> NoMessage, begun |-> FALSE, finished |-> FALSE, error |-> FALSE]

ParseFailed(s) == [s EXCEPT !.error = TRUE]
SetPending(s) == [s EXCEPT !.data.headers = With(@, s.field, s.value)]

_on_Url(s, at) == IF Len(s.url) + Len(at) > MaxSpan THEN ParseFailed(s) ELSE [s EXCEPT !.url = @ \o at]
_on_Url_complate(s) ==
  LET q == Find(s.url, Question)
      data == [s.data EXCEPT !.path = IF q = 0 THEN s.url ELSE SubSeq(s.url, 1, q - 1),
                             !.query = IF q = 0 THEN <<>> ELSE SubSeq(s.url, q + 1, Len(s.url))]
  IN [s EXCEPT !.data = _parseQuery(data)]

\* The method of a request; the reason of a response, by which its status is found.
_on_Method(s, at) == [s EXCEPT !.method = @ \o at]
_on_Method_complate(s, methods) == IF s.method \in methods THEN [s EXCEPT !.data.method = s.method] ELSE ParseFailed(s)

_on_Version(s, at) == [s EXCEPT !.version = @ \o at]
_on_Version_complate(s) == IF Len(s.version) = 3 THEN [s EXCEPT !.data.version = s.version] ELSE ParseFailed(s)

_on_header_field(s, at) ==
  IF Len(s.field) + Len(at) > MaxSpan THEN ParseFailed(s)
  ELSE [(IF s.field # <<>> /\ s.value # <<>> THEN SetPending(s) ELSE s)
          EXCEPT !.field = _headerFieldFormat(at), !.value = <<>>]
\* Mutant of _on_header_value: of a value that is cut only the last part is kept.
_on_header_value_last(s, at) == [s EXCEPT !.value = at]
_on_header_value(s, at) == [s EXCEPT !.value = @ \o at]
_on_Header_complate(s) ==
  LET set == IF s.field # <<>> THEN SetPending(s) ELSE s IN [set EXCEPT !.data = _parseCookie(@)]

_on_body(s, at) == [s EXCEPT !.body = @ \o at]
decompress(body) == SubSeq(body, 3, Len(body))
compress(body) == <<31, 139>> \o body

_on_Message_complate(s, kind) ==
  LET zipped == Got(s.data.headers, ContentEncoding) = Gzip /\ Len(s.body) >= GzipMin
      data == [s.data EXCEPT !.body = IF zipped THEN decompress(s.body) ELSE s.body,
                             !.headers = IF zipped THEN [k \in DOMAIN @ \ {Folded(ContentEncoding)} |-> @[k]] ELSE @]
  IN [s EXCEPT !.data = IF kind = "request" THEN _parsePostBody(data) ELSE data, !.finished = TRUE,
               !.body = IF kind = "request" THEN @ ELSE <<>>]

Callback(s, c, kind, methods) ==
  IF s.error THEN s
  ELSE CASE c.on = "method"   -> _on_Method(s, c.at)
         [] c.on = "methodEnd" -> _on_Method_complate(s, methods)
         [] c.on = "url"      -> _on_Url(s, c.at)
         [] c.on = "urlEnd"   -> _on_Url_complate(s)
         [] c.on = "version"  -> _on_Version(s, c.at)
         [] c.on = "versionEnd" -> _on_Version_complate(s)
         [] c.on = "field"    -> _on_header_field(s, c.at)
         [] c.on = "value"    -> _on_header_value(s, c.at)
         [] c.on = "headersEnd" -> _on_Header_complate(s)
         [] c.on = "body"     -> _on_body(s, c.at)
         [] c.on = "messageEnd" -> _on_Message_complate(s, kind)

\* llhttp refuses what does not begin like a message.
Execute(s, calls, kind, methods) ==
  IF ~s.begun /\ ~calls[1].starts THEN ParseFailed(s)
  ELSE FoldLeft(LAMBDA x, c : Callback(x, c, kind, methods), [s EXCEPT !.begun = TRUE], calls)

\* One read: recvRequest looks for an error first, recvResponse for the end of the message.
NewReceiver == [p |-> NewHttpParser, got |-> <<>>, failed |-> FALSE]
recvRequest(r, calls, methods) ==
  LET s == Execute(r.p, calls, "request", methods)
  IN IF s.error THEN [r EXCEPT !.failed = TRUE]
     ELSE IF s.finished THEN [r EXCEPT !.got = Append(@, s.data), !.p = NewHttpParser]
     ELSE [r EXCEPT !.p = s]
recvResponse(r, calls, methods) ==
  LET s == Execute(r.p, calls, "response", methods)
  IN IF s.finished THEN [r EXCEPT !.got = Append(@, s.data), !.p = NewHttpParser]
     ELSE IF s.error THEN [r EXCEPT !.failed = TRUE]
     ELSE [r EXCEPT !.p = s]

-----------------------------------------------------------------------------
(* What is sent: a message is [kind, method, url, headers (a sequence), body].       *)

\* sendRequest, sendResponse: long bodies are compressed.
Sent(m) ==
  IF Len(m.body) <= GzipMin THEN m
  ELSE [m EXCEPT !.body = compress(@), !.headers = Append(@, [name |-> ContentEncoding, val |-> Gzip])]

\* The spans of a message as llhttp sees them, byte by byte; span numbers tell two spans apart.
Spans(m) ==
  LET version == <<[on |-> "version", at |-> <<49, 46, 49>>], [on |-> "versionEnd", at |-> <<>>]>>
      method == <<[on |-> "method", at |-> m.method], [on |-> "methodEnd", at |-> <<>>]>>
      headers == FlattenSeq([i \in DOMAIN m.headers |->
                   <<[on |-> "field", at |-> m.headers[i].name], [on |-> "value", at |-> m.headers[i].val]>>])
  IN (IF m.kind = "request"
      THEN method \o <<[on |-> "url", at |-> m.url], [on |-> "urlEnd", at |-> <<>>]>> \o version
      ELSE version \o method)
     \o headers \o <<[on |-> "headersEnd", at |-> <<>>], [on |-> "body", at |-> m.body], [on |-> "messageEnd", at |-> <<>>]>>
Units(spans) ==
  FlattenSeq([i \in DOMAIN spans |->
    IF spans[i].at = <<>> THEN <<[span |-> i, on |-> spans[i].on, at |-> <<>>, starts |-> FALSE]>>
    ELSE [k \in DOMAIN spans[i].at |->
            [span |-> i, on |-> spans[i].on, at |-> <<spans[i].at[k]>>,
             starts |-> k = 1 /\ (i = 1 \/ spans[i - 1].on = "messageEnd")]]])

\* The calls for a chunk: one for each span that has a part in it.
Calls(units) ==
  LET first == SelectSeq([i \in DOMAIN units |-> i], LAMBDA i : i = 1 \/ units[i - 1].span # units[i].span)
      inside(n) == SelectSeq(units, LAMBDA u : u.span = n)
  IN [j \in DOMAIN first |->
        LET here == inside(units[first[j]].span)
        IN [on |-> here[1].on, starts |-> here[1].starts, at |-> FlattenSeq([i \in DOMAIN here |-> here[i].at])]]
=============================================================================
