---------------------------- MODULE MCStructures ----------------------------
EXTENDS Structures

OneShard == <<0>>

Get1 == Array(<<Bulk(<<"G">>), Bulk(<<>>)>>)
Pipelines == { <<Get1, Integer(<<"-", "7">>), Null>>,
               <<Simple(<<"O", "K">>), Array(<<>>), Failure(<<"E">>)>>,
               <<Array(<<Array(<<Null>>), Bulk(<<"a", "b">>)>>), Bulk(<<"x">>)>>,
               <<Bulk(<<"b">>), Bulk(<<"a", "CR", "LF", "b">>), Get1>> }

\* /, /page/a, /* and /page/*
SomeUrls == {"/", "/page/a", "/*", "/page/*"}
SomeMatches == [u \in SomeUrls |-> CASE u = "/*" -> SomeUrls [] u = "/page/*" -> {u, "/page/a"} [] OTHER -> {u}]

None == {}
SomeUsers == {None, {<<>>}, {<<"g", ":", "a">>}, {<<"g", ":", "1", "a">>}, {<<"1", ".", "2", ".", "3", ".", "4">>},
              {<<"%", "2", "a", "C2", "80">>}}
SomeHosts == {<<>>, <<"g", ".", "a">>, <<"C2", "80", "-">>, <<"F0", "80", "80", "80", "a", ".", "g", "E0", "80", "80">>, <<"1", ".", "2", "0", ".", "1", "0", "3", ".", "2", "5", "5">>,
              <<"1", ".", "2", ".", "3", ".", "2", "5", "6">>, <<"1", ".", "2", ".", "3", ".", "4", ".", "g">>,
              <<"[", ":", ":", "]">>, <<"[", "1", ":", "a", "2", ":", ":", "5", ":", "0", "0", "0", "a", "]">>,
              <<"[", "1", ":", "2", ":", "3", ":", "4", ":", "5", ":", "6", ":", "7", ":", "8", "]">>,
              <<"[", ":", ":", "a", ":", "1", ".", "2", ".", "3", ".", "4", "]">>, <<"[", "v", "1", ".", "g", "]">>}
SomePorts == {None, {<<>>}, {<<"8", "0">>}, {<<"6", "5", "5", "3", "7">>}}
SomePaths == {<<>>, <<"/", "a", ":", "1", "@", "/">>}
SomeQueries == {None, {<<>>}, {<<"?", "/", "%">>}}
SomeFragments == {None, {<<>>}, {<<"#", "!">>}}

\* Around the boundaries of the units
SomeValues == 0..3 \cup {n * u + d : n \in {1, 2, 7}, u \in {1000, 1024, 1000000, 1048576}, d \in {-1, 0, 1}}

SomeItems == {TextItem(t) : t \in {<<"x">>, <<"%">>, <<" ", "m">>, <<"}">>, <<"{">>}}
               \cup {[type |-> 1, str |-> c, fmt |-> <<>>] : c \in Codes}
               \cup {[type |-> 2, str |-> c, fmt |-> f] : c \in Codes, f \in {<<>>, <<"%", "m">>, <<"x", "%">>}}

Entry(type, file, named, level, formatter) ==
  [type |-> type, file |-> file, named |-> named, level |-> level, formatter |-> formatter]
SomeAppenders == {<<>>, <<Entry("file", "", TRUE, 0, ""), Entry("std", "", TRUE, 4, "")>>,
                  <<Entry("file", "one", TRUE, 0, "g"), Entry("file", "two", TRUE, 0, "bad")>>,
                  <<Entry("std", "", FALSE, 0, "")>>}
SomeLogs ==
  LET b == [name |-> 2, level |-> 3, formatter |-> "f", appenders |-> <<Entry("file", "three", TRUE, 0, "")>>]
      defs == [name : {1}, level : {0, 2}, formatter : {"", "f", "bad"}, appenders : SomeAppenders]
  IN {<<>>, <<b>>} \cup {<<d>> : d \in defs} \cup {<<d, b, [d EXCEPT !.level = 5]>> : d \in defs}
SomeRotates == {{}, {[n \in Names(LogRotateDefine) |-> "first"]}}

Kind(type, bytes) == [type |-> type, bytes |-> bytes]
SomeTyped ==
  {[kind |-> Kind("unsigned", n), val |-> v] : n \in {1, 2}, v \in {0, 1, 200}}
    \cup {[kind |-> Kind("signed", n), val |-> v] : n \in {1, 2}, v \in {-128, -1, 127}}
    \cup {[kind |-> Kind("unsigned", 2), val |-> 65535], [kind |-> Kind("signed", 2), val |-> -32768]}
    \cup {[kind |-> Kind("varint", 0), val |-> v] : v \in {0, 127, 128, 16383, 16384, 65535}}
    \cup {[kind |-> Kind("zigzag", 0), val |-> v] : v \in {0, 1, -1, 63, 64, -64, -65, 32767, -32768}}
    \cup {[kind |-> Kind("string", n), val |-> v] : n \in {2}, v \in {<<>>, <<7, 0, 255>>}}

\* GET and POST, OK; bytes a = 97, b = 98, x = 120
GET == <<71, 69>>
POST == <<80, 79>>
OKAY == <<79, 75>>
Pair(name, val) == [name |-> name, val |-> val]
Request(method, url, headers, body, params, cookies) ==
  [kind |-> "request", method |-> method, url |-> url, headers |-> headers, body |-> body,
   params |-> params, cookies |-> cookies]
Page == Request(GET, <<47, Question, 97, Equals, Percent, 52, 49, Ampersand, 98, Ampersand, 120, Equals, Plus>>,
                <<Pair(<<120, Hyphen, 66>>, <<97, 98>>), Pair(<<98>>, <<>>), Pair(Cookie, <<97, Equals, 98, Semicolon, Space, 120, Equals>>)>>,
                <<>>, <<Pair(<<97>>, <<65>>), Pair(<<120>>, <<Space>>)>>, <<Pair(<<97>>, <<98>>), Pair(<<120>>, <<>>)>>)
Posted == Request(POST, <<47, 97>>, <<Pair(ContentType, Form), Pair(<<97, 97>>, <<>>)>>, <<97, Equals, 98, 98, Ampersand>>,
                  <<Pair(<<97>>, <<98, 98>>)>>, <<>>)
Answer(body) == [Request(OKAY, <<>>, <<Pair(<<97, 98>>, <<120>>)>>, body, <<>>, <<>>) EXCEPT !.kind = "response"]
SomeMethods == {GET, POST, OKAY}
SomeMessages == {<<Page, Posted>>, <<Answer(<<97>>), Answer(<<97, 98, 97, 98, 97>>)>>}
=============================================================================
