--------------------------------- MODULE Url ---------------------------------
(***************************************************************************)
(* Url::CreateUrl of src/src/util/urlparser.cpp, the automaton that Ragel  *)
(* generates from the grammar of RFC 3986 with UTF-8 characters, and the   *)
(* fields of src/src/util/url.cpp that are cut out with the pointers which *)
(* its actions set.                                                        *)
(*                                                                         *)
(* The generated automaton follows all alternatives of the grammar at once *)
(* and runs the actions of every alternative that takes a character, also  *)
(* of those that turn out to be wrong later. The model does the same: the  *)
(* live positions in the grammar are a set, and a move from a position is  *)
(* the pair of the pointers it sets and the position it leads to. A        *)
(* character is a string; every class that the grammar tells apart has at  *)
(* least one representative.                                               *)
(***************************************************************************)
EXTENDS Integers, Sequences, SequencesExt, FiniteSets

ALPHA == {"a", "g", "v"}
DIGIT == {"0", "1", "2", "3", "4", "5", "6", "7", "8", "9"}
HEX   == DIGIT \cup {"a"}
NUL   == "NUL"
UTF8Lead == [C2 |-> 1, E0 |-> 2, F0 |-> 3]   \* bytes that follow each first byte
UTF8Rest == {"80"}
SUB_DELIMS  == {"!", "+"}
IUNRESERVED == ALPHA \cup DIGIT \cup {"-", ".", "_", "~"}
print == IUNRESERVED \cup SUB_DELIMS \cup {":", "/", "?", "#", "@", "[", "]", "%", " "}

\* A pair of pointers set and position reached.
Move(marks, pos) == <<marks, pos>>
Marked(mark, moves) == {Move(mv[1] \cup {mark}, mv[2]) : mv \in moves}

\* One character of a rule that repeats plain characters, UTF-8 characters and
\* escapes: rest is what is still to come of the character begun before.
Repeat(rule, rest, plain, escapes, c) ==
  IF rest # <<>>
  THEN IF c \in Head(rest) THEN {Move({}, <<rule, Tail(rest)>>)} ELSE {}
  ELSE {Move({}, <<rule, r>>) :
          r \in (IF c \in plain THEN {<<>>} ELSE {})
             \cup (IF c \in DOMAIN UTF8Lead THEN {[i \in 1..UTF8Lead[c] |-> UTF8Rest]} ELSE {})
             \cup (IF c = "%" /\ escapes THEN {<<HEX, HEX>>} ELSE {})}

-----------------------------------------------------------------------------
(* The rules of the grammar, from the end of a URL to its begin. *)

\* FRAGMENT, and the NUL that the grammar wants at the end.
Fragment(rest, c) ==
  Repeat("fragment", rest, print, TRUE, c)
    \cup (IF rest = <<>> /\ c = NUL THEN {Move({}, <<"end">>)} ELSE {})

\* QUERY
Query(rest, c) ==
  Repeat("query", rest, print \ {"#"}, TRUE, c)
    \cup (IF rest # <<>> THEN {} ELSE
          {Move({}, pos) : pos \in (IF c = "#" THEN {<<"enter", "fragment">>} ELSE {})
                              \cup (IF c = NUL THEN {<<"end">>} ELSE {})})

\* What may follow a complete path.
AfterPath(c) ==
  {Move({}, pos) : pos \in (IF c = "?" THEN {<<"enter", "query">>} ELSE {})
                      \cup (IF c = "#" THEN {<<"enter", "fragment">>} ELSE {})
                      \cup (IF c = NUL THEN {<<"end">>} ELSE {})}

\* Mutant of EnterPath: the action is run on a slash only.
EnterPathAtSlash(c) ==
  IF c = "/" THEN {Move({"path"}, <<"path", <<>>>>)} ELSE AfterPath(c)

\* PATH >mark_path: the path may be empty, its action is run on what follows then.
EnterPath(c) ==
  Marked("path", AfterPath(c) \cup (IF c = "/" THEN {Move({}, <<"path", <<>>>>)} ELSE {}))

\* SEGMENT and the slashes between them
Path(rest, c) ==
  Repeat("path", rest, IUNRESERVED \cup SUB_DELIMS \cup {":", "@", "/"}, TRUE, c)
    \cup (IF rest = <<>> THEN AfterPath(c) ELSE {})

\* PORT >mark_port and the digits of it.
EnterPort(c) ==
  Marked("port", EnterPath(c) \cup (IF c \in DIGIT THEN {Move({}, <<"port">>)} ELSE {}))

Port(c) == EnterPath(c) \cup (IF c \in DIGIT THEN {Move({}, <<"port">>)} ELSE {})

\* What may follow a complete host.
AfterHost(c) == EnterPath(c) \cup (IF c = ":" THEN {Move({}, <<"enter", "port">>)} ELSE {})

\* HOSTCHAR*, a registered name
RegName(rest, c) ==
  Repeat("regname", rest, (IUNRESERVED \cup SUB_DELIMS \cup {"%"}), FALSE, c)
    \cup (IF rest = <<>> THEN AfterHost(c) ELSE {})

\* dec_octet: one to three digits, no leading zero, at most 255.
dec_octet(d) ==
  \/ Len(d) = 1
  \/ Len(d) = 2 /\ d[1] # "0"
  \/ Len(d) = 3 /\ \/ d[1] = "1"
                   \/ d[1] = "2" /\ d[2] \in {"0", "1", "2", "3", "4"}
                   \/ d[1] = "2" /\ d[2] = "5" /\ d[3] \in {"0", "1", "2", "3", "4", "5"}

\* IPv4address: k is the octet, d its digits so far; the address is known to be
\* one when its last octet begins. rule tells the host from the end of a literal.
OctetDigit(rule, k, d, c) ==
  IF c \in DIGIT /\ dec_octet(Append(d, c))
  THEN {Move(IF k = 4 /\ d = <<>> THEN {"ipv4"} ELSE {}, <<rule, k, Append(d, c)>>)} ELSE {}

OctetDot(rule, k, d, c) ==
  IF c = "." /\ d # <<>> /\ k < 4 THEN {Move({}, <<rule, k + 1, <<>>>>)} ELSE {}

IPv4address(rule, k, d, c) == OctetDigit(rule, k, d, c) \cup OctetDot(rule, k, d, c)

\* An IPv4 address as host, and the one at the end of an IPv6 address
HostIPv4(k, d, c) ==
  IPv4address("ipv4", k, d, c) \cup (IF k = 4 /\ d # <<>> THEN AfterHost(c) ELSE {})

LiteralIPv4(k, d, c) ==
  IPv4address("ls32", k, d, c)
    \cup (IF c = "]" /\ k = 4 /\ d # <<>> THEN {Move({}, <<"literal">>)} ELSE {})

\* IPv6address up to its "::" or without one: groups are complete, n digits of the next
\* have been read. The last two groups (ls32) may be an IPv4 address.
BeforeDigit(groups, n, c) ==
  IF c \in HEX /\ n < 4 /\ groups < 8
  THEN {Move(IF groups = 6 /\ n = 0 THEN {"ipv6"} ELSE {}, <<"before", groups, n + 1>>)} ELSE {}

BeforeColon(groups, n, c) ==
  IF c = ":" /\ n > 0 /\ groups < 7 THEN {Move({}, <<"before", groups + 1, 0>>)} ELSE {}

BeforeIPv4(groups, n, c) ==
  IF groups = 6 /\ n = 0 THEN Marked("ipv6", IPv4address("ls32", 1, <<>>, c)) ELSE {}

\* The first colon of a "::", which any separator may be
BeforeElision(groups, n, c) ==
  LET whole == IF n > 0 THEN groups + 1 ELSE groups
  IN IF c = ":" /\ (n > 0 \/ groups = 0) /\ whole <= 7 THEN {Move({"ipv6"}, <<"elide", whole>>)} ELSE {}

FirstGroups(groups, n, c) ==
  BeforeDigit(groups, n, c) \cup BeforeColon(groups, n, c) \cup BeforeIPv4(groups, n, c)
    \cup BeforeElision(groups, n, c)
    \cup (IF c = "]" /\ n > 0 /\ groups = 7 THEN {Move({}, <<"literal">>)} ELSE {})

\* The second colon: any number of groups that still fits may follow.
Elide(groups, c) ==
  IF c = ":" THEN {Move({}, <<"after", left, 0, TRUE>>) : left \in 0..(7 - groups)} ELSE {}

\* IPv6address behind its "::": left groups are to come, n digits of the first of them
\* have been read, first says that it is the one next to the "::".
AfterDigit(left, n, first, c) ==
  IF c \in HEX /\ n < 4 /\ left > 0
  THEN {Move(IF n = 0 /\ (left = 2 \/ (left = 1 /\ first)) THEN {"ipv6"} ELSE {},
             <<"after", left, n + 1, first>>)} ELSE {}

AfterColon(left, n, c) ==
  IF c = ":" /\ n > 0 /\ left > 1 THEN {Move({}, <<"after", left - 1, 0, FALSE>>)} ELSE {}

AfterIPv4(left, n, c) ==
  IF left = 2 /\ n = 0 THEN Marked("ipv6", IPv4address("ls32", 1, <<>>, c)) ELSE {}

AfterEnd(left, n, c) ==
  IF c = "]" /\ (left = 0 \/ (left = 1 /\ n > 0)) THEN {Move({}, <<"literal">>)} ELSE {}

LastGroups(left, n, first, c) ==
  AfterDigit(left, n, first, c) \cup AfterColon(left, n, c) \cup AfterIPv4(left, n, c)
    \cup AfterEnd(left, n, c)

\* IPvFuture: 'v' HEX+ '.' and a name
FutureVersion(n, c) ==
     (IF c \in HEX THEN {Move({}, <<"version", 1>>)} ELSE {})
\cup (IF c = "." /\ n > 0 THEN {Move({}, <<"enter", "future">>)} ELSE {})

FutureName(rest, first, c) ==
  Repeat("future", rest, IUNRESERVED \cup SUB_DELIMS \cup {":"}, FALSE, c)
    \cup (IF c = "]" /\ rest = <<>> /\ ~first THEN {Move({}, <<"literal">>)} ELSE {})

\* IP_literal, behind its bracket
Literal(c) ==
  FirstGroups(0, 0, c) \cup (IF c = "v" THEN {Move({}, <<"version", 0>>)} ELSE {})

\* HOST >mark_host
EnterHost(c) ==
  Marked("host", RegName(<<>>, c) \cup IPv4address("ipv4", 1, <<>>, c)
                   \cup (IF c = "[" THEN {Move({}, <<"enter", "literal">>)} ELSE {}))

\* USERINFO and its @
Userinfo(rest, c) ==
  Repeat("userinfo", rest, IUNRESERVED \cup SUB_DELIMS \cup {":"}, TRUE, c)
    \cup (IF rest = <<>> /\ c = "@" THEN {Move({}, <<"enter", "host">>)} ELSE {})

\* Behind "://" a user or a host begins.
EnterAuthority(c) == Marked("userinfo", Userinfo(<<>>, c)) \cup EnterHost(c)

\* SCHEME and the "://" behind it
Scheme(c) ==
     (IF c \in ALPHA \cup DIGIT \cup {"+", "-", "."} THEN {Move({}, <<"scheme">>)} ELSE {})
\cup (IF c = ":" THEN {Move({}, <<"slashes", 2>>)} ELSE {})

Slashes(n, c) ==
  IF c # "/" THEN {}
  ELSE {Move({}, IF n = 1 THEN <<"enter", "authority">> ELSE <<"slashes", 1>>)}

\* main: a scheme with an authority, or the path alone
StartUrl(c) ==
  EnterPath(c) \cup (IF c \in ALPHA THEN {Move({"scheme"}, <<"scheme">>)} ELSE {})

\* The moves that are possible at a position.
Moves(pos, c) ==
  CASE pos = <<"start">>                -> StartUrl(c)
    [] pos = <<"scheme">>               -> Scheme(c)
    [] pos[1] = "slashes"               -> Slashes(pos[2], c)
    [] pos = <<"enter", "authority">>   -> EnterAuthority(c)
    [] pos[1] = "userinfo"              -> Userinfo(pos[2], c)
    [] pos = <<"enter", "host">>        -> EnterHost(c)
    [] pos[1] = "regname"               -> RegName(pos[2], c)
    [] pos[1] = "ipv4"                  -> HostIPv4(pos[2], pos[3], c)
    [] pos = <<"enter", "literal">>     -> Literal(c)
    [] pos[1] = "before"                -> FirstGroups(pos[2], pos[3], c)
    [] pos[1] = "elide"                 -> Elide(pos[2], c)
    [] pos[1] = "after"                 -> LastGroups(pos[2], pos[3], pos[4], c)
    [] pos[1] = "ls32"                  -> LiteralIPv4(pos[2], pos[3], c)
    [] pos[1] = "version"               -> FutureVersion(pos[2], c)
    [] pos = <<"enter", "future">>      -> FutureName(<<>>, TRUE, c)
    [] pos[1] = "future"                -> FutureName(pos[2], FALSE, c)
    [] pos = <<"literal">>              -> AfterHost(c)
    [] pos = <<"enter", "port">>        -> EnterPort(c)
    [] pos = <<"port">>                 -> Port(c)
    [] pos[1] = "path"                  -> Path(pos[2], c)
    [] pos = <<"enter", "query">>       -> Marked("query", Query(<<>>, c))
    [] pos[1] = "query"                 -> Query(pos[2], c)
    [] pos = <<"enter", "fragment">>    -> Marked("fragment", Fragment(<<>>, c))
    [] pos[1] = "fragment"              -> Fragment(pos[2], c)
    [] OTHER                            -> {}
-----------------------------------------------------------------------------
(* CreateUrl. *)

Pointers == {"scheme", "userinfo", "host", "port", "path", "query", "fragment"}

\* The automaton before the first character; a pointer that is not set is 0.
Begin == [live |-> {<<"start">>}, at |-> [f \in Pointers |-> 0], host_type |-> 0]

\* One character. Without a move the automaton is in its error state for good.
Consume(st, i, c) ==
  LET moves == UNION {Moves(pos, c) : pos \in st.live}
      marks == UNION {mv[1] : mv \in moves}
  IN [live |-> {mv[2] : mv \in moves},
      at |-> [f \in Pointers |-> IF f \in marks THEN i ELSE st.at[f]],
      host_type |-> IF "ipv4" \in marks THEN 4 ELSE IF "ipv6" \in marks THEN 6 ELSE st.host_type]

Run(s) == FoldLeft(LAMBDA st, i : Consume(st, i, s[i]), Begin, [i \in 1..Len(s) |-> i])

\* std::string(first, last) when last - first > 0, else nothing
Cut(s, first, last) == SubSeq(s, first, last - 1)

\* std::stoi: the value of the digits that a string begins with
LeadingDigits(s) == SelectInSeq(Append(s, NUL), LAMBDA c : c \notin DIGIT) - 1
DigitValue(c) == CHOOSE v \in 0..9 : c = ToString(v)
stoi(s) == FoldLeft(LAMBDA v, c : 10 * v + DigitValue(c), 0, SubSeq(s, 1, LeadingDigits(s)))

\* inet_pton(AF_INET, ...): whether the text is an IPv4 address
IsIPv4(s) ==
  \E pos \in FoldLeft(LAMBDA live, c : UNION {{mv[2] : mv \in IPv4address("ipv4", p[2], p[3], c)} : p \in live},
                      {<<"ipv4", 1, <<>>>>}, s) : pos[2] = 4 /\ pos[3] # <<>>

\* idn2_to_ascii_8z(): every label with a character beyond ASCII becomes a text of ASCII
\* characters which stands for it alone (here: a prefix, the ASCII characters and for each other
\* character its kind and place). The characters of two bytes are the model's representatives of
\* those that libidn2 refuses, and with them the name.
Refused == {"C2"}
Code == [E0 |-> "a", F0 |-> "g"]
Encoded(label) ==
  LET leads == SelectSeq([i \in DOMAIN label |-> i], LAMBDA i : label[i] \in DOMAIN Code)
      ascii == SelectSeq(label, LAMBDA c : c \notin DOMAIN Code \cup UTF8Rest)
  IN IF leads = <<>> THEN label
     ELSE <<"v", "-", "-">> \o ascii \o FlattenSeq([j \in DOMAIN leads |-> <<Code[label[leads[j]]], ToString(leads[j])>>])
idn2_to_ascii(domain) ==
  IF \E i \in DOMAIN domain : domain[i] \in Refused THEN {}
  ELSE LET dots == <<0>> \o SelectSeq([i \in DOMAIN domain |-> i], LAMBDA i : domain[i] = ".") \o <<Len(domain) + 1>>
           label(j) == SubSeq(domain, dots[j] + 1, dots[j + 1] - 1)
       IN {Tail(FlattenSeq([j \in 1..(Len(dots) - 1) |-> <<".">> \o Encoded(label(j))]))}

_ContainsNonASCII(str) == \E i \in DOMAIN str : str[i] \in DOMAIN UTF8Lead \cup UTF8Rest

\* A name that cannot be converted is left as it is.
DomainToASCII(domain) ==
  LET ascii == idn2_to_ascii(domain)
  IN IF ~_ContainsNonASCII(domain) \/ ascii = {} THEN domain ELSE CHOOSE name \in ascii : TRUE

\* The host, what kind of host it is taken for, the address in binary form (here: the text,
\* if it is one of the kind) and the name as it was given, which only a name has.
HostFields(s, at, host_type) ==
  LET end  == IF at["port"] # 0 THEN at["port"] - 1 ELSE IF at["path"] # 0 THEN at["path"] ELSE Len(s) + 1
      text == IF at["host"] = 0 THEN <<>> ELSE Cut(s, at["host"], end)
      hasbrackets == text # <<>> /\ text[1] = "[" /\ Last(text) = "]"
      bare == IF hasbrackets THEN SubSeq(text, 2, Len(text) - 1) ELSE text
      kind == IF at["host"] = 0 THEN 0 ELSE host_type
  IN [host |-> CASE kind = 6 -> text [] kind = 4 -> bare [] OTHER -> DomainToASCII(bare), type |-> kind,
      unicodeHost |-> IF kind = 0 THEN bare ELSE <<>>,
      binary |-> IF (kind = 4 /\ IsIPv4(bare)) \/ (kind = 6 /\ hasbrackets) THEN bare ELSE <<>>]

Failed == [failed |-> TRUE]

\* The fields between the pointers. A text that ends before the grammar does is taken as
\* far as it goes; a user ends where the host begins, a host where the port does.
CreateUrl(s) ==
  LET end == Run(s)
      at  == end.at
      pe  == Len(s) + 1
      or(p, q) == IF at[p] # 0 THEN at[p] ELSE q
      or1(p, q) == IF at[p] # 0 THEN at[p] - 1 ELSE q
      portText == IF at["port"] = 0 THEN <<>> ELSE Cut(s, at["port"], or("path", pe))
  IN IF end.live = {} THEN Failed ELSE
     [failed |-> FALSE,
      scheme |-> IF at["scheme"] = 0 THEN <<>>
                 ELSE SubSeq(s, at["scheme"], SelectInSeq(Append(s, ":"), LAMBDA c : c = ":") - 1),
      userinfo |-> IF at["userinfo"] = 0 THEN <<>> ELSE Cut(s, at["userinfo"], or1("host", pe)),
      port |-> stoi(portText) % (2^16),
      path |-> IF at["path"] = 0 THEN <<>> ELSE Cut(s, at["path"], or1("query", or1("fragment", pe))),
      query |-> IF at["query"] = 0 THEN <<>> ELSE Cut(s, at["query"], or1("fragment", pe)),
      fragment |-> IF at["fragment"] = 0 THEN <<>> ELSE Cut(s, at["fragment"], pe)]
     @@ HostFields(s, at, end.host_type)
-----------------------------------------------------------------------------
(* The Url that a text was parsed into, as text again. *)

\* The schemes http and https, in the characters of the model.
http  == <<"g">>
https == <<"g", "v">>

\* A port of 0 stands for the default.
_isDefaultPort(u) ==
  \/ u.port = 0
  \/ u.scheme = http /\ u.port = 80
  \/ u.scheme = https /\ u.port = 443

getPort(u) == IF u.port # 0 THEN u.port ELSE IF u.scheme = https THEN 443 ELSE 80
getPath(u) == IF u.path = <<>> THEN <<"/">> ELSE u.path

PortText(n) ==
  LET d == [i \in 1..5 |-> (n \div 10^(5 - i)) % 10]
      first == SelectInSeq(Append(d, 1), LAMBDA v : v # 0)
  IN [i \in 1..(6 - first) |-> ToString(d[first + i - 1])]

Optional(before, text, behind) == IF text = <<>> THEN <<>> ELSE before \o text \o behind

\* dump(), toString()
dump(u) ==
  u.scheme \o <<":", "/", "/">> \o Optional(<<>>, u.userinfo, <<"@">>) \o u.host
    \o (IF _isDefaultPort(u) THEN <<>> ELSE <<":">> \o PortText(u.port))
    \o getPath(u) \o Optional(<<"?">>, u.query, <<>>) \o Optional(<<"#">>, u.fragment, <<>>)

getUnicodeHost(u) == IF u.unicodeHost = <<>> THEN u.host ELSE u.unicodeHost

getAuthority(u) ==
  Optional(<<>>, u.userinfo, <<"@">>) \o u.host
    \o (IF u.port > 0 THEN <<":">> \o PortText(u.port) ELSE <<>>)

getAsciiURL(u) ==
  Optional(<<>>, u.scheme, <<":", "/", "/">>) \o getAuthority(u) \o u.path
    \o Optional(<<"?">>, u.query, <<>>) \o Optional(<<"#">>, u.fragment, <<>>)

-----------------------------------------------------------------------------
(* URLUtils of urlutils.h, on bytes. *)

Percent == 37
Plus    == 43
Space   == 32
Alnum   == (48..57) \cup (65..90) \cup (97..122)
Xdigit  == (48..57) \cup (65..70) \cup (97..102)
HexDigit(v) == IF v < 10 THEN 48 + v ELSE 55 + v     \* std::uppercase
HexValue(b) == IF b <= 57 THEN b - 48 ELSE IF b <= 70 THEN b - 55 ELSE b - 87

\* Escapes every byte that is not kept.
Escape(str, kept) ==
  FlattenSeq([i \in DOMAIN str |->
    IF str[i] \in kept THEN <<str[i]>>
    ELSE <<Percent, HexDigit(str[i] \div 16), HexDigit(str[i] % 16)>>])

\* -, _, . and ~
UrlEncode(str) == Escape(str, Alnum \cup {45, 95, 46, 126})

\* also ! $ & ' ( ) * + , ; = : @ and /
EncodePath(path) ==
  Escape(path, Alnum \cup {45, 95, 46, 126, 33, 36, 38, 39, 40, 41, 42, 43, 44, 59, 61, 58, 64, 47})

UrlDecode(str) ==
  LET from[i \in 1..(Len(str) + 1)] ==
        IF i > Len(str) THEN <<>>
        ELSE IF str[i] = Percent /\ i + 2 <= Len(str) /\ str[i + 1] \in Xdigit /\ str[i + 2] \in Xdigit
             THEN <<16 * HexValue(str[i + 1]) + HexValue(str[i + 2])>> \o from[i + 3]
             ELSE <<IF str[i] = Plus THEN Space ELSE str[i]>> \o from[i + 1]
  IN from[1]
=============================================================================
