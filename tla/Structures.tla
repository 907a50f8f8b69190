----------------------------- MODULE Structures -----------------------------
(***************************************************************************)
(* The sequential data structures and algorithms of the server, each       *)
(* driven through every sequence of operations within the bounds and       *)
(* compared with what it stands for: the skip list with a set of keys, the *)
(* parser with the values that were encoded, the command table with the    *)
(* set of its hashes, the servlets with the calls that added and deleted   *)
(* them, the snapshots with the database they were taken from, SCAN with   *)
(* the keys of the database, the settings and loggers with the             *)
(* configuration file loaded last, the pool of nodes with those in use.    *)
(*                                                                         *)
(* A behaviour is about one of the parts; impl is the state of the         *)
(* implementation and ref what it is compared with.                        *)
(***************************************************************************)
EXTENDS SkipList, CommandTable, Resp, Snapshot, Scan, Url, Settings, Logging, ByteArray, HttpParser, Servlets,
        MemoryPool

CONSTANTS Hashes,      \* hashes of command names
          Streams,     \* sequences of values sent over a connection
          Chars,       \* characters of values
          Scores,      \* scores of sorted sets
          Counts,      \* COUNT arguments of SCAN
          Users,       \* user parts, hosts, ports, paths, queries and fragments of URLs;
          Hosts,       \* an absent part is the empty set, another the set of its text
          Ports,
          Paths,
          Queries,
          Fragments,
          Bytes,       \* bytes of texts to be escaped
          Values,      \* sizes and times that are printed
          Items,       \* parts of patterns
          LogFiles,    \* "logs" of configuration files
          Rotates,     \* "logrotate" of such files, or none
          Typed,       \* values of the kinds that a ByteArray stores
          Methods,     \* methods and reasons that are known
          Messages,    \* sequences of HTTP messages sent over a connection
          MaxBytes,    \* bound on the bytes in a ByteArray
          MaxCalls,    \* bound on the calls that add and delete servlets
          MaxNodes     \* bound on the addresses of nodes

VARIABLES part, impl, ref
vars == <<part, impl, ref>>

\* The entries of a table, in every order in which they may be inserted.
Tables == UNION {SetToSeqs(S) : S \in SUBSET Hashes}

\* Small databases: at most one value per map.
OneKey(values) == {<<>>} \cup UNION {[{k} -> values] : k \in Keys}
Databases ==
  {[store |-> s, hash |-> h, lists |-> l, sets |-> m,
    zset |-> [k \in DOMAIN z |-> {<<z[k][x], x>> : x \in DOMAIN z[k]}], zset_score |-> z] :
     s \in OneKey({StoreData(v, e) : v \in {<<c>> : c \in Chars} \cup {<<a, b>> : a, b \in Chars},
                                     e \in {{}, {-1}, {1}}}),
     h \in OneKey(UNION {[C -> Chars] : C \in SUBSET Chars}), l \in OneKey({<<>>} \cup {<<a, b>> : a, b \in Chars}),
     m \in OneKey(SUBSET Chars), z \in OneKey(UNION {[C -> Scores] : C \in SUBSET Chars})}

\* The text of a URL with the given parts.
Given(option) == IF option = {} THEN <<>> ELSE CHOOSE text \in option : TRUE
UrlText(f) ==
  LET with(before, option, behind) == IF option = {} THEN <<>> ELSE before \o Given(option) \o behind
  IN http \o <<":", "/", "/">> \o with(<<>>, f.user, <<"@">>) \o f.host \o with(<<":">>, f.port, <<>>)
       \o f.path \o with(<<"?">>, f.query, <<>>) \o with(<<"#">>, f.fragment, <<>>)

Init ==
  \/ part = "skiplist" /\ impl = EmptyList /\ ref = {}
  \/ part = "table" /\ ref \in Tables /\ impl = quicksort(ref)
  \/ part = "resp" /\ ref \in Streams /\ impl = [p |-> NewParser, fed |-> 0]
  \/ part = "snapshot" /\ ref \in Databases
     /\ impl = [file |-> saveToFile(0, ref), stream |-> generateRDB(ref)]
  \/ /\ part = "scan" /\ ref \in [0..(SHARD_COUNT - 1) -> [0..LastType -> {<<>>, <<1>>, <<1, 2>>}]]
     /\ \A i \in 0..(SHARD_COUNT - 1) : ref[i][1] = <<>> /\ ref[i][2] = <<>>
     /\ impl = [saved |-> {}, arg |-> {}, got |-> <<>>, done |-> FALSE]
  \/ /\ part = "url"
     /\ ref \in [user : Users, host : Hosts, port : Ports, path : Paths, query : Queries, fragment : Fragments]
     /\ impl = CreateUrl(UrlText(ref))
  \/ part = "escape" /\ ref \in SeqOf(Bytes, 3) /\ impl = UrlEncode(ref)
  \/ part = "format" /\ ref \in Values /\ impl = [size |-> FormatSize(ref), time |-> FormatTime(ref)]
  \/ part = "pattern" /\ ref \in SeqOf(Items, 3) /\ impl = _init(Pattern(ref))
  \/ /\ part = "settings"
     /\ \E g \in DOMAIN Structs : impl = [struct |-> Structs[g], c |-> Configured(Structs[g])]
     /\ ref = [file |-> Defaults(impl.struct), applied |-> FALSE, cmd |-> <<>>]
  \/ /\ part = "loggers" /\ impl = [val |-> {}, loggers |-> <<>>, rotate |-> Configured(LogRotateDefine)]
     /\ ref = [file |-> {}, spoilt |-> {}, rotate |-> Defaults(LogRotateDefine)]
  \/ part = "bytes" /\ impl = NewByteArray /\ ref = [bytes |-> <<>>, pos |-> 0, lost |-> FALSE]
  \/ /\ part = "codec" /\ \E little \in BOOLEAN, values \in SeqOf(Typed, 2) : ref = [little |-> little, values |-> values]
     /\ impl = FoldLeft(LAMBDA b, v : writeValue(b, v.kind, v.val), [NewByteArray EXCEPT !.little = ref.little], ref.values)
  \/ /\ part = "http" /\ \E msgs \in Messages : ref = [msgs |-> msgs, fed |-> 0, cut |-> FALSE, merged |-> FALSE]
     /\ impl = NewReceiver
  \/ part = "servlets" /\ impl = NewDispatch /\ ref = <<>>
  \/ part = "nodes" /\ impl = NewPool /\ ref = [held |-> {}, lost |-> {}, known |-> PoolCapacity]

InsertKey ==
  /\ part = "skiplist"
  /\ \E key \in 1..MaxKey, newlevel \in Levels :
       /\ impl' = insert(impl, key, newlevel)
       /\ ref' = ref \cup {key}
  /\ UNCHANGED part

RemoveKey ==
  /\ part = "skiplist"
  /\ \E key \in 1..MaxKey : impl' = remove(impl, key) /\ ref' = ref \ {key}
  /\ UNCHANGED part

\* A chunk of the stream arrives and is parsed as far as possible.
Wire == FoldLeft(LAMBDA out, v : out \o encode(v), <<>>, ref)
Receive ==
  /\ part = "resp" /\ ~impl.p.refused
  /\ \E n \in (impl.fed + 1)..Len(Wire) :
       impl' = [p |-> drain(feed(impl.p, SubSeq(Wire, impl.fed + 1, n))), fed |-> n]
  /\ UNCHANGED <<part, ref>>

\* A client that scans passes the cursor it was given, until it is given "0".
ScanStep ==
  /\ part = "scan" /\ ~impl.done
  /\ \E count \in Counts :
       LET r == handleSCAN(ref, impl.saved, impl.arg, {1, 2}, count)
           next == IF r.completed THEN {} ELSE {r.cursor}
       IN impl' = [saved |-> next, arg |-> next, got |-> impl.got \o r.keys, done |-> r.completed]
  /\ UNCHANGED <<part, ref>>

\* A configuration file is loaded: all its fields but at most two are alike.
Files(struct) ==
  {[n \in Names(struct) |-> IF n \in DOMAIN odd THEN odd[n] ELSE usual] :
     usual \in {"absent", "v1"},
     odd \in UNION {[S -> {"absent", "malformed", "v1"}] : S \in {S \in SUBSET Names(struct) : Cardinality(S) <= 2}}}
LoadFile ==
  /\ part = "settings"
  /\ \E file \in Files(impl.struct) :
       LET new == LexicalCast(impl.struct, file)
           define == CHOOSE v \in new : TRUE
       IN /\ impl' = [impl EXCEPT !.c = fromString(@, impl.struct, file)]
          /\ ref' = IF new = {} THEN ref
                    ELSE IF Same(impl.struct, ref.file, define) THEN [ref EXCEPT !.file = define]
                    ELSE [file |-> define, applied |-> TRUE, cmd |-> <<>>]
  /\ UNCHANGED part

\* CONFIG SET, for at most one parameter at a time.
SetParam ==
  /\ part = "settings"
  /\ \E n \in Names(impl.struct) \cap Settable, value \in {"malformed", "v2"} :
       /\ DOMAIN ref.cmd \subseteq {n}
       /\ impl' = [impl EXCEPT !.c = ConfigSet(@, n, value)]
       /\ ref' = IF value = "malformed" /\ n \notin Unchecked THEN ref
                 ELSE [ref EXCEPT !.cmd = [x \in {n} |-> value]]
  /\ UNCHANGED part

\* "logrotate" as the file has it, unless "logs" come last and construct a file appender.
ReloadLogs ==
  /\ part = "loggers"
  /\ \E file \in [logs : LogFiles, rotate : Rotates, behind : BOOLEAN] :
       LET unread == \E i \in DOMAIN file.logs : ~Named(file.logs[i])
           defs == IF unread THEN ref.file ELSE LogDefines(file.logs)
           made == Constructed(ref.file, defs)
       IN /\ impl' = LoadFromYAML(impl, file)
          /\ ref' = [file |-> defs,
                     spoilt |-> ref.spoilt \cup {d.name : d \in {d \in defs : d.formatter \in BadFormatters}},
                     rotate |-> IF made # <<>> /\ (file.rotate = {} \/ ~file.behind)
                                THEN [Defaults(LogRotateDefine) EXCEPT !.rotate_filename = Last(made).file]
                                ELSE IF file.rotate = {} THEN ref.rotate ELSE Given(file.rotate)]
  /\ UNCHANGED part

\* The operations of a ByteArray, until the position is one page too far.
Data(n, v) == [i \in 1..n |-> 1 + ((i + v) % 2)]
Overwritten(n, v) ==
  [i \in 1..Max({Len(ref.bytes), ref.pos + n}) |->
     IF i \in (ref.pos + 1)..(ref.pos + n) THEN Data(n, v)[i - ref.pos] ELSE ref.bytes[i]]

WriteBytes ==
  /\ part = "bytes" /\ ~ref.lost
  /\ \E n \in 1..(MaxBytes - ref.pos), v \in {0, 1} :
       impl' = write(impl, Data(n, v)) /\ ref' = [ref EXCEPT !.bytes = Overwritten(n, v), !.pos = @ + n]
  /\ UNCHANGED part

ReadBytes ==
  /\ part = "bytes" /\ ~ref.lost
  /\ \E n \in 1..MaxBytes :
       /\ impl' = read(impl, n).b
       /\ ref' = [ref EXCEPT !.pos = IF n > Len(ref.bytes) - @ THEN @ ELSE @ + n]
  /\ UNCHANGED part

MovePosition ==
  /\ part = "bytes" /\ ~ref.lost
  /\ \E v \in 0..Len(ref.bytes) :
       /\ impl' = setPosition(impl, v)
       /\ ref' = [ref EXCEPT !.pos = v, !.lost = OnePageTooFar(impl, v)]
  /\ UNCHANGED part

ClearBytes ==
  /\ part = "bytes"
  /\ impl' = clearBytes(impl) /\ ref' = [bytes |-> <<>>, pos |-> 0, lost |-> FALSE]
  /\ UNCHANGED part

LoadBytes ==
  /\ part = "bytes" /\ ~ref.lost
  /\ \E n \in 0..(MaxBytes - ref.pos) :
       impl' = readFromFile(impl, Data(n, 0)) /\ ref' = [ref EXCEPT !.bytes = Overwritten(n, 0), !.pos = @ + n]
  /\ UNCHANGED part

\* Bytes from a TLS socket, behind the data there is.
SslReceive ==
  /\ part = "bytes" /\ ~ref.lost /\ ref.pos = Len(ref.bytes)
  /\ \E len \in 1..(MaxBytes - ref.pos), v \in {0, 1} : \E n \in 1..len :
       /\ impl' = SslRead(impl, len, Data(n, v))
       /\ ref' = [bytes |-> ref.bytes \o Data(n, v), pos |-> ref.pos + n,
                  lost |-> OnePageTooFar(Filled(impl, len, Data(n, v)), ref.pos + n)]
  /\ UNCHANGED part

SslSend ==
  /\ part = "bytes" /\ ~ref.lost
  /\ \E len \in 1..MaxBytes : \E n \in 1..Len(getReadBuffers(impl, len)) :
       /\ impl' = SslWrite(impl, len, n).b
       /\ ref' = [ref EXCEPT !.pos = @ + n, !.lost = OnePageTooFar(impl, ref.pos + n)]
  /\ UNCHANGED part

\* A chunk of the HTTP messages arrives and is given to recvRequest or recvResponse.
HttpUnits == Units(FlattenSeq([i \in DOMAIN ref.msgs |-> Spans(Sent(ref.msgs[i]))]))
Ends(units, n) == Cardinality({i \in 1..n : units[i].on = "messageEnd"})
HttpReceive ==
  /\ part = "http" /\ ~impl.failed
  /\ LET units == HttpUnits
     IN \E n \in (ref.fed + 1)..Len(units) :
          LET calls == Calls(SubSeq(units, ref.fed + 1, n))
              nameCut == n < Len(units) /\ units[n].on = "field" /\ units[n + 1].span = units[n].span
          IN /\ impl' = IF ref.msgs[1].kind = "request" THEN recvRequest(impl, calls, Methods)
                        ELSE recvResponse(impl, calls, Methods)
             /\ ref' = [ref EXCEPT !.fed = n, !.cut = @ \/ nameCut,
                          !.merged = @ \/ Ends(units, n - 1) > Ends(units, ref.fed)]
  /\ UNCHANGED part

\* Servlets are added and deleted; the servlet of the n-th call is n, ref are the calls.
Called(op, url) ==
  part = "servlets" /\ Len(ref) < MaxCalls /\ ref' = Append(ref, [op |-> op, url |-> url]) /\ UNCHANGED part
AddServlet == \E url \in Urls : Called("add", url) /\ impl' = addServlet(impl, url, Len(ref'))
AddBlurServlet == \E url \in Urls : Called("addBlur", url) /\ impl' = addBlurServlet(impl, url, Len(ref'))
DelServlet == \E url \in Urls : Called("del", url) /\ impl' = delServlet(impl, url)
DelBlurServlet == \E url \in Urls : Called("delBlur", url) /\ impl' = delBlurServlet(impl, url)

\* Nodes come from the pool of a skip list, or from new, and go back into it; ref are
\* those in use, those the pool did not take, and the highest address so far.
AllocateNode ==
  /\ part = "nodes" /\ ref.known < MaxNodes
  /\ LET got == allocateNode(impl, ref.known + 1)
     IN impl' = got.p /\ ref' = [ref EXCEPT !.held = @ \cup {got.item}, !.known = Max({@, got.item})]
  /\ UNCHANGED part
DeallocateNode ==
  /\ part = "nodes"
  /\ \E node \in ref.held :
       /\ impl' = release(impl, node)
       /\ ref' = [ref EXCEPT !.held = @ \ {node}, !.lost = @ \cup ({node} \ ToSet(Waiting(impl')))]
  /\ UNCHANGED part

Next == InsertKey \/ RemoveKey \/ Receive \/ ScanStep \/ LoadFile \/ SetParam \/ ReloadLogs
          \/ WriteBytes \/ ReadBytes \/ MovePosition \/ ClearBytes \/ LoadBytes \/ SslReceive \/ SslSend
          \/ HttpReceive \/ AddServlet \/ AddBlurServlet \/ DelServlet \/ DelBlurServlet
          \/ AllocateNode \/ DeallocateNode

Spec == Init /\ [][Next]_vars

-----------------------------------------------------------------------------
(* Properties. *)

Distance(s, i, j) == Cardinality({k \in s : i < k /\ k <= j})

\* Whatever levels the random generator draws, the skip list holds exactly the keys
\* inserted and not removed: every level is a sorted chain of some of them, every
\* span is the number of nodes it jumps over, and find, getRank and getByIndex agree with
\* the sorted sequence (ZRANK and ZRANGE depend on it).
KeysAreInOrder ==
  part = "skiplist" =>
    LET sorted == SetToSortSeq(ref, <)
    IN /\ Chain(impl, 1, Head0) = sorted /\ impl.size = Len(sorted)
       /\ \A i \in 1..impl.level :
            LET c == <<Head0>> \o Chain(impl, i, Head0)
            IN /\ IsInjective(c) /\ ToSet(c) \subseteq ref \cup {Head0}
               /\ \A n \in DOMAIN c : impl.span[i][c[n]] =
                    IF n < Len(c) THEN Distance(ref, c[n], c[n + 1]) ELSE Distance(ref, c[n], MaxKey)
       /\ \A k \in 1..MaxKey : find(impl, k) <=> k \in ref
       /\ \A k \in ref : getByIndex(impl, getRank(impl, k)) = k
       /\ getRank(impl, MaxKey + 1) = -1

\* A node is in use or waits in the pool once, never both, also after the pool had run
\* out and nodes from new went back into it; only such a node can be lost, when the
\* pool is full, and there is one such loss per node from new at most.
NodesAreOwnedOnce ==
  part = "nodes" =>
    LET waiting == Waiting(impl)
    IN /\ IsInjective(waiting) /\ ToSet(waiting) \cap ref.held = {}
       /\ ToSet(waiting) \cup ref.held = (1..ref.known) \ ref.lost
       /\ Cardinality(ref.lost) <= ref.known - PoolCapacity

\* Skip lists hold what KeysAreInOrder says and give back what they no longer hold.
SkipListIsExact == KeysAreInOrder /\ NodesAreOwnedOnce

\* The sort of the compiled table and the bisection go together: every command is
\* found where it is and no other is, for every order of insertion that compiles.
EveryCommandIsFound ==
  (part = "table" /\ (impl # Broken \/ ref = <<>>)) =>
    /\ ToSet(impl) = ToSet(ref) /\ Len(impl) = Len(ref)
    /\ \A h \in Hashes \cup {0} :
         LET i == find_lowerbound(impl, h)
         IN IF h \in ToSet(ref) THEN i >= 0 /\ At(impl, i) = h ELSE i = -1

\* A path is served by what was added last for exactly that path and not deleted, or
\* else by the oldest of the patterns that match it; a pattern stays until a pattern
\* that it matches is added or a path that it matches is deleted, which may be
\* another than its own: a general pattern goes when a special one is added.
ServletsAreFound ==
  part = "servlets" =>
    LET later(i, ops, urls) == \E j \in (i + 1)..Len(ref) : ref[j].op \in ops /\ ref[j].url \in urls
        own(url) == {i \in DOMAIN ref : ref[i].op = "add" /\ ref[i].url = url /\ ~later(i, {"add", "del"}, {url})}
        safe == {i \in DOMAIN ref : ref[i].op = "addBlur" /\ ~later(i, {"addBlur", "delBlur"}, Matches[ref[i].url])}
    IN \A url \in Urls :
         LET sv == getMatchedServlet(impl, url)
             blur == {i \in safe : url \in Matches[ref[i].url]}
         IN IF own(url) # {} THEN own(url) = {sv} /\ getServlet(impl, url) = sv
            ELSE /\ getServlet(impl, url) = NotFound /\ getBlurServlet(impl, url) = sv
                 /\ sv # NotFound => ref[sv].op = "addBlur" /\ url \in Matches[ref[sv].url]
                 /\ blur # {} => sv \in 1..Min(blur)

\* Commands and paths are found where EveryCommandIsFound and ServletsAreFound say.
LookupsAreExact == EveryCommandIsFound /\ ServletsAreFound

\* However the stream is cut into chunks, the parser has delivered exactly the values
\* whose last byte has arrived, compaction of its buffer or not; only a bulk string
\* with a line end in it keeps that value and all behind it back, and a chunk that
\* does not fit is refused.
DeliversEveryValue ==
  (part = "resp" /\ ~impl.p.refused) =>
    LET wedge(v) == Range(v.str) \cap {"CR"} # {} \/ \E e \in Range(v.arr) : "CR" \in Range(e.str)
        whole(n) == /\ Len(FoldLeft(LAMBDA out, v : out \o encode(v), <<>>, SubSeq(ref, 1, n))) <= impl.fed
                    /\ \A i \in 1..n : ~wedge(ref[i])
    IN impl.p.got = SubSeq(ref, 1, Max({n \in 0..Len(ref) : whole(n)}))

\* Loading the snapshot gives the database back, up to empty collections, the time that
\* values still had to live and the digits of scores that are not printed; a file cut
\* short by a crash gives a part of it. In the file a map with a bar in one of its texts
\* is excepted, and with a string that has one all that is behind it.
Part(d, of) ==
  /\ \A k \in DOMAIN d.store : k \in DOMAIN of.store /\ d.store[k] = of.store[k]
  /\ \A k \in DOMAIN d.hash : k \in DOMAIN of.hash /\ HGETALL(d, k) \subseteq HGETALL(of, k)
  /\ \A k \in DOMAIN d.lists : k \in DOMAIN of.lists /\ IsPrefix(d.lists[k], of.lists[k])
  /\ \A k \in DOMAIN d.sets : k \in DOMAIN of.sets /\ d.sets[k] \subseteq of.sets[k]
  /\ \A k \in DOMAIN d.zset : k \in DOMAIN of.zset /\ d.zset[k] \subseteq of.zset[k]

\* A scan that starts without a saved cursor and ends returns every key of every
\* map of every shard once, for all sizes of its steps, when nothing changes meanwhile.
ScanReturnsEveryKey ==
  part = "scan" =>
    LET all == FlattenSeq([i \in 1..SHARD_COUNT |-> FlattenSeq([t \in 1..(LastType + 1) |-> ref[i - 1][t - 1]])])
    IN IF impl.done THEN impl.got = all ELSE IsPrefix(impl.got, all)

\* CreateUrl finds the parts a URL was put together from, the host as it was given in
\* getUnicodeHost() and in ASCII in getHost() (unless libidn2 refuses the name), and the URL printed
\* again is parsed to the same parts, its host name in ASCII. It is not so for the host and port of a URL without a port
\* whose user part has a digit after a colon (the pointer set for what might have been a port
\* stays), nor for the part before an empty host, port, query or fragment at the very end (no
\* character follows on which the pointer would be set), nor for the kind of a host when the user part, the host or the end of an
\* IPv6 address begins like an IPv4 address.
DigitAfterColon(f) == \E i \in 2..Len(Given(f.user)) : Given(f.user)[i - 1] = ":" /\ Given(f.user)[i] \in DIGIT
FalsePort(f) == f.port = {} /\ DigitAfterColon(f)
EmptyEnd(f) == Last(UrlText(f)) \in {"@", ":", "?", "#"}
IPv4Prefix(s) == \E i \in 1..Len(s) : IsIPv4(SubSeq(s, 1, i))
HostKind(s) == IF s # <<>> /\ s[1] = "[" /\ s[2] # "v" THEN 6 ELSE IF IsIPv4(s) THEN 4 ELSE 0
FalseIPv4(f) ==
  \/ IPv4Prefix(Given(f.user))
  \/ HostKind(f.host) = 0 /\ IPv4Prefix(f.host)
  \/ HostKind(f.host) = 6 /\ \E i \in 2..(Len(f.host) - 1) : IsIPv4(SubSeq(f.host, i, Len(f.host) - 1))
Bare(s) == IF s # <<>> /\ s[1] = "[" THEN SubSeq(s, 2, Len(s) - 1) ELSE s
UrlPartsAreFound ==
  (part = "url" /\ ~EmptyEnd(ref)) =>
    /\ ~impl.failed /\ impl.scheme = http /\ impl.userinfo = Given(ref.user)
    /\ impl.path = ref.path /\ impl.query = Given(ref.query) /\ impl.fragment = Given(ref.fragment)
    /\ FalsePort(ref) \/ (Bare(getUnicodeHost(impl)) = Bare(ref.host) /\ impl.port = stoi(Given(ref.port)) % (2^16))
    /\ FalsePort(ref) \/ impl.type # 0 \/ idn2_to_ascii(ref.host) = {} \/ ~_ContainsNonASCII(impl.host)
    /\ FalsePort(ref) \/ FalseIPv4(ref) \/
         /\ impl.type = HostKind(ref.host)
         /\ impl.binary = IF impl.type = 0 THEN <<>> ELSE Bare(ref.host)
         /\ DigitAfterColon(ref) \/ CreateUrl(dump(impl)) = [impl EXCEPT !.path = getPath(impl),
                                                                        !.port = IF _isDefaultPort(impl) THEN 0 ELSE @,
                                                                        !.unicodeHost = IF impl.type = 0 THEN impl.host ELSE @]

\* Whatever files were loaded and parameters set before, every setting is what the
\* last file that could be read stands for, or what CONFIG SET made of it since the
\* file changed. Changes of fields that operator== leaves out are seen only together
\* with another change, and variables with another initial value than their struct keep it
\* until a file is loaded that differs from the defaults. CONFIG GET reports what CONFIG SET
\* can set. (What file appenders do to "logrotate" is in LoggersFollowFile.)
SettingsFollowFile ==
  part = "settings" =>
    /\ \A f \in Range(impl.struct) :
      LET live == impl.c.live[f.name]
      IN IF f.name \in DOMAIN ref.cmd THEN live = ref.cmd[f.name]
         ELSE IF f.unset /\ ~ref.applied THEN live = "unset"
         ELSE live = impl.c.val[f.name] /\ (f.compared => live = ref.file[f.name])
    /\ \A n \in Names(impl.struct) \cap Settable : \A pattern \in {n, "*"} :
         <<n, impl.c.live[n]>> \in ConfigGet(impl.c, pattern)
    /\ ConfigGet(impl.c, "*") = UNION {ConfigGet(impl.c, p) : p \in {"aof-*", "slowlog-*", "maxClients", "timeout"}}

\* What is written as text is read back: UrlDecode undoes UrlEncode, and EncodePath
\* but for a plus sign that it leaves alone; ParseSize and ParseTime read what FormatSize
\* and FormatTime print; a log pattern is taken apart into the items it was put together from. A
\* code in a pattern that is followed by a letter or a closing brace is not recognized, and the
\* formatter says so.
Follows(items, i, S) == i < Len(items) /\ items[i].type = 1 /\ items[i + 1].type = 0 /\ items[i + 1].str[1] \in S
EscapesAreReadBack ==
  /\ part = "escape" =>
       /\ UrlDecode(impl) = ref
       /\ UrlDecode(EncodePath(ref)) = [i \in DOMAIN ref |-> IF ref[i] = Plus THEN Space ELSE ref[i]]
       /\ Range(impl) \subseteq Alnum \cup {45, 95, 46, 126, Percent}
  /\ part = "format" => ParseSize(impl.size) = {ref} /\ ParseTime(impl.time) = {ref}
  /\ (part = "pattern" /\ \A i \in 1..(Len(ref) - 1) : ref[i].type # 0 \/ ref[i + 1].type # 0) =>
       IF \E i \in DOMAIN ref : Follows(ref, i, Letters \cup {"}"}) THEN impl.error
       ELSE (\A i \in DOMAIN ref : ~Follows(ref, i, {"{"})) => impl = [items |-> ref, error |-> FALSE]

\* The text of a URL, an escaped text, a printed size or time and a log pattern stand for what they
\* were made from, with the exceptions of UrlPartsAreFound and EscapesAreReadBack.
TextsAreReadBack == UrlPartsAreFound /\ EscapesAreReadBack

\* Whatever "logs" were loaded before, every logger of the last file has the level and
\* the formatter given there and writes to exactly the appenders given there, and a logger that
\* is not in it writes nothing. A logger that once had a malformed formatter keeps it. "logrotate"
\* is what the last file with it stands for, until a file appender is constructed: from then on it is
\* the name of that appender's file and the defaults, for every appender, also when the same file gave
\* "logrotate" in front of "logs".
LoggersFollowFile ==
  part = "loggers" =>
    /\ \A d \in ref.file :
         LET l == impl.loggers[d.name]
             good == SelectSeq(d.appenders, LAMBDA a : a.formatter \notin BadFormatters)
         IN /\ d.level # NOKNOW => l.level = d.level
            /\ d.formatter # "" /\ d.name \notin ref.spoilt => l.formatter = d.formatter
            /\ \A level \in 1..5 :
                 LET wanted == SelectSeq(good, LAMBDA a : level >= a.level /\ level >= l.level)
                 IN [i \in DOMAIN Log(l, level) |-> [type |-> Log(l, level)[i].type, formatter |-> Log(l, level)[i].formatter]]
                      = [i \in DOMAIN wanted |-> [type |-> wanted[i].type,
                                                  formatter |-> IF wanted[i].formatter = "" THEN l.formatter ELSE wanted[i].formatter]]
    /\ \A n \in DOMAIN impl.loggers \ {d.name : d \in ref.file} : \A level \in 1..5 : Log(impl.loggers[n], level) = <<>>
    /\ impl.rotate.live = ref.rotate

\* After every load of a configuration file and every CONFIG SET, the settings and the loggers are
\* what SettingsFollowFile and LoggersFollowFile say.
ConfigFollowsFile == SettingsFollowFile /\ LoggersFollowFile

\* Through every sequence of writes, reads, jumps, TLS transfers and loads, on every side
\* of the page boundaries, a ByteArray is the flat sequence of the bytes written: its pages hold them in
\* order, its capacity counts its pages, m_curr is the page of the position, and what is
\* sent, saved or printed is what is left to be read. m_curr is one page too far after a jump, or a
\* receive, to the end of the data on the last page boundary but one. Values of every kind
\* are read back in the order they were written, in both byte orders.
ReadBack(b, values) ==
  FoldLeft(LAMBDA x, v : LET r == readValue(x.b, v.kind) IN [b |-> r.b, same |-> x.same /\ r.val = v.val],
           [b |-> setPosition(b, 0), same |-> TRUE], values)
ByteArrayIsFlat ==
  /\ part = "bytes" =>
       LET left == SubSeq(ref.bytes, ref.pos + 1, Len(ref.bytes))
       IN /\ impl.size = Len(ref.bytes) /\ impl.pos = ref.pos /\ impl.size <= impl.cap
          /\ impl.cap = Len(impl.pages) * BaseSize
          /\ ReadAt(impl, impl.size, 0) = ref.bytes /\ ByteArrayToString(impl) = left
          /\ ~ref.lost => /\ impl.curr = (ref.pos \div BaseSize) + 1
                          /\ writeToFile(impl) = left /\ read(impl, Len(left)).bytes = left
                          /\ \A len \in 1..MaxBytes : getReadBuffers(impl, len) = SubSeq(left, 1, Min({len, Len(left)}))
  /\ part = "codec" => LET r == ReadBack(impl, ref.values) IN r.same /\ (ref.values = <<>> \/ getReadSize(r.b) = 0)

\* However a connection cuts HTTP messages into chunks, each message is received as it was sent,
\* compressed or not: its method, path, parameters, cookies, headers and body. It is not so
\* when the name of a header is cut (its first part is lost), for a header with an empty value that
\* is not the last, and when a chunk goes beyond the end of a message: the rest of the chunk is
\* dropped, and with it the next message, or the request that was complete is refused as well.
Expected(m) ==
  LET q == Find(m.url, Question)
      kept == SelectSeq(m.headers, LAMBDA h : h.val # <<>> \/ h = Last(Sent(m).headers))
      pairs(list) == FoldLeft(LAMBDA acc, h : With(acc, h.name, h.val), <<>>, list)
  IN [method |-> m.method, version |-> <<49, 46, 49>>, body |-> m.body,
      path |-> IF q = 0 THEN m.url ELSE SubSeq(m.url, 1, q - 1),
      query |-> IF q = 0 THEN <<>> ELSE SubSeq(m.url, q + 1, Len(m.url)),
      headers |-> pairs([i \in DOMAIN kept |-> [kept[i] EXCEPT !.name = <<Upper(@[1])>> \o Folded(Tail(@))]]),
      params |-> pairs(m.params), cookies |-> pairs(m.cookies)]
HttpMessagesAreReceived ==
  part = "http" =>
    LET done == Ends(HttpUnits, ref.fed)
        sent == [i \in 1..done |-> Expected(ref.msgs[i])]
    IN \/ ref.cut
       \/ ref.merged /\ IsPrefix(impl.got, sent) /\ (done = Len(ref.msgs) => impl.failed \/ impl.got # sent)
       \/ ~ref.merged /\ impl.got = sent /\ ~impl.failed
=============================================================================
