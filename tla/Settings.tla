------------------------------- MODULE Settings -------------------------------
(***************************************************************************)
(* The settings of the server: the variables of the configuration system   *)
(* (src/src/util/config.h), the structs that the configuration file is     *)
(* converted to (the load*Config.h headers), the listeners that copy a     *)
(* changed struct into the atomics which the server reads                  *)
(* (src/src/util/configinit.cpp), CONFIG SET, which writes the atomics     *)
(* only, and the numbers with units of src/src/util/config_parser.cpp.     *)
(***************************************************************************)
EXTENDS Integers, Sequences, SequencesExt

-----------------------------------------------------------------------------
(* ConfigParser. A text is a number and a unit; the number is kept in     *)
(* hundredths. The units above the values that are checked are left out.   *)

SIZE_UNITS == [M |-> 1024 * 1024, K |-> 1024, B |-> 1]
TIME_UNITS == [s |-> 1000 * 1000, ms |-> 1000, us |-> 1]

Text(hundredths, unit) == [hundredths |-> hundredths, unit |-> unit]

Largest(units, fits) == CHOOSE u \in fits : \A v \in fits : units[v] <= units[u]

\* The largest unit that divides the value. The smallest divides every value: the code
\* behind the loop, which prints two digits behind the point, is never reached.
FormatUnits(val, units) ==
  LET exact == {u \in DOMAIN units : (val >= units[u] /\ val % units[u] = 0) \/ (val = 0 /\ units[u] = 1)}
      u == Largest(units, exact)
  IN Text((val \div units[u]) * 100, u)

FormatSize(val) == FormatUnits(val, SIZE_UNITS)
FormatTime(val) == FormatUnits(val, TIME_UNITS)

\* The product of the number and the unit, cut to an integer; without a unit the number is
\* one of bytes or microseconds. A unit that is not known gives nothing.
ParseUnits(text, units) ==
  IF text.unit = "" THEN {text.hundredths \div 100}
  ELSE {(text.hundredths * units[u]) \div 100 : u \in DOMAIN units \cap {text.unit}}

ParseSize(text) == ParseUnits(text, SIZE_UNITS)
ParseTime(text) == ParseUnits(text, TIME_UNITS)

-----------------------------------------------------------------------------
(* The structs, their fields in the order in which they are read. A field has a kind, which says what a malformed value      *)
(* does, and may be needed for the rest of the file to be read.            *)

\* as<T>() of YAML throws; when ParseSize or ParseTime return nothing the default is kept,
\* and an unknown strategy is the default one; a string and ParseBool take anything.
Field(name, kind) == [name |-> name, kind |-> kind, needed |-> FALSE, compared |-> TRUE, unset |-> FALSE]
Needed(f) == [f EXCEPT !.needed = TRUE]
Uncompared(f) == [f EXCEPT !.compared = FALSE]   \* operator== leaves it out
Unset(f) == [f EXCEPT !.unset = TRUE]            \* the variable's own initial value is another

AOFConfigDefine ==
  <<Field("aof_enabled", "throws"), Field("aof_filename", "any"),
   Uncompared(Needed(Field("aof_max_buffer_size", "default"))),
   Needed(Field("aof_max_file_size", "default")),
   Needed(Field("aof_max_file_number", "throws")), Field("aof_sync", "default")>>

RedisServerConfigDefine ==
  <<Uncompared(Field("max_command_size", "default")), Uncompared(Field("max_batch_size", "default")),
   Uncompared(Field("max_exec_batch_size", "throws")), Field("maxClients", "throws"),
   Field("timeout", "default")>>

SlowLogConfigDefine == <<Field("slow_log_slower_than", "default"), Field("slow_log_max_len", "throws")>>

ReplicationConfigDefine ==
  <<Field("is_master", "any"), Field("master_addr", "any"), Field("master_port", "throws"),
   Field("master_password", "any"), Field("repl_offset", "throws"), Uncompared(Field("retry_count", "throws"))>>

HttpParserConfigDefine == <<Field("buffer_size", "default"), Field("max_body_size", "default")>>

HttpDbDefine ==
  <<Unset(Field("db_host", "any")), Unset(Field("db_user", "any")), Unset(Field("db_database", "any")),
   Field("db_password", "any"), Field("db_port", "throws")>>

HttpRedisDefine ==
  <<Unset(Field("redis_host", "any")), Field("redis_password", "any"), Field("redis_port", "throws"),
   Unset(Field("rate_limit", "throws")), Unset(Field("rate_limit_expire", "default")),
   Unset(Field("cache_expire", "default"))>>

LogRotateDefine ==
  <<Field("rotate_filename", "any"), Needed(Field("rotate_file_num", "throws")),
   Needed(Field("rotate_file_size", "default"))>>

Structs == [aof |-> AOFConfigDefine, redis |-> RedisServerConfigDefine, slowlog |-> SlowLogConfigDefine,
            replication |-> ReplicationConfigDefine, parser |-> HttpParserConfigDefine,
            db |-> HttpDbDefine, cache |-> HttpRedisDefine, logrotate |-> LogRotateDefine]

-----------------------------------------------------------------------------
(* Loading a file. A value is "default" or one of the values in the file.  *)

Names(struct) == {f.name : f \in Range(struct)}
FieldOf(struct, name) == CHOOSE f \in Range(struct) : f.name = name
Defaults(struct) == [n \in Names(struct) |-> "default"]

\* LexicalCast<std::string, ...>: the struct a file stands for, or nothing if a
\* conversion throws. In the file a field is absent, malformed or has a value. The fields
\* are read in their order; where a needed one is absent the rest of the file is
\* given up for the defaults.
LexicalCast(struct, file) ==
  LET givesUp(f) == f.needed /\ file[f.name] = "absent"
      throws(f) == f.kind = "throws" /\ file[f.name] = "malformed"
      ends == {i \in DOMAIN struct : givesUp(struct[i]) \/ throws(struct[i])}
      read(f) == IF file[f.name] = "absent" \/ (file[f.name] = "malformed" /\ f.kind = "default")
                 THEN "default" ELSE file[f.name]
  IN IF ends = {} THEN {[n \in Names(struct) |-> read(FieldOf(struct, n))]}
     ELSE IF throws(struct[Min(ends)]) THEN {} ELSE {Defaults(struct)}

\* operator==
Same(struct, a, b) == \A f \in Range(struct) : f.compared => a[f.name] = b[f.name]

\* ConfigVar: m_val, and the variables that its listener writes, with their own
\* initial values.
Configured(struct) ==
  [val |-> Defaults(struct),
   live |-> [n \in Names(struct) |-> IF FieldOf(struct, n).unset THEN "unset" ELSE "default"]]

\* The fields that the listeners store for the command server and for the HTTP server, and
\* those which are read from m_val whenever they are needed.
ServerListeners ==
  {"aof_enabled", "aof_filename", "aof_max_buffer_size", "aof_max_file_size", "aof_max_file_number",
   "aof_sync", "slow_log_slower_than", "slow_log_max_len", "timeout", "maxClients", "max_command_size",
   "max_batch_size", "max_exec_batch_size", "is_master", "master_addr", "master_port", "master_password",
   "repl_offset", "retry_count"}
HttpListeners ==
  {"buffer_size", "max_body_size", "db_host", "db_port", "db_database", "db_user", "db_password",
   "redis_host", "redis_password", "redis_port", "rate_limit", "rate_limit_expire", "cache_expire"}
NotCopied == {"rotate_filename", "rotate_file_num", "rotate_file_size"}
Notified(live, new) ==
  [n \in DOMAIN live |-> IF n \in ServerListeners \cup HttpListeners \cup NotCopied THEN new[n] ELSE live[n]]

\* Mutant of setValue: the listener is called before m_val is assigned.
setValueNotifiesFirst(c, struct, new) ==
  IF Same(struct, c.val, new) THEN c ELSE [val |-> new, live |-> Notified(c.live, c.val)]

\* setValue(): a value that is the same changes nothing, another one is handed to the
\* listener.
setValue(c, struct, new) ==
  IF Same(struct, c.val, new) THEN c ELSE [val |-> new, live |-> Notified(c.live, new)]

\* LoadFromYAML() for one variable; fromString() catches what a conversion throws.
fromString(c, struct, file) ==
  LET new == LexicalCast(struct, file)
  IN IF new = {} THEN c ELSE setValue(c, struct, CHOOSE v \in new : TRUE)

\* The fields that CONFIG SET knows, and the ones for which it takes anything
Settable == {"slow_log_slower_than", "slow_log_max_len", "aof_enabled", "aof_sync", "aof_filename",
             "aof_max_file_size", "aof_max_file_number", "aof_max_buffer_size", "maxClients", "timeout"}
Unchecked == {"aof_enabled", "aof_filename"}

\* CONFIG SET writes the variable of the field and not m_val; a value that cannot be
\* read is refused.
ConfigSet(c, name, value) ==
  IF value = "malformed" /\ name \notin Unchecked THEN c ELSE [c EXCEPT !.live[name] = value]

\* CONFIG GET for the name of a field, for "slowlog-*" and "aof-*" and for "*".
SlowLogParams == {"slow_log_slower_than", "slow_log_max_len"}
AofParams == {"aof_enabled", "aof_filename", "aof_sync", "aof_max_file_size", "aof_max_file_number",
              "aof_max_buffer_size"}
Reported(pattern) ==
  LET all == {"maxClients", "timeout"} \cup SlowLogParams \cup AofParams
  IN CASE pattern = "*" -> all
       [] pattern = "slowlog-*" -> SlowLogParams
       [] pattern = "aof-*" -> AofParams
       [] OTHER -> {pattern} \cap all
ConfigGet(c, pattern) == {<<n, c.live[n]>> : n \in Reported(pattern) \cap DOMAIN c.live}
=============================================================================
