------------------------------- MODULE Logging -------------------------------
(***************************************************************************)
(* The log system: the patterns of formatters (LogFormatter::_init),       *)
(* loggers with their appenders, and the listener that sets them up again  *)
(* when the "logs" of the configuration file have changed                  *)
(* (src/src/util/log.cpp, loadLogConfig.h, configinit.cpp). The setting    *)
(* "logrotate" is one of Settings; every file appender that is constructed *)
(* overwrites it.                                                          *)
(***************************************************************************)
EXTENDS Settings

-----------------------------------------------------------------------------
(* LogFormatter. A pattern is a sequence of characters; an item has the    *)
(* text of a plain part, or the code and the format of a conversion.       *)

Letters == {"m", "d", "x"}       \* letters: the message, the date, and one that is no code
Codes == {<<"m">>, <<"d">>}

TextItem(str) == [type |-> 0, str |-> str, fmt |-> <<>>]
PatternError == [type |-> 0, str |-> <<"pattern_error">>, fmt |-> <<>>]

Behind(p, close) == IF close > Len(p) THEN close ELSE close + 1

\* The scan of one conversion that begins behind the percent sign at i: where it ends,
\* its code and its format, and whether a brace is open (1) or was closed (2).
Conversion(p, i) ==
  LET stops == {k \in (i + 1)..Len(p) : p[k] \notin Letters}
      first == IF stops = {} THEN Len(p) + 1 ELSE Min(stops)
      code == SubSeq(p, i + 1, first - 1)
      \* every opening brace that is met begins the code and the format again
      ends == {k \in first..Len(p) : p[k] = "}"}
      close == IF ends = {} THEN Len(p) + 1 ELSE Min(ends)
      last == CHOOSE k \in first..(close - 1) : p[k] = "{" /\ \A j \in (k + 1)..(close - 1) : p[j] # "{"
  IN CASE first > Len(p) -> [next |-> first, str |-> code, fmt |-> <<>>, status |-> 0]
       [] first <= Len(p) /\ p[first] = "}" ->
            [next |-> first + 1, str |-> <<>>, fmt |-> SubSeq(p, 1, first - 1), status |-> 2]
       [] first <= Len(p) /\ p[first] = "{" ->
            [next |-> Behind(p, close), str |-> SubSeq(p, i + 1, last - 1),
             fmt |-> IF close > Len(p) THEN <<>> ELSE SubSeq(p, last + 1, close - 1),
             status |-> IF close > Len(p) THEN 1 ELSE 2]
       [] OTHER -> [next |-> first, str |-> code, fmt |-> <<>>, status |-> 0]

\* The loop over the pattern: nstr is the plain text and vec the items so far. In front of a
\* brace that is never closed the text is not put out first.
RECURSIVE ScanPattern(_, _, _, _)
ScanPattern(p, i, nstr, vec) ==
  LET flushed == IF nstr = <<>> THEN vec ELSE Append(vec, TextItem(nstr))
      c == Conversion(p, i)
  IN IF i > Len(p) THEN flushed
     ELSE IF p[i] # "%" THEN ScanPattern(p, i + 1, Append(nstr, p[i]), vec)
     ELSE IF i < Len(p) /\ p[i + 1] = "%" THEN ScanPattern(p, i + 2, Append(nstr, "%"), vec)
     ELSE IF c.status = 1 THEN ScanPattern(p, c.next, nstr, Append(vec, PatternError))
     ELSE ScanPattern(p, c.next, <<>>, Append(flushed, [type |-> IF c.status = 0 THEN 1 ELSE 2, str |-> c.str, fmt |-> c.fmt]))

_init(p) ==
  LET vec == ScanPattern(p, 1, <<>>, <<>>)
  IN [items |-> vec,
      error |-> \E i \in DOMAIN vec : vec[i] = PatternError \/ (vec[i].type # 0 /\ vec[i].str \notin Codes)]

\* The pattern with the given items, for comparison.
Shown(item) ==
  CASE item.type = 0 -> FlattenSeq([i \in DOMAIN item.str |-> IF item.str[i] = "%" THEN <<"%", "%">> ELSE <<item.str[i]>>])
    [] item.type = 1 -> <<"%">> \o item.str
    [] item.type = 2 -> <<"%">> \o item.str \o <<"{">> \o item.fmt \o <<"}">>
Pattern(items) == FlattenSeq([i \in DOMAIN items |-> Shown(items[i])])

-----------------------------------------------------------------------------
(* Loggers. A formatter is named by its pattern; "" stands for none.       *)

NOKNOW == 0
DEBUG == 1
Silent == 100
BadFormatters == {"bad"}

LogAppender(type, level, formatter) ==
  [type |-> type, level |-> level, formatter |-> formatter, has |-> FALSE]

\* The formatter of an appender counts as its own once it has replaced another.
AppenderSetFormatter(a, f) == [a EXCEPT !.has = (a.formatter # ""), !.formatter = f]

addAppender(l, a) ==
  [l EXCEPT !.appenders = Append(@, IF a.formatter = "" THEN [a EXCEPT !.formatter = l.formatter] ELSE a)]
clearAppender(l) == [l EXCEPT !.appenders = <<>>]

\* Logger::setFormatter(const std::string &) looks for an error in the formatter it has.
LoggerSetFormatter(l, f) ==
  IF l.formatter \in BadFormatters THEN l
  ELSE [l EXCEPT !.formatter = f,
                 !.appenders = [i \in DOMAIN @ |-> IF @[i].has THEN @[i] ELSE AppenderSetFormatter(@[i], f)]]

\* getLogger() makes a logger on first use, with an appender to standard output.
NewLogger ==
  addAppender([level |-> DEBUG, formatter |-> "initial", appenders |-> <<>>], LogAppender("std", DEBUG, ""))

\* Log(): the appenders that write a message of a level.
Log(l, level) == IF level >= l.level THEN SelectSeq(l.appenders, LAMBDA a : level >= a.level) ELSE <<>>

-----------------------------------------------------------------------------
(* The "logs" of the configuration file: a sequence of definitions. In the *)
(* file an appender may lack its name, its type or its file (""). Names of *)
(* loggers are numbers, in the order of std::set<LogDefine>.               *)

\* LexicalCast<std::string, LogDefine> for the appenders: an appender without a name throws, one
\* without a known type or without its file is left out.
Readable(a) == a.type \in {"file", "std"} /\ (a.type = "file" => a.file # "")
Named(d) == \A i \in DOMAIN d.appenders : d.appenders[i].named
LogDefine(d) ==
  [name |-> d.name, level |-> d.level, formatter |-> d.formatter,
   appenders |-> [i \in DOMAIN SelectSeq(d.appenders, Readable) |->
                    LET a == SelectSeq(d.appenders, Readable)[i]
                    IN [type |-> a.type, file |-> a.file, level |-> a.level, formatter |-> a.formatter]]]

\* LexicalCast<std::string, std::set<LogDefine>>: of two definitions of a name the first counts.
LogDefines(file) ==
  {LogDefine(file[i]) : i \in {i \in DOMAIN file : \A j \in 1..(i - 1) : file[j].name # file[i].name}}

\* What the listener does to the logger of a definition that is new or has changed.
SetUp(l, d) ==
  LET leveled == IF d.level # NOKNOW THEN [l EXCEPT !.level = d.level] ELSE l
      formatted == IF d.formatter # "" THEN LoggerSetFormatter(leveled, d.formatter) ELSE leveled
      good == SelectSeq(d.appenders, LAMBDA a : a.formatter \notin BadFormatters)
  IN FoldLeft(LAMBDA x, a : addAppender(x, LogAppender(a.type, IF a.level # NOKNOW THEN a.level ELSE DEBUG, a.formatter)),
              clearAppender(formatted), good)

\* FileoutLogAppender(filename): the appender makes its file name, with the defaults for the
\* rest, the setting "logrotate" of all appenders.
FileoutLogAppender(rotate, filename) ==
  setValue(rotate, LogRotateDefine, [Defaults(LogRotateDefine) EXCEPT !.rotate_filename = filename])

\* The file appenders that are constructed for definitions which are new or have changed, in the
\* order of the set; the formatter is looked at only when the appender is there.
Constructed(old, new) ==
  LET defs == SetToSortSeq(new \ old, LAMBDA d, e : d.name < e.name)
  IN SelectSeq(FlattenSeq([i \in DOMAIN defs |-> defs[i].appenders]), LAMBDA a : a.type = "file")
UpdateRotate(rotate, old, new) ==
  FoldLeft(LAMBDA r, a : FileoutLogAppender(r, a.file), rotate, Constructed(old, new))

\* The listener: definitions that are new or changed, then the ones that are gone.
UpdateLoggers(loggers, old, new) ==
  LET names(defs) == {d.name : d \in defs}
      had(n) == IF n \in DOMAIN loggers THEN loggers[n] ELSE NewLogger
  IN [n \in DOMAIN loggers \cup names(new) |->
        IF n \in names(new)
        THEN LET d == CHOOSE d \in new : d.name = n IN IF d \in old THEN had(n) ELSE SetUp(had(n), d)
        ELSE IF n \in names(old) THEN [clearAppender(had(n)) EXCEPT !.level = Silent]
        ELSE loggers[n]]

\* fromString() for "logs"
LoadLogs(c, file) ==
  IF \E i \in DOMAIN file : ~Named(file[i]) THEN c
  ELSE LET new == LogDefines(file)
       IN IF new = c.val THEN c
          ELSE [val |-> new, loggers |-> UpdateLoggers(c.loggers, c.val, new),
                rotate |-> UpdateRotate(c.rotate, c.val, new)]

LoadRotate(c, file) == [c EXCEPT !.rotate = fromString(@, LogRotateDefine, file)]

\* LoadFromYAML(): the nodes in the order of the file. Its "logs", and "logrotate" if the
\* file has one, in front of them or behind.
LoadFromYAML(c, file) ==
  LET rotated(d) == IF file.rotate = {} THEN d ELSE LoadRotate(d, CHOOSE r \in file.rotate : TRUE)
  IN IF file.behind THEN rotated(LoadLogs(c, file.logs)) ELSE LoadLogs(rotated(c), file.logs)
=============================================================================
