------------------------------ MODULE Servlets ------------------------------
(***************************************************************************)
(* ServletDispatch (src/src/http/httpservlet.cpp): the servlet of a path   *)
(* is the one added for exactly that path, or else the first of those      *)
(* added for a pattern that matches it, or else the one that answers 404.  *)
(* A servlet is a number; NotFound is the default.                         *)
(***************************************************************************)
EXTENDS Integers, Sequences, SequencesExt

CONSTANTS Urls,      \* paths and patterns
          Matches    \* url -> the urls that fnmatch() finds it to match

ASSUME MatchesAreUrls == Matches \in [Urls -> SUBSET Urls]

NotFound == 0
NewDispatch == [pin |-> <<>>, blur |-> <<>>]

fnmatch(pattern, url) == url \in Matches[pattern]

\* The position of the first pattern that matches the url, 0 if there is none.
FirstMatch(d, url) ==
  SelectInSeq(d.blur, LAMBDA entry : fnmatch(entry.url, url))
RemoveMatch(d, url) ==
  RemoveFirstMatch(d.blur, LAMBDA entry : fnmatch(entry.url, url))

addServlet(d, url, sv) ==
  [d EXCEPT !.pin = [u \in DOMAIN @ \cup {url} |-> IF u = url THEN sv ELSE @[u]]]

\* What is replaced is the first pattern that matches the new one, taken as a path.
addBlurServlet(d, url, sv) ==
  [d EXCEPT !.blur = Append(RemoveMatch(d, url), [url |-> url, sv |-> sv])]

delServlet(d, url) == [d EXCEPT !.pin = [u \in DOMAIN @ \ {url} |-> @[u]]]

delBlurServlet(d, url) == [d EXCEPT !.blur = RemoveMatch(d, url)]

getServlet(d, url) == IF url \in DOMAIN d.pin THEN d.pin[url] ELSE NotFound
getBlurServlet(d, url) == IF FirstMatch(d, url) = 0 THEN NotFound ELSE d.blur[FirstMatch(d, url)].sv
getMatchedServlet(d, url) ==
  IF url \in DOMAIN d.pin THEN d.pin[url] ELSE getBlurServlet(d, url)
=============================================================================
