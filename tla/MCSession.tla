------------------------------ MODULE MCSession ------------------------------
EXTENDS Session

CONSTANTS Alice, Bob, News

Cmd(name, args) == [cmd |-> name, args |-> args]

Set(v)      == Cmd("SET", <<v>>)
Plain(name) == Cmd(name, <<>>)
Pub         == Cmd("PUBLISH", <<News>>)
Sub         == Cmd("SUBSCRIBE", <<News, News>>)

\* A client that uses transactions and publishes, and one that subscribes and,
\* as the administrator, shuts the server down; both write the watched key.
Menus ==
  Alice :> << {Set(1), Plain("WATCH"), Plain("MULTI")},
          {Set(1), Plain("MULTI"), Pub},
          {Set(1), Plain("EXEC"), Plain("DISCARD"), Plain("MONITOR"), Pub},
          {Plain("EXEC"), Pub} >>
  @@ Bob :> << {Set(2), Sub, Plain("HUGE"), Plain("MONITOR")}, {Plain("UNSUBSCRIBE"), Plain("SHUTDOWN")} >>

Requests == [c \in Clients |-> IF c = Alice THEN 4 ELSE 2]
=============================================================================
