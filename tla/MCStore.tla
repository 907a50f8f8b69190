------------------------------- MODULE MCStore -------------------------------
EXTENDS Store

CONSTANTS Alice, Bob

\* The third key, which only RENAME and its like use, is in the shard of the first.
TwoShards == <<0, 1, 0>>

\* One client with every command, or two with the commands that meet in a string; of
\* these both may be the administrator and come and go.
EveryOp == {c.op : c \in AllCommands} \ {"SELECT"}
Users == { Alice :> EveryOp @@ Bob :> {},
           Alice :> {"AUTH", "SET", "GET"} @@ Bob :> {"AUTH", "FLUSHDB", "SELECT"} }
=============================================================================
