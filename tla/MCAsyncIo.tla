------------------------------ MODULE MCAsyncIo ------------------------------
(* Small instances of AsyncIo for TLC. *)
EXTENDS AsyncIo

\* Every operation has a timeout.
AllTimed == Ops

\* Only the first operation of each coroutine has one.
FirstTimed == Coroutines \X {1}
=============================================================================
