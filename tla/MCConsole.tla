----------------------------- MODULE MCConsole -----------------------------
(* Small instances of Console. *)
EXTENDS Console

\* With a line that is a command only without the blanks around it, and one
\* that is a command only because its end does not fit the buffer.
LinesMC == {<<" ", "reconnect">>, <<"status", " ", "x">>, <<"x", "status">>}
=============================================================================
