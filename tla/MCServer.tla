------------------------------ MODULE MCServer ------------------------------
\* Small instances of ServerLife for TLC.
EXTENDS ServerLife

\* A server whose endpoint another one takes, and which of them crashes or exits; two
\* connections of one server; one of a server that is tampered with and crashes.
MCBudgets ==
  {[servers |-> 2, conns |-> 0, crashes |-> 1, removals |-> 1, windows |-> FALSE],
   [servers |-> 1, conns |-> 2, crashes |-> 0, removals |-> 0, windows |-> TRUE],
   [servers |-> 1, conns |-> 1, crashes |-> 1, removals |-> 1, windows |-> TRUE]}
=============================================================================
