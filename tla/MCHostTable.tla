---------------------------- MODULE MCHostTable ----------------------------
\* Small instances of HostTable for TLC.
EXTENDS HostTable, TLC

CONSTANTS t1, t2, page1, page2

MCAsked ==
  [open |-> 3, attach |-> 2, close |-> 1, adopt |-> 1, all |-> 4, park |-> 1, reap |-> 2, end |-> 1]

MCSymmetry == Permutations({t1, t2}) \cup Permutations({page1, page2})
=============================================================================
