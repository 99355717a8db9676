--------------------------- MODULE MCHostSession ---------------------------
(***************************************************************************)
(* HostSession for TLC.  Output is chunks of one byte in a ring that holds *)
(* it all (eviction is MCPtyStream's); a queue of two lines, paced past    *)
(* one, is full with a response and a chunk.  The runs differ in how many  *)
(* connections and attaches there are and in what is asked besides them.   *)
(***************************************************************************)
EXTENDS HostSession, TLC

CONSTANTS g1, g2, k1, k2, c1, c2, page1, page2

MCEpochs == {"e1"}
\* For the safety runs only.
MCSymmetry == Permutations(Gates) \cup Permutations(Conns)
MCReceivers == Gates \cup Parks
=============================================================================
