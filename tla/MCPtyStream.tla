---------------------------- MODULE MCPtyStream ----------------------------
(***************************************************************************)
(* PtyStream for TLC: three attaches over a ring of three bytes, chunks of *)
(* one to four bytes (one alone is over the cap), seven bytes printed, so  *)
(* the ring evicts several times with a client behind it.                  *)
(***************************************************************************)
EXTENDS PtyStream

CONSTANTS r1, r2, r3, page1, page2

MCEpochs == {"e1", "e0"}
=============================================================================
