---------------------------- MODULE MCHookRelay ----------------------------
(***************************************************************************)
(* HookRelay for TLC: two links, one made after the other or both at once  *)
(* at the host, and a hook a chunk.  The cfgs choose the bounds.           *)
(***************************************************************************)
EXTENDS HookRelay

CONSTANTS c1, c2
=============================================================================
