-------------------------------- MODULE Ring --------------------------------
(***************************************************************************)
(* A terminal session's recent output (crates/pty/src/ring.rs): whole      *)
(* chunks as the reader read them, evicted from the front past a cap, and  *)
(* the answer an attaching client gets for the position it claims.         *)
(*                                                                         *)
(* A byte of the stream is its own absolute position, so retained[i] says  *)
(* WHICH byte of the session's output the ring holds at offset i: that the *)
(* ring's arithmetic (start_seq, bytes, the skip of read_from) finds the   *)
(* right ones is what the properties check.  `chunks` is kept as the flat  *)
(* `retained` plus `cuts`, the positions where the retained chunks begin.  *)
(***************************************************************************)
EXTENDS Integers, Sequences

CONSTANTS
  Cap,      \* Ring::cap, in bytes
  MaxLen,   \* the longest chunk one read returns
  Epochs,   \* stream identities a client may hold
  Epoch,    \* this session's own
  MaxSeq    \* bound: how much the process prints

ASSUME CapAssumption == Cap \in Nat /\ MaxLen \in Nat \ {0} /\ MaxSeq \in Nat
ASSUME EpochAssumption == Epoch \in Epochs

VARIABLES
  retained,  \* Ring::chunks, concatenated
  cuts,      \* the position each retained chunk begins at
  bytes,     \* Ring::bytes
  startSeq,  \* Ring::start_seq
  seq,       \* Ring::seq
  exited     \* Ring::exited

ringVars == <<retained, cuts, bytes, startSeq, seq, exited>>

\* The bytes the process prints next: n of them, from position p.
Chunk(p, n) == [i \in 1..n |-> p + i - 1]

RingInit ==
  /\ retained = <<>>
  /\ cuts = {}
  /\ bytes = 0
  /\ startSeq = 0
  /\ seq = 0
  /\ exited = FALSE

\* Of the chunks beginning at `all`, the first that stays when the ring holds
\* output through `end`: eviction goes on while the rest is over the cap and
\* is more than one chunk.
FirstKept(s, all, end) ==
  /\ s \in all
  /\ end - s <= Cap \/ \A c \in all : c <= s
  /\ \A c \in all : c < s => end - c > Cap

\* Mutants of Push: start_seq left behind by an eviction; a circular buffer
\* that evicts bytes, not chunks.
Push_ForgetsStart(n) ==
  /\ ~exited
  /\ seq + n <= MaxSeq
  /\ \E s \in cuts \cup {seq} :
       /\ FirstKept(s, cuts \cup {seq}, seq + n)
       /\ cuts' = {c \in cuts \cup {seq} : c >= s}
       /\ retained' = SubSeq(retained \o Chunk(seq, n), s - (seq - bytes) + 1, bytes + n)
  /\ seq' = seq + n
  /\ bytes' = Len(retained')
  /\ UNCHANGED <<startSeq, exited>>

Push_EvictsBytes(n) ==
  /\ ~exited
  /\ seq + n <= MaxSeq
  /\ LET s == IF bytes + n > Cap THEN seq + n - Cap ELSE startSeq
     IN /\ cuts' = {c \in cuts \cup {seq} : c >= s}
        /\ retained' = SubSeq(retained \o Chunk(seq, n), s - startSeq + 1, bytes + n)
        /\ bytes' = bytes + n - (s - startSeq)
        /\ startSeq' = s
        /\ seq' = seq + n
  /\ UNCHANGED exited

(***************************************************************************)
(* Ring::push of an n-byte chunk.  The pump never pushes an empty chunk    *)
(* (it is the exit), nor anything after mark_exited.                       *)
(***************************************************************************)
Push(n) ==
  /\ ~exited
  /\ seq + n <= MaxSeq
  /\ LET all == cuts \cup {seq}
         end == seq + n
     IN \E s \in all :
          /\ FirstKept(s, all, end)
          /\ cuts' = {c \in all : c >= s}
          /\ retained' = SubSeq(retained \o Chunk(seq, n), s - startSeq + 1, bytes + n)
          /\ bytes' = bytes + n - (s - startSeq)
          /\ startSeq' = s
          /\ seq' = end
  /\ UNCHANGED exited

\* Ring::mark_exited, on the pump's last, empty chunk.
MarkExited ==
  /\ ~exited
  /\ exited' = TRUE
  /\ UNCHANGED <<retained, cuts, bytes, startSeq, seq>>

RingNext == MarkExited \/ \E n \in 1..MaxLen : Push(n)

RingSpec == RingInit /\ [][RingNext]_ringVars

(***************************************************************************)
(* Attaching.                                                              *)
(***************************************************************************)

\* What a client may claim of its position.
At(e, p) == [kind |-> "at", epoch |-> e, seq |-> p]
Fresh == [kind |-> "fresh"]
Unknown == [kind |-> "unknown"]

\* A mutant of ReadFrom: the position taken for an offset.
ReadFrom_NoSkipBase(from) == SubSeq(retained, from + 1, bytes)

\* Everything retained from absolute position `from` on (a saturating skip).
ReadFrom(from) ==
  LET skip == IF from > startSeq THEN from - startSeq ELSE 0
  IN SubSeq(retained, skip + 1, bytes)

\* A mutant of Covers: off by one at the front of the ring.
Covers_Strict(a) ==
  /\ a.kind = "at"
  /\ a.epoch = Epoch
  /\ startSeq < a.seq
  /\ a.seq <= seq

\* An anchor the ring can continue exactly.
Covers(a) ==
  /\ a.kind = "at"
  /\ a.epoch = Epoch
  /\ startSeq <= a.seq
  /\ a.seq <= seq

\* Ring::replay_for.  The mode preamble of a Tail (modes.rs) is left out.
ReplayFor(a) ==
  IF Covers(a)
  THEN [mode |-> "Exact", epoch |-> Epoch, seq |-> seq, data |-> ReadFrom(a.seq)]
  ELSE IF a = Fresh
  THEN [mode |-> "Tail", epoch |-> Epoch, seq |-> seq, data |-> ReadFrom(startSeq)]
  ELSE [mode |-> "Reanchor", epoch |-> Epoch, seq |-> seq, data |-> <<>>]
-----------------------------------------------------------------------------
(***************************************************************************)
(* Properties.                                                             *)
(***************************************************************************)

\* Types of the ring's fields.
RingTypeOK ==
  /\ retained \in Seq(Nat)
  /\ cuts \in SUBSET Nat
  /\ bytes \in Nat
  /\ startSeq \in Nat
  /\ seq \in Nat
  /\ exited \in BOOLEAN

\* The retained bytes are the last `bytes` of the stream and nothing else:
\* push's debug_assert (start_seq + bytes = seq), and each byte where
\* read_from's skip looks for it.
RetainedIsTheTail ==
  /\ startSeq + bytes = seq
  /\ Len(retained) = bytes
  /\ \A i \in 1..bytes : retained[i] = startSeq + i - 1

\* Eviction cuts at a chunk boundary, and never takes the last chunk: a
\* session that printed anything always has something to replay.
CutsAreChunkBoundaries ==
  /\ seq > 0 => startSeq \in cuts
  /\ \A c \in cuts : startSeq <= c /\ c < seq

\* The cap holds unless one chunk alone is over it.
CapHolds == bytes <= Cap \/ \A c, d \in cuts : c = d

\* A client that has every byte of this stream through p is told "Exact" and
\* given precisely p..seq-1: nothing twice, nothing missing.
ExactReplayIsWhatWasMissed ==
  \A p \in 0..seq :
    LET r == ReplayFor(At(Epoch, p))
    IN r.mode = "Exact" => r.data = Chunk(p, seq - p) /\ r.seq = p + Len(r.data)

\* An anchor is refused (Reanchor, no bytes) only for a reason the client
\* cannot be caught up from: another stream, a position beyond this one, or
\* a gap whose bytes are gone.
ReanchorOnlyWhenUnrecoverable ==
  \A e \in Epochs, p \in 0..seq + 1 :
    (ReplayFor(At(e, p)).mode = "Reanchor")
      <=> (e # Epoch \/ p > seq \/ ~ \A b \in p..seq - 1 : \E i \in 1..Len(retained) : retained[i] = b)
=============================================================================
