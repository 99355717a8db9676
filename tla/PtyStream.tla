------------------------------ MODULE PtyStream ------------------------------
(***************************************************************************)
(* One session of santree-pty's PtyManager (crates/pty/src/lib.rs): its    *)
(* reader thread (`pump`), the ring it records into, and the sink that     *)
(* attach, detach and adopt_others swap under it.                          *)
(*                                                                         *)
(* The pump records a chunk and takes the current sink in one hold of the  *)
(* ring lock, then calls that sink outside every lock; an attach reads the *)
(* replay and swaps the sink in one hold of the same lock, then, outside   *)
(* it, sends the exit it owes.  Those holds are the atomic steps here.     *)
(*                                                                         *)
(* A receiver is one attach's `on_output`.  It counts as every client      *)
(* does: from the replay's `seq`, adding each chunk's length.              *)
(***************************************************************************)
EXTENDS Ring, FiniteSets

CONSTANTS
  Receivers,  \* on_output callbacks: one each attach
  NoSink,     \* the detached state of Session::sink
  Owners,     \* pages (OpenOpts::owner)
  Opener      \* the page that opened the session

ASSUME ReceiverAssumption == NoSink \notin Receivers
ASSUME OwnerAssumption == Opener \in Owners

VARIABLES
  registered,  \* the session is in Inner::sessions
  owner,       \* SessionInfo::owner
  sink,        \* Session::sink
  pump,        \* the reader thread: where it is, and the chunk in its hand
  rx,          \* what each receiver has been given
  owed         \* receivers whose attach has an exit still to send

streamVars == <<registered, owner, sink, pump, rx, owed>>
vars == <<retained, cuts, bytes, startSeq, seq, exited, registered, owner, sink, pump, rx, owed>>

\* The pump between two reads, handing a chunk (n bytes from `from`, none for
\* the exit) to the sink it took with it, and at its end.
Reading == [at |-> "reading"]
Done == [at |-> "done"]
Handing(from, n, to) == [at |-> "handing", from |-> from, len |-> n, to |-> to]

\* A receiver before its attach.  `count` is the client's position, `exact`
\* whether every chunk so far began there, `exits` the sentinels it heard.
NotAttached == [attached |-> FALSE, count |-> 0, exact |-> TRUE, exits |-> 0]

\* ... and just after it, from a replay that ends at position p.
JoinedAt(p) == [attached |-> TRUE, count |-> p, exact |-> TRUE, exits |-> 0]

\* PtyManager::open: the opener's on_output is the first sink.
Init ==
  /\ RingInit
  /\ registered = TRUE
  /\ owner = Opener
  /\ sink \in Receivers
  /\ pump = Reading
  /\ rx = [r \in Receivers |-> IF r = sink THEN JoinedAt(0) ELSE NotAttached]
  /\ owed = {}

-----------------------------------------------------------------------------
(***************************************************************************)
(* The reader thread.                                                      *)
(***************************************************************************)

\* A mutant of Record: the sink taken before the read blocked, so maybe one
\* that has been replaced since.
Record_StaleSink(n) ==
  /\ pump = Reading
  /\ Push(n)
  /\ \E r \in Receivers :
       /\ rx[r].attached
       /\ pump' = Handing(seq, n, r)
  /\ UNCHANGED <<registered, owner, sink, rx, owed>>

\* `emit` of an n-byte chunk, up to the unlock: recorded, and the sink taken.
\* With no sink the chunk stays in the ring alone.
Record(n) ==
  /\ pump = Reading
  /\ Push(n)
  /\ pump' = IF sink = NoSink THEN Reading ELSE Handing(seq, n, sink)
  /\ UNCHANGED <<registered, owner, sink, rx, owed>>

\* A mutant of RecordExit: marked in one hold of the ring lock, the sink taken
\* in the next.
RecordExit_TwoHolds ==
  /\ pump = Reading
  /\ \/ MarkExited /\ UNCHANGED pump
     \/ /\ exited
        /\ pump' = IF sink = NoSink THEN Done ELSE Handing(seq, 0, sink)
        /\ UNCHANGED ringVars
  /\ UNCHANGED <<registered, owner, sink, rx, owed>>

\* EOF (or a failed read): the exit, recorded and routed the same way.
RecordExit ==
  /\ pump = Reading
  /\ MarkExited
  /\ pump' = IF sink = NoSink THEN Done ELSE Handing(seq, 0, sink)
  /\ UNCHANGED <<registered, owner, sink, rx, owed>>

\* A mutant of Given: a chunk counted twice.
Given_CountsTwice(v, from, n) == [v EXCEPT !.count = @ + 2 * n]

\* The call of a sink with n bytes from position `from` (0: the exit).
Given(v, from, n) ==
  [attached |-> v.attached,
   count |-> v.count + n,
   exact |-> v.exact /\ (n > 0 => v.count = from),
   exits |-> IF n = 0 THEN v.exits + 1 ELSE v.exits]

\* The rest of `emit`: the sink is called outside both locks.
HandOver ==
  /\ pump.at = "handing"
  /\ rx' = [rx EXCEPT ![pump.to] = Given(@, pump.from, pump.len)]
  /\ pump' = IF pump.len = 0 THEN Done ELSE Reading
  /\ UNCHANGED <<ringVars, registered, owner, sink, owed>>

-----------------------------------------------------------------------------
(***************************************************************************)
(* The manager's operations.                                               *)
(***************************************************************************)

\* Every position a client can claim (it may be from before a restart, or
\* corrupt).
Anchors == {At(e, p) : e \in Epochs, p \in 0..MaxSeq} \cup {Fresh, Unknown}

\* No call of r is under way or to come: r is a new attach's to bring.
HandingTo(r) == pump.at = "handing" /\ pump.to = r
Unused(r) == sink # r /\ r \notin owed /\ ~HandingTo(r)

\* Mutants of Attach: the replay read in an earlier hold of the ring lock than
\* the one that swaps the sink; an ended session's exit owed to nobody.
Attach_ReplayReadEarlier(r, a) ==
  /\ registered
  /\ Unused(r)
  /\ sink' = r
  /\ \E p \in startSeq..seq : rx' = [rx EXCEPT ![r] = JoinedAt(p)]
  /\ owed' = IF exited THEN owed \cup {r} ELSE owed
  /\ UNCHANGED <<ringVars, registered, owner, pump>>

Attach_OwesNothing(r, a) ==
  /\ registered
  /\ Unused(r)
  /\ sink' = r
  /\ rx' = [rx EXCEPT ![r] = JoinedAt(ReplayFor(a).seq)]
  /\ UNCHANGED <<ringVars, registered, owner, pump, owed>>

\* PtyManager::attach up to the unlock (attach_sink): the replay is read and
\* the sink swapped in one hold of the ring lock.
Attach(r, a) ==
  /\ registered
  /\ Unused(r)
  /\ sink' = r
  /\ rx' = [rx EXCEPT ![r] = JoinedAt(ReplayFor(a).seq)]
  /\ owed' = IF exited THEN owed \cup {r} ELSE owed
  /\ UNCHANGED <<ringVars, registered, owner, pump>>

\* The end of attach: the owed exit, sent with every lock released.
SendOwedExit(r) ==
  /\ r \in owed
  /\ rx' = [rx EXCEPT ![r] = Given(@, seq, 0)]
  /\ owed' = owed \ {r}
  /\ UNCHANGED <<ringVars, registered, owner, sink, pump>>

\* PtyManager::detach.
Detach ==
  /\ registered
  /\ sink' = NoSink
  /\ UNCHANGED <<ringVars, registered, owner, pump, rx, owed>>

\* adopt_others(o): a page takes the session over from another page.
AdoptOthers(o) ==
  /\ registered
  /\ owner # o
  /\ owner' = o
  /\ sink' = NoSink
  /\ UNCHANGED <<ringVars, registered, pump, rx, owed>>

\* PtyManager::close (and close_all): no attach finds the session again; the
\* reader goes on to EOF on its own.
Close ==
  /\ registered
  /\ registered' = FALSE
  /\ UNCHANGED <<ringVars, owner, sink, pump, rx, owed>>

Next ==
  \/ \E n \in 1..MaxLen : Record(n)
  \/ RecordExit
  \/ HandOver
  \/ \E r \in Receivers : SendOwedExit(r) \/ \E a \in Anchors : Attach(r, a)
  \/ Detach
  \/ \E o \in Owners : AdoptOthers(o)
  \/ Close

(***************************************************************************)
(* The reader thread runs and its sink returns (the host bounds pacing),   *)
(* and an attach, once begun, finishes.  Nothing obliges a process to end, *)
(* or a client to attach, detach or close.                                 *)
(***************************************************************************)
Fairness ==
  /\ WF_vars(HandOver)
  /\ \A r \in Receivers : WF_vars(SendOwedExit(r))

Spec == Init /\ [][Next]_vars

FairSpec == Spec /\ Fairness
-----------------------------------------------------------------------------
(***************************************************************************)
(* Properties.                                                             *)
(***************************************************************************)

\* What a receiver has been given, as a type.
Received == [attached : BOOLEAN, count : 0..MaxSeq, exact : BOOLEAN, exits : Nat]

\* Types.
TypeOK ==
  /\ RingTypeOK
  /\ registered \in BOOLEAN
  /\ owner \in Owners
  /\ sink \in Receivers \cup {NoSink}
  /\ pump \in {Reading, Done} \cup
       [at : {"handing"}, from : 0..MaxSeq, len : 0..MaxLen, to : Receivers]
  /\ rx \in [Receivers -> Received]
  /\ owed \in SUBSET Receivers

\* What the pump has in hand for r: nothing yet delivered past this position.
DeliveredThrough(r) ==
  IF HandingTo(r) THEN pump.from ELSE seq

\* Every chunk reaches the receiver exactly once, in the replay or through
\* on_output (attach's doc): no receiver, current or replaced, is ever given a
\* chunk that does not begin where its count is, and the current one is given
\* every chunk the ring records but the one in the pump's hand.
EachChunkOnce ==
  /\ \A r \in Receivers : rx[r].exact
  /\ sink # NoSink => rx[sink].count = DeliveredThrough(sink)

\* What makes the two properties below inductive: the chunk in the pump's hand
\* is the last one recorded and follows what its receiver has; exits are owed
\* only by attaches that came after the end, to receivers that have it all.
HandIsTheLastRecord ==
  pump.at = "handing" =>
    /\ rx[pump.to].attached
    /\ pump.from + pump.len = seq
    /\ rx[pump.to].count = pump.from
    /\ pump.len > 0 => ~exited
    /\ pump.len = 0 => exited /\ rx[pump.to].exits = 0 /\ pump.to \notin owed

OwedAreComplete ==
  /\ \A r \in owed : rx[r].attached /\ exited /\ rx[r].exits = 0 /\ rx[r].count = seq
  /\ pump = Reading => ~exited
  /\ pump = Done => exited
  /\ sink # NoSink => rx[sink].attached
  /\ \A r \in Receivers : ~rx[r].attached => rx[r].exits = 0
  /\ seq <= MaxSeq

\* The exit comes once and last: a receiver that heard it has been given
\* everything the session printed, and nobody hears it twice, whichever of the
\* pump and the attaches sends it.
ExitOnceAndLast ==
  \A r \in Receivers :
    /\ rx[r].exits <= 1
    /\ rx[r].exits = 1 => exited /\ rx[r].count = seq

\* The old sink gets nothing recorded after the swap: once replaced, a receiver
\* may finish the chunk the pump was handing it, and is never handed another.
NothingAfterTheSwap ==
  [][\A r \in Receivers :
       rx[r].attached /\ sink # r /\ ~HandingTo(r) => ~HandingTo(r)']_vars

\* An exit nobody was there to hear is not lost: a receiver that is the sink
\* of an ended session hears of it, unless it is replaced first.
ExitReachesTheReceiver ==
  \A r \in Receivers : (sink = r /\ exited) ~> (rx[r].exits = 1 \/ sink # r)

\* The session's inductive invariant (proved in PtyStreamProofs).
StreamInv ==
  /\ TypeOK
  /\ EachChunkOnce
  /\ ExitOnceAndLast
  /\ HandIsTheLastRecord
  /\ OwedAreComplete
=============================================================================
