-------------------------- MODULE PtyStreamProofs --------------------------
(***************************************************************************)
(* Proofs about Ring and PtyStream, for every cap, chunk size, set of      *)
(* receivers and length of output.  The ring's invariant is preserved by   *)
(* the ring's own steps (RingStep); every step of the session either is    *)
(* one of those or leaves the ring alone (StreamStepsRing).                *)
(***************************************************************************)
EXTENDS PtyStream, SequenceTheorems, TLAPS

\* The ring's inductive invariant.
RingInv ==
  /\ RingTypeOK
  /\ RetainedIsTheTail
  /\ CutsAreChunkBoundaries
  /\ CapHolds

-----------------------------------------------------------------------------
\* The chunk of n bytes from p: its length and its bytes.
LEMMA ChunkFacts ==
  ASSUME NEW p \in Nat, NEW n \in Nat
  PROVE  /\ Chunk(p, n) \in Seq(Nat)
         /\ Len(Chunk(p, n)) = n
         /\ \A i \in 1..n : Chunk(p, n)[i] = p + i - 1
  BY DEF Chunk

\* An empty ring.
LEMMA RingInitInv == RingInit => RingInv
<1> SUFFICES ASSUME RingInit PROVE RingInv
  OBVIOUS
<1>1. RingTypeOK
  BY EmptySeq DEF RingInit, RingTypeOK
<1>2. RetainedIsTheTail
  BY DEF RingInit, RetainedIsTheTail
<1>3. CutsAreChunkBoundaries /\ CapHolds
  BY DEF RingInit, CutsAreChunkBoundaries, CapHolds
<1>4. QED
  BY <1>1, <1>2, <1>3 DEF RingInv

\* Ring::push keeps the retained bytes the tail of the stream, cut at chunk
\* boundaries, within the cap unless one chunk is all there is.
LEMMA PushInv ==
  ASSUME RingInv, NEW n \in 1..MaxLen, Push(n)
  PROVE  RingInv'
<1> DEFINE all == cuts \cup {seq}
           end == seq + n
<1>0. n \in Nat /\ n > 0 /\ Cap \in Nat
  BY CapAssumption
<1>1. PICK s \in all :
        /\ FirstKept(s, all, end)
        /\ cuts' = {c \in all : c >= s}
        /\ retained' = SubSeq(retained \o Chunk(seq, n), s - startSeq + 1, bytes + n)
        /\ bytes' = bytes + n - (s - startSeq)
        /\ startSeq' = s
        /\ seq' = end
  BY DEF Push
<1>2. exited' = exited
  BY DEF Push
<1>t. /\ retained \in Seq(Nat) /\ cuts \in SUBSET Nat /\ bytes \in Nat
      /\ startSeq \in Nat /\ seq \in Nat /\ exited \in BOOLEAN
  BY DEF RingInv, RingTypeOK
<1>r. /\ startSeq + bytes = seq /\ Len(retained) = bytes
      /\ \A i \in 1..bytes : retained[i] = startSeq + i - 1
  BY DEF RingInv, RetainedIsTheTail
<1>3. s \in Nat /\ startSeq <= s /\ s <= seq
  BY <1>t, <1>r DEF RingInv, CutsAreChunkBoundaries
<1>4. RetainedIsTheTail' /\ retained' \in Seq(Nat)
  <2> DEFINE c == Chunk(seq, n)
             joined == retained \o c
  <2>0. c \in Seq(Nat) /\ Len(c) = n /\ \A i \in 1..n : c[i] = seq + i - 1
    BY <1>0, <1>t, ChunkFacts
  <2> HIDE DEF c
  <2>1. /\ joined \in Seq(Nat)
        /\ Len(joined) = Len(retained) + Len(c)
        /\ \A i \in 1..Len(retained) + Len(c) :
             joined[i] = IF i <= Len(retained) THEN retained[i] ELSE c[i - Len(retained)]
    BY <1>t, <2>0, ConcatProperties
  <2> HIDE DEF joined
  <2>2. \A i \in 1..bytes + n : joined[i] = startSeq + i - 1
    <3> SUFFICES ASSUME NEW i \in 1..bytes + n PROVE joined[i] = startSeq + i - 1
      OBVIOUS
    <3>1. CASE i <= bytes
      BY <3>1, <1>0, <1>t, <1>r, <2>0, <2>1
    <3>2. CASE ~(i <= bytes)
      <4>1. i - bytes \in 1..n
        BY <3>2, <1>0, <1>t
      <4>2. joined[i] = c[i - bytes]
        BY <3>2, <1>0, <1>t, <1>r, <2>0, <2>1
      <4>3. c[i - bytes] = seq + (i - bytes) - 1
        BY <4>1, <2>0
      <4>4. QED
        BY <4>2, <4>3, <1>0, <1>t, <1>r
    <3>3. QED
      BY <3>1, <3>2
  <2> DEFINE from == s - startSeq + 1
             upto == bytes + n
  <2>a. from \in Nat /\ upto \in Nat /\ from >= 1 /\ from <= upto
    BY <1>0, <1>3, <1>t, <1>r
  <2>b. \A i \in from..upto : joined[i] \in Nat
    BY <2>a, <2>2, <1>t, <1>0
  <2> HIDE DEF from, upto
  <2>3. /\ retained' \in Seq(Nat)
        /\ Len(retained') = upto - from + 1
        /\ \A i \in 1..upto - from + 1 : retained'[i] = joined[from + i - 1]
    <3>1. retained' = SubSeq(joined, from, upto)
      BY <1>1 DEF joined, c, from, upto
    <3>2. QED
      BY <3>1, <2>a, <2>b, SubSeqProperties
  <2>4. RetainedIsTheTail'
    <3>1. upto - from + 1 = bytes' /\ startSeq' + bytes' = seq'
      BY <1>0, <1>1, <1>3, <1>t, <1>r DEF from, upto
    <3>2. ASSUME NEW i \in 1..bytes'
          PROVE  retained'[i] = startSeq' + i - 1
      <4>1. retained'[i] = joined[from + i - 1]
        BY <3>1, <3>2, <2>3
      <4>2. from + i - 1 \in 1..bytes + n
        BY <3>1, <3>2, <2>a, <1>0, <1>t DEF upto
      <4>3. joined[from + i - 1] = startSeq + (from + i - 1) - 1
        BY <4>2, <2>2
      <4>4. QED
        BY <3>2, <4>1, <4>3, <1>1, <1>3, <1>t DEF from
    <3>3. QED
      BY <3>1, <3>2, <2>3 DEF RetainedIsTheTail
  <2>5. QED
    BY <2>3, <2>4
<1>5. CutsAreChunkBoundaries'
  BY <1>0, <1>1, <1>3, <1>t DEF RingInv, CutsAreChunkBoundaries
<1>6. CapHolds'
  <2>1. CASE end - s <= Cap
    BY <2>1, <1>0, <1>1, <1>3, <1>t, <1>r DEF CapHolds
  <2>2. CASE \A c \in all : c <= s
    BY <2>2, <1>1, <1>3, <1>t DEF CapHolds
  <2>3. QED
    BY <2>1, <2>2, <1>1 DEF FirstKept
<1>7. RingTypeOK'
  <2>1. bytes' \in Nat /\ startSeq' \in Nat /\ seq' \in Nat
    BY <1>0, <1>1, <1>3, <1>t, <1>r
  <2>2. cuts' \in SUBSET Nat
    BY <1>1, <1>t
  <2>3. QED
    BY <1>2, <1>4, <1>t, <2>1, <2>2 DEF RingTypeOK
<1>8. QED
  BY <1>4, <1>5, <1>6, <1>7 DEF RingInv

\* Any step of the ring.
LEMMA RingStep ==
  ASSUME RingInv, [RingNext]_ringVars
  PROVE  RingInv'
<1>1. CASE MarkExited
  BY <1>1 DEF MarkExited, RingInv, RingTypeOK, RetainedIsTheTail, CutsAreChunkBoundaries, CapHolds
<1>2. ASSUME NEW n \in 1..MaxLen, Push(n)
      PROVE  RingInv'
  BY <1>2, PushInv
<1>3. CASE UNCHANGED ringVars
  BY <1>3 DEF ringVars, RingInv, RingTypeOK, RetainedIsTheTail, CutsAreChunkBoundaries, CapHolds
<1>4. QED
  BY <1>1, <1>2, <1>3 DEF RingNext

\* Every step of the session is a step of its ring, or leaves it alone.
LEMMA StreamStepsRing == [Next]_vars => [RingNext]_ringVars
  BY DEF Next, vars, RingNext, ringVars, Record, RecordExit, HandOver, Attach, SendOwedExit,
         Detach, AdoptOthers, Close

-----------------------------------------------------------------------------
(***************************************************************************)
(* What an attaching client is given.                                      *)
(***************************************************************************)

\* The ring's invariant gives the exact replay: precisely the missing bytes.
LEMMA ExactReplay == RingInv => ExactReplayIsWhatWasMissed
<1> SUFFICES ASSUME RingInv, NEW p \in 0..seq, ReplayFor(At(Epoch, p)).mode = "Exact"
             PROVE  LET r == ReplayFor(At(Epoch, p))
                    IN r.data = Chunk(p, seq - p) /\ r.seq = p + Len(r.data)
  BY DEF ExactReplayIsWhatWasMissed
<1> DEFINE data == ReadFrom(p)
<1>t. /\ retained \in Seq(Nat) /\ bytes \in Nat /\ startSeq \in Nat /\ seq \in Nat
      /\ startSeq + bytes = seq /\ Len(retained) = bytes
      /\ \A i \in 1..bytes : retained[i] = startSeq + i - 1
  BY DEF RingInv, RingTypeOK, RetainedIsTheTail
<1>1. /\ startSeq <= p
      /\ ReplayFor(At(Epoch, p)).data = data
      /\ ReplayFor(At(Epoch, p)).seq = seq
  BY DEF ReplayFor, Covers, At, Fresh
<1>2. data = SubSeq(retained, p - startSeq + 1, bytes)
  BY <1>1, <1>t DEF ReadFrom
<1>3. \A i \in p - startSeq + 1..bytes : retained[i] \in Nat
  BY <1>1, <1>t
<1>4. /\ data \in Seq(Nat)
      /\ Len(data) = seq - p
      /\ \A i \in 1..seq - p : data[i] = retained[p - startSeq + i]
  <2> DEFINE m == p - startSeq + 1
  <2>1. m \in Int /\ bytes \in Int /\ m <= bytes + 1 /\ bytes - m + 1 = seq - p
    BY <1>1, <1>t
  <2>2. \A i \in m..bytes : retained[i] \in Nat
    BY <1>3
  <2>3. data = SubSeq(retained, m, bytes)
    BY <1>2
  <2>4. \A i \in 1..seq - p : m + i - 1 = p - startSeq + i
    BY <1>t
  <2> HIDE DEF m, data
  <2>5. /\ data \in Seq(Nat)
        /\ Len(data) = IF m <= bytes THEN bytes - m + 1 ELSE 0
        /\ \A i \in 1..bytes - m + 1 : data[i] = retained[m + i - 1]
    BY <2>1, <2>2, <2>3, SubSeqProperties
  <2>6. QED
    BY <2>1, <2>4, <2>5
<1>5. \A i \in 1..seq - p : data[i] = Chunk(p, seq - p)[i]
  <2> SUFFICES ASSUME NEW i \in 1..seq - p PROVE data[i] = Chunk(p, seq - p)[i]
    OBVIOUS
  <2>1. Chunk(p, seq - p)[i] = p + i - 1
    BY <1>t DEF Chunk
  <2>2. p - startSeq + i \in 1..bytes
    BY <1>1, <1>t
  <2>3. retained[p - startSeq + i] = startSeq + (p - startSeq + i) - 1
    BY <2>2, <1>t
  <2>4. QED
    BY <1>1, <1>4, <1>t, <2>1, <2>3
<1>6. Chunk(p, seq - p) \in Seq(Nat) /\ Len(Chunk(p, seq - p)) = seq - p
  <2>1. p \in Nat /\ seq - p \in Nat
    BY <1>t
  <2>2. QED
    BY <2>1, ChunkFacts
<1>7. data = Chunk(p, seq - p)
  <2> HIDE DEF data
  <2> QED
    BY <1>4, <1>5, <1>6, SeqEqual
<1>8. QED
  BY <1>1, <1>4, <1>7, <1>t

\* A refused anchor is one the ring cannot continue, and only that.
LEMMA RefusedAnchor == RingInv => ReanchorOnlyWhenUnrecoverable
<1> SUFFICES ASSUME RingInv, NEW e \in Epochs, NEW p \in 0..seq + 1
             PROVE  (ReplayFor(At(e, p)).mode = "Reanchor")
                      <=> (e # Epoch \/ p > seq
                            \/ ~ \A b \in p..seq - 1 : \E i \in 1..Len(retained) : retained[i] = b)
  BY DEF ReanchorOnlyWhenUnrecoverable
<1>t. /\ bytes \in Nat /\ startSeq \in Nat /\ seq \in Nat
      /\ startSeq + bytes = seq /\ Len(retained) = bytes
      /\ \A i \in 1..bytes : retained[i] = startSeq + i - 1
  BY DEF RingInv, RingTypeOK, RetainedIsTheTail
<1>1. (ReplayFor(At(e, p)).mode = "Reanchor") <=> ~Covers(At(e, p))
  <2>1. At(e, p) # Fresh
    <3>1. At(e, p).kind = "at" /\ Fresh.kind = "fresh"
      BY DEF At, Fresh
    <3>2. QED
      BY <3>1
  <2>2. QED
    BY <2>1 DEF ReplayFor
<1>2. Covers(At(e, p)) <=> e = Epoch /\ startSeq <= p /\ p <= seq
  BY DEF Covers, At
<1>3. ASSUME startSeq <= p
      PROVE  \A b \in p..seq - 1 : \E i \in 1..Len(retained) : retained[i] = b
  <2> SUFFICES ASSUME NEW b \in p..seq - 1
               PROVE  \E i \in 1..Len(retained) : retained[i] = b
    OBVIOUS
  <2>1. b - startSeq + 1 \in 1..bytes
    BY <1>3, <1>t
  <2>2. retained[b - startSeq + 1] = startSeq + (b - startSeq + 1) - 1
    BY <2>1, <1>t
  <2>3. retained[b - startSeq + 1] = b
    BY <1>t, <2>2
  <2>4. QED
    BY <2>1, <2>3, <1>t
<1>4. ASSUME p < startSeq
      PROVE  ~ \A b \in p..seq - 1 : \E i \in 1..Len(retained) : retained[i] = b
  <2>1. p \in p..seq - 1
    BY <1>4, <1>t
  <2>2. \A i \in 1..Len(retained) : retained[i] # p
    BY <1>4, <1>t
  <2>3. QED
    BY <2>1, <2>2
<1>5. startSeq <= p \/ p < startSeq
  BY <1>t
<1>6. CASE startSeq <= p
  BY <1>6, <1>1, <1>2, <1>3, <1>t
<1>7. CASE p < startSeq
  BY <1>7, <1>1, <1>2, <1>4, <1>t
<1>8. QED
  BY <1>5, <1>6, <1>7

-----------------------------------------------------------------------------
(***************************************************************************)
(* The session: StreamInv is inductive.                                    *)
(***************************************************************************)

\* Init.
LEMMA StreamInit == Init => StreamInv
<1> SUFFICES ASSUME Init PROVE StreamInv
  OBVIOUS
<1> USE DEF Init, Reading, Done, NotAttached, JoinedAt
<1>0. RingInv /\ seq = 0 /\ exited = FALSE
  BY RingInitInv DEF RingInit
<1>1. TypeOK
  BY <1>0, OwnerAssumption, CapAssumption DEF TypeOK, RingInv, Received
<1>2. EachChunkOnce /\ ExitOnceAndLast
  BY <1>0 DEF EachChunkOnce, ExitOnceAndLast, DeliveredThrough, HandingTo
<1>3. HandIsTheLastRecord /\ OwedAreComplete
  BY <1>0, CapAssumption DEF HandIsTheLastRecord, OwedAreComplete
<1>4. QED
  BY <1>1, <1>2, <1>3 DEF StreamInv

\* What every step but the ring's own must keep for StreamInv to hold after it.
\* (The ring's types are RingStep's business.)
SessionInv ==
  /\ registered \in BOOLEAN
  /\ owner \in Owners
  /\ sink \in Receivers \cup {NoSink}
  /\ pump \in {Reading, Done} \cup
       [at : {"handing"}, from : 0..MaxSeq, len : 0..MaxLen, to : Receivers]
  /\ rx \in [Receivers -> Received]
  /\ owed \in SUBSET Receivers
  /\ EachChunkOnce
  /\ ExitOnceAndLast
  /\ HandIsTheLastRecord
  /\ OwedAreComplete

\* The stream's invariant: the ring's types, and what SessionInv says of the session.
LEMMA StreamInvParts == StreamInv <=> RingTypeOK /\ SessionInv
  BY DEF StreamInv, SessionInv, TypeOK

\* Record: the chunk becomes the pump's, for the sink it took.
LEMMA RecordInv ==
  ASSUME RingTypeOK, SessionInv, NEW n \in 1..MaxLen, Record(n)
  PROVE  SessionInv'
<1> USE DEF SessionInv, Reading, Done, Handing
<1>0. n \in Nat /\ n > 0 /\ MaxSeq \in Nat /\ MaxLen \in Nat /\ seq \in Nat
  BY CapAssumption DEF RingTypeOK
<1>1. /\ pump = Reading /\ ~exited /\ seq + n <= MaxSeq /\ seq' = seq + n /\ exited' = exited
      /\ pump' = (IF sink = NoSink THEN Reading ELSE Handing(seq, n, sink))
      /\ UNCHANGED <<registered, owner, sink, rx, owed>>
  BY DEF Record, Push
<1>2. owed = {}
  BY <1>1 DEF OwedAreComplete
<1>3. sink # NoSink => sink \in Receivers /\ rx[sink].attached /\ rx[sink].count = seq
  BY <1>1 DEF OwedAreComplete, EachChunkOnce, DeliveredThrough, HandingTo
<1>4. pump' \in {Reading, Done} \cup
        [at : {"handing"}, from : 0..MaxSeq, len : 0..MaxLen, to : Receivers]
  BY <1>0, <1>1, <1>3
<1>5. EachChunkOnce'
  BY <1>0, <1>1, <1>3 DEF EachChunkOnce, DeliveredThrough, HandingTo
<1>6. ExitOnceAndLast'
  BY <1>1 DEF ExitOnceAndLast
<1>7. HandIsTheLastRecord'
  BY <1>0, <1>1, <1>3 DEF HandIsTheLastRecord
<1>8. OwedAreComplete'
  BY <1>0, <1>1, <1>2 DEF OwedAreComplete
<1>9. QED
  BY <1>1, <1>4, <1>5, <1>6, <1>7, <1>8

\* RecordExit: the exit becomes the pump's, and the session is at its end.
LEMMA RecordExitInv ==
  ASSUME RingTypeOK, SessionInv, RecordExit
  PROVE  SessionInv'
<1> USE DEF SessionInv, Reading, Done, Handing
<1>0. MaxSeq \in Nat /\ MaxLen \in Nat /\ seq \in Nat
  BY CapAssumption DEF RingTypeOK
<1>1. /\ pump = Reading /\ ~exited /\ seq' = seq /\ exited' = TRUE
      /\ pump' = (IF sink = NoSink THEN Done ELSE Handing(seq, 0, sink))
      /\ UNCHANGED <<registered, owner, sink, rx, owed>>
  BY DEF RecordExit, MarkExited
<1>2. owed = {} /\ seq <= MaxSeq
  BY <1>1 DEF OwedAreComplete
<1>3. sink # NoSink => /\ sink \in Receivers /\ rx[sink].attached
                       /\ rx[sink].count = seq /\ rx[sink].exits = 0
  <2>1. sink # NoSink => sink \in Receivers /\ rx[sink].attached /\ rx[sink].count = seq
    BY <1>1 DEF OwedAreComplete, EachChunkOnce, DeliveredThrough, HandingTo
  <2>2. \A r \in Receivers : rx[r].exits \in Nat /\ rx[r].exits <= 1 /\ rx[r].exits # 1
    BY <1>1 DEF ExitOnceAndLast, Received
  <2>3. QED
    BY <2>1, <2>2
<1>4. pump' \in {Reading, Done} \cup
        [at : {"handing"}, from : 0..MaxSeq, len : 0..MaxLen, to : Receivers]
  BY <1>0, <1>1, <1>2, <1>3
<1>5. EachChunkOnce'
  BY <1>0, <1>1, <1>3 DEF EachChunkOnce, DeliveredThrough, HandingTo
<1>6. ExitOnceAndLast'
  BY <1>1 DEF ExitOnceAndLast
<1>7. HandIsTheLastRecord'
  BY <1>0, <1>1, <1>2, <1>3 DEF HandIsTheLastRecord
<1>8. OwedAreComplete'
  BY <1>0, <1>1, <1>2 DEF OwedAreComplete
<1>9. QED
  BY <1>1, <1>4, <1>5, <1>6, <1>7, <1>8

\* HandOver: the receiver now has the chunk, or the exit, that was in hand.
LEMMA HandOverInv ==
  ASSUME RingTypeOK, SessionInv, HandOver
  PROVE  SessionInv'
<1> USE DEF SessionInv, Reading, Done
<1> DEFINE r == pump.to
<1>0. MaxSeq \in Nat /\ MaxLen \in Nat /\ seq \in Nat /\ seq <= MaxSeq
  BY CapAssumption DEF RingTypeOK, OwedAreComplete
<1>1. /\ pump.at = "handing"
      /\ rx' = [rx EXCEPT ![r] = Given(@, pump.from, pump.len)]
      /\ pump' = IF pump.len = 0 THEN Done ELSE Reading
      /\ UNCHANGED <<retained, cuts, bytes, startSeq, seq, exited, registered, owner, sink, owed>>
  BY DEF HandOver, ringVars
<1>2. pump \in [at : {"handing"}, from : 0..MaxSeq, len : 0..MaxLen, to : Receivers]
  BY <1>1
<1>3. /\ r \in Receivers /\ pump.len \in Nat /\ pump.from \in Nat
      /\ rx[r].attached /\ rx[r].count = pump.from /\ pump.from + pump.len = seq
      /\ pump.len > 0 => ~exited
      /\ pump.len = 0 => exited /\ rx[r].exits = 0 /\ r \notin owed
  BY <1>0, <1>1, <1>2 DEF HandIsTheLastRecord
<1>4. /\ rx'[r] = Given(rx[r], pump.from, pump.len)
      /\ \A q \in Receivers : q # r => rx'[q] = rx[q]
  BY <1>1, <1>3
<1>5. /\ rx'[r] \in Received
      /\ rx'[r].attached = rx[r].attached /\ rx'[r].exact /\ rx'[r].count = seq
      /\ pump.len > 0 => rx'[r].exits = rx[r].exits
      /\ pump.len = 0 => rx'[r].exits = 1
  <2>1. rx[r] \in Received /\ rx[r].exact
    BY <1>3 DEF EachChunkOnce
  <2>2. CASE pump.len = 0
    BY <2>1, <2>2, <1>0, <1>3, <1>4 DEF Given, Received
  <2>3. CASE pump.len > 0
    BY <2>1, <2>3, <1>0, <1>3, <1>4 DEF Given, Received
  <2>4. pump.len = 0 \/ pump.len > 0
    BY <1>3
  <2>5. QED
    BY <2>2, <2>3, <2>4
<1>6. rx' \in [Receivers -> Received]
  BY <1>1, <1>3, <1>4, <1>5
<1>7. EachChunkOnce'
  <2>1. \A q \in Receivers : rx'[q].exact
    BY <1>4, <1>5 DEF EachChunkOnce
  <2>2. sink # NoSink => rx'[sink].count = seq
    BY <1>1, <1>3, <1>4, <1>5 DEF EachChunkOnce, DeliveredThrough, HandingTo
  <2>3. QED
    BY <2>1, <2>2, <1>1 DEF EachChunkOnce, DeliveredThrough, HandingTo
<1>8. ExitOnceAndLast'
  BY <1>1, <1>3, <1>4, <1>5 DEF ExitOnceAndLast
<1>9. HandIsTheLastRecord'
  BY <1>1 DEF HandIsTheLastRecord
<1>10. OwedAreComplete'
  <2>1. \A q \in owed : rx'[q].attached /\ exited /\ rx'[q].exits = 0 /\ rx'[q].count = seq
    BY <1>3, <1>4, <1>5 DEF OwedAreComplete
  <2>2. sink # NoSink => rx'[sink].attached
    BY <1>3, <1>4, <1>5 DEF OwedAreComplete
  <2>3. \A q \in Receivers : ~rx'[q].attached => rx'[q].exits = 0
    BY <1>3, <1>4, <1>5 DEF OwedAreComplete
  <2>4. (pump' = Reading => ~exited) /\ (pump' = Done => exited)
    BY <1>1, <1>3
  <2>5. QED
    BY <2>1, <2>2, <2>3, <2>4, <1>0, <1>1 DEF OwedAreComplete
<1>11. QED
  BY <1>1, <1>6, <1>7, <1>8, <1>9, <1>10

\* Attach: the new receiver starts from the replay's end, and is owed the exit
\* of a session that had already ended.
LEMMA AttachInv ==
  ASSUME RingTypeOK, SessionInv, NEW r \in Receivers, NEW a \in Anchors, Attach(r, a)
  PROVE  SessionInv'
<1> USE DEF SessionInv, Reading, Done
<1>0. seq \in Nat /\ seq <= MaxSeq /\ MaxSeq \in Nat
  BY CapAssumption DEF RingTypeOK, OwedAreComplete
<1>1. ReplayFor(a).seq = seq
  BY DEF ReplayFor
<1>2. /\ sink # r /\ r \notin owed /\ ~HandingTo(r) /\ sink' = r
      /\ rx' = [rx EXCEPT ![r] = JoinedAt(seq)]
      /\ owed' = IF exited THEN owed \cup {r} ELSE owed
      /\ UNCHANGED <<retained, cuts, bytes, startSeq, seq, exited, registered, owner, pump>>
  BY <1>1 DEF Attach, Unused, ringVars
<1>3. pump.at = "handing" => pump.to # r
  BY <1>2 DEF HandingTo
<1>4. /\ rx'[r].attached /\ rx'[r].count = seq /\ rx'[r].exits = 0 /\ rx'[r].exact
      /\ rx'[r] \in Received
      /\ \A q \in Receivers : q # r => rx'[q] = rx[q]
  BY <1>0, <1>2 DEF JoinedAt, Received
<1>5. rx' \in [Receivers -> Received]
  BY <1>2, <1>4
<1>6. EachChunkOnce'
  BY <1>2, <1>3, <1>4, ReceiverAssumption DEF EachChunkOnce, DeliveredThrough, HandingTo
<1>7. ExitOnceAndLast'
  BY <1>2, <1>4 DEF ExitOnceAndLast
<1>8. HandIsTheLastRecord'
  BY <1>2, <1>3, <1>4 DEF HandIsTheLastRecord
<1>9. OwedAreComplete'
  BY <1>0, <1>2, <1>4 DEF OwedAreComplete
<1>10. QED
  BY <1>2, <1>5, <1>6, <1>7, <1>8, <1>9

\* SendOwedExit: the attach's own exit, the only one its receiver hears.
LEMMA SendOwedExitInv ==
  ASSUME RingTypeOK, SessionInv, NEW r \in Receivers, SendOwedExit(r)
  PROVE  SessionInv'
<1> USE DEF SessionInv, Reading, Done
<1>1. /\ r \in owed /\ owed' = owed \ {r}
      /\ rx' = [rx EXCEPT ![r] = Given(@, seq, 0)]
      /\ UNCHANGED <<retained, cuts, bytes, startSeq, seq, exited, registered, owner, sink, pump>>
  BY DEF SendOwedExit, ringVars
<1>2. rx[r].attached /\ exited /\ rx[r].exits = 0 /\ rx[r].count = seq
  BY <1>1 DEF OwedAreComplete
<1>3. /\ rx'[r].attached /\ rx'[r].count = seq /\ rx'[r].exits = 1 /\ rx'[r].exact = rx[r].exact
      /\ rx'[r] \in Received
      /\ \A q \in Receivers : q # r => rx'[q] = rx[q]
  <2>1. rx[r] \in Received /\ seq \in Nat
    BY DEF RingTypeOK
  <2>2. rx'[r] = Given(rx[r], seq, 0) /\ \A q \in Receivers : q # r => rx'[q] = rx[q]
    BY <1>1
  <2>3. QED
    BY <2>1, <2>2, <1>2 DEF Given, Received
<1>4. rx' \in [Receivers -> Received]
  BY <1>1, <1>3
<1>5. EachChunkOnce'
  BY <1>1, <1>2, <1>3 DEF EachChunkOnce, DeliveredThrough, HandingTo
<1>6. ExitOnceAndLast'
  BY <1>1, <1>2, <1>3 DEF ExitOnceAndLast
<1>7. HandIsTheLastRecord'
  BY <1>1, <1>2, <1>3 DEF HandIsTheLastRecord
<1>8. OwedAreComplete'
  BY <1>1, <1>2, <1>3 DEF OwedAreComplete
<1>9. QED
  BY <1>1, <1>4, <1>5, <1>6, <1>7, <1>8

\* The steps that only drop the sink, re-tag or unregister the session.
LEMMA DropSinkInv ==
  ASSUME RingTypeOK, SessionInv,
         registered' \in BOOLEAN, owner' \in Owners, sink' \in {sink, NoSink},
         UNCHANGED <<retained, cuts, bytes, startSeq, seq, exited, pump, rx, owed>>
  PROVE  SessionInv'
<1> USE DEF SessionInv
<1>1. EachChunkOnce' /\ ExitOnceAndLast'
  BY DEF EachChunkOnce, DeliveredThrough, HandingTo, ExitOnceAndLast
<1>2. HandIsTheLastRecord' /\ OwedAreComplete'
  BY DEF HandIsTheLastRecord, OwedAreComplete, Reading, Done
<1>3. QED
  BY <1>1, <1>2 DEF Reading, Done

\* Every step keeps the session's invariant beside its ring's.
LEMMA StreamStep ==
  ASSUME RingInv, StreamInv, [Next]_vars
  PROVE  RingInv' /\ StreamInv'
<1>0. RingTypeOK /\ SessionInv
  BY StreamInvParts
<1>1. RingInv'
  BY StreamStepsRing, RingStep
<1>2. SessionInv'
  <2>1. ASSUME NEW n \in 1..MaxLen, Record(n) PROVE SessionInv'
    BY <2>1, <1>0, RecordInv
  <2>2. CASE RecordExit
    BY <2>2, <1>0, RecordExitInv
  <2>3. CASE HandOver
    BY <2>3, <1>0, HandOverInv
  <2>4. ASSUME NEW r \in Receivers, SendOwedExit(r) PROVE SessionInv'
    BY <2>4, <1>0, SendOwedExitInv
  <2>5. ASSUME NEW r \in Receivers, NEW a \in Anchors, Attach(r, a) PROVE SessionInv'
    BY <2>5, <1>0, AttachInv
  <2>6. CASE Detach
    <3>1. registered' \in BOOLEAN /\ owner' \in Owners /\ sink' \in {sink, NoSink}
      BY <2>6, <1>0 DEF Detach, SessionInv
    <3>2. UNCHANGED <<retained, cuts, bytes, startSeq, seq, exited, pump, rx, owed>>
      BY <2>6 DEF Detach, ringVars
    <3>3. QED
      BY <3>1, <3>2, <1>0, DropSinkInv
  <2>7. ASSUME NEW o \in Owners, AdoptOthers(o) PROVE SessionInv'
    <3>1. registered' \in BOOLEAN /\ owner' \in Owners /\ sink' \in {sink, NoSink}
      BY <2>7, <1>0 DEF AdoptOthers, SessionInv
    <3>2. UNCHANGED <<retained, cuts, bytes, startSeq, seq, exited, pump, rx, owed>>
      BY <2>7 DEF AdoptOthers, ringVars
    <3>3. QED
      BY <3>1, <3>2, <1>0, DropSinkInv
  <2>8. CASE Close
    <3>1. registered' \in BOOLEAN /\ owner' \in Owners /\ sink' \in {sink, NoSink}
      BY <2>8, <1>0 DEF Close, SessionInv
    <3>2. UNCHANGED <<retained, cuts, bytes, startSeq, seq, exited, pump, rx, owed>>
      BY <2>8 DEF Close, ringVars
    <3>3. QED
      BY <3>1, <3>2, <1>0, DropSinkInv
  <2>9. CASE UNCHANGED vars
    <3>1. registered' \in BOOLEAN /\ owner' \in Owners /\ sink' \in {sink, NoSink}
      BY <2>9, <1>0 DEF vars, SessionInv
    <3>2. UNCHANGED <<retained, cuts, bytes, startSeq, seq, exited, pump, rx, owed>>
      BY <2>9 DEF vars
    <3>3. QED
      BY <3>1, <3>2, <1>0, DropSinkInv
  <2>10. QED
    BY <2>1, <2>2, <2>3, <2>4, <2>5, <2>6, <2>7, <2>8, <2>9 DEF Next
<1>3. RingTypeOK'
  BY <1>1 DEF RingInv
<1>4. QED
  BY <1>1, <1>2, <1>3 DEF StreamInv, SessionInv, TypeOK

\* The invariant of the session and its ring, of every behaviour.
LEMMA StreamInvariant == Spec => [](RingInv /\ StreamInv)
<1>1. Init => RingInv /\ StreamInv
  BY StreamInit, RingInitInv DEF Init
<1>2. (RingInv /\ StreamInv) /\ [Next]_vars => (RingInv /\ StreamInv)'
  BY StreamStep
<1>3. QED
  BY <1>1, <1>2, PTL DEF Spec

-----------------------------------------------------------------------------
(***************************************************************************)
(* The theorems.                                                           *)
(***************************************************************************)

\* Types: Ring's fields, the session's sink and owner, the receivers' counts.
THEOREM TypeCorrect == Spec => []TypeOK
<1>1. RingInv /\ StreamInv => TypeOK
  BY DEF StreamInv
<1>2. QED
  BY <1>1, StreamInvariant, PTL

\* Ring::push: what is retained is the tail of the stream, byte for byte.
THEOREM RingKeepsTheTail == Spec => []RetainedIsTheTail
<1>1. RingInv /\ StreamInv => RetainedIsTheTail
  BY DEF RingInv
<1>2. QED
  BY <1>1, StreamInvariant, PTL

\* Ring::push: eviction takes whole chunks, down to the cap, never the last.
THEOREM RingEvictsWholeChunks == Spec => [](CutsAreChunkBoundaries /\ CapHolds)
<1>1. RingInv /\ StreamInv => CutsAreChunkBoundaries /\ CapHolds
  BY DEF RingInv
<1>2. QED
  BY <1>1, StreamInvariant, PTL

\* Ring::replay_for: an anchored replay is exactly the bytes the client lacks.
THEOREM ExactReplayIsRight == Spec => []ExactReplayIsWhatWasMissed
<1>1. RingInv /\ StreamInv => ExactReplayIsWhatWasMissed
  BY ExactReplay
<1>2. QED
  BY <1>1, StreamInvariant, PTL

\* Ring::replay_for: no anchor is refused that could have been continued.
THEOREM RefusalsAreNeeded == Spec => []ReanchorOnlyWhenUnrecoverable
<1>1. RingInv /\ StreamInv => ReanchorOnlyWhenUnrecoverable
  BY RefusedAnchor
<1>2. QED
  BY <1>1, StreamInvariant, PTL

\* PtyManager::attach against `emit`: replay and live output meet at one
\* position, for every receiver, however attaches, detaches, adopts and the
\* reader interleave.
THEOREM ReplayMeetsLive == Spec => []EachChunkOnce
<1>1. RingInv /\ StreamInv => EachChunkOnce
  BY DEF StreamInv
<1>2. QED
  BY <1>1, StreamInvariant, PTL

\* The exit sentinel, whoever sends it, is heard at most once and last.
THEOREM ExitComesOnceAndLast == Spec => []ExitOnceAndLast
<1>1. RingInv /\ StreamInv => ExitOnceAndLast
  BY DEF StreamInv
<1>2. QED
  BY <1>1, StreamInvariant, PTL

\* A replaced sink is handed nothing recorded after the swap.
THEOREM OldSinkGetsNothing == Spec => NothingAfterTheSwap
<1>1. ASSUME StreamInv, [Next]_vars
      PROVE  [\A r \in Receivers :
                rx[r].attached /\ sink # r /\ ~HandingTo(r) => ~HandingTo(r)']_vars
  <2> SUFFICES ASSUME Next, NEW r \in Receivers,
                      rx[r].attached, sink # r, ~HandingTo(r), HandingTo(r)'
               PROVE  FALSE
    BY <1>1
  <2>1. ASSUME NEW n \in 1..MaxLen, Record(n) PROVE FALSE
    BY <2>1 DEF Record, HandingTo, Handing, Reading
  <2>2. CASE RecordExit
    BY <2>2 DEF RecordExit, HandingTo, Handing, Done
  <2>3. CASE HandOver
    BY <2>3 DEF HandOver, HandingTo, Reading, Done
  <2>4. CASE UNCHANGED pump
    BY <2>4 DEF HandingTo
  <2>5. QED
    BY <2>1, <2>2, <2>3, <2>4 DEF Next, SendOwedExit, Attach, Detach, AdoptOthers, Close
<1>2. QED
  BY <1>1, StreamInvariant, PTL DEF Spec, NothingAfterTheSwap
=============================================================================
