--------------------------- MODULE HostGateProofs ---------------------------
(***************************************************************************)
(* Proofs about a hosted session, for every number of attaches,            *)
(* connections and lines of queue.                                         *)
(*                                                                         *)
(* HostSession implements PtyStream: whatever the host does to a session,  *)
(* its manager sees one of its own operations or nothing.  So what         *)
(* PtyStreamProofs proves of every session holds of a hosted one.          *)
(*                                                                         *)
(* What HostSession's clients read and where its output goes follows from  *)
(* an invariant of three layers.  Typing: the host's fields, and which     *)
(* connections, gates and lock holders there can be.  Routing: the current *)
(* gate, the route and the manager's sink, from one holder of the attach   *)
(* lock to the next.  Reading: what a connection's client will have read   *)
(* once its queue is empty, against what the gate's receiver was given.    *)
(* What is carried over from PtyStream (StreamInv) is used in the third.   *)
(***************************************************************************)
EXTENDS HostSession, PtyStreamProofs, WellFoundedInduction

(***************************************************************************)
(* Every step of the host, mapped to a step of the session or to none.     *)
(***************************************************************************)

\* A step of the reader thread: a record, the return of the sink it called, or
\* a step inside that sink.
LEMMA ReaderStep == HostRecord \/ Sink => [Next]_vars
<1>1. HostRecord => Next
  BY DEF HostRecord, Next
<1>2. Sink => [Next]_vars
  BY DEF Sink, SinkParked, SinkMarksEnded, PaceClears, PaceGivesUp, PaceStalls, GateDelivers, Next
<1>3. QED
  BY <1>1, <1>2

\* The anchors the host's own attaches bring are anchors.
LEMMA HostAnchors == Fresh \in Anchors /\ Unknown \in Anchors
  BY DEF Anchors

\* A step of an attach is the manager's attach, its owed exit, or nothing.
LEMMA AttachStep ==
  ASSUME SerialOK, AttachSteps
  PROVE  [Next]_vars
<1>1. CASE AttachRefused \/ AttachRoutes \/ AttachAnswers
  BY <1>1 DEF AttachRefused, AttachRoutes, AttachAnswers
<1>2. CASE AttachSwaps
  <2>1. Attach(serial.to, Fresh) /\ serial.to \in Receivers
    BY <1>2, SinkAssumption DEF AttachSwaps, SerialOK
  <2>2. QED
    BY <2>1, HostAnchors DEF Next
<1>3. CASE AttachOwesExit
  <2>1. SendOwedExit(serial.to) /\ serial.to \in Receivers
    BY <1>3, SinkAssumption DEF AttachOwesExit, SerialOK
  <2>2. QED
    BY <2>1 DEF Next
<1>4. QED
  BY <1>1, <1>2, <1>3 DEF AttachSteps

\* A step of a park is the manager's attach of a parked sink, its owed exit, or
\* nothing.
LEMMA ParkStep ==
  ASSUME SerialOK, ParkSteps
  PROVE  [Next]_vars
<1>1. CASE ParkSwaps
  <2>1. CASE UNCHANGED vars
    BY <2>1
  <2>2. CASE \E p \in Parks : Attach(p, Unknown)
    <3>1. PICK p \in Parks : Attach(p, Unknown)
      BY <2>2
    <3>2. p \in Receivers
      BY SinkAssumption
    <3>3. QED
      BY <3>1, <3>2, HostAnchors DEF Next
  <2>3. QED
    BY <1>1, <2>1, <2>2 DEF ParkSwaps
<1>2. CASE ParkOwesExit
  <2>1. SendOwedExit(serial.to) /\ serial.to \in Receivers
    BY <1>2, SinkAssumption DEF ParkOwesExit, SerialOK
  <2>2. QED
    BY <2>1 DEF Next
<1>3. CASE \E w \in waiting : ParkSkips(w) \/ ParkBegins(w)
  BY <1>3 DEF ParkSkips, ParkBegins
<1>4. QED
  BY <1>1, <1>2, <1>3 DEF ParkSteps

\* An adopt, a close, the process: the manager's own operation, or nothing.
LEMMA SessionStep ==
  ASSUME \/ AdoptRetains \/ AdoptParks \/ \E o \in Owners : AdoptBegins(o)
         \/ CloseSession \/ CloseAll \/ CloseEnds \/ ProcessEnds
  PROVE  [Next]_vars
<1>1. CASE AdoptRetains \/ AdoptParks \/ CloseAll \/ ProcessEnds
  BY <1>1 DEF AdoptRetains, AdoptParks, CloseAll, ProcessEnds
<1>2. CASE \E o \in Owners : AdoptBegins(o)
  BY <1>2 DEF AdoptBegins, Next
<1>3. CASE CloseSession \/ CloseEnds
  BY <1>3 DEF CloseSession, CloseEnds, Next
<1>4. QED
  BY <1>1, <1>2, <1>3

\* What a connection's own tasks do, the manager does not see.
ConnStep(c) ==
  \/ \E g \in Gates : AttachBegins(c, g)
  \/ AttachRechecks(c)
  \/ OtherLine(c)
  \/ Writes(c)
  \/ WriteFails(c)
  \/ AsksDetach(c)
  \/ ReadLoopEnds(c)
  \/ ClientLeaves(c)
  \/ TeardownEnds(c)

\* What connections do is a stutter of the session.
LEMMA ConnStepIsSilent ==
  ASSUME NEW c \in Conns, ConnStep(c)
  PROVE  UNCHANGED vars
  BY DEF ConnStep, AttachBegins, AttachRechecks, OtherLine, Writes, WriteFails, AsksDetach,
         ReadLoopEnds, ClientLeaves, Closed, TeardownEnds

\* The disjuncts of HostNext, grouped.
LEMMA HostNextCases ==
  HostNext =>
    \/ HostRecord \/ Sink
    \/ AttachSteps
    \/ ParkSteps
    \/ AdoptRetains \/ AdoptParks \/ \E o \in Owners : AdoptBegins(o)
    \/ CloseSession \/ CloseAll \/ CloseEnds \/ ProcessEnds
    \/ \E c \in Conns : ConnStep(c)
  BY DEF HostNext, ConnStep

\* Every step of the host's is one of the manager's or leaves its variables alone.
LEMMA HostStep ==
  ASSUME SerialOK, [HostNext]_allVars
  PROVE  [Next]_vars
<1>1. CASE UNCHANGED allVars
  BY <1>1 DEF allVars
<1>2. CASE HostNext
  BY <1>2, HostNextCases, ReaderStep, AttachStep, ParkStep, SessionStep, ConnStepIsSilent
<1>3. QED
  BY <1>1, <1>2

-----------------------------------------------------------------------------
(***************************************************************************)
(* The sink brought to the manager is always the right kind.               *)
(***************************************************************************)

\* Free holds nothing; Holding is by its fields.
LEMMA SerialFields ==
  /\ Free.op = "free"
  /\ \A op, at, c, g : LET h == Holding(op, at, c, g)
                       IN h.op = op /\ h.at = at /\ h.to = g
  BY DEF Free, Holding

\* Steps that leave the attach lock alone, or release it.
LEMMA SerialKept ==
  ASSUME SerialOK, serial' = serial \/ serial' = Free
  PROVE  SerialOK'
  BY SerialFields DEF SerialOK

\* Every step keeps SerialOK.
LEMMA SerialStep ==
  ASSUME SerialOK, [HostNext]_allVars
  PROVE  SerialOK'
<1>1. CASE UNCHANGED allVars
  BY <1>1, SerialKept DEF allVars, hostVars
<1>2. CASE HostRecord \/ Sink
  BY <1>2, SerialKept DEF HostRecord, Sink, SinkParked, SinkMarksEnded, PaceClears, PaceGivesUp,
                          PaceStalls, GateDelivers
<1>3. CASE AttachSteps
  <2>1. CASE AttachRefused \/ AttachAnswers \/ AttachOwesExit
    BY <2>1, SerialKept DEF AttachRefused, AttachAnswers, AttachOwesExit, AttachReturns
  <2>2. CASE AttachSwaps
    BY <2>2, SerialFields DEF AttachSwaps, SerialOK
  <2>3. CASE AttachRoutes
    BY <2>3, SerialFields DEF AttachRoutes, SerialOK
  <2>4. QED
    BY <1>3, <2>1, <2>2, <2>3 DEF AttachSteps
<1>4. CASE ParkSteps
  <2>1. CASE ParkSwaps
    <3>1. CASE serial' = Free
      BY <3>1, SerialKept
    <3>2. CASE \E p \in Parks : serial' = Holding(serial.op, "owes", serial.conn, p)
      BY <2>1, <3>2, SerialFields DEF ParkSwaps, SerialOK
    <3>3. QED
      BY <2>1, <3>1, <3>2 DEF ParkSwaps
  <2>2. CASE ParkOwesExit
    BY <2>2, SerialKept DEF ParkOwesExit
  <2>3. CASE \E w \in waiting : ParkSkips(w)
    BY <2>3, SerialKept DEF ParkSkips
  <2>4. CASE \E w \in waiting : ParkBegins(w)
    BY <2>4, SerialFields DEF ParkBegins, SerialOK
  <2>5. QED
    BY <1>4, <2>1, <2>2, <2>3, <2>4 DEF ParkSteps
<1>5. CASE AdoptParks
  BY <1>5, SerialFields DEF AdoptParks, SerialOK
<1>6. CASE AdoptRetains \/ (\E o \in Owners : AdoptBegins(o)) \/ CloseSession \/ CloseAll
           \/ CloseEnds \/ ProcessEnds
  BY <1>6, SerialKept DEF AdoptRetains, AdoptBegins, CloseSession, CloseAll, CloseEnds, ProcessEnds
<1>7. CASE \E c \in Conns : ConnStep(c)
  <2>1. CASE \E c \in Conns, g \in Gates : AttachBegins(c, g)
    BY <2>1, SerialFields DEF AttachBegins, SerialOK
  <2>2. CASE \E c \in Conns : AttachRechecks(c) \/ OtherLine(c) \/ Writes(c) \/ WriteFails(c)
                                \/ AsksDetach(c) \/ ReadLoopEnds(c) \/ ClientLeaves(c)
                                \/ TeardownEnds(c)
    BY <2>2, SerialKept DEF AttachRechecks, OtherLine, Writes, WriteFails, AsksDetach,
                            ReadLoopEnds, ClientLeaves, Closed, TeardownEnds
  <2>3. QED
    BY <1>7, <2>1, <2>2 DEF ConnStep
<1>8. QED
  BY <1>1, <1>2, <1>3, <1>4, <1>5, <1>6, <1>7, HostNextCases

-----------------------------------------------------------------------------
\* The attach lock's holder brings the manager a sink of its own kind.
THEOREM SerialIsRight == HostSpec => []SerialOK
<1>1. HostInit => SerialOK
  BY SerialFields DEF HostInit, SerialOK
<1>2. QED
  BY <1>1, SerialStep, PTL DEF HostSpec

(***************************************************************************)
(* The host's handling of a session implements the session: attach, park,  *)
(* adopt, close and the connections' steps, in any order.                  *)
(***************************************************************************)
THEOREM HostImplementsStream == HostSpec => Spec
<1>1. HostInit => Init
  BY DEF HostInit
<1>2. QED
  BY <1>1, SerialIsRight, HostStep, PTL DEF HostSpec, Spec

\* So a gate's replay and its live output meet exactly in the host too: each
\* chunk reaches the attach's sink once, whatever park or adopt comes between.
THEOREM HostReplayMeetsLive == HostSpec => []EachChunkOnce
  BY HostImplementsStream, ReplayMeetsLive, PTL

\* ... and the exit comes to a gate once and after everything.
THEOREM HostExitComesOnceAndLast == HostSpec => []ExitOnceAndLast
  BY HostImplementsStream, ExitComesOnceAndLast, PTL

-----------------------------------------------------------------------------
GateState ==
  [conn : Conns \cup {NoConn}, start : 0..MaxSeq, open : BOOLEAN, pending : Seq(Line),
   exitSent : BOOLEAN, retired : BOOLEAN]
ConnState == [st : {"up", "closed", "gone"}, closing : BOOLEAN, writing : BOOLEAN, q : Seq(Line)]
View ==
  [of : Gates \cup {NoGate}, count : Nat, over : BOOLEAN,
   foreign : BOOLEAN, gap : BOOLEAN, early : BOOLEAN]
Attaching ==
  [op : {"attach"}, at : {"swapped", "attached", "routed", "dead"}, conn : Conns, to : Gates]

\* Who holds the attach lock: an attach of a gate not open yet, or a park.  The current gate
\* is some attach's.
SerialTyped ==
  /\ \/ serial = Free
     \/ serial \in Attaching /\ gate[serial.to].conn = serial.conn /\ ~gate[serial.to].open
     \/ serial.op \in {"park", "adopt"} /\ serial.at = "swapped"
     \/ serial.op \in {"park", "adopt"} /\ serial.at = "owes" /\ serial.to \in Parks
  /\ cur \in Gates => gate[cur].conn \in Conns

FieldsTyped ==
  /\ hostHas \in BOOLEAN /\ alive \in BOOLEAN /\ ended \in BOOLEAN /\ maybeLost \in BOOLEAN
  /\ route \in Conns \cup {NoConn} /\ cur \in Gates \cup {NoGate}
  /\ call \in {"idle", "called", "through"} /\ (call = "idle" <=> pump.at # "handing")
  /\ waiting \subseteq Conns \X {"asks", "sweep"} /\ returned \subseteq Conns
  /\ adopting \in {"no", "adopted", "kept"}
  /\ closer \in {"no", "killed", "closed", "drained", "ended"}

\* A connection that is not closing is up and written to; a gate that is attached or open
\* has a connection.
LinksTyped ==
  /\ gate \in [Gates -> GateState] /\ conn \in [Conns -> ConnState] /\ view \in [Conns -> View]
  /\ \A c \in Conns : /\ Len(conn[c].q) <= OutLimit
                      /\ ~conn[c].closing => conn[c].st = "up" /\ conn[c].writing
  /\ \A g \in Gates : rx[g].attached \/ gate[g].open => gate[g].conn \in Conns

Typing == FieldsTyped /\ LinksTyped /\ SerialTyped

-----------------------------------------------------------------------------
(***************************************************************************)
(* Lines, queues, gates.                                                   *)
(***************************************************************************)

\* The bounds are naturals.
LEMMA Bounds == MaxSeq \in Nat /\ MaxLen \in Nat /\ OutLimit \in Nat /\ PaceHigh \in Nat
  BY CapAssumption, CapsAssumption

\* A line by its kind.
LEMMA LineKinds ==
  ASSUME NEW l \in Line
  PROVE  /\ l.t \in {"resp", "data", "exit", "other"}
         /\ l.t # "other" => l.g \in Gates
         /\ l.t = "resp" => l.at \in 0..MaxSeq
         /\ l.t = "data" => l.from \in 0..MaxSeq /\ l.len \in 1..MaxLen
  BY DEF Line, Other

\* What the host writes are lines.
LEMMA LinesMade ==
  /\ Other \in Line /\ Other.t = "other"
  /\ \A g \in Gates : Exit(g) \in Line /\ Exit(g).t = "exit" /\ Exit(g).g = g
  /\ \A g \in Gates, at \in 0..MaxSeq :
       Resp(g, at) \in Line /\ Resp(g, at).t = "resp" /\ Resp(g, at).g = g /\ Resp(g, at).at = at
  /\ \A g \in Gates, from \in 0..MaxSeq, n \in 1..MaxLen :
       /\ Data(g, from, n) \in Line /\ Data(g, from, n).t = "data" /\ Data(g, from, n).g = g
       /\ Data(g, from, n).from = from /\ Data(g, from, n).len = n
<1>1. Other \in Line /\ Other.t = "other"
  BY DEF Line, Other
<1>2. \A g \in Gates : Exit(g) \in Line /\ Exit(g).t = "exit" /\ Exit(g).g = g
  BY DEF Line, Exit
<1>3. \A g \in Gates, at \in 0..MaxSeq :
       Resp(g, at) \in Line /\ Resp(g, at).t = "resp" /\ Resp(g, at).g = g /\ Resp(g, at).at = at
  BY DEF Line, Resp
<1>4. \A g \in Gates, from \in 0..MaxSeq, n \in 1..MaxLen :
       /\ Data(g, from, n) \in Line /\ Data(g, from, n).t = "data" /\ Data(g, from, n).g = g
       /\ Data(g, from, n).from = from /\ Data(g, from, n).len = n
  BY DEF Line, Data
<1>5. QED
  BY <1>1, <1>2, <1>3, <1>4

\* One sequence after another.
LEMMA Appended ==
  ASSUME NEW S, NEW s \in Seq(S), NEW t \in Seq(S)
  PROVE  /\ s \o t \in Seq(S) /\ Len(s) \in Nat /\ Len(t) \in Nat /\ Len(s \o t) = Len(s) + Len(t)
         /\ \A i \in 1..Len(s) : (s \o t)[i] = s[i]
         /\ \A i \in 1..Len(t) : (s \o t)[Len(s) + i] = t[i]
  BY ConcatProperties

\* One element.
LEMMA Single ==
  ASSUME NEW S, NEW e \in S
  PROVE  <<e>> \in Seq(S) /\ Len(<<e>>) = 1 /\ <<e>>[1] = e
  OBVIOUS

\* A set of naturals that is not empty has a least element.
LEMMA LeastOne ==
  ASSUME NEW T \in SUBSET Nat, T # {}
  PROVE  \E x \in T : \A y \in T : x <= y
<1> DEFINE R == OpToRel(<, Nat)
<1>1. IsWellFoundedOn(R, Nat)
  BY NatLessThanWellFounded
<1>2. \A m, n \in Nat : <<m, n>> \in R <=> m < n
  BY DEF OpToRel
<1> HIDE DEF R
<1>3. PICK x \in T : \A y \in T : <<y, x>> \notin R
  BY <1>1, WFMin
<1>4. \A y \in T : y \in Nat /\ x \in Nat /\ ~(y < x)
  BY <1>2, <1>3
<1>5. QED
  BY <1>4

\* The first few of a sequence.
LEMMA FirstFew ==
  ASSUME NEW S, NEW s \in Seq(S), NEW n \in Nat, n <= Len(s)
  PROVE  SubSeq(s, 1, n) \in Seq(S) /\ Len(SubSeq(s, 1, n)) = n
         /\ \A i \in 1..n : SubSeq(s, 1, n)[i] = s[i]
  OBVIOUS

\* Gate::emit sends the lines through the first exit.
LEMMA EmittedFacts ==
  ASSUME NEW lines \in Seq(Line)
  PROVE  LET out == Emitted(lines)
         IN /\ out \in Seq(Line) /\ Len(out) <= Len(lines)
            /\ \A i \in 1..Len(out) : out[i] = lines[i]
            /\ \A i \in 1..Len(out) : out[i].t = "exit" => i = Len(out)
            /\ (\A i \in 1..Len(out) : out[i].t # "exit") => out = lines
<1> DEFINE exits == {i \in 1..Len(lines) : lines[i].t = "exit"}
           last == SelectInSeq(lines, LAMBDA l : l.t = "exit")
<1>1. last = IF exits # {} THEN Min(exits) ELSE 0
  BY DEF SelectInSeq
<1>2. Emitted(lines) = IF last = 0 THEN lines ELSE SubSeq(lines, 1, last)
  BY DEF Emitted
<1>3. CASE exits = {}
  <2>1. Emitted(lines) = lines
    BY <1>1, <1>2, <1>3
  <2>2. \A i \in 1..Len(lines) : lines[i].t # "exit"
    BY <1>3
  <2>3. QED
    BY <2>1, <2>2
<1>4. CASE exits # {}
  <2>1. exits \in SUBSET Nat
    OBVIOUS
  <2>2. \E x \in exits : \A y \in exits : x <= y
    BY <1>4, <2>1, LeastOne
  <2>3. PICK n \in exits : n = Min(exits) /\ \A y \in exits : n <= y
    BY <2>2 DEF Min
  <2>4. n \in Nat /\ n # 0 /\ n <= Len(lines) /\ lines[n].t = "exit"
    OBVIOUS
  <2>5. Emitted(lines) = SubSeq(lines, 1, n)
    BY <1>1, <1>2, <1>4, <2>3, <2>4
  <2>6. PICK out \in Seq(Line) :
          /\ out = Emitted(lines) /\ Len(out) = n
          /\ \A i \in 1..n : out[i] = lines[i]
    BY <2>4, <2>5, FirstFew
  <2>7. \A i \in 1..n : lines[i].t = "exit" => i = n
    <3>1. SUFFICES ASSUME NEW i \in 1..n, lines[i].t = "exit" PROVE i = n
      OBVIOUS
    <3>2. i \in exits
      BY <2>4, <3>1
    <3>3. QED
      BY <2>3, <2>4, <3>2
  <2>8. n \in 1..Len(out)
    BY <2>4, <2>6
  <2> HIDE DEF exits, last
  <2>9. QED
    BY <2>4, <2>6, <2>7, <2>8
<1>5. QED
  BY <1>3, <1>4

\* Out::send of several lines: while the link is not being dropped, all of them are queued.
LEMMA SendAllFacts ==
  ASSUME NEW k \in ConnState, NEW lines \in Seq(Line), Len(k.q) <= OutLimit,
         ~k.closing => k.writing
  PROVE  LET sent == SendAll(k, lines)
         IN /\ sent \in ConnState /\ sent.st = k.st /\ sent.writing = k.writing
            /\ k.closing => sent.closing
            /\ Len(sent.q) <= OutLimit
            /\ ~sent.closing => sent.q = k.q \o lines
<1> DEFINE fitting == IF Len(lines) <= Room(k) THEN lines ELSE SubSeq(lines, 1, Room(k))
           over == Len(lines) > Room(k)
<1>1. k.q \in Seq(Line) /\ Len(k.q) \in Nat /\ Len(lines) \in Nat /\ Room(k) \in Nat
      /\ k.closing \in BOOLEAN /\ k.writing \in BOOLEAN
  BY Bounds DEF ConnState, Room
<1>2. fitting \in Seq(Line) /\ Len(fitting) <= Room(k)
  <2>1. CASE Len(lines) <= Room(k)
    BY <2>1
  <2>2. CASE ~(Len(lines) <= Room(k))
    BY <1>1, <2>2, FirstFew
  <2>3. QED
    BY <2>1, <2>2
<1>3. k.q \o fitting \in Seq(Line) /\ Len(k.q \o fitting) = Len(k.q) + Len(fitting)
  BY <1>1, <1>2, Appended
<1>4. Len(k.q \o fitting) <= OutLimit
  <2>1. Len(fitting) \in Nat
    BY <1>2
  <2> HIDE DEF fitting
  <2>2. Len(k.q) + Len(fitting) <= OutLimit
    BY <1>1, <1>2, <2>1, Bounds DEF Room
  <2>3. QED
    BY <1>3, <2>2
<1>5. CASE ~k.writing /\ Room(k) > 0
  BY <1>5, <1>1 DEF SendAll
<1>6. CASE ~(~k.writing /\ Room(k) > 0)
  <2>1. SendAll(k, lines) = [k EXCEPT !.q = k.q \o fitting, !.closing = k.closing \/ over]
    BY <1>6 DEF SendAll
  <2>2. PICK q \in Seq(Line) : q = k.q \o fitting
    BY <1>3
  <2>3. PICK dropped \in BOOLEAN : dropped = (k.closing \/ over)
    OBVIOUS
  <2>4. SendAll(k, lines) = [k EXCEPT !.q = q, !.closing = dropped]
    BY <2>1, <2>2, <2>3
  <2> HIDE DEF fitting
  <2>5. LET sent == SendAll(k, lines)
        IN /\ sent \in ConnState /\ sent.st = k.st /\ sent.writing = k.writing
           /\ sent.closing = dropped /\ sent.q = q
    BY <2>4 DEF ConnState
  <2>6. ~dropped => q = k.q \o lines
    BY <1>1, <2>2, <2>3 DEF fitting
  <2>7. QED
    BY <1>4, <2>2, <2>3, <2>5, <2>6
<1>7. QED
  BY <1>5, <1>6
-----------------------------------------------------------------------------
(***************************************************************************)
(* What the actions do, field by field.                                    *)
(***************************************************************************)

\* Lines are sent to c, and to nobody else.
Sent(c, lines) ==
  /\ conn' \in [Conns -> ConnState] /\ \A d \in Conns \ {c} : conn'[d] = conn[d]
  /\ conn'[c].st = conn[c].st /\ conn'[c].writing = conn[c].writing
  /\ conn[c].closing => conn'[c].closing
  /\ Len(conn'[c].q) <= OutLimit
  /\ ~conn'[c].closing => conn'[c].q = conn[c].q \o lines

\* A connection becomes k.
LEMMA ConnBecomes ==
  ASSUME NEW c \in Conns, NEW k \in ConnState, conn \in [Conns -> ConnState],
         conn' = [conn EXCEPT ![c] = k]
  PROVE  conn' \in [Conns -> ConnState] /\ conn'[c] = k /\ \A d \in Conns \ {c} : conn'[d] = conn[d]
  OBVIOUS

\* A gate becomes v.
LEMMA GateBecomes ==
  ASSUME NEW g \in Gates, NEW v \in GateState, gate \in [Gates -> GateState],
         gate' = [gate EXCEPT ![g] = v]
  PROVE  gate' \in [Gates -> GateState] /\ gate'[g] = v /\ \A h \in Gates \ {g} : gate'[h] = gate[h]
  OBVIOUS

\* Sending is SendAll on one connection.
LEMMA Sending ==
  ASSUME LinksTyped, NEW c \in Conns, NEW lines \in Seq(Line),
         conn' = [conn EXCEPT ![c] = SendAll(conn[c], lines)]
  PROVE  Sent(c, lines)
<1>1. conn[c] \in ConnState /\ Len(conn[c].q) <= OutLimit /\ (~conn[c].closing => conn[c].writing)
  BY DEF LinksTyped
<1>2. PICK k \in ConnState :
        /\ k = SendAll(conn[c], lines) /\ k.st = conn[c].st /\ k.writing = conn[c].writing
        /\ conn[c].closing => k.closing
        /\ Len(k.q) <= OutLimit
        /\ ~k.closing => k.q = conn[c].q \o lines
  BY <1>1, SendAllFacts
<1>3. conn' \in [Conns -> ConnState] /\ conn'[c] = k /\ \A d \in Conns \ {c} : conn'[d] = conn[d]
  BY <1>2, ConnBecomes DEF LinksTyped
<1>4. QED
  BY <1>2, <1>3 DEF Sent

\* What holds on to its connection, and is open or retired as before.
GatesKept ==
  /\ gate' \in [Gates -> GateState]
  /\ \A g \in Gates : /\ gate'[g].conn = gate[g].conn
                      /\ gate'[g].open = gate[g].open
                      /\ gate'[g].retired = gate[g].retired

\* Delivering a line to gate g, field by field.
GateTakes(g, line) ==
  /\ GatesKept
  /\ \A h \in Gates \ {g} : gate'[h] = gate[h]
  /\ gate'[g].start = gate[g].start
  /\ gate'[g].exitSent = (gate[g].exitSent \/ (line.t = "exit" /\ gate[g].open /\ ~gate[g].retired))
  /\ gate'[g].pending = IF gate[g].open \/ gate[g].retired THEN gate[g].pending
                        ELSE gate[g].pending \o <<line>>
  /\ IF gate[g].open /\ ~gate[g].retired /\ ~gate[g].exitSent
     THEN Sent(gate[g].conn, <<line>>)
     ELSE UNCHANGED conn

\* Delivered sends at an open gate, and keeps for the answer at one that is not.
LEMMA DeliveredDoes ==
  ASSUME LinksTyped, NEW g \in Gates, NEW line \in Line, Delivered(g, line)
  PROVE  GateTakes(g, line)
<1>1. gate \in [Gates -> GateState] /\ gate[g] \in GateState
  BY DEF LinksTyped
<1>2. gate[g].pending \in Seq(Line) /\ gate[g].exitSent \in BOOLEAN
      /\ gate[g].open \in BOOLEAN /\ gate[g].retired \in BOOLEAN
  BY <1>1 DEF GateState
<1>3. PICK longer \in Seq(Line) : longer = gate[g].pending \o <<line>>
  BY <1>2, Single, Appended
<1>4. Append(gate[g].pending, line) = longer
  BY <1>2, <1>3
<1>5. PICK told \in BOOLEAN : told = (gate[g].exitSent \/ line.t = "exit")
  OBVIOUS
<1>6. PICK v \in GateState :
        v = IF gate[g].retired THEN gate[g]
            ELSE IF gate[g].open THEN [gate[g] EXCEPT !.exitSent = told]
            ELSE [gate[g] EXCEPT !.pending = longer]
  BY <1>1 DEF GateState
<1>7. gate' = [gate EXCEPT ![g] = v]
  <2>1. gate' = IF gate[g].retired THEN gate
                ELSE IF gate[g].open
                     THEN [gate EXCEPT ![g].exitSent = gate[g].exitSent \/ line.t = "exit"]
                ELSE [gate EXCEPT ![g].pending = Append(gate[g].pending, line)]
    BY <1>1 DEF Delivered
  <2>2. CASE gate[g].retired
    BY <1>1, <1>6, <2>1, <2>2
  <2>3. CASE ~gate[g].retired /\ gate[g].open
    BY <1>5, <1>6, <2>1, <2>3
  <2>4. CASE ~gate[g].retired /\ ~gate[g].open
    BY <1>4, <1>6, <2>1, <2>4
  <2>5. QED
    BY <2>2, <2>3, <2>4
<1>8. gate' \in [Gates -> GateState] /\ gate'[g] = v /\ \A h \in Gates \ {g} : gate'[h] = gate[h]
  BY <1>1, <1>7, GateBecomes
<1>9. /\ v.conn = gate[g].conn /\ v.open = gate[g].open /\ v.retired = gate[g].retired
      /\ v.start = gate[g].start
      /\ v.exitSent = IF gate[g].open /\ ~gate[g].retired THEN told ELSE gate[g].exitSent
      /\ v.pending = IF gate[g].open \/ gate[g].retired THEN gate[g].pending ELSE longer
  BY <1>1, <1>2, <1>6 DEF GateState
<1>10. GatesKept
  BY <1>8, <1>9 DEF GatesKept
<1>11. IF gate[g].open /\ ~gate[g].retired /\ ~gate[g].exitSent
       THEN Sent(gate[g].conn, <<line>>) ELSE UNCHANGED conn
  <2>1. CASE gate[g].open /\ ~gate[g].retired /\ ~gate[g].exitSent
    <3>1. gate[g].conn \in Conns
      BY <2>1 DEF LinksTyped
    <3>2. conn' = [conn EXCEPT ![gate[g].conn] = SendAll(conn[gate[g].conn], <<line>>)]
      BY <2>1 DEF Delivered, Send
    <3>3. QED
      BY <2>1, <3>1, <3>2, Single, Sending
  <2>2. CASE ~(gate[g].open /\ ~gate[g].retired /\ ~gate[g].exitSent)
    BY <2>2 DEF Delivered
  <2>3. QED
    BY <2>1, <2>2
<1>12. QED
  BY <1>2, <1>3, <1>5, <1>8, <1>9, <1>10, <1>11 DEF GateTakes

\* A swap retires the current gate and installs the next, if there is one.
Swapped(next, made) ==
  /\ cur' = next
  /\ gate' \in [Gates -> GateState]
  /\ \A g \in Gates :
       IF g = cur
       THEN /\ gate'[g].retired
            /\ gate'[g].conn = gate[g].conn /\ gate'[g].start = gate[g].start
            /\ gate'[g].open = gate[g].open /\ gate'[g].pending = gate[g].pending
            /\ gate'[g].exitSent = gate[g].exitSent
       ELSE IF g = next THEN gate'[g] = made ELSE gate'[g] = gate[g]

\* SwapGate, gate by gate.
LEMMA SwapGateDoes ==
  ASSUME gate \in [Gates -> GateState], NEW next \in Gates \cup {NoGate}, NEW made,
         next \in Gates => made \in GateState, SwapGate(next, made)
  PROVE  Swapped(next, made)
<1>1. gate' = [g \in Gates |-> IF g = cur THEN [gate[g] EXCEPT !.retired = TRUE]
                               ELSE IF g = next THEN made ELSE gate[g]]
  BY DEF SwapGate
<1>2. \A v \in GateState :
        LET w == [v EXCEPT !.retired = TRUE]
        IN /\ w \in GateState /\ w.retired /\ w.conn = v.conn /\ w.start = v.start
           /\ w.open = v.open /\ w.pending = v.pending /\ w.exitSent = v.exitSent
  BY DEF GateState
<1>3. ASSUME NEW g \in Gates
      PROVE  /\ gate'[g] \in GateState
             /\ IF g = cur
                THEN /\ gate'[g].retired
                     /\ gate'[g].conn = gate[g].conn /\ gate'[g].start = gate[g].start
                     /\ gate'[g].open = gate[g].open /\ gate'[g].pending = gate[g].pending
                     /\ gate'[g].exitSent = gate[g].exitSent
                ELSE IF g = next THEN gate'[g] = made ELSE gate'[g] = gate[g]
  <2>1. gate[g] \in GateState
    OBVIOUS
  <2>2. CASE g = cur
    <3>1. gate'[g] = [gate[g] EXCEPT !.retired = TRUE]
      BY <1>1, <2>2
    <3>2. QED
      BY <1>2, <2>1, <2>2, <3>1
  <2>3. CASE g # cur
    BY <1>1, <2>1, <2>3
  <2>4. QED
    BY <2>2, <2>3
<1>4. gate' = [g \in Gates |-> gate'[g]]
  BY <1>1
<1>5. gate' \in [Gates -> GateState]
  BY <1>3, <1>4
<1>6. cur' = next
  BY DEF SwapGate
<1>7. QED
  BY <1>3, <1>5, <1>6 DEF Swapped

\* HandOver counts the chunk at the receiver it was taken for, and lets go of it.
LEMMA HandedOver ==
  ASSUME StreamInv, HandOver
  PROVE  /\ pump.at = "handing" /\ pump.to \in Receivers /\ pump.len \in 0..MaxLen
         /\ pump'.at # "handing"
         /\ \A r \in Receivers :
              /\ rx'[r].attached = rx[r].attached
              /\ rx'[r].count = IF r = pump.to THEN rx[r].count + pump.len ELSE rx[r].count
              /\ rx'[r].exits = IF r = pump.to /\ pump.len = 0 THEN rx[r].exits + 1 ELSE rx[r].exits
         /\ UNCHANGED <<ringVars, registered, owner, sink, owed>>
<1>1. pump.at = "handing" /\ pump.to \in Receivers /\ pump.len \in 0..MaxLen /\ rx \in [Receivers -> Received]
  BY DEF HandOver, StreamInv, TypeOK, Reading, Done
<1>2. rx' = [rx EXCEPT ![pump.to] = Given(rx[pump.to], pump.from, pump.len)]
  BY DEF HandOver
<1>3. \A v, from, n : /\ Given(v, from, n).attached = v.attached
                      /\ Given(v, from, n).count = v.count + n
                      /\ Given(v, from, n).exits = IF n = 0 THEN v.exits + 1 ELSE v.exits
  BY DEF Given
<1>4. ASSUME NEW r \in Receivers
      PROVE  /\ rx'[r].attached = rx[r].attached
             /\ rx'[r].count = IF r = pump.to THEN rx[r].count + pump.len ELSE rx[r].count
             /\ rx'[r].exits = IF r = pump.to /\ pump.len = 0 THEN rx[r].exits + 1 ELSE rx[r].exits
  <2>1. CASE r = pump.to
    BY <1>1, <1>2, <1>3, <2>1
  <2>2. CASE r # pump.to
    BY <1>1, <1>2, <2>2
  <2>3. QED
    BY <2>1, <2>2
<1>5. pump'.at # "handing" /\ UNCHANGED <<ringVars, registered, owner, sink, owed>>
  BY DEF HandOver, Reading, Done
<1>6. QED
  BY <1>1, <1>4, <1>5

-----------------------------------------------------------------------------
(***************************************************************************)
(* Typing.                                                                 *)
(***************************************************************************)

\* Who holds the attach lock, by the operation.
LEMMA SerialSays ==
  ASSUME SerialTyped
  PROVE  /\ Free.op = "free" /\ serial.op \in {"free", "attach", "park", "adopt"}
         /\ serial.op = "free" => serial = Free
         /\ serial = Free => serial \notin Attaching
         /\ serial.op = "attach" =>
              /\ serial \in Attaching
              /\ serial.conn \in Conns /\ serial.to \in Gates
              /\ serial.at \in {"swapped", "attached", "routed", "dead"}
              /\ gate[serial.to].conn = serial.conn /\ ~gate[serial.to].open
         /\ serial \in Attaching => serial.op = "attach"
         /\ serial.op \in {"park", "adopt"} => /\ serial.at \in {"swapped", "owes"}
                                               /\ serial \notin Attaching /\ serial # Free
                                               /\ serial.at = "owes" => serial.to \in Parks
  BY DEF SerialTyped, Free, Attaching

\* Taking the attach lock.
LEMMA HoldingFacts ==
  \A op, at, c, g :
    /\ Holding(op, at, c, g).op = op /\ Holding(op, at, c, g).at = at
    /\ Holding(op, at, c, g).conn = c /\ Holding(op, at, c, g).to = g
    /\ op = "attach" /\ at \in {"swapped", "attached", "routed", "dead"} /\ c \in Conns /\ g \in Gates
         => Holding(op, at, c, g) \in Attaching
  BY DEF Holding, Attaching

\* Connections, gates and clients are left alone, and so is who is attached.
LEMMA LinksKept ==
  ASSUME LinksTyped, UNCHANGED <<gate, conn, view>>, \A g \in Gates : rx'[g].attached = rx[g].attached
  PROVE  LinksTyped'
  BY DEF LinksTyped

\* The lock is held as before, or released.
LEMMA SerialTypedKept ==
  ASSUME SerialTyped, GatesKept, cur' = cur, serial' = serial \/ serial' = Free
  PROVE  SerialTyped'
<1>1. cur' \in Gates => gate'[cur'].conn \in Conns
  BY DEF SerialTyped, GatesKept
<1>2. CASE serial' = Free
  BY <1>1, <1>2 DEF SerialTyped
<1>3. CASE serial' = serial
  <2>1. serial \in Attaching => gate'[serial.to].conn = serial.conn /\ ~gate'[serial.to].open
    BY SerialSays DEF GatesKept
  <2>2. QED
    BY <1>1, <1>3, <2>1, SerialSays DEF SerialTyped
<1>4. QED
  BY <1>2, <1>3

\* Gates that are left alone are kept.
LEMMA GatesStay ==
  ASSUME LinksTyped, gate' = gate
  PROVE  GatesKept
  BY DEF LinksTyped, GatesKept

\* What a delivery leaves typed: gates, the connection it sends to.
LEMMA LinksTake ==
  ASSUME LinksTyped, NEW g \in Gates, NEW line \in Line, GateTakes(g, line), view' = view,
         \A h \in Gates : rx'[h].attached => rx[h].attached
  PROVE  LinksTyped'
<1>1. /\ gate' \in [Gates -> GateState]
      /\ \A h \in Gates : gate'[h].conn = gate[h].conn /\ gate'[h].open = gate[h].open
  BY DEF GateTakes, GatesKept
<1>2. \A h \in Gates : rx'[h].attached \/ gate'[h].open => gate'[h].conn \in Conns
  BY <1>1 DEF LinksTyped
<1>3. /\ conn' \in [Conns -> ConnState]
      /\ \A c \in Conns : /\ Len(conn'[c].q) <= OutLimit
                          /\ ~conn'[c].closing => conn'[c].st = "up" /\ conn'[c].writing
  <2>1. CASE UNCHANGED conn
    BY <2>1 DEF LinksTyped
  <2>2. CASE gate[g].conn \in Conns /\ Sent(gate[g].conn, <<line>>)
    <3>1. PICK c \in Conns : c = gate[g].conn
      BY <2>2
    <3>2. \A d \in Conns : d = c \/ conn'[d] = conn[d]
      BY <2>2, <3>1 DEF Sent
    <3>3. conn' \in [Conns -> ConnState] /\ Len(conn'[c].q) <= OutLimit
          /\ (~conn'[c].closing => conn'[c].st = "up" /\ conn'[c].writing)
      BY <2>2, <3>1 DEF Sent, LinksTyped
    <3>4. QED
      BY <3>2, <3>3 DEF LinksTyped
  <2>3. QED
    BY <2>1, <2>2 DEF GateTakes, LinksTyped
<1>4. QED
  BY <1>1, <1>2, <1>3 DEF LinksTyped

\* What a line sent to one connection leaves typed.
LEMMA LinksSent ==
  ASSUME LinksTyped, NEW c \in Conns, NEW lines, Sent(c, lines), GatesKept, view' = view,
         rx' = rx
  PROVE  LinksTyped'
<1>1. \A d \in Conns : d = c \/ conn'[d] = conn[d]
  BY DEF Sent
<1>2. conn' \in [Conns -> ConnState] /\ Len(conn'[c].q) <= OutLimit
      /\ (~conn'[c].closing => conn'[c].st = "up" /\ conn'[c].writing)
  BY DEF Sent, LinksTyped
<1>3. \A d \in Conns : /\ Len(conn'[d].q) <= OutLimit
                       /\ ~conn'[d].closing => conn'[d].st = "up" /\ conn'[d].writing
  BY <1>1, <1>2 DEF LinksTyped
<1>4. QED
  BY <1>2, <1>3 DEF LinksTyped, GatesKept

\* A connection of another state, typed.
LEMMA LinksBecome ==
  ASSUME LinksTyped, NEW c \in Conns, NEW k \in ConnState, conn' = [conn EXCEPT ![c] = k],
         Len(k.q) <= OutLimit, ~k.closing => k.st = "up" /\ k.writing,
         UNCHANGED <<gate, rx>>, view' \in [Conns -> View]
  PROVE  LinksTyped'
<1>1. conn' \in [Conns -> ConnState] /\ conn'[c] = k /\ \A d \in Conns \ {c} : conn'[d] = conn[d]
  BY ConnBecomes DEF LinksTyped
<1>2. QED
  BY <1>1 DEF LinksTyped

\* A swap of gates leaves them typed.
LEMMA LinksSwap ==
  ASSUME LinksTyped, NEW next, NEW made, Swapped(next, made), UNCHANGED <<conn, view, rx>>,
         \A g \in Gates : g = next =>
            /\ rx[g].attached \/ made.open => made.conn \in Conns
  PROVE  LinksTyped'
  BY DEF LinksTyped, Swapped

\* The reader thread's steps keep the types.
LEMMA ReaderTyping ==
  ASSUME Typing, StreamInv, HostRecord \/ Sink
  PROVE  Typing'
<1> USE DEF Typing
<1>1. CASE HostRecord
  <2>1. /\ pump.at # "handing" /\ rx' = rx
        /\ call' = IF pump'.at = "handing" THEN "called" ELSE "idle"
        /\ UNCHANGED <<hostHas, alive, ended, route, maybeLost, cur, gate, serial, waiting,
                       returned, adopting, closer, conn, view>>
    BY <1>1 DEF HostRecord, Record, RecordExit, Reading
  <2>2. FieldsTyped'
    BY <2>1 DEF FieldsTyped
  <2>3. LinksTyped' /\ SerialTyped'
    BY <2>1, LinksKept, SerialTypedKept, GatesStay
  <2>4. QED
    BY <2>2, <2>3
<1>2. CASE SinkParked \/ PaceGivesUp
  <2>1. /\ HandOver /\ call' = "idle" /\ ended' \in BOOLEAN
        /\ UNCHANGED <<hostHas, alive, route, maybeLost, cur, gate, serial, waiting,
                       returned, adopting, closer, conn, view>>
    BY <1>2 DEF SinkParked, PaceGivesUp, FieldsTyped
  <2>2. \A g \in Gates : rx'[g].attached = rx[g].attached
    BY <2>1, HandedOver, SinkAssumption
  <2>3. FieldsTyped'
    BY <2>1, HandedOver DEF FieldsTyped
  <2>4. LinksTyped' /\ SerialTyped'
    BY <2>1, <2>2, LinksKept, SerialTypedKept, GatesStay
  <2>5. QED
    BY <2>3, <2>4
<1>3. CASE SinkMarksEnded \/ PaceClears
  <2>1. /\ pump.at = "handing" /\ call' = "through" /\ ended' \in BOOLEAN
        /\ UNCHANGED <<vars, hostHas, alive, route, maybeLost, cur, gate, serial, waiting,
                       returned, adopting, closer, conn, view>>
    BY <1>3 DEF SinkMarksEnded, PaceClears, FieldsTyped, Calling
  <2>2. FieldsTyped'
    BY <2>1 DEF FieldsTyped, vars
  <2>3. LinksTyped' /\ SerialTyped'
    BY <2>1, LinksKept, SerialTypedKept, GatesStay DEF vars
  <2>4. QED
    BY <2>2, <2>3
<1>4. CASE PaceStalls
  <2>1. /\ HandOver /\ call' = "idle" /\ pump.to \in Gates
        /\ conn' = [conn EXCEPT ![gate[pump.to].conn].closing = TRUE]
        /\ UNCHANGED <<hostHas, alive, ended, route, maybeLost, cur, gate, serial, waiting,
                       returned, adopting, closer, view>>
    BY <1>4 DEF PaceStalls, Calling
  <2>2. \A g \in Gates : rx'[g].attached = rx[g].attached
    BY <2>1, HandedOver, SinkAssumption
  <2>3. FieldsTyped'
    BY <2>1, HandedOver DEF FieldsTyped
  <2>4. PICK c \in Conns : c = gate[pump.to].conn
    BY <2>1 DEF LinksTyped, StreamInv, HandIsTheLastRecord, HandOver
  <2>5. PICK k \in ConnState : k = [conn[c] EXCEPT !.closing = TRUE]
    BY DEF LinksTyped, ConnState
  <2>6. conn' = [conn EXCEPT ![c] = k] /\ k.q = conn[c].q /\ k.closing
    BY <2>1, <2>4, <2>5 DEF LinksTyped, ConnState
  <2>7. conn' \in [Conns -> ConnState] /\ conn'[c] = k /\ \A d \in Conns \ {c} : conn'[d] = conn[d]
    BY <2>6, ConnBecomes DEF LinksTyped
  <2>8. LinksTyped'
    BY <2>1, <2>2, <2>6, <2>7 DEF LinksTyped
  <2>9. SerialTyped'
    BY <2>1, SerialTypedKept, GatesStay
  <2>10. QED
    BY <2>3, <2>8, <2>9
<1>5. CASE GateDelivers
  <2>1. PICK line \in Line :
          line = IF pump.len = 0 THEN Exit(pump.to) ELSE Data(pump.to, pump.from, pump.len)
    <3>1. pump.at = "handing" /\ pump.to \in Gates
      BY <1>5 DEF GateDelivers, Calling
    <3>2. pump.len \in 0..MaxLen /\ pump.from \in 0..MaxSeq
      BY <3>1 DEF StreamInv, TypeOK, Reading, Done
    <3>3. pump.len = 0 \/ pump.len \in 1..MaxLen
      BY <3>2, Bounds
    <3>4. QED
      BY <3>1, <3>2, <3>3, LinesMade
  <2>2. /\ HandOver /\ call' = "idle" /\ pump.to \in Gates /\ Delivered(pump.to, line)
        /\ UNCHANGED <<hostHas, alive, ended, route, maybeLost, cur, serial, waiting,
                       returned, adopting, closer, view>>
    BY <1>5, <2>1 DEF GateDelivers, Calling
  <2>3. GateTakes(pump.to, line)
    BY <2>2, DeliveredDoes
  <2>4. FieldsTyped'
    BY <2>2, HandedOver DEF FieldsTyped
  <2>5. LinksTyped'
    <3>1. \A g \in Gates : rx'[g].attached => rx[g].attached
      BY <2>2, HandedOver, SinkAssumption
    <3>2. QED
      BY <2>2, <2>3, <3>1, LinksTake
  <2>6. SerialTyped'
    BY <2>2, <2>3, SerialTypedKept DEF GateTakes
  <2>7. QED
    BY <2>4, <2>5, <2>6
<1>6. QED
  BY <1>1, <1>2, <1>3, <1>4, <1>5 DEF Sink

\* An attach's swap gives its gate the position its output starts from.
Started(g) ==
  /\ GatesKept
  /\ \A h \in Gates \ {g} : gate'[h] = gate[h]
  /\ gate'[g].start = seq /\ gate'[g].pending = gate[g].pending /\ gate'[g].exitSent = gate[g].exitSent

\* AttachSwaps does that to the lock holder's gate.
LEMMA SwapStarts ==
  ASSUME Typing, StreamInv, NEW g \in Gates, g = serial.to, AttachSwaps
  PROVE  Started(g)
<1>1. gate' = [gate EXCEPT ![g].start = seq]
  BY DEF AttachSwaps
<1>2. seq \in 0..MaxSeq
  BY Bounds DEF StreamInv, OwedAreComplete, TypeOK, RingTypeOK
<1>3. PICK v \in GateState : v = [gate[g] EXCEPT !.start = seq]
  <2>1. gate[g] \in GateState
    BY DEF Typing, LinksTyped
  <2>2. [gate[g] EXCEPT !.start = seq] \in GateState
    BY <1>2, <2>1 DEF GateState
  <2>3. QED
    BY <2>2
<1>4. /\ gate' = [gate EXCEPT ![g] = v] /\ v.conn = gate[g].conn /\ v.open = gate[g].open
      /\ v.retired = gate[g].retired /\ v.start = seq /\ v.pending = gate[g].pending
      /\ v.exitSent = gate[g].exitSent
  BY <1>1, <1>3 DEF Typing, LinksTyped, GateState
<1>5. gate' \in [Gates -> GateState] /\ gate'[g] = v /\ \A h \in Gates \ {g} : gate'[h] = gate[h]
  BY <1>4, GateBecomes DEF Typing, LinksTyped
<1>6. GatesKept
  BY <1>4, <1>5 DEF GatesKept
<1>7. QED
  BY <1>4, <1>5, <1>6 DEF Started

\* The answer: what was owed, what is sent of it, and what becomes of the gate.
Answered(c, g, owing, out, lines, told) ==
  /\ owing = gate[g].pending \o IF ended \/ serial.at = "dead" THEN <<Exit(g)>> ELSE <<>>
  /\ out = Emitted(owing)
  /\ lines = <<Resp(g, gate[g].start)>> \o out
  /\ told = \E i \in 1..Len(out) : out[i].t = "exit"
  /\ conn' = [conn EXCEPT ![c] = SendAll(conn[c], lines)]
  /\ gate' = [gate EXCEPT ![g].open = TRUE, ![g].pending = <<>>, ![g].exitSent = told]

\* An answer is such a one.
LEMMA AnswersDoes ==
  ASSUME LinksTyped, SerialTyped, NEW c \in Conns, NEW g \in Gates,
         c = serial.conn, g = serial.to, AttachAnswers
  PROVE  \E owing \in Seq(Line), out \in Seq(Line), lines \in Seq(Line), told \in BOOLEAN :
           Answered(c, g, owing, out, lines, told)
<1>1. gate[g].pending \in Seq(Line) /\ gate[g].start \in 0..MaxSeq
  BY DEF LinksTyped, GateState
<1>2. PICK last \in Seq(Line) : last = IF ended \/ serial.at = "dead" THEN <<Exit(g)>> ELSE <<>>
  <2>1. <<Exit(g)>> \in Seq(Line) /\ <<>> \in Seq(Line)
    BY LinesMade, Single
  <2>2. QED
    BY <2>1
<1>3. PICK owing \in Seq(Line) :
        owing = gate[g].pending \o IF ended \/ serial.at = "dead" THEN <<Exit(g)>> ELSE <<>>
  <2>1. PICK both \in Seq(Line) : both = gate[g].pending \o last
    BY <1>1, Appended
  <2>2. both = gate[g].pending \o IF ended \/ serial.at = "dead" THEN <<Exit(g)>> ELSE <<>>
    BY <1>2, <2>1
  <2>3. QED
    BY <2>2
<1>4. PICK out \in Seq(Line) : out = Emitted(owing)
  BY EmittedFacts
<1>5. PICK lines \in Seq(Line) : lines = <<Resp(g, gate[g].start)>> \o out
  BY <1>1, LinesMade, Single, Appended
<1>6. PICK told \in BOOLEAN : told = \E i \in 1..Len(out) : out[i].t = "exit"
  OBVIOUS
<1>7. conn' = [conn EXCEPT ![c] = SendAll(conn[c], lines)]
  <2>1. conn' = [conn EXCEPT ![serial.conn] = SendAll(conn[serial.conn],
                   <<Resp(serial.to, gate[serial.to].start)>>
                     \o Emitted(gate[serial.to].pending
                                  \o IF ended \/ serial.at = "dead" THEN <<Exit(serial.to)>> ELSE <<>>))]
    BY DEF AttachAnswers
  <2>2. QED
    BY <1>3, <1>4, <1>5, <2>1
<1>8. gate' = [gate EXCEPT ![g].open = TRUE, ![g].pending = <<>>, ![g].exitSent = told]
  <2>1. LET o == Emitted(gate[serial.to].pending
                           \o IF ended \/ serial.at = "dead" THEN <<Exit(serial.to)>> ELSE <<>>)
        IN gate' = [gate EXCEPT ![serial.to].open = TRUE, ![serial.to].pending = <<>>,
                                ![serial.to].exitSent = \E i \in 1..Len(o) : o[i].t = "exit"]
    BY DEF AttachAnswers
  <2>2. gate' = [gate EXCEPT ![g].open = TRUE, ![g].pending = <<>>,
                             ![g].exitSent = \E i \in 1..Len(out) : out[i].t = "exit"]
    BY <1>3, <1>4, <2>1
  <2>3. QED
    BY <1>6, <2>2
<1>9. QED
  BY <1>3, <1>4, <1>5, <1>6, <1>7, <1>8 DEF Answered

\* What the answer leaves behind.
Opened(c, g, lines, told) ==
  /\ gate' \in [Gates -> GateState]
  /\ \A h \in Gates \ {g} : gate'[h] = gate[h]
  /\ gate'[g].open /\ gate'[g].pending = <<>> /\ gate'[g].exitSent = told
  /\ gate'[g].conn = gate[g].conn /\ gate'[g].retired = gate[g].retired
  /\ gate'[g].start = gate[g].start
  /\ Sent(c, lines)

\* The answer opens the gate and sends what was owed.
LEMMA AnswerOpens ==
  ASSUME LinksTyped, NEW c \in Conns, NEW g \in Gates, NEW owing, NEW out,
         NEW lines \in Seq(Line), NEW told \in BOOLEAN, Answered(c, g, owing, out, lines, told)
  PROVE  Opened(c, g, lines, told)
<1>1. /\ conn' = [conn EXCEPT ![c] = SendAll(conn[c], lines)]
      /\ gate' = [gate EXCEPT ![g].open = TRUE, ![g].pending = <<>>, ![g].exitSent = told]
  BY DEF Answered
<1>2. PICK none \in Seq(Line) : none = <<>>
  <2>1. <<>> \in Seq(Line)
    OBVIOUS
  <2>2. QED
    BY <2>1
<1>3. PICK v \in GateState : v = [gate[g] EXCEPT !.open = TRUE, !.pending = none, !.exitSent = told]
  BY DEF LinksTyped, GateState
<1>4. /\ gate' = [gate EXCEPT ![g] = v] /\ v.open /\ v.pending = <<>> /\ v.exitSent = told
      /\ v.conn = gate[g].conn /\ v.retired = gate[g].retired /\ v.start = gate[g].start
  BY <1>1, <1>2, <1>3 DEF LinksTyped, GateState
<1>5. gate' \in [Gates -> GateState] /\ gate'[g] = v /\ \A h \in Gates \ {g} : gate'[h] = gate[h]
  BY <1>4, GateBecomes DEF LinksTyped
<1>6. Sent(c, lines)
  BY <1>1, Sending
<1>7. QED
  BY <1>4, <1>5, <1>6 DEF Opened

\* The steps of an attach under way keep the types.
LEMMA AttachTyping ==
  ASSUME Typing, StreamInv, AttachSteps
  PROVE  Typing'
<1> USE DEF Typing
<1>a. serial.op = "attach" /\ serial.conn \in Conns /\ serial.to \in Gates
      /\ gate[serial.to].conn = serial.conn
  BY SerialSays DEF AttachSteps, AttachRefused, AttachSwaps, AttachOwesExit, AttachRoutes, AttachAnswers
<1>b. PICK c \in Conns, g \in Gates : c = serial.conn /\ g = serial.to
  BY <1>a
<1>1. CASE AttachRefused
  <2>1. /\ conn' = [conn EXCEPT ![c] = SendAll(conn[c], <<Other>>)]
        /\ serial' = Free /\ returned' = returned \cup {c}
        /\ UNCHANGED <<vars, hostHas, alive, ended, route, maybeLost, cur, gate, call, waiting,
                       adopting, closer, view>>
    BY <1>1, <1>b DEF AttachRefused, AttachReturns, Send
  <2>2. Sent(c, <<Other>>)
    BY <2>1, Sending, LinesMade, Single
  <2>3. LinksTyped'
    BY <2>1, <2>2, LinksSent, GatesStay DEF vars
  <2>4. FieldsTyped'
    BY <2>1 DEF FieldsTyped, vars
  <2>5. SerialTyped'
    BY <2>1, SerialTypedKept, GatesStay
  <2>6. QED
    BY <2>3, <2>4, <2>5
<1>2. CASE AttachSwaps
  <2>1. /\ Attach(g, Fresh)
        /\ gate' = [gate EXCEPT ![g].start = seq]
        /\ serial' = Holding("attach", "attached", c, g)
        /\ UNCHANGED <<hostHas, alive, ended, route, maybeLost, cur, call, waiting,
                       returned, adopting, closer, conn, view>>
    BY <1>2, <1>b DEF AttachSwaps
  <2>6. GatesKept
    BY <1>2, <1>b, SwapStarts DEF Started
  <2>7. UNCHANGED <<ringVars, pump>> /\ \A h \in Gates \ {g} : rx'[h] = rx[h]
    BY <2>1, SinkAssumption DEF Attach, StreamInv, TypeOK
  <2>8. FieldsTyped'
    BY <2>1, <2>7 DEF FieldsTyped
  <2>9. LinksTyped'
    <3>1. \A h \in Gates : rx'[h].attached \/ gate'[h].open => gate'[h].conn \in Conns
      BY <1>a, <1>b, <2>6, <2>7 DEF LinksTyped, GatesKept
    <3>2. QED
      BY <2>1, <2>6, <3>1 DEF LinksTyped, GatesKept
  <2>10. SerialTyped'
    <3>1. serial' \in Attaching /\ serial'.conn = c /\ serial'.to = g
      BY <2>1, HoldingFacts
    <3>2. gate'[g].conn = c /\ ~gate'[g].open
      BY <1>a, <1>b, <2>6, SerialSays DEF GatesKept
    <3>3. cur' \in Gates => gate'[cur'].conn \in Conns
      BY <2>1, <2>6 DEF SerialTyped, GatesKept
    <3>4. QED
      BY <3>1, <3>2, <3>3 DEF SerialTyped
  <2>11. QED
    BY <2>8, <2>9, <2>10
<1>3. CASE AttachOwesExit
  <2>1. /\ SendOwedExit(g) /\ Delivered(g, Exit(g)) /\ ended' = TRUE
        /\ UNCHANGED <<hostHas, alive, route, maybeLost, cur, call, serial, waiting,
                       returned, adopting, closer, view>>
    BY <1>3, <1>b DEF AttachOwesExit
  <2>2. GateTakes(g, Exit(g)) /\ Exit(g) \in Line
    BY <2>1, DeliveredDoes, LinesMade
  <2>3. pump' = pump /\ \A h \in Gates : rx'[h].attached = rx[h].attached
    BY <2>1, SinkAssumption DEF SendOwedExit, StreamInv, TypeOK, Given
  <2>4. FieldsTyped'
    BY <2>1, <2>3 DEF FieldsTyped
  <2>5. LinksTyped'
    BY <2>1, <2>2, <2>3, LinksTake
  <2>6. SerialTyped'
    BY <2>1, <2>2, SerialTypedKept DEF GateTakes
  <2>7. QED
    BY <2>4, <2>5, <2>6
<1>4. CASE AttachRoutes
  <2>1. /\ route' = c
        /\ \E at \in {"dead", "routed"} : serial' = Holding("attach", at, c, g)
        /\ UNCHANGED <<vars, hostHas, alive, ended, maybeLost, cur, gate, call, waiting,
                       returned, adopting, closer, conn, view>>
    BY <1>4, <1>b DEF AttachRoutes
  <2>2. FieldsTyped'
    BY <2>1 DEF FieldsTyped, vars
  <2>3. LinksTyped'
    BY <2>1, LinksKept DEF vars
  <2>4. SerialTyped'
    <3>1. serial' \in Attaching /\ serial'.conn = c /\ serial'.to = g
      BY <2>1, HoldingFacts
    <3>2. gate[g].conn = c /\ ~gate[g].open
      BY <1>a, <1>b, SerialSays
    <3>3. QED
      BY <2>1, <3>1, <3>2 DEF SerialTyped
  <2>5. QED
    BY <2>2, <2>3, <2>4
<1>5. CASE AttachAnswers
  <2>0. PICK owing \in Seq(Line), out \in Seq(Line), lines \in Seq(Line), told \in BOOLEAN :
          Answered(c, g, owing, out, lines, told)
    BY <1>5, <1>b, AnswersDoes
  <2>1. Opened(c, g, lines, told)
    BY <2>0, AnswerOpens
  <2>2. /\ serial' = Free /\ returned' = returned \cup {c}
        /\ UNCHANGED <<vars, hostHas, alive, ended, route, maybeLost, cur, call, waiting,
                       adopting, closer, view>>
    BY <1>5, <1>b DEF AttachAnswers, AttachReturns
  <2>6. Sent(c, lines)
    BY <2>1 DEF Opened
  <2>7. FieldsTyped'
    BY <2>2 DEF FieldsTyped, vars
  <2>8. LinksTyped'
    <3>1. /\ conn' \in [Conns -> ConnState]
          /\ \A d \in Conns : /\ Len(conn'[d].q) <= OutLimit
                              /\ ~conn'[d].closing => conn'[d].st = "up" /\ conn'[d].writing
      <4>1. \A d \in Conns : d = c \/ conn'[d] = conn[d]
        BY <2>6 DEF Sent
      <4>2. conn' \in [Conns -> ConnState] /\ Len(conn'[c].q) <= OutLimit
            /\ (~conn'[c].closing => conn'[c].st = "up" /\ conn'[c].writing)
        BY <2>6 DEF Sent, LinksTyped
      <4>3. QED
        BY <4>1, <4>2 DEF LinksTyped
    <3>2. \A h \in Gates : rx'[h].attached \/ gate'[h].open => gate'[h].conn \in Conns
      BY <1>a, <1>b, <2>1, <2>2 DEF LinksTyped, Opened, vars
    <3>3. QED
      BY <2>1, <2>2, <3>1, <3>2 DEF LinksTyped, Opened
  <2>9. SerialTyped'
    BY <2>1, <2>2 DEF SerialTyped, Opened
  <2>10. QED
    BY <2>7, <2>8, <2>9
<1>6. QED
  BY <1>1, <1>2, <1>3, <1>4, <1>5 DEF AttachSteps

\* The steps of a park under way, or refused, keep the types.
LEMMA ParkTyping ==
  ASSUME Typing, StreamInv, ParkSteps
  PROVE  Typing'
<1> USE DEF Typing
<1>1. CASE ParkSwaps
  <2>1. /\ serial.op \in {"park", "adopt"}
        /\ UNCHANGED <<hostHas, alive, ended, route, maybeLost, cur, gate, call, waiting,
                       returned, adopting, closer, conn, view>>
    BY <1>1 DEF ParkSwaps
  <2>2. \/ serial' = Free
        \/ serial'.op \in {"park", "adopt"} /\ serial'.at = "owes" /\ serial'.to \in Parks
    BY <1>1, <2>1, HoldingFacts DEF ParkSwaps
  <2>3. pump' = pump /\ \A g \in Gates : rx'[g] = rx[g]
    <3>1. CASE UNCHANGED vars
      BY <3>1 DEF vars
    <3>2. CASE \E p \in Parks : Attach(p, Unknown)
      BY <3>2, SinkAssumption DEF Attach, StreamInv, TypeOK
    <3>3. QED
      BY <1>1, <3>1, <3>2 DEF ParkSwaps
  <2>4. FieldsTyped'
    BY <2>1, <2>3 DEF FieldsTyped
  <2>5. LinksTyped'
    BY <2>1, <2>3, LinksKept
  <2>6. SerialTyped'
    BY <2>1, <2>2 DEF SerialTyped, Free
  <2>7. QED
    BY <2>4, <2>5, <2>6
<1>2. CASE ParkOwesExit
  <2>1. /\ SendOwedExit(serial.to) /\ serial.to \in Parks /\ ended' = TRUE /\ serial' = Free
        /\ UNCHANGED <<hostHas, alive, route, maybeLost, cur, gate, call, waiting,
                       returned, adopting, closer, conn, view>>
    BY <1>2, SerialSays DEF ParkOwesExit
  <2>2. pump' = pump /\ \A g \in Gates : rx'[g] = rx[g]
    BY <2>1, SinkAssumption DEF SendOwedExit, StreamInv, TypeOK
  <2>3. FieldsTyped'
    BY <2>1, <2>2 DEF FieldsTyped
  <2>4. LinksTyped' /\ SerialTyped'
    BY <2>1, <2>2, LinksKept, SerialTypedKept, GatesStay
  <2>5. QED
    BY <2>3, <2>4
<1>3. ASSUME NEW w \in waiting, ParkSkips(w) PROVE Typing'
  <2>1. /\ waiting' = waiting \ {w}
        /\ UNCHANGED <<vars, hostHas, alive, ended, route, maybeLost, cur, gate, call, serial,
                       returned, adopting, closer, conn, view>>
    BY <1>3 DEF ParkSkips
  <2>2. FieldsTyped'
    BY <2>1 DEF FieldsTyped, vars
  <2>3. LinksTyped' /\ SerialTyped'
    BY <2>1, LinksKept, SerialTypedKept, GatesStay DEF vars
  <2>4. QED
    BY <2>2, <2>3
<1>4. ASSUME NEW w \in waiting, ParkBegins(w) PROVE Typing'
  <2>1. /\ waiting' = waiting \ {w} /\ route' = NoConn /\ SwapGate(NoGate, NoAttach)
        /\ serial' = Holding("park", "swapped", w[1], w[2])
        /\ UNCHANGED <<vars, hostHas, alive, ended, maybeLost, call, returned, adopting, closer,
                       conn, view>>
    BY <1>4 DEF ParkBegins
  <2>2. Swapped(NoGate, NoAttach) /\ cur' = NoGate
    BY <2>1, SwapGateDoes, SinkAssumption DEF LinksTyped, Swapped
  <2>3. FieldsTyped'
    BY <2>1, <2>2 DEF FieldsTyped, vars
  <2>4. LinksTyped'
    BY <2>1, <2>2, LinksSwap, SinkAssumption DEF vars
  <2>5. SerialTyped'
    BY <2>1, <2>2, HoldingFacts, SinkAssumption DEF SerialTyped
  <2>6. QED
    BY <2>3, <2>4, <2>5
<1>5. QED
  BY <1>1, <1>2, <1>3, <1>4 DEF ParkSteps

\* A swap that leaves no gate current, with the attach lock held as before.
LEMMA SerialTypedSwap ==
  ASSUME SerialTyped, NEW made, Swapped(NoGate, made), serial' = serial
  PROVE  SerialTyped'
<1>1. cur' = NoGate /\ NoGate \notin Gates
  BY SinkAssumption DEF Swapped
<1>2. \A g \in Gates : gate'[g].conn = gate[g].conn /\ gate'[g].open = gate[g].open
  BY <1>1 DEF Swapped
<1>3. serial \in Attaching => gate'[serial.to].conn = serial.conn /\ ~gate'[serial.to].open
  BY <1>2, SerialSays
<1>4. QED
  BY <1>1, <1>3, SerialSays DEF SerialTyped

\* An adopt, a close, the process: the types are kept.
LEMMA SessionTyping ==
  ASSUME Typing, StreamInv,
         \/ AdoptRetains \/ AdoptParks \/ \E o \in Owners : AdoptBegins(o)
         \/ CloseSession \/ CloseAll \/ CloseEnds \/ ProcessEnds
  PROVE  Typing'
<1> USE DEF Typing
<1>1. CASE AdoptRetains
  <2>1. /\ adopting' \in {"no", "kept"} /\ hostHas' = (hostHas /\ registered)
        /\ SwapGate(NoGate, NoAttach) \/ UNCHANGED <<cur, gate>>
        /\ UNCHANGED <<vars, alive, ended, route, maybeLost, call, serial, waiting,
                       returned, closer, conn, view>>
    BY <1>1 DEF AdoptRetains
  <2>2. CASE SwapGate(NoGate, NoAttach)
    <3>1. Swapped(NoGate, NoAttach) /\ cur' = NoGate
      BY <2>2, SwapGateDoes, SinkAssumption DEF LinksTyped, Swapped
    <3>2. FieldsTyped'
      BY <2>1, <3>1 DEF FieldsTyped, vars
    <3>3. LinksTyped' /\ SerialTyped'
      BY <2>1, <3>1, LinksSwap, SerialTypedSwap, SinkAssumption DEF vars
    <3>4. QED
      BY <3>2, <3>3
  <2>3. CASE UNCHANGED <<cur, gate>>
    <3>1. FieldsTyped'
      BY <2>1, <2>3 DEF FieldsTyped, vars
    <3>2. LinksTyped' /\ SerialTyped'
      BY <2>1, <2>3, LinksKept, SerialTypedKept, GatesStay DEF vars
    <3>3. QED
      BY <3>1, <3>2
  <2>4. QED
    BY <2>1, <2>2, <2>3
<1>2. CASE AdoptParks
  <2>1. /\ adopting' = "no"
        /\ UNCHANGED <<vars, hostHas, alive, ended, call, waiting, returned, closer, conn, view>>
    BY <1>2 DEF AdoptParks
  <2>2. CASE hostHas
    <3>1. /\ route' = NoConn /\ maybeLost' = TRUE /\ SwapGate(NoGate, NoAttach)
          /\ serial' = Holding("adopt", "swapped", NoConn, NoGate)
      BY <1>2, <2>2 DEF AdoptParks
    <3>2. Swapped(NoGate, NoAttach) /\ cur' = NoGate
      BY <3>1, SwapGateDoes, SinkAssumption DEF LinksTyped, Swapped
    <3>3. FieldsTyped'
      BY <2>1, <3>1, <3>2 DEF FieldsTyped, vars
    <3>4. LinksTyped'
      BY <2>1, <3>2, LinksSwap, SinkAssumption DEF vars
    <3>5. SerialTyped'
      BY <3>1, <3>2, HoldingFacts, SinkAssumption DEF SerialTyped
    <3>6. QED
      BY <3>3, <3>4, <3>5
  <2>3. CASE ~hostHas
    <3>1. UNCHANGED <<route, maybeLost, cur, gate, serial>>
      BY <1>2, <2>3 DEF AdoptParks
    <3>2. FieldsTyped'
      BY <2>1, <3>1 DEF FieldsTyped, vars
    <3>3. LinksTyped' /\ SerialTyped'
      BY <2>1, <3>1, LinksKept, SerialTypedKept, GatesStay DEF vars
    <3>4. QED
      BY <3>2, <3>3
  <2>4. QED
    BY <2>2, <2>3
<1>3. CASE CloseAll
  <2>1. /\ hostHas' = FALSE /\ closer' = "drained" /\ SwapGate(NoGate, NoAttach)
        /\ UNCHANGED <<vars, alive, ended, route, maybeLost, call, serial, waiting,
                       returned, adopting, conn, view>>
    BY <1>3 DEF CloseAll
  <2>2. Swapped(NoGate, NoAttach) /\ cur' = NoGate
    BY <2>1, SwapGateDoes, SinkAssumption DEF LinksTyped, Swapped
  <2>3. FieldsTyped'
    BY <2>1, <2>2 DEF FieldsTyped, vars
  <2>4. LinksTyped' /\ SerialTyped'
    BY <2>1, <2>2, LinksSwap, SerialTypedSwap, SinkAssumption DEF vars
  <2>5. QED
    BY <2>3, <2>4
<1>4. CASE (\E o \in Owners : AdoptBegins(o)) \/ CloseSession \/ CloseEnds \/ ProcessEnds
  <2>1. /\ hostHas' \in BOOLEAN /\ alive' \in BOOLEAN /\ adopting' \in {"no", "adopted", "kept"}
        /\ closer' \in {"no", "killed", "closed", "drained", "ended"}
        /\ UNCHANGED <<ended, route, maybeLost, cur, gate, call, serial, waiting, returned, conn, view>>
    BY <1>4 DEF AdoptBegins, CloseSession, CloseEnds, ProcessEnds, FieldsTyped
  <2>2. UNCHANGED <<pump, rx>>
    BY <1>4 DEF AdoptBegins, AdoptOthers, CloseSession, CloseEnds, Close, ProcessEnds, vars
  <2>3. FieldsTyped'
    BY <2>1, <2>2 DEF FieldsTyped
  <2>4. LinksTyped' /\ SerialTyped'
    BY <2>1, <2>2, LinksKept, SerialTypedKept, GatesStay
  <2>5. QED
    BY <2>3, <2>4
<1>5. QED
  BY <1>1, <1>2, <1>3, <1>4

\* What a client has read stays typed.
LEMMA ReadTyped ==
  ASSUME NEW v \in View, NEW l \in Line
  PROVE  Read(v, l) \in View
<1>1. CASE l.t = "resp"
  <2>1. l.g \in Gates /\ l.at \in Nat
    BY <1>1, LineKinds, Bounds
  <2>2. Read(v, l) = [v EXCEPT !.of = l.g, !.count = l.at, !.over = FALSE]
    BY <1>1 DEF Read
  <2>3. QED
    BY <2>1, <2>2 DEF View
<1>2. CASE l.t = "data"
  <2>1. l.len \in Nat /\ v.count + l.len \in Nat
    BY <1>2, LineKinds, Bounds DEF View
  <2>2. PICK n \in Nat, foreign \in BOOLEAN, gap \in BOOLEAN :
          /\ n = v.count + l.len
          /\ foreign = (v.foreign \/ l.g # v.of \/ v.over)
          /\ gap = (v.gap \/ (l.g = v.of /\ l.from # v.count))
    BY <2>1
  <2>3. Read(v, l) = [v EXCEPT !.count = n, !.foreign = foreign, !.gap = gap]
    BY <1>2, <2>2 DEF Read
  <2>4. QED
    BY <2>3 DEF View
<1>3. CASE l.t = "exit"
  <2>1. PICK foreign \in BOOLEAN, early \in BOOLEAN :
          /\ foreign = (v.foreign \/ l.g # v.of \/ v.over)
          /\ early = (v.early \/ ~exited \/ v.count # seq)
    OBVIOUS
  <2>2. Read(v, l) = [v EXCEPT !.over = TRUE, !.foreign = foreign, !.early = early]
    BY <1>3, <2>1 DEF Read
  <2>3. QED
    BY <2>2 DEF View
<1>4. CASE l.t = "other"
  BY <1>4 DEF Read
<1>5. QED
  BY <1>1, <1>2, <1>3, <1>4, LineKinds

\* What a connection's tasks do keeps the types.
LEMMA ConnTyping ==
  ASSUME Typing, NEW c \in Conns, ConnStep(c)
  PROVE  Typing'
<1> USE DEF Typing
<1>0. conn[c] \in ConnState /\ view[c] \in View
  BY DEF LinksTyped
<1>1. ASSUME NEW g \in Gates, AttachBegins(c, g) PROVE Typing'
  <2> DEFINE made == [NoAttach EXCEPT !.conn = c]
  <2>1. /\ serial = Free /\ gate[g].conn = NoConn /\ SwapGate(g, made)
        /\ serial' = Holding("attach", "swapped", c, g)
        /\ UNCHANGED <<vars, hostHas, alive, ended, route, maybeLost, call, waiting,
                       returned, adopting, closer, conn, view>>
    BY <1>1 DEF AttachBegins
  <2>2. made \in GateState /\ made.conn = c /\ ~made.open
    <3>1. <<>> \in Seq(Line) /\ 0 \in 0..MaxSeq
      BY Bounds
    <3>2. QED
      BY <3>1 DEF GateState, NoAttach
  <2> HIDE DEF made
  <2>3. Swapped(g, made) /\ cur' = g
    BY <2>1, <2>2, SwapGateDoes DEF LinksTyped, Swapped
  <2>4. g # cur
    BY <2>1, SinkAssumption DEF SerialTyped
  <2>5. gate'[g] = made
    BY <2>3, <2>4 DEF Swapped
  <2>6. FieldsTyped'
    BY <2>1, <2>3 DEF FieldsTyped, vars
  <2>7. LinksTyped'
    BY <2>1, <2>2, <2>3, LinksSwap DEF vars
  <2>8. SerialTyped'
    <3>1. serial' \in Attaching /\ serial'.conn = c /\ serial'.to = g
      BY <2>1, HoldingFacts
    <3>2. QED
      BY <2>2, <2>3, <2>5, <3>1 DEF SerialTyped
  <2>9. QED
    BY <2>6, <2>7, <2>8
<1>2. CASE AttachRechecks(c) \/ AsksDetach(c)
  <2>1. /\ returned' \subseteq returned /\ waiting' \subseteq waiting \cup {<<c, "asks">>}
        /\ UNCHANGED <<vars, hostHas, alive, ended, route, maybeLost, cur, gate, call, serial,
                       adopting, closer, conn, view>>
    BY <1>2 DEF AttachRechecks, AsksDetach
  <2>2. FieldsTyped'
    BY <2>1 DEF FieldsTyped, vars
  <2>3. LinksTyped' /\ SerialTyped'
    BY <2>1, LinksKept, SerialTypedKept, GatesStay DEF vars
  <2>4. QED
    BY <2>2, <2>3
<1>3. CASE OtherLine(c)
  <2>1. /\ conn' = [conn EXCEPT ![c] = SendAll(conn[c], <<Other>>)]
        /\ UNCHANGED <<vars, hostHas, alive, ended, route, maybeLost, cur, gate, call, serial, waiting,
                       returned, adopting, closer, view>>
    BY <1>3 DEF OtherLine, Send
  <2>2. Sent(c, <<Other>>)
    BY <2>1, Sending, LinesMade, Single
  <2>3. FieldsTyped'
    BY <2>1 DEF FieldsTyped, vars
  <2>4. LinksTyped' /\ SerialTyped'
    BY <2>1, <2>2, LinksSent, SerialTypedKept, GatesStay DEF vars
  <2>5. QED
    BY <2>3, <2>4
<1>4. CASE Writes(c)
  <2>1. /\ conn[c].writing /\ conn[c].q # <<>>
        /\ view' = [view EXCEPT ![c] = Read(view[c], Head(conn[c].q))]
        /\ conn' = [conn EXCEPT ![c].q = Tail(conn[c].q)]
        /\ UNCHANGED <<vars, hostHas, alive, ended, route, maybeLost, cur, gate, call, serial, waiting,
                       returned, adopting, closer>>
    BY <1>4 DEF Writes
  <2>2. /\ conn[c].q \in Seq(Line) /\ Head(conn[c].q) \in Line
        /\ Tail(conn[c].q) \in Seq(Line) /\ Len(Tail(conn[c].q)) <= OutLimit
    <3>1. conn[c].q \in Seq(Line) /\ conn[c].q # <<>> /\ Len(conn[c].q) <= OutLimit
      BY <1>0, <2>1 DEF ConnState, LinksTyped
    <3>2. QED
      BY <3>1, Bounds
  <2>3. PICK rest \in Seq(Line) : rest = Tail(conn[c].q) /\ Len(rest) <= OutLimit
    BY <2>2
  <2>4. PICK k \in ConnState : k = [conn[c] EXCEPT !.q = rest]
    BY <1>0 DEF ConnState
  <2>5. conn' = [conn EXCEPT ![c] = k] /\ k.q = rest /\ k.closing = conn[c].closing
        /\ k.st = conn[c].st /\ k.writing = conn[c].writing
    BY <1>0, <2>1, <2>3, <2>4 DEF LinksTyped, ConnState
  <2>6. PICK v \in View : v = Read(view[c], Head(conn[c].q))
    BY <1>0, <2>2, ReadTyped
  <2>7. view' \in [Conns -> View]
    BY <2>1, <2>6 DEF LinksTyped
  <2>8. LinksTyped'
    BY <2>1, <2>3, <2>5, <2>7, LinksBecome DEF vars, LinksTyped
  <2>9. FieldsTyped' /\ SerialTyped'
    BY <2>1, SerialTypedKept, GatesStay DEF FieldsTyped, vars
  <2>10. QED
    BY <2>8, <2>9
<1>5. CASE WriteFails(c)
  <2>1. /\ conn' = [conn EXCEPT ![c].q = <<>>, ![c].writing = FALSE, ![c].closing = TRUE]
        /\ UNCHANGED <<vars, hostHas, alive, ended, route, maybeLost, cur, gate, call, serial, waiting,
                       returned, adopting, closer, view>>
    BY <1>5 DEF WriteFails
  <2>2. PICK none \in Seq(Line) : none = <<>> /\ Len(none) = 0
    <3>1. <<>> \in Seq(Line) /\ Len(<<>>) = 0
      BY Bounds
    <3>2. QED
      BY <3>1
  <2>3. PICK k \in ConnState : k = [conn[c] EXCEPT !.q = none, !.writing = FALSE, !.closing = TRUE]
    BY <1>0 DEF ConnState
  <2>4. conn' = [conn EXCEPT ![c] = k] /\ k.q = none /\ k.closing
    BY <1>0, <2>1, <2>2, <2>3 DEF LinksTyped, ConnState
  <2>5. LinksTyped'
    BY <2>1, <2>2, <2>4, LinksBecome, Bounds DEF vars, LinksTyped
  <2>6. FieldsTyped' /\ SerialTyped'
    BY <2>1, SerialTypedKept, GatesStay DEF FieldsTyped, vars
  <2>7. QED
    BY <2>5, <2>6
<1>6. CASE Closed(c)
  <2>1. /\ conn' = [conn EXCEPT ![c].st = "closed", ![c].closing = TRUE]
        /\ waiting' \subseteq waiting \cup {<<c, "sweep">>}
        /\ UNCHANGED <<vars, hostHas, alive, ended, route, maybeLost, cur, gate, call, serial,
                       returned, adopting, closer, view>>
    BY <1>6 DEF Closed
  <2>2. PICK k \in ConnState : k = [conn[c] EXCEPT !.st = "closed", !.closing = TRUE]
    BY <1>0 DEF ConnState
  <2>3. conn' = [conn EXCEPT ![c] = k] /\ k.q = conn[c].q /\ k.closing
    BY <1>0, <2>1, <2>2 DEF LinksTyped, ConnState
  <2>4. LinksTyped'
    BY <2>1, <2>3, LinksBecome DEF vars, LinksTyped
  <2>5. FieldsTyped' /\ SerialTyped'
    BY <2>1, SerialTypedKept, GatesStay DEF FieldsTyped, vars
  <2>6. QED
    BY <2>4, <2>5
<1>7. CASE TeardownEnds(c)
  <2>1. /\ conn[c].st = "closed"
        /\ conn' = [conn EXCEPT ![c].st = "gone", ![c].writing = FALSE, ![c].q = <<>>]
        /\ view' = [view EXCEPT ![c] = NoView]
        /\ UNCHANGED <<vars, hostHas, alive, ended, route, maybeLost, cur, gate, call, serial, waiting,
                       returned, adopting, closer>>
    BY <1>7 DEF TeardownEnds
  <2>2. PICK none \in Seq(Line) : none = <<>> /\ Len(none) = 0
    <3>1. <<>> \in Seq(Line) /\ Len(<<>>) = 0
      BY Bounds
    <3>2. QED
      BY <3>1
  <2>3. PICK k \in ConnState : k = [conn[c] EXCEPT !.st = "gone", !.writing = FALSE, !.q = none]
    BY <1>0 DEF ConnState
  <2>4. conn' = [conn EXCEPT ![c] = k] /\ k.q = none /\ k.closing = conn[c].closing
    BY <1>0, <2>1, <2>2, <2>3 DEF LinksTyped, ConnState
  <2>5. conn[c].closing
    BY <2>1 DEF LinksTyped
  <2>6. view' \in [Conns -> View]
    BY <2>1 DEF LinksTyped, View, NoView
  <2>7. LinksTyped'
    <3>1. Len(k.q) <= OutLimit /\ k.closing /\ UNCHANGED <<gate, rx>>
      BY <2>1, <2>2, <2>4, <2>5, Bounds DEF vars
    <3>2. QED
      BY <2>4, <2>6, <3>1, LinksBecome
  <2>8. FieldsTyped' /\ SerialTyped'
    BY <2>1, SerialTypedKept, GatesStay DEF FieldsTyped, vars
  <2>9. QED
    BY <2>7, <2>8
<1>8. QED
  BY <1>1, <1>2, <1>3, <1>4, <1>5, <1>6, <1>7 DEF ConnStep, ReadLoopEnds, ClientLeaves

\* The types hold initially.
LEMMA TypingInit == HostInit => Typing
<1> SUFFICES ASSUME HostInit PROVE Typing
  OBVIOUS
<1>1. FieldsTyped
  BY DEF HostInit, Init, FieldsTyped, Reading
<1>2. SerialTyped
  BY SinkAssumption DEF HostInit, SerialTyped
<1>3. LinksTyped
  <2>1. <<>> \in Seq(Line) /\ Len(<<>>) = 0 /\ 0 \in 0..MaxSeq /\ 0 <= OutLimit
    BY Bounds
  <2>2. gate \in [Gates -> GateState] /\ \A g \in Gates : ~gate[g].open
    BY <2>1 DEF HostInit, NoAttach, GateState
  <2>3. conn \in [Conns -> ConnState]
    BY <2>1 DEF HostInit, ConnState
  <2>4. \A c \in Conns : conn[c].st = "up" /\ conn[c].writing /\ Len(conn[c].q) <= OutLimit
    BY <2>1 DEF HostInit
  <2>5. view \in [Conns -> View]
    BY DEF HostInit, NoView, View
  <2>6. \A g \in Gates : ~rx[g].attached
    BY SinkAssumption DEF HostInit, Init, NotAttached
  <2>7. QED
    BY <2>2, <2>3, <2>4, <2>5, <2>6 DEF LinksTyped
<1>4. QED
  BY <1>1, <1>2, <1>3 DEF Typing

\* Every step keeps the types.
LEMMA TypingStep ==
  ASSUME Typing, StreamInv, [HostNext]_allVars
  PROVE  Typing'
<1>1. CASE UNCHANGED allVars
  BY <1>1 DEF allVars, hostVars, vars, Typing, FieldsTyped, LinksTyped, SerialTyped
<1>2. CASE HostNext
  BY <1>2, HostNextCases, ReaderTyping, AttachTyping, ParkTyping, SessionTyping, ConnTyping
<1>3. QED
  BY <1>1, <1>2

\* What HostTypeOK says.
LEMMA TypingSays == Typing => HostTypeOK
<1> SUFFICES ASSUME Typing PROVE HostTypeOK
  OBVIOUS
<1> USE DEF Typing
<1>1. \A g \in Gates :
       /\ gate[g].conn \in Conns \cup {NoConn}
       /\ gate[g].start \in 0..MaxSeq
       /\ \A i \in 1..Len(gate[g].pending) : gate[g].pending[i] \in Line
       /\ {gate[g].open, gate[g].exitSent, gate[g].retired} \subseteq BOOLEAN
  BY DEF LinksTyped, GateState
<1>2. \A c \in Conns :
       /\ conn[c].st \in {"up", "closed", "gone"}
       /\ Len(conn[c].q) <= OutLimit
       /\ \A i \in 1..Len(conn[c].q) : conn[c].q[i] \in Line
       /\ view[c].of \in Gates \cup {NoGate}
       /\ view[c].count \in Nat
  BY DEF LinksTyped, ConnState, View
<1>3. SerialOK /\ (serial = Free \/ serial.op \in {"attach", "park", "adopt"})
  BY SerialSays DEF SerialOK
<1>4. QED
  BY <1>1, <1>2, <1>3 DEF HostTypeOK, FieldsTyped
\* The types of the host's fields hold in every state.
THEOREM HostTypesHold == HostSpec => []HostTypeOK
<1>1. HostSpec => []StreamInv
  BY HostImplementsStream, StreamInvariant, PTL
<1>2. HostSpec => []Typing
  BY <1>1, TypingInit, TypingStep, PTL DEF HostSpec
<1>3. QED
  BY <1>2, TypingSays, PTL

-----------------------------------------------------------------------------
(***************************************************************************)
(* Routing.                                                                *)
(***************************************************************************)

\* A gate with a connection that is not retired is the current one; an attach under way is
\* the current one's, unless the host has let go of the session.
Current ==
  /\ \A g \in Gates : gate[g].conn \in Conns /\ ~gate[g].retired => g = cur
  /\ serial \in Attaching =>
       /\ cur \in {serial.to, NoGate}
       /\ gate[serial.to].retired => ~hostHas

\* NoRouteToTheGone, from the moment the connection closes.
NoRouteToTheClosed == \A c \in Conns : conn[c].st # "up" /\ route = c /\ hostHas => Busy(c)

\* Nobody has adopted or closed the session the host has.
Watched == hostHas /\ adopting = "no" /\ closer = "no"

\* Where its output goes agrees with what the host says, from one holder of the attach lock
\* to the next: at rest, and at each point of an attach and of a park.
RouteFollows ==
  /\ closer = "no" => registered
  /\ Watched =>
       /\ serial = Free =>
            IF route = NoConn
            THEN sink \notin Gates
            ELSE /\ cur \in Gates /\ sink = cur
                 /\ gate[cur].conn = route /\ gate[cur].open /\ ~gate[cur].retired
       /\ serial \in Attaching =>
            /\ cur = serial.to /\ ~gate[cur].retired
            /\ serial.at # "swapped" => sink = cur
            /\ serial.at \in {"routed", "dead"} => route = serial.conn
       /\ serial.op \in {"park", "adopt"} =>
            /\ route = NoConn
            /\ serial.at = "owes" => sink \in Parks

Routing == Current /\ NoRouteToTheClosed /\ RouteFollows

\* Steps that leave the route, the gates' places and the attach lock as they are.
Quiet ==
  /\ UNCHANGED <<hostHas, route, cur, serial, adopting, closer, registered, sink>>
  /\ GatesKept

\* ... and whoever is to look at a connection that has closed.
Unwatched == UNCHANGED <<waiting, returned>> /\ \A c \in Conns : conn'[c].st = conn[c].st

\* Nothing is closed by a line sent.
LEMMA StSent ==
  ASSUME NEW c \in Conns, NEW lines, Sent(c, lines)
  PROVE  \A d \in Conns : conn'[d].st = conn[d].st
<1>1. \A d \in Conns : d = c \/ conn'[d] = conn[d]
  BY DEF Sent
<1>2. QED
  BY <1>1 DEF Sent

\* ... nor by a line delivered.
LEMMA StTaken ==
  ASSUME LinksTyped, NEW g \in Gates, NEW line, GateTakes(g, line)
  PROVE  \A d \in Conns : conn'[d].st = conn[d].st
<1>1. CASE gate[g].open /\ Sent(gate[g].conn, <<line>>)
  BY <1>1, StSent DEF LinksTyped
<1>2. CASE UNCHANGED conn
  BY <1>2
<1>3. QED
  BY <1>1, <1>2 DEF GateTakes

\* The writer, and a line of something else, touch none of this.
LEMMA QuietWriter ==
  ASSUME Typing, NEW c \in Conns, OtherLine(c) \/ Writes(c) \/ WriteFails(c)
  PROVE  Quiet /\ Unwatched
<1> USE DEF Typing
<1>1. CASE OtherLine(c)
  <2>1. UNCHANGED <<vars, hostHas, route, cur, gate, serial, adopting, closer, waiting, returned>>
    BY <1>1 DEF OtherLine
  <2>2. conn' = [conn EXCEPT ![c] = SendAll(conn[c], <<Other>>)]
    BY <1>1 DEF OtherLine, Send
  <2>3. Sent(c, <<Other>>)
    BY <2>2, Sending, LinesMade, Single
  <2>4. \A d \in Conns : conn'[d].st = conn[d].st
    BY <2>3, StSent
  <2>5. QED
    BY <2>1, <2>4, GatesStay DEF Quiet, Unwatched, vars
<1>2. CASE Writes(c)
  <2>1. UNCHANGED <<vars, hostHas, route, cur, gate, serial, adopting, closer, waiting, returned>>
    BY <1>2 DEF Writes
  <2>2. \A d \in Conns : conn'[d].st = conn[d].st
    BY <1>2 DEF Writes, LinksTyped, ConnState
  <2>3. QED
    BY <2>1, <2>2, GatesStay DEF Quiet, Unwatched, vars
<1>3. CASE WriteFails(c)
  <2>1. /\ UNCHANGED <<vars, hostHas, route, cur, gate, serial, adopting, closer, waiting, returned>>
        /\ conn' = [conn EXCEPT ![c].q = <<>>, ![c].writing = FALSE, ![c].closing = TRUE]
    BY <1>3 DEF WriteFails
  <2>2. PICK none \in Seq(Line) : none = <<>>
    <3>1. <<>> \in Seq(Line)
      OBVIOUS
    <3>2. QED
      BY <3>1
  <2>3. PICK k \in ConnState : k = [conn[c] EXCEPT !.q = none, !.writing = FALSE, !.closing = TRUE]
    BY DEF LinksTyped, ConnState
  <2>4. conn' = [conn EXCEPT ![c] = k] /\ k.st = conn[c].st
    BY <2>1, <2>2, <2>3 DEF LinksTyped, ConnState
  <2>5. \A d \in Conns : conn'[d].st = conn[d].st
    BY <2>4, ConnBecomes DEF LinksTyped
  <2>6. QED
    BY <2>1, <2>5, GatesStay DEF Quiet, Unwatched, vars
<1>4. QED
  BY <1>1, <1>2, <1>3

\* The reader thread, an owed exit, the process and the writer touch none of this.
LEMMA QuietSteps ==
  ASSUME Typing, StreamInv,
         \/ HostRecord \/ Sink \/ AttachOwesExit \/ ProcessEnds
         \/ \E c \in Conns : OtherLine(c) \/ Writes(c) \/ WriteFails(c)
  PROVE  Quiet /\ Unwatched
<1> USE DEF Typing
<1>1. CASE HostRecord \/ SinkParked \/ SinkMarksEnded \/ PaceClears \/ PaceGivesUp \/ ProcessEnds
  <2>1. UNCHANGED <<hostHas, route, cur, gate, serial, adopting, closer, waiting, returned, conn>>
    BY <1>1 DEF HostRecord, SinkParked, SinkMarksEnded, PaceClears, PaceGivesUp, ProcessEnds
  <2>2. UNCHANGED <<registered, sink>>
    BY <1>1 DEF HostRecord, Record, RecordExit, SinkParked, SinkMarksEnded, PaceClears, PaceGivesUp,
                ProcessEnds, HandOver, vars
  <2>3. QED
    BY <2>1, <2>2, GatesStay DEF Quiet, Unwatched
<1>2. CASE PaceStalls
  <2>1. /\ UNCHANGED <<hostHas, route, cur, gate, serial, adopting, closer, waiting, returned>>
        /\ conn' = [conn EXCEPT ![gate[pump.to].conn].closing = TRUE]
    BY <1>2 DEF PaceStalls
  <2>2. UNCHANGED <<registered, sink>>
    BY <1>2 DEF PaceStalls, HandOver
  <2>3. \A c \in Conns : conn'[c].st = conn[c].st
    BY <2>1 DEF LinksTyped, ConnState
  <2>4. QED
    BY <2>1, <2>2, <2>3, GatesStay DEF Quiet, Unwatched
<1>3. CASE GateDelivers
  <2>1. pump.to \in Gates /\ pump.at = "handing"
    BY <1>3 DEF GateDelivers, Calling
  <2>2. PICK line \in Line :
          line = IF pump.len = 0 THEN Exit(pump.to) ELSE Data(pump.to, pump.from, pump.len)
    <3>1. pump.len \in 0..MaxLen /\ pump.from \in 0..MaxSeq
      BY <2>1 DEF StreamInv, TypeOK, Reading, Done
    <3>2. pump.len = 0 \/ pump.len \in 1..MaxLen
      BY <3>1, Bounds
    <3>3. QED
      BY <2>1, <3>1, <3>2, LinesMade
  <2>3. GateTakes(pump.to, line)
    BY <1>3, <2>1, <2>2, DeliveredDoes DEF GateDelivers
  <2>4. \A c \in Conns : conn'[c].st = conn[c].st
    BY <2>1, <2>3, StTaken
  <2>5. UNCHANGED <<hostHas, route, cur, serial, adopting, closer, waiting, returned, registered, sink>>
    BY <1>3 DEF GateDelivers, HandOver
  <2>6. QED
    BY <2>3, <2>4, <2>5 DEF Quiet, Unwatched, GateTakes
<1>4. CASE AttachOwesExit
  <2>1. PICK g \in Gates : g = serial.to
    BY <1>4, SerialSays DEF AttachOwesExit
  <2>2. GateTakes(g, Exit(g))
    BY <1>4, <2>1, DeliveredDoes, LinesMade DEF AttachOwesExit
  <2>3. \A c \in Conns : conn'[c].st = conn[c].st
    BY <2>2, StTaken
  <2>4. UNCHANGED <<hostHas, route, cur, serial, adopting, closer, waiting, returned, registered, sink>>
    BY <1>4 DEF AttachOwesExit, SendOwedExit
  <2>5. QED
    BY <2>2, <2>3, <2>4 DEF Quiet, Unwatched, GateTakes
<1>5. CASE \E c \in Conns : OtherLine(c) \/ Writes(c) \/ WriteFails(c)
  BY <1>5, QuietWriter
<1>6. QED
  BY <1>1, <1>2, <1>3, <1>4, <1>5 DEF Sink

\* Such steps keep the routing.
LEMMA QuietRouting ==
  ASSUME Typing, Routing, Quiet
  PROVE  Current' /\ RouteFollows'
<1>1. Current'
  BY SerialSays DEF Routing, Quiet, GatesKept, Current, Typing
<1>2. RouteFollows'
  <2>1. UNCHANGED <<hostHas, route, cur, serial, adopting, closer, registered, sink>>
    BY DEF Quiet
  <2>2. cur \in Gates => /\ gate'[cur].conn = gate[cur].conn /\ gate'[cur].open = gate[cur].open
                         /\ gate'[cur].retired = gate[cur].retired
    BY DEF Quiet, GatesKept
  <2>3. serial \in Attaching => serial.to \in Gates
    BY DEF Attaching
  <2>4. RouteFollows
    BY DEF Routing
  <2>5. QED
    BY <2>1, <2>2, <2>3, <2>4 DEF RouteFollows, Watched
<1>3. QED
  BY <1>1, <1>2
\* ... and whoever is busy with a closed connection.
LEMMA QuietBusy ==
  ASSUME NoRouteToTheClosed, \A c \in Conns : conn'[c].st = conn[c].st, hostHas' => hostHas,
         route' \in {route, NoConn}, \A c \in Conns : Busy(c) => Busy(c)'
  PROVE  NoRouteToTheClosed'
  BY SinkAssumption DEF NoRouteToTheClosed

\* Routing is kept by the steps of an attach.
LEMMA AttachRouting ==
  ASSUME Typing, StreamInv, Routing, AttachSteps
  PROVE  Routing'
<1> USE DEF Typing
<1>a. /\ serial \in Attaching /\ serial # Free /\ serial.op = "attach"
      /\ serial.conn \in Conns /\ serial.to \in Gates
      /\ gate[serial.to].conn = serial.conn /\ Free \notin Attaching /\ Free.op = "free"
  BY SerialSays DEF AttachSteps, AttachRefused, AttachSwaps, AttachOwesExit, AttachRoutes,
                    AttachAnswers, Free, Attaching
<1>b. PICK c \in Conns, g \in Gates : c = serial.conn /\ g = serial.to
  BY <1>a
<1>c. Current /\ NoRouteToTheClosed /\ RouteFollows
  BY DEF Routing
<1>1. CASE AttachRefused
  <2>1. /\ ~registered /\ serial' = Free /\ returned' = returned \cup {c}
        /\ conn' = [conn EXCEPT ![c] = SendAll(conn[c], <<Other>>)]
        /\ UNCHANGED <<vars, hostHas, route, cur, gate, waiting, adopting, closer>>
    BY <1>1, <1>b DEF AttachRefused, AttachReturns, Send
  <2>2. Current'
    BY <1>a, <1>c, <2>1 DEF Current
  <2>3. RouteFollows'
    BY <1>c, <2>1 DEF RouteFollows, Watched, vars
  <2>4. \A d \in Conns : conn'[d].st = conn[d].st
    <3>1. Sent(c, <<Other>>)
      BY <2>1, Sending, LinesMade, Single
    <3>2. QED
      BY <3>1, StSent
  <2>5. \A d \in Conns : Busy(d) => Busy(d)'
    BY <1>b, <2>1 DEF Busy
  <2>6. NoRouteToTheClosed'
    BY <1>c, <2>1, <2>4, <2>5, QuietBusy
  <2>7. QED
    BY <2>2, <2>3, <2>6 DEF Routing
<1>2. CASE AttachSwaps
  <2>1. /\ Attach(g, Fresh) /\ serial.at = "swapped"
        /\ serial' = Holding("attach", "attached", c, g)
        /\ UNCHANGED <<hostHas, route, cur, waiting, returned, adopting, closer, conn>>
    BY <1>2, <1>b DEF AttachSwaps
  <2>2. GatesKept
    BY <1>2, <1>b, SwapStarts DEF Started
  <2>3. serial' \in Attaching /\ serial'.op = "attach" /\ serial'.at = "attached"
        /\ serial'.conn = c /\ serial'.to = g
    BY <2>1, HoldingFacts
  <2>4. sink' = g /\ registered' = registered
    BY <2>1 DEF Attach
  <2>5. Current'
    BY <1>a, <1>b, <1>c, <2>1, <2>2, <2>3 DEF Current, GatesKept
  <2>6. RouteFollows'
    <3>1. serial' # Free
      BY <1>a, <2>3
    <3>2. Watched' => Watched
      BY <2>1 DEF Watched
    <3>3. Watched' => cur = g /\ ~gate[g].retired
      BY <1>a, <1>b, <1>c, <3>2 DEF RouteFollows
    <3>4. closer' = "no" => registered'
      BY <1>c, <2>1, <2>4 DEF RouteFollows
    <3>5. ~gate[g].retired => ~gate'[g].retired
      BY <2>2 DEF GatesKept
    <3>6. QED
      BY <2>1, <2>3, <2>4, <3>1, <3>3, <3>4, <3>5 DEF RouteFollows
  <2>7. \A d \in Conns : Busy(d) => Busy(d)'
    BY <1>b, <2>1, <2>3 DEF Busy
  <2>8. NoRouteToTheClosed'
    BY <1>c, <2>1, <2>7, QuietBusy
  <2>9. QED
    BY <2>5, <2>6, <2>8 DEF Routing
<1>3. CASE AttachOwesExit
  <2>1. Quiet /\ Unwatched
    BY <1>3, QuietSteps
  <2>2. \A d \in Conns : Busy(d) => Busy(d)'
    BY <2>1 DEF Quiet, Unwatched, Busy
  <2>3. NoRouteToTheClosed'
    BY <1>c, <2>1, <2>2, QuietBusy DEF Quiet, Unwatched
  <2>4. QED
    BY <2>1, <2>3, QuietRouting DEF Routing
<1>4. CASE AttachRoutes
  <2>1. /\ route' = c
        /\ \E at \in {"dead", "routed"} : serial' = Holding("attach", at, c, g)
        /\ UNCHANGED <<vars, hostHas, cur, gate, waiting, returned, adopting, closer, conn>>
        /\ serial.at = "attached"
    BY <1>4, <1>b DEF AttachRoutes
  <2>2. serial' \in Attaching /\ serial'.op = "attach" /\ serial'.conn = c /\ serial'.to = g
    BY <2>1, HoldingFacts
  <2>3. Current'
    BY <1>a, <1>b, <1>c, <2>1, <2>2 DEF Current
  <2>4. RouteFollows'
    <3>1. serial' # Free
      BY <1>a, <2>2
    <3>2. Watched' => cur = g /\ ~gate[g].retired /\ sink = g
      BY <1>a, <1>b, <1>c, <2>1 DEF RouteFollows, Watched
    <3>3. closer' = "no" => registered'
      BY <1>c, <2>1 DEF RouteFollows, vars
    <3>4. sink' = sink
      BY <2>1 DEF vars
    <3>5. QED
      BY <2>1, <2>2, <3>1, <3>2, <3>3, <3>4 DEF RouteFollows
  <2>5. Busy(c)'
    BY <2>2 DEF Busy
  <2>6. NoRouteToTheClosed'
    BY <2>1, <2>5 DEF NoRouteToTheClosed
  <2>7. QED
    BY <2>3, <2>4, <2>6 DEF Routing
<1>5. CASE AttachAnswers
  <2>1. PICK owing \in Seq(Line), out \in Seq(Line), lines \in Seq(Line), told \in BOOLEAN :
          Answered(c, g, owing, out, lines, told)
    BY <1>5, <1>b, AnswersDoes
  <2>2. Opened(c, g, lines, told)
    BY <2>1, AnswerOpens
  <2>3. /\ serial' = Free /\ returned' = returned \cup {c} /\ serial.at \in {"routed", "dead"}
        /\ UNCHANGED <<vars, hostHas, route, cur, waiting, adopting, closer>>
    BY <1>5, <1>b DEF AttachAnswers, AttachReturns
  <2>4. \A h \in Gates : gate'[h].conn = gate[h].conn /\ gate'[h].retired = gate[h].retired
    BY <2>2 DEF Opened
  <2>5. Current'
    BY <1>a, <1>c, <2>3, <2>4 DEF Current
  <2>6. RouteFollows'
    <3>1. Watched' => cur = g /\ ~gate[g].retired /\ sink = g /\ route = c
      BY <1>a, <1>b, <1>c, <2>3 DEF RouteFollows, Watched
    <3>2. closer' = "no" => registered'
      BY <1>c, <2>3 DEF RouteFollows, vars
    <3>3. sink' = sink /\ c # NoConn
      BY <2>3, SinkAssumption DEF vars
    <3>4. gate'[g].conn = c /\ gate'[g].open
      BY <1>a, <1>b, <2>2 DEF Opened
    <3>5. QED
      BY <1>a, <2>3, <2>4, <3>1, <3>2, <3>3, <3>4 DEF RouteFollows
  <2>7. \A d \in Conns : conn'[d].st = conn[d].st
    BY <2>2, StSent DEF Opened
  <2>8. \A d \in Conns : Busy(d) => Busy(d)'
    BY <1>b, <2>3 DEF Busy
  <2>9. NoRouteToTheClosed'
    BY <1>c, <2>3, <2>7, <2>8, QuietBusy
  <2>10. QED
    BY <2>5, <2>6, <2>9 DEF Routing
<1>6. QED
  BY <1>1, <1>2, <1>3, <1>4, <1>5 DEF AttachSteps

\* A swap that leaves no gate current.
LEMMA SwapRouting ==
  ASSUME Typing, Current, NEW made, Swapped(NoGate, made),
         serial' \in Attaching => serial' = serial /\ ~hostHas'
  PROVE  Current'
<1>1. cur' = NoGate /\ NoGate \notin Gates
  BY SinkAssumption DEF Swapped
<1>2. \A g \in Gates : /\ g = cur => gate'[g].retired
                       /\ gate'[g].conn = gate[g].conn
                       /\ gate[g].retired => gate'[g].retired
  BY <1>1 DEF Swapped
<1>3. \A g \in Gates : gate'[g].conn \in Conns => gate'[g].retired
  <2>1. \A g \in Gates : gate'[g].retired \in BOOLEAN /\ gate[g].retired \in BOOLEAN
    BY DEF Swapped, Typing, LinksTyped, GateState
  <2>2. QED
    BY <1>2, <2>1 DEF Current
<1>4. QED
  BY <1>1, <1>3 DEF Current

\* Routing is kept by the steps of a park.
LEMMA ParkRouting ==
  ASSUME Typing, StreamInv, Routing, ParkSteps
  PROVE  Routing'
<1> USE DEF Typing
<1>c. Current /\ NoRouteToTheClosed /\ RouteFollows
  BY DEF Routing
<1>d. Free \notin Attaching /\ Free.op = "free"
  BY DEF Free, Attaching
<1>1. CASE ParkSwaps
  <2>1. /\ serial.op \in {"park", "adopt"}
        /\ UNCHANGED <<hostHas, route, cur, gate, waiting, returned, adopting, closer, conn>>
    BY <1>1 DEF ParkSwaps
  <2>2. \/ serial' = Free
        \/ serial'.op \in {"park", "adopt"} /\ serial'.at = "owes" /\ serial'.to \in Parks
    BY <1>1, <2>1, HoldingFacts DEF ParkSwaps
  <2>3. \/ sink' \in Parks /\ registered' = registered
        \/ ~registered /\ registered' = registered
    <3>1. CASE ~registered /\ UNCHANGED vars
      BY <3>1 DEF vars
    <3>2. CASE \E p \in Parks : Attach(p, Unknown)
      BY <3>2 DEF Attach
    <3>3. QED
      BY <1>1, <3>1, <3>2 DEF ParkSwaps
  <2>4. serial' \notin Attaching
    BY <2>2, <1>d DEF Attaching
  <2>5. Current'
    BY <1>c, <2>1, <2>4 DEF Current
  <2>6. RouteFollows'
    <3>1. closer' = "no" => registered'
      BY <1>c, <2>1, <2>3 DEF RouteFollows
    <3>2. Watched' => route = NoConn /\ registered
      BY <1>c, <2>1 DEF RouteFollows, Watched
    <3>3. Watched' => sink' \in Parks /\ sink' \notin Gates
      BY <2>3, <3>2, SinkAssumption
    <3>4. QED
      BY <2>1, <2>4, <3>1, <3>2, <3>3 DEF RouteFollows
  <2>7. \A d \in Conns : Busy(d) => Busy(d)'
    BY <2>1 DEF Busy
  <2>8. NoRouteToTheClosed'
    BY <1>c, <2>1, <2>7, QuietBusy
  <2>9. QED
    BY <2>5, <2>6, <2>8 DEF Routing
<1>2. CASE ParkOwesExit
  <2>1. /\ serial.op \in {"park", "adopt"} /\ serial.at = "owes" /\ serial' = Free
        /\ UNCHANGED <<hostHas, route, cur, gate, waiting, returned, adopting, closer, conn,
                       registered, sink>>
    BY <1>2 DEF ParkOwesExit, SendOwedExit
  <2>2. Current'
    BY <1>c, <1>d, <2>1 DEF Current
  <2>3. RouteFollows'
    <3>1. closer' = "no" => registered'
      BY <1>c, <2>1 DEF RouteFollows
    <3>2. Watched' => route = NoConn /\ sink \in Parks /\ sink \notin Gates
      BY <1>c, <2>1, SinkAssumption DEF RouteFollows, Watched
    <3>3. QED
      BY <1>d, <2>1, <3>1, <3>2 DEF RouteFollows
  <2>4. \A d \in Conns : Busy(d) => Busy(d)'
    BY <2>1 DEF Busy
  <2>5. NoRouteToTheClosed'
    BY <1>c, <2>1, <2>4, QuietBusy
  <2>6. QED
    BY <2>2, <2>3, <2>5 DEF Routing
<1>3. ASSUME NEW w \in waiting, ParkSkips(w) PROVE Routing'
  <2>1. /\ waiting' = waiting \ {w} /\ route # w[1]
        /\ UNCHANGED <<vars, hostHas, route, cur, gate, serial, returned, adopting, closer, conn>>
    BY <1>3 DEF ParkSkips
  <2>2. Quiet
    BY <2>1, GatesStay DEF Quiet, vars
  <2>3. NoRouteToTheClosed'
    BY <1>c, <2>1 DEF NoRouteToTheClosed, Busy
  <2>4. QED
    BY <2>2, <2>3, QuietRouting DEF Routing
<1>4. ASSUME NEW w \in waiting, ParkBegins(w) PROVE Routing'
  <2>1. /\ route' = NoConn /\ SwapGate(NoGate, NoAttach)
        /\ serial' = Holding("park", "swapped", w[1], w[2])
        /\ UNCHANGED <<vars, hostHas, adopting, closer>>
    BY <1>4 DEF ParkBegins
  <2>2. Swapped(NoGate, NoAttach)
    BY <2>1, SwapGateDoes, SinkAssumption DEF LinksTyped
  <2>3. serial'.op = "park" /\ serial'.at = "swapped" /\ serial' \notin Attaching /\ serial' # Free
    BY <2>1, <1>d, HoldingFacts DEF Attaching
  <2>4. Current'
    BY <1>c, <2>2, <2>3, SwapRouting
  <2>5. RouteFollows'
    BY <1>c, <2>1, <2>3 DEF RouteFollows, vars
  <2>6. NoRouteToTheClosed'
    BY <2>1, SinkAssumption DEF NoRouteToTheClosed
  <2>7. QED
    BY <2>4, <2>5, <2>6 DEF Routing
<1>5. QED
  BY <1>1, <1>2, <1>3, <1>4 DEF ParkSteps
\* Routing is kept by an adopt, a close and the process.
LEMMA SessionRouting ==
  ASSUME Typing, StreamInv, Routing,
         \/ AdoptRetains \/ AdoptParks \/ \E o \in Owners : AdoptBegins(o)
         \/ CloseSession \/ CloseAll \/ CloseEnds \/ ProcessEnds
  PROVE  Routing'
<1> USE DEF Typing
<1>c. Current /\ NoRouteToTheClosed /\ RouteFollows
  BY DEF Routing
<1>d. Free \notin Attaching
  BY DEF Free, Attaching
<1>e. hostHas \in BOOLEAN /\ gate \in [Gates -> GateState]
  BY DEF FieldsTyped, LinksTyped
<1>1. CASE AdoptRetains
  <2>1. /\ adopting = "adopted" /\ adopting' = (IF registered THEN "kept" ELSE "no")
        /\ hostHas' = (hostHas /\ registered)
        /\ UNCHANGED <<vars, route, serial, waiting, returned, closer, conn>>
    BY <1>1 DEF AdoptRetains
  <2>2. \/ SwapGate(NoGate, NoAttach) /\ ~hostHas'
        \/ UNCHANGED <<cur, gate>>
    BY <1>1, <2>1 DEF AdoptRetains
  <2>3. Current'
    <3>1. CASE SwapGate(NoGate, NoAttach) /\ ~hostHas'
      <4>1. Swapped(NoGate, NoAttach)
        BY <1>e, <3>1, SwapGateDoes, SinkAssumption
      <4>2. QED
        BY <1>c, <2>1, <3>1, <4>1, SwapRouting
    <3>2. CASE UNCHANGED <<cur, gate>>
      BY <1>c, <2>1, <3>2 DEF Current
    <3>3. QED
      BY <2>2, <3>1, <3>2
  <2>4. RouteFollows'
    <3>1. ~Watched' /\ (closer' = "no" => registered')
      BY <1>c, <2>1 DEF RouteFollows, Watched, vars
    <3>2. QED
      BY <3>1 DEF RouteFollows
  <2>5. \A d \in Conns : Busy(d) => Busy(d)'
    BY <2>1 DEF Busy
  <2>6. NoRouteToTheClosed'
    BY <1>c, <2>1, <2>5, QuietBusy
  <2>7. QED
    BY <2>3, <2>4, <2>6 DEF Routing
<1>2. CASE AdoptParks
  <2>1. adopting' = "no" /\ serial = Free /\ UNCHANGED <<vars, hostHas, waiting, returned, closer, conn>>
    BY <1>2 DEF AdoptParks
  <2>2. CASE hostHas
    <3>1. /\ route' = NoConn /\ SwapGate(NoGate, NoAttach)
          /\ serial' = Holding("adopt", "swapped", NoConn, NoGate)
      BY <1>2, <2>2 DEF AdoptParks
    <3>2. Swapped(NoGate, NoAttach)
      BY <1>e, <3>1, SwapGateDoes, SinkAssumption
    <3>3. serial'.at = "swapped" /\ serial' \notin Attaching /\ serial' # Free
      BY <3>1, HoldingFacts, SerialSays DEF Attaching
    <3>4. Current'
      BY <1>c, <3>2, <3>3, SwapRouting
    <3>5. RouteFollows'
      BY <1>c, <2>1, <3>1, <3>3 DEF RouteFollows, vars
    <3>6. NoRouteToTheClosed'
      BY <3>1, SinkAssumption DEF NoRouteToTheClosed
    <3>7. QED
      BY <3>4, <3>5, <3>6 DEF Routing
  <2>3. CASE ~hostHas
    <3>1. UNCHANGED <<route, cur, gate, serial>>
      BY <1>2, <2>3 DEF AdoptParks
    <3>2. Current'
      BY <1>c, <2>1, <3>1 DEF Current
    <3>3. RouteFollows'
      BY <1>c, <2>1, <2>3 DEF RouteFollows, Watched, vars
    <3>4. NoRouteToTheClosed'
      BY <2>1, <2>3 DEF NoRouteToTheClosed
    <3>5. QED
      BY <3>2, <3>3, <3>4 DEF Routing
  <2>4. QED
    BY <2>2, <2>3
<1>3. CASE CloseAll
  <2>1. /\ ~hostHas' /\ closer' = "drained" /\ SwapGate(NoGate, NoAttach) /\ serial' = serial
    BY <1>3 DEF CloseAll
  <2>2. Swapped(NoGate, NoAttach)
    BY <1>e, <2>1, SwapGateDoes, SinkAssumption
  <2>3. Current'
    BY <1>c, <2>1, <2>2, SwapRouting
  <2>4. RouteFollows' /\ NoRouteToTheClosed'
    BY <2>1 DEF RouteFollows, Watched, NoRouteToTheClosed
  <2>5. QED
    BY <2>3, <2>4 DEF Routing
<1>4. CASE \E o \in Owners : AdoptBegins(o)
  <2>1. /\ adopting' = "adopted"
        /\ UNCHANGED <<hostHas, route, cur, gate, serial, waiting, returned, closer, conn, registered>>
    BY <1>4 DEF AdoptBegins, AdoptOthers
  <2>2. Current'
    BY <1>c, <2>1 DEF Current
  <2>3. RouteFollows'
    BY <1>c, <2>1 DEF RouteFollows, Watched
  <2>4. NoRouteToTheClosed'
    BY <1>c, <2>1 DEF NoRouteToTheClosed, Busy
  <2>5. QED
    BY <2>2, <2>3, <2>4 DEF Routing
<1>5. CASE CloseSession \/ CloseEnds
  <2>1. /\ closer' \in {"killed", "closed", "ended"} /\ (hostHas' => hostHas)
        /\ UNCHANGED <<route, cur, gate, serial, waiting, returned, conn>>
    BY <1>5 DEF CloseSession, CloseEnds
  <2>2. Current'
    BY <1>c, <2>1 DEF Current
  <2>3. RouteFollows'
    BY <2>1 DEF RouteFollows, Watched
  <2>4. \A d \in Conns : Busy(d) => Busy(d)'
    BY <2>1 DEF Busy
  <2>5. NoRouteToTheClosed'
    BY <1>c, <2>1, <2>4, QuietBusy
  <2>6. QED
    BY <2>2, <2>3, <2>5 DEF Routing
<1>6. CASE ProcessEnds
  <2>1. Quiet /\ Unwatched
    BY <1>6, QuietSteps
  <2>2. \A d \in Conns : Busy(d) => Busy(d)'
    BY <2>1 DEF Quiet, Unwatched, Busy
  <2>3. NoRouteToTheClosed'
    BY <1>c, <2>1, <2>2, QuietBusy DEF Quiet, Unwatched
  <2>4. QED
    BY <2>1, <2>3, QuietRouting DEF Routing
<1>7. QED
  BY <1>1, <1>2, <1>3, <1>4, <1>5, <1>6

\* Routing is kept by what a connection's tasks do.
LEMMA ConnRouting ==
  ASSUME Typing, StreamInv, Routing, NEW c \in Conns, ConnStep(c)
  PROVE  Routing'
<1> USE DEF Typing
<1>a. Current /\ NoRouteToTheClosed /\ RouteFollows
  BY DEF Routing
<1>b. gate \in [Gates -> GateState] /\ conn \in [Conns -> ConnState]
  BY DEF LinksTyped
<1>1. ASSUME NEW g \in Gates, AttachBegins(c, g) PROVE Routing'
  <2> DEFINE made == [NoAttach EXCEPT !.conn = c]
  <2>1. /\ serial = Free /\ gate[g].conn = NoConn /\ SwapGate(g, made)
        /\ serial' = Holding("attach", "swapped", c, g)
        /\ UNCHANGED <<vars, hostHas, route, waiting, returned, adopting, closer, conn>>
    BY <1>1 DEF AttachBegins
  <2>2. made \in GateState /\ ~made.retired
    <3>1. <<>> \in Seq(Line) /\ 0 \in 0..MaxSeq
      BY Bounds
    <3>2. QED
      BY <3>1 DEF GateState, NoAttach
  <2> HIDE DEF made
  <2>3. Swapped(g, made) /\ cur' = g
    BY <1>b, <2>1, <2>2, SwapGateDoes DEF Swapped
  <2>4. g # cur
    BY <2>1, SinkAssumption DEF SerialTyped
  <2>5. gate'[g] = made /\ \A h \in Gates \ {g} : gate'[h].conn = gate[h].conn
                                                  /\ (h = cur => gate'[h].retired)
                                                  /\ (h # cur => gate'[h].retired = gate[h].retired)
    BY <2>3, <2>4 DEF Swapped
  <2>6. serial' \in Attaching /\ serial'.op = "attach" /\ serial'.conn = c /\ serial'.to = g
        /\ serial'.at = "swapped" /\ serial' # Free
    BY <2>1, HoldingFacts, SerialSays
  <2>7. Current'
    BY <1>a, <2>2, <2>3, <2>5, <2>6 DEF Current
  <2>8. RouteFollows'
    BY <1>a, <2>1, <2>2, <2>3, <2>5, <2>6 DEF RouteFollows, vars
  <2>9. \A d \in Conns : Busy(d) => Busy(d)'
    BY <2>1, SerialSays DEF Busy
  <2>10. NoRouteToTheClosed'
    BY <1>a, <2>1, <2>9, QuietBusy
  <2>11. QED
    BY <2>7, <2>8, <2>10 DEF Routing
<1>2. CASE AttachRechecks(c)
  <2>1. /\ returned' = returned \ {c}
        /\ waiting' = IF conn[c].st # "up" /\ hostHas THEN waiting \cup {<<c, "asks">>} ELSE waiting
        /\ UNCHANGED <<vars, hostHas, route, cur, gate, serial, adopting, closer, conn>>
    BY <1>2 DEF AttachRechecks
  <2>2. Quiet
    BY <2>1, GatesStay DEF Quiet, vars
  <2>3. \A d \in Conns : Busy(d) /\ conn[d].st # "up" /\ hostHas => Busy(d)'
    <3>1. waiting \subseteq waiting'
      BY <2>1
    <3>2. conn[c].st # "up" /\ hostHas => Busy(c)'
      <4>1. <<c, "asks">>[1] = c
        OBVIOUS
      <4>2. QED
        BY <2>1, <4>1 DEF Busy
    <3>3. \A d \in Conns \ {c} : Busy(d) => Busy(d)'
      BY <2>1, <3>1 DEF Busy
    <3>4. QED
      BY <3>2, <3>3
  <2>4. NoRouteToTheClosed'
    BY <1>a, <2>1, <2>3 DEF NoRouteToTheClosed
  <2>5. QED
    BY <2>2, <2>4, QuietRouting DEF Routing
<1>3. CASE AsksDetach(c)
  <2>1. /\ waiting \subseteq waiting'
        /\ UNCHANGED <<vars, hostHas, route, cur, gate, serial, returned, adopting, closer, conn>>
    BY <1>3 DEF AsksDetach
  <2>2. Quiet
    BY <2>1, GatesStay DEF Quiet, vars
  <2>3. \A d \in Conns : Busy(d) => Busy(d)'
    BY <2>1 DEF Busy
  <2>4. NoRouteToTheClosed'
    BY <1>a, <2>1, <2>3, QuietBusy
  <2>5. QED
    BY <2>2, <2>4, QuietRouting DEF Routing
<1>4. CASE OtherLine(c) \/ Writes(c) \/ WriteFails(c)
  <2>1. Quiet /\ Unwatched
    BY <1>4, QuietWriter
  <2>2. \A d \in Conns : Busy(d) => Busy(d)'
    BY <2>1 DEF Quiet, Unwatched, Busy
  <2>3. NoRouteToTheClosed'
    BY <1>a, <2>1, <2>2, QuietBusy DEF Quiet, Unwatched
  <2>4. QED
    BY <2>1, <2>3, QuietRouting DEF Routing
<1>5. CASE Closed(c)
  <2>1. /\ conn' = [conn EXCEPT ![c].st = "closed", ![c].closing = TRUE]
        /\ waiting' = IF hostHas THEN waiting \cup {<<c, "sweep">>} ELSE waiting
        /\ UNCHANGED <<vars, hostHas, route, cur, gate, serial, returned, adopting, closer>>
    BY <1>5 DEF Closed
  <2>2. Quiet
    BY <2>1, GatesStay DEF Quiet, vars
  <2>3. \A d \in Conns \ {c} : conn'[d] = conn[d]
    BY <1>b, <2>1
  <2>4. hostHas => Busy(c)'
    <3>1. <<c, "sweep">>[1] = c
      OBVIOUS
    <3>2. QED
      BY <2>1, <3>1 DEF Busy
  <2>5. \A d \in Conns : Busy(d) => Busy(d)'
    BY <2>1 DEF Busy
  <2>6. NoRouteToTheClosed'
    BY <1>a, <2>1, <2>3, <2>4, <2>5 DEF NoRouteToTheClosed
  <2>7. QED
    BY <2>2, <2>6, QuietRouting DEF Routing
<1>6. CASE TeardownEnds(c)
  <2>1. /\ conn[c].st = "closed"
        /\ conn' = [conn EXCEPT ![c].st = "gone", ![c].writing = FALSE, ![c].q = <<>>]
        /\ UNCHANGED <<vars, hostHas, route, cur, gate, serial, waiting, returned, adopting, closer>>
    BY <1>6 DEF TeardownEnds
  <2>2. Quiet
    BY <2>1, GatesStay DEF Quiet, vars
  <2>3. \A d \in Conns \ {c} : conn'[d] = conn[d]
    BY <1>b, <2>1
  <2>4. \A d \in Conns : Busy(d) => Busy(d)'
    BY <2>1 DEF Busy
  <2>5. \A d \in Conns : conn'[d].st # "up" => conn[d].st # "up"
    BY <2>1, <2>3
  <2>6. NoRouteToTheClosed'
    BY <1>a, <2>1, <2>4, <2>5 DEF NoRouteToTheClosed
  <2>7. QED
    BY <2>2, <2>6, QuietRouting DEF Routing
<1>7. QED
  BY <1>1, <1>2, <1>3, <1>4, <1>5, <1>6 DEF ConnStep, ReadLoopEnds, ClientLeaves

\* Routing holds initially: nobody has attached, the output goes to a parked sink.
LEMMA RoutingInit == HostInit => Routing
<1> SUFFICES ASSUME HostInit PROVE Routing
  OBVIOUS
<1>1. /\ serial = Free /\ Free \notin Attaching /\ Free.op = "free" /\ route = NoConn
      /\ \A g \in Gates : gate[g].conn = NoConn
  BY DEF HostInit, Free, Attaching, NoAttach
<1>2. \A c \in Conns : conn[c].st = "up"
  BY DEF HostInit
<1>3. registered /\ sink \notin Gates
  BY SinkAssumption DEF HostInit, Init
<1>4. Current
  BY <1>1, SinkAssumption DEF Current
<1>5. RouteFollows
  BY <1>1, <1>3 DEF RouteFollows
<1>6. NoRouteToTheClosed
  BY <1>2 DEF NoRouteToTheClosed
<1>7. QED
  BY <1>4, <1>5, <1>6 DEF Routing

\* Every step keeps the routing.
LEMMA RoutingStep ==
  ASSUME Typing, StreamInv, Routing, [HostNext]_allVars
  PROVE  Routing'
<1>1. CASE UNCHANGED allVars
  BY <1>1 DEF allVars, hostVars, vars, Routing, Current, NoRouteToTheClosed, Busy, RouteFollows, Watched
<1>2. CASE HostRecord \/ Sink
  <2>1. Quiet /\ Unwatched
    BY <1>2, QuietSteps
  <2>2. \A d \in Conns : Busy(d) => Busy(d)'
    BY <2>1 DEF Quiet, Unwatched, Busy
  <2>3. NoRouteToTheClosed'
    BY <2>1, <2>2, QuietBusy DEF Quiet, Unwatched, Routing
  <2>4. QED
    BY <2>1, <2>3, QuietRouting DEF Routing
<1>3. CASE HostNext
  BY <1>2, <1>3, HostNextCases, AttachRouting, ParkRouting, SessionRouting, ConnRouting
<1>4. QED
  BY <1>1, <1>3

\* The types and the routing hold in every state.
THEOREM HostRoutes == HostSpec => [](Typing /\ Routing)
<1>1. HostSpec => []StreamInv
  BY HostImplementsStream, StreamInvariant, PTL
<1>2. HostInit => Typing /\ Routing
  BY TypingInit, RoutingInit
<1>3. StreamInv /\ Typing /\ Routing /\ [HostNext]_allVars => (Typing /\ Routing)'
  BY TypingStep, RoutingStep
<1>4. QED
  BY <1>1, <1>2, <1>3, PTL DEF HostSpec

\* Conn::closed: a connection that is gone is nobody's receiver, unless an attach of its own
\* is still at work, or a park that will look at it.
THEOREM NobodyGoneIsRouted == HostSpec => []NoRouteToTheGone
<1>1. Routing => NoRouteToTheGone
  BY DEF Routing, NoRouteToTheClosed, NoRouteToTheGone
<1>2. QED
  BY <1>1, HostRoutes, PTL

\* A session at rest says where its output goes.
THEOREM RouteAgreesWithTheSink == HostSpec => []RouteIsTheSink
<1>1. Routing => RouteIsTheSink
  BY DEF Routing, RouteFollows, Watched, RouteIsTheSink, Settled
<1>2. QED
  BY <1>1, HostRoutes, PTL
-----------------------------------------------------------------------------
(***************************************************************************)
(* What a client will have read once its queue is empty.                   *)
(***************************************************************************)

\* Where a client is: the attach whose response it read last, its count, and whether it has
\* read an exit since.
Place == [of : Gates \cup {NoGate}, count : Nat, over : BOOLEAN]
PlaceOf(v) == [of |-> v.of, count |-> v.count, over |-> v.over]
Joined(g) == [of |-> g, count |-> gate[g].start, over |-> FALSE]
UpTo(g) == [of |-> g, count |-> rx[g].count, over |-> FALSE]

\* One line further.
Moved(k, l) ==
  IF l.t = "resp" THEN [of |-> l.g, count |-> l.at, over |-> FALSE]
  ELSE IF l.t = "data" THEN [of |-> k.of, count |-> k.count + l.len, over |-> k.over]
  ELSE IF l.t = "exit" THEN [of |-> k.of, count |-> k.count, over |-> TRUE]
  ELSE k

\* The places a client at k comes through, reading the lines.
Runs(tr, k, lines) ==
  /\ tr \in [0..Len(lines) -> Place] /\ tr[0] = k
  /\ \A i \in 1..Len(lines) : tr[i] = Moved(tr[i - 1], lines[i])

\* A line a client at k does not take for a gap or for another attach's.
Fits(k, l) ==
  /\ l.t \in {"data", "exit"} => l.g = k.of /\ ~k.over
  /\ l.t = "data" => l.from = k.count

Timely(k) == exited /\ k.count = seq

\* The host has let go of the session, and no attach is left to answer.
Late == ~hostHas /\ serial.op # "attach"

\* An exit after line i may come early: of a session an adopt touched, or of a retired gate
\* that nobody's response replaces any more.
Excused(g, lines, i) ==
  \/ maybeLost
  \/ Late /\ g \in Gates /\ gate[g].retired /\ \A j \in i + 1 .. Len(lines) : lines[j].t # "resp"

LineFits(k, lines, i) ==
  /\ Fits(k, lines[i])
  /\ lines[i].t = "exit" => Timely(k) \/ Excused(lines[i].g, lines, i)

\* A gate whose output goes to c.
Live(g, c) == gate[g].conn = c /\ gate[g].open /\ ~gate[g].retired /\ ~gate[g].exitSent

\* The client of c reads nothing out of place, and ends where its live gate's receiver is.
Fed(c, tr) ==
  /\ Runs(tr, PlaceOf(view[c]), conn[c].q)
  /\ ~view[c].foreign /\ ~view[c].gap
  /\ view[c].early => Excused(view[c].of, conn[c].q, 0)
  /\ \A i \in 1..Len(conn[c].q) : LineFits(tr[i - 1], conn[c].q, i)
  /\ \A g \in Gates : Live(g, c) => tr[Len(conn[c].q)] = UpTo(g)

LinksFed == \A c \in Conns : ~conn[c].closing => \E tr : Fed(c, tr)

\* What waits for an attach's response follows it, and ends where its receiver is.
Waits(g, tr) ==
  /\ Runs(tr, Joined(g), gate[g].pending)
  /\ ~gate[g].exitSent
  /\ serial.at = "swapped" => gate[g].pending = <<>> /\ ~rx[g].attached
  /\ \A i \in 1..Len(gate[g].pending) :
       /\ gate[g].pending[i].t \in {"data", "exit"}
       /\ Fits(tr[i - 1], gate[g].pending[i])
       /\ gate[g].pending[i].t = "exit" =>
            Timely(tr[i - 1]) /\ i = Len(gate[g].pending) /\ rx[g].exits = 1
  /\ tr[Len(gate[g].pending)].of = g
  /\ tr[Len(gate[g].pending)].over =>
       /\ gate[g].pending # <<>>
       /\ gate[g].pending[Len(gate[g].pending)].t = "exit"
  /\ serial.at # "swapped" /\ ~gate[g].retired => tr[Len(gate[g].pending)].count = rx[g].count

GateWaits ==
  \A g \in Gates :
    serial \in Attaching /\ serial.to = g /\ ~conn[serial.conn].closing => \E tr : Waits(g, tr)

\* The end is noticed after the end, and by an attach under way with all of it counted.
EndSeen ==
  /\ ended => exited
  /\ serial \in Attaching /\ serial.at = "dead" => maybeLost
  /\ serial \in Attaching /\ serial.at # "swapped" =>
       /\ sink \in {serial.to, NoSink}
       /\ ended => rx[serial.to].count = seq
       /\ pump.at = "handing" /\ pump.len = 0 /\ pump.to # serial.to => rx[serial.to].count = seq

Reads == LinksFed /\ GateWaits /\ EndSeen

\* A line moves a client from a place to a place.
LEMMA MovedTyped ==
  ASSUME NEW k \in Place, NEW l \in Line
  PROVE  Moved(k, l) \in Place
<1>1. /\ l.t = "resp" => l.g \in Gates /\ l.at \in Nat
      /\ l.t = "data" => l.len \in Nat
  BY LineKinds, Bounds
<1>2. k.of \in Gates \cup {NoGate} /\ k.count \in Nat /\ k.over \in BOOLEAN
  BY DEF Place
<1>3. CASE l.t = "resp"
  BY <1>1, <1>3 DEF Moved, Place
<1>4. CASE l.t = "data"
  <2>1. k.count + l.len \in Nat
    BY <1>1, <1>2, <1>4
  <2>2. QED
    BY <1>2, <1>4, <2>1 DEF Moved, Place
<1>5. CASE l.t \notin {"resp", "data"}
  BY <1>2, <1>5 DEF Moved, Place
<1>6. QED
  BY <1>3, <1>4, <1>5

\* No lines, no way.
LEMMA RunNone ==
  ASSUME NEW k \in Place
  PROVE  \E tr : Runs(tr, k, <<>>)
<1>1. PICK tr \in [0..0 -> Place] : tr = [i \in 0..0 |-> k]
  OBVIOUS
<1>2. Len(<<>>) = 0
  OBVIOUS
<1>3. Runs(tr, k, <<>>)
  BY <1>1, <1>2 DEF Runs
<1>4. QED
  BY <1>3

\* One line.
LEMMA RunOne ==
  ASSUME NEW k \in Place, NEW l \in Line
  PROVE  \E tr : Runs(tr, k, <<l>>) /\ tr[1] = Moved(k, l)
<1>1. PICK m \in Place : m = Moved(k, l)
  BY MovedTyped
<1>2. PICK tr \in [0..1 -> Place] : tr = [i \in 0..1 |-> IF i = 0 THEN k ELSE m]
  OBVIOUS
<1>3. Len(<<l>>) = 1 /\ <<l>>[1] = l
  OBVIOUS
<1>4. tr[0] = k /\ tr[1] = m
  BY <1>2
<1>5. Runs(tr, k, <<l>>)
  <2>1. \A i \in 1..1 : i = 1 /\ i - 1 = 0
    OBVIOUS
  <2>2. \A i \in 1..Len(<<l>>) : tr[i] = Moved(tr[i - 1], <<l>>[i])
    BY <1>1, <1>3, <1>4, <2>1
  <2>3. QED
    BY <1>2, <1>3, <1>4, <2>2 DEF Runs
<1>6. QED
  BY <1>1, <1>4, <1>5

\* One way after another.
Joins(both, tr, tu, n, m) ==
  /\ \A i \in 0..n : both[i] = tr[i]
  /\ \A i \in 0..m : both[n + i] = tu[i]

\* ... is the way along the lines of both.
LEMMA RunOn ==
  ASSUME NEW q \in Seq(Line), NEW m \in Seq(Line), NEW k, NEW tr, NEW tu,
         Runs(tr, k, q), Runs(tu, tr[Len(q)], m)
  PROVE  \E both : Runs(both, k, q \o m) /\ Joins(both, tr, tu, Len(q), Len(m))
<1>1. PICK a \in Nat, b \in Nat : a = Len(q) /\ b = Len(m)
  OBVIOUS
<1>2. /\ q \o m \in Seq(Line) /\ Len(q \o m) = a + b
      /\ \A i \in 1..a : (q \o m)[i] = q[i]
      /\ \A i \in 1..b : (q \o m)[a + i] = m[i]
  BY <1>1, Appended
<1>3. /\ tr \in [0..a -> Place] /\ tr[0] = k /\ \A i \in 1..a : tr[i] = Moved(tr[i - 1], q[i])
      /\ tu \in [0..b -> Place] /\ tu[0] = tr[a] /\ \A i \in 1..b : tu[i] = Moved(tu[i - 1], m[i])
  BY <1>1 DEF Runs
<1>4. \A i \in 0..a + b : /\ i <= a => i \in 0..a
                         /\ ~(i <= a) => i - a \in 0..b /\ i - a \in 1..b /\ i - 1 - a \in 0..b
                                         /\ a + (i - a) = i /\ (i - a) - 1 = i - 1 - a
  BY <1>1
<1>5. PICK both \in [0..a + b -> Place] :
        both = [i \in 0..a + b |-> IF i <= a THEN tr[i] ELSE tu[i - a]]
  <2>1. \A i \in 0..a + b : (IF i <= a THEN tr[i] ELSE tu[i - a]) \in Place
    BY <1>3, <1>4
  <2>2. [i \in 0..a + b |-> IF i <= a THEN tr[i] ELSE tu[i - a]] \in [0..a + b -> Place]
    BY <2>1
  <2>3. QED
    BY <2>2
<1>6. \A i \in 0..a : both[i] = tr[i]
  <2>1. \A i \in 0..a : i \in 0..a + b /\ i <= a
    BY <1>1
  <2>2. QED
    BY <1>5, <2>1
<1>7. \A i \in 0..b : both[a + i] = tu[i]
  <2>1. ASSUME NEW i \in 0..b PROVE both[a + i] = tu[i]
    <3>1. a + i \in 0..a + b /\ (a + i) - a = i
      BY <1>1
    <3>2. CASE i = 0
      <4>1. a + i = a /\ a \in 0..a
        BY <1>1, <3>2
      <4>2. QED
        BY <1>3, <1>6, <3>2, <4>1
    <3>3. CASE i # 0
      <4>1. ~(a + i <= a)
        BY <1>1, <3>3
      <4>2. QED
        BY <1>5, <3>1, <4>1
    <3>4. QED
      BY <3>2, <3>3
  <2>2. QED
    BY <2>1
<1>8. ASSUME NEW i \in 1..a + b PROVE both[i] = Moved(both[i - 1], (q \o m)[i])
  <2>1. CASE i <= a
    <3>1. i \in 1..a /\ i \in 0..a /\ i - 1 \in 0..a
      BY <1>1, <2>1
    <3>2. QED
      BY <1>2, <1>3, <1>6, <3>1
  <2>2. CASE ~(i <= a)
    <3>1. PICK j \in 1..b : i = a + j /\ j \in 0..b /\ j - 1 \in 0..b /\ i - 1 = a + (j - 1)
      <4>1. i - a \in 1..b /\ i = a + (i - a) /\ i - a \in 0..b /\ (i - a) - 1 \in 0..b
            /\ i - 1 = a + ((i - a) - 1)
        BY <1>1, <2>2
      <4>2. QED
        BY <4>1
    <3>2. both[i] = tu[j] /\ both[i - 1] = tu[j - 1] /\ (q \o m)[i] = m[j]
      BY <1>2, <1>7, <3>1
    <3>3. QED
      BY <1>3, <3>1, <3>2
  <2>3. QED
    BY <2>1, <2>2
<1>9. both[0] = k
  <2>1. 0 \in 0..a
    BY <1>1
  <2>2. QED
    BY <1>3, <1>6, <2>1
<1>10. Runs(both, k, q \o m)
  BY <1>2, <1>5, <1>8, <1>9 DEF Runs
<1>11. Joins(both, tr, tu, Len(q), Len(m))
  BY <1>1, <1>6, <1>7 DEF Joins
<1>12. QED
  BY <1>10, <1>11

\* The first lines of a way.
LEMMA RunFirst ==
  ASSUME NEW lines \in Seq(Line), NEW m \in Seq(Line), NEW k, NEW tr, Runs(tr, k, lines),
         Len(m) <= Len(lines), \A i \in 1..Len(m) : m[i] = lines[i]
  PROVE  \E tu : Runs(tu, k, m) /\ \A i \in 0..Len(m) : tu[i] = tr[i]
<1>1. PICK a \in Nat, b \in Nat : a = Len(m) /\ b = Len(lines) /\ a <= b
  OBVIOUS
<1>2. tr \in [0..b -> Place] /\ tr[0] = k /\ \A i \in 1..b : tr[i] = Moved(tr[i - 1], lines[i])
  BY <1>1 DEF Runs
<1>3. \A i \in 0..a : i \in 0..b
  BY <1>1
<1>4. PICK tu \in [0..a -> Place] : tu = [i \in 0..a |-> tr[i]]
  BY <1>2, <1>3
<1>5. \A i \in 1..a : i \in 1..b /\ i \in 0..a /\ i - 1 \in 0..a
  BY <1>1
<1>6. 0 \in 0..a
  BY <1>1
<1>7. Runs(tu, k, m)
  BY <1>1, <1>2, <1>4, <1>5, <1>6 DEF Runs
<1>8. QED
  BY <1>1, <1>4, <1>7

\* All but the first.
LEMMA RunRest ==
  ASSUME NEW q \in Seq(Line), q # <<>>, NEW k, NEW tr, Runs(tr, k, q)
  PROVE  \E tu : Runs(tu, tr[1], Tail(q)) /\ \A i \in 0..Len(q) - 1 : tu[i] = tr[i + 1]
<1>1. PICK n \in Nat : Len(q) = n + 1 /\ Len(Tail(q)) = n /\ \A i \in 1..n : Tail(q)[i] = q[i + 1]
  <2>1. PICK l \in Nat : l = Len(q) /\ l # 0
    BY EmptySeq
  <2>2. PICK n \in Nat : l = n + 1
    BY <2>1
  <2>3. Len(Tail(q)) = Len(q) - 1 /\ \A i \in 1..Len(q) - 1 : Tail(q)[i] = q[i + 1]
    OBVIOUS
  <2>4. Len(q) - 1 = n
    BY <2>1, <2>2
  <2>5. QED
    BY <2>1, <2>2, <2>3, <2>4
<1>2. tr \in [0..n + 1 -> Place] /\ \A i \in 1..n + 1 : tr[i] = Moved(tr[i - 1], q[i])
  BY <1>1 DEF Runs
<1>3. \A i \in 0..n : i + 1 \in 0..n + 1 /\ i + 1 \in 1..n + 1 /\ (i + 1) - 1 = i
  BY <1>1
<1>4. PICK tu \in [0..n -> Place] : tu = [i \in 0..n |-> tr[i + 1]]
  BY <1>2, <1>3
<1>5. ASSUME NEW i \in 1..n PROVE tu[i] = Moved(tu[i - 1], Tail(q)[i])
  <2>1. i \in 0..n /\ i - 1 \in 0..n /\ (i - 1) + 1 = i
    BY <1>1
  <2>2. tu[i] = tr[i + 1] /\ tu[i - 1] = tr[i]
    BY <1>4, <2>1
  <2>3. tr[i + 1] = Moved(tr[i], q[i + 1])
    BY <1>2, <1>3, <2>1
  <2>4. QED
    BY <1>1, <2>2, <2>3
<1>6. tu[0] = tr[1]
  <2>1. 0 \in 0..n /\ 0 + 1 = 1
    BY <1>1
  <2>2. QED
    BY <1>4, <2>1
<1>7. Runs(tu, tr[1], Tail(q))
  BY <1>1, <1>4, <1>5, <1>6 DEF Runs
<1>8. \A i \in 0..Len(q) - 1 : tu[i] = tr[i + 1]
  <2>1. Len(q) - 1 = n
    BY <1>1
  <2>2. QED
    BY <1>4, <2>1
<1>9. QED
  BY <1>7, <1>8
-----------------------------------------------------------------------------
(***************************************************************************)
(* What only moves forward.                                                *)
(***************************************************************************)

\* The end, an adopt, and the host letting go of the session for good.
Onward ==
  /\ exited => exited' /\ seq' = seq
  /\ maybeLost => maybeLost'
  /\ Late => Late' /\ \A g \in Gates : gate[g].retired => gate'[g].retired

\* The stream ends once.
LEMMA StreamOnward ==
  ASSUME StreamInv, [Next]_vars
  PROVE  exited => exited' /\ seq' = seq
<1>1. pump = Reading => ~exited
  BY DEF StreamInv, OwedAreComplete
<1>2. CASE UNCHANGED ringVars
  BY <1>2 DEF ringVars
<1>3. CASE UNCHANGED vars
  BY <1>3 DEF vars
<1>4. CASE RecordExit \/ \E n \in 1..MaxLen : Record(n)
  BY <1>1, <1>4 DEF RecordExit, Record
<1>5. CASE HandOver \/ Detach \/ Close \/ (\E o \in Owners : AdoptOthers(o))
           \/ \E r \in Receivers : SendOwedExit(r) \/ \E a \in Anchors : Attach(r, a)
  BY <1>2, <1>5 DEF HandOver, Detach, Close, AdoptOthers, SendOwedExit, Attach
<1>6. QED
  BY <1>3, <1>4, <1>5 DEF Next

\* The lock is an attach's only after AttachBegins.
LEMMA NoAttachAnew ==
  ASSUME Typing, HostNext, serial.op # "attach", ~hostHas
  PROVE  serial'.op # "attach"
<1> USE DEF Typing
<1>1. CASE serial' = serial
  BY <1>1
<1>2. CASE HostRecord \/ Sink \/ ParkOwesExit \/ AdoptRetains \/ AdoptParks
           \/ (\E o \in Owners : AdoptBegins(o)) \/ CloseSession \/ CloseAll \/ CloseEnds \/ ProcessEnds
  BY <1>1, <1>2, SerialSays DEF HostRecord, Sink, SinkParked, SinkMarksEnded, PaceClears, PaceGivesUp,
     PaceStalls, GateDelivers, ParkOwesExit, AdoptRetains, AdoptParks, AdoptBegins, CloseSession,
     CloseAll, CloseEnds, ProcessEnds
<1>3. CASE AttachSteps
  BY <1>3 DEF AttachSteps, AttachRefused, AttachSwaps, AttachOwesExit, AttachRoutes, AttachAnswers
<1>4. CASE ParkSwaps
  BY <1>4, SerialSays, HoldingFacts DEF ParkSwaps
<1>5. CASE \E w \in waiting : ParkSkips(w) \/ ParkBegins(w)
  BY <1>1, <1>5, HoldingFacts DEF ParkSkips, ParkBegins
<1>6. CASE \E c \in Conns : ConnStep(c)
  BY <1>1, <1>6 DEF ConnStep, AttachBegins, AttachRechecks, OtherLine, Writes, WriteFails, AsksDetach,
     ReadLoopEnds, ClientLeaves, Closed, TeardownEnds
<1>7. QED
  BY <1>2, <1>3, <1>4, <1>5, <1>6, HostNextCases DEF ParkSteps

\* The host takes no session back, and forgets no adopt.
LEMMA HostOnward ==
  ASSUME HostNext
  PROVE  (~hostHas => ~hostHas') /\ (maybeLost => maybeLost')
<1>1. CASE HostRecord \/ Sink
  BY <1>1 DEF HostRecord, Sink, SinkParked, SinkMarksEnded, PaceClears, PaceGivesUp, PaceStalls, GateDelivers
<1>2. CASE AttachSteps
  BY <1>2 DEF AttachSteps, AttachRefused, AttachSwaps, AttachOwesExit, AttachRoutes, AttachAnswers
<1>3. CASE ParkSteps
  BY <1>3 DEF ParkSteps, ParkSwaps, ParkOwesExit, ParkSkips, ParkBegins
<1>4. CASE AdoptRetains \/ AdoptParks \/ (\E o \in Owners : AdoptBegins(o))
           \/ CloseSession \/ CloseAll \/ CloseEnds \/ ProcessEnds
  <2>1. CASE AdoptRetains
    <3>1. hostHas' = (hostHas /\ registered) /\ maybeLost' = maybeLost
      BY <2>1 DEF AdoptRetains
    <3>2. QED
      BY <3>1, Zenon
  <2>2. CASE AdoptParks
    <3>1. maybeLost' = TRUE \/ maybeLost' = maybeLost
      BY <2>2 DEF AdoptParks
    <3>2. QED
      BY <2>2, <3>1 DEF AdoptParks
  <2>3. CASE (\E o \in Owners : AdoptBegins(o)) \/ CloseSession \/ CloseAll \/ ProcessEnds
    BY <2>3 DEF AdoptBegins, CloseSession, CloseAll, ProcessEnds
  <2>4. CASE CloseEnds
    <3>1. hostHas' = FALSE \/ hostHas' = hostHas
      BY <2>4 DEF CloseEnds
    <3>2. QED
      BY <2>4, <3>1 DEF CloseEnds
  <2>5. QED
    BY <1>4, <2>1, <2>2, <2>3, <2>4
<1>5. CASE \E c \in Conns : ConnStep(c)
  BY <1>5 DEF ConnStep, AttachBegins, AttachRechecks, OtherLine, Writes, WriteFails, AsksDetach,
     ReadLoopEnds, ClientLeaves, Closed, TeardownEnds
<1>6. QED
  BY <1>1, <1>2, <1>3, <1>4, <1>5, HostNextCases

\* A gate once retired stays so, while the session is not the host's.
LEMMA RetiredStays ==
  ASSUME Typing, StreamInv, HostNext, ~hostHas, NEW g \in Gates, gate[g].retired
  PROVE  gate'[g].retired
<1> USE DEF Typing
<1>1. CASE GatesKept
  BY <1>1 DEF GatesKept
<1>2. CASE UNCHANGED gate
  BY <1>2
<1>3. CASE HostRecord \/ Sink
  BY <1>1, <1>3, QuietSteps DEF Quiet
<1>4. CASE AttachSteps
  <2>1. CASE AttachRefused \/ AttachRoutes
    BY <1>2, <2>1 DEF AttachRefused, AttachRoutes
  <2>2. CASE AttachSwaps \/ AttachOwesExit \/ AttachAnswers
    <3>1. PICK h \in Gates, c \in Conns : h = serial.to /\ c = serial.conn
      BY <2>2, SerialSays DEF AttachSwaps, AttachOwesExit, AttachAnswers
    <3>2. CASE AttachSwaps
      BY <1>1, <3>1, <3>2, SwapStarts DEF Started
    <3>3. CASE AttachOwesExit
      BY <1>1, <3>3, QuietSteps DEF Quiet
    <3>4. CASE AttachAnswers
      <4>1. PICK owing \in Seq(Line), out \in Seq(Line), lines \in Seq(Line), told \in BOOLEAN :
              Answered(c, h, owing, out, lines, told)
        BY <3>1, <3>4, AnswersDoes
      <4>2. Opened(c, h, lines, told)
        BY <4>1, AnswerOpens
      <4>3. QED
        BY <4>2 DEF Opened
    <3>5. QED
      BY <2>2, <3>2, <3>3, <3>4
  <2>3. QED
    BY <1>4, <2>1, <2>2 DEF AttachSteps
<1>5. CASE SwapGate(NoGate, NoAttach)
  <2>1. Swapped(NoGate, NoAttach)
    BY <1>5, SwapGateDoes, SinkAssumption DEF LinksTyped
  <2>2. g # NoGate
    BY SinkAssumption
  <2>3. QED
    BY <2>1, <2>2 DEF Swapped
<1>6. CASE ParkSteps
  BY <1>2, <1>5, <1>6 DEF ParkSteps, ParkSwaps, ParkOwesExit, ParkSkips, ParkBegins
<1>7. CASE AdoptRetains \/ AdoptParks \/ (\E o \in Owners : AdoptBegins(o))
           \/ CloseSession \/ CloseAll \/ CloseEnds \/ ProcessEnds
  BY <1>2, <1>5, <1>7 DEF AdoptRetains, AdoptParks, AdoptBegins, CloseSession, CloseAll, CloseEnds,
     ProcessEnds
<1>8. CASE \E c \in Conns : ConnStep(c)
  BY <1>2, <1>8 DEF ConnStep, AttachBegins, AttachRechecks, OtherLine, Writes, WriteFails, AsksDetach,
     ReadLoopEnds, ClientLeaves, Closed, TeardownEnds
<1>9. QED
  BY <1>3, <1>4, <1>6, <1>7, <1>8, HostNextCases

\* Every step of the host's moves forward.
LEMMA OnwardStep ==
  ASSUME Typing, StreamInv, HostNext
  PROVE  Onward
<1>1. SerialOK
  BY SerialSays DEF Typing, SerialOK
<1>2. [Next]_vars
  BY <1>1, HostStep
<1>3. exited => exited' /\ seq' = seq
  BY <1>2, StreamOnward
<1>4. Late => Late' /\ \A g \in Gates : gate[g].retired => gate'[g].retired
  BY NoAttachAnew, HostOnward, RetiredStays DEF Late
<1>5. QED
  BY <1>3, <1>4, HostOnward DEF Onward
\* ReplayFor ends where the ring does.
LEMMA ReplayEnds == \A a : ReplayFor(a).seq = seq
  BY DEF ReplayFor

\* An attach's swap makes its gate the manager's sink, from the end of the replay.
LEMMA AttachJoins ==
  ASSUME StreamInv, NEW r \in Receivers, NEW a, Attach(r, a)
  PROVE  /\ sink' = r /\ rx'[r].attached /\ rx'[r].count = seq /\ rx'[r].exits = 0
         /\ \A s \in Receivers \ {r} : rx'[s] = rx[s]
         /\ owed' = (IF exited THEN owed \cup {r} ELSE owed)
         /\ UNCHANGED <<ringVars, registered, owner, pump>>
<1>1. rx \in [Receivers -> Received]
  BY DEF StreamInv, TypeOK
<1>2. rx' = [rx EXCEPT ![r] = JoinedAt(ReplayFor(a).seq)]
  BY DEF Attach
<1>3. rx'[r] = JoinedAt(seq) /\ \A s \in Receivers \ {r} : rx'[s] = rx[s]
  BY <1>1, <1>2, ReplayEnds
<1>4. QED
  BY <1>3 DEF Attach, JoinedAt

\* An owed exit is one more exit, and nothing else.
LEMMA OwedExit ==
  ASSUME StreamInv, NEW r \in Receivers, SendOwedExit(r)
  PROVE  /\ exited /\ rx[r].exits = 0 /\ rx[r].count = seq
         /\ rx'[r].attached = rx[r].attached /\ rx'[r].count = rx[r].count /\ rx'[r].exits = 1
         /\ \A s \in Receivers \ {r} : rx'[s] = rx[s]
         /\ UNCHANGED <<ringVars, registered, owner, sink, pump>>
<1>1. rx \in [Receivers -> Received] /\ exited /\ rx[r].exits = 0 /\ rx[r].count = seq
  BY DEF StreamInv, TypeOK, OwedAreComplete, SendOwedExit
<1>2. seq \in Nat
  BY DEF StreamInv, TypeOK, RingTypeOK
<1>3. rx' = [rx EXCEPT ![r] = Given(rx[r], seq, 0)]
  BY DEF SendOwedExit
<1>4. /\ Given(rx[r], seq, 0).attached = rx[r].attached
      /\ Given(rx[r], seq, 0).count = rx[r].count /\ Given(rx[r], seq, 0).exits = 1
  BY <1>1, <1>2 DEF Given
<1>5. rx'[r] = Given(rx[r], seq, 0) /\ \A s \in Receivers \ {r} : rx'[s] = rx[s]
  BY <1>1, <1>3
<1>6. QED
  BY <1>1, <1>4, <1>5 DEF SendOwedExit

\* What the pump has in hand: the last record, or the exit, for a receiver that has the rest.
LEMMA InHand ==
  ASSUME StreamInv, pump.at = "handing"
  PROVE  /\ pump.to \in Receivers /\ pump.from \in 0..MaxSeq /\ pump.len \in 0..MaxLen
         /\ rx[pump.to].attached /\ rx[pump.to].count = pump.from /\ pump.from + pump.len = seq
         /\ pump.len # 0 => ~exited
         /\ pump.len = 0 => exited /\ rx[pump.to].exits = 0 /\ rx[pump.to].count = seq
<1>1. pump.to \in Receivers /\ pump.from \in 0..MaxSeq /\ pump.len \in 0..MaxLen
  BY DEF StreamInv, TypeOK, Reading, Done
<1>2. /\ rx[pump.to].attached /\ rx[pump.to].count = pump.from /\ pump.from + pump.len = seq
      /\ pump.len > 0 => ~exited
      /\ pump.len = 0 => exited /\ rx[pump.to].exits = 0
  BY DEF StreamInv, HandIsTheLastRecord
<1>3. pump.from \in Nat /\ pump.len \in Nat
  BY <1>1, Bounds
<1>4. QED
  BY <1>1, <1>2, <1>3

\* A sink that returns leaves the end seen as it was; the parked one notices it.
LEMMA EndHanded ==
  ASSUME Typing, StreamInv, EndSeen, HandOver, serial' = serial, maybeLost' = maybeLost,
         ended' = ended \/ (ended' = (ended \/ pump.len = 0) /\ pump.to \in Parks)
  PROVE  EndSeen'
<1> USE DEF Typing
<1>1. /\ pump.at = "handing" /\ pump.to \in Receivers /\ pump'.at # "handing"
      /\ \A r \in Receivers :
           rx'[r].count = IF r = pump.to THEN rx[r].count + pump.len ELSE rx[r].count
      /\ UNCHANGED <<ringVars, sink>>
  BY HandedOver
<1>2. /\ exited' = exited /\ seq' = seq /\ sink' = sink
      /\ pump.len # 0 => ~exited
      /\ pump.len = 0 => exited
  BY <1>1, InHand DEF ringVars
<1>3. ended' => exited'
  BY <1>2 DEF EndSeen
<1>4. serial' \in Attaching /\ serial'.at = "dead" => maybeLost'
  BY DEF EndSeen
<1>5. ASSUME serial \in Attaching, serial.at # "swapped"
      PROVE  sink' \in {serial.to, NoSink} /\ (ended' => rx'[serial.to].count = seq')
  <2>1. serial.to \in Gates /\ serial.to \in Receivers
    BY <1>5, SinkAssumption DEF Attaching
  <2>2. rx[serial.to].count \in Nat
    BY <2>1, Bounds DEF StreamInv, TypeOK, Received
  <2>3. CASE ended
    <3>1. rx[serial.to].count = seq /\ pump.len = 0
      BY <1>2, <1>5, <2>3 DEF EndSeen
    <3>2. rx'[serial.to].count = rx[serial.to].count
      BY <1>1, <2>1, <2>2, <3>1
    <3>3. QED
      BY <1>2, <1>5, <3>1, <3>2 DEF EndSeen
  <2>4. CASE ~ended /\ ended'
    <3>1. pump.len = 0 /\ pump.to \in Parks
      BY <2>4
    <3>2. pump.to # serial.to
      BY <2>1, <3>1, SinkAssumption
    <3>3. rx[serial.to].count = seq
      BY <1>1, <1>5, <3>1, <3>2 DEF EndSeen
    <3>4. rx'[serial.to].count = rx[serial.to].count
      BY <1>1, <2>1, <3>2
    <3>5. QED
      BY <1>2, <1>5, <3>3, <3>4 DEF EndSeen
  <2>5. CASE ~ended'
    BY <1>2, <1>5, <2>5 DEF EndSeen
  <2>6. QED
    BY <2>3, <2>4, <2>5
<1>6. QED
  BY <1>1, <1>3, <1>4, <1>5 DEF EndSeen

\* Nor does a step that touches none of it, and begins no attach.
LEMMA EndKept ==
  ASSUME EndSeen, UNCHANGED <<ended, exited, seq, rx, pump>>, maybeLost => maybeLost',
         serial' \in Attaching => serial' = serial /\ (sink' = sink \/ sink' = NoSink)
  PROVE  EndSeen'
<1>1. ended' => exited'
  BY DEF EndSeen
<1>2. CASE serial' \in Attaching
  <2>1. serial' = serial /\ (sink' = sink \/ sink' = NoSink)
    BY <1>2
  <2>2. QED
    BY <1>1, <1>2, <2>1 DEF EndSeen
<1>3. CASE serial' \notin Attaching
  BY <1>1, <1>3 DEF EndSeen
<1>4. QED
  BY <1>2, <1>3

\* A record is made before the end; the exit is taken for whoever is the sink.
LEMMA EndRecorded ==
  ASSUME Typing, StreamInv, EndSeen, HostRecord
  PROVE  EndSeen'
<1>1. ~exited
  BY DEF HostRecord, RecordExit, Record, MarkExited, Push
<1>2. ~ended
  BY <1>1 DEF EndSeen
<1>3. UNCHANGED <<ended, maybeLost, serial, sink, rx>>
  BY DEF HostRecord, RecordExit, Record
<1>4. pump'.at = "handing" /\ pump'.len = 0 => pump'.to = sink /\ sink # NoSink
  <2>1. CASE RecordExit
    BY <2>1 DEF RecordExit, Handing, Done
  <2>2. ASSUME NEW n \in 1..MaxLen, Record(n) PROVE pump'.at # "handing" \/ pump'.len # 0
    <3>1. n # 0
      OBVIOUS
    <3>2. QED
      BY <2>2, <3>1 DEF Record, Handing, Reading
  <2>3. QED
    BY <2>1, <2>2 DEF HostRecord
<1>5. QED
  BY <1>2, <1>3, <1>4 DEF EndSeen
\* ... when the lock is no attach's, or one's that has not swapped yet.
LEMMA EndFree ==
  ASSUME EndSeen, ended' => exited',
         serial' \in Attaching => serial'.at = "swapped"
  PROVE  EndSeen'
  BY DEF EndSeen

\* Every step keeps the end seen.
LEMMA EndStep ==
  ASSUME Typing, StreamInv, EndSeen, HostNext
  PROVE  EndSeen'
<1> USE DEF Typing
<1>0. Free \notin Attaching
  BY DEF Free, Attaching
<1>1. CASE HostRecord
  BY <1>1, EndRecorded
<1>2. CASE SinkParked \/ PaceGivesUp \/ PaceStalls \/ GateDelivers
  BY <1>2, EndHanded DEF SinkParked, PaceGivesUp, PaceStalls, GateDelivers, Calling
<1>3. CASE SinkMarksEnded
  <2>1. /\ pump.at = "handing" /\ pump.len = 0 /\ ended' = TRUE /\ UNCHANGED <<vars, maybeLost, serial>>
    BY <1>3 DEF SinkMarksEnded, Calling
  <2>2. exited /\ rx[pump.to].count = seq
    BY <2>1, InHand
  <2>3. serial \in Attaching /\ serial.at # "swapped" => rx[serial.to].count = seq
    BY <2>1, <2>2 DEF EndSeen
  <2>4. QED
    BY <2>1, <2>2, <2>3 DEF EndSeen, vars
<1>4. CASE PaceClears
  BY <1>4, EndKept DEF PaceClears, vars
<1>5. CASE AttachRefused \/ AttachAnswers
  <2>1. serial' = Free /\ UNCHANGED <<vars, ended>>
    BY <1>5 DEF AttachRefused, AttachAnswers, AttachReturns
  <2>2. QED
    BY <1>0, <2>1, EndFree DEF EndSeen, vars
<1>6. CASE AttachSwaps \/ AttachOwesExit \/ AttachRoutes
  <2>1. PICK g \in Gates, c \in Conns : g = serial.to /\ c = serial.conn
    BY <1>6, SerialSays DEF AttachSwaps, AttachOwesExit, AttachRoutes
  <2>2. g \in Receivers /\ serial \in Attaching
    BY <1>6, SinkAssumption, SerialSays DEF AttachSwaps, AttachOwesExit, AttachRoutes
  <2>3. CASE AttachSwaps
    <3>1. Attach(g, Fresh) /\ serial' = Holding("attach", "attached", c, g) /\ UNCHANGED <<ended, maybeLost>>
      BY <2>1, <2>3 DEF AttachSwaps
    <3>2. sink' = g /\ rx'[g].count = seq /\ seq' = seq /\ exited' = exited
      BY <2>2, <3>1, AttachJoins DEF ringVars
    <3>3. serial'.to = g /\ serial'.at = "attached"
      BY <3>1, HoldingFacts
    <3>4. QED
      BY <3>1, <3>2, <3>3 DEF EndSeen
  <2>4. CASE AttachOwesExit
    <3>1. SendOwedExit(g) /\ serial.at = "attached" /\ UNCHANGED <<serial, maybeLost>>
      BY <2>1, <2>4 DEF AttachOwesExit
    <3>2. /\ exited /\ rx'[g].count = seq /\ sink' = sink /\ seq' = seq /\ exited' = exited
      BY <2>2, <3>1, OwedExit DEF ringVars
    <3>3. QED
      BY <2>1, <2>2, <3>1, <3>2 DEF EndSeen
  <2>5. CASE AttachRoutes
    <3>1. /\ serial.at = "attached" /\ UNCHANGED <<vars, ended, maybeLost>>
          /\ \E at \in {"dead", "routed"} :
               serial' = Holding("attach", at, c, g) /\ (at = "dead" => maybeLost)
      BY <2>1, <2>5 DEF AttachRoutes
    <3>2. serial'.to = g /\ serial'.at # "swapped" /\ (serial'.at = "dead" => maybeLost)
      BY <3>1, HoldingFacts
    <3>3. QED
      BY <2>1, <2>2, <3>1, <3>2 DEF EndSeen, vars
  <2>6. QED
    BY <1>6, <2>3, <2>4, <2>5
<1>7. CASE ParkSwaps
  <2>1. serial' \notin Attaching /\ ended' = ended
    BY <1>0, <1>7, HoldingFacts DEF ParkSwaps, Attaching
  <2>2. exited' = exited
    BY <1>7 DEF ParkSwaps, Attach, vars, ringVars
  <2>3. QED
    BY <2>1, <2>2, EndFree DEF EndSeen
<1>8. CASE ParkOwesExit
  <2>1. serial' = Free /\ SendOwedExit(serial.to) /\ serial.to \in Receivers
    BY <1>8, SerialSays, SinkAssumption DEF ParkOwesExit
  <2>2. exited'
    BY <2>1, OwedExit DEF ringVars
  <2>3. QED
    BY <1>0, <2>1, <2>2, EndFree
<1>9. CASE \E w \in waiting : ParkSkips(w) \/ ParkBegins(w)
  <2>1. UNCHANGED <<vars, ended, maybeLost>>
    BY <1>9 DEF ParkSkips, ParkBegins
  <2>2. serial' \in Attaching => serial' = serial
    BY <1>9, HoldingFacts DEF ParkSkips, ParkBegins, Attaching
  <2>3. QED
    BY <2>1, <2>2, EndKept DEF vars
<1>10. CASE AdoptRetains \/ AdoptParks \/ (\E o \in Owners : AdoptBegins(o))
            \/ CloseSession \/ CloseAll \/ CloseEnds \/ ProcessEnds
  <2>1. UNCHANGED <<ended, exited, seq, rx, pump>> /\ (sink' = sink \/ sink' = NoSink)
    BY <1>10 DEF AdoptRetains, AdoptParks, AdoptBegins, AdoptOthers, CloseSession, CloseAll, CloseEnds,
       ProcessEnds, Close, ringVars, vars
  <2>2. serial' \in Attaching => serial' = serial
    BY <1>10, HoldingFacts DEF AdoptRetains, AdoptParks, AdoptBegins, CloseSession, CloseAll, CloseEnds,
       ProcessEnds, Attaching
  <2>3. maybeLost => maybeLost'
    BY HostOnward
  <2>4. QED
    BY <2>1, <2>2, <2>3, EndKept
<1>11. ASSUME NEW c \in Conns, ConnStep(c) PROVE EndSeen'
  <2>1. UNCHANGED vars
    BY <1>11, ConnStepIsSilent
  <2>2. UNCHANGED <<ended, maybeLost>>
    BY <1>11 DEF ConnStep, AttachBegins, AttachRechecks, OtherLine, Writes, WriteFails, AsksDetach,
       ReadLoopEnds, ClientLeaves, Closed, TeardownEnds
  <2>3. CASE \E g \in Gates : AttachBegins(c, g)
    <3>1. serial'.at = "swapped"
      BY <2>3, HoldingFacts DEF AttachBegins
    <3>2. QED
      BY <2>1, <2>2, <3>1, EndFree DEF EndSeen, vars
  <2>4. CASE serial' = serial
    BY <2>1, <2>2, <2>4, EndKept DEF vars
  <2>5. QED
    BY <1>11, <2>3, <2>4 DEF ConnStep, AttachRechecks, OtherLine, Writes, WriteFails, AsksDetach,
       ReadLoopEnds, ClientLeaves, Closed, TeardownEnds
<1>12. QED
  BY <1>1, <1>2, <1>3, <1>4, <1>5, <1>6, <1>7, <1>8, <1>9, <1>10, <1>11, HostNextCases
     DEF Sink, AttachSteps, ParkSteps
-----------------------------------------------------------------------------
(***************************************************************************)
(* Queues and pendings that stay as they are, and that get longer.         *)
(***************************************************************************)

\* What is excused stays so, of lines that stay.
LEMMA ExcusedOn ==
  ASSUME Onward, NEW g, NEW lines, NEW i, Excused(g, lines, i)
  PROVE  Excused(g, lines, i)'
  BY DEF Onward, Excused

\* ... and what fits stays fitting.
LEMMA LineFitsOn ==
  ASSUME Onward, NEW k, NEW lines, NEW i, LineFits(k, lines, i)
  PROVE  LineFits(k, lines, i)'
<1>1. Timely(k) => Timely(k)'
  BY DEF Onward, Timely
<1>2. Excused(lines[i].g, lines, i) => Excused(lines[i].g, lines, i)'
  BY ExcusedOn
<1>3. QED
  BY <1>1, <1>2 DEF LineFits

\* A connection nothing is sent on, none of whose live gates is given anything.
Untouched(c) ==
  /\ conn'[c].q = conn[c].q /\ view'[c] = view[c]
  /\ \A g \in Gates : Live(g, c)' => Live(g, c) /\ rx'[g].count = rx[g].count

\* It reads on as before.
LEMMA FedOn ==
  ASSUME LinksTyped, Onward, NEW c \in Conns, NEW tr, Fed(c, tr), Untouched(c)
  PROVE  Fed(c, tr)'
<1>1. PICK q \in Seq(Line), v \in View :
        q = conn[c].q /\ v = view[c] /\ conn'[c].q = q /\ view'[c] = v
  BY DEF LinksTyped, ConnState, Untouched
<1>2. /\ Runs(tr, PlaceOf(v), q) /\ ~v.foreign /\ ~v.gap
      /\ v.early => Excused(v.of, q, 0)
      /\ \A i \in 1..Len(q) : LineFits(tr[i - 1], q, i)
      /\ \A g \in Gates : Live(g, c) => tr[Len(q)] = UpTo(g)
  BY <1>1 DEF Fed
<1>3. v.early => Excused(v.of, q, 0)'
  BY <1>2, ExcusedOn
<1>4. \A i \in 1..Len(q) : LineFits(tr[i - 1], q, i)'
  BY <1>2, LineFitsOn
<1>5. \A g \in Gates : Live(g, c)' => tr[Len(q)] = UpTo(g)'
  BY <1>2 DEF Untouched, UpTo
<1>6. QED
  BY <1>1, <1>2, <1>3, <1>4, <1>5 DEF Fed

\* Lines put in the queue of c: they fit, and the last of them is where c's live gate is.
Fitting(c, k, tu, m) ==
  /\ Runs(tu, k, m)
  /\ \A j \in 1..Len(m) :
       /\ Fits(tu[j - 1], m[j])
       /\ m[j].t = "exit" => Timely(tu[j - 1]) \/ Excused(m[j].g, m, j)'
  /\ (\A j \in 1..Len(m) : m[j].t # "resp") \/ ~Late
  /\ \A g \in Gates : Live(g, c)' => tu[Len(m)] = UpTo(g)'

\* The client will read them in place.
LEMMA FedMore ==
  ASSUME LinksTyped, Onward, NEW c \in Conns, NEW tr, Fed(c, tr), NEW m \in Seq(Line), NEW tu,
         Fitting(c, tr[Len(conn[c].q)], tu, m), conn'[c].q = conn[c].q \o m, view'[c] = view[c]
  PROVE  \E both : Fed(c, both)'
<1>1. PICK q \in Seq(Line), v \in View, a \in Nat, b \in Nat :
        /\ q = conn[c].q /\ v = view[c] /\ a = Len(q) /\ b = Len(m)
        /\ conn'[c].q = q \o m /\ view'[c] = v
  <2>1. conn[c].q \in Seq(Line) /\ view[c] \in View
    BY DEF LinksTyped, ConnState
  <2>2. PICK q \in Seq(Line), v \in View : q = conn[c].q /\ v = view[c]
    BY <2>1
  <2>3. PICK a \in Nat, b \in Nat : a = Len(q) /\ b = Len(m)
    OBVIOUS
  <2>4. conn'[c].q = q \o m /\ view'[c] = v
    BY <2>2
  <2>5. QED
    BY <2>2, <2>3, <2>4
<1>2. /\ Runs(tr, PlaceOf(v), q) /\ ~v.foreign /\ ~v.gap
      /\ v.early => Excused(v.of, q, 0)
      /\ \A i \in 1..a : LineFits(tr[i - 1], q, i)
  BY <1>1 DEF Fed
<1>3. /\ Runs(tu, tr[a], m)
      /\ \A j \in 1..b : /\ Fits(tu[j - 1], m[j])
                         /\ m[j].t = "exit" => Timely(tu[j - 1]) \/ Excused(m[j].g, m, j)'
      /\ (\A j \in 1..b : m[j].t # "resp") \/ ~Late
      /\ \A g \in Gates : Live(g, c)' => tu[b] = UpTo(g)'
  BY <1>1 DEF Fitting
<1>4. PICK both : Runs(both, PlaceOf(v), q \o m) /\ Joins(both, tr, tu, a, b)
  BY <1>1, <1>2, <1>3, RunOn
<1>5. PICK all \in Seq(Line) :
        /\ all = q \o m /\ Len(all) = a + b
        /\ \A i \in 1..a : all[i] = q[i]
        /\ \A i \in 1..b : all[a + i] = m[i]
  <2>1. /\ q \o m \in Seq(Line) /\ Len(q \o m) = Len(q) + Len(m)
        /\ \A i \in 1..Len(q) : (q \o m)[i] = q[i]
        /\ \A i \in 1..Len(m) : (q \o m)[Len(q) + i] = m[i]
    BY Appended
  <2>2. PICK all \in Seq(Line) : all = q \o m
    BY <2>1
  <2>3. QED
    BY <1>1, <2>1, <2>2
<1>6. \A i \in 1..a + b : i \in 1..a \/ \E j \in 1..b : i = a + j
  <2> SUFFICES ASSUME NEW i \in 1..a + b PROVE i \in 1..a \/ \E j \in 1..b : i = a + j
    OBVIOUS
  <2>1. CASE i <= a
    BY <2>1
  <2>2. CASE ~(i <= a)
    <3>1. i - a \in 1..b /\ i = a + (i - a)
      BY <2>2
    <3>2. QED
      BY <3>1
  <2>3. QED
    BY <2>1, <2>2
\* An excuse of a line in q holds of it with the new lines after it.
<1>7. ASSUME NEW g, NEW i \in 0..a, Excused(g, q, i) PROVE Excused(g, all, i)'
  <2>1. CASE maybeLost
    BY <2>1 DEF Onward, Excused
  <2>2. CASE ~maybeLost
    <3>1. Late /\ g \in Gates /\ gate[g].retired /\ \A j \in i + 1 .. a : q[j].t # "resp"
      BY <1>1, <1>7, <2>2 DEF Excused
    <3>2. ASSUME NEW j \in i + 1 .. a + b PROVE all[j].t # "resp"
      <4>1. j \in 1..a + b /\ j >= i + 1
        BY <1>1
      <4>2. CASE j \in 1..a
        <5>1. j \in i + 1 .. a
          BY <4>1, <4>2
        <5>2. QED
          BY <1>5, <3>1, <4>2, <5>1
      <4>3. CASE \E l \in 1..b : j = a + l
        <5>1. PICK l \in 1..b : j = a + l
          BY <4>3
        <5>2. all[j] = m[l]
          BY <1>5, <5>1
        <5>3. m[l].t # "resp"
          BY <1>3, <3>1, <5>1
        <5>4. QED
          BY <5>2, <5>3
      <4>4. QED
        BY <1>6, <4>1, <4>2, <4>3
    <3>3. QED
      BY <1>5, <3>1, <3>2 DEF Onward, Excused
  <2>3. QED
    BY <2>1, <2>2
<1>8. v.early => Excused(v.of, all, 0)'
  BY <1>1, <1>2, <1>7
<1>9. ASSUME NEW i \in 1..a PROVE LineFits(both[i - 1], all, i)'
  <2>1. i - 1 \in 0..a /\ i \in 0..a
    BY <1>1
  <2>2. both[i - 1] = tr[i - 1] /\ all[i] = q[i]
    BY <1>4, <1>5, <2>1 DEF Joins
  <2>3. LineFits(tr[i - 1], q, i)
    BY <1>2
  <2>4. Fits(tr[i - 1], q[i]) /\ (q[i].t = "exit" => Timely(tr[i - 1]) \/ Excused(q[i].g, q, i))
    BY <2>3 DEF LineFits
  <2>5. Timely(tr[i - 1]) => Timely(tr[i - 1])'
    BY DEF Onward, Timely
  <2>6. Excused(q[i].g, q, i) => Excused(q[i].g, all, i)'
    BY <1>7, <2>1
  <2>7. QED
    BY <2>2, <2>4, <2>5, <2>6 DEF LineFits
<1>10. ASSUME NEW j \in 1..b PROVE LineFits(both[a + j - 1], all, a + j)'
  <2>1. j - 1 \in 0..b /\ a + (j - 1) = a + j - 1
    BY <1>1
  <2>2. both[a + j - 1] = tu[j - 1] /\ all[a + j] = m[j]
    BY <1>4, <1>5, <2>1 DEF Joins
  <2>3. Fits(tu[j - 1], m[j]) /\ (m[j].t = "exit" => Timely(tu[j - 1]) \/ Excused(m[j].g, m, j)')
    BY <1>3
  <2>4. Timely(tu[j - 1]) => Timely(tu[j - 1])'
    BY DEF Onward, Timely
  <2>5. ASSUME Excused(m[j].g, m, j)' PROVE Excused(m[j].g, all, a + j)'
    <3>1. ASSUME NEW i \in a + j + 1 .. a + b
          PROVE  \E l \in j + 1 .. b : all[i] = m[l]
      <4>1. PICK n \in Nat : n = j
        OBVIOUS
      <4>2. i \in Int /\ a + n + 1 <= i /\ i <= a + b
        BY <4>1
      <4>3. i - a \in Int /\ n + 1 <= i - a /\ i - a <= b /\ i = a + (i - a)
        BY <4>2
      <4>4. i - a \in n + 1 .. b /\ i - a \in 1..b
        BY <4>3
      <4>5. PICK l \in n + 1 .. b : l \in 1..b /\ i = a + l
        BY <4>3, <4>4
      <4>6. all[i] = m[l]
        BY <1>5, <4>5
      <4>7. QED
        BY <4>1, <4>5, <4>6
    <3>2. CASE maybeLost'
      BY <3>2 DEF Excused
    <3>3. CASE ~maybeLost'
      <4>1. /\ Late' /\ m[j].g \in Gates /\ gate'[m[j].g].retired
            /\ \A l \in j + 1 .. b : m[l].t # "resp"
        BY <1>1, <2>5, <3>3 DEF Excused
      <4>2. \A i \in a + j + 1 .. a + b : all[i].t # "resp"
        BY <3>1, <4>1
      <4>3. QED
        BY <1>5, <4>1, <4>2 DEF Excused
    <3>4. QED
      BY <3>2, <3>3
  <2>6. QED
    BY <2>2, <2>3, <2>4, <2>5 DEF LineFits
<1>11. \A i \in 1..a + b : LineFits(both[i - 1], all, i)'
  <2> SUFFICES ASSUME NEW i \in 1..a + b PROVE LineFits(both[i - 1], all, i)'
    OBVIOUS
  <2>1. CASE i \in 1..a
    BY <1>9, <2>1
  <2>2. CASE \E j \in 1..b : i = a + j
    <3>1. PICK j \in 1..b : i = a + j
      BY <2>2
    <3>2. LineFits(both[a + j - 1], all, a + j)'
      BY <1>10
    <3>3. QED
      BY <3>1, <3>2
  <2>3. QED
    BY <1>6, <2>1, <2>2
<1>12. both[a + b] = tu[b]
  <2>1. b \in 0..b
    BY <1>1
  <2>2. QED
    BY <1>4, <2>1 DEF Joins
<1>13. /\ Runs(both, PlaceOf(v), all)
       /\ \A g \in Gates : Live(g, c)' => both[Len(all)] = UpTo(g)'
  BY <1>3, <1>4, <1>5, <1>12
<1>14. conn'[c].q = all /\ view'[c] = v
  BY <1>1, <1>5
<1>15. Fed(c, both)'
  BY <1>2, <1>5, <1>8, <1>11, <1>13, <1>14 DEF Fed
<1>16. QED
  BY <1>15
\* An attach under way whose gate nothing is delivered to, or that need not be followed.
Waiting ==
  LET g == serial.to IN
  /\ serial \in Attaching /\ serial'.to = g
  /\ ~conn[serial.conn].closing
  /\ serial'.at = "swapped" <=> serial.at = "swapped"
  /\ gate'[g].pending = gate[g].pending /\ gate'[g].start = gate[g].start
  /\ gate'[g].exitSent = gate[g].exitSent
  /\ rx'[g].attached = rx[g].attached
  /\ rx'[g].exits = rx[g].exits \/ rx[g].exits # 1
  /\ gate[g].retired => gate'[g].retired
  /\ gate'[g].retired \/ rx'[g].count = rx[g].count

\* What waits for its response stays as it was.
LEMMA WaitsOn ==
  ASSUME Typing, Onward, GateWaits, serial' \in Attaching /\ ~conn'[serial'.conn].closing => Waiting
  PROVE  GateWaits'
<1> SUFFICES ASSUME NEW g \in Gates, serial' \in Attaching, serial'.to = g, ~conn'[serial'.conn].closing
             PROVE  \E tr : Waits(g, tr)'
  BY DEF GateWaits
<1>1. Waiting
  OBVIOUS
<1>2. g = serial.to
  BY <1>1 DEF Waiting
<1>3. PICK tr : Waits(g, tr)
  BY <1>1, <1>2 DEF GateWaits, Waiting
<1>4. PICK p \in Seq(Line) : p = gate[g].pending /\ gate'[g].pending = p
  BY <1>1, <1>2 DEF Waiting, Typing, LinksTyped, GateState
<1>5. Runs(tr, Joined(g)', p)
  <2>1. Joined(g)' = Joined(g)
    BY <1>1, <1>2 DEF Joined, Waiting
  <2>2. QED
    BY <1>3, <1>4, <2>1 DEF Waits
<1>6. ~gate'[g].exitSent
  BY <1>1, <1>2, <1>3 DEF Waits, Waiting
<1>7. serial'.at = "swapped" => p = <<>> /\ ~rx'[g].attached
  BY <1>1, <1>2, <1>3, <1>4 DEF Waits, Waiting
<1>8. \A i \in 1..Len(p) :
        /\ p[i].t \in {"data", "exit"} /\ Fits(tr[i - 1], p[i])
        /\ p[i].t = "exit" => Timely(tr[i - 1])' /\ i = Len(p) /\ rx'[g].exits = 1
  <2>1. \A i \in 1..Len(p) :
          /\ p[i].t \in {"data", "exit"} /\ Fits(tr[i - 1], p[i])
          /\ p[i].t = "exit" => Timely(tr[i - 1]) /\ i = Len(p) /\ rx[g].exits = 1
    BY <1>3, <1>4 DEF Waits
  <2>2. \A i \in 1..Len(p) : Timely(tr[i - 1]) => Timely(tr[i - 1])'
    BY DEF Onward, Timely
  <2>3. rx[g].exits = 1 => rx'[g].exits = 1
    BY <1>1, <1>2 DEF Waiting
  <2>4. QED
    BY <2>1, <2>2, <2>3
<1>9. tr[Len(p)].of = g /\ (tr[Len(p)].over => p # <<>> /\ p[Len(p)].t = "exit")
  BY <1>3, <1>4 DEF Waits
<1>10. serial'.at # "swapped" /\ ~gate'[g].retired => tr[Len(p)].count = rx'[g].count
  <2>1. serial.at # "swapped" /\ ~gate[g].retired => tr[Len(p)].count = rx[g].count
    BY <1>3, <1>4 DEF Waits
  <2>2. QED
    BY <1>1, <1>2, <2>1 DEF Waiting
<1>11. Waits(g, tr)'
  BY <1>4, <1>5, <1>6, <1>7, <1>8, <1>9, <1>10 DEF Waits
<1>12. QED
  BY <1>11

\* A line that waits for the response after the others.
LEMMA WaitsMore ==
  ASSUME Typing, Onward, NEW g \in Gates, NEW tr, Waits(g, tr), NEW l \in Line,
         serial' = serial, serial.to = g, serial.at # "swapped", ~gate[g].retired,
         \A i \in 1..Len(gate[g].pending) : gate[g].pending[i].t # "exit",
         l.t \in {"data", "exit"}, l.g = g,
         l.t = "data" => l.from = rx[g].count /\ rx'[g].count = rx[g].count + l.len,
         l.t = "exit" => /\ Timely(tr[Len(gate[g].pending)])
                         /\ rx'[g].exits = 1 /\ rx'[g].count = rx[g].count,
         gate'[g].pending = gate[g].pending \o <<l>>, gate'[g].start = gate[g].start,
         gate'[g].exitSent = gate[g].exitSent
  PROVE  \E both : Waits(g, both)'
<1>1. PICK p \in Seq(Line), n \in Nat : p = gate[g].pending /\ n = Len(p) /\ gate'[g].pending = p \o <<l>>
  <2>1. PICK p \in Seq(Line) : p = gate[g].pending
    BY DEF Typing, LinksTyped, GateState
  <2>2. PICK n \in Nat : n = Len(p)
    OBVIOUS
  <2>3. QED
    BY <2>1, <2>2
<1>2. /\ Runs(tr, Joined(g), p) /\ ~gate[g].exitSent
      /\ \A i \in 1..n : p[i].t \in {"data", "exit"} /\ Fits(tr[i - 1], p[i]) /\ p[i].t # "exit"
      /\ tr[n].of = g /\ tr[n].count = rx[g].count
      /\ tr[n].over => p # <<>> /\ p[n].t = "exit"
  BY <1>1 DEF Waits
<1>3. tr[n] \in Place
  <2>1. n \in 0..n
    OBVIOUS
  <2>2. QED
    BY <1>1, <1>2, <2>1 DEF Runs
<1>4. ~tr[n].over
  <2>1. p # <<>> => n \in 1..n
    BY <1>1, EmptySeq
  <2>2. QED
    BY <1>2, <2>1
<1>5. Fits(tr[n], l)
  BY <1>2, <1>4 DEF Fits
<1>6. PICK tu : Runs(tu, tr[n], <<l>>) /\ tu[1] = Moved(tr[n], l)
  BY <1>3, RunOne
<1>7. <<l>> \in Seq(Line) /\ Len(<<l>>) = 1 /\ <<l>>[1] = l
  BY Single
<1>8. PICK both : Runs(both, Joined(g), p \o <<l>>) /\ Joins(both, tr, tu, n, 1)
  BY <1>1, <1>2, <1>6, <1>7, RunOn
<1>9. PICK all \in Seq(Line) :
        /\ all = p \o <<l>> /\ Len(all) = n + 1
        /\ \A i \in 1..n : all[i] = p[i]
        /\ all[n + 1] = l
  <2>1. /\ p \o <<l>> \in Seq(Line) /\ Len(p \o <<l>>) = n + 1
        /\ \A i \in 1..n : (p \o <<l>>)[i] = p[i]
        /\ (p \o <<l>>)[n + 1] = l
    BY <1>1, <1>7
  <2>2. QED
    BY <2>1
<1>10. /\ \A i \in 1..n : both[i - 1] = tr[i - 1]
       /\ both[n] = tr[n] /\ both[n + 1] = Moved(tr[n], l)
  <2>1. \A i \in 1..n : i - 1 \in 0..n
    BY <1>1
  <2>2. n \in 0..n /\ 1 \in 0..1
    BY <1>1
  <2>3. QED
    BY <1>6, <1>8, <2>1, <2>2 DEF Joins
<1>11. /\ Moved(tr[n], l).of = g
       /\ Moved(tr[n], l).over => l.t = "exit"
       /\ Moved(tr[n], l).count = rx'[g].count
  <2>1. CASE l.t = "data"
    BY <1>2, <1>4, <2>1 DEF Moved
  <2>2. CASE l.t = "exit"
    BY <1>2, <2>2 DEF Moved
  <2>3. QED
    BY <2>1, <2>2
<1>12. ASSUME NEW i \in 1..n + 1
       PROVE  /\ all[i].t \in {"data", "exit"} /\ Fits(both[i - 1], all[i])
              /\ all[i].t = "exit" => Timely(both[i - 1])' /\ i = Len(all) /\ rx'[g].exits = 1
  <2>1. CASE i \in 1..n
    BY <1>2, <1>9, <1>10, <2>1
  <2>2. CASE i = n + 1
    <3>1. i - 1 = n
      BY <2>2
    <3>2. Timely(tr[n]) => Timely(tr[n])'
      BY DEF Onward, Timely
    <3>3. l.t = "exit" => Timely(tr[n]) /\ rx'[g].exits = 1
      BY <1>1
    <3>4. QED
      BY <1>5, <1>9, <1>10, <2>2, <3>1, <3>2, <3>3
  <2>3. i \in 1..n \/ i = n + 1
    BY <1>1
  <2>4. QED
    BY <2>1, <2>2, <2>3
<1>13. Runs(both, Joined(g)', all)
  <2>1. Joined(g)' = Joined(g)
    BY DEF Joined
  <2>2. QED
    BY <1>8, <1>9, <2>1
<1>14. /\ both[Len(all)].of = g /\ both[Len(all)].count = rx'[g].count
       /\ both[Len(all)].over => all # <<>> /\ all[Len(all)].t = "exit"
  <2>1. all # <<>>
    BY <1>1, <1>9, EmptySeq
  <2>2. QED
    BY <1>9, <1>10, <1>11, <2>1
<1>15. gate'[g].pending = all /\ ~gate'[g].exitSent /\ serial'.at # "swapped"
  BY <1>1, <1>2, <1>9
<1>16. Waits(g, both)'
  BY <1>9, <1>12, <1>13, <1>14, <1>15 DEF Waits
<1>17. QED
  BY <1>16
-----------------------------------------------------------------------------
(***************************************************************************)
(* The answer.                                                             *)
(***************************************************************************)

\* What follows a response fits a client that has read it.
Following(g, to, out) ==
  /\ Runs(to, Joined(g), out)
  /\ \A i \in 1..Len(out) :
       /\ out[i].t # "resp" /\ Fits(to[i - 1], out[i])
       /\ out[i].t = "exit" => Timely(to[i - 1]) \/ Excused(out[i].g, out, i)'
  /\ (\A i \in 1..Len(out) : out[i].t # "exit") /\ ~gate[g].retired => to[Len(out)] = UpTo(g)

\* What an answer is made of.
LEMMA AnswerParts ==
  ASSUME NEW c, NEW g, NEW owing, NEW out, NEW lines, NEW told, Answered(c, g, owing, out, lines, told)
  PROVE  /\ owing = gate[g].pending \o IF ended \/ serial.at = "dead" THEN <<Exit(g)>> ELSE <<>>
         /\ out = Emitted(owing)
         /\ lines = <<Resp(g, gate[g].start)>> \o out
  BY DEF Answered

\* ... and whether the gate has sent its exit.
LEMMA AnswerTells ==
  ASSUME NEW c, NEW g, NEW owing, NEW out, NEW lines, NEW told, Answered(c, g, owing, out, lines, told)
  PROVE  ~told => \A i \in 1..Len(out) : out[i].t # "exit"
<1>1. told = \E i \in 1..Len(out) : out[i].t = "exit"
  BY DEF Answered
<1>2. QED
  BY <1>1

\* ... and it is what waited, with the exit the session's end adds to it.
LEMMA AnswerFollows ==
  ASSUME Typing, StreamInv, Routing, EndSeen, Onward, AttachAnswers,
         NEW c \in Conns, NEW g \in Gates, c = serial.conn, g = serial.to,
         NEW owing \in Seq(Line), NEW out \in Seq(Line), NEW lines, NEW told,
         Answered(c, g, owing, out, lines, told), Opened(c, g, lines, told), NEW tr, Waits(g, tr)
  PROVE  \E to : Following(g, to, out)
<1>1. PICK p \in Seq(Line), n \in Nat : p = gate[g].pending /\ n = Len(p)
  <2>1. PICK p \in Seq(Line) : p = gate[g].pending
    BY DEF Typing, LinksTyped, GateState
  <2>2. PICK n \in Nat : n = Len(p)
    OBVIOUS
  <2>3. QED
    BY <2>1, <2>2
<1>2. /\ serial \in Attaching /\ serial.at \in {"routed", "dead"} /\ serial' = Free
      /\ UNCHANGED <<hostHas, maybeLost>>
  BY SerialSays DEF AttachAnswers, AttachReturns, Typing
<1>3. /\ Runs(tr, Joined(g), p)
      /\ \A i \in 1..n : /\ p[i].t \in {"data", "exit"} /\ Fits(tr[i - 1], p[i])
                         /\ p[i].t = "exit" => Timely(tr[i - 1])
      /\ tr[n].of = g /\ (tr[n].over => p # <<>> /\ p[n].t = "exit")
      /\ ~gate[g].retired => tr[n].count = rx[g].count
  BY <1>1, <1>2 DEF Waits
<1>4. tr[n] \in Place
  <2>1. n \in 0..n
    OBVIOUS
  <2>2. QED
    BY <1>1, <1>3, <2>1 DEF Runs
<1>5. /\ out = Emitted(owing)
      /\ owing = p \o IF ended \/ serial.at = "dead" THEN <<Exit(g)>> ELSE <<>>
  <2>1. /\ out = Emitted(owing)
        /\ owing = gate[g].pending \o IF ended \/ serial.at = "dead" THEN <<Exit(g)>> ELSE <<>>
    BY AnswerParts
  <2>2. QED
    BY <1>1, <2>1
<1>6. /\ Len(out) <= Len(owing)
      /\ \A i \in 1..Len(out) : out[i] = owing[i]
      /\ \A i \in 1..Len(out) : out[i].t = "exit" => i = Len(out)
      /\ (\A i \in 1..Len(out) : out[i].t # "exit") => out = owing
  <2>1. LET o == Emitted(owing)
        IN /\ Len(o) <= Len(owing)
           /\ \A i \in 1..Len(o) : o[i] = owing[i]
           /\ \A i \in 1..Len(o) : o[i].t = "exit" => i = Len(o)
           /\ (\A i \in 1..Len(o) : o[i].t # "exit") => o = owing
    BY EmittedFacts
  <2>2. out = Emitted(owing)
    BY <1>5
  <2>3. QED
    BY <2>1, <2>2
\* Nothing is added to what waited.
<1>7. CASE ~(ended \/ serial.at = "dead")
  <2>1. owing = p
    <3>1. p \o <<>> = p
      BY ConcatEmptySeq
    <3>2. QED
      BY <1>5, <1>7, <3>1
  <2>2. PICK to : Runs(to, Joined(g), out) /\ \A i \in 0..Len(out) : to[i] = tr[i]
    BY <1>3, <1>6, <2>1, RunFirst
  <2>3. ASSUME NEW i \in 1..Len(out)
        PROVE  /\ out[i].t # "resp" /\ Fits(to[i - 1], out[i])
               /\ out[i].t = "exit" => Timely(to[i - 1])
    <3>1. i \in 1..n /\ i - 1 \in 0..Len(out) /\ out[i] = p[i]
      BY <1>1, <1>6, <2>1
    <3>2. QED
      BY <1>3, <2>2, <3>1
  <2>4. ASSUME \A i \in 1..Len(out) : out[i].t # "exit", ~gate[g].retired
        PROVE  to[Len(out)] = UpTo(g)
    <3>1. out = p /\ Len(out) = n
      BY <1>1, <1>6, <2>1, <2>4
    <3>2. ~tr[n].over
      <4>1. p # <<>> => n \in 1..n
        BY <1>1, EmptySeq
      <4>2. QED
        BY <1>3, <2>4, <3>1, <4>1
    <3>3. to[Len(out)] = tr[n]
      <4>1. n \in 0..n
        BY <1>1
      <4>2. QED
        BY <2>2, <3>1, <4>1
    <3>4. tr[n].count = rx[g].count
      BY <1>3, <2>4
    <3>5. QED
      BY <1>3, <1>4, <3>2, <3>3, <3>4 DEF Place, UpTo
  <2>5. Following(g, to, out)
    BY <2>2, <2>3, <2>4 DEF Following
  <2>6. QED
    BY <2>5
\* The end is added.
<1>8. CASE ended \/ serial.at = "dead"
  <2>1. owing = p \o <<Exit(g)>> /\ Exit(g) \in Line /\ Exit(g).t = "exit" /\ Exit(g).g = g
    BY <1>5, <1>8, LinesMade
  <2>2. PICK tu : Runs(tu, tr[n], <<Exit(g)>>)
    BY <1>4, <2>1, RunOne
  <2>3. /\ <<Exit(g)>> \in Seq(Line) /\ Len(<<Exit(g)>>) = 1
        /\ Len(owing) = n + 1 /\ owing[n + 1] = Exit(g) /\ \A i \in 1..n : owing[i] = p[i]
    BY <1>1, <2>1
  <2>4. PICK both : Runs(both, Joined(g), owing) /\ Joins(both, tr, tu, n, 1)
    BY <1>1, <1>3, <2>1, <2>2, <2>3, RunOn
  <2>5. PICK to : Runs(to, Joined(g), out) /\ \A i \in 0..Len(out) : to[i] = both[i]
    <3>1. Len(out) <= Len(owing) /\ \A i \in 1..Len(out) : out[i] = owing[i]
      BY <1>6
    <3>2. Runs(both, Joined(g), owing)
      BY <2>4
    <3>3. \E to : Runs(to, Joined(g), out) /\ \A i \in 0..Len(out) : to[i] = both[i]
      BY <3>1, <3>2, RunFirst
    <3>4. QED
      BY <3>3
  <2>6. PICK m \in Nat : m = Len(out) /\ m <= n + 1
    BY <1>6, <2>3
  <2>7. ASSUME NEW i \in 1..m, i \in 1..n
        PROVE  /\ out[i].t # "resp" /\ Fits(to[i - 1], out[i])
               /\ out[i].t = "exit" => Timely(to[i - 1])
    <3>1. i - 1 \in 0..m /\ i - 1 \in 0..n /\ out[i] = p[i]
      BY <1>6, <2>3, <2>6, <2>7
    <3>2. to[i - 1] = tr[i - 1]
      BY <2>4, <2>5, <2>6, <3>1 DEF Joins
    <3>3. QED
      BY <1>3, <2>7, <3>1, <3>2
  <2>8. ASSUME m = n + 1
        PROVE  /\ out[m].t # "resp" /\ Fits(to[m - 1], out[m])
               /\ out[m].t = "exit" => Timely(to[m - 1]) \/ Excused(out[m].g, out, m)'
    <3>1. m \in 1..m /\ m - 1 = n /\ n \in 0..m /\ n \in 0..n
      BY <2>8
    <3>2. out[m] = Exit(g)
      BY <1>6, <2>3, <2>6, <2>8, <3>1
    <3>3. to[m - 1] = tr[n]
      BY <2>4, <2>5, <2>6, <3>1 DEF Joins
    <3>4. ~tr[n].over
      <4>1. p # <<>> => n \in 1..n
        BY <1>1, EmptySeq
      <4>2. n \in 1..n => n \in 1..m /\ n # m
        BY <2>8
      <4>3. n \in 1..n => out[n] = p[n]
        BY <1>6, <2>3, <2>6, <4>2
      <4>4. QED
        BY <1>3, <1>6, <2>6, <4>1, <4>2, <4>3
    <3>5. Fits(tr[n], Exit(g))
      BY <1>3, <2>1, <3>4 DEF Fits
    <3>6. Timely(tr[n]) \/ Excused(g, out, m)'
      <4>1. CASE serial.at = "dead"
        BY <1>2, <4>1 DEF EndSeen, Excused
      <4>2. CASE serial.at # "dead" /\ ~gate[g].retired
        <5>1. exited /\ rx[g].count = seq
          BY <1>2, <1>8, <4>2 DEF EndSeen
        <5>2. QED
          BY <1>3, <4>2, <5>1 DEF Timely
      <4>3. CASE gate[g].retired
        <5>1. ~hostHas
          BY <1>2, <4>3 DEF Routing, Current
        <5>2. Late'
          BY <1>2, <5>1 DEF Late, Free
        <5>3. gate'[g].retired
          BY <4>3 DEF Opened
        <5>4. \A j \in m + 1 .. Len(out) : out[j].t # "resp"
          <6>1. \A j \in m + 1 .. Len(out) : FALSE
            BY <2>6
          <6>2. QED
            BY <6>1
        <5>5. QED
          BY <5>2, <5>3, <5>4 DEF Excused
      <4>4. QED
        BY <4>1, <4>2, <4>3
    <3>7. QED
      BY <2>1, <3>2, <3>3, <3>5, <3>6
  <2>9. ~(\A i \in 1..m : out[i].t # "exit")
    <3>1. SUFFICES ASSUME \A i \in 1..m : out[i].t # "exit" PROVE FALSE
      OBVIOUS
    <3>2. out = owing /\ m = n + 1
      BY <1>6, <2>3, <2>6, <3>1
    <3>3. m \in 1..m /\ out[m] = Exit(g)
      BY <2>3, <3>2
    <3>4. QED
      BY <2>1, <3>1, <3>3
  <2>10. \A i \in 1..m : i \in 1..n \/ (i = m /\ m = n + 1)
    BY <2>6
  <2>11. Following(g, to, out)
    BY <2>5, <2>6, <2>7, <2>8, <2>9, <2>10 DEF Following
  <2>12. QED
    BY <2>11
<1>9. QED
  BY <1>7, <1>8

\* It fits whoever reads it: the response first, then the rest.
LEMMA AnswerFits ==
  ASSUME Typing, Routing, Onward, AttachAnswers,
         NEW c \in Conns, NEW g \in Gates, c = serial.conn, g = serial.to,
         NEW owing, NEW out \in Seq(Line), NEW lines \in Seq(Line), NEW told,
         Answered(c, g, owing, out, lines, told), Opened(c, g, lines, told),
         NEW to, Following(g, to, out), NEW k \in Place
  PROVE  \E tu : Fitting(c, k, tu, lines)
<1>1. PICK r \in Line : r = Resp(g, gate[g].start) /\ r.t = "resp" /\ Moved(k, r) = Joined(g)
  <2>1. gate[g].start \in 0..MaxSeq
    BY DEF Typing, LinksTyped, GateState
  <2>2. PICK r \in Line : r = Resp(g, gate[g].start) /\ r.t = "resp" /\ r.g = g /\ r.at = gate[g].start
    BY <2>1, LinesMade
  <2>3. QED
    BY <2>2 DEF Moved, Joined
<1>2. PICK n \in Nat :
        /\ n = Len(out) /\ lines = <<r>> \o out /\ Len(lines) = 1 + n
        /\ lines[1] = r /\ \A i \in 1..n : lines[1 + i] = out[i]
  <2>1. lines = <<r>> \o out
    BY <1>1, AnswerParts
  <2>2. PICK n \in Nat : n = Len(out)
    OBVIOUS
  <2>3. <<r>> \in Seq(Line) /\ Len(<<r>>) = 1 /\ <<r>>[1] = r
    BY <1>1, Single
  <2>4. /\ Len(<<r>> \o out) = 1 + n
        /\ \A i \in 1..1 : (<<r>> \o out)[i] = <<r>>[i]
        /\ \A i \in 1..n : (<<r>> \o out)[1 + i] = out[i]
    BY <2>2, <2>3, Appended
  <2>5. 1 \in 1..1
    OBVIOUS
  <2>6. QED
    BY <2>1, <2>2, <2>3, <2>4, <2>5
<1>3. PICK one : Runs(one, k, <<r>>) /\ one[1] = Joined(g)
  BY <1>1, RunOne
<1>4. /\ Runs(to, Joined(g), out)
      /\ \A i \in 1..n : /\ out[i].t # "resp" /\ Fits(to[i - 1], out[i])
                         /\ out[i].t = "exit" => Timely(to[i - 1]) \/ Excused(out[i].g, out, i)'
      /\ (\A i \in 1..n : out[i].t # "exit") /\ ~gate[g].retired => to[n] = UpTo(g)
  BY <1>2 DEF Following
<1>5. PICK tu : Runs(tu, k, lines) /\ Joins(tu, one, to, 1, n)
  <2>1. <<r>> \in Seq(Line) /\ Len(<<r>>) = 1
    BY <1>1, Single
  <2>2. Runs(to, one[Len(<<r>>)], out)
    BY <1>3, <1>4, <2>1
  <2>3. \E both : Runs(both, k, <<r>> \o out) /\ Joins(both, one, to, Len(<<r>>), Len(out))
    BY <1>3, <2>1, <2>2, RunOn
  <2>4. QED
    BY <1>2, <2>1, <2>3
<1>6. /\ tu[0] = k /\ tu[1 + n] = to[n]
      /\ \A i \in 1..n : tu[i] = to[i - 1]
  <2>1. 0 \in 0..1 /\ n \in 0..n
    OBVIOUS
  <2>2. \A i \in 1..n : i - 1 \in 0..n /\ 1 + (i - 1) = i
    BY <1>2
  <2>3. one[0] = k
    BY <1>3 DEF Runs
  <2>4. /\ \A i \in 0..1 : tu[i] = one[i]
        /\ \A i \in 0..n : tu[1 + i] = to[i]
    BY <1>5 DEF Joins
  <2>5. ASSUME NEW i \in 1..n PROVE tu[i] = to[i - 1]
    <3>1. tu[1 + (i - 1)] = to[i - 1]
      BY <2>2, <2>4
    <3>2. QED
      BY <2>2, <3>1
  <2>6. QED
    BY <2>1, <2>3, <2>4, <2>5
<1>7. ASSUME NEW i \in 1..n, Excused(out[i].g, out, i)' PROVE Excused(out[i].g, lines, 1 + i)'
  <2>1. CASE maybeLost'
    BY <2>1 DEF Excused
  <2>2. CASE ~maybeLost'
    <3>1. Late' /\ out[i].g \in Gates /\ gate'[out[i].g].retired
      BY <1>7, <2>2 DEF Excused
    <3>2. ASSUME NEW j \in (1 + i) + 1 .. Len(lines) PROVE lines[j].t # "resp"
      <4>1. PICK l \in Nat : l = i
        OBVIOUS
      <4>2. j \in Int /\ (1 + l) + 1 <= j /\ j <= 1 + n
        BY <1>2, <4>1
      <4>3. j - 1 \in 1..n /\ 1 + (j - 1) = j
        BY <4>2
      <4>4. PICK e \in 1..n : e = j - 1
        BY <4>3
      <4>5. lines[1 + e] = out[e]
        BY <1>2
      <4>6. QED
        BY <1>4, <4>3, <4>4, <4>5
    <3>3. QED
      BY <3>1, <3>2 DEF Excused
  <2>3. QED
    BY <2>1, <2>2
<1>8. ASSUME NEW j \in 1..Len(lines)
      PROVE  /\ Fits(tu[j - 1], lines[j])
             /\ lines[j].t = "exit" => Timely(tu[j - 1]) \/ Excused(lines[j].g, lines, j)'
  <2>1. j = 1 \/ j - 1 \in 1..n
    BY <1>2
  <2>2. CASE j = 1
    BY <1>1, <1>2, <2>2 DEF Fits
  <2>3. CASE j - 1 \in 1..n
    <3>1. PICK i \in 1..n : j - 1 = i /\ j = 1 + i
      BY <2>3
    <3>2. lines[j] = out[i] /\ tu[j - 1] = to[i - 1]
      BY <1>2, <1>6, <3>1
    <3>3. QED
      BY <1>4, <1>7, <3>1, <3>2
  <2>4. QED
    BY <2>1, <2>2, <2>3
<1>9. ~Late
  BY SerialSays DEF AttachAnswers, Late
<1>10. ASSUME NEW h \in Gates, Live(h, c)' PROVE tu[Len(lines)] = UpTo(h)'
  <2>1. CASE h = g
    <3>1. ~told => \A i \in 1..Len(out) : out[i].t # "exit"
      BY AnswerTells
    <3>2. ~told /\ ~gate[g].retired
      BY <1>10, <2>1 DEF Live, Opened
    <3>3. to[n] = UpTo(g)
      BY <1>2, <1>4, <3>1, <3>2
    <3>4. rx' = rx
      BY DEF AttachAnswers, vars
    <3>5. UpTo(g)' = UpTo(g)
      BY <3>4 DEF UpTo
    <3>6. QED
      BY <1>2, <1>6, <2>1, <3>3, <3>5
  <2>2. CASE h # g
    <3>1. gate[h].conn = c /\ ~gate[h].retired
      BY <1>10, <2>2 DEF Live, Opened
    <3>2. h = cur /\ cur \in {g, NoGate}
      BY <3>1, SerialSays DEF Routing, Current, Typing, AttachAnswers
    <3>3. QED
      BY <2>2, <3>2, SinkAssumption
  <2>3. QED
    BY <2>1, <2>2
<1>11. Fitting(c, k, tu, lines)
  BY <1>5, <1>8, <1>9, <1>10 DEF Fitting
<1>12. QED
  BY <1>11
-----------------------------------------------------------------------------
(***************************************************************************)
(* What each step leaves of the queues and of what waits.                  *)
(***************************************************************************)

\* Lines put in c's queue that fit, wherever its client is.
Reached(c) ==
  \E m \in Seq(Line) :
    /\ conn'[c].q = conn[c].q \o m /\ view'[c] = view[c]
    /\ \A tr : Fed(c, tr) => \E tu : Fitting(c, tr[Len(conn[c].q)], tu, m)

\* The clients read on where nothing was sent, or what was sent fits.
LEMMA LinksOn ==
  ASSUME Typing, Onward, LinksFed,
         \A c \in Conns : ~conn'[c].closing => ~conn[c].closing /\ (Untouched(c) \/ Reached(c))
  PROVE  LinksFed'
<1> SUFFICES ASSUME NEW c \in Conns, ~conn'[c].closing PROVE \E tr : Fed(c, tr)'
  BY DEF LinksFed
<1>1. PICK tr : Fed(c, tr)
  BY DEF LinksFed
<1>2. LinksTyped
  BY DEF Typing
<1>3. CASE Untouched(c)
  BY <1>1, <1>2, <1>3, FedOn
<1>4. CASE Reached(c)
  <2>1. PICK m \in Seq(Line) :
          /\ conn'[c].q = conn[c].q \o m /\ view'[c] = view[c]
          /\ \A tt : Fed(c, tt) => \E tu : Fitting(c, tt[Len(conn[c].q)], tu, m)
    BY <1>4 DEF Reached
  <2>2. PICK tu : Fitting(c, tr[Len(conn[c].q)], tu, m)
    BY <1>1, <2>1
  <2>3. QED
    BY <1>1, <1>2, <2>1, <2>2, FedMore
<1>5. QED
  BY <1>3, <1>4

\* Where a client will be is a place.
LEMMA FedPlace ==
  ASSUME LinksTyped, NEW c \in Conns, NEW tr, Fed(c, tr)
  PROVE  tr[Len(conn[c].q)] \in Place
<1>1. PICK n \in Nat : n = Len(conn[c].q)
  <2>1. conn[c].q \in Seq(Line)
    BY DEF LinksTyped, ConnState
  <2>2. QED
    BY <2>1
<1>2. tr \in [0..n -> Place]
  BY <1>1 DEF Fed, Runs
<1>3. n \in 0..n
  OBVIOUS
<1>4. QED
  BY <1>1, <1>2, <1>3

\* Nothing is sent, and no gate is given anything.
Resting ==
  /\ UNCHANGED <<conn, view>>
  /\ \A g \in Gates :
       /\ rx'[g] = rx[g]
       /\ gate'[g].conn = gate[g].conn /\ gate'[g].open = gate[g].open
       /\ gate'[g].start = gate[g].start /\ gate'[g].pending = gate[g].pending
       /\ gate'[g].exitSent = gate[g].exitSent /\ (gate[g].retired => gate'[g].retired)
  /\ serial' \in Attaching =>
       /\ serial \in Attaching /\ serial'.to = serial.to /\ serial'.conn = serial.conn
       /\ serial'.at = "swapped" <=> serial.at = "swapped"

\* Everyone reads on, and what waits stays.
LEMMA RestReads ==
  ASSUME Typing, Onward, LinksFed, GateWaits, Resting
  PROVE  LinksFed' /\ GateWaits'
<1>1. \A c \in Conns : Untouched(c)
  <2>1. ASSUME NEW c \in Conns, NEW g \in Gates, Live(g, c)' PROVE Live(g, c)
    <3>1. gate[g].retired \in BOOLEAN /\ gate[g].exitSent \in BOOLEAN
      BY DEF Typing, LinksTyped, GateState
    <3>2. QED
      BY <2>1, <3>1 DEF Resting, Live
  <2>2. QED
    BY <2>1 DEF Resting, Untouched
<1>2. LinksFed'
  BY <1>1, LinksOn DEF Resting
<1>3. serial' \in Attaching /\ ~conn'[serial'.conn].closing => Waiting
  BY DEF Resting, Waiting, Attaching
<1>4. QED
  BY <1>2, <1>3, WaitsOn

\* Gates and receivers left alone, or a swap that installs none, give nobody anything.
LEMMA StaysResting ==
  ASSUME Typing, UNCHANGED <<conn, view>>, \A g \in Gates : rx'[g] = rx[g],
         gate' = gate \/ SwapGate(NoGate, NoAttach),
         serial' \in Attaching =>
           /\ serial \in Attaching /\ serial'.to = serial.to /\ serial'.conn = serial.conn
           /\ serial'.at = "swapped" <=> serial.at = "swapped"
  PROVE  Resting
<1>1. CASE gate' = gate
  BY <1>1 DEF Resting
<1>2. CASE SwapGate(NoGate, NoAttach)
  <2>1. Swapped(NoGate, NoAttach)
    BY <1>2, SwapGateDoes, SinkAssumption DEF Typing, LinksTyped
  <2>2. \A g \in Gates : g # NoGate
    BY SinkAssumption
  <2>3. ASSUME NEW g \in Gates
        PROVE  /\ gate'[g].conn = gate[g].conn /\ gate'[g].open = gate[g].open
               /\ gate'[g].start = gate[g].start /\ gate'[g].pending = gate[g].pending
               /\ gate'[g].exitSent = gate[g].exitSent /\ (gate[g].retired => gate'[g].retired)
    BY <2>1, <2>2 DEF Swapped
  <2>4. QED
    BY <2>3 DEF Resting
<1>3. QED
  BY <1>1, <1>2

\* A chunk given up, to a gate that is retired or whose link is dropped.
LEMMA GivenUpReads ==
  ASSUME Typing, StreamInv, Onward, LinksFed, GateWaits, PaceGivesUp \/ PaceStalls
  PROVE  LinksFed' /\ GateWaits'
<1>1. PICK g \in Gates : g = pump.to
  BY DEF PaceGivesUp, PaceStalls, Calling
<1>2. PICK c \in Conns : c = gate[g].conn
  BY <1>1, InHand DEF PaceGivesUp, PaceStalls, Calling, Typing, LinksTyped
<1>3. /\ gate[g].retired \/ conn'[c].closing
      /\ \A d \in Conns : /\ conn'[d].q = conn[d].q
                          /\ ~conn'[d].closing => ~conn[d].closing
      /\ UNCHANGED <<gate, view, serial>> /\ HandOver /\ pump.len # 0
  <2>1. CASE PaceGivesUp
    BY <1>1, <1>2, <2>1 DEF PaceGivesUp
  <2>2. CASE PaceStalls
    <3>1. /\ conn' = [conn EXCEPT ![c].closing = TRUE] /\ pump.len # 0
          /\ UNCHANGED <<gate, view, serial>> /\ HandOver
      BY <1>1, <1>2, <2>2 DEF PaceStalls
    <3>2. PICK k \in ConnState : k = [conn[c] EXCEPT !.closing = TRUE]
      BY DEF Typing, LinksTyped, ConnState
    <3>3. k.q = conn[c].q /\ k.closing /\ conn' = [conn EXCEPT ![c] = k]
      BY <3>1, <3>2 DEF Typing, LinksTyped, ConnState
    <3>4. conn'[c] = k /\ \A d \in Conns \ {c} : conn'[d] = conn[d]
      BY <3>3, ConnBecomes DEF Typing, LinksTyped
    <3>5. QED
      BY <3>1, <3>3, <3>4
  <2>3. QED
    BY <2>1, <2>2
<1>4. \A h \in Gates : /\ rx'[h].attached = rx[h].attached /\ rx'[h].exits = rx[h].exits
                       /\ h # g => rx'[h].count = rx[h].count
  BY <1>1, <1>3, HandedOver, SinkAssumption
<1>5. ASSUME NEW d \in Conns, ~conn'[d].closing PROVE Untouched(d)
  <2>1. ASSUME NEW h \in Gates, Live(h, d)' PROVE Live(h, d) /\ rx'[h].count = rx[h].count
    <3>1. Live(h, d) /\ gate[h].conn = d /\ ~gate[h].retired
      BY <1>3, <2>1 DEF Live
    <3>2. h # g
      BY <1>2, <1>3, <1>5, <3>1
    <3>3. QED
      BY <1>4, <3>1, <3>2
  <2>2. QED
    BY <1>3, <2>1 DEF Untouched
<1>6. LinksFed'
  BY <1>3, <1>5, LinksOn
<1>7. ASSUME serial' \in Attaching, ~conn'[serial'.conn].closing PROVE Waiting
  <2>1. serial \in Attaching /\ serial.to \in Gates /\ serial.conn \in Conns
        /\ gate[serial.to].conn = serial.conn
    BY <1>3, <1>7, SerialSays DEF Typing
  <2>2. serial.to = g => gate[g].retired
    BY <1>2, <1>3, <1>7, <2>1
  <2>3. QED
    BY <1>3, <1>4, <1>7, <2>1, <2>2 DEF Waiting
<1>8. QED
  BY <1>6, <1>7, WaitsOn

\* What becomes of a gate that is not open.
LEMMA ShutTakes ==
  ASSUME LinksTyped, NEW g \in Gates, NEW line, GateTakes(g, line), ~gate[g].open
  PROVE  /\ gate'[g].start = gate[g].start /\ gate'[g].exitSent = gate[g].exitSent
         /\ gate[g].retired => gate'[g].retired /\ gate'[g].pending = gate[g].pending
         /\ ~gate[g].retired => gate'[g].pending = gate[g].pending \o <<line>>
<1>1. gate[g].exitSent \in BOOLEAN /\ gate[g].retired \in BOOLEAN
  BY DEF LinksTyped, GateState
<1>2. gate'[g].exitSent = (gate[g].exitSent \/ (line.t = "exit" /\ gate[g].open /\ ~gate[g].retired))
  BY DEF GateTakes
<1>3. gate'[g].exitSent = gate[g].exitSent
  BY <1>1, <1>2
<1>4. QED
  BY <1>3 DEF GateTakes, GatesKept

\* A line for gate g: the next of its output, or its exit with all of that counted.
NextFor(g, line) ==
  /\ line.t \in {"data", "exit"} /\ line.g = g
  /\ line.t = "data" => /\ ~exited /\ line.from = rx[g].count
                        /\ rx'[g].count = rx[g].count + line.len /\ rx'[g].exits = rx[g].exits
  /\ line.t = "exit" => /\ exited /\ rx[g].count = seq /\ rx[g].exits = 0
                        /\ rx'[g].count = rx[g].count /\ rx'[g].exits = 1
  /\ rx[g].attached /\ rx'[g].attached = rx[g].attached
  /\ \A h \in Gates \ {g} : rx'[h] = rx[h]

\* An open gate's client reads it in its place.
LEMMA DeliveryFits ==
  ASSUME Typing, Routing, NEW g \in Gates, NEW c \in Conns, NEW line \in Line, NextFor(g, line),
         GateTakes(g, line), Live(g, c), NEW k \in Place, k = UpTo(g)
  PROVE  \E tu : Fitting(c, k, tu, <<line>>)
<1>1. <<line>> \in Seq(Line) /\ Len(<<line>>) = 1 /\ <<line>>[1] = line
  BY Single
<1>2. PICK tu : Runs(tu, k, <<line>>) /\ tu[1] = Moved(k, line)
  BY RunOne
<1>3. k.of = g /\ k.count = rx[g].count /\ ~k.over
  BY DEF UpTo
<1>4. tu[0] = k
  BY <1>2 DEF Runs
<1>5. /\ Fits(k, line)
      /\ line.t = "exit" => Timely(k)
      /\ line.t # "resp"
  BY <1>3 DEF NextFor, Fits, Timely
<1>6. ASSUME NEW h \in Gates, Live(h, c)' PROVE Moved(k, line) = UpTo(h)'
  <2>1. gate[h].conn = c /\ ~gate[h].retired /\ gate[g].conn = c /\ ~gate[g].retired
    BY <1>6 DEF Live, GateTakes, GatesKept
  <2>2. h = cur /\ g = cur
    BY <2>1 DEF Routing, Current
  <2>3. line.t # "exit"
    <3>1. ~gate'[g].exitSent
      BY <1>6, <2>2 DEF Live
    <3>2. gate'[g].exitSent = (gate[g].exitSent \/ (line.t = "exit" /\ gate[g].open /\ ~gate[g].retired))
      BY DEF GateTakes
    <3>3. gate[g].open /\ ~gate[g].retired
      BY DEF Live
    <3>4. QED
      BY <3>1, <3>2, <3>3
  <2>4. line.t = "data" /\ rx'[g].count = rx[g].count + line.len
    BY <2>3 DEF NextFor
  <2>5. Moved(k, line) = [of |-> g, count |-> rx'[g].count, over |-> FALSE]
    BY <1>3, <2>4 DEF Moved, UpTo
  <2>6. QED
    BY <2>2, <2>5 DEF UpTo
<1>7. \A j \in 1..Len(<<line>>) :
        /\ Fits(tu[j - 1], <<line>>[j])
        /\ <<line>>[j].t = "exit" => Timely(tu[j - 1])
        /\ <<line>>[j].t # "resp"
  <2>1. \A j \in 1..1 : j = 1 /\ j - 1 = 0
    OBVIOUS
  <2>2. QED
    BY <1>1, <1>4, <1>5, <2>1
<1>8. \A h \in Gates : Live(h, c)' => tu[Len(<<line>>)] = UpTo(h)'
  BY <1>1, <1>2, <1>6
<1>9. Fitting(c, k, tu, <<line>>)
  BY <1>2, <1>7, <1>8 DEF Fitting
<1>10. QED
  BY <1>9

\* A line delivered is read in its place, or waits in it.
LEMMA DeliveryReads ==
  ASSUME Typing, Routing, Onward, LinksFed, GateWaits, NEW g \in Gates, NEW line \in Line,
         NextFor(g, line), GateTakes(g, line), UNCHANGED <<view, serial>>
  PROVE  LinksFed' /\ GateWaits'
<1>1. gate[g].conn \in Conns
  BY DEF NextFor, Typing, LinksTyped
<1>2. \A d \in Conns : /\ ~conn'[d].closing => ~conn[d].closing
                       /\ d # gate[g].conn \/ ~Live(g, d) => conn'[d] = conn[d]
  <2>1. CASE gate[g].open /\ ~gate[g].retired /\ ~gate[g].exitSent
    <3>1. Sent(gate[g].conn, <<line>>)
      BY <2>1 DEF GateTakes
    <3>2. QED
      BY <1>1, <2>1, <3>1 DEF Sent, Live
  <2>2. CASE ~(gate[g].open /\ ~gate[g].retired /\ ~gate[g].exitSent)
    BY <2>2 DEF GateTakes
  <2>3. QED
    BY <2>1, <2>2
<1>3. ASSUME NEW d \in Conns, ~conn'[d].closing, ~Live(g, d) PROVE Untouched(d)
  <2>1. conn'[d] = conn[d]
    BY <1>2, <1>3
  <2>2. ASSUME NEW h \in Gates, Live(h, d)' PROVE Live(h, d) /\ rx'[h].count = rx[h].count
    <3>1. CASE h = g
      <4>1. gate'[g].exitSent = (gate[g].exitSent \/ (line.t = "exit" /\ gate[g].open /\ ~gate[g].retired))
        BY DEF GateTakes
      <4>2. ~gate[g].exitSent
        BY <2>2, <3>1, <4>1 DEF Live
      <4>3. Live(g, d)
        BY <2>2, <3>1, <4>2 DEF Live, GateTakes, GatesKept
      <4>4. QED
        BY <1>3, <4>3
    <3>2. CASE h # g
      BY <2>2, <3>2 DEF Live, GateTakes, NextFor
    <3>3. QED
      BY <3>1, <3>2
  <2>3. QED
    BY <2>1, <2>2 DEF Untouched
<1>4. ASSUME NEW d \in Conns, ~conn'[d].closing, Live(g, d) PROVE Reached(d)
  <2>1. Sent(d, <<line>>)
    BY <1>4 DEF Live, GateTakes
  <2>2. conn'[d].q = conn[d].q \o <<line>> /\ view'[d] = view[d] /\ <<line>> \in Seq(Line)
    BY <1>4, <2>1, Single DEF Sent
  <2>3. ASSUME NEW tr, Fed(d, tr) PROVE \E tu : Fitting(d, tr[Len(conn[d].q)], tu, <<line>>)
    <3>1. tr[Len(conn[d].q)] \in Place
      BY <2>3, FedPlace DEF Typing
    <3>2. tr[Len(conn[d].q)] = UpTo(g)
      BY <1>4, <2>3 DEF Fed
    <3>3. QED
      BY <1>4, <3>1, <3>2, DeliveryFits
  <2>4. QED
    BY <2>2, <2>3 DEF Reached
<1>5. LinksFed'
  BY <1>2, <1>3, <1>4, LinksOn
<1>6. CASE serial \in Attaching /\ serial.to = g /\ ~gate[g].retired /\ ~conn'[serial.conn].closing
  <2>1. PICK tr : Waits(g, tr)
    BY <1>2, <1>6 DEF GateWaits, Attaching
  <2>2. ~gate[g].open /\ serial.to = g
    BY <1>6, SerialSays DEF Typing
  <2>3. serial.at # "swapped"
    BY <2>1 DEF Waits, NextFor
  <2>4. PICK p \in Seq(Line), n \in Nat : p = gate[g].pending /\ n = Len(p)
    <3>1. PICK p \in Seq(Line) : p = gate[g].pending
      BY DEF Typing, LinksTyped, GateState
    <3>2. PICK n \in Nat : n = Len(p)
      OBVIOUS
    <3>3. QED
      BY <3>1, <3>2
  <2>5. /\ \A i \in 1..n : p[i].t = "exit" => Timely(tr[i - 1]) /\ rx[g].exits = 1
        /\ tr[n].count = rx[g].count
    BY <1>6, <2>1, <2>3, <2>4 DEF Waits
  <2>6. \A i \in 1..n : p[i].t # "exit"
    BY <2>5 DEF NextFor, Timely
  <2>7. line.t = "exit" => Timely(tr[n]) /\ rx'[g].exits = 1 /\ rx'[g].count = rx[g].count
    BY <2>5 DEF NextFor, Timely
  <2>8. /\ gate'[g].pending = gate[g].pending \o <<line>> /\ gate'[g].start = gate[g].start
        /\ gate'[g].exitSent = gate[g].exitSent
    BY <1>6, <2>2, ShutTakes DEF Typing
  <2>9. \E both : Waits(g, both)'
    BY <1>6, <2>1, <2>2, <2>3, <2>4, <2>6, <2>7, <2>8, WaitsMore DEF NextFor
  <2>10. QED
    BY <1>5, <1>6, <2>9 DEF GateWaits
<1>7. CASE ~(serial \in Attaching /\ serial.to = g /\ ~gate[g].retired /\ ~conn'[serial.conn].closing)
  <2>1. ASSUME serial' \in Attaching, ~conn'[serial'.conn].closing PROVE Waiting
    <3>1. /\ serial \in Attaching /\ serial.to \in Gates /\ serial.conn \in Conns
          /\ ~gate[serial.to].open /\ ~conn[serial.conn].closing
      BY <1>2, <2>1, SerialSays DEF Typing
    <3>2. CASE serial.to = g
      <4>1. gate[g].retired
        BY <1>7, <2>1, <3>1, <3>2
      <4>2. /\ gate'[g].pending = gate[g].pending /\ gate'[g].start = gate[g].start
            /\ gate'[g].exitSent = gate[g].exitSent /\ gate'[g].retired
        BY <3>1, <3>2, <4>1, ShutTakes DEF Typing
      <4>3. rx'[g].exits = rx[g].exits \/ rx[g].exits # 1
        BY DEF NextFor
      <4>4. QED
        BY <3>1, <3>2, <4>2, <4>3 DEF Waiting, NextFor
    <3>3. CASE serial.to # g
      <4>1. gate'[serial.to] = gate[serial.to] /\ rx'[serial.to] = rx[serial.to]
        BY <3>1, <3>3 DEF GateTakes, NextFor
      <4>2. QED
        BY <3>1, <4>1 DEF Waiting
    <3>4. QED
      BY <3>2, <3>3
  <2>2. QED
    BY <1>5, <2>1, WaitsOn
<1>8. QED
  BY <1>6, <1>7

\* A line of something else is read by whoever is there.
LEMMA OtherReads ==
  ASSUME Typing, Onward, LinksFed, NEW c \in Conns, Sent(c, <<Other>>), UNCHANGED <<gate, view, rx>>
  PROVE  LinksFed'
<1>1. \A d \in Conns : d = c \/ conn'[d] = conn[d]
  BY DEF Sent
<1>2. ASSUME NEW d \in Conns, d # c PROVE Untouched(d)
  BY <1>1, <1>2 DEF Untouched, Live
<1>3. ASSUME ~conn'[c].closing PROVE Reached(c)
  <2>1. /\ Other \in Line /\ Other.t = "other"
        /\ <<Other>> \in Seq(Line) /\ Len(<<Other>>) = 1 /\ <<Other>>[1] = Other
    BY LinesMade, Single
  <2>2. conn'[c].q = conn[c].q \o <<Other>> /\ view'[c] = view[c]
    BY <1>3 DEF Sent
  <2>3. ASSUME NEW tr, Fed(c, tr) PROVE \E tu : Fitting(c, tr[Len(conn[c].q)], tu, <<Other>>)
    <3>1. PICK k \in Place : k = tr[Len(conn[c].q)]
      BY <2>3, FedPlace DEF Typing
    <3>2. PICK tu : Runs(tu, k, <<Other>>) /\ tu[1] = Moved(k, Other)
      BY <2>1, RunOne
    <3>3. tu[1] = k
      BY <2>1, <3>2 DEF Moved
    <3>4. \A j \in 1..1 : j = 1
      OBVIOUS
    <3>5. ASSUME NEW h \in Gates, Live(h, c)' PROVE k = UpTo(h)'
      <4>1. Live(h, c)
        BY <3>5 DEF Live
      <4>2. k = UpTo(h)
        BY <2>3, <3>1, <4>1 DEF Fed
      <4>3. QED
        BY <4>2 DEF UpTo
    <3>6. Fitting(c, k, tu, <<Other>>)
      BY <2>1, <3>2, <3>3, <3>4, <3>5 DEF Fitting, Fits
    <3>7. QED
      BY <3>1, <3>6
  <2>4. QED
    BY <2>1, <2>2, <2>3 DEF Reached
<1>4. ~conn'[c].closing => ~conn[c].closing
  BY DEF Sent
<1>5. \A d \in Conns : ~conn'[d].closing => ~conn[d].closing /\ (Untouched(d) \/ Reached(d))
  BY <1>1, <1>2, <1>3, <1>4
<1>6. QED
  BY <1>5, LinksOn

\* What waits is left alone with its gate.
LEMMA GateRests ==
  ASSUME Typing, Onward, GateWaits, UNCHANGED <<gate, rx>>, serial' = serial \/ serial' \notin Attaching,
         \A d \in Conns : ~conn'[d].closing => ~conn[d].closing
  PROVE  GateWaits'
<1>1. serial' \in Attaching /\ ~conn'[serial'.conn].closing => Waiting
  BY DEF Waiting, Attaching
<1>2. QED
  BY <1>1, WaitsOn

\* A connection whose link is dropped need not be followed.
LEMMA DroppedReads ==
  ASSUME Typing, Onward, LinksFed, GateWaits, NEW c \in Conns, conn'[c].closing,
         \A d \in Conns \ {c} : conn'[d] = conn[d] /\ view'[d] = view[d],
         UNCHANGED <<gate, rx, serial>>
  PROVE  LinksFed' /\ GateWaits'
<1>1. ASSUME NEW d \in Conns, ~conn'[d].closing PROVE ~conn[d].closing /\ Untouched(d)
  <2>1. conn'[d] = conn[d] /\ view'[d] = view[d]
    BY <1>1
  <2>2. QED
    BY <1>1, <2>1 DEF Untouched, Live
<1>2. LinksFed'
  BY <1>1, LinksOn
<1>3. GateWaits'
  BY <1>1, GateRests
<1>4. QED
  BY <1>2, <1>3

\* Nothing waits yet.
LEMMA WaitsNone ==
  ASSUME NEW g \in Gates, gate'[g].pending = <<>>, ~gate'[g].exitSent, gate'[g].start \in Nat,
         serial'.at = "swapped" => ~rx'[g].attached,
         serial'.at # "swapped" => rx'[g].count = gate'[g].start
  PROVE  \E tr : Waits(g, tr)'
<1>1. Joined(g)' \in Place
  BY DEF Joined, Place
<1>2. PICK k \in Place : k = Joined(g)'
  BY <1>1
<1>3. PICK tr : Runs(tr, k, <<>>)
  BY RunNone
<1>4. Len(<<>>) = 0 /\ \A i \in 1..0 : FALSE
  OBVIOUS
<1>5. tr[0] = k /\ k.of = g /\ ~k.over /\ k.count = gate'[g].start
  BY <1>2, <1>3 DEF Runs, Joined
<1>6. Waits(g, tr)'
  BY <1>2, <1>3, <1>4, <1>5 DEF Waits
<1>7. QED
  BY <1>6

\* An attach's swap: its gate's output starts where the replay ends.
LEMMA SwapReads ==
  ASSUME Typing, StreamInv, Onward, LinksFed, GateWaits, AttachSwaps
  PROVE  LinksFed' /\ GateWaits'
<1>1. PICK g \in Gates, c \in Conns :
        g = serial.to /\ c = serial.conn /\ serial \in Attaching /\ ~gate[g].open
  BY SerialSays DEF AttachSwaps, Typing
<1>2. /\ Attach(g, Fresh) /\ serial.at = "swapped" /\ serial' = Holding("attach", "attached", c, g)
      /\ UNCHANGED <<conn, view>>
  BY <1>1 DEF AttachSwaps
<1>3. Started(g)
  BY <1>1, SwapStarts
<1>4. rx'[g].count = seq /\ \A h \in Gates \ {g} : rx'[h] = rx[h]
  BY <1>2, AttachJoins, SinkAssumption
<1>5. \A d \in Conns : Untouched(d)
  <2>1. ASSUME NEW d \in Conns, NEW h \in Gates, Live(h, d)'
        PROVE  Live(h, d) /\ rx'[h].count = rx[h].count
    <3>1. h # g
      BY <1>1, <1>3, <2>1 DEF Live, Started, GatesKept
    <3>2. QED
      BY <1>3, <1>4, <2>1, <3>1 DEF Live, Started
  <2>2. QED
    BY <1>2, <2>1 DEF Untouched
<1>6. LinksFed'
  BY <1>2, <1>5, LinksOn
<1>7. serial'.to = g /\ serial'.conn = c /\ serial'.at = "attached"
  BY <1>2, HoldingFacts
<1>8. ASSUME ~conn'[c].closing PROVE \E tr : Waits(g, tr)'
  <2>1. PICK tr : Waits(g, tr)
    BY <1>1, <1>2, <1>8 DEF GateWaits
  <2>2. gate[g].pending = <<>> /\ ~gate[g].exitSent
    BY <1>2, <2>1 DEF Waits
  <2>3. gate'[g].start = seq /\ gate'[g].pending = <<>> /\ ~gate'[g].exitSent
    BY <1>3, <2>2 DEF Started
  <2>4. seq \in Nat
    BY DEF StreamInv, TypeOK, RingTypeOK
  <2>5. QED
    BY <1>4, <1>7, <2>3, <2>4, WaitsNone
<1>9. GateWaits'
  BY <1>7, <1>8 DEF GateWaits
<1>10. QED
  BY <1>6, <1>9

\* An attach begins: nothing waits for it yet, and the gate it replaces is retired.
LEMMA BeginReads ==
  ASSUME Typing, Onward, LinksFed, GateWaits, NEW c \in Conns, NEW g \in Gates, AttachBegins(c, g)
  PROVE  LinksFed' /\ GateWaits'
<1> DEFINE made == [NoAttach EXCEPT !.conn = c]
<1>1. /\ serial = Free /\ gate[g].conn = NoConn /\ SwapGate(g, made)
      /\ serial' = Holding("attach", "swapped", c, g)
      /\ UNCHANGED <<vars, conn, view>>
  BY DEF AttachBegins
<1>2. /\ made \in GateState /\ ~made.open /\ made.pending = <<>> /\ ~made.exitSent /\ made.start = 0
  <2>1. <<>> \in Seq(Line) /\ 0 \in 0..MaxSeq
    BY Bounds
  <2>2. QED
    BY <2>1 DEF GateState, NoAttach
<1> HIDE DEF made
<1>3. Swapped(g, made)
  BY <1>1, <1>2, SwapGateDoes DEF Typing, LinksTyped
<1>4. g # cur /\ ~rx[g].attached
  BY <1>1, SinkAssumption DEF Typing, LinksTyped, SerialTyped
<1>5. gate'[g] = made
  BY <1>3, <1>4 DEF Swapped
<1>6. \A d \in Conns : Untouched(d)
  <2>1. rx' = rx
    BY <1>1 DEF vars
  <2>2. ASSUME NEW d \in Conns, NEW h \in Gates, Live(h, d)' PROVE Live(h, d)
    <3>1. h # g /\ h # cur
      BY <1>2, <1>3, <1>5, <2>2 DEF Live, Swapped
    <3>2. gate'[h] = gate[h]
      BY <1>3, <3>1 DEF Swapped
    <3>3. QED
      BY <2>2, <3>2 DEF Live
  <2>3. QED
    BY <1>1, <2>1, <2>2 DEF Untouched
<1>7. LinksFed'
  BY <1>1, <1>6, LinksOn
<1>8. serial'.to = g /\ serial'.at = "swapped"
  BY <1>1, HoldingFacts
<1>9. \E tr : Waits(g, tr)'
  <2>1. rx' = rx
    BY <1>1 DEF vars
  <2>2. QED
    BY <1>2, <1>4, <1>5, <1>8, <2>1, WaitsNone
<1>10. GateWaits'
  BY <1>8, <1>9 DEF GateWaits
<1>11. QED
  BY <1>7, <1>10

\* The answer: what waited is in the queue, after the response.
LEMMA AnswerReads ==
  ASSUME Typing, StreamInv, Routing, Onward, LinksFed, GateWaits, EndSeen, AttachAnswers
  PROVE  LinksFed' /\ GateWaits'
<1>1. PICK g \in Gates, c \in Conns :
        g = serial.to /\ c = serial.conn /\ serial \in Attaching /\ gate[g].conn = c
  BY SerialSays DEF AttachAnswers, Typing
<1>2. PICK owing \in Seq(Line), out \in Seq(Line), lines \in Seq(Line), told \in BOOLEAN :
        Answered(c, g, owing, out, lines, told)
  BY <1>1, AnswersDoes DEF Typing
<1>3. Opened(c, g, lines, told) /\ Sent(c, lines)
  <2>1. Opened(c, g, lines, told)
    BY <1>2, AnswerOpens DEF Typing
  <2>2. QED
    BY <2>1 DEF Opened
<1>4. serial' = Free /\ rx' = rx /\ view' = view
  BY DEF AttachAnswers, AttachReturns, vars
<1>5. \A d \in Conns : d = c \/ conn'[d] = conn[d]
  BY <1>3 DEF Sent
<1>6. ASSUME NEW d \in Conns, d # c PROVE Untouched(d)
  <2>1. ASSUME NEW h \in Gates, Live(h, d)' PROVE Live(h, d)
    <3>1. h # g
      BY <1>1, <1>3, <1>6, <2>1 DEF Live, Opened
    <3>2. QED
      BY <1>3, <2>1, <3>1 DEF Live, Opened
  <2>2. QED
    BY <1>4, <1>5, <1>6, <2>1 DEF Untouched
<1>7. ~conn'[c].closing => ~conn[c].closing
  BY <1>3 DEF Sent
<1>8. ASSUME ~conn'[c].closing PROVE Reached(c)
  <2>1. PICK tw : Waits(g, tw)
    BY <1>1, <1>7, <1>8 DEF GateWaits
  <2>2. PICK to : Following(g, to, out)
    BY <1>1, <1>2, <1>3, <2>1, AnswerFollows
  <2>3. ASSUME NEW tr, Fed(c, tr) PROVE \E tu : Fitting(c, tr[Len(conn[c].q)], tu, lines)
    <3>1. tr[Len(conn[c].q)] \in Place
      BY <2>3, FedPlace DEF Typing
    <3>2. QED
      BY <1>1, <1>2, <1>3, <2>2, <3>1, AnswerFits
  <2>4. conn'[c].q = conn[c].q \o lines /\ view'[c] = view[c]
    BY <1>3, <1>4, <1>8 DEF Sent
  <2>5. QED
    BY <2>3, <2>4 DEF Reached
<1>9. \A d \in Conns : ~conn'[d].closing => ~conn[d].closing /\ (Untouched(d) \/ Reached(d))
  BY <1>5, <1>6, <1>7, <1>8
<1>10. LinksFed'
  BY <1>9, LinksOn
<1>11. GateWaits'
  <2>1. serial' \notin Attaching
    BY <1>4 DEF Free, Attaching
  <2>2. QED
    BY <2>1 DEF GateWaits
<1>12. QED
  BY <1>10, <1>11

\* A line that fits moves the client, and tells it nothing new but an early exit.
LEMMA ReadMoves ==
  ASSUME NEW v \in View, NEW l \in Line, Fits(PlaceOf(v), l), ~v.foreign, ~v.gap
  PROVE  LET w == Read(v, l)
         IN /\ PlaceOf(w) = Moved(PlaceOf(v), l) /\ ~w.foreign /\ ~w.gap
            /\ w.early => v.early \/ (l.t = "exit" /\ ~Timely(PlaceOf(v)))
            /\ l.t # "resp" => w.of = v.of
            /\ l.t = "exit" => l.g = v.of
<1> DEFINE k == PlaceOf(v)
<1>1. k.of = v.of /\ k.count = v.count /\ k.over = v.over
  BY DEF PlaceOf
<1>2. /\ v.foreign \in BOOLEAN /\ v.gap \in BOOLEAN /\ v.early \in BOOLEAN
      /\ l.t \in {"data", "exit"} => l.g = v.of /\ ~v.over
      /\ l.t = "data" => l.from = v.count
  BY <1>1 DEF View, Fits
<1>3. CASE l.t = "resp"
  <2>1. Read(v, l) = [v EXCEPT !.of = l.g, !.count = l.at, !.over = FALSE]
    BY <1>3 DEF Read
  <2>2. PICK w : /\ w = Read(v, l) /\ w.of = l.g /\ w.count = l.at /\ w.over = FALSE
                 /\ w.foreign = v.foreign /\ w.gap = v.gap /\ w.early = v.early
    BY <2>1 DEF View
  <2>3. PlaceOf(w) = Moved(k, l)
    BY <1>3, <2>2 DEF PlaceOf, Moved
  <2>4. QED
    BY <1>3, <2>2, <2>3
<1>4. CASE l.t = "data"
  <2>1. PICK foreign \in BOOLEAN, gap \in BOOLEAN :
          /\ foreign = (v.foreign \/ l.g # v.of \/ v.over)
          /\ gap = (v.gap \/ (l.g = v.of /\ l.from # v.count))
    OBVIOUS
  <2>2. Read(v, l) = [v EXCEPT !.count = v.count + l.len, !.foreign = foreign, !.gap = gap]
    BY <1>4, <2>1 DEF Read
  <2>3. ~foreign /\ ~gap
    BY <1>2, <1>4, <2>1
  <2>4. PICK w : /\ w = Read(v, l) /\ w.of = v.of /\ w.count = v.count + l.len /\ w.over = v.over
                 /\ w.foreign = foreign /\ w.gap = gap /\ w.early = v.early
    BY <2>2 DEF View
  <2>5. PlaceOf(w) = Moved(k, l)
    BY <1>1, <1>4, <2>4 DEF PlaceOf, Moved
  <2>6. QED
    BY <1>4, <2>3, <2>4, <2>5
<1>5. CASE l.t = "exit"
  <2>1. PICK foreign \in BOOLEAN, early \in BOOLEAN :
          /\ foreign = (v.foreign \/ l.g # v.of \/ v.over)
          /\ early = (v.early \/ ~exited \/ v.count # seq)
    OBVIOUS
  <2>2. Read(v, l) = [v EXCEPT !.over = TRUE, !.foreign = foreign, !.early = early]
    BY <1>5, <2>1 DEF Read
  <2>3. ~foreign
    BY <1>2, <1>5, <2>1
  <2>4. early => v.early \/ ~Timely(k)
    BY <1>1, <2>1 DEF Timely
  <2>5. PICK w : /\ w = Read(v, l) /\ w.of = v.of /\ w.count = v.count /\ w.over = TRUE
                 /\ w.foreign = foreign /\ w.gap = v.gap /\ w.early = early
    BY <2>2 DEF View
  <2>6. PlaceOf(w) = Moved(k, l)
    BY <1>1, <1>5, <2>5 DEF PlaceOf, Moved
  <2>7. QED
    BY <1>2, <1>5, <2>3, <2>4, <2>5, <2>6
<1>6. CASE l.t = "other"
  <2>1. Read(v, l) = v
    BY <1>6 DEF Read
  <2>2. Moved(k, l) = k
    BY <1>6 DEF Moved
  <2>3. QED
    BY <1>6, <2>1, <2>2
<1>7. QED
  BY <1>3, <1>4, <1>5, <1>6, LineKinds

\* What is excused of a queue is excused of the rest of it.
LEMMA ExcusedRest ==
  ASSUME NEW q \in Seq(Line), q # <<>>, NEW g, NEW i \in Nat, Excused(g, q, i + 1)
  PROVE  Excused(g, Tail(q), i)
<1>1. CASE maybeLost
  BY <1>1 DEF Excused
<1>2. CASE ~maybeLost
  <2>1. Late /\ g \in Gates /\ gate[g].retired /\ \A j \in (i + 1) + 1 .. Len(q) : q[j].t # "resp"
    BY <1>2 DEF Excused
  <2>2. PICK n \in Nat : n = Len(q) /\ Len(Tail(q)) = n - 1 /\ \A j \in 1..n - 1 : Tail(q)[j] = q[j + 1]
    OBVIOUS
  <2>3. ASSUME NEW j \in i + 1 .. n - 1 PROVE Tail(q)[j].t # "resp"
    <3>1. j \in 1..n - 1 /\ j + 1 \in (i + 1) + 1 .. n
      BY <2>2
    <3>2. QED
      BY <2>1, <2>2, <3>1
  <2>4. QED
    BY <2>1, <2>2, <2>3 DEF Excused
<1>3. QED
  BY <1>1, <1>2

\* The client reads one line of its queue.
LEMMA WriteReads ==
  ASSUME Typing, Onward, LinksFed, NEW c \in Conns, Writes(c)
  PROVE  LinksFed'
<1>1. PICK q \in Seq(Line), v \in View, n \in Nat :
        q = conn[c].q /\ v = view[c] /\ q # <<>> /\ Len(q) = n + 1
  <2>1. PICK q \in Seq(Line), v \in View : q = conn[c].q /\ v = view[c] /\ q # <<>>
    BY DEF Writes, Typing, LinksTyped, ConnState
  <2>2. PICK l \in Nat : l = Len(q) /\ l # 0
    BY <2>1, EmptySeq
  <2>3. PICK n \in Nat : l = n + 1
    BY <2>2
  <2>4. QED
    BY <2>1, <2>2, <2>3
<1>2. PICK rest \in Seq(Line), l \in Line :
        /\ rest = Tail(q) /\ l = q[1] /\ l = Head(q) /\ Len(rest) = n
        /\ \A i \in 1..n : rest[i] = q[i + 1]
  <2>1. 1 \in 1..n + 1
    OBVIOUS
  <2>2. q[1] \in Line /\ Head(q) = q[1]
    BY <1>1, <2>1
  <2>3. Tail(q) \in Seq(Line) /\ Len(Tail(q)) = n
    BY <1>1
  <2>4. \A i \in 1..n : Tail(q)[i] = q[i + 1]
    BY <1>1
  <2>5. QED
    BY <2>2, <2>3, <2>4
<1>3. PICK w \in View : w = Read(v, l)
  BY ReadTyped
<1>4. /\ conn'[c].q = rest /\ view'[c] = w
      /\ \A d \in Conns \ {c} : conn'[d] = conn[d] /\ view'[d] = view[d]
      /\ \A d \in Conns : conn'[d].closing = conn[d].closing
      /\ UNCHANGED <<gate, rx>>
  <2>1. /\ view' = [view EXCEPT ![c] = Read(view[c], Head(conn[c].q))]
        /\ conn' = [conn EXCEPT ![c].q = Tail(conn[c].q)]
        /\ UNCHANGED <<vars, gate>>
    BY DEF Writes
  <2>2. view' = [view EXCEPT ![c] = w] /\ conn' = [conn EXCEPT ![c].q = rest]
    BY <1>1, <1>2, <1>3, <2>1
  <2>3. view'[c] = w /\ \A d \in Conns \ {c} : view'[d] = view[d]
    BY <2>2 DEF Typing, LinksTyped
  <2>4. PICK k \in ConnState : k = [conn[c] EXCEPT !.q = rest]
    BY DEF Typing, LinksTyped, ConnState
  <2>5. k.q = rest /\ k.closing = conn[c].closing /\ conn' = [conn EXCEPT ![c] = k]
    BY <2>2, <2>4 DEF Typing, LinksTyped, ConnState
  <2>6. conn'[c] = k /\ \A d \in Conns \ {c} : conn'[d] = conn[d]
    BY <2>5, ConnBecomes DEF Typing, LinksTyped
  <2>7. \A d \in Conns : conn'[d].closing = conn[d].closing
    BY <2>5, <2>6
  <2>8. QED
    BY <2>1, <2>3, <2>5, <2>6, <2>7 DEF vars
<1>5. SUFFICES ASSUME NEW d \in Conns, ~conn'[d].closing PROVE \E tr : Fed(d, tr)'
  BY DEF LinksFed
<1>6. PICK tr : Fed(d, tr)
  BY <1>4, <1>5 DEF LinksFed
<1>7. CASE d # c
  <2>1. Untouched(d)
    BY <1>4, <1>7 DEF Untouched, Live
  <2>2. QED
    BY <1>6, <2>1, FedOn DEF Typing
<1>8. CASE d = c
  <2>1. /\ Runs(tr, PlaceOf(v), q) /\ ~v.foreign /\ ~v.gap
        /\ v.early => Excused(v.of, q, 0)
        /\ \A i \in 1..n + 1 : LineFits(tr[i - 1], q, i)
        /\ \A g \in Gates : Live(g, c) => tr[n + 1] = UpTo(g)
    BY <1>1, <1>6, <1>8 DEF Fed
  <2>2. PICK tu : Runs(tu, tr[1], rest) /\ \A i \in 0..n : tu[i] = tr[i + 1]
    <3>1. Len(q) - 1 = n
      BY <1>1
    <3>2. QED
      BY <1>1, <1>2, <2>1, <3>1, RunRest
  <2>3. tr[0] = PlaceOf(v) /\ tr[1] = Moved(PlaceOf(v), l)
    <3>1. 1 \in 1..n + 1 /\ 1 - 1 = 0
      OBVIOUS
    <3>2. QED
      BY <1>1, <1>2, <2>1, <3>1 DEF Runs
  <2>4. LineFits(PlaceOf(v), q, 1)
    <3>1. 1 \in 1..n + 1 /\ 1 - 1 = 0
      OBVIOUS
    <3>2. QED
      BY <2>1, <2>3, <3>1
  <2>5. Fits(PlaceOf(v), l) /\ (l.t = "exit" => Timely(PlaceOf(v)) \/ Excused(l.g, q, 1))
    BY <1>2, <2>4 DEF LineFits
  <2>6. /\ PlaceOf(w) = tr[1] /\ ~w.foreign /\ ~w.gap
        /\ w.early => v.early \/ (l.t = "exit" /\ ~Timely(PlaceOf(v)))
        /\ l.t # "resp" => w.of = v.of
        /\ l.t = "exit" => l.g = v.of
    BY <1>3, <2>1, <2>3, <2>5, ReadMoves
  <2>7. ASSUME w.early PROVE Excused(w.of, rest, 0)'
    <3>1. maybeLost \/ Excused(w.of, q, 1)
      <4>1. CASE v.early
        <5>1. Excused(v.of, q, 0)
          BY <2>1, <4>1
        <5>2. CASE maybeLost
          BY <5>2
        <5>3. CASE ~maybeLost
          <6>1. /\ Late /\ v.of \in Gates /\ gate[v.of].retired
                /\ \A j \in 0 + 1 .. Len(q) : q[j].t # "resp"
            BY <5>1, <5>3 DEF Excused
          <6>2. 1 \in 0 + 1 .. Len(q) /\ \A j \in 1 + 1 .. Len(q) : j \in 0 + 1 .. Len(q)
            BY <1>1
          <6>3. l.t # "resp"
            BY <1>2, <6>1, <6>2
          <6>4. w.of = v.of
            BY <2>6, <6>3
          <6>5. QED
            BY <6>1, <6>2, <6>4 DEF Excused
        <5>4. QED
          BY <5>2, <5>3
      <4>2. CASE ~v.early
        <5>1. l.t = "exit" /\ ~Timely(PlaceOf(v))
          BY <2>6, <2>7, <4>2
        <5>2. QED
          BY <2>5, <2>6, <5>1
      <4>3. QED
        BY <4>1, <4>2
    <3>2. CASE maybeLost
      BY <3>2 DEF Onward, Excused
    <3>3. CASE Excused(w.of, q, 1)
      <4>1. Excused(w.of, q, 0 + 1) /\ 0 \in Nat
        BY <3>3
      <4>2. Excused(w.of, rest, 0)
        BY <1>1, <1>2, <4>1, ExcusedRest
      <4>3. QED
        BY <4>2, ExcusedOn
    <3>4. QED
      BY <3>1, <3>2, <3>3
  <2>8. ASSUME NEW i \in 1..n PROVE LineFits(tu[i - 1], rest, i)'
    <3>1. i + 1 \in 1..n + 1 /\ (i + 1) - 1 = i /\ i - 1 \in 0..n /\ (i - 1) + 1 = i /\ i \in Nat
      BY <1>1
    <3>2. LineFits(tr[i], q, i + 1)
      BY <2>1, <3>1
    <3>3. tu[i - 1] = tr[i] /\ rest[i] = q[i + 1]
      BY <1>2, <2>2, <3>1
    <3>4. /\ Fits(tr[i], q[i + 1])
          /\ q[i + 1].t = "exit" => Timely(tr[i]) \/ Excused(q[i + 1].g, q, i + 1)
      BY <3>2 DEF LineFits
    <3>5. Excused(q[i + 1].g, q, i + 1) => Excused(q[i + 1].g, rest, i)
      BY <1>1, <1>2, <3>1, ExcusedRest
    <3>6. LineFits(tu[i - 1], rest, i)
      BY <3>3, <3>4, <3>5 DEF LineFits
    <3>7. QED
      BY <3>6, LineFitsOn
  <2>9. ASSUME NEW g \in Gates, Live(g, c)' PROVE tu[n] = UpTo(g)'
    <3>1. Live(g, c)
      <4>1. conn'[c].closing = conn[c].closing /\ gate' = gate
        BY <1>4
      <4>2. QED
        BY <2>9, <4>1 DEF Live
    <3>2. tr[n + 1] = UpTo(g) /\ n \in 0..n
      BY <2>1, <3>1
    <3>3. QED
      BY <1>4, <2>2, <3>2 DEF UpTo
  <2>10. Runs(tu, PlaceOf(w), rest)
    BY <2>2, <2>6
  <2>11. Fed(c, tu)'
    BY <1>2, <1>4, <2>6, <2>7, <2>8, <2>9, <2>10 DEF Fed
  <2>12. QED
    BY <1>8, <2>11
<1>9. QED
  BY <1>7, <1>8
-----------------------------------------------------------------------------
(***************************************************************************)
(* The reading, from the start and through every step.                     *)
(***************************************************************************)

\* The reader thread's steps.
LEMMA SinkReads ==
  ASSUME Typing, StreamInv, Routing, Onward, LinksFed, GateWaits, HostRecord \/ Sink
  PROVE  LinksFed' /\ GateWaits'
<1>1. CASE HostRecord \/ SinkMarksEnded \/ PaceClears
  <2>1. UNCHANGED <<conn, view, gate, serial, rx>>
    BY <1>1 DEF HostRecord, Record, RecordExit, SinkMarksEnded, PaceClears, vars
  <2>2. QED
    BY <2>1, StaysResting, RestReads
<1>2. CASE SinkParked
  <2>1. UNCHANGED <<conn, view, gate, serial>> /\ HandOver /\ pump.to \in Parks
    BY <1>2 DEF SinkParked, Calling
  <2>2. rx' = [rx EXCEPT ![pump.to] = Given(rx[pump.to], pump.from, pump.len)]
    BY <2>1 DEF HandOver
  <2>3. rx \in [Receivers -> Received]
    BY DEF StreamInv, TypeOK
  <2>4. \A g \in Gates : g \in Receivers /\ g # pump.to
    BY <2>1, SinkAssumption
  <2>5. \A g \in Gates : rx'[g] = rx[g]
    BY <2>2, <2>3, <2>4
  <2>6. QED
    BY <2>1, <2>5, StaysResting, RestReads
<1>3. CASE PaceGivesUp \/ PaceStalls
  BY <1>3, GivenUpReads
<1>4. CASE GateDelivers
  <2>1. PICK g \in Gates : g = pump.to /\ pump.at = "handing"
    BY <1>4 DEF GateDelivers, Calling
  <2>2. PICK line \in Line :
          line = IF pump.len = 0 THEN Exit(g) ELSE Data(g, pump.from, pump.len)
    <3>1. pump.len \in 0..MaxLen /\ pump.from \in 0..MaxSeq
      BY <2>1, InHand
    <3>2. pump.len = 0 \/ pump.len \in 1..MaxLen
      BY <3>1, Bounds
    <3>3. QED
      BY <3>1, <3>2, LinesMade
  <2>3. HandOver /\ Delivered(g, line) /\ UNCHANGED <<view, serial>>
    BY <1>4, <2>1, <2>2 DEF GateDelivers
  <2>4. GateTakes(g, line)
    BY <2>3, DeliveredDoes DEF Typing
  <2>5. NextFor(g, line)
    <3>1. g \in Receivers /\ rx \in [Receivers -> Received]
      BY SinkAssumption DEF StreamInv, TypeOK
    <3>2. rx' = [rx EXCEPT ![g] = Given(rx[g], pump.from, pump.len)]
      BY <2>1, <2>3 DEF HandOver
    <3>3. \A h \in Gates \ {g} : rx'[h] = rx[h]
      BY <3>1, <3>2, SinkAssumption
    <3>4. rx'[g].attached = rx[g].attached /\ rx[g].attached
      BY <2>1, <2>3, <3>1, HandedOver, InHand
    <3>5. rx[g].count \in Nat
      BY <3>1, Bounds DEF Received
    <3>6. CASE pump.len = 0
      <4>1. line.t = "exit" /\ line.g = g
        BY <2>2, <3>6, LinesMade
      <4>2. exited /\ rx[g].exits = 0 /\ rx[g].count = seq
        BY <2>1, <3>6, InHand
      <4>3. rx'[g].count = rx[g].count /\ rx'[g].exits = 1
        BY <2>1, <2>3, <3>1, <3>5, <3>6, <4>2, HandedOver
      <4>4. QED
        BY <3>3, <3>4, <4>1, <4>2, <4>3 DEF NextFor
    <3>7. CASE pump.len # 0
      <4>1. pump.len \in 1..MaxLen /\ pump.from \in 0..MaxSeq
        BY <2>1, <3>7, InHand, Bounds
      <4>2. line.t = "data" /\ line.g = g /\ line.from = pump.from /\ line.len = pump.len
        BY <2>2, <3>7, <4>1, LinesMade
      <4>3. ~exited /\ pump.from = rx[g].count
        BY <2>1, <3>7, InHand
      <4>4. rx'[g].count = rx[g].count + pump.len /\ rx'[g].exits = rx[g].exits
        BY <2>1, <2>3, <3>1, <3>7, HandedOver
      <4>5. QED
        BY <3>3, <3>4, <4>2, <4>3, <4>4 DEF NextFor
    <3>8. QED
      BY <3>6, <3>7
  <2>6. QED
    BY <2>3, <2>4, <2>5, DeliveryReads
<1>5. QED
  BY <1>1, <1>2, <1>3, <1>4 DEF Sink

\* The steps of an attach under way.
LEMMA AttachReads ==
  ASSUME Typing, StreamInv, Routing, Onward, LinksFed, GateWaits, EndSeen, AttachSteps
  PROVE  LinksFed' /\ GateWaits'
<1>1. PICK g \in Gates, c \in Conns : g = serial.to /\ c = serial.conn /\ serial \in Attaching
  BY SerialSays DEF AttachSteps, AttachRefused, AttachSwaps, AttachOwesExit, AttachRoutes,
                    AttachAnswers, Typing
<1>2. CASE AttachRefused
  <2>1. /\ conn' = [conn EXCEPT ![c] = SendAll(conn[c], <<Other>>)]
        /\ serial' = Free /\ UNCHANGED <<vars, gate, view>>
    BY <1>1, <1>2 DEF AttachRefused, AttachReturns, Send
  <2>2. Sent(c, <<Other>>)
    BY <2>1, Sending, LinesMade, Single DEF Typing
  <2>3. rx' = rx /\ serial' \notin Attaching
    BY <2>1 DEF vars, Free, Attaching
  <2>4. \A d \in Conns : ~conn'[d].closing => ~conn[d].closing
    BY <2>2 DEF Sent
  <2>5. LinksFed'
    BY <2>1, <2>2, <2>3, OtherReads
  <2>6. GateWaits'
    BY <2>1, <2>3, <2>4, GateRests
  <2>7. QED
    BY <2>5, <2>6
<1>3. CASE AttachSwaps
  BY <1>3, SwapReads
<1>4. CASE AttachOwesExit
  <2>1. SendOwedExit(g) /\ Delivered(g, Exit(g)) /\ UNCHANGED <<view, serial>>
    BY <1>1, <1>4 DEF AttachOwesExit
  <2>2. PICK line \in Line : line = Exit(g) /\ line.t = "exit" /\ line.g = g
    BY LinesMade
  <2>3. GateTakes(g, line)
    BY <2>1, <2>2, DeliveredDoes DEF Typing
  <2>4. rx[g].attached
    BY <2>1 DEF SendOwedExit, StreamInv, OwedAreComplete
  <2>5. NextFor(g, line)
    BY <2>1, <2>2, <2>4, OwedExit, SinkAssumption DEF NextFor
  <2>6. QED
    BY <2>1, <2>3, <2>5, DeliveryReads
<1>5. CASE AttachRoutes
  <2>1. /\ serial.at = "attached" /\ UNCHANGED <<vars, gate, conn, view>>
        /\ \E at \in {"dead", "routed"} : serial' = Holding("attach", at, c, g)
    BY <1>1, <1>5 DEF AttachRoutes
  <2>2. serial'.to = g /\ serial'.conn = c /\ serial'.at # "swapped" /\ serial.at # "swapped"
    BY <2>1, HoldingFacts
  <2>3. rx' = rx
    BY <2>1 DEF vars
  <2>4. QED
    BY <1>1, <2>1, <2>2, <2>3, StaysResting, RestReads
<1>6. CASE AttachAnswers
  BY <1>6, AnswerReads
<1>7. QED
  BY <1>2, <1>3, <1>4, <1>5, <1>6 DEF AttachSteps

\* The steps of a park.
LEMMA ParkReads ==
  ASSUME Typing, StreamInv, Onward, LinksFed, GateWaits, ParkSteps
  PROVE  LinksFed' /\ GateWaits'
<1>0. Free \notin Attaching
  BY DEF Free, Attaching
<1>1. CASE ParkSwaps
  <2>1. UNCHANGED <<conn, view, gate>>
    BY <1>1 DEF ParkSwaps
  <2>2. serial' \notin Attaching
    BY <1>0, <1>1, HoldingFacts DEF ParkSwaps, Attaching
  <2>3. (\E p \in Parks : Attach(p, Unknown)) \/ UNCHANGED vars
    BY <1>1 DEF ParkSwaps
  <2>4. \A g \in Gates : rx'[g] = rx[g]
    <3>1. ASSUME NEW p \in Parks, Attach(p, Unknown) PROVE \A g \in Gates : rx'[g] = rx[g]
      BY <3>1, AttachJoins, SinkAssumption
    <3>2. QED
      BY <2>3, <3>1 DEF vars
  <2>5. QED
    BY <2>1, <2>2, <2>4, StaysResting, RestReads
<1>2. CASE ParkOwesExit
  <2>1. SendOwedExit(serial.to) /\ serial.to \in Parks /\ serial' = Free /\ UNCHANGED <<conn, view, gate>>
    BY <1>2, SerialSays DEF ParkOwesExit, Typing
  <2>2. \A g \in Gates : rx'[g] = rx[g]
    BY <2>1, OwedExit, SinkAssumption
  <2>3. QED
    BY <1>0, <2>1, <2>2, StaysResting, RestReads
<1>3. CASE \E w \in waiting : ParkSkips(w) \/ ParkBegins(w)
  <2>1. UNCHANGED <<vars, conn, view>> /\ (gate' = gate \/ SwapGate(NoGate, NoAttach))
    BY <1>3 DEF ParkSkips, ParkBegins
  <2>2. serial' \in Attaching => serial' = serial
    BY <1>3, HoldingFacts DEF ParkSkips, ParkBegins, Attaching
  <2>3. rx' = rx
    BY <2>1 DEF vars
  <2>4. QED
    BY <2>1, <2>2, <2>3, StaysResting, RestReads
<1>4. QED
  BY <1>1, <1>2, <1>3 DEF ParkSteps

\* Adopting, closing, and the process.
LEMMA SessionReads ==
  ASSUME Typing, Onward, LinksFed, GateWaits,
         \/ AdoptRetains \/ AdoptParks \/ \E o \in Owners : AdoptBegins(o)
         \/ CloseSession \/ CloseAll \/ CloseEnds \/ ProcessEnds
  PROVE  LinksFed' /\ GateWaits'
<1>1. UNCHANGED <<rx, conn, view>>
  BY DEF AdoptRetains, AdoptParks, AdoptBegins, AdoptOthers, CloseSession, CloseAll, CloseEnds,
         ProcessEnds, Close, vars
<1>2. gate' = gate \/ SwapGate(NoGate, NoAttach)
  BY DEF AdoptRetains, AdoptParks, AdoptBegins, CloseSession, CloseAll, CloseEnds, ProcessEnds
<1>3. serial' \in Attaching => serial' = serial
  BY HoldingFacts DEF AdoptRetains, AdoptParks, AdoptBegins, CloseSession, CloseAll, CloseEnds,
                      ProcessEnds, Attaching
<1>4. QED
  BY <1>1, <1>2, <1>3, StaysResting, RestReads

\* A connection's own steps.
LEMMA ConnReads ==
  ASSUME Typing, StreamInv, Onward, LinksFed, GateWaits, NEW c \in Conns, ConnStep(c)
  PROVE  LinksFed' /\ GateWaits'
<1>0. rx' = rx
  BY ConnStepIsSilent DEF vars
<1>1. CASE \E g \in Gates : AttachBegins(c, g)
  BY <1>1, BeginReads
<1>2. CASE AttachRechecks(c) \/ AsksDetach(c)
  <2>1. UNCHANGED <<conn, view, gate, serial>>
    BY <1>2 DEF AttachRechecks, AsksDetach
  <2>2. QED
    BY <1>0, <2>1, StaysResting, RestReads
<1>3. CASE OtherLine(c)
  <2>1. conn' = [conn EXCEPT ![c] = SendAll(conn[c], <<Other>>)] /\ UNCHANGED <<gate, view, serial>>
    BY <1>3 DEF OtherLine, Send
  <2>2. Sent(c, <<Other>>)
    BY <2>1, Sending, LinesMade, Single DEF Typing
  <2>3. \A d \in Conns : ~conn'[d].closing => ~conn[d].closing
    BY <2>2 DEF Sent
  <2>4. LinksFed'
    BY <1>0, <2>1, <2>2, OtherReads
  <2>5. GateWaits'
    BY <1>0, <2>1, <2>3, GateRests
  <2>6. QED
    BY <2>4, <2>5
<1>4. CASE Writes(c)
  <2>1. LinksFed'
    BY <1>4, WriteReads
  <2>2. UNCHANGED <<gate, serial>> /\ conn' = [conn EXCEPT ![c].q = Tail(conn[c].q)]
    BY <1>4 DEF Writes
  <2>3. \A d \in Conns : conn'[d].closing = conn[d].closing
    BY <2>2 DEF Typing, LinksTyped, ConnState
  <2>4. GateWaits'
    BY <1>0, <2>2, <2>3, GateRests
  <2>5. QED
    BY <2>1, <2>4
<1>5. CASE WriteFails(c) \/ ReadLoopEnds(c) \/ ClientLeaves(c) \/ TeardownEnds(c)
  <2>1. UNCHANGED <<gate, serial>>
    BY <1>5 DEF WriteFails, ReadLoopEnds, ClientLeaves, Closed, TeardownEnds
  <2>2. conn'[c].closing
    <3>1. CASE WriteFails(c)
      BY <3>1 DEF WriteFails, Typing, LinksTyped, ConnState
    <3>2. CASE ReadLoopEnds(c) \/ ClientLeaves(c)
      BY <3>2 DEF ReadLoopEnds, ClientLeaves, Closed, Typing, LinksTyped, ConnState
    <3>3. CASE TeardownEnds(c)
      <4>1. conn[c].closing
        BY <3>3 DEF TeardownEnds, Typing, LinksTyped
      <4>2. conn' = [conn EXCEPT ![c].st = "gone", ![c].writing = FALSE, ![c].q = <<>>]
        BY <3>3 DEF TeardownEnds
      <4>3. QED
        BY <4>1, <4>2 DEF Typing, LinksTyped, ConnState
    <3>4. QED
      BY <1>5, <3>1, <3>2, <3>3
  <2>3. \A d \in Conns \ {c} : conn'[d] = conn[d] /\ view'[d] = view[d]
    BY <1>5 DEF WriteFails, ReadLoopEnds, ClientLeaves, Closed, TeardownEnds, Typing, LinksTyped
  <2>4. QED
    BY <1>0, <2>1, <2>2, <2>3, DroppedReads
<1>6. QED
  BY <1>1, <1>2, <1>3, <1>4, <1>5 DEF ConnStep

\* At the start nobody has read anything.
LEMMA ReadsInit == HostInit => Reads
<1> SUFFICES ASSUME HostInit PROVE Reads
  OBVIOUS
<1>1. /\ gate = [g \in Gates |-> NoAttach] /\ serial = Free /\ ended = FALSE
      /\ conn = [c \in Conns |-> [st |-> "up", closing |-> FALSE, writing |-> TRUE, q |-> <<>>]]
      /\ view = [c \in Conns |-> NoView]
  BY DEF HostInit
<1>2. Free \notin Attaching
  BY DEF Free, Attaching
<1>3. ASSUME NEW c \in Conns PROVE \E tr : Fed(c, tr)
  <2>1. conn[c].q = <<>> /\ ~view[c].foreign /\ ~view[c].gap /\ ~view[c].early
    BY <1>1 DEF NoView
  <2>2. PICK k \in Place : k = PlaceOf(view[c])
    BY <1>1 DEF NoView, Place, PlaceOf
  <2>3. PICK tr : Runs(tr, k, <<>>)
    BY RunNone
  <2>4. Len(<<>>) = 0 /\ \A i \in 1..0 : FALSE
    OBVIOUS
  <2>5. \A g \in Gates : ~Live(g, c)
    BY <1>1 DEF Live, NoAttach
  <2>6. Fed(c, tr)
    BY <2>1, <2>2, <2>3, <2>4, <2>5 DEF Fed
  <2>7. QED
    BY <2>6
<1>4. QED
  BY <1>1, <1>2, <1>3 DEF Reads, LinksFed, GateWaits, EndSeen

\* Every step keeps the reading.
LEMMA ReadsStep ==
  ASSUME Typing, StreamInv, Routing, Reads, [HostNext]_allVars
  PROVE  Reads'
<1>1. CASE HostNext
  <2>1. Onward
    BY <1>1, OnwardStep
  <2>2. LinksFed /\ GateWaits /\ EndSeen
    BY DEF Reads
  <2>3. EndSeen'
    BY <1>1, <2>2, EndStep
  <2>4. LinksFed' /\ GateWaits'
    BY <1>1, <2>1, <2>2, SinkReads, AttachReads, ParkReads, SessionReads, ConnReads, HostNextCases
  <2>5. QED
    BY <2>3, <2>4 DEF Reads
<1>2. CASE UNCHANGED allVars
  <2>1. UNCHANGED <<vars, hostHas, ended, maybeLost, gate, serial, conn, view>>
    BY <1>2 DEF allVars, hostVars
  <2>2. UNCHANGED <<exited, seq, rx, sink, pump>>
    BY <2>1 DEF vars
  <2>3. Onward
    BY <2>1, <2>2 DEF Onward, Late
  <2>4. LinksFed' /\ GateWaits'
    BY <2>1, <2>2, <2>3, StaysResting, RestReads DEF Reads
  <2>5. EndSeen'
    BY <2>1, <2>2, EndKept DEF Reads
  <2>6. QED
    BY <2>4, <2>5 DEF Reads
<1>3. QED
  BY <1>1, <1>2

\* Every client of a link that is not being dropped will read its queue in place, what waits for
\* a response follows it, and the end is noticed after the end: the invariant the three theorems
\* below are read off.
THEOREM ClientsReadInPlace == HostSpec => [](Typing /\ Routing /\ Reads)
<1>1. HostSpec => []StreamInv
  BY HostImplementsStream, StreamInvariant, PTL
<1>2. HostInit => Reads
  BY ReadsInit
<1>3. StreamInv /\ (Typing /\ Routing) /\ Reads /\ [HostNext]_allVars => Reads'
  BY ReadsStep
<1>4. QED
  BY <1>1, <1>2, <1>3, HostRoutes, PTL DEF HostSpec

\* What is read of one such client.
LEMMA ReadsSays ==
  ASSUME Reads, NEW c \in Conns, ~conn[c].closing
  PROVE  ~view[c].foreign /\ ~view[c].gap /\ (view[c].early => Excused(view[c].of, conn[c].q, 0))
<1>1. PICK tr : Fed(c, tr)
  BY DEF Reads, LinksFed
<1>2. QED
  BY <1>1 DEF Fed

\* The attach response precedes that attach's output, and output of an attach that was replaced
\* never follows its successor's response on a connection; nothing follows an exit.
THEOREM ResponseIsFirst == HostSpec => []ResponseComesFirst
<1>1. Reads => ResponseComesFirst
  BY ReadsSays DEF ResponseComesFirst
<1>2. QED
  BY <1>1, ClientsReadInPlace, PTL

\* Replay and live never gap on a connection that is not being dropped.
THEOREM NoGapWhileUp == HostSpec => []GaplessWhileUp
<1>1. Reads => GaplessWhileUp
  BY ReadsSays DEF GaplessWhileUp
<1>2. QED
  BY <1>1, ClientsReadInPlace, PTL

\* The exit comes after everything printed, but of a session an adopt has touched, and of an
\* attach still answered when the host lets go of the session.
THEOREM ExitIsLast == HostSpec => []ExitComesLast
<1>1. Reads => ExitComesLast
  BY ReadsSays DEF ExitComesLast, Excused
<1>2. QED
  BY <1>1, ClientsReadInPlace, PTL
=============================================================================
