----------------------------- MODULE HostSession -----------------------------
(***************************************************************************)
(* One terminal session as santree-host serves it (crates/host/src/pty.rs, *)
(* conn.rs): the attach gate, pacing against a connection's bounded queue, *)
(* parking, adoption, and the teardown of a connection.  It composes with  *)
(* PtyStream: a gate, or a parked sink, is a receiver; each of the steps   *)
(* below that reaches the manager takes the manager's own step with it.    *)
(*                                                                         *)
(* A connection's queue holds lines; a line costs one.  The writer's       *)
(* batch, its slices and its flush are one step for each line it puts      *)
(* before the client.  Which anchor an attach brings is PtyStream's        *)
(* business: the gate starts from the replay's seq whatever it was.        *)
(***************************************************************************)
EXTENDS PtyStream, SequencesExt

CONSTANTS
  Gates,     \* attaches: each makes one gate (their number is a bound)
  Parks,     \* parked sinks
  NoGate,
  Conns,     \* connections, all open from the start
  NoConn,
  OutLimit,  \* Caps::out_queue_bytes, in lines
  PaceHigh,  \* Caps::pace_high, in lines
  Requests   \* what is asked of the session besides attaches (bound)

ASSUME SinkAssumption ==
  /\ Receivers = Gates \cup Parks
  /\ Gates \cap Parks = {}
  /\ NoGate \notin Gates
  /\ NoConn \notin Conns
ASSUME CapsAssumption == OutLimit \in Nat /\ PaceHigh \in Nat /\ PaceHigh < OutLimit
ASSUME RequestsAssumption == Requests \subseteq {"detach", "adopt", "close", "closeAll", "other", "die"}

VARIABLES
  hostHas,    \* the session is in Host::sessions
  alive,      \* its root process has not been reaped
  ended,      \* Live::ended
  route,      \* Live::route
  maybeLost,  \* Live::sentinel_maybe_lost
  cur,        \* SessState::gate
  gate,       \* each gate's state
  call,       \* where the reader thread is, inside the sink it is calling
  serial,     \* the holder of SessState::attach, and how far it is
  waiting,    \* parks that wait for it: <<connection, who asks>>
  returned,   \* connections with an attach answered and not yet rechecked
  adopting,   \* where a pty.adopt is
  closer,     \* where a close, or the host's close_all, is
  conn,       \* each connection and its queue
  view        \* what each connection's client has read

hostVars == <<hostHas, alive, ended, route, maybeLost, cur, gate, call, serial, waiting,
              returned, adopting, closer, conn, view>>
allVars == <<vars, hostVars>>

\* The lines a connection carries.
Resp(g, at) == [t |-> "resp", g |-> g, at |-> at]
Data(g, from, n) == [t |-> "data", g |-> g, from |-> from, len |-> n]
Exit(g) == [t |-> "exit", g |-> g]
Other == [t |-> "other"]

\* A gate before its attach: `start` will be the replay's seq.
NoAttach == [conn |-> NoConn, start |-> 0, open |-> FALSE, pending |-> <<>>,
             exitSent |-> FALSE, retired |-> FALSE]

Free == [op |-> "free"]
Holding(op, at, c, g) == [op |-> op, at |-> at, conn |-> c, to |-> g]

\* A client that has read nothing: the attach whose response it read last, its
\* count, and whether anything it read was of another attach, did not begin
\* at its count, or was an exit that came twice or before the end.
NoView == [of |-> NoGate, count |-> 0, over |-> FALSE,
           foreign |-> FALSE, gap |-> FALSE, early |-> FALSE]

HostInit ==
  /\ Init /\ sink \in Parks
  /\ hostHas = TRUE
  /\ alive = TRUE
  /\ ended = FALSE
  /\ route = NoConn
  /\ maybeLost = FALSE
  /\ cur = NoGate
  /\ gate = [g \in Gates |-> NoAttach]
  /\ call = "idle"
  /\ serial = Free
  /\ waiting = {}
  /\ returned = {}
  /\ adopting = "no"
  /\ closer = "no"
  /\ conn = [c \in Conns |-> [st |-> "up", closing |-> FALSE, writing |-> TRUE, q |-> <<>>]]
  /\ view = [c \in Conns |-> NoView]

-----------------------------------------------------------------------------
(***************************************************************************)
(* The queue, the gate and the client.                                     *)
(***************************************************************************)

\* A mutant of Room: off by one at the queue's limit.
Room_OneMore(k) == OutLimit - Len(k.q) + 1

\* How many lines Out::send takes before the queue is full.
Room(k) == OutLimit - Len(k.q)

\* Out::send of one line after the other: a full queue drops the link, and the
\* lines; a writer that has ended drops the lines.
SendAll(k, lines) ==
  LET fitting == IF Len(lines) <= Room(k) THEN lines ELSE SubSeq(lines, 1, Room(k))
  IN IF ~k.writing /\ Room(k) > 0 THEN k
     ELSE [k EXCEPT !.q = @ \o fitting, !.closing = @ \/ Len(lines) > Room(k)]

Send(k, line) == SendAll(k, <<line>>)

\* Gate::emit over several lines: nothing follows the exit.
Emitted(lines) ==
  LET last == SelectInSeq(lines, LAMBDA l : l.t = "exit")
  IN IF last = 0 THEN lines ELSE SubSeq(lines, 1, last)

\* A mutant of Delivered: nothing waits for the response.
Delivered_Ungated(g, line) ==
  /\ gate' = [gate EXCEPT ![g].exitSent = @ \/ line.t = "exit"]
  /\ conn' = IF ~gate[g].retired /\ ~gate[g].exitSent
             THEN [conn EXCEPT ![gate[g].conn] = Send(@, line)]
             ELSE conn

\* Gate::deliver under the gate's lock, and Gate::emit.
Delivered(g, line) ==
  /\ gate' = IF gate[g].retired THEN gate
             ELSE IF gate[g].open THEN [gate EXCEPT ![g].exitSent = @ \/ line.t = "exit"]
             ELSE [gate EXCEPT ![g].pending = Append(@, line)]
  /\ conn' = IF gate[g].open /\ ~gate[g].retired /\ ~gate[g].exitSent
             THEN [conn EXCEPT ![gate[g].conn] = Send(@, line)]
             ELSE conn

\* SessState::swap_gate: the old gate retired, the new one current.
SwapGate(next, made) ==
  /\ cur' = next
  /\ gate' = [g \in Gates |->
       IF g = cur THEN [gate[g] EXCEPT !.retired = TRUE]
       ELSE IF g = next THEN made
       ELSE gate[g]]

\* The client reads one line: it takes its position from a response and counts
\* the bytes after it.
Read(v, line) ==
  CASE line.t = "resp" ->
         [v EXCEPT !.of = line.g, !.count = line.at, !.over = FALSE]
    [] line.t = "data" ->
         [v EXCEPT !.count = @ + line.len,
                   !.foreign = @ \/ line.g # v.of \/ v.over,
                   !.gap = @ \/ (line.g = v.of /\ line.from # v.count)]
    [] line.t = "exit" ->
         [v EXCEPT !.over = TRUE,
                   !.foreign = @ \/ line.g # v.of \/ v.over,
                   !.early = @ \/ ~exited \/ v.count # seq]
    [] OTHER -> v

-----------------------------------------------------------------------------
(***************************************************************************)
(* The session's reader thread, in the sink it was handed.                 *)
(***************************************************************************)

HostRecord ==
  /\ RecordExit \/ \E n \in 1..MaxLen : Record(n)
  /\ call' = IF pump'.at = "handing" THEN "called" ELSE "idle"
  /\ UNCHANGED <<hostHas, alive, ended, route, maybeLost, cur, gate, serial, waiting,
                 returned, adopting, closer, conn, view>>

Calling(at, rs) == call = at /\ pump.at = "handing" /\ pump.to \in rs

\* parked_sink: nothing is sent, the end is noticed.
SinkParked ==
  /\ Calling("called", Parks)
  /\ HandOver
  /\ call' = "idle"
  /\ ended' = (ended \/ pump.len = 0)
  /\ UNCHANGED <<hostHas, alive, route, maybeLost, cur, gate, serial, waiting,
                 returned, adopting, closer, conn, view>>

\* The attach's sink, given the exit: mark_ended, then on to the gate.
SinkMarksEnded ==
  /\ Calling("called", Gates)
  /\ pump.len = 0
  /\ ended' = TRUE
  /\ call' = "through"
  /\ UNCHANGED <<vars, hostHas, alive, route, maybeLost, cur, gate, serial, waiting,
                 returned, adopting, closer, conn, view>>

Crowded(c) == Len(conn[c].q) > PaceHigh

\* Out::wait_room returns true: the queue is at or under pace_high, whether or
\* not the connection is closing.
PaceClears ==
  /\ Calling("called", Gates)
  /\ pump.len > 0
  /\ ~Crowded(gate[pump.to].conn)
  /\ call' = "through"
  /\ UNCHANGED <<vars, hostHas, alive, ended, route, maybeLost, cur, gate, serial, waiting,
                 returned, adopting, closer, conn, view>>

\* ... or false: superseded, or the connection is closing.  (Retired before the
\* call, the chunk is dropped without a wait.)
PaceGivesUp ==
  /\ Calling("called", Gates)
  /\ pump.len > 0
  /\ gate[pump.to].retired \/ (Crowded(gate[pump.to].conn) /\ conn[gate[pump.to].conn].closing)
  /\ HandOver
  /\ call' = "idle"
  /\ UNCHANGED <<hostHas, alive, ended, route, maybeLost, cur, gate, serial, waiting,
                 returned, adopting, closer, conn, view>>

\* Mutants of PaceStalls: the chunk given up, the link kept; a deadline moved
\* at every poll.
PaceStalls_KeepsTheLink ==
  /\ Calling("called", Gates)
  /\ pump.len > 0
  /\ Crowded(gate[pump.to].conn)
  /\ ~gate[pump.to].retired
  /\ HandOver
  /\ call' = "idle"
  /\ UNCHANGED <<hostHas, alive, ended, route, maybeLost, cur, gate, serial, waiting,
                 returned, adopting, closer, conn, view>>

PaceStalls_Never == Calling("never", Gates) /\ UNCHANGED allVars

\* ... or false after Caps::stall with nothing written: the link is dropped.
PaceStalls ==
  /\ Calling("called", Gates)
  /\ pump.len > 0
  /\ Crowded(gate[pump.to].conn)
  /\ ~gate[pump.to].retired
  /\ ~conn[gate[pump.to].conn].closing
  /\ conn' = [conn EXCEPT ![gate[pump.to].conn].closing = TRUE]
  /\ HandOver
  /\ call' = "idle"
  /\ UNCHANGED <<hostHas, alive, ended, route, maybeLost, cur, gate, serial, waiting,
                 returned, adopting, closer, view>>

\* The rest of Gate::deliver.
GateDelivers ==
  /\ Calling("through", Gates)
  /\ Delivered(pump.to, IF pump.len = 0 THEN Exit(pump.to)
                        ELSE Data(pump.to, pump.from, pump.len))
  /\ HandOver
  /\ call' = "idle"
  /\ UNCHANGED <<hostHas, alive, ended, route, maybeLost, cur, serial, waiting,
                 returned, adopting, closer, view>>

Sink == SinkParked \/ SinkMarksEnded \/ PaceClears \/ PaceGivesUp \/ PaceStalls \/ GateDelivers

-----------------------------------------------------------------------------
(***************************************************************************)
(* Host::pty_attach, under the session's attach lock.                      *)
(***************************************************************************)

\* The request was read while c was up; its blocking task may run later.
AttachBegins(c, g) ==
  /\ serial = Free
  /\ hostHas
  /\ gate[g].conn = NoConn
  /\ conn[c].st # "gone"
  /\ SwapGate(g, [NoAttach EXCEPT !.conn = c])
  /\ serial' = Holding("attach", "swapped", c, g)
  /\ UNCHANGED <<vars, hostHas, alive, ended, route, maybeLost, call, waiting,
                 returned, adopting, closer, conn, view>>

\* The lock is released, and the connection will be looked at again (Conn::closed).
AttachReturns(c) == serial' = Free /\ returned' = returned \cup {c}

\* PtyManager::attach refuses: closed meanwhile.  The error is answered.
AttachRefused ==
  /\ serial.op = "attach" /\ serial.at = "swapped"
  /\ ~registered
  /\ conn' = [conn EXCEPT ![serial.conn] = Send(@, Other)]
  /\ AttachReturns(serial.conn)
  /\ UNCHANGED <<vars, hostHas, alive, ended, route, maybeLost, cur, gate, call, waiting,
                 adopting, closer, view>>

\* PtyManager::attach, up to the exit it may owe.
AttachSwaps ==
  /\ serial.op = "attach" /\ serial.at = "swapped"
  /\ Attach(serial.to, Fresh)
  /\ gate' = [gate EXCEPT ![serial.to].start = seq]
  /\ serial' = Holding("attach", "attached", serial.conn, serial.to)
  /\ UNCHANGED <<hostHas, alive, ended, route, maybeLost, cur, call, waiting,
                 returned, adopting, closer, conn, view>>

\* The owed exit goes through the attach's own sink.
AttachOwesExit ==
  /\ serial.op = "attach" /\ serial.at = "attached"
  /\ SendOwedExit(serial.to)
  /\ ended' = TRUE
  /\ Delivered(serial.to, Exit(serial.to))
  /\ UNCHANGED <<hostHas, alive, route, maybeLost, cur, call, serial, waiting,
                 returned, adopting, closer, view>>

\* A mutant of AttachRoutes: the process asked for after every attach.
AttachRoutes_AlwaysAsks ==
  /\ serial.op = "attach" /\ serial.at = "attached"
  /\ serial.to \notin owed
  /\ route' = serial.conn
  /\ serial' = Holding("attach", IF registered /\ (~alive \/ exited) THEN "dead" ELSE "routed",
                       serial.conn, serial.to)
  /\ UNCHANGED <<vars, hostHas, alive, ended, maybeLost, cur, gate, call, waiting,
                 returned, adopting, closer, conn, view>>

\* Routed; then, after an adopt, the process is asked for (`dead`).
AttachRoutes ==
  /\ serial.op = "attach" /\ serial.at = "attached"
  /\ serial.to \notin owed
  /\ route' = serial.conn
  /\ serial' = Holding("attach",
                       IF maybeLost /\ registered /\ (~alive \/ exited) THEN "dead" ELSE "routed",
                       serial.conn, serial.to)
  /\ UNCHANGED <<vars, hostHas, alive, ended, maybeLost, cur, gate, call, waiting,
                 returned, adopting, closer, conn, view>>

\* A mutant of AttachAnswers: what waited for the response is forgotten.
AttachAnswers_ForgetsPending ==
  /\ serial.op = "attach" /\ serial.at \in {"routed", "dead"}
  /\ conn' = [conn EXCEPT ![serial.conn] = Send(@, Resp(serial.to, gate[serial.to].start))]
  /\ gate' = [gate EXCEPT ![serial.to].open = TRUE, ![serial.to].pending = <<>>]
  /\ AttachReturns(serial.conn)
  /\ UNCHANGED <<vars, hostHas, alive, ended, route, maybeLost, cur, call, waiting,
                 adopting, closer, view>>

\* Under the gate's lock: the response, what waited for it, and the exit if
\* the session is at its end; the gate opens.
AttachAnswers ==
  LET g == serial.to
      c == serial.conn
      out == Emitted(gate[g].pending
                       \o IF ended \/ serial.at = "dead" THEN <<Exit(g)>> ELSE <<>>)
  IN /\ serial.op = "attach" /\ serial.at \in {"routed", "dead"}
     /\ conn' = [conn EXCEPT ![c] = SendAll(@, <<Resp(g, gate[g].start)>> \o out)]
     /\ gate' = [gate EXCEPT ![g].open = TRUE, ![g].pending = <<>>,
                             ![g].exitSent = \E i \in 1..Len(out) : out[i].t = "exit"]
     /\ AttachReturns(c)
     /\ UNCHANGED <<vars, hostHas, alive, ended, route, maybeLost, cur, call, waiting,
                    adopting, closer, view>>

\* A mutant of AttachRechecks: the connection is not looked at again.
AttachRechecks_Never(c) ==
  /\ c \in returned
  /\ returned' = returned \ {c}
  /\ UNCHANGED <<vars, hostHas, alive, ended, route, maybeLost, cur, gate, call, serial, waiting,
                 adopting, closer, conn, view>>

\* Host::handle after pty_attach: its connection ended meanwhile, so the sweep
\* may have missed the route just set.
AttachRechecks(c) ==
  /\ c \in returned
  /\ returned' = returned \ {c}
  /\ waiting' = IF conn[c].st # "up" /\ hostHas THEN waiting \cup {<<c, "asks">>} ELSE waiting
  /\ UNCHANGED <<vars, hostHas, alive, ended, route, maybeLost, cur, gate, call, serial,
                 adopting, closer, conn, view>>

-----------------------------------------------------------------------------
(***************************************************************************)
(* Host::park, and the part of pty_adopt that is the same.                 *)
(***************************************************************************)

\* park returns at once when c is not the receiver.
ParkSkips(w) ==
  /\ w \in waiting
  /\ serial = Free
  /\ route # w[1]
  /\ waiting' = waiting \ {w}
  /\ UNCHANGED <<vars, hostHas, alive, ended, route, maybeLost, cur, gate, call, serial,
                 returned, adopting, closer, conn, view>>

\* A mutant of ParkBegins: parked, and still said to be attached.
ParkBegins_KeepsRoute(w) ==
  /\ w \in waiting
  /\ serial = Free
  /\ route = w[1]
  /\ waiting' = waiting \ {w}
  /\ SwapGate(NoGate, NoAttach)
  /\ serial' = Holding("park", "swapped", w[1], w[2])
  /\ UNCHANGED <<vars, hostHas, alive, ended, route, maybeLost, call, returned, adopting, closer,
                 conn, view>>

\* Otherwise the session is parked: no route, no gate, then a parked sink.
ParkBegins(w) ==
  /\ w \in waiting
  /\ serial = Free
  /\ route = w[1]
  /\ waiting' = waiting \ {w}
  /\ route' = NoConn
  /\ SwapGate(NoGate, NoAttach)
  /\ serial' = Holding("park", "swapped", w[1], w[2])
  /\ UNCHANGED <<vars, hostHas, alive, ended, maybeLost, call, returned, adopting, closer,
                 conn, view>>

\* The manager's attach of a parked sink; refused if the session was closed.
ParkSwaps ==
  /\ serial.op \in {"park", "adopt"} /\ serial.at = "swapped"
  /\ \/ /\ \E p \in Parks : /\ Attach(p, Unknown)
                            /\ serial' = IF exited
                                          THEN Holding(serial.op, "owes", serial.conn, p)
                                          ELSE Free
     \/ ~registered /\ serial' = Free /\ UNCHANGED vars
  /\ UNCHANGED <<hostHas, alive, ended, route, maybeLost, cur, gate, call, waiting,
                 returned, adopting, closer, conn, view>>

ParkOwesExit ==
  /\ serial.op \in {"park", "adopt"} /\ serial.at = "owes"
  /\ SendOwedExit(serial.to)
  /\ ended' = TRUE
  /\ serial' = Free
  /\ UNCHANGED <<hostHas, alive, route, maybeLost, cur, gate, call, waiting,
                 returned, adopting, closer, conn, view>>

-----------------------------------------------------------------------------
(***************************************************************************)
(* Host::pty_adopt, close_session, close_all.                              *)
(***************************************************************************)

\* Nobody's sink for a moment: adopt_others takes no attach lock.
AdoptBegins(o) ==
  /\ "adopt" \in Requests
  /\ o # Opener  \* bound: not adopted back
  /\ adopting = "no"
  /\ AdoptOthers(o)
  /\ adopting' = "adopted"
  /\ UNCHANGED <<hostHas, alive, ended, route, maybeLost, cur, gate, call, serial, waiting,
                 returned, closer, conn, view>>

\* Sessions the manager no longer has are forgotten.
AdoptRetains ==
  /\ adopting = "adopted"
  /\ adopting' = IF registered THEN "kept" ELSE "no"
  /\ hostHas' = (hostHas /\ registered)
  /\ IF hostHas /\ ~registered THEN SwapGate(NoGate, NoAttach) ELSE UNCHANGED <<cur, gate>>
  /\ UNCHANGED <<vars, alive, ended, route, maybeLost, call, serial, waiting,
                 returned, closer, conn, view>>

AdoptParks ==
  /\ adopting = "kept"
  /\ serial = Free
  /\ adopting' = "no"
  /\ IF hostHas
     THEN /\ route' = NoConn
          /\ maybeLost' = TRUE
          /\ SwapGate(NoGate, NoAttach)
          /\ serial' = Holding("adopt", "swapped", NoConn, NoGate)
     ELSE UNCHANGED <<route, maybeLost, cur, gate, serial>>
  /\ UNCHANGED <<vars, hostHas, alive, ended, call, waiting, returned, closer, conn, view>>

\* close_session (pty.close, the reaper): killed, then forgotten; the gate is
\* not retired.
CloseSession ==
  /\ "close" \in Requests
  /\ closer = "no"
  /\ Close
  /\ closer' = "killed"
  /\ UNCHANGED <<hostHas, alive, ended, route, maybeLost, cur, gate, call, serial, waiting,
                 returned, adopting, conn, view>>

\* close_all (the host ending): forgotten and its gate retired, then killed.
CloseAll ==
  /\ "closeAll" \in Requests
  /\ closer = "no"
  /\ hostHas
  /\ hostHas' = FALSE
  /\ SwapGate(NoGate, NoAttach)
  /\ closer' = "drained"
  /\ UNCHANGED <<vars, alive, ended, route, maybeLost, call, serial, waiting,
                 returned, adopting, conn, view>>

CloseEnds ==
  /\ \/ closer = "killed" /\ hostHas' = FALSE /\ UNCHANGED vars
     \/ closer = "drained" /\ UNCHANGED hostHas /\ (Close \/ (~registered /\ UNCHANGED vars))
  /\ closer' = IF closer = "killed" THEN "closed" ELSE "ended"
  /\ UNCHANGED <<alive, ended, route, maybeLost, cur, gate, call, serial, waiting,
                 returned, adopting, conn, view>>

\* The root process is gone (its terminal may be read on a while).
ProcessEnds ==
  /\ "die" \in Requests
  /\ alive
  /\ alive' = FALSE
  /\ UNCHANGED <<vars, hostHas, ended, route, maybeLost, cur, gate, call, serial, waiting,
                 returned, adopting, closer, conn, view>>

-----------------------------------------------------------------------------
(***************************************************************************)
(* A connection.                                                           *)
(***************************************************************************)

\* A line of something else (a ping, another answer).
OtherLine(c) ==
  /\ "other" \in Requests
  /\ \A i \in 1..Len(conn[c].q) : conn[c].q[i] # Other  \* bound: one at a time
  /\ conn[c].st = "up"
  /\ conn' = [conn EXCEPT ![c] = Send(@, Other)]
  /\ UNCHANGED <<vars, hostHas, alive, ended, route, maybeLost, cur, gate, call, serial, waiting,
                 returned, adopting, closer, view>>

\* The writer puts a line before the client.
Writes(c) ==
  /\ conn[c].writing
  /\ conn[c].q # <<>>
  /\ view' = [view EXCEPT ![c] = Read(@, Head(conn[c].q))]
  /\ conn' = [conn EXCEPT ![c].q = Tail(@)]
  /\ UNCHANGED <<vars, hostHas, alive, ended, route, maybeLost, cur, gate, call, serial, waiting,
                 returned, adopting, closer>>

\* ... or fails at it: the link is dropped, nothing more goes out.
WriteFails(c) ==
  /\ conn[c].writing
  /\ conn[c].q # <<>>
  /\ conn' = [conn EXCEPT ![c].q = <<>>, ![c].writing = FALSE, ![c].closing = TRUE]
  /\ UNCHANGED <<vars, hostHas, alive, ended, route, maybeLost, cur, gate, call, serial, waiting,
                 returned, adopting, closer, view>>

\* The client asks to detach (pty.detach).
AsksDetach(c) ==
  /\ "detach" \in Requests
  /\ conn[c].st = "up"
  /\ hostHas
  /\ waiting' = waiting \cup {<<c, "asks">>}
  /\ UNCHANGED <<vars, hostHas, alive, ended, route, maybeLost, cur, gate, call, serial,
                 returned, adopting, closer, conn, view>>

\* serve_conn's read loop ends, because the link was dropped or the client went
\* away; the sweep parks what it routed.
Closed(c) ==
  /\ conn[c].st = "up"
  /\ conn' = [conn EXCEPT ![c].st = "closed", ![c].closing = TRUE]
  /\ waiting' = IF hostHas THEN waiting \cup {<<c, "sweep">>} ELSE waiting
  /\ UNCHANGED <<vars, hostHas, alive, ended, route, maybeLost, cur, gate, call, serial,
                 returned, adopting, closer, view>>

ReadLoopEnds(c) == conn[c].closing /\ Closed(c)
ClientLeaves(c) == ~conn[c].closing /\ Closed(c)

\* The sweep is over; the writer drains for WRITER_CLOSE, and is stopped.
TeardownEnds(c) ==
  /\ conn[c].st = "closed"
  /\ <<c, "sweep">> \notin waiting
  /\ ~(serial.op = "park" /\ serial.conn = c /\ serial.to \in {"sweep"} \cup Parks)
  /\ conn' = [conn EXCEPT ![c].st = "gone", ![c].writing = FALSE, ![c].q = <<>>]
  /\ view' = [view EXCEPT ![c] = NoView]
  /\ UNCHANGED <<vars, hostHas, alive, ended, route, maybeLost, cur, gate, call, serial, waiting,
                 returned, adopting, closer>>

-----------------------------------------------------------------------------
AttachSteps ==
  AttachRefused \/ AttachSwaps \/ AttachOwesExit \/ AttachRoutes \/ AttachAnswers

ParkSteps == ParkSwaps \/ ParkOwesExit \/ \E w \in waiting : ParkSkips(w) \/ ParkBegins(w)

HostNext ==
  \/ HostRecord
  \/ Sink
  \/ AttachSteps
  \/ ParkSteps
  \/ AdoptRetains \/ AdoptParks
  \/ \E o \in Owners : AdoptBegins(o)
  \/ CloseSession \/ CloseAll \/ CloseEnds
  \/ ProcessEnds
  \/ \E c \in Conns :
       \/ \E g \in Gates : AttachBegins(c, g)
       \/ AttachRechecks(c)
       \/ OtherLine(c)
       \/ Writes(c)
       \/ WriteFails(c)
       \/ AsksDetach(c)
       \/ ReadLoopEnds(c)
       \/ ClientLeaves(c)
       \/ TeardownEnds(c)

(***************************************************************************)
(* The host's own threads and tasks run: a sink gets its turn (its stall   *)
(* timer at the latest), an attach or park in progress goes on, a dropped  *)
(* link's read loop ends.  Nothing is assumed of a client: it may never    *)
(* read, never attach, never leave; nor of the process.                    *)
(***************************************************************************)
HostFairness ==
  /\ WF_allVars(Sink)
  /\ WF_allVars(AttachSteps)
  /\ WF_allVars(ParkSteps)
  /\ WF_allVars(AdoptRetains \/ AdoptParks)
  /\ \A c \in Conns : /\ WF_allVars(AttachRechecks(c))
                      /\ WF_allVars(ReadLoopEnds(c))
                      /\ WF_allVars(TeardownEnds(c))

HostSpec == HostInit /\ [][HostNext]_allVars

FairHostSpec == HostSpec /\ HostFairness
-----------------------------------------------------------------------------
(***************************************************************************)
(* Properties.                                                             *)
(***************************************************************************)

Line ==
  [t : {"resp"}, g : Gates, at : 0..MaxSeq] \cup [t : {"exit"}, g : Gates] \cup {Other}
    \cup [t : {"data"}, g : Gates, from : 0..MaxSeq, len : 1..MaxLen]

\* Whose sink the holder of the attach lock brings to the manager: an attach
\* its gate, a park or an adopt a parked sink.  (What the proof that this
\* implements PtyStream needs; see HostGateProofs.)
SerialOK ==
  /\ serial.op = "attach" => serial.to \in Gates
  /\ serial.op \in {"park", "adopt"} /\ serial.at = "owes" => serial.to \in Parks

\* Types of the host's fields (PtyStream has its own).
HostTypeOK ==
  /\ {hostHas, alive, ended, maybeLost} \subseteq BOOLEAN
  /\ route \in Conns \cup {NoConn}
  /\ cur \in Gates \cup {NoGate}
  /\ \A g \in Gates :
       /\ gate[g].conn \in Conns \cup {NoConn}
       /\ gate[g].start \in 0..MaxSeq
       /\ \A i \in 1..Len(gate[g].pending) : gate[g].pending[i] \in Line
       /\ {gate[g].open, gate[g].exitSent, gate[g].retired} \subseteq BOOLEAN
  /\ call \in {"idle", "called", "through"}
  /\ call = "idle" <=> pump.at # "handing"
  /\ serial = Free \/ serial.op \in {"attach", "park", "adopt"}
  /\ SerialOK
  /\ waiting \subseteq Conns \X {"asks", "sweep"}
  /\ returned \subseteq Conns
  /\ adopting \in {"no", "adopted", "kept"}
  /\ closer \in {"no", "killed", "closed", "drained", "ended"}
  /\ \A c \in Conns :
       /\ conn[c].st \in {"up", "closed", "gone"}
       /\ Len(conn[c].q) <= OutLimit
       /\ \A i \in 1..Len(conn[c].q) : conn[c].q[i] \in Line
       /\ view[c].of \in Gates \cup {NoGate}
       /\ view[c].count \in Nat

\* The attach response precedes that attach's output, and output of an attach
\* that was replaced never follows its successor's response on a connection;
\* nothing follows an exit.
ResponseComesFirst == \A c \in Conns : view[c].foreign => conn[c].closing

\* Replay and live never gap on a connection that is not being dropped: each
\* chunk the client reads begins where its count is.
GaplessWhileUp == \A c \in Conns : view[c].gap => conn[c].closing

\* The exit comes after everything printed: after the end of the stream, with
\* all of it counted.  (Not so of a session pty_adopt has touched, whose
\* next attach asks the process instead, see README; nor of an attach still being
\* answered when the host lets go of the session and retires its gate.)
ExitComesLast == \A c \in Conns : view[c].early => conn[c].closing \/ maybeLost \/ gate[view[c].of].retired

\* Conn::closed: a connection that is gone is nobody's receiver, unless an
\* attach of its own is still at work and will look again.
Busy(c) ==
  \/ c \in returned
  \/ serial.op = "attach" /\ serial.conn = c
  \/ \E w \in waiting : w[1] = c

NoRouteToTheGone == \A c \in Conns : conn[c].st = "gone" /\ route = c /\ hostHas => Busy(c)

\* What the host says of a session at rest agrees with where its output goes: a
\* route is the connection of the current gate, open and the manager's sink.
Settled == serial = Free /\ adopting = "no" /\ hostHas /\ closer = "no"

RouteIsTheSink ==
  Settled =>
    IF route = NoConn
    THEN sink \notin Gates
    ELSE /\ cur \in Gates /\ sink = cur
         /\ gate[cur].conn = route /\ gate[cur].open /\ ~gate[cur].retired

\* No reader thread is held up for ever by a client that does not read.
PacingEnds == (call # "idle") ~> (call = "idle")

\* An ended session's receiver is told: the exit is queued for it, unless it is
\* replaced or its connection is dropped.
ExitIsSent ==
  \A g \in Gates :
    (exited /\ sink = g)
      ~> (gate[g].exitSent \/ gate[g].retired
            \/ \E c \in Conns : gate[g].conn = c /\ conn[c].closing)

\* Violated; see README.  docs/remote.md: "replay and live never overlap or gap" (of every connection).
NeverAGap == \A c \in Conns : ~view[c].gap
=============================================================================
