----------------------------- MODULE HostTable -----------------------------
(***************************************************************************)
(* All the terminal sessions of one host (crates/host/src/pty.rs) over the *)
(* PTY manager (crates/pty/src/lib.rs): opening under max_ptys, attaching, *)
(* closing, adopting the sessions of another page, reaping the ended, and  *)
(* the shutdown.  Each request runs on a thread of the blocking pool, and  *)
(* takes the manager's lock, the host table's lock and a session's attach  *)
(* lock one after the other: one action per critical section.  What goes   *)
(* through a gate, and in which order, is HostSession's business; here a   *)
(* gate has a receiver, is current or retired, and was told of the exit    *)
(* or not.                                                                 *)
(***************************************************************************)
EXTENDS Integers, Sequences, FiniteSets, FiniteSetsExt

CONSTANTS
  Tasks,      \* requests at work at once: permits of the blocking pool
  NoTask,
  Pages,      \* PtyOpenParams::owner
  NoPage,
  Names,      \* (label, agent_kind) pairs
  NoName,     \* an empty label, which names nothing
  MaxPtys,    \* Caps::max_ptys
  MaxAsked    \* bound: how often each request is made, the reaper runs, a process ends

ASSUME TableAssumption ==
  /\ NoTask \notin Tasks /\ NoPage \notin Pages
  /\ MaxPtys \in Nat
  /\ MaxAsked \in [{"open", "attach", "close", "adopt", "all", "park", "reap", "end"} -> Nat]

Ids == 1 .. MaxAsked["open"]
Gates == 1 .. MaxAsked["attach"]
NoGate == 0
Parked == -1     \* a parked sink
NoSink == -2     \* `sink` is None

VARIABLES
  held,    \* the ids in the manager's map
  nextId,  \* the last id minted
  down,    \* Inner::closed
  ses,     \* what the manager keeps of each session, and its process
  table,   \* the ids in Host::sessions
  sess,    \* each session's SessState
  marked,  \* the sessions whose idle_dead_since is set
  opening, \* the task that holds Host::opening
  task,    \* what each task is doing
  reaper,  \* what the reaper is doing
  closing, \* how far the host's close_all is
  gates    \* attaches so far: the receiver each gate answered, and what it heard

tableVars == <<held, nextId, down, ses, table, sess, marked, opening, task, reaper, closing, gates>>

\* What clients and the manager did, for the properties alone.
VARIABLES
  left,    \* how often each request may still be made
  asked,   \* ids somebody asked to close
  cut      \* gates retired by an attach the manager then refused, or by a retain

history == <<left, asked, cut>>
allVars == <<tableVars, history>>

Idle == [at |-> "idle"]
Unborn == [owner |-> NoPage, name |-> NoName, sink |-> NoSink, proc |-> "unborn", pumped |-> FALSE]
NewState == [route |-> NoGate, gate |-> NoGate, ended |-> FALSE, maybeLost |-> FALSE, serial |-> NoTask]

TableInit ==
  /\ held = {} /\ table = {} /\ marked = {}
  /\ nextId = 0
  /\ down = FALSE
  /\ ses = [id \in Ids |-> Unborn]
  /\ sess = [id \in Ids |-> NewState]
  /\ opening = NoTask
  /\ task = [t \in Tasks |-> Idle]
  /\ reaper = Idle
  /\ closing = "no"
  /\ gates = <<>>
  /\ left = MaxAsked /\ asked = {} /\ cut = {}

Alive(id) == ses[id].proc = "running"

\* The manager lets the sessions of S go; their readers still have their sinks.
Release(S) ==
  /\ held' = held \ S
  /\ ses' = [id \in Ids |-> IF id \in S THEN [ses[id] EXCEPT !.owner = NoPage] ELSE ses[id]]

\* Bounds: a request is made so often, and not of a host that has shut down.
Spend(what) ==
  /\ left[what] > 0 /\ closing = "no"
  /\ left' = [left EXCEPT ![what] = @ - 1]

Asked(t, what) ==
  /\ task[t] = Idle
  /\ left["all"] > 0 /\ left[what] > 0 /\ closing = "no"
  /\ left' = [left EXCEPT ![what] = @ - 1, !["all"] = @ - 1]

----------------------------------------------------------------------------
\* pty.open: counted, spawned, registered, its reader started, inserted and
\* answered, all of it under `opening`.

\* A mutant of OpenStarts: counted without the lock.
OpenStarts_Unlocked(t) ==
  /\ Asked(t, "open")
  /\ Cardinality(held) < MaxPtys
  /\ opening' = t
  /\ task' = [task EXCEPT ![t] = [at |-> "spawning"]]
  /\ UNCHANGED <<held, nextId, down, ses, table, sess, marked, reaper, closing, gates, asked, cut>>

OpenStarts(t) ==
  /\ Asked(t, "open")
  /\ opening = NoTask
  /\ Cardinality(held) < MaxPtys
  /\ opening' = t
  /\ task' = [task EXCEPT ![t] = [at |-> "spawning"]]
  /\ UNCHANGED <<held, nextId, down, ses, table, sess, marked, reaper, closing, gates, asked, cut>>

\* What `t` did ends, and with it its hold of `opening`.
OpenOver(t) ==
  /\ task' = [task EXCEPT ![t] = Idle]
  /\ opening' = NoTask

\* The spawn fails, or the manager shut down: the child, if any, is killed.
SpawnFails(t) ==
  /\ task[t].at = "spawning"
  /\ OpenOver(t)
  /\ UNCHANGED <<held, nextId, down, ses, table, sess, marked, reaper, closing, gates, history>>

Registers(t, page, n) ==
  LET id == nextId + 1 IN
  /\ task[t].at = "spawning"
  /\ ~down
  /\ nextId' = id
  /\ held' = held \cup {id}
  /\ ses' = [ses EXCEPT ![id] = [owner |-> page, name |-> n, sink |-> Parked,
                                 proc |-> "running", pumped |-> FALSE]]
  /\ task' = [task EXCEPT ![t] = [at |-> "registered", id |-> id]]
  /\ UNCHANGED <<down, table, sess, marked, opening, reaper, closing, gates, history>>

\* The reader thread cannot be spawned.
ReaderFails(t) ==
  /\ task[t].at = "registered"
  /\ Release({task[t].id})
  /\ OpenOver(t)
  /\ UNCHANGED <<nextId, down, table, sess, marked, reaper, closing, gates, history>>

\* Inserted, listed, and answered with its info or that it vanished.
Inserts(t) ==
  /\ task[t].at = "registered"
  /\ table' = table \cup {task[t].id}
  /\ OpenOver(t)
  /\ UNCHANGED <<held, nextId, down, ses, sess, marked, reaper, closing, gates, history>>

----------------------------------------------------------------------------
\* A process ends; later its reader sees the end, and tells the sink.

ProcessEnds(id) ==
  /\ Alive(id)
  /\ left["end"] > 0 /\ left' = [left EXCEPT !["end"] = @ - 1]
  /\ ses' = [ses EXCEPT ![id].proc = "over"]
  /\ UNCHANGED <<held, nextId, down, table, sess, marked, opening, task, reaper, closing, gates, asked, cut>>

\* A gate that is retired tells nobody; one not answered yet keeps the exit
\* for the answer, which `ended` makes it send.
PumpEnds(id) ==
  LET s == ses[id].sink IN
  /\ ses[id].proc = "over" /\ ~ses[id].pumped
  /\ ses' = [ses EXCEPT ![id].pumped = TRUE]
  /\ sess' = IF s = NoSink THEN sess ELSE [sess EXCEPT ![id].ended = TRUE]
  /\ gates' = IF s \in Gates /\ gates[s].answered /\ ~gates[s].retired
                THEN [gates EXCEPT ![s].told = TRUE] ELSE gates
  /\ UNCHANGED <<held, nextId, down, table, marked, opening, task, reaper, closing, history>>

----------------------------------------------------------------------------
\* Gates.

\* swap_gate on each session of S, whose current gates retire.
Retired(S) ==
  [g \in DOMAIN gates |->
     IF gates[g].id \in S /\ sess[gates[g].id].gate = g
       THEN [gates[g] EXCEPT !.retired = TRUE] ELSE gates[g]]

CurrentGates(S) == {sess[id].gate : id \in S} \ {NoGate}

\* pty.attach: looks the session up, then waits for its attach lock.
AttachFinds(t, id) ==
  /\ Asked(t, "attach")
  /\ id \in table
  /\ task' = [task EXCEPT ![t] = [at |-> "found", id |-> id]]
  /\ UNCHANGED <<held, nextId, down, ses, table, sess, marked, opening, reaper, closing, gates, asked, cut>>

AttachGates(t) ==
  LET id == task[t].id
      g == Len(gates) + 1 IN
  /\ task[t].at = "found"
  /\ sess[id].serial = NoTask
  /\ sess' = [sess EXCEPT ![id].serial = t, ![id].gate = g]
  /\ gates' = Append(Retired({id}), [id |-> id, retired |-> FALSE, answered |-> FALSE, told |-> FALSE])
  /\ task' = [task EXCEPT ![t] = [at |-> "gated", id |-> id, gate |-> g, old |-> sess[id].gate]]
  /\ UNCHANGED <<held, nextId, down, ses, table, marked, opening, reaper, closing, history>>

\* A mutant of AttachRefused: the attach lock stays taken.
AttachRefused_KeepsTheLock(t) ==
  /\ task[t].at = "gated"
  /\ task[t].id \notin held
  /\ cut' = cut \cup ({task[t].old} \ {NoGate})
  /\ task' = [task EXCEPT ![t] = Idle]
  /\ UNCHANGED <<held, nextId, down, ses, table, sess, marked, opening, reaper, closing, gates, left, asked>>

\* The session was closed: answered not_found, its old gate already retired.
AttachRefused(t) ==
  LET id == task[t].id IN
  /\ task[t].at = "gated"
  /\ id \notin held
  /\ sess' = [sess EXCEPT ![id].serial = NoTask]
  /\ cut' = cut \cup ({task[t].old} \ {NoGate})
  /\ task' = [task EXCEPT ![t] = Idle]
  /\ UNCHANGED <<held, nextId, down, ses, table, marked, opening, reaper, closing, gates, left, asked>>

\* The sink is swapped; a reader that is done owes the new one its exit.
SinkSwapped(id, s) ==
  /\ ses' = [ses EXCEPT ![id].sink = s]
  /\ sess' = [sess EXCEPT ![id].ended = @ \/ ses[id].pumped]

AttachSwaps(t) ==
  LET id == task[t].id IN
  /\ task[t].at = "gated"
  /\ id \in held
  /\ SinkSwapped(id, task[t].gate)
  /\ task' = [task EXCEPT ![t].at = "swapped"]
  /\ UNCHANGED <<held, nextId, down, table, marked, opening, reaper, closing, gates, history>>

\* A mutant of AttachAnswers: only what the gate itself was given is sent.
AttachAnswers_ForgetsTheEnd(t) ==
  LET id == task[t].id IN
  /\ task[t].at = "swapped"
  /\ sess' = [sess EXCEPT ![id].route = task[t].gate, ![id].serial = NoTask]
  /\ gates' = [gates EXCEPT ![task[t].gate].answered = TRUE]
  /\ task' = [task EXCEPT ![t] = Idle]
  /\ UNCHANGED <<held, nextId, down, ses, table, marked, opening, reaper, closing, history>>

AttachAnswers(t) ==
  LET id == task[t].id
      dead == sess[id].maybeLost /\ id \in held /\ ~Alive(id) IN
  /\ task[t].at = "swapped"
  /\ sess' = [sess EXCEPT ![id].route = task[t].gate, ![id].serial = NoTask]
  /\ gates' = [gates EXCEPT ![task[t].gate].answered = TRUE,
                            ![task[t].gate].told = sess[id].ended \/ dead]
  /\ task' = [task EXCEPT ![t] = Idle]
  /\ UNCHANGED <<held, nextId, down, ses, table, marked, opening, reaper, closing, history>>

\* The session's receiver becomes a parked sink: pty.detach, or the teardown of
\* the receiver's connection.
Park(id) ==
  /\ sess[id].serial = NoTask
  /\ id \in table
  /\ sess[id].route # NoGate
  /\ Spend("park")
  /\ gates' = Retired({id})
  /\ ses' = IF id \in held THEN [ses EXCEPT ![id].sink = Parked] ELSE ses
  /\ sess' = [sess EXCEPT ![id].route = NoGate, ![id].gate = NoGate,
                          ![id].ended = @ \/ (id \in held /\ ses[id].pumped)]
  /\ UNCHANGED <<held, nextId, down, table, marked, opening, task, reaper, closing, asked, cut>>

----------------------------------------------------------------------------
\* pty.close: the manager lets the session go, then the host does.

CloseKills(t, id) ==
  /\ Asked(t, "close")
  /\ id <= nextId
  /\ Release({id})
  /\ asked' = asked \cup ({id} \cap held)
  /\ task' = [task EXCEPT ![t] = [at |-> "killed", id |-> id]]
  /\ UNCHANGED <<nextId, down, table, sess, marked, opening, reaper, closing, gates, cut>>

CloseForgets(t) ==
  /\ task[t].at = "killed"
  /\ table' = table \ {task[t].id} /\ marked' = marked \ {task[t].id}
  /\ task' = [task EXCEPT ![t] = Idle]
  /\ UNCHANGED <<held, nextId, down, ses, sess, opening, reaper, closing, gates, history>>

----------------------------------------------------------------------------
\* pty.adopt: the sessions of other pages are re-tagged, those a newer one
\* replaces are closed, the table is brought in line with the manager, and
\* each adopted session is parked.

\* The sessions of S under whose name another of S is newer.
SupersededIn(S) ==
  {id \in S : /\ ses[id].name # NoName
              /\ \E newer \in S : newer > id /\ ses[newer].name = ses[id].name}

AdoptTags(t, page) ==
  LET others == {id \in held : ses[id].owner # page} IN
  /\ Asked(t, "adopt")
  /\ ses' = [id \in Ids |-> IF id \in others
                              THEN [ses[id] EXCEPT !.owner = page, !.sink = NoSink]
                              ELSE ses[id]]
  /\ cut' = cut \cup ({ses[id].sink : id \in others} \cap Gates)
  /\ task' = [task EXCEPT ![t] = [at |-> "tagged", old |-> SupersededIn(others),
                                  adopted |-> others \ SupersededIn(others)]]
  /\ UNCHANGED <<held, nextId, down, table, sess, marked, opening, reaper, closing, gates, asked>>

AdoptCloses(t) ==
  /\ task[t].at = "tagged"
  /\ task[t].old # {}
  /\ Release({Min(task[t].old)})
  /\ task' = [task EXCEPT ![t].old = @ \ {Min(@)}]
  /\ UNCHANGED <<nextId, down, table, sess, marked, opening, reaper, closing, gates, history>>

AdoptLists(t) ==
  /\ task[t].at = "tagged"
  /\ task[t].old = {}
  /\ task' = [task EXCEPT ![t] = [at |-> "listed", live |-> held, adopted |-> task[t].adopted]]
  /\ UNCHANGED <<held, nextId, down, ses, table, sess, marked, opening, reaper, closing, gates, history>>

Parking(S) == IF S = {} THEN Idle ELSE [at |-> "parking", adopted |-> S]

AdoptRetains(t) ==
  LET gone == table \ task[t].live IN
  /\ task[t].at = "listed"
  /\ table' = table \cap task[t].live /\ marked' = marked \cap task[t].live
  /\ gates' = Retired(gone)
  /\ sess' = [id \in Ids |-> IF id \in gone THEN [sess[id] EXCEPT !.gate = NoGate] ELSE sess[id]]
  /\ cut' = cut \cup CurrentGates(gone)
  /\ task' = [task EXCEPT ![t] = Parking(task[t].adopted)]
  /\ UNCHANGED <<held, nextId, down, ses, opening, reaper, closing, left, asked>>

AdoptParks(t) ==
  LET id == Min(task[t].adopted) IN
  /\ task[t].at = "parking"
  /\ \/ id \notin table /\ UNCHANGED <<ses, sess, gates>>
     \/ /\ id \in table
        /\ sess[id].serial = NoTask
        /\ gates' = Retired({id})
        /\ ses' = IF id \in held THEN [ses EXCEPT ![id].sink = Parked] ELSE ses
        /\ sess' = [sess EXCEPT ![id].route = NoGate, ![id].gate = NoGate, ![id].maybeLost = TRUE,
                                ![id].ended = @ \/ (id \in held /\ ses[id].pumped)]
  /\ task' = [task EXCEPT ![t] = Parking(@.adopted \ {id})]
  /\ UNCHANGED <<held, nextId, down, table, marked, opening, reaper, closing, history>>

----------------------------------------------------------------------------
\* reap: what ended is listed, then marked or expired, then closed.

ReapLists ==
  /\ reaper = Idle
  /\ Spend("reap")
  /\ reaper' = [at |-> "listed", dead |-> {id \in held : ~Alive(id)}]
  /\ UNCHANGED <<held, nextId, down, ses, table, sess, marked, opening, task, closing, gates, asked, cut>>

\* Of those marked by an earlier pass, some have been for long enough.
ReapMarks(expired) ==
  LET idle == {id \in table \cap reaper.dead : sess[id].route = NoGate} IN
  /\ reaper.at = "listed"
  /\ expired \subseteq idle \cap marked
  /\ marked' = idle
  /\ reaper' = IF expired = {} THEN Idle ELSE [at |-> "closing", todo |-> expired]
  /\ UNCHANGED <<held, nextId, down, ses, table, sess, opening, task, closing, gates, history>>

ReapKills(id) ==
  /\ reaper.at = "closing"
  /\ id \in reaper.todo
  /\ Release({id})
  /\ reaper' = [at |-> "killed", id |-> id, todo |-> reaper.todo \ {id}]
  /\ UNCHANGED <<nextId, down, table, sess, marked, opening, task, closing, gates, history>>

ReapForgets ==
  /\ reaper.at = "killed"
  /\ table' = table \ {reaper.id} /\ marked' = marked \ {reaper.id}
  /\ reaper' = IF reaper.todo = {} THEN Idle ELSE [at |-> "closing", todo |-> reaper.todo]
  /\ UNCHANGED <<held, nextId, down, ses, sess, opening, task, closing, gates, history>>

----------------------------------------------------------------------------
\* The host's close_all: its gates first, then the manager's latch and drain.

CloseAllDrains ==
  /\ closing = "no"
  /\ closing' = "drained"
  /\ table' = {} /\ marked' = {}
  /\ gates' = Retired(table)
  /\ sess' = [id \in Ids |-> IF id \in table THEN [sess[id] EXCEPT !.gate = NoGate] ELSE sess[id]]
  /\ UNCHANGED <<held, nextId, down, ses, opening, task, reaper, history>>

CloseAllLatches ==
  /\ closing = "drained"
  /\ closing' = "done"
  /\ down' = TRUE
  /\ Release(held)
  /\ UNCHANGED <<nextId, table, sess, marked, opening, task, reaper, gates, history>>

----------------------------------------------------------------------------
Opens(t) ==
  \/ OpenStarts(t) \/ SpawnFails(t) \/ ReaderFails(t) \/ Inserts(t)
  \/ \E page \in Pages, n \in Names : Registers(t, page, n)
Attaches(t) ==
  \/ \E id \in Ids : AttachFinds(t, id)
  \/ AttachGates(t) \/ AttachRefused(t) \/ AttachSwaps(t) \/ AttachAnswers(t)
Closes(t) == CloseForgets(t) \/ \E id \in Ids : CloseKills(t, id)
Adopts(t) ==
  \/ \E page \in Pages : AdoptTags(t, page)
  \/ AdoptCloses(t) \/ AdoptLists(t) \/ AdoptRetains(t) \/ AdoptParks(t)
Reaps ==
  \/ ReapLists \/ ReapForgets
  \/ \E expired \in SUBSET Ids : ReapMarks(expired)
  \/ \E id \in Ids : ReapKills(id)

TableNext ==
  \/ \E t \in Tasks : Opens(t) \/ Attaches(t) \/ Closes(t) \/ Adopts(t)
  \/ \E id \in Ids : ProcessEnds(id) \/ PumpEnds(id) \/ Park(id)
  \/ Reaps \/ CloseAllDrains \/ CloseAllLatches

TableSpec == TableInit /\ [][TableNext]_allVars
----------------------------------------------------------------------------
\* Properties

\* The types of the state, and the locks: `opening` and a session's attach lock
\* are held by a task that is at work under them (host/pty.rs:415, :458).
TableTypeOK ==
  /\ held \subseteq 1 .. nextId /\ table \subseteq 1 .. nextId
  /\ nextId \in 0 .. MaxAsked["open"]
  /\ \A id \in Ids :
       /\ ses[id].proc \in {"unborn", "running", "over"}
       /\ ses[id].sink \in Gates \cup {Parked, NoSink}
       /\ sess[id].gate \in Gates \cup {NoGate} /\ sess[id].route \in Gates \cup {NoGate}
       /\ sess[id].serial # NoTask =>
            /\ task[sess[id].serial].at \in {"gated", "swapped"}
            /\ task[sess[id].serial].id = id
  /\ \A t \in Tasks : task[t].at \in {"spawning", "registered"} <=> opening = t

Starting(id) == \E t \in Tasks : task[t].at = "registered" /\ task[t].id = id

\* The host's sessions, seen from the outside: SessionLife.
Life == INSTANCE SessionLife WITH
  life <- [id \in Ids |-> IF id > nextId THEN "unborn"
                          ELSE IF id \notin held THEN "closed"
                          ELSE IF Starting(id) THEN "starting" ELSE ses[id].proc],
  named <- [id \in Ids |-> ses[id].name]

\* However requests, adoptions, the reaper and the shutdown interleave, the host
\* keeps SessionLife's promises: max_ptys is never exceeded by two opens that
\* counted at once (host/pty.rs:415), nothing is registered after the shutdown's
\* drain (pty/lib.rs:257), a session that runs is closed only by a request or
\* for a newer one of its name (pty/lib.rs:503), the reaper closes none that runs.
ImplementsLife == Life!LifeSpec

\* A request is at work on session `id`'s sink or gate.
Settling(id) ==
  \E t \in Tasks :
    \/ task[t].at \in {"gated", "swapped"} /\ task[t].id = id
    \/ task[t].at \in {"tagged", "listed", "parking"} /\ id \in task[t].adopted

\* A session's receiver hears of its end: when its reader is done and no request
\* is moving it to another sink, the receiver has been sent pty.exit, whether the
\* process ended by itself, by a close or by the reaper, before or while the
\* attach ran (host/pty.rs:323).  Not those let go of by an adoption or a
\* shutdown, nor one whose gate an attach that was refused had retired already.
ReceiverHearsTheEnd ==
  \A id \in Ids :
    LET g == sess[id].route IN
    ses[id].pumped /\ g # NoGate /\ g \notin cut /\ ~Settling(id) /\ closing = "no"
      => gates[g].told

\* What an adopt drops from the host's table the manager closed: "Superseded
\* duplicates were closed by the manager" (host/pty.rs:551).
DroppedWereClosed ==
  [][\A t \in Tasks : AdoptRetains(t) => (table \ table') \cap held = {}]_allVars
=============================================================================
