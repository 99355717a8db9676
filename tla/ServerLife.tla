----------------------------- MODULE ServerLife -----------------------------
(***************************************************************************)
(* Santree-server processes over their endpoint: launched, serving the app *)
(* as long as it has connections or sessions, and ending when idle, when   *)
(* asked to or when killed (crates/server/src/lib.rs).  `run`, the accept  *)
(* loop, the endpoint's watch, each connection's admission and each        *)
(* pty.open run concurrently; they meet in Admissions, the host's tables   *)
(* and the closing flag.  What a host does of its own is HostTable's and   *)
(* HostSession's business: here a session is held from its insertion until *)
(* it is reaped, and a connection registered or not.                       *)
(***************************************************************************)
EXTENDS ServerEndpoint

CONSTANTS
  MaxConns,     \* bound: connections dialled
  MaxWaiting,   \* MAX_WAITING
  MaxChecks,    \* MAX_CHECKS
  Budgets       \* bounds: how many servers, connections, crashes and removals a behaviour
                \* has, and whether it is long enough for an idle window to pass

ASSUME LifeAssumption ==
  /\ MaxConns \in Nat /\ MaxWaiting \in Nat /\ MaxChecks \in Nat \ {0}
  /\ Budgets \subseteq [servers : 0 .. MaxServers, conns : 0 .. MaxConns, crashes : Nat, removals : Nat,
                  windows : BOOLEAN]

Conns == 1 .. MaxConns

VARIABLES
  main,     \* where `run` and `shut_down` are
  idle,     \* whether idle_since is set, the window perhaps over
  stop,     \* ServerExt::stop raised
  closing,  \* Admissions::closing
  down,     \* the host's close_all ran
  conn,     \* each connection: how far it is, and the socket it dialled
  opening,  \* connections whose pty.open is on the blocking pool
  held      \* sessions the hosts hold, each named by the connection that opened it

serverVars == <<endpointVars, main, idle, stop, closing, down, conn, opening, held>>

\* What is left of the bounds; and what was sampled and answered, for the properties alone.
VARIABLES
  left,
  known,  \* connections that had entered by the last look at the admissions
  told    \* sessions whose open was answered while its connection was there

serverHistory == <<left, known, told>>
allServerVars == <<serverVars, serverHistory>>

ServerInit ==
  /\ EndpointInit
  /\ main = [s \in Servers |-> "off"]
  /\ idle = [s \in Servers |-> "since"]
  /\ stop = {} /\ closing = {} /\ down = {}
  /\ conn = [c \in Conns |-> [at |-> "none", sock |-> NoFile]]
  /\ opening = {} /\ held = {} /\ told = {}
  /\ known = [s \in Servers |-> {}]
  /\ left \in Budgets

ServerOf(c) == IF conn[c].sock = NoFile THEN Nobody ELSE socks[conn[c].sock].by
At(s, where) == {c \in Conns : ServerOf(c) = s /\ conn[c].at \in where}

Waiting(s) == At(s, {"queued", "checked"})
Registered(s) == At(s, {"served"})
Admitted(s) == At(s, {"queued", "checked", "trusted", "served", "cut"})
Sessions(s) == {c \in held : ServerOf(c) = s}

Move(c, where) == conn' = [conn EXCEPT ![c].at = where]
\* Connections in the backlog of a socket that closes are reset.
Reset(dead) == conn' = [c \in Conns |->
  IF conn[c].at = "backlog" /\ conn[c].sock \in dead THEN [conn[c] EXCEPT !.at = "gone"] ELSE conn[c]]
Closed == {k \in DOMAIN socks : socks[k].live /\ ~socks'[k].live}

lifeOnly == <<main, idle, stop, closing, down>>
tables == <<opening, held, told>>

----------------------------------------------------------------------------
\* `serve`: a process is launched, and its endpoint's own steps.

Launches(s) ==
  /\ main[s] = "off" /\ \A before \in 1 .. s - 1 : main[before] # "off"
  /\ ep' = [ep EXCEPT ![s].at = "opens"]
  /\ main' = [main EXCEPT ![s] = "starting"]
  /\ left.servers > 0 /\ left' = [left EXCEPT !.servers = @ - 1]
  /\ UNCHANGED <<lockAt, locker, sockAt, socks, removals, idle, stop, closing, down, conn, tables, known>>

EndpointRuns(s) ==
  /\ EndpointStep(s)
  /\ main' = IF ep'[s].at = "gone" THEN [main EXCEPT ![s] = "gone"] ELSE main
  /\ Reset(Closed)
  /\ UNCHANGED <<idle, stop, closing, down, tables, known, left>>

\* watch_endpoint: another look, unless the server is closing.
LooksAgain(s) ==
  /\ s \notin closing
  /\ Looks(s)
  /\ UNCHANGED <<lifeOnly, conn, tables, known, left>>

\* An accept loop is spawned: the first, or the one of a socket bound again.  A watch
\* past its last await when it is aborted still gets here.
SpawnsLoop(s) ==
  /\ Accepts(s)
  /\ main' = IF main[s] = "starting" THEN [main EXCEPT ![s] = "admissions"] ELSE main
  /\ Reset(Closed)
  /\ UNCHANGED <<idle, stop, closing, down, tables, known, left>>

\* An aborted watch: the socket its last look bound is dropped.
LookDropped(s) ==
  /\ s \in closing /\ ep[s].at = "accepts"
  /\ GivesUp(s)
  /\ Reset(Closed)
  /\ UNCHANGED <<lifeOnly, tables, known, left>>

----------------------------------------------------------------------------
\* `run`: a look at the admissions, then at the sessions.  The clients the host counts
\* are among those admitted, and looking at them first finds nothing more.

Busy(s) ==
  /\ main' = [main EXCEPT ![s] = "waits"]
  /\ idle' = [idle EXCEPT ![s] = "no"]

Quiet(s, next) ==
  /\ main' = [main EXCEPT ![s] = next]
  /\ UNCHANGED idle

\* A mutant of CountsAdmissions: only the connections being served count.
CountsAdmissions_NotTheWaiting(s) ==
  /\ main[s] = "admissions"
  /\ \/ Registered(s) # {} /\ Busy(s)
     \/ Registered(s) = {} /\ Quiet(s, "sessions")
  /\ known' = [known EXCEPT ![s] = At(s, {"queued", "checked", "trusted", "served", "cut", "gone"})]
  /\ UNCHANGED <<endpointVars, stop, closing, down, conn, tables, left>>

CountsAdmissions(s) ==
  /\ main[s] = "admissions"
  /\ \/ Admitted(s) # {} /\ Busy(s)
     \/ Admitted(s) = {} /\ Quiet(s, "sessions")
  /\ known' = [known EXCEPT ![s] = At(s, {"queued", "checked", "trusted", "served", "cut", "gone"})]
  /\ UNCHANGED <<endpointVars, stop, closing, down, conn, tables, left>>

\* A mutant of CountsSessions: the window starts over at every look.
CountsSessions_StartsOver(s) ==
  /\ main[s] = "sessions"
  /\ \/ Sessions(s) # {} /\ Busy(s)
     \/ Sessions(s) = {} /\ main' = [main EXCEPT ![s] = "waits"] /\ idle' = [idle EXCEPT ![s] = "since"]
  /\ UNCHANGED <<endpointVars, stop, closing, down, conn, tables, known, left>>

CountsSessions(s) ==
  /\ main[s] = "sessions"
  /\ \/ Sessions(s) # {} /\ Busy(s)
     \/ Sessions(s) = {} /\ idle[s] = "over" /\ Quiet(s, "retired")
     \/ /\ Sessions(s) = {} /\ idle[s] # "over"
        /\ main' = [main EXCEPT ![s] = "waits"]
        /\ idle' = [idle EXCEPT ![s] = "since"]
  /\ UNCHANGED <<endpointVars, stop, closing, down, conn, tables, known, left>>

\* Idle::grace, or Idle::initial, has passed.
WindowPasses(s) ==
  /\ left.windows
  /\ idle[s] = "since" /\ main[s] \in {"admissions", "sessions", "waits"}
  /\ idle' = [idle EXCEPT ![s] = "over"]
  /\ UNCHANGED <<endpointVars, main, stop, closing, down, conn, tables, known, left>>

\* A change, or the tick.
Wakes(s) ==
  /\ main[s] = "waits"
  /\ main' = [main EXCEPT ![s] = "admissions"]
  /\ UNCHANGED <<endpointVars, idle, stop, closing, down, conn, tables, known, left>>

\* server.stop was answered, or a SIGTERM or SIGINT received.
Stopped(s) ==
  /\ main[s] = "waits"
  /\ main' = [main EXCEPT ![s] = "stopped"]
  /\ UNCHANGED <<endpointVars, idle, stop, closing, down, conn, tables, known, left>>

----------------------------------------------------------------------------
\* Nobody new is let in, every session is closed, the connections are drained.

Closes(s) ==
  /\ main[s] \in {"retired", "stopped"}
  /\ closing' = closing \cup {s}
  /\ main' = [main EXCEPT ![s] = "closing"]
  /\ socks' = Deafened({ep[s].loop})
  /\ ep' = [ep EXCEPT ![s].loop = NoFile]
  /\ Reset(Closed)
  /\ UNCHANGED <<lockAt, locker, sockAt, removals, idle, stop, down, tables, known, left>>

ClosesAll(s) ==
  /\ main[s] = "closing"
  /\ down' = down \cup {s}
  /\ held' = held \ Sessions(s)
  /\ main' = [main EXCEPT ![s] = "drains"]
  /\ UNCHANGED <<endpointVars, idle, stop, closing, conn, opening, told, known, left>>

\* disconnect_all, each round.
Sweeps(s) ==
  /\ main[s] = "drains" /\ Registered(s) # {}
  /\ conn' = [c \in Conns |-> IF c \in Registered(s) THEN [conn[c] EXCEPT !.at = "cut"] ELSE conn[c]]
  /\ UNCHANGED <<endpointVars, lifeOnly, tables, known, left>>

\* A mutant of DrainEnds: no deadline.
DrainEnds_Never(s) == FALSE

DrainEnds(s) ==
  /\ main[s] = "drains"
  /\ main' = [main EXCEPT ![s] = "late"]
  /\ UNCHANGED <<endpointVars, idle, stop, closing, down, conn, tables, known, left>>

\* The process is over: its connections are reset, what was being opened is not.
Vanishes(s) ==
  /\ ProcessEnds(s)
  /\ main' = [main EXCEPT ![s] = "gone"]
  /\ conn' = [c \in Conns |-> IF ServerOf(c) = s THEN [conn[c] EXCEPT !.at = "gone"] ELSE conn[c]]
  /\ opening' = {c \in opening : ServerOf(c) # s}
  /\ UNCHANGED <<idle, stop, closing, down, told, known>>

Exits(s) ==
  /\ \/ main[s] = "late"
     \/ main[s] = "drains" /\ Admitted(s) = {}
  /\ Vanishes(s)
  /\ UNCHANGED <<held, left>>

\* Killed: the terminals close with the process.
Crashes(s) ==
  /\ main[s] \notin {"off", "gone"}
  /\ Vanishes(s)
  /\ held' = held \ Sessions(s)
  /\ left.crashes > 0 /\ left' = [left EXCEPT !.crashes = @ - 1]

----------------------------------------------------------------------------
\* A connection: dialled, accepted, its peer checked, served, over.

Dials(c) ==
  /\ conn[c].at = "none" /\ \A before \in 1 .. c - 1 : conn[before].at # "none"
  /\ sockAt # NoFile /\ socks[sockAt].live
  /\ conn' = [conn EXCEPT ![c] = [at |-> "backlog", sock |-> sockAt]]
  /\ left.conns > 0 /\ left' = [left EXCEPT !.conns = @ - 1]
  /\ UNCHANGED <<endpointVars, lifeOnly, tables, known>>

AcceptOne(c) ==
  LET s == ServerOf(c) IN
  /\ conn[c].at = "backlog" /\ ep[s].loop = conn[c].sock
  /\ \/ Cardinality(Waiting(s)) < MaxWaiting /\ Move(c, "queued")
     \/ Cardinality(Waiting(s)) >= MaxWaiting /\ Move(c, "gone")
  /\ UNCHANGED <<endpointVars, lifeOnly, tables, known, left>>

CheckBegins(c) ==
  /\ conn[c].at = "queued"
  /\ Cardinality(At(ServerOf(c), {"checked"})) < MaxChecks
  /\ Move(c, "checked")
  /\ UNCHANGED <<endpointVars, lifeOnly, tables, known, left>>

\* Trusted, unless it is not, or the server is closing by then.
Verdict(c) ==
  /\ conn[c].at = "checked"
  /\ \/ ServerOf(c) \notin closing /\ Move(c, "trusted")
     \/ Move(c, "gone")
  /\ UNCHANGED <<endpointVars, lifeOnly, tables, known, left>>

\* serve_conn: hello, and a place in the host's table.
Registers(c) ==
  /\ conn[c].at = "trusted"
  /\ Move(c, "served")
  /\ UNCHANGED <<endpointVars, lifeOnly, tables, known, left>>

\* It hangs up, or is through with its last write.
Leaves(c) ==
  /\ \/ conn[c].at \in {"backlog", "trusted", "cut"} /\ Move(c, "gone")
     \/ conn[c].at = "served" /\ Move(c, "cut")
  /\ UNCHANGED <<endpointVars, lifeOnly, tables, known, left>>

AsksStop(c) ==
  /\ conn[c].at = "served"
  /\ stop' = stop \cup {ServerOf(c)}
  /\ UNCHANGED <<endpointVars, main, idle, closing, down, conn, tables, known, left>>

\* pty.open, on the blocking pool, where it stays if its connection ends.
AsksOpen(c) ==
  /\ conn[c].at = "served" /\ c \notin opening \cup held
  /\ opening' = opening \cup {c}
  /\ UNCHANGED <<endpointVars, lifeOnly, conn, held, told, known, left>>

\* A mutant of OpenAnswered: the manager has no latch.
OpenAnswered_NoLatch(c) ==
  /\ c \in opening
  /\ opening' = opening \ {c}
  /\ held' = held \cup {c}
  /\ told' = IF conn[c].at = "served" THEN told \cup {c} ELSE told \ {c}
  /\ UNCHANGED <<endpointVars, lifeOnly, conn, known, left>>

OpenAnswered(c) ==
  /\ c \in opening
  /\ opening' = opening \ {c}
  /\ held' = IF ServerOf(c) \in down THEN held ELSE held \cup {c}
  /\ told' = IF conn[c].at = "served" THEN told \cup {c} ELSE told \ {c}
  /\ UNCHANGED <<endpointVars, lifeOnly, conn, known, left>>

\* A session is closed, or ended and reaped.
SessionOver(c) ==
  /\ c \in held
  /\ held' = held \ {c}
  /\ UNCHANGED <<endpointVars, lifeOnly, conn, opening, told, known, left>>

Removed ==
  /\ Removes
  /\ left.removals > 0 /\ left' = [left EXCEPT !.removals = @ - 1]
  /\ UNCHANGED <<lifeOnly, conn, tables, known>>

----------------------------------------------------------------------------

\* What `s` does of its own accord, driven by its timers.
Serves(s) ==
  \/ EndpointRuns(s) \/ LooksAgain(s) \/ SpawnsLoop(s) \/ LookDropped(s)

Runs(s) ==
  \/ CountsAdmissions(s) \/ CountsSessions(s) \/ Wakes(s)
  \/ Closes(s) \/ ClosesAll(s) \/ Exits(s)

ServerNext ==
  \/ \E s \in Servers :
       \/ Launches(s) \/ Serves(s) \/ Runs(s) \/ WindowPasses(s)
       \/ Stopped(s) \/ Sweeps(s) \/ DrainEnds(s) \/ Crashes(s)
  \/ \E c \in Conns :
       \/ Dials(c) \/ AcceptOne(c) \/ CheckBegins(c) \/ Verdict(c) \/ Registers(c)
       \/ Leaves(c) \/ AsksStop(c) \/ AsksOpen(c) \/ OpenAnswered(c) \/ SessionOver(c)
  \/ Removed

\* The process is scheduled and its timers fire.  No client, no peer check and no
\* session need ever get on.
ServerFairness ==
  \A s \in Servers :
    /\ WF_allServerVars(Serves(s)) /\ WF_allServerVars(Runs(s))
    /\ WF_allServerVars(WindowPasses(s)) /\ SF_allServerVars(s \in stop /\ Stopped(s))
    /\ WF_allServerVars(DrainEnds(s))

ServerSpec == ServerInit /\ [][ServerNext]_allServerVars /\ ServerFairness

----------------------------------------------------------------------------

\* While nobody removes the lock file, one server at most is past its lock, whichever
\* others are launched, exit or crash, and its lock is the file a next one will open; while
\* nobody removes anything, the socket at the path is the one it accepts on, and the one
\* it recorded (endpoint.rs take_lock, bind; lib.rs: the socket file is never unlinked).
OneServerPerEndpoint ==
  \A s \in Servers : ep[s].lockId # NoFile /\ ~removals.lock =>
    /\ ep[s].lockId = lockAt
    /\ \A other \in Servers \ {s} : ep[other].lockId = NoFile
    /\ ep[s].up /\ s \notin closing /\ removals.n = 0 => sockAt = ep[s].loop /\ sockAt = ep[s].sockId

\* A server retires over no connection that had entered when it last looked, whether its
\* peer was still being checked or not, and over no session such a connection was told of
\* (lib.rs `run`: the admissions are looked at before the sessions).
RetiresOverNobodyKnown ==
  \A s \in Servers : main[s] = "retired" =>
    /\ known[s] \cap Admitted(s) = {}
    /\ known[s] \cap told \cap held = {}

\* No session outlives its server's exit, not even one whose open was on the blocking
\* pool, or whose connection was let in, as it began to close (lib.rs `shut_down`).
NoOrphans ==
  \A s \in Servers : main[s] = "gone" => Sessions(s) = {}

\* A server asked to stop ends, even while a peer check hangs (lib.rs DRAIN).
StopEnds ==
  \A s \in Servers : s \in stop \/ main[s] = "stopped" ~> main[s] = "gone"

\* No server stays up with nobody connected and nothing held (lib.rs Idle).
IdleServersRetire ==
  left.windows => \A s \in Servers : []<>(Admitted(s) # {} \/ Sessions(s) # {} \/ main[s] \in {"off", "gone"})

Alone(s) == ep[s].up /\ \A other \in Servers \ {s} : ep[other].at \in {"off", "gone"}
Reachable(s) == sockAt # NoFile /\ sockAt = ep[s].loop
\* It recorded a socket another server had put at the path meanwhile.
Misread(s) == ep[s].sockId # ep[s].loop

\* Whatever was removed, and whichever server took the endpoint meanwhile, the one server
\* left is found at the path again, and stays so (endpoint.rs check, keep_lock, rebind).
EndpointSettles ==
  \A s \in Servers : <>[]Alone(s) => <>[](Reachable(s) \/ Misread(s))
=============================================================================
