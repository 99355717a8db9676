----------------------------- MODULE Supervisor -----------------------------
(***************************************************************************)
(* The app's hold on its local servers (src-tauri/src/server/supervisor.rs *)
(* and lock.rs, over RemoteHost's status, crates/remote/src/host.rs): the  *)
(* current one, which it launches, judges, stops on request and relaunches *)
(* when it dies, within a crash budget; and one of an older revision, kept *)
(* while it holds sessions.  A bring-up, a stop or a restart holds `gate`; *)
(* the monitor, the watch of the older server and spawned recoveries run   *)
(* beside it and meet it in the phase, the link's status and the lock.     *)
(* The app quitting (`release`) and a squatter on a socket are left out.   *)
(***************************************************************************)
EXTENDS Naturals, Sequences

CONSTANTS
  CrashLimit,   \* CRASH_LIMIT, in one CRASH_WINDOW
  Budgets       \* bounds: which servers run at first, what users ask and what goes wrong, how often

Does == {"start", "restart", "stop", "end", "crash", "drop", "unsocket", "flaky", "open", "fail", "other", "unlock"}

ASSUME SupervisorAssumption ==
  /\ CrashLimit \in Nat
  /\ \A b \in Budgets : DOMAIN b = Does \cup {"cur", "old"} /\ {b.cur, b.old} \subseteq BOOLEAN
                        /\ \A what \in Does : b[what] \in Nat

Slots == {"cur", "old"}

VARIABLES
  proc,       \* each slot's server process: gone, starting, locked, serving or closing
  reach,      \* whether its socket is at its path
  holds,      \* whether it holds sessions that run
  filed,      \* whether the lock file at its path is the one its process holds
  stray,      \* a server whose lock file was removed was launched over, and waits for the lock
  unmet,      \* for the properties: another process launched it, no link to it was taken up yet
  host,       \* each RemoteHost: its status, and whether the link it thinks it has is up
  unseen,     \* slots with a status change the monitor (cur) or the watch (old) has yet to look at
  news,       \* a Reconnected announcement waits for the monitor
  endpoint,   \* what is known of each slot's endpoint
  misled,     \* for the properties: a live server, its lock file removed, was taken for gone
  phase,
  op,         \* who holds the gate, where it is, and whether it launched the process
  wants,      \* requests that wait for the gate, first come first served
  disc,       \* how far discover_legacy is
  discovered,
  mon,        \* the monitor: on or not, where it is, and whether the link of its call is up
  recovering, \* a spawned recovery has yet to run
  crashes,    \* CrashBudget, the crashes of the window
  drain,      \* the older server: draining or not, sessions known or not, its watch
  ending      \* how far end_draining is

files == <<filed, stray>>
process == <<proc, reach, holds, unmet, files>>
looks == <<endpoint, misled>>
link == <<host, unseen, news>>
gate == <<op, wants>>
legacy == <<disc, discovered, drain, ending>>
supVars == <<process, link, looks, phase, gate, legacy, mon, recovering, crashes>>

\* For the properties alone.
VARIABLES
  left,    \* what is left of the budget
  intent,  \* what the user last asked for, or the budget decided: "run", "stopped", "failing"
  astray,  \* since somebody last judged the link, the monitor let a NotRunning pass, or said Running
           \* of a host that was stopped meanwhile
  wronged  \* panes of a live server were told that it is gone: by whom

supHistory == <<left, intent, astray, wronged>>
allSupVars == <<supVars, supHistory>>

Idle == [who |-> "none", at |-> "free", mine |-> FALSE]
NoLink(st) == [st |-> st, up |-> FALSE]

\* The app starts and calls `ensure`, the user perhaps sooner `stop`; servers of its former run may be there.
SupervisorInit ==
  /\ left \in Budgets
  /\ proc = [s \in Slots |-> IF left[s] THEN "serving" ELSE "gone"]
  /\ reach = [s \in Slots |-> left[s]]
  /\ holds = [s \in Slots |-> left[s]]
  /\ host = [s \in Slots |-> NoLink("Stopped")]
  /\ unseen = {} /\ news = FALSE
  /\ endpoint = [s \in Slots |-> "Unknown"]
  /\ phase = "Starting"
  /\ op = Idle /\ wants \in {<<"ensure">>} \cup (IF left["stop"] > 0 THEN {<<"stop", "ensure">>} ELSE {})
  /\ disc = "no" /\ discovered = FALSE
  /\ mon = [at |-> "off", up |-> FALSE]
  /\ recovering = FALSE /\ crashes = 0
  /\ drain = [in |-> FALSE, known |-> FALSE, watch |-> FALSE]
  /\ ending = "no"
  /\ intent = "run" /\ astray = FALSE /\ wronged = {} /\ unmet = FALSE
  /\ filed = [s \in Slots |-> TRUE] /\ stray = FALSE /\ misled = FALSE

Spend(what) == left[what] > 0 /\ left' = [left EXCEPT ![what] = @ - 1]

Status(s) == host[s].st
\* RemoteHost::client: set together with the status.
Client(s) == Status(s) = "Connected"
\* flock: held from before the socket is bound until the process is gone.
Lives(s) == proc[s] \in {"locked", "serving", "closing"}
\* What probe_lock reads at the path: Free too when the file it names is none that a server holds.
LockHeld(s) == Lives(s) /\ filed[s]
\* A live server that a look at the lock does not find.
Hidden(s) == Lives(s) /\ ~filed[s]
Answers(s) == proc[s] = "serving" /\ reach[s]
Down == {"NotRunning", "Failed", "Slow"}

\* Inner::set_status: published when it changed.
Publish(s, st) ==
  /\ host' = [host EXCEPT ![s] = [st |-> st, up |-> st = "Connected"]]
  /\ unseen' = IF st = Status(s) THEN unseen ELSE unseen \cup {s}
  /\ mon' = IF s = "cur" THEN [mon EXCEPT !.up = FALSE] ELSE mon

-----------------------------------------------------------------------------
\* Server processes, sessions and links: what ServerLife and ServerEndpoint are about, in short.

Loses(s, change) ==
  /\ proc' = [proc EXCEPT ![s] = change]
  /\ host' = [host EXCEPT ![s].up = FALSE]
  /\ mon' = IF s = "cur" THEN [mon EXCEPT !.up = FALSE] ELSE mon

ServerComesUp ==
  /\ \/ /\ proc["cur"] = "starting" /\ proc' = [proc EXCEPT !["cur"] = "locked"]
        /\ filed' = [filed EXCEPT !["cur"] = TRUE] /\ UNCHANGED reach
     \/ /\ proc["cur"] = "locked" /\ proc' = [proc EXCEPT !["cur"] = "serving"]
        /\ reach' = [reach EXCEPT !["cur"] = TRUE] /\ UNCHANGED filed
  /\ UNCHANGED <<holds, unmet, stray, link, looks, phase, gate, legacy, mon, recovering, crashes, supHistory>>

\* Somebody else launches a server of this revision.
OtherLaunches ==
  /\ proc["cur"] = "gone" /\ Spend("other")
  /\ proc' = [proc EXCEPT !["cur"] = "starting"]
  /\ unmet' = TRUE
  /\ UNCHANGED <<reach, holds, files, link, looks, phase, gate, legacy, mon, recovering, crashes, intent, astray, wronged>>

Exits(s) ==
  /\ Loses(s, "gone")
  /\ holds' = [holds EXCEPT ![s] = FALSE]
  /\ reach' = [reach EXCEPT ![s] = FALSE]
  /\ unmet' = (unmet /\ s # "cur")
  /\ UNCHANGED <<files, unseen, news, looks, phase, gate, legacy, recovering, crashes>>

Crashes(s) == proc[s] # "gone" /\ Spend("crash") /\ Exits(s) /\ UNCHANGED <<intent, astray, wronged>>
Closes(s) == proc[s] = "closing" /\ Exits(s) /\ UNCHANGED supHistory

Unsocketed(s) ==
  /\ reach[s] /\ Spend("unsocket")
  /\ reach' = [reach EXCEPT ![s] = FALSE]
  /\ UNCHANGED <<proc, holds, unmet, files, link, looks, phase, gate, legacy, mon, recovering, crashes, intent,
                 astray, wronged>>

\* Somebody removes a live server's lock file.
Unlocked(s) ==
  /\ LockHeld(s) /\ Spend("unlock")
  /\ filed' = [filed EXCEPT ![s] = FALSE]
  /\ UNCHANGED <<proc, reach, holds, unmet, stray, link, looks, phase, gate, legacy, mon, recovering, crashes,
                 intent, astray, wronged>>

\* The endpoint's own look (ServerEndpoint), if the server's revision has one: the lock, then the socket.
Relocks(s) ==
  /\ proc[s] = "serving" /\ ~filed[s]
  /\ filed' = [filed EXCEPT ![s] = TRUE]
  /\ UNCHANGED <<proc, reach, holds, unmet, stray, link, looks, phase, gate, legacy, mon, recovering, crashes,
                 supHistory>>

Rebinds(s) ==
  /\ proc[s] = "serving" /\ filed[s] /\ ~reach[s]
  /\ reach' = [reach EXCEPT ![s] = TRUE]
  /\ UNCHANGED <<proc, holds, unmet, files, link, looks, phase, gate, legacy, mon, recovering, crashes, supHistory>>

\* A server that was launched over looks again: the lock is free, as its successor is gone or has not
\* taken it yet (which then ends "occupied").  Its socket comes after it (Rebinds).
StrayReturns ==
  /\ stray /\ proc["cur"] \in {"gone", "starting"}
  /\ stray' = FALSE /\ filed' = [filed EXCEPT !["cur"] = TRUE]
  /\ proc' = [proc EXCEPT !["cur"] = "serving"] /\ unmet' = TRUE
  /\ \E h \in BOOLEAN : holds' = [holds EXCEPT !["cur"] = h]
  /\ UNCHANGED <<reach, link, looks, phase, gate, legacy, mon, recovering, crashes, supHistory>>

LinkDrops(s) ==
  /\ host[s].up /\ Spend("drop")
  /\ Loses(s, proc[s])
  /\ UNCHANGED <<reach, holds, unmet, files, unseen, news, looks, phase, gate, legacy, recovering, crashes, intent,
                 astray, wronged>>

\* A pane is opened: LocalHosts::current offers this server.
SessionOpens ==
  /\ phase = "Running" /\ host["cur"].up /\ Spend("open")
  /\ holds' = [holds EXCEPT !["cur"] = TRUE]
  /\ UNCHANGED <<proc, reach, unmet, files, link, looks, phase, gate, legacy, mon, recovering, crashes, intent,
                 astray, wronged>>

SessionsEnd(s) ==
  /\ holds[s]
  /\ holds' = [holds EXCEPT ![s] = FALSE]
  /\ UNCHANGED <<proc, reach, unmet, files, link, looks, phase, gate, legacy, mon, recovering, crashes, supHistory>>

\* run: serve returned, the live client goes, and the next attempt comes after the backoff.
LinkLost(s) ==
  /\ Client(s) /\ ~host[s].up
  /\ Publish(s, "Connecting")
  /\ UNCHANGED <<process, news, looks, phase, gate, legacy, recovering, crashes, supHistory>>

\* A call over a link that died fails at once: before the next attempt, a backoff later, and before what
\* waits for seconds runs out.
FailsPromptly == mon.at \in {"info", "keep"} => mon.up

\* run: an attempt ends.
Dials(s) ==
  /\ Status(s) \in {"Connecting"} \cup Down
  /\ s = "cur" => FailsPromptly
  /\ \/ /\ Answers(s)
        /\ Publish(s, "Connected")
        /\ news' = (news \/ s = "cur")
        /\ UNCHANGED left
     \/ /\ ~Answers(s)
        /\ Publish(s, "NotRunning") /\ UNCHANGED <<news, left>>
     \/ /\ Answers(s) /\ Spend("flaky")
        /\ \E st \in {"Failed", "Slow"} : Publish(s, st)
        /\ UNCHANGED news
  /\ UNCHANGED <<process, looks, phase, gate, legacy, recovering, crashes, intent, astray, wronged>>

\* configure(Some), configure(None).
Kick(s) == Publish(s, "Connecting")
Stop(s) == Publish(s, "Stopped")
KeepLink == UNCHANGED <<host, unseen, mon>>

\* terminals.lose_all: every pane of it is told its session is gone.
LoseAll(s, by) == wronged' = IF proc[s] # "gone" /\ holds[s] THEN wronged \cup {by} ELSE wronged

-----------------------------------------------------------------------------
\* Slot::observe_absent, over probe_lock; observe_present.

\* A mutant of Observed: a socket that is gone is a server that is gone.
Observed_BySocket(s) == IF Answers(s) THEN "Orphaned" ELSE "Dead"
Observed(s) == IF LockHeld(s) THEN "Orphaned" ELSE "Dead"
Absent(s) == endpoint' = [endpoint EXCEPT ![s] = Observed(s)] /\ misled' = (misled \/ Hidden(s))
Present(s) == endpoint' = [endpoint EXCEPT ![s] = "Unknown"] /\ UNCHANGED misled

-----------------------------------------------------------------------------
\* The gate: ensure, start, restart, stop and recover, one at a time.

GateFree == op = Idle /\ wants = <<>>

Asks(what) ==
  /\ Spend(what)
  /\ wants' = Append(wants, what)
  /\ UNCHANGED <<process, link, looks, phase, op, legacy, mon, recovering, crashes, intent, astray, wronged>>

\* healthy
Healthy == phase = "Running" /\ Client("cur")

\* bring_up_all, or bring_up alone: the current server's leg, and discover_legacy's beside it.
Begins(who, leg) ==
  /\ op' = [who |-> who, at |-> IF who # "recover" /\ Healthy THEN "joined" ELSE "kicks", mine |-> FALSE]
  /\ phase' = IF who # "recover" /\ Healthy THEN phase ELSE "Starting"
  /\ disc' = leg

TakesGate ==
  /\ op = Idle /\ wants # <<>>
  /\ wants' = Tail(wants)
  /\ LET who == Head(wants) IN
     \/ /\ who = "ensure" /\ phase = "Stopped"
        /\ UNCHANGED <<op, phase, disc, crashes, intent>>
     \/ /\ who = "start" \/ (who = "ensure" /\ phase # "Stopped")
        /\ Begins(who, "look")
        /\ crashes' = IF who = "start" THEN 0 ELSE crashes
        /\ intent' = IF who = "start" THEN "run" ELSE intent
     \/ /\ who \in {"restart", "stop"}
        /\ op' = [Idle EXCEPT !.who = who, !.at = IF who = "stop" THEN "checks" ELSE "stops"]
        /\ UNCHANGED <<phase, disc, crashes, intent>>
  /\ UNCHANGED <<process, link, looks, discovered, drain, ending, mon, recovering, left, astray, wronged>>

Goes(at) == op' = [op EXCEPT !.at = at]
\* The bring-up's leg is over; `phase` says how.
Joins(ph) == Goes("joined") /\ phase' = ph
Lets == op' = Idle

rest == <<process, wants, legacy, recovering>>

\* start_monitor, once, and the current host's kick.
Kicks ==
  /\ op.at = "kicks"
  /\ \/ Spend("fail") /\ Joins("Down") /\ KeepLink /\ UNCHANGED astray
     \/ /\ host' = [host EXCEPT !["cur"] = NoLink("Connecting")]
        /\ unseen' = IF Status("cur") = "Connecting" THEN unseen ELSE unseen \cup {"cur"}
        /\ mon' = [at |-> IF mon.at = "off" THEN "idle" ELSE mon.at, up |-> FALSE]
        /\ Goes("settles") /\ UNCHANGED <<phase, left>>
        /\ astray' = FALSE
  /\ UNCHANGED <<rest, news, looks, crashes, intent, wronged>>

\* down_for
DownFor ==
  /\ IF Status("cur") \in Down THEN KeepLink ELSE Stop("cur")
  /\ Joins("Down")

Settles ==
  /\ op.at = "settles" /\ Status("cur") # "Connecting"
  /\ \/ Status("cur") \in {"Connected", "Slow"} /\ Goes("verdict") /\ KeepLink /\ UNCHANGED <<looks, phase>>
     \/ /\ Status("cur") = "NotRunning" /\ Absent("cur")
        /\ IF LockHeld("cur") THEN Joins("Down") ELSE Goes("launches") /\ UNCHANGED phase
        /\ KeepLink
     \/ Status("cur") \in {"Failed", "Stopped"} /\ DownFor /\ UNCHANGED looks
  /\ UNCHANGED <<rest, news, crashes, left, intent, astray, wronged>>

LaunchesOne ==
  /\ proc' = [proc EXCEPT !["cur"] = "starting"]
  /\ op' = [op EXCEPT !.at = "starts", !.mine = TRUE]
  /\ UNCHANGED <<phase, left>>

\* A launch over a live server whose lock file is away: it keeps its sessions, and neither lock nor socket.
\* A link to it that came up since the last dial is taken to drop with that.
LaunchesOver ==
  /\ ~Answers("cur") /\ Hidden("cur") /\ LaunchesOne
  /\ stray' = (stray \/ proc["cur"] # "closing") /\ misled' = TRUE
  /\ holds' = [holds EXCEPT !["cur"] = FALSE] /\ reach' = [reach EXCEPT !["cur"] = FALSE]
  /\ host' = [host EXCEPT !["cur"].up = FALSE] /\ mon' = [mon EXCEPT !.up = FALSE]
  /\ UNCHANGED <<unmet, filed, unseen, endpoint>>

\* install_binary and spawn_server.  A server that answers by then is not ours to launch.
Launches ==
  /\ op.at = "launches"
  /\ \/ /\ \/ Answers("cur") /\ Goes("connects") /\ UNCHANGED <<proc, phase, left>> /\ KeepLink
           \/ ~Answers("cur") /\ proc["cur"] = "gone" /\ LaunchesOne /\ KeepLink
           \/ /\ ~Answers("cur") /\ proc["cur"] # "gone" /\ ~Hidden("cur")
              /\ Goes("starts") /\ KeepLink /\ UNCHANGED <<proc, phase, left>>
           \/ Spend("fail") /\ Stop("cur") /\ Joins("Down") /\ UNCHANGED proc
        /\ UNCHANGED <<reach, holds, unmet, files, looks>>
     \/ LaunchesOver
  /\ UNCHANGED <<news, wants, legacy, recovering, crashes, intent, astray, wronged>>

\* Spawned::start: ready, occupied by another's, exited, or killed when it took too long.
Starts ==
  /\ op.at = "starts"
  /\ \/ /\ IF op.mine THEN proc["cur"] = "serving" ELSE Lives("cur") /\ (reach["cur"] \/ filed["cur"])
        /\ Goes("connects") /\ KeepLink /\ UNCHANGED <<proc, phase, left>>
     \/ /\ proc["cur"] = "gone" \/ (~op.mine /\ Hidden("cur") /\ ~reach["cur"])
        /\ Stop("cur") /\ Joins("Down") /\ UNCHANGED <<proc, left>>
     \/ /\ op.mine /\ proc["cur"] \in {"starting", "locked"} /\ Spend("fail")
        /\ proc' = [proc EXCEPT !["cur"] = "gone"]
        /\ Stop("cur") /\ Joins("Down")
  /\ UNCHANGED <<reach, holds, unmet, files, news, wants, looks, legacy, recovering, crashes, intent, astray, wronged>>

Connects ==
  /\ op.at = "connects"
  /\ Present("cur") /\ Kick("cur") /\ Goes("settlesStarted")
  /\ astray' = FALSE
  /\ UNCHANGED <<rest, news, phase, crashes, left, intent, wronged>>

\* settle_started: a held lock is waited on, for as long as SETTLE.
SettlesStarted ==
  /\ op.at = "settlesStarted" /\ Status("cur") # "Connecting"
  /\ \/ Status("cur") \in {"Connected", "Slow"} /\ Goes("verdict") /\ KeepLink /\ UNCHANGED <<looks, phase>>
     \/ Status("cur") = "NotRunning" /\ Absent("cur") /\ Joins("Down") /\ KeepLink
     \/ Status("cur") \in {"Failed", "Stopped"} /\ DownFor /\ UNCHANGED looks
  /\ UNCHANGED <<rest, news, crashes, left, intent, astray, wronged>>

\* The monitor's verdict, or VERDICT_WAIT is over.
Verdict ==
  /\ op.at = "verdict"
  /\ \/ phase \in {"Running", "Stopped", "Down", "Failing"} /\ Joins(phase) /\ KeepLink /\ UNCHANGED astray
     \/ /\ phase = "Starting" /\ FailsPromptly
        /\ IF Client("cur") THEN Joins("Down") /\ KeepLink ELSE DownFor
        /\ astray' = FALSE
  /\ UNCHANGED <<rest, news, looks, crashes, left, intent, wronged>>

\* Both legs are over and old installs are pruned: the gate is free.
Finishes ==
  /\ op.at = "joined" /\ disc = "done"
  /\ Lets
  /\ disc' = "no"
  /\ discovered' = (discovered \/ op.who # "recover")
  /\ UNCHANGED <<process, link, looks, phase, wants, drain, ending, mon, recovering, crashes, supHistory>>

-----------------------------------------------------------------------------
\* stop and restart: stop_current, stop_and_confirm.

ChecksStop ==
  /\ op.at = "checks"
  /\ IF ~Client("cur") /\ LockHeld("cur") THEN Lets ELSE Goes("stops")
  /\ misled' = (misled \/ (~Client("cur") /\ Hidden("cur")))
  /\ UNCHANGED <<process, link, endpoint, phase, wants, legacy, mon, recovering, crashes, supHistory>>

\* What a stop or a restart goes on to: nothing of the server is left to stop, or (`asks`) there is no link
\* to ask over.  A stop tells the panes either way, also when the link was lost since ChecksStop and nobody
\* looked at the lock.
StoppedThen ==
  IF op.who = "stop"
  THEN /\ Lets /\ phase' = "Stopped" /\ Stop("cur") /\ intent' = "stopped"
       /\ LoseAll("cur", op.at)
       /\ UNCHANGED <<disc, crashes>>
  ELSE /\ Begins("restart", "look") /\ crashes' = 0 /\ intent' = "run" /\ KeepLink /\ UNCHANGED wronged

Stopping ==
  /\ op.at = "stops"
  /\ phase' = "Stopping" /\ Goes("asks")
  /\ UNCHANGED <<process, link, looks, wants, legacy, mon, recovering, crashes, supHistory>>

\* server.stop reaches a server whose link is up.
Told(s) == proc' = IF host[s].up /\ proc[s] = "serving" THEN [proc EXCEPT ![s] = "closing"] ELSE proc

AsksStop ==
  /\ op.at = "asks"
  /\ IF Client("cur")
     THEN /\ Told("cur") /\ Goes("quiet")
          /\ UNCHANGED <<link, phase, disc, mon, crashes, intent, wronged>>
     ELSE /\ StoppedThen /\ UNCHANGED <<proc, news>>
  /\ UNCHANGED <<reach, holds, unmet, files, looks, wants, discovered, drain, ending, recovering, left, astray>>

\* The link finds nothing to dial, or it does not in time.
Quiets ==
  /\ op.at = "quiet"
  /\ \/ Status("cur") \in {"NotRunning", "Stopped"} /\ Goes("frees") /\ UNCHANGED phase
     \/ Status("cur") \notin {"NotRunning", "Stopped"} /\ Lets /\ phase' = "Down"
  /\ UNCHANGED <<process, link, looks, wants, legacy, mon, recovering, crashes, supHistory>>

\* The lock is let go, or it is not in time.
Frees ==
  /\ op.at = "frees" /\ Absent("cur")
  /\ IF Observed("cur") = "Orphaned"
     THEN Lets /\ phase' = "Down" /\ KeepLink /\ UNCHANGED <<disc, crashes, intent, wronged>>
     ELSE StoppedThen
  /\ UNCHANGED <<process, news, wants, discovered, drain, ending, recovering, left, astray>>

-----------------------------------------------------------------------------
\* The monitor: on_connected, on_status, housekeeping, each run to its end.

\* on_connected up to the question, and its end.
LinkCameUp ==
  /\ mon.at = "idle" /\ news
  /\ news' = FALSE
  /\ IF Client("cur") THEN Present("cur") /\ mon' = [at |-> "info", up |-> host["cur"].up]
                      ELSE UNCHANGED <<looks, mon>>
  /\ unmet' = (unmet /\ ~host["cur"].up)
  /\ UNCHANGED <<proc, reach, holds, files, host, unseen, phase, gate, legacy, recovering, crashes, supHistory>>

InfoAnswered ==
  /\ mon.at = "info"
  /\ \/ mon.up /\ mon' = [mon EXCEPT !.at = "keep"] /\ UNCHANGED <<phase, left>>
     \/ ~mon.up /\ mon' = [mon EXCEPT !.at = "idle"] /\ UNCHANGED <<phase, left>>
     \/ Spend("flaky") /\ mon' = [mon EXCEPT !.at = "idle"] /\ phase' = "Down"
  /\ UNCHANGED <<process, link, looks, gate, legacy, recovering, crashes, intent, astray, wronged>>

\* Keep-awake was applied, or that failed.
JudgedRunning ==
  /\ mon.at = "keep"
  /\ mon' = [mon EXCEPT !.at = "idle"]
  /\ phase' = "Running"
  /\ astray' = (Status("cur") = "Stopped" \/ (astray /\ ~mon.up))
  /\ UNCHANGED <<process, link, looks, gate, legacy, recovering, crashes, left, intent, wronged>>

\* A mutant of TheirsToJudge: a bring-up is thought to be on it whenever the phase says Starting.
TheirsToJudge_Starting == phase # "Running" \/ ~GateFree
\* A stop on purpose, or whoever holds the gate.
TheirsToJudge == phase \in {"Stopping", "Stopped"} \/ ~GateFree

\* on_status, of the status it is by now.
StatusChanged ==
  /\ mon.at = "idle" /\ "cur" \in unseen
  /\ unseen' = unseen \ {"cur"}
  /\ \/ /\ Status("cur") = "NotRunning"
        /\ IF TheirsToJudge
           THEN UNCHANGED <<looks, phase, recovering>> /\ astray' = (astray \/ ~GateFree)
           ELSE /\ Absent("cur") /\ astray' = FALSE
                /\ IF Observed("cur") = "Orphaned" THEN phase' = "Down" /\ UNCHANGED recovering
                   ELSE recovering' = TRUE /\ UNCHANGED phase
     \/ /\ Status("cur") = "Connecting"
        /\ phase' = IF phase = "Running" THEN "Starting" ELSE phase
        /\ UNCHANGED <<looks, recovering, astray>>
     \/ /\ Status("cur") = "Failed"
        /\ phase' = IF phase = "Starting" /\ GateFree THEN "Down" ELSE phase
        /\ UNCHANGED <<looks, recovering, astray>>
     \/ Status("cur") \in {"Slow", "Connected", "Stopped"} /\ UNCHANGED <<phase, looks, recovering, astray>>
  /\ UNCHANGED <<process, host, news, gate, legacy, mon, crashes, left, intent, wronged>>

\* A mutant of StillGone: what brought recover here is believed.
StillGone_Believed == TRUE
\* What brought recover here may be old.
StillGone == phase \in {"Running", "Starting"} /\ Status("cur") = "NotRunning"

\* recover, a task of its own.  Crashes older than the window no longer count.
Recovers ==
  /\ recovering
  /\ recovering' = FALSE
  /\ IF ~GateFree \/ ~StillGone
     THEN /\ KeepLink /\ UNCHANGED <<op, phase, disc, crashes, intent>>
          /\ astray' = (astray \/ ~GateFree)
     ELSE \E recent \in 0 .. crashes :
          IF recent >= CrashLimit
          THEN Stop("cur") /\ phase' = "Failing" /\ intent' = "failing" /\ UNCHANGED <<op, disc, crashes, astray>>
          ELSE Begins("recover", "done") /\ crashes' = recent + 1 /\ KeepLink /\ UNCHANGED <<intent, astray>>
  /\ UNCHANGED <<process, news, wants, looks, discovered, drain, ending, left, wronged>>

\* housekeeping, its look at the lock; then calls that only refresh what is shown.
Houses ==
  /\ mon.at = "idle"
  /\ IF endpoint["cur"] = "Orphaned" /\ phase = "Down" THEN Absent("cur") ELSE UNCHANGED looks
  /\ mon' = [mon EXCEPT !.at = "house"]
  /\ UNCHANGED <<process, link, phase, gate, legacy, recovering, crashes, supHistory>>

-----------------------------------------------------------------------------
\* The older server: discover_legacy and adopt_legacy, its watch, refresh_draining, end_draining.

\* retire_draining, and letting go of a server that holds nothing.
LetGo == Stop("old") /\ drain' = [drain EXCEPT !.in = FALSE]
Retire == LetGo /\ LoseAll("old", "older")

\* legacy_sockets: a lock file, and a socket beside it or a process on it.
Found == filed["old"] /\ (reach["old"] \/ LockHeld("old"))

Discovers ==
  /\ disc = "look"
  /\ IF drain.in \/ ~Found
     THEN disc' = "done" /\ KeepLink
     ELSE disc' = "settling" /\ Kick("old")
  /\ misled' = (misled \/ (~drain.in /\ ~Found /\ Hidden("old")))
  /\ UNCHANGED <<process, news, endpoint, phase, gate, discovered, drain, ending, recovering, crashes, supHistory>>

\* Kept: its watch begins, and looks at the status it is.
Keep(known) ==
  /\ drain' = [in |-> TRUE, known |-> known, watch |-> TRUE]
  /\ unseen' = unseen \cup {"old"}
  /\ disc' = "done"
  /\ UNCHANGED <<host, mon>>

Adopts ==
  /\ disc = "settling" /\ Status("old") # "Connecting"
  /\ \/ Client("old") /\ disc' = "listing" /\ KeepLink /\ UNCHANGED <<drain, looks>>
     \/ /\ Status("old") = "NotRunning" /\ Absent("old")
        /\ IF Observed("old") = "Orphaned" THEN Keep(FALSE)
           ELSE Stop("old") /\ disc' = "done" /\ UNCHANGED drain
     \/ Status("old") \in {"Failed", "Slow"} /\ Keep(FALSE) /\ UNCHANGED looks
  /\ UNCHANGED <<process, news, phase, gate, discovered, ending, recovering, crashes, supHistory>>

\* held: server.info and the listing, over the client there is; only an answer lets it go.
Lists ==
  /\ disc = "listing"
  /\ IF Client("old") /\ host["old"].up
     THEN IF holds["old"] THEN Keep(TRUE) ELSE Stop("old") /\ disc' = "done" /\ UNCHANGED drain
     ELSE Keep(FALSE)
  /\ UNCHANGED <<process, news, looks, phase, gate, discovered, ending, recovering, crashes, supHistory>>

Watches ==
  /\ drain.watch /\ "old" \in unseen
  /\ \/ /\ Status("old") = "NotRunning" /\ Absent("old")
        /\ IF Observed("old") = "Orphaned"
           THEN /\ drain' = [drain EXCEPT !.known = FALSE]
                /\ unseen' = unseen \ {"old"} /\ UNCHANGED <<host, mon, wronged>>
           ELSE /\ LoseAll("old", "older") /\ drain' = [in |-> FALSE, known |-> FALSE, watch |-> FALSE]
                /\ host' = [host EXCEPT !["old"] = NoLink("Stopped")]
                /\ unseen' = unseen \ {"old"} /\ UNCHANGED mon
     \/ /\ Status("old") # "NotRunning"
        /\ drain' = [drain EXCEPT !.watch = Status("old") # "Stopped"]
        /\ unseen' = unseen \ {"old"}
        /\ UNCHANGED <<host, mon, looks, wronged>>
  /\ UNCHANGED <<process, news, phase, gate, disc, discovered, ending, recovering, crashes, left, intent, astray>>

\* refresh_draining, the end of the monitor's housekeeping: an answer, or none and its process gone (or
\* silent for UNRESOLVED_BOUND with nothing on its lock), or neither.
Refreshed(dr) ==
  /\ mon.at = "house" /\ mon' = [at |-> "idle", up |-> FALSE]
  /\ drain' = dr
  /\ IF drain.in /\ ~dr.in
     THEN /\ host' = [host EXCEPT !["old"] = NoLink("Stopped")]
          /\ unseen' = IF Status("old") = "Stopped" THEN unseen ELSE unseen \cup {"old"}
     ELSE UNCHANGED <<host, unseen>>
  /\ UNCHANGED <<process, news, phase, gate, disc, discovered, ending, recovering, crashes, left, intent, astray>>

RefreshAnswered ==
  /\ drain.in /\ Client("old") /\ host["old"].up
  /\ Present("old")
  /\ Refreshed([drain EXCEPT !.known = TRUE, !.in = holds["old"]])
  /\ UNCHANGED wronged

RefreshGone ==
  /\ drain.in /\ ~Client("old") /\ ~LockHeld("old")
  /\ IF Status("old") = "NotRunning" THEN Absent("old")
     ELSE /\ ~drain.known /\ endpoint["old"] # "Orphaned"
          /\ UNCHANGED endpoint /\ misled' = (misled \/ Hidden("old"))
  /\ Refreshed([drain EXCEPT !.in = FALSE])
  /\ LoseAll("old", "older")

RefreshNothing ==
  /\ IF drain.in /\ Status("old") = "NotRunning" THEN LockHeld("old") /\ Absent("old") ELSE UNCHANGED looks
  /\ Refreshed(drain)
  /\ UNCHANGED wronged

Refreshes == RefreshAnswered \/ RefreshGone \/ RefreshNothing

\* end_draining, behind a confirm: asked, gone from its socket, gone.
EndAsked ==
  /\ ending = "no" /\ drain.in /\ Client("old") /\ Spend("end")
  /\ IF host["old"].up THEN Told("old") /\ ending' = "quiet" ELSE UNCHANGED <<proc, ending>>
  /\ UNCHANGED <<reach, holds, unmet, files, link, looks, phase, gate, disc, discovered, drain, mon, recovering, crashes,
                 intent, astray, wronged>>

EndQuiets ==
  /\ ending = "quiet"
  /\ ending' = IF Status("old") \in {"NotRunning", "Stopped"} THEN "frees" ELSE "no"
  /\ UNCHANGED <<process, link, looks, phase, gate, disc, discovered, drain, mon, recovering, crashes, supHistory>>

EndFrees ==
  /\ ending = "frees" /\ Absent("old")
  /\ ending' = "no"
  /\ IF Observed("old") = "Dead" THEN Retire
     ELSE drain' = [drain EXCEPT !.known = FALSE] /\ KeepLink /\ UNCHANGED wronged
  /\ UNCHANGED <<process, news, phase, gate, disc, discovered, recovering, crashes, left, intent, astray>>

-----------------------------------------------------------------------------

GateWorks ==
  \/ TakesGate \/ Kicks \/ Settles \/ Launches \/ Starts \/ Connects \/ SettlesStarted \/ Verdict
  \/ ChecksStop \/ Stopping \/ AsksStop \/ Quiets \/ Frees
MonitorWorks == InfoAnswered \/ JudgedRunning \/ Refreshes
LegacyWorks == Discovers \/ Adopts \/ Lists
EndWorks == EndQuiets \/ EndFrees

SupervisorNext ==
  \/ GateWorks \/ Finishes \/ MonitorWorks \/ LinkCameUp \/ StatusChanged \/ Recovers \/ Houses
  \/ LegacyWorks \/ Watches \/ EndAsked \/ EndWorks
  \/ \E what \in {"start", "restart", "stop"} : Asks(what)
  \/ ServerComesUp \/ OtherLaunches \/ StrayReturns \/ SessionOpens
  \/ \E s \in Slots : Crashes(s) \/ Closes(s) \/ Unsocketed(s) \/ Unlocked(s) \/ Relocks(s) \/ Rebinds(s)
                      \/ LinkDrops(s) \/ SessionsEnd(s) \/ LinkLost(s) \/ Dials(s)

\* Tasks run, and hosts keep dialling; `select!` takes no branch that is ready for ever last.  A launched
\* server comes up or is killed, one that closes its sessions ends.
SupervisorFairness ==
  /\ WF_allSupVars(GateWorks) /\ WF_allSupVars(Finishes) /\ WF_allSupVars(MonitorWorks)
  /\ SF_allSupVars(LinkCameUp) /\ SF_allSupVars(StatusChanged) /\ WF_allSupVars(Recovers)
  /\ SF_allSupVars(Houses) /\ WF_allSupVars(LegacyWorks) /\ WF_allSupVars(Watches) /\ WF_allSupVars(EndWorks)
  /\ WF_allSupVars(ServerComesUp)
  /\ \A s \in Slots : WF_allSupVars(Closes(s)) /\ WF_allSupVars(LinkLost(s)) /\ SF_allSupVars(Dials(s))

SupervisorSpec == SupervisorInit /\ [][SupervisorNext]_allSupVars /\ SupervisorFairness

-----------------------------------------------------------------------------

\* LocalHosts::complete
Complete ==
  /\ \/ phase = "Running" /\ Client("cur")
     \/ phase \in {"Stopped", "Down", "Failing"} /\ endpoint["cur"] = "Dead"
  /\ drain.in => Client("old") \/ endpoint["old"] = "Dead"

\* Two servers the picture is not of: an older one before the first look for one; and one that another
\* process launched, until the monitor takes up a link to it.  `endpoint` may still say Dead of that one.
Known(s) == IF s = "old" THEN discovered ELSE ~unmet

\* While the app says its picture of what runs is complete, no server it has no link to holds a session;
\* and no pane is told that its session is gone while the server that holds it lives (supervisor.rs
\* observe_absent: or an agent running fine is resumed twice), except by a stop whose link died between
\* its two looks at it (`asks`).  Of a live server whose lock file was removed, and that was taken for gone
\* before it took the lock again, the lock says nothing (`misled`).
OverMeansGone ==
  ~misled =>
    /\ wronged \subseteq {"asks"}
    /\ Complete => \A s \in Slots : proc[s] # "gone" /\ holds[s] /\ Known(s) => Client(s)

\* Nothing launches the server again that the user stopped, or that the crash budget gave up on, before
\* somebody asks (supervisor.rs recover).
NothingStartsUnasked ==
  [][op.at # "kicks" /\ op'.at = "kicks" => intent' = "run"]_allSupVars

Truthful == phase \in {"Stopped", "Down", "Failing"} \/ (phase = "Running" /\ host["cur"].up)

\* A server that dies, or is lost, is found again, launched again or given up on, whatever else is asked
\* meanwhile: the app never stays with a phase that is not so.  Unless a NotRunning was let pass, for a
\* bring-up or a stop held the gate, and that one does not judge the link again (`astray`).
GoneIsAnswered == []<>(Truthful \/ astray)

\* supervisor.rs:10-12: "a server that dies is relaunched within a crash budget, never silently forever".
NeverSilentlyForever == []<>Truthful
=============================================================================
