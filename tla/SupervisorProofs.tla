--------------------------- MODULE SupervisorProofs ---------------------------
(***************************************************************************)
(* The supervisor takes no server that lives for one that is gone while    *)
(* their lock files are where they put them, but for a stop that lost its  *)
(* link on the way; and it starts none that nobody asked for: Supervisor's *)
(* OverMeansGone and NothingStartsUnasked, for any crash limit and any     *)
(* budget.  Both rest on one invariant, in four parts: LinkKept says when  *)
(* a link can be up, EndpointKept what a Dead endpoint still is worth,     *)
(* OlderKept what was found out about the older server, AskedKept how a    *)
(* stopped app rests.  The middle two speak until a removed lock file made *)
(* the app take a live server for gone (`misled`).                         *)
(***************************************************************************)
EXTENDS Supervisor, TLAPS

Statuses == {"Stopped", "Connecting", "Connected"} \cup Down
Procs == {"gone", "starting", "locked", "serving", "closing"}
Asked == {"ensure", "start", "restart", "stop"}
\* Where the gate's holder is when no bring-up is on its way.
Resting == {"free", "checks", "stops", "asks", "quiet", "frees"}
Bringing == {"kicks", "settles", "launches", "starts", "connects", "settlesStarted", "verdict", "joined"}

Phases == {"Starting", "Running", "Stopping", "Stopped", "Down", "Failing"}
Links == [Slots -> [st : Statuses, up : BOOLEAN]]
Endpoints == [Slots -> {"Unknown", "Dead", "Orphaned"}]
Flags == [Slots -> BOOLEAN]
Holders == [who : Asked \cup {"none", "recover"}, at : Resting \cup Bringing, mine : BOOLEAN]
Monitors == [at : {"off", "idle", "info", "keep", "house"}, up : BOOLEAN]
Drains == [in : BOOLEAN, known : BOOLEAN, watch : BOOLEAN]

Typed ==
  /\ proc \in [Slots -> Procs]
  /\ reach \in Flags
  /\ holds \in Flags
  /\ filed \in Flags
  /\ stray \in BOOLEAN
  /\ unmet \in BOOLEAN
  /\ host \in Links
  /\ endpoint \in Endpoints
  /\ misled \in BOOLEAN
  /\ phase \in Phases
  /\ op \in Holders
  /\ wants \in Seq(Asked)
  /\ disc \in {"no", "look", "settling", "listing", "done"}
  /\ discovered \in BOOLEAN
  /\ mon \in Monitors
  /\ drain \in Drains
  /\ intent \in {"run", "stopped", "failing"}

\* A link that is up leads to a process that serves, and so does the monitor's; while it waits for an
\* answer over a link that died, there is none newer.
LinkKept ==
  /\ \A s \in Slots : host[s].up => host[s].st = "Connected" /\ proc[s] \in {"serving", "closing"}
  /\ \A s \in Slots : proc[s] \in {"gone", "starting", "locked"} => ~holds[s]
  /\ proc["old"] \in {"gone", "serving", "closing"}
  /\ mon.up => host["cur"].up
  /\ mon.at \in {"info", "keep"} /\ ~mon.up => ~host["cur"].up

\* An endpoint seen Dead stays so until a process is launched, by this app or by another.  What a bring-up
\* launched can be taken for Dead until `connects`, and then the phase says that nothing is complete.
DeadMeansGone ==
  /\ wronged \subseteq {"asks"}
  /\ endpoint["old"] = "Dead" => proc["old"] = "gone"
  /\ endpoint["cur"] = "Dead" =>
       /\ ~mon.up
       /\ proc["cur"] = "gone" \/ unmet \/ op.at = "connects" \/ (op.at = "starts" /\ op.mine)
       /\ holds["cur"] => /\ mon.at \notin {"info", "keep"}
                          /\ unmet \/ phase \notin {"Stopped", "Down", "Failing"}

EndpointKept ==
  /\ stray => misled
  /\ proc["cur"] = "starting" => unmet \/ (op.at = "starts" /\ op.mine)
  /\ misled \/ DeadMeansGone

\* The older server is kept while it holds sessions, from the first look on.
OlderIsOver == proc["old"] = "gone" \/ ~holds["old"]
OlderKept ==
  /\ ~misled /\ discovered /\ ~drain.in => OlderIsOver
  /\ ~misled /\ disc = "done" /\ op.who # "recover" /\ ~drain.in => OlderIsOver
  /\ op.at \in Resting => disc = "no"

\* An app that was stopped, or gave up, has no link and no bring-up under way, and the first `ensure` finds
\* it stopped.
AskedKept ==
  /\ op.who = "none" \/ op.at = "free" => op = Idle
  /\ intent # "run" => host["cur"].st = "Stopped" /\ op.at \in Resting
  /\ \A i \in DOMAIN wants : wants[i] = "ensure" =>
       /\ mon.at = "off" /\ op.at \in Resting /\ op.who \in {"none", "stop"}
       /\ i = 1 \/ (i = 2 /\ wants[1] = "stop" /\ op = Idle /\ intent = "run")
       /\ intent = "run" \/ (phase = "Stopped" /\ op = Idle)

SupInv == Typed /\ LinkKept /\ EndpointKept /\ OlderKept /\ AskedKept

\* What the actions make of the state's records and functions is of their kind.
LEMMA Publishes ==
  ASSUME Typed, NEW s \in Slots, NEW st \in Statuses, Publish(s, st)
  PROVE  host' \in Links /\ mon' \in Monitors
  BY DEF Typed, Links, Monitors, Publish

\* A process that ends, or a link that drops.
LEMMA LosesLink ==
  ASSUME Typed, NEW s \in Slots, NEW p \in Procs, Loses(s, p)
  PROVE  proc' \in [Slots -> Procs] /\ host' \in Links /\ mon' \in Monitors
  BY DEF Typed, Links, Monitors, Loses

\* A look at the lock, or at a link, leaves a verdict.
LEMMA Looks ==
  ASSUME Typed, NEW s \in Slots, Absent(s) \/ Present(s)
  PROVE  endpoint' \in Endpoints /\ misled' \in BOOLEAN
  BY DEF Typed, Endpoints, Absent, Hidden, Lives, Observed, Present

\* What a look at the lock says, unless it misleads: of a server it takes for gone, at most a start is there.
LEMMA LooksAtLock ==
  ASSUME Typed, NEW s \in Slots, Absent(s)
  PROVE  /\ misled => misled'
         /\ endpoint'[s] = Observed(s) /\ Observed(s) \in {"Dead", "Orphaned"}
         /\ \A r \in Slots : r # s => endpoint'[r] = endpoint[r]
         /\ LockHeld(s) => Observed(s) = "Orphaned"
         /\ ~misled' /\ Observed(s) = "Dead" => proc[s] \in {"gone", "starting"}
  BY DEF Typed, Endpoints, Procs, Absent, Observed, LockHeld, Hidden, Lives

\* A host that is stopped has no link.
LEMMA Stops ==
  ASSUME Typed, NEW s \in Slots, Stop(s)
  PROVE  /\ host'[s].st = "Stopped" /\ ~host'[s].up
         /\ \A r \in Slots : r # s => host'[r] = host[r]
         /\ mon'.at = mon.at /\ mon'.up \in {FALSE, mon.up} /\ (s = "cur" => ~mon'.up)
         /\ s = "old" => mon' = mon
  BY DEF Typed, Links, Monitors, Slots, Stop, Publish

\* A server that is told to stop closes.
LEMMA Tells ==
  ASSUME Typed, NEW s \in Slots, Told(s)
  PROVE  proc' \in [Slots -> Procs]
  BY DEF Typed, Procs, Told

\* The holder of the gate goes on.
LEMMA Moves ==
  ASSUME Typed, NEW at \in Resting \cup Bringing, Goes(at)
  PROVE  op' \in Holders
  BY DEF Typed, Holders, Goes

\* refresh_draining keeps the older server, or lets it go.
LEMMA RefreshesTo ==
  ASSUME Typed, NEW dr \in Drains, Refreshed(dr)
  PROVE  host' \in Links /\ mon' \in Monitors /\ drain' \in Drains
<1>1. [at |-> "idle", up |-> FALSE] \in Monitors
  BY DEF Monitors
<1>2. [host EXCEPT !["old"] = NoLink("Stopped")] \in Links
  BY DEF Typed, Links, NoLink, Slots, Statuses
<1>3. QED
  BY <1>1, <1>2 DEF Typed, Refreshed

\* What is known of the older server.
LEMMA Drained ==
  ASSUME Typed, NEW i \in BOOLEAN, NEW k \in BOOLEAN, NEW w \in BOOLEAN
  PROVE  /\ [in |-> i, known |-> k, watch |-> w] \in Drains
         /\ [drain EXCEPT !.in = i] \in Drains
         /\ [drain EXCEPT !.known = k] \in Drains
         /\ [drain EXCEPT !.known = k, !.in = i] \in Drains
         /\ [drain EXCEPT !.watch = w] \in Drains
  BY DEF Typed, Drains

\* The gate is let go.
LEMMA LetsGo ==
  ASSUME Lets
  PROVE  op' \in Holders
  BY DEF Holders, Lets, Idle, Resting

\* A bring-up begins, or joins one that is healthy.
LEMMA BeginsOne ==
  ASSUME Typed, NEW who \in Asked \cup {"recover"}, NEW leg \in {"look", "done"}, Begins(who, leg)
  PROVE  /\ op' \in Holders /\ disc' = leg
         /\ phase' \in Phases
  BY DEF Typed, Phases, Holders, Begins, Bringing

\* Every action keeps the types.
LEMMA TypedStep ==
  ASSUME Typed, SupervisorNext
  PROVE  Typed'
<1> USE DEF process, files, looks, link, gate, legacy, rest, supHistory
<1>1. CASE TakesGate
  <2>1. Head(wants) \in Asked /\ Tail(wants) \in Seq(Asked)
    BY <1>1 DEF TakesGate, Typed
  <2>2. op' \in Holders /\ phase' \in Phases /\ disc' \in {disc, "look"}
    <3>1. CASE Head(wants) = "ensure" /\ phase = "Stopped"
      BY <1>1, <3>1 DEF TakesGate, Typed
    <3>2. CASE Head(wants) = "start" \/ (Head(wants) = "ensure" /\ phase # "Stopped")
      BY <1>1, <2>1, <3>2, BeginsOne DEF TakesGate
    <3>3. CASE Head(wants) \in {"restart", "stop"}
      BY <1>1, <2>1, <3>3 DEF TakesGate, Typed, Holders, Idle, Asked, Resting
    <3>4. QED
      BY <2>1, <3>1, <3>2, <3>3 DEF Asked
  <2>3. intent' \in {"run", intent}
    BY <1>1 DEF TakesGate
  <2>4. QED
    BY <1>1, <2>1, <2>2, <2>3 DEF TakesGate, Typed
<1>2. CASE Kicks
  <2>1. /\ [host EXCEPT !["cur"] = NoLink("Connecting")] \in Links
        /\ [at |-> IF mon.at = "off" THEN "idle" ELSE mon.at, up |-> FALSE] \in Monitors
    BY DEF NoLink, Typed, Links, Monitors, Slots, Statuses
  <2>2. host' \in Links /\ mon' \in Monitors
    BY <1>2, <2>1 DEF Kicks, KeepLink, Typed
  <2>3. op' \in Holders /\ phase' \in Phases
    BY <1>2, Moves DEF Kicks, Joins, Typed, Bringing, Phases
  <2>4. QED
    BY <1>2, <2>2, <2>3 DEF Kicks, Typed
<1>3. CASE Settles
  BY <1>3, Moves, Looks, Publishes DEF Settles, KeepLink, Joins, DownFor, Stop, Typed, Slots, Phases,
     Statuses, Bringing
<1>4. CASE Launches
  <2>1. host' \in Links /\ mon' \in Monitors
    <3>1. [host EXCEPT !["cur"].up = FALSE] \in Links /\ [mon EXCEPT !.up = FALSE] \in Monitors
      BY DEF Typed, Links, Monitors
    <3>2. QED
      BY <1>4, <3>1, Publishes DEF Launches, LaunchesOver, KeepLink, Stop, Typed, Slots, Statuses
  <2>2. op' \in Holders /\ phase' \in Phases
    <3>1. [op EXCEPT !.at = "starts", !.mine = TRUE] \in Holders
      BY DEF Typed, Holders, Bringing
    <3>2. QED
      BY <1>4, <3>1, Moves DEF Launches, LaunchesOne, LaunchesOver, Joins, Typed, Bringing, Phases
  <2>3. proc' \in [Slots -> Procs] /\ reach' \in Flags /\ holds' \in Flags
    BY <1>4 DEF Launches, LaunchesOne, LaunchesOver, Typed, Procs, Flags
  <2>4. stray' \in BOOLEAN /\ misled' \in BOOLEAN
    BY <1>4 DEF Launches, LaunchesOver, Typed
  <2>5. QED
    BY <1>4, <2>1, <2>2, <2>3, <2>4 DEF Launches, LaunchesOver, Typed
<1>5. CASE Starts
  BY <1>5, Moves, Publishes DEF Starts, KeepLink, Stop, Joins, Typed, Slots, Phases, Statuses, Procs,
     Bringing
<1>6. CASE Connects
  BY <1>6, Looks, Moves, Publishes DEF Connects, Kick, Typed, Slots, Statuses, Bringing
<1>7. CASE SettlesStarted
  BY <1>7, Moves, Looks, Publishes DEF SettlesStarted, KeepLink, Joins, DownFor, Stop, Typed, Slots, Phases,
     Statuses, Bringing
<1>8. CASE Verdict
  BY <1>8, Moves, Publishes DEF Verdict, Joins, KeepLink, DownFor, Stop, Typed, Slots, Phases, Statuses,
     Bringing
<1>9. CASE ChecksStop
  BY <1>9, LetsGo, Moves DEF ChecksStop, Hidden, Lives, Typed, Resting
<1>10. CASE Stopping
  BY <1>10, Moves DEF Stopping, Typed, Phases, Resting
<1>11. CASE AsksStop
  BY <1>11, Tells, Moves, LetsGo, BeginsOne, Publishes DEF AsksStop, StoppedThen, Stop, KeepLink, Typed,
     Slots, Phases, Statuses, Asked, Resting
<1>12. CASE Quiets
  BY <1>12, Moves, LetsGo DEF Quiets, Typed, Phases, Resting
<1>13. CASE Frees
  BY <1>13, Looks, LetsGo, BeginsOne, Publishes DEF Frees, KeepLink, StoppedThen, Stop, Typed, Slots,
     Phases, Statuses, Asked
<1>14. CASE Finishes
  BY <1>14, LetsGo DEF Finishes, Typed
<1>15. CASE InfoAnswered
  BY <1>15 DEF InfoAnswered, Typed, Phases, Monitors
<1>16. CASE JudgedRunning
  BY <1>16 DEF JudgedRunning, Typed, Phases, Monitors
<1>17. CASE RefreshAnswered
  <2>1. [drain EXCEPT !.known = TRUE, !.in = holds["old"]] \in Drains
    BY Drained DEF Typed, Flags, Slots
  <2>2. endpoint' \in Endpoints /\ misled' \in BOOLEAN
    BY <1>17, Looks DEF RefreshAnswered, Typed, Slots
  <2>3. QED
    BY <1>17, <2>1, <2>2, RefreshesTo DEF RefreshAnswered, Refreshed, Typed
<1>18. CASE RefreshGone
  <2>1. [drain EXCEPT !.in = FALSE] \in Drains
    BY Drained DEF Typed
  <2>2. endpoint' \in Endpoints /\ misled' \in BOOLEAN
    BY <1>18, Looks DEF RefreshGone, Hidden, Lives, Typed, Slots
  <2>3. QED
    BY <1>18, <2>1, <2>2, RefreshesTo DEF RefreshGone, Refreshed, Typed
<1>19. CASE RefreshNothing
  <2>1. drain \in Drains
    BY DEF Typed
  <2>2. endpoint' \in Endpoints /\ misled' \in BOOLEAN
    BY <1>19, Looks DEF RefreshNothing, Typed, Slots
  <2>3. QED
    BY <1>19, <2>1, <2>2, RefreshesTo DEF RefreshNothing, Refreshed, Typed
<1>20. CASE LinkCameUp
  BY <1>20, Looks DEF LinkCameUp, Typed, Slots, Monitors, Links
<1>21. CASE StatusChanged
  BY <1>21, Looks DEF StatusChanged, TheirsToJudge, GateFree, Typed, Slots, Phases
<1>22. CASE Recovers
  BY <1>22, BeginsOne, Publishes DEF Recovers, GateFree, StillGone, KeepLink, Stop, Typed, Slots, Phases,
     Statuses
<1>23. CASE Houses
  BY <1>23, Looks DEF Houses, Typed, Slots, Monitors
<1>24. CASE Discovers
  BY <1>24, Publishes DEF Discovers, Hidden, Lives, KeepLink, Kick, Typed, Slots, Statuses
<1>25. CASE Adopts
  BY <1>25, Drained, Looks, Publishes DEF Adopts, KeepLink, Keep, Stop, Typed, Slots, Statuses
<1>26. CASE Lists
  BY <1>26, Drained, Publishes DEF Lists, Keep, Stop, Typed, Slots, Statuses
<1>27. CASE Watches
  <2>1. [host EXCEPT !["old"] = NoLink("Stopped")] \in Links
    BY DEF NoLink, Typed, Links, Slots, Statuses
  <2>2. host' \in Links /\ mon' \in Monitors
    BY <1>27, <2>1 DEF Watches, Typed
  <2>3. endpoint' \in Endpoints /\ misled' \in BOOLEAN
    BY <1>27, Looks DEF Watches, Typed, Slots
  <2>4. drain' \in Drains
    BY <1>27, Drained DEF Watches, Typed
  <2>5. QED
    BY <1>27, <2>2, <2>3, <2>4 DEF Watches, Typed
<1>28. CASE EndAsked
  BY <1>28, Tells DEF EndAsked, Typed, Slots
<1>29. CASE EndQuiets
  BY <1>29 DEF EndQuiets, Typed
<1>30. CASE EndFrees
  BY <1>30, Drained, Looks, Publishes DEF EndFrees, Retire, KeepLink, LetGo, Stop, Typed, Slots, Statuses
<1>31. ASSUME NEW what \in {"start", "restart", "stop"}, Asks(what) PROVE Typed'
  BY <1>31 DEF Asks, Typed, Asked
<1>32. CASE ServerComesUp
  BY <1>32 DEF ServerComesUp, Typed, Procs, Flags
<1>33. CASE OtherLaunches
  BY <1>33 DEF OtherLaunches, Typed, Procs
<1>34. CASE SessionOpens
  BY <1>34 DEF SessionOpens, Typed, Flags
<1>35. ASSUME NEW s \in Slots, Crashes(s) PROVE Typed'
  BY <1>35, LosesLink DEF Crashes, Exits, Typed, Procs, Flags
<1>36. ASSUME NEW s \in Slots, Closes(s) PROVE Typed'
  BY <1>36, LosesLink DEF Closes, Exits, Typed, Procs, Flags
<1>37. ASSUME NEW s \in Slots, Unsocketed(s) PROVE Typed'
  BY <1>37 DEF Unsocketed, Typed, Flags
<1>38. ASSUME NEW s \in Slots, Rebinds(s) PROVE Typed'
  BY <1>38 DEF Rebinds, Typed, Flags
<1>39. ASSUME NEW s \in Slots, LinkDrops(s) PROVE Typed'
  BY <1>39, LosesLink DEF LinkDrops, Typed
<1>40. ASSUME NEW s \in Slots, SessionsEnd(s) PROVE Typed'
  BY <1>40 DEF SessionsEnd, Typed, Flags
<1>41. ASSUME NEW s \in Slots, LinkLost(s) PROVE Typed'
  BY <1>41, Publishes DEF LinkLost, Typed, Statuses
<1>42. ASSUME NEW s \in Slots, Dials(s) PROVE Typed'
  BY <1>42, Publishes DEF Dials, Down, Typed, Statuses
<1>43. CASE StrayReturns
  BY <1>43 DEF StrayReturns, Typed, Procs, Flags
<1>44. ASSUME NEW s \in Slots, Unlocked(s) PROVE Typed'
  BY <1>44 DEF Unlocked, Typed, Procs, Flags
<1>45. ASSUME NEW s \in Slots, Relocks(s) PROVE Typed'
  BY <1>45 DEF Relocks, Typed, Procs, Flags
<1>46. QED
  BY <1>1, <1>2, <1>3, <1>4, <1>5, <1>6, <1>7, <1>8, <1>9, <1>10, <1>11, <1>12, <1>13, <1>14, <1>15, <1>16,
     <1>17, <1>18, <1>19, <1>20, <1>21, <1>22, <1>23, <1>24, <1>25, <1>26, <1>27, <1>28, <1>29, <1>30,
     <1>31, <1>32, <1>33, <1>34, <1>35, <1>36, <1>37, <1>38, <1>39, <1>40, <1>41, <1>42, <1>43, <1>44, <1>45
     DEF SupervisorNext, GateWorks, MonitorWorks, Refreshes, LegacyWorks, EndWorks

\* Every action keeps LinkKept.
LEMMA LinkStep ==
  ASSUME Typed, LinkKept, SupervisorNext
  PROVE  LinkKept'
<1> USE DEF process, files, looks, link, gate, legacy, rest, supHistory
<1>1. CASE TakesGate
  BY <1>1 DEF TakesGate, LinkKept
<1>2. CASE Kicks
  BY <1>2 DEF Kicks, KeepLink, NoLink, Typed, LinkKept, Slots, Links
<1>3. CASE Settles
  BY <1>3 DEF Settles, Status, KeepLink, Absent, DownFor, Stop, Publish, Typed, LinkKept, Slots, Links,
     Monitors
<1>4. CASE Launches
  <2>1. CASE LaunchesOver
    BY <2>1 DEF LaunchesOver, LaunchesOne, Typed, LinkKept, Slots, Links, Flags, Monitors
  <2>2. CASE ~LaunchesOver
    <3>1. \/ proc' = proc
          \/ proc["cur"] = "gone" /\ proc' = [proc EXCEPT !["cur"] = "starting"]
      BY <1>4, <2>2 DEF Launches, LaunchesOne
    <3>2. KeepLink \/ Stop("cur")
      BY <1>4, <2>2 DEF Launches
    <3>3. mon'.at = mon.at /\ host'["old"] = host["old"]
      BY <3>2 DEF KeepLink, Stop, Publish, Typed, Links, Monitors, Slots
    <3>4. \/ host' = host /\ mon' = mon
          \/ ~host'["cur"].up /\ ~mon'.up
      <4>1. CASE KeepLink
        BY <4>1 DEF KeepLink
      <4>2. CASE Stop("cur")
        BY <4>2 DEF Stop, Publish, Typed, Links, Monitors, Slots
      <4>3. QED
        BY <3>2, <4>1, <4>2
    <3>5. holds' = holds
      BY <1>4, <2>2 DEF Launches
    <3>6. QED
      BY <3>1, <3>3, <3>4, <3>5 DEF Typed, LinkKept, Slots, Procs
  <2>3. QED
    BY <2>1, <2>2
<1>5. CASE Starts
  <2>1. \A s \in Slots : proc'[s] = proc[s] \/ (proc[s] \in {"starting", "locked"} /\ proc'[s] = "gone" /\ s = "cur")
    BY <1>5 DEF Starts, Typed, Slots
  <2>2. KeepLink \/ Stop("cur")
    BY <1>5 DEF Starts
  <2>3. holds' = holds
    BY <1>5 DEF Starts
  <2>4. QED
    BY <2>1, <2>2, <2>3, Stops DEF KeepLink, Typed, LinkKept, Slots, Links
<1>6. CASE Connects
  BY <1>6 DEF Connects, Kick, Publish, Typed, LinkKept, Slots, Links, Monitors
<1>7. CASE SettlesStarted
  BY <1>7 DEF SettlesStarted, Status, KeepLink, Absent, Joins, DownFor, Stop, Publish, Typed, LinkKept,
     Slots, Links, Monitors
<1>8. CASE Verdict
  BY <1>8 DEF Verdict, Joins, KeepLink, Client, DownFor, Status, Stop, Publish, Typed, LinkKept, Slots,
     Links, Monitors
<1>9. CASE ChecksStop
  BY <1>9 DEF ChecksStop, LinkKept
<1>10. CASE Stopping
  BY <1>10 DEF Stopping, LinkKept
<1>11. CASE AsksStop
  BY <1>11 DEF AsksStop, Client, Told, StoppedThen, Status, Stop, KeepLink, Publish, Typed, LinkKept, Slots,
     Links, Monitors
<1>12. CASE Quiets
  BY <1>12 DEF Quiets, LinkKept
<1>13. CASE Frees
  <2>1. KeepLink \/ Stop("cur")
    BY <1>13 DEF Frees, StoppedThen
  <2>2. QED
    BY <1>13, <2>1, Stops DEF Frees, KeepLink, LinkKept, Slots
<1>14. CASE Finishes
  BY <1>14 DEF Finishes, LinkKept
<1>15. CASE InfoAnswered
  BY <1>15 DEF InfoAnswered, Typed, LinkKept, Monitors
<1>16. CASE JudgedRunning
  BY <1>16 DEF JudgedRunning, LinkKept
<1>17. CASE RefreshAnswered
  BY <1>17 DEF RefreshAnswered, Refreshed, NoLink, Typed, LinkKept, Links
<1>18. CASE RefreshGone
  BY <1>18 DEF RefreshGone, Absent, Refreshed, NoLink, Typed, LinkKept, Links
<1>19. CASE RefreshNothing
  BY <1>19 DEF RefreshNothing, Absent, Refreshed, LinkKept
<1>20. CASE LinkCameUp
  BY <1>20 DEF LinkCameUp, LinkKept
<1>21. CASE StatusChanged
  BY <1>21 DEF StatusChanged, TheirsToJudge, GateFree, Absent, LinkKept
<1>22. CASE Recovers
  BY <1>22 DEF Recovers, GateFree, StillGone, KeepLink, Stop, Status, Publish, Typed, LinkKept, Slots,
     Links, Monitors
<1>23. CASE Houses
  BY <1>23 DEF Houses, Absent, LinkKept
<1>24. CASE Discovers
  <2>1. KeepLink \/ Kick("old")
    BY <1>24 DEF Discovers
  <2>2. /\ host'["cur"] = host["cur"] /\ mon' = mon
        /\ host' = host \/ ~host'["old"].up
    <3>1. CASE KeepLink
      BY <3>1 DEF KeepLink
    <3>2. CASE Kick("old")
      BY <3>2 DEF Kick, Publish, Typed, Links, Slots
    <3>3. QED
      BY <2>1, <3>1, <3>2
  <2>3. proc' = proc /\ holds' = holds
    BY <1>24 DEF Discovers
  <2>4. QED
    BY <2>2, <2>3 DEF LinkKept, Slots
<1>25. CASE Adopts
  <2>1. (host' = host /\ mon' = mon) \/ Stop("old")
    BY <1>25 DEF Adopts, KeepLink, Keep
  <2>2. QED
    BY <1>25, <2>1, Stops DEF Adopts, LinkKept, Slots
<1>26. CASE Lists
  BY <1>26 DEF Lists, Keep, Stop, Publish, Typed, LinkKept, Slots, Links, Flags
<1>27. CASE Watches
  BY <1>27 DEF Watches, Absent, NoLink, Typed, LinkKept, Slots, Links
<1>28. CASE EndAsked
  BY <1>28 DEF EndAsked, Told, Typed, LinkKept
<1>29. CASE EndQuiets
  BY <1>29 DEF EndQuiets, LinkKept
<1>30. CASE EndFrees
  <2>1. KeepLink \/ Stop("old")
    BY <1>30 DEF EndFrees, Retire, LetGo
  <2>2. QED
    BY <1>30, <2>1, Stops DEF EndFrees, KeepLink, LinkKept, Slots
<1>31. ASSUME NEW what \in {"start", "restart", "stop"}, Asks(what) PROVE LinkKept'
  BY <1>31 DEF Asks, LinkKept
<1>32. CASE ServerComesUp
  BY <1>32 DEF ServerComesUp, Typed, LinkKept, Slots
<1>33. CASE OtherLaunches
  BY <1>33 DEF OtherLaunches, LinkKept
<1>34. CASE SessionOpens
  BY <1>34 DEF SessionOpens, LinkKept
<1>35. ASSUME NEW s \in Slots, Crashes(s) PROVE LinkKept'
  BY <1>35 DEF Crashes, Exits, Loses, Typed, LinkKept, Links, Flags
<1>36. ASSUME NEW s \in Slots, Closes(s) PROVE LinkKept'
  BY <1>36 DEF Closes, Exits, Loses, Typed, LinkKept, Links, Flags
<1>37. ASSUME NEW s \in Slots, Unsocketed(s) PROVE LinkKept'
  BY <1>37 DEF Unsocketed, LinkKept
<1>38. ASSUME NEW s \in Slots, Rebinds(s) PROVE LinkKept'
  BY <1>38 DEF Rebinds, LinkKept
<1>39. ASSUME NEW s \in Slots, LinkDrops(s) PROVE LinkKept'
  BY <1>39 DEF LinkDrops, Loses, Typed, LinkKept, Links
<1>40. ASSUME NEW s \in Slots, SessionsEnd(s) PROVE LinkKept'
  BY <1>40 DEF SessionsEnd, LinkKept
<1>41. ASSUME NEW s \in Slots, LinkLost(s) PROVE LinkKept'
  BY <1>41 DEF LinkLost, Publish, Typed, LinkKept, Links
<1>42. ASSUME NEW s \in Slots, Dials(s) PROVE LinkKept'
  BY <1>42 DEF Dials, Status, Down, FailsPromptly, Answers, Publish, Typed, LinkKept, Slots, Links, Monitors
<1>43. CASE StrayReturns
  BY <1>43 DEF StrayReturns, Typed, LinkKept, Slots, Flags
<1>44. ASSUME NEW s \in Slots, Unlocked(s) PROVE LinkKept'
  BY <1>44 DEF Unlocked, Typed, LinkKept, Slots, Flags
<1>45. ASSUME NEW s \in Slots, Relocks(s) PROVE LinkKept'
  BY <1>45 DEF Relocks, Typed, LinkKept, Slots, Flags
<1>46. QED
  BY <1>1, <1>2, <1>3, <1>4, <1>5, <1>6, <1>7, <1>8, <1>9, <1>10, <1>11, <1>12, <1>13, <1>14, <1>15, <1>16,
     <1>17, <1>18, <1>19, <1>20, <1>21, <1>22, <1>23, <1>24, <1>25, <1>26, <1>27, <1>28, <1>29, <1>30,
     <1>31, <1>32, <1>33, <1>34, <1>35, <1>36, <1>37, <1>38, <1>39, <1>40, <1>41, <1>42, <1>43, <1>44, <1>45
     DEF SupervisorNext, GateWorks, MonitorWorks, Refreshes, LegacyWorks, EndWorks

\* refresh_draining lets a server go that is gone, unless the lock misleads.
LEMMA RefreshedGone ==
  ASSUME Typed, LinkKept, RefreshGone
  PROVE  (misled => misled') /\ (~misled' => proc["old"] = "gone")
<1>1. proc["old"] \in {"gone", "serving", "closing"} /\ filed["old"] \in BOOLEAN
  BY DEF Typed, LinkKept, Flags, Slots
<1>2. CASE Absent("old")
  BY <1>1, <1>2, LooksAtLock DEF RefreshGone, LockHeld, Lives, Observed, Slots
<1>3. CASE ~Absent("old")
  BY <1>1, <1>3 DEF RefreshGone, LockHeld, Lives, Hidden, Typed
<1>4. QED
  BY <1>2, <1>3

\* Every action keeps EndpointKept.
LEMMA EndpointStep ==
  ASSUME Typed, LinkKept, EndpointKept, SupervisorNext
  PROVE  EndpointKept'
<1> USE DEF process, files, looks, link, gate, legacy, rest, supHistory
<1>1. CASE TakesGate
  BY <1>1 DEF TakesGate, Idle, Begins, EndpointKept, DeadMeansGone
<1>2. CASE Kicks
  BY <1>2 DEF Kicks, KeepLink, LinkKept, EndpointKept, DeadMeansGone, Slots
<1>3. CASE Settles
  BY <1>3, LooksAtLock DEF Settles, KeepLink, DownFor, Stop, Publish, Typed, LinkKept, EndpointKept,
     DeadMeansGone, Slots, Procs, Monitors, Endpoints
<1>4. CASE Launches
  <2>1. CASE LaunchesOver
    BY <1>4, <2>1 DEF Launches, LaunchesOver, LaunchesOne, Typed, EndpointKept, Holders
  <2>2. CASE ~LaunchesOver
    <3>1. KeepLink \/ (Stop("cur") /\ proc' = proc)
      BY <1>4, <2>2 DEF Launches
    <3>2. mon'.at = mon.at /\ (mon'.up => mon.up)
      BY <3>1, Stops DEF KeepLink, Typed, Slots, Monitors
    <3>3. proc'["old"] = proc["old"] /\ op'.at \in {"starts", "connects", "joined"}
      BY <1>4, <2>2 DEF Launches, LaunchesOne, Goes, Joins, Typed, Slots, Holders
    <3>4. CASE proc' = proc
      BY <1>4, <2>2, <3>2, <3>3, <3>4 DEF Launches, LaunchesOne, Answers, Goes, Joins, Typed, LinkKept,
         EndpointKept, DeadMeansGone, Slots, Holders
    <3>5. CASE proc' # proc
      <4>1. proc["cur"] = "gone" /\ op'.at = "starts" /\ op'.mine /\ phase' = phase
        BY <1>4, <2>2, <3>1, <3>5 DEF Launches, LaunchesOne, Typed, Holders
      <4>2. ~holds["cur"]
        BY <4>1 DEF LinkKept, Slots
      <4>3. QED
        BY <1>4, <2>2, <3>2, <3>3, <4>1, <4>2 DEF Launches, EndpointKept, DeadMeansGone
    <3>6. QED
      BY <3>4, <3>5
  <2>3. QED
    BY <2>1, <2>2
<1>5. CASE Starts
  <2>1. KeepLink \/ Stop("cur")
    BY <1>5 DEF Starts
  <2>2. mon'.at = mon.at /\ (mon'.up => mon.up)
    BY <2>1, Stops DEF KeepLink, Typed, Slots, Monitors
  <2>3. CASE Goes("connects")
    BY <1>5, <2>2, <2>3 DEF Starts, Goes, Joins, Lives, Typed, EndpointKept, DeadMeansGone, Holders, Slots
  <2>4. CASE Joins("Down")
    BY <1>5, <2>2, <2>4 DEF Starts, Goes, Joins, Hidden, Lives, Typed, LinkKept, EndpointKept,
       DeadMeansGone, Holders, Slots
  <2>5. QED
    BY <1>5, <2>3, <2>4 DEF Starts
<1>6. CASE Connects
  BY <1>6 DEF Connects, Present, Typed, EndpointKept, DeadMeansGone, Slots, Endpoints
<1>7. CASE SettlesStarted
  BY <1>7, LooksAtLock DEF SettlesStarted, KeepLink, DownFor, Stop, Publish, Typed, LinkKept, EndpointKept,
     DeadMeansGone, Slots, Procs, Monitors, Endpoints
<1>8. CASE Verdict
  BY <1>8 DEF Verdict, KeepLink, DownFor, Stop, Publish, Typed, LinkKept, EndpointKept, DeadMeansGone,
     Slots, Monitors
<1>9. CASE ChecksStop
  BY <1>9 DEF ChecksStop, EndpointKept, DeadMeansGone
<1>10. CASE Stopping
  BY <1>10 DEF Stopping, EndpointKept, DeadMeansGone
<1>11. CASE AsksStop
  <2>1. wronged' \subseteq wronged \cup {"asks"} /\ misled' = misled /\ stray' = stray
    BY <1>11 DEF AsksStop, StoppedThen, LoseAll
  <2>2. CASE Client("cur")
    BY <1>11, <2>1, <2>2 DEF AsksStop, Told, Goes, Typed, LinkKept, EndpointKept, DeadMeansGone, Slots,
       Holders
  <2>3. CASE ~Client("cur")
    <3>1. mon'.at = mon.at /\ (mon'.up => mon.up)
      BY <1>11, <2>3 DEF AsksStop, StoppedThen, Stop, KeepLink, Publish, Typed, Monitors
    <3>2. ~mon.up
      BY <2>3 DEF Client, Status, Typed, LinkKept, Slots
    <3>3. QED
      BY <1>11, <2>1, <2>3, <3>1, <3>2 DEF AsksStop, StoppedThen, Typed, LinkKept, EndpointKept,
         DeadMeansGone, Slots
  <2>4. QED
    BY <2>2, <2>3
<1>12. CASE Quiets
  BY <1>12 DEF Quiets, LinkKept, EndpointKept, DeadMeansGone, Slots
<1>13. CASE Frees
  BY <1>13, LooksAtLock DEF Frees, KeepLink, StoppedThen, Stop, LoseAll, Publish, Typed, LinkKept,
     EndpointKept, DeadMeansGone, Slots, Procs, Monitors
<1>14. CASE Finishes
  BY <1>14 DEF Finishes, EndpointKept, DeadMeansGone
<1>15. CASE InfoAnswered
  BY <1>15 DEF InfoAnswered, Typed, EndpointKept, DeadMeansGone, Monitors
<1>16. CASE JudgedRunning
  BY <1>16 DEF JudgedRunning, EndpointKept, DeadMeansGone
<1>17. CASE RefreshAnswered
  BY <1>17 DEF RefreshAnswered, Present, Refreshed, EndpointKept, DeadMeansGone
<1>18. CASE RefreshGone
  <2>1. ~misled' => ~misled /\ proc["old"] = "gone"
    BY <1>18, RefreshedGone
  <2>2. /\ endpoint'["cur"] = endpoint["cur"]
        /\ proc["old"] = "gone" => wronged' = wronged
    BY <1>18, LooksAtLock DEF RefreshGone, LoseAll, Typed, Slots
  <2>3. ~mon'.up /\ mon'.at \notin {"info", "keep"}
    BY <1>18 DEF RefreshGone, Refreshed
  <2>4. QED
    BY <1>18, <2>1, <2>2, <2>3 DEF RefreshGone, Refreshed, Typed, EndpointKept, DeadMeansGone
<1>19. CASE RefreshNothing
  BY <1>19, LooksAtLock DEF RefreshNothing, Refreshed, Typed, EndpointKept, DeadMeansGone, Slots, Endpoints
<1>20. CASE LinkCameUp
  BY <1>20 DEF LinkCameUp, Client, Present, Status, Typed, LinkKept, EndpointKept, DeadMeansGone, Slots,
     Endpoints
<1>21. CASE StatusChanged
  BY <1>21, LooksAtLock DEF StatusChanged, TheirsToJudge, GateFree, Idle, Typed, LinkKept, EndpointKept,
     DeadMeansGone, Slots, Procs, Endpoints
<1>22. CASE Recovers
  BY <1>22 DEF Recovers, GateFree, StillGone, KeepLink, Stop, Idle, Publish, Typed, LinkKept, EndpointKept,
     DeadMeansGone, Slots, Monitors
<1>23. CASE Houses
  BY <1>23, LooksAtLock DEF Houses, Typed, LinkKept, EndpointKept, DeadMeansGone, Slots, Procs, Endpoints
<1>24. CASE Discovers
  BY <1>24 DEF Discovers, KeepLink, Kick, Publish, EndpointKept, DeadMeansGone
<1>25. CASE Adopts
  BY <1>25, LooksAtLock DEF Adopts, KeepLink, Keep, Stop, Publish, Typed, LinkKept, EndpointKept,
     DeadMeansGone, Slots, Endpoints
<1>26. CASE Lists
  BY <1>26 DEF Lists, Keep, Stop, Publish, EndpointKept, DeadMeansGone
<1>27. CASE Watches
  BY <1>27, LooksAtLock DEF Watches, LoseAll, Typed, LinkKept, EndpointKept, DeadMeansGone, Slots, Links,
     Endpoints
<1>28. CASE EndAsked
  BY <1>28 DEF EndAsked, Told, Typed, EndpointKept, DeadMeansGone, Slots
<1>29. CASE EndQuiets
  BY <1>29 DEF EndQuiets, EndpointKept, DeadMeansGone
<1>30. CASE EndFrees
  BY <1>30, LooksAtLock DEF EndFrees, Retire, KeepLink, LetGo, LoseAll, Stop, Publish, Typed, LinkKept,
     EndpointKept, DeadMeansGone, Slots, Endpoints
<1>31. ASSUME NEW what \in {"start", "restart", "stop"}, Asks(what) PROVE EndpointKept'
  BY <1>31 DEF Asks, EndpointKept, DeadMeansGone
<1>32. CASE ServerComesUp
  BY <1>32 DEF ServerComesUp, Typed, EndpointKept, DeadMeansGone, Slots
<1>33. CASE OtherLaunches
  BY <1>33 DEF OtherLaunches, EndpointKept, DeadMeansGone
<1>34. CASE SessionOpens
  BY <1>34 DEF SessionOpens, LinkKept, EndpointKept, DeadMeansGone
<1>35. ASSUME NEW s \in Slots, Crashes(s) PROVE EndpointKept'
  BY <1>35 DEF Crashes, Exits, Loses, Typed, EndpointKept, DeadMeansGone, Flags
<1>36. ASSUME NEW s \in Slots, Closes(s) PROVE EndpointKept'
  BY <1>36 DEF Closes, Exits, Loses, Typed, EndpointKept, DeadMeansGone, Flags
<1>37. ASSUME NEW s \in Slots, Unsocketed(s) PROVE EndpointKept'
  BY <1>37 DEF Unsocketed, EndpointKept, DeadMeansGone
<1>38. ASSUME NEW s \in Slots, Rebinds(s) PROVE EndpointKept'
  BY <1>38 DEF Rebinds, EndpointKept, DeadMeansGone
<1>39. ASSUME NEW s \in Slots, LinkDrops(s) PROVE EndpointKept'
  BY <1>39 DEF LinkDrops, Loses, EndpointKept, DeadMeansGone
<1>40. ASSUME NEW s \in Slots, SessionsEnd(s) PROVE EndpointKept'
  BY <1>40 DEF SessionsEnd, EndpointKept, DeadMeansGone
<1>41. ASSUME NEW s \in Slots, LinkLost(s) PROVE EndpointKept'
  BY <1>41 DEF LinkLost, Publish, EndpointKept, DeadMeansGone
<1>42. ASSUME NEW s \in Slots, Dials(s) PROVE EndpointKept'
  BY <1>42 DEF Dials, Publish, Typed, EndpointKept, DeadMeansGone, Monitors
<1>43. CASE StrayReturns
  BY <1>43 DEF StrayReturns, Typed, EndpointKept, DeadMeansGone, Slots, Flags
<1>44. ASSUME NEW s \in Slots, Unlocked(s) PROVE EndpointKept'
  BY <1>44 DEF Unlocked, Typed, EndpointKept, DeadMeansGone, Slots, Flags
<1>45. ASSUME NEW s \in Slots, Relocks(s) PROVE EndpointKept'
  BY <1>45 DEF Relocks, Typed, EndpointKept, DeadMeansGone, Slots, Flags
<1>46. QED
  BY <1>1, <1>2, <1>3, <1>4, <1>5, <1>6, <1>7, <1>8, <1>9, <1>10, <1>11, <1>12, <1>13, <1>14, <1>15, <1>16,
     <1>17, <1>18, <1>19, <1>20, <1>21, <1>22, <1>23, <1>24, <1>25, <1>26, <1>27, <1>28, <1>29, <1>30,
     <1>31, <1>32, <1>33, <1>34, <1>35, <1>36, <1>37, <1>38, <1>39, <1>40, <1>41, <1>42, <1>43, <1>44, <1>45
     DEF SupervisorNext, GateWorks, MonitorWorks, Refreshes, LegacyWorks, EndWorks

\* Every action keeps OlderKept.
LEMMA OlderStep ==
  ASSUME Typed, LinkKept, EndpointKept, OlderKept, SupervisorNext
  PROVE  OlderKept'
<1> USE DEF process, files, looks, link, gate, legacy, rest, supHistory
<1>1. CASE TakesGate
  BY <1>1 DEF TakesGate, Idle, Begins, OlderKept, OlderIsOver, Resting
<1>2. CASE Kicks
  BY <1>2 DEF Kicks, Joins, Goes, Typed, OlderKept, OlderIsOver, Resting, Holders
<1>3. CASE Settles
  BY <1>3 DEF Settles, Goes, Absent, Joins, DownFor, Typed, OlderKept, OlderIsOver, Resting, Holders,
     LockHeld, Lives, Hidden, Observed
<1>4. CASE Launches
  BY <1>4 DEF Launches, LaunchesOne, LaunchesOver, Goes, Joins, Typed, OlderKept, OlderIsOver, Slots,
     Resting, Holders
<1>5. CASE Starts
  BY <1>5 DEF Starts, Goes, Joins, Typed, OlderKept, OlderIsOver, Slots, Resting, Holders
<1>6. CASE Connects
  BY <1>6 DEF Connects, Typed, Goes, OlderKept, OlderIsOver, Resting, Slots, Present
<1>7. CASE SettlesStarted
  BY <1>7 DEF SettlesStarted, Goes, Absent, Joins, DownFor, Typed, OlderKept, OlderIsOver, Resting, Holders,
     LockHeld, Lives, Hidden, Observed
<1>8. CASE Verdict
  BY <1>8 DEF Verdict, Joins, DownFor, Goes, Typed, OlderKept, OlderIsOver, Resting, Holders
<1>9. CASE ChecksStop
  BY <1>9 DEF ChecksStop, OlderKept, OlderIsOver, Resting
<1>10. CASE Stopping
  BY <1>10 DEF Stopping, OlderKept, OlderIsOver, Resting
<1>11. CASE AsksStop
  BY <1>11 DEF AsksStop, Told, StoppedThen, Begins, Typed, OlderKept, OlderIsOver, Slots, Resting
<1>12. CASE Quiets
  BY <1>12 DEF Quiets, OlderKept, OlderIsOver, Resting
<1>13. CASE Frees
  BY <1>13, LooksAtLock DEF Frees, Typed, StoppedThen, Begins, OlderKept, OlderIsOver, Resting, Slots
<1>14. CASE Finishes
  BY <1>14 DEF Finishes, OlderKept, OlderIsOver
<1>15. CASE InfoAnswered
  BY <1>15 DEF InfoAnswered, OlderKept, OlderIsOver
<1>16. CASE JudgedRunning
  BY <1>16 DEF JudgedRunning, OlderKept, OlderIsOver
<1>17. CASE RefreshAnswered
  BY <1>17 DEF RefreshAnswered, Refreshed, OlderKept, OlderIsOver
<1>18. CASE RefreshGone
  BY <1>18, RefreshedGone DEF RefreshGone, Refreshed, Typed, OlderKept, OlderIsOver
<1>19. CASE RefreshNothing
  BY <1>19, LooksAtLock DEF RefreshNothing, Refreshed, OlderKept, OlderIsOver
<1>20. CASE LinkCameUp
  BY <1>20 DEF LinkCameUp, Typed, OlderKept, OlderIsOver, Slots, Present
<1>21. CASE StatusChanged
  BY <1>21, LooksAtLock DEF StatusChanged, Typed, TheirsToJudge, GateFree, OlderKept, OlderIsOver, Slots
<1>22. CASE Recovers
  BY <1>22 DEF Recovers, GateFree, StillGone, Begins, OlderKept, OlderIsOver, Resting
<1>23. CASE Houses
  BY <1>23, LooksAtLock DEF Houses, Typed, OlderKept, OlderIsOver, Slots
<1>24. CASE Discovers
  BY <1>24 DEF Discovers, Found, Typed, LockHeld, LinkKept, OlderKept, OlderIsOver, Lives, Hidden, Slots,
     Flags
<1>25. CASE Adopts
  BY <1>25, LooksAtLock DEF Adopts, Typed, Keep, LinkKept, OlderKept, OlderIsOver, Slots
<1>26. CASE Lists
  BY <1>26 DEF Lists, Keep, OlderKept, OlderIsOver
<1>27. CASE Watches
  BY <1>27, LooksAtLock DEF Watches, Typed, LinkKept, OlderKept, OlderIsOver, Drains, Slots
<1>28. CASE EndAsked
  BY <1>28 DEF EndAsked, OlderKept
<1>29. CASE EndQuiets
  BY <1>29 DEF EndQuiets, OlderKept, OlderIsOver
<1>30. CASE EndFrees
  BY <1>30, LooksAtLock DEF EndFrees, Retire, LetGo, Typed, LinkKept, OlderKept, OlderIsOver, Drains, Slots
<1>31. ASSUME NEW what \in {"start", "restart", "stop"}, Asks(what) PROVE OlderKept'
  BY <1>31 DEF Asks, OlderKept, OlderIsOver
<1>32. CASE ServerComesUp
  BY <1>32 DEF ServerComesUp, Typed, OlderKept, OlderIsOver, Slots
<1>33. CASE OtherLaunches
  BY <1>33 DEF OtherLaunches, OlderKept, OlderIsOver
<1>34. CASE SessionOpens
  BY <1>34 DEF SessionOpens, OlderKept, OlderIsOver
<1>35. ASSUME NEW s \in Slots, Crashes(s) PROVE OlderKept'
  BY <1>35 DEF Crashes, Exits, Loses, OlderKept, OlderIsOver
<1>36. ASSUME NEW s \in Slots, Closes(s) PROVE OlderKept'
  BY <1>36 DEF Closes, Exits, Loses, OlderKept, OlderIsOver
<1>37. ASSUME NEW s \in Slots, Unsocketed(s) PROVE OlderKept'
  BY <1>37 DEF Unsocketed, OlderKept, OlderIsOver
<1>38. ASSUME NEW s \in Slots, Rebinds(s) PROVE OlderKept'
  BY <1>38 DEF Rebinds, OlderKept, OlderIsOver
<1>39. ASSUME NEW s \in Slots, LinkDrops(s) PROVE OlderKept'
  BY <1>39 DEF LinkDrops, Loses, OlderKept, OlderIsOver
<1>40. ASSUME NEW s \in Slots, SessionsEnd(s) PROVE OlderKept'
  BY <1>40 DEF SessionsEnd, OlderKept, OlderIsOver
<1>41. ASSUME NEW s \in Slots, LinkLost(s) PROVE OlderKept'
  BY <1>41 DEF LinkLost, OlderKept, OlderIsOver
<1>42. ASSUME NEW s \in Slots, Dials(s) PROVE OlderKept'
  BY <1>42 DEF Dials, OlderKept, OlderIsOver
<1>43. CASE StrayReturns
  BY <1>43 DEF StrayReturns, Typed, OlderKept, OlderIsOver, Slots
<1>44. ASSUME NEW s \in Slots, Unlocked(s) PROVE OlderKept'
  BY <1>44 DEF Unlocked, Typed, OlderKept, OlderIsOver, Slots
<1>45. ASSUME NEW s \in Slots, Relocks(s) PROVE OlderKept'
  BY <1>45 DEF Relocks, Typed, OlderKept, OlderIsOver, Slots
<1>46. QED
  BY <1>1, <1>2, <1>3, <1>4, <1>5, <1>6, <1>7, <1>8, <1>9, <1>10, <1>11, <1>12, <1>13, <1>14, <1>15, <1>16,
     <1>17, <1>18, <1>19, <1>20, <1>21, <1>22, <1>23, <1>24, <1>25, <1>26, <1>27, <1>28, <1>29, <1>30,
     <1>31, <1>32, <1>33, <1>34, <1>35, <1>36, <1>37, <1>38, <1>39, <1>40, <1>41, <1>42, <1>43, <1>44, <1>45
     DEF SupervisorNext, GateWorks, MonitorWorks, Refreshes, LegacyWorks, EndWorks

\* Every action keeps AskedKept.
LEMMA AskedStep ==
  ASSUME Typed, OlderKept, AskedKept, SupervisorNext
  PROVE  AskedKept'
<1> USE DEF process, files, looks, link, gate, legacy, rest, supHistory
<1>1. CASE TakesGate
  <2>1. op = Idle /\ wants # <<>> /\ wants' = Tail(wants) /\ host' = host /\ mon' = mon
    BY <1>1 DEF TakesGate
  <2>2. ASSUME NEW i \in DOMAIN wants', wants'[i] = "ensure"
        PROVE  /\ i = 1 /\ wants[1] = "stop" /\ wants[2] = "ensure" /\ 2 \in DOMAIN wants
               /\ intent = "run" /\ mon.at = "off"
    <3>1. i \in Nat /\ i >= 1 /\ i + 1 \in DOMAIN wants /\ wants'[i] = wants[i + 1]
      BY <2>1, <2>2 DEF Typed
    <3>2. QED
      BY <2>2, <3>1 DEF AskedKept, Typed
  <2>3. CASE Head(wants) = "ensure" /\ phase = "Stopped"
    BY <1>1, <2>1, <2>2, <2>3 DEF TakesGate, AskedKept, Typed
  <2>4. CASE Head(wants) = "start" \/ (Head(wants) = "ensure" /\ phase # "Stopped")
    <3>1. \A i \in DOMAIN wants' : wants'[i] # "ensure"
      BY <2>1, <2>2, <2>4 DEF Typed
    <3>2. intent' = "run"
      <4>1. CASE Head(wants) = "start"
        BY <1>1, <4>1 DEF TakesGate
      <4>2. CASE Head(wants) = "ensure" /\ phase # "Stopped"
        BY <1>1, <2>1, <4>2 DEF TakesGate, AskedKept, Typed
      <4>3. QED
        BY <2>4, <4>1, <4>2
    <3>3. op'.at # "free" /\ op'.who # "none"
      BY <1>1, <2>4 DEF TakesGate, Begins
    <3>4. QED
      BY <3>1, <3>2, <3>3 DEF AskedKept
  <2>5. CASE Head(wants) \in {"restart", "stop"}
    <3>1. op'.at \in {"checks", "stops"} /\ op'.who = Head(wants)
      BY <1>1, <2>5 DEF TakesGate, Idle
    <3>2. intent' = intent /\ phase' = phase
      BY <1>1, <2>5 DEF TakesGate
    <3>3. ASSUME NEW i \in DOMAIN wants', wants'[i] = "ensure"
          PROVE  Head(wants) = "stop" /\ i = 1 /\ intent = "run" /\ mon.at = "off"
      BY <2>1, <2>2, <3>3
    <3>4. QED
      BY <2>1, <2>5, <3>1, <3>2, <3>3 DEF AskedKept, Resting
  <2>6. QED
    BY <1>1, <2>3, <2>4, <2>5 DEF TakesGate
<1>2. CASE Kicks
  BY <1>2 DEF Kicks, Joins, Goes, Typed, AskedKept, Idle, Resting, Holders
<1>3. CASE Settles
  BY <1>3 DEF Settles, Goes, Absent, Joins, DownFor, Typed, AskedKept, Idle, Resting, Holders
<1>4. CASE Launches
  <2>1. intent' = "run" /\ wants' = wants /\ \A i \in DOMAIN wants : wants[i] # "ensure"
    BY <1>4 DEF Launches, LaunchesOver, AskedKept, Resting
  <2>2. op'.who = op.who /\ op'.at \in {"connects", "starts", "joined"} /\ op.who # "none"
    <3>1. op.who # "none"
      BY <1>4 DEF Launches, LaunchesOver, AskedKept, Idle
    <3>2. \/ Goes("connects") \/ Goes("starts") \/ Joins("Down")
          \/ op' = [op EXCEPT !.at = "starts", !.mine = TRUE]
      BY <1>4 DEF Launches, LaunchesOne, LaunchesOver
    <3>3. QED
      BY <3>1, <3>2 DEF Goes, Joins, Typed, Holders
  <2>3. QED
    BY <2>1, <2>2 DEF AskedKept
<1>5. CASE Starts
  BY <1>5 DEF Starts, Goes, Joins, Typed, AskedKept, Idle, Resting, Holders
<1>6. CASE Connects
  BY <1>6 DEF Connects, Goes, AskedKept, Idle, Resting
<1>7. CASE SettlesStarted
  BY <1>7 DEF SettlesStarted, Goes, Absent, Joins, DownFor, Typed, AskedKept, Idle, Resting, Holders
<1>8. CASE Verdict
  BY <1>8 DEF Verdict, Joins, DownFor, Goes, Typed, AskedKept, Idle, Resting, Holders
<1>9. CASE ChecksStop
  BY <1>9 DEF ChecksStop, Lets, Goes, Idle, Typed, AskedKept, Resting, Holders
<1>10. CASE Stopping
  BY <1>10 DEF Stopping, Goes, Idle, AskedKept, Resting
<1>11. CASE AsksStop
  <2>1. CASE ~StoppedThen
    BY <1>11, <2>1 DEF AsksStop, Told, Goes, OlderKept, AskedKept, Typed, Holders, Idle, Resting
  <2>2. CASE StoppedThen /\ op.who = "stop"
    <3>1. op' = Idle /\ phase' = "Stopped" /\ intent' = "stopped" /\ wants' = wants /\ op # Idle
      BY <1>11, <2>2 DEF AsksStop, StoppedThen, Lets, Idle
    <3>2. host'["cur"].st = "Stopped" /\ mon'.at = mon.at
      BY <2>2 DEF StoppedThen, Stop, Publish, Typed, Links, Slots, Monitors
    <3>3. QED
      BY <3>1, <3>2 DEF AskedKept, Idle, Resting
  <2>3. CASE StoppedThen /\ op.who # "stop"
    <3>1. intent' = "run" /\ wants' = wants /\ op'.at # "free" /\ op'.who # "none" /\ op # Idle
      BY <1>11, <2>3 DEF AsksStop, StoppedThen, Begins, Idle
    <3>2. op.who # "none"
      BY <1>11 DEF AsksStop, AskedKept, Idle
    <3>3. \A i \in DOMAIN wants' : wants'[i] # "ensure"
      BY <2>3, <3>1, <3>2 DEF AskedKept
    <3>4. QED
      BY <3>1, <3>3 DEF AskedKept
  <2>4. QED
    BY <2>1, <2>2, <2>3
<1>12. CASE Quiets
  BY <1>12 DEF Quiets, Goes, Lets, Idle, Typed, AskedKept, Resting, Holders
<1>13. CASE Frees
  <2>1. CASE ~StoppedThen
    BY <1>13, <2>1 DEF Frees, KeepLink, Lets, OlderKept, AskedKept, Typed, Holders, Idle, Resting
  <2>2. CASE StoppedThen /\ op.who = "stop"
    <3>1. op' = Idle /\ phase' = "Stopped" /\ intent' = "stopped" /\ wants' = wants /\ op # Idle
      BY <1>13, <2>2 DEF Frees, StoppedThen, Lets, Idle
    <3>2. host'["cur"].st = "Stopped" /\ mon'.at = mon.at
      BY <2>2 DEF StoppedThen, Stop, Publish, Typed, Links, Slots, Monitors
    <3>3. QED
      BY <3>1, <3>2 DEF AskedKept, Idle, Resting
  <2>3. CASE StoppedThen /\ op.who # "stop"
    <3>1. intent' = "run" /\ wants' = wants /\ op'.at # "free" /\ op'.who # "none" /\ op # Idle
      BY <1>13, <2>3 DEF Frees, StoppedThen, Begins, Idle
    <3>2. op.who # "none"
      BY <1>13 DEF Frees, AskedKept, Idle
    <3>3. \A i \in DOMAIN wants' : wants'[i] # "ensure"
      BY <2>3, <3>1, <3>2 DEF AskedKept
    <3>4. QED
      BY <3>1, <3>3 DEF AskedKept
  <2>4. QED
    BY <2>1, <2>2, <2>3
<1>14. CASE Finishes
  BY <1>14 DEF Finishes, Lets, OlderKept, AskedKept
<1>15. CASE InfoAnswered
  BY <1>15 DEF InfoAnswered, AskedKept
<1>16. CASE JudgedRunning
  BY <1>16 DEF JudgedRunning, AskedKept
<1>17. CASE RefreshAnswered
  BY <1>17 DEF RefreshAnswered, Refreshed, Typed, AskedKept, Slots, Links
<1>18. CASE RefreshGone
  BY <1>18 DEF RefreshGone, Absent, Refreshed, Typed, AskedKept, Slots, Links
<1>19. CASE RefreshNothing
  BY <1>19 DEF RefreshNothing, Absent, Refreshed, AskedKept
<1>20. CASE LinkCameUp
  BY <1>20 DEF LinkCameUp, AskedKept
<1>21. CASE StatusChanged
  BY <1>21 DEF StatusChanged, TheirsToJudge, GateFree, Absent, AskedKept
<1>22. CASE Recovers
  BY <1>22 DEF Recovers, GateFree, StillGone, KeepLink, Stop, Begins, Idle, Status, Publish, Typed,
     AskedKept, Slots, Resting, Links
<1>23. CASE Houses
  BY <1>23 DEF Houses, Absent, AskedKept
<1>24. CASE Discovers
  BY <1>24 DEF Discovers, OlderKept, AskedKept
<1>25. CASE Adopts
  BY <1>25 DEF Adopts, Absent, Keep, OlderKept, AskedKept
<1>26. CASE Lists
  BY <1>26 DEF Lists, Keep, OlderKept, AskedKept
<1>27. CASE Watches
  BY <1>27 DEF Watches, Absent, Typed, AskedKept, Slots, Links
<1>28. CASE EndAsked
  BY <1>28 DEF EndAsked, AskedKept
<1>29. CASE EndQuiets
  BY <1>29 DEF EndQuiets, AskedKept
<1>30. CASE EndFrees
  BY <1>30 DEF EndFrees, Absent, Retire, KeepLink, LetGo, Stop, Publish, Typed, AskedKept, Slots, Links
<1>31. ASSUME NEW what \in {"start", "restart", "stop"}, Asks(what) PROVE AskedKept'
  BY <1>31 DEF Asks, AskedKept
<1>32. CASE ServerComesUp
  BY <1>32 DEF ServerComesUp, AskedKept
<1>33. CASE OtherLaunches
  BY <1>33 DEF OtherLaunches, AskedKept
<1>34. CASE SessionOpens
  BY <1>34 DEF SessionOpens, AskedKept
<1>35. ASSUME NEW s \in Slots, Crashes(s) PROVE AskedKept'
  BY <1>35 DEF Crashes, Exits, Loses, AskedKept
<1>36. ASSUME NEW s \in Slots, Closes(s) PROVE AskedKept'
  BY <1>36 DEF Closes, Exits, Loses, AskedKept
<1>37. ASSUME NEW s \in Slots, Unsocketed(s) PROVE AskedKept'
  BY <1>37 DEF Unsocketed, AskedKept
<1>38. ASSUME NEW s \in Slots, Rebinds(s) PROVE AskedKept'
  BY <1>38 DEF Rebinds, AskedKept
<1>39. ASSUME NEW s \in Slots, LinkDrops(s) PROVE AskedKept'
  BY <1>39 DEF LinkDrops, Loses, AskedKept
<1>40. ASSUME NEW s \in Slots, SessionsEnd(s) PROVE AskedKept'
  BY <1>40 DEF SessionsEnd, AskedKept
<1>41. ASSUME NEW s \in Slots, LinkLost(s) PROVE AskedKept'
  BY <1>41 DEF LinkLost, Client, Publish, Status, AskedKept
<1>42. ASSUME NEW s \in Slots, Dials(s) PROVE AskedKept'
  BY <1>42 DEF Dials, Status, Down, Publish, Typed, AskedKept, Slots, Links, Monitors
<1>43. CASE StrayReturns
  BY <1>43 DEF StrayReturns, Typed, AskedKept
<1>44. ASSUME NEW s \in Slots, Unlocked(s) PROVE AskedKept'
  BY <1>44 DEF Unlocked, Typed, AskedKept
<1>45. ASSUME NEW s \in Slots, Relocks(s) PROVE AskedKept'
  BY <1>45 DEF Relocks, Typed, AskedKept
<1>46. QED
  BY <1>1, <1>2, <1>3, <1>4, <1>5, <1>6, <1>7, <1>8, <1>9, <1>10, <1>11, <1>12, <1>13, <1>14, <1>15, <1>16,
     <1>17, <1>18, <1>19, <1>20, <1>21, <1>22, <1>23, <1>24, <1>25, <1>26, <1>27, <1>28, <1>29, <1>30,
     <1>31, <1>32, <1>33, <1>34, <1>35, <1>36, <1>37, <1>38, <1>39, <1>40, <1>41, <1>42, <1>43, <1>44, <1>45
     DEF SupervisorNext, GateWorks, MonitorWorks, Refreshes, LegacyWorks, EndWorks

\* The app starts in the invariant, whichever servers there are.
LEMMA InvInit ==
  ASSUME SupervisorInit
  PROVE  SupInv
<1>1. \A s \in Slots : left[s] \in BOOLEAN
  BY SupervisorAssumption DEF SupervisorInit, Slots
<1>2. Typed
  <2>1. wants \in Seq(Asked)
    <3>1. <<"ensure">> \in Seq(Asked) /\ <<"stop", "ensure">> \in Seq(Asked)
      BY DEF Asked
    <3>2. QED
      BY <3>1 DEF SupervisorInit
  <2>2. op \in Holders
    BY DEF SupervisorInit, Holders, Idle, Resting
  <2>3. proc \in [Slots -> Procs] /\ reach \in Flags /\ holds \in Flags /\ filed \in Flags
    BY <1>1 DEF SupervisorInit, Flags, Procs
  <2>4. host \in Links /\ endpoint \in Endpoints
    BY DEF SupervisorInit, Links, Endpoints, NoLink, Statuses
  <2>5. QED
    BY <2>1, <2>2, <2>3, <2>4 DEF SupervisorInit, Typed, Phases, Monitors, Drains
<1>3. LinkKept
  BY <1>1 DEF SupervisorInit, LinkKept, NoLink, Slots
<1>4. EndpointKept
  BY DEF SupervisorInit, EndpointKept, DeadMeansGone, Slots
<1>5. OlderKept
  BY DEF SupervisorInit, OlderKept
<1>6. AskedKept
  BY DEF SupervisorInit, AskedKept, Idle, Resting
<1>7. QED
  BY <1>2, <1>3, <1>4, <1>5, <1>6 DEF SupInv

\* Every step of the supervisor stays in it.
LEMMA InvStep ==
  ASSUME SupInv, [SupervisorNext]_allSupVars
  PROVE  SupInv'
<1>1. CASE SupervisorNext
  BY <1>1, TypedStep, LinkStep, EndpointStep, OlderStep, AskedStep DEF SupInv
<1>2. CASE UNCHANGED allSupVars
  <2>1. UNCHANGED <<proc, reach, holds, unmet, filed, stray, host, endpoint, misled, phase, op, wants,
                    disc, discovered, mon, drain, intent, wronged>>
    BY <1>2 DEF allSupVars, supVars, supHistory, process, files, looks, link, gate, legacy
  <2>2. Typed' /\ LinkKept' /\ EndpointKept'
    BY <2>1 DEF SupInv, Typed, LinkKept, EndpointKept, DeadMeansGone
  <2>3. OlderKept' /\ AskedKept'
    BY <2>1 DEF SupInv, OlderKept, OlderIsOver, AskedKept
  <2>4. QED
    BY <2>2, <2>3 DEF SupInv
<1>3. QED
  BY <1>1, <1>2

\* The invariant of the supervisor: types, what a link that is up and an endpoint seen Dead mean, what
\* became of the older server, and how a stopped app rests.
THEOREM SupervisorKeeps == SupervisorSpec => []SupInv
<1>1. SupervisorInit => SupInv
  BY InvInit
<1>2. SupInv /\ [SupervisorNext]_allSupVars => SupInv'
  BY InvStep
<1>3. QED
  BY <1>1, <1>2, PTL DEF SupervisorSpec

\* While no removed lock file misled the app, `complete` says so only when every server it has no link to
\* holds nothing (observe_absent, LocalHosts::complete), and no pane is told that a session is gone whose
\* server lives, but by a stop whose link was lost between its two looks at it.
THEOREM OverOnlyWhenGone == SupervisorSpec => []OverMeansGone
<1>1. ASSUME SupInv, ~misled
      PROVE  OverMeansGone
  <2>1. DeadMeansGone
    BY <1>1 DEF SupInv, EndpointKept
  <2>2. ASSUME Complete, proc["cur"] # "gone", holds["cur"], Known("cur"), ~Client("cur")
        PROVE  FALSE
    <3>1. phase \in {"Stopped", "Down", "Failing"} /\ endpoint["cur"] = "Dead"
      BY <2>2 DEF Complete
    <3>2. QED
      BY <2>1, <2>2, <3>1 DEF DeadMeansGone, Known
  <2>3. ASSUME Complete, proc["old"] # "gone", holds["old"], Known("old"), ~Client("old")
        PROVE  FALSE
    <3>1. drain.in
      BY <1>1, <2>3 DEF SupInv, Known, OlderKept, OlderIsOver
    <3>2. endpoint["old"] = "Dead"
      BY <2>3, <3>1 DEF Complete
    <3>3. QED
      BY <2>1, <2>3, <3>2 DEF DeadMeansGone
  <2>4. QED
    BY <2>1, <2>2, <2>3 DEF OverMeansGone, DeadMeansGone, Slots
<1>2. SupInv => OverMeansGone
  BY <1>1 DEF OverMeansGone
<1>3. QED
  BY <1>2, SupervisorKeeps, PTL

\* No bring-up begins while the user's stop, or the crash budget's verdict, stands (recover, ensure).
THEOREM StartsAreAsked == SupervisorSpec => NothingStartsUnasked
<1>1. ASSUME SupInv'
      PROVE  [op.at # "kicks" /\ op'.at = "kicks" => intent' = "run"]_allSupVars
  BY <1>1 DEF SupInv, AskedKept, Resting
<1>2. QED
  BY <1>1, SupervisorKeeps, PTL DEF NothingStartsUnasked
==============================================================================
