---------------------------- MODULE RemotePanes ----------------------------
(***************************************************************************)
(* Terminal panes whose processes run on a session host, over the links to *)
(* it (src-tauri/src/sessions/remote.rs, crates/remote/src/client.rs and   *)
(* the part of crates/remote/src/host.rs that hands out a link).  A pane   *)
(* opens a session or finds the one of its address, attaches to it from    *)
(* its anchor on every link, and types one launch line; links die with     *)
(* requests and answers under way; the host restarts and numbers its       *)
(* sessions from 1 again; and the sessions found on a host are adopted.    *)
(* All panes here have one address (label and provider): panes of others   *)
(* never meet.  Of a session's output only the numbers of its chunks are   *)
(* kept, and the host replays from any anchor: what it cannot replay is    *)
(* PtyStream's business, how it orders what it sends HostSession's.        *)
(***************************************************************************)
EXTENDS Naturals, Sequences, FiniteSets, FiniteSetsExt

CONSTANTS
  MaxPanes,   \* bound: panes
  MaxIds,     \* bound: sessions of one boot
  Budgets     \* a profile and bounds: how often a user, a network and a host do what they do

Does == {"open", "show", "hide", "close", "seed", "expire", "link", "drop", "boot", "out", "exit",
         "refuse", "mislist", "had"}

ASSUME PanesAssumption ==
  /\ MaxPanes \in Nat /\ MaxIds \in Nat
  /\ \A b \in Budgets : /\ b = [what \in Does \cup {"adopts"} |-> b[what]]
                        /\ b.adopts \in BOOLEAN /\ b.had \in 0 .. MaxIds
                        /\ \A what \in Does : b[what] \in Nat

Panes == 1 .. MaxPanes
Ids == 1 .. MaxIds
None == 0           \* no link, no session, no boot, no pane
Adoption == MaxPanes + 1

VARIABLES
  host,     \* [boot, ses, strays]: the host's boot, its sessions, opens of links let go of
  links,    \* each RemoteClient: the boot it reached, whether it is up, frames on their way to it
  live,     \* RemoteHost's live client
  news,     \* Reconnected announcements `watch` has yet to take
  feeds,    \* routes of the clients with their receivers, and the pumps (gen # 0) reading them
  pane,     \* each pane's State, and the launch lines queued to be typed
  bind,     \* what each pane's turn is held for
  queue,    \* the binds and detaches that wait for a turn
  opening,  \* who holds Inner::opening
  watch,    \* the watch task, the adoption it runs, and the boot last adopted
  opens     \* opens before they claim or insert a pane: the client each was given

panesVars == <<host, links, live, news, feeds, pane, bind, queue, opening, watch, opens>>

\* For the properties alone, but for left.adopts, the profile.
VARIABLES
  left,     \* Profile::adopt_all with on_gone Lost (else Daedalus), and what is left of the budget
  seen,     \* each pane's view: the chunk it needs next, whether it got each, and two exceptions
  typed     \* launch lines that arrived: <<pane, the one that opened the session>>; who asked for one

panesHistory == <<left, seen, typed>>
allPanesVars == <<panesVars, panesHistory>>

Adopts == left.adopts
Unborn == [born |-> FALSE, in |-> FALSE, view |-> FALSE, remote |-> None, boot |-> None,
           mine |-> FALSE, gen |-> 0, on |-> None, anchor |-> 0, seed |-> FALSE, closing |-> FALSE,
           ended |-> FALSE, lost |-> FALSE, input |-> <<>>]
Resting == [at |-> "idle", who |-> "none", l |-> None, gen |-> 0, from |-> 0, upto |-> 0, ses |-> None,
            taken |-> {}, closing |-> FALSE]
Watching == [at |-> "idle", l |-> None, binds |-> {}, alive |-> {}, dead |-> {}, again |-> FALSE]

NewSession(by) == [st |-> "runs", out |-> 0, to |-> None, by |-> by]

\* The app starts; the host may have been running, with sessions of the app's former run.
PanesInit ==
  /\ left \in Budgets
  /\ host = [boot |-> 1, ses |-> [id \in 1 .. left.had |-> NewSession(None)], strays |-> 0]
  /\ links = <<>> /\ live = None /\ news = 0 /\ feeds = {}
  /\ pane = [p \in Panes |-> Unborn]
  /\ bind = [p \in Panes |-> Resting]
  /\ queue = {} /\ opening = None /\ opens = <<>>
  /\ watch = [task |-> Watching, adopted |-> None]
  /\ seen = [p \in Panes |-> [next |-> 1, whole |-> TRUE, replayed |-> FALSE, late |-> FALSE]]
  /\ typed = [lines |-> <<>>, askers |-> {}]

net == <<links, live, news>>
tasks == <<queue, opening, watch, opens>>
mind == <<pane, bind, tasks>>

Spend(what) == left[what] > 0 /\ left' = [left EXCEPT ![what] = @ - 1]

Up(l) == l # None /\ links[l].up
BootOf(l) == links[l].boot
Live(p) == Up(pane[p].on)
\* What the host does for link `l` it does while that link is up, on the boot it reached.
Session(id) == host.ses[id]
Exists(id) == id \in DOMAIN host.ses /\ Session(id).st # "closed"
Alive == {id \in DOMAIN host.ses : Session(id).st = "runs"}
\* Inner::held: the sessions of `boot` that panes of the registry hold, all but `p`.
Held(boot, p) == {pane[q].remote : q \in {r \in Panes \ {p} : pane[r].in /\ pane[r].boot = boot}}
                   \ {None}

\* State::retarget, lose and end.
Retarget(st, view) == [st EXCEPT !.gen = @ + 1, !.view = view, !.on = None]
Lose(st) == [st EXCEPT !.lost = TRUE, !.seed = FALSE, !.on = None, !.gen = @ + 1]
End(st) == [st EXCEPT !.ended = TRUE, !.on = None, !.in = FALSE]
Over(st) == [st EXCEPT !.ended = TRUE, !.in = FALSE]
SetPane(p, st) == pane' = [pane EXCEPT ![p] = st]
Rests(p) == bind' = [bind EXCEPT ![p] = Resting]
At(p, at) == bind' = [bind EXCEPT ![p].at = at]
Unlocks(p) == opening' = IF opening = p THEN None ELSE opening

\* A view is pointed at pane `p`: it has everything up to `anchor`, or wants nothing of it.
Viewed(p, anchor) == seen' = [seen EXCEPT ![p].next = anchor + 1, ![p].replayed = FALSE]
\* It is handed the chunks after `from`, up to `upto`.
Handed(p, from, upto) ==
  IF upto = from THEN seen[p] ELSE
  [seen[p] EXCEPT !.next = upto + 1,
                  !.whole = @ /\ (from + 1 = seen[p].next \/ (seen[p].replayed /\ from + 1 < seen[p].next))]

-----------------------------------------------------------------------------
\* The link.

Put(l, frame) == links' = IF Up(l) THEN [links EXCEPT ![l].wire = Append(@, frame)] ELSE links

\* RemoteHost::run: the next attempt reached the host; set_live, then Reconnected is announced.
Connects ==
  /\ live = None /\ Spend("link")
  /\ links' = Append(links, [boot |-> host.boot, up |-> TRUE, wire |-> <<>>])
  /\ live' = Len(links) + 1
  /\ news' = news + 1
  /\ UNCHANGED <<host, feeds, mind, seen, typed>>

\* Shared::fail: every receiver ends once it is drained, and no frame arrives any more.
Dies(gone) ==
  /\ links' = [l \in DOMAIN links |->
                 IF l \in gone THEN [links[l] EXCEPT !.up = FALSE, !.wire = <<>>] ELSE links[l]]
  /\ feeds' = {IF f.l \in gone THEN [f EXCEPT !.state = "ended"] ELSE f : f \in feeds}

\* A link is lost, or a call over it ran out of time (`within`).
LinkDies ==
  /\ Up(live) /\ Spend("drop")
  /\ Dies({live})
  /\ UNCHANGED <<host, live, news, mind, seen, typed>>

LiveCleared ==
  /\ live # None /\ ~Up(live)
  /\ live' = None
  /\ UNCHANGED <<host, links, news, feeds, mind, panesHistory>>

HostRestarts ==
  /\ Spend("boot")
  /\ host' = [boot |-> host.boot + 1, ses |-> <<>>, strays |-> 0]
  /\ Dies(DOMAIN links)
  /\ UNCHANGED <<live, news, mind, seen, typed>>

\* The process of a session writes, or exits; what it does is sent to where it is attached.
HostOutputs(id) ==
  /\ Spend("out") /\ id \in Alive
  /\ host' = [host EXCEPT !.ses[id].out = @ + 1]
  /\ Put(Session(id).to, [kind |-> "data", ses |-> id, n |-> Session(id).out + 1])
  /\ UNCHANGED <<live, news, feeds, mind, seen, typed>>

SessionEnds(id) ==
  /\ Spend("exit") /\ id \in Alive
  /\ host' = [host EXCEPT !.ses[id].st = "exited"]
  /\ Put(Session(id).to, [kind |-> "exit", ses |-> id, n |-> 0])
  /\ UNCHANGED <<live, news, feeds, mind, seen, typed>>

\* The host's reaper closes a session that is over and attached nowhere.
HostReaps(id) ==
  /\ Session(id).st = "exited" /\ ~Up(Session(id).to)
  /\ host' = [host EXCEPT !.ses[id].st = "closed"]
  /\ UNCHANGED <<net, feeds, mind, panesHistory>>

\* An open whose link died before the host did it: it is done all the same, or never.
StrayOpens ==
  /\ host.strays > 0
  /\ \/ Len(host.ses) < MaxIds /\ host' = [host EXCEPT !.strays = @ - 1, !.ses = Append(@, NewSession(None))]
     \/ host' = [host EXCEPT !.strays = @ - 1]
  /\ UNCHANGED <<net, feeds, mind, panesHistory>>

Route(f, l, id) == f.l = l /\ f.ses = id /\ f.state # "ended"
\* A newer route for a session ends the older one's receiver.
Unrouted(l, id) == {IF Route(f, l, id) THEN [f EXCEPT !.state = "ended"] ELSE f : f \in feeds}
Fed(l, id, event) ==
  {IF Route(f, l, id) /\ f.state = "live" THEN [f EXCEPT !.q = Append(@, event)] ELSE f : f \in feeds}

\* Shared::dispatch: the reader takes the next frame.  A response to an attach makes its route live
\* before the caller sees it; data and an exit go to a live route only.
ReadsData(l, frame) ==
  /\ frame.kind = "data"
  /\ feeds' = Fed(l, frame.ses, frame.n)
  /\ UNCHANGED bind

ReadsExit(l, frame) ==
  /\ frame.kind = "exit"
  /\ feeds' = {IF Route(f, l, frame.ses) /\ f.state = "live" THEN [f EXCEPT !.q = Append(@, None), !.state = "ended"]
               ELSE f : f \in feeds}
  /\ UNCHANGED bind

ReadsAnswer(l, frame) ==
  /\ frame.kind \in {"attached", "gone"}
  /\ feeds' = {IF ~(Route(f, l, frame.ses) /\ f.pane = frame.n /\ f.state = "pending") THEN f
               ELSE [f EXCEPT !.state = IF frame.kind = "attached" THEN "live" ELSE "ended"] : f \in feeds}
  /\ IF bind[frame.n].at = "answering" /\ bind[frame.n].l = l THEN At(frame.n, frame.kind) ELSE UNCHANGED bind

Reads(l) ==
  /\ Up(l) /\ links[l].wire # <<>>
  /\ links' = [links EXCEPT ![l].wire = Tail(@)]
  /\ LET frame == Head(links[l].wire)
     IN ReadsData(l, frame) \/ ReadsExit(l, frame) \/ ReadsAnswer(l, frame)
  /\ UNCHANGED <<host, live, news, pane, tasks, panesHistory>>

-----------------------------------------------------------------------------
\* What the host does with a pane's calls; its answers to all but an attach wait in `bind`.

Calls(p, at) == bind[p].at = at /\ Up(bind[p].l)

HostLists(p) ==
  /\ Calls(p, "finding")
  /\ bind' = [bind EXCEPT ![p].at = "found", ![p].ses = IF Alive \ bind[p].taken = {} THEN None
                                                        ELSE Max(Alive \ bind[p].taken)]
  /\ UNCHANGED <<host, net, feeds, pane, tasks, panesHistory>>

HostOpens(p) ==
  /\ Calls(p, "opening") /\ Len(host.ses) < MaxIds
  /\ host' = [host EXCEPT !.ses = Append(@, NewSession(p))]
  /\ bind' = [bind EXCEPT ![p].at = "opened", ![p].ses = Len(host.ses) + 1]
  /\ UNCHANGED <<net, feeds, pane, tasks, panesHistory>>

\* max_ptys, a command that does not start.
HostRefuses(p) ==
  /\ Calls(p, "opening")
  /\ IF Len(host.ses) = MaxIds THEN UNCHANGED left ELSE Spend("refuse")
  /\ At(p, "refused")
  /\ UNCHANGED <<host, net, feeds, pane, tasks, seen, typed>>

\* The replay's end is the chunk the response carries; a session that is over is said to be again.
HostAttaches(p) ==
  LET l == bind[p].l
      id == bind[p].ses
      frame(kind) == [kind |-> kind, ses |-> id, n |-> p]
      exit == IF Session(id).st = "exited" THEN <<[kind |-> "exit", ses |-> id, n |-> 0]>> ELSE <<>>
  IN
  /\ Calls(p, "attaching")
  /\ IF Exists(id)
     THEN /\ host' = [host EXCEPT !.ses[id].to = l]
          /\ links' = [links EXCEPT ![l].wire = Append(@, frame("attached")) \o exit]
          /\ bind' = [bind EXCEPT ![p].at = "answering", ![p].upto = Session(id).out]
     ELSE /\ Put(l, frame("gone"))
          /\ At(p, "answering")
          /\ UNCHANGED host
  /\ UNCHANGED <<live, news, feeds, pane, tasks, panesHistory>>

\* pty.close; whoever is attached is told.
HostCloses(p) ==
  LET id == bind[p].ses IN
  /\ Calls(p, "closing")
  /\ IF Exists(id)
     THEN /\ host' = [host EXCEPT !.ses[id].st = "closed"]
          /\ IF id \in Alive THEN Put(Session(id).to, [kind |-> "exit", ses |-> id, n |-> 0])
             ELSE UNCHANGED links
     ELSE UNCHANGED <<host, links>>
  /\ At(p, "closed")
  /\ UNCHANGED <<live, news, feeds, pane, tasks, panesHistory>>

HostDetaches(p) ==
  LET id == bind[p].ses IN
  /\ Calls(p, "detaching")
  /\ host' = IF Exists(id) /\ Session(id).to = bind[p].l THEN [host EXCEPT !.ses[id].to = None] ELSE host
  /\ Rests(p)
  /\ UNCHANGED <<net, feeds, pane, tasks, panesHistory>>

\* Disconnected: the link died first.  The host may still do an open it had read.
CallFails(p) ==
  /\ bind[p].at \in {"finding", "found", "opening", "opened", "refused", "attaching", "answering", "closing",
                     "closed", "detaching"}
  /\ ~Up(bind[p].l)
  /\ host' = IF bind[p].at = "opening" /\ BootOf(bind[p].l) = host.boot
             THEN [host EXCEPT !.strays = @ + 1] ELSE host
  /\ Rests(p) /\ Unlocks(p)
  /\ feeds' = {f \in feeds : ~(f.pane = p /\ f.gen = 0)}
  /\ UNCHANGED <<net, pane, queue, watch, opens, panesHistory>>

-----------------------------------------------------------------------------
\* bind: one holder of a pane's turn at a time.

BindOf(p, who, l) == [pane |-> p, who |-> who, l |-> l]
DetachOf(p, gen, id, boot) == [pane |-> p, who |-> "hide", gen |-> gen, ses |-> id, boot |-> boot]

TakesTurn(t) == t \in queue /\ bind[t.pane].at = "idle" /\ queue' = queue \ {t}
Binds(t) == t.who # "hide" /\ TakesTurn(t)
BoundElsewhere_Unasked(p, l) == FALSE

\* Another boot's session: numbered like one of this host's, and gone.
BoundElsewhere(p, l) == pane[p].remote # None /\ pane[p].boot # BootOf(l)
\* Nothing to do for it, or its link is not the live one (link_hello): that one's connect binds again.
Moot(p, l) ==
  LET st == pane[p] IN
  \/ live # l \/ st.ended
  \/ st.lost /\ ~st.closing
  \/ ~st.lost /\ (Live(p) \/ (~st.view /\ ~st.closing))

BindMoot(t) ==
  /\ Binds(t) /\ Moot(t.pane, t.l)
  /\ UNCHANGED <<host, net, feeds, pane, bind, opening, watch, opens, panesHistory>>

BindFindsItGone(t) ==
  LET p == t.pane IN
  /\ Binds(t) /\ ~Moot(p, t.l)
  /\ pane[p].lost \/ BoundElsewhere(p, t.l)
  /\ SetPane(p, IF pane[p].closing THEN Over(pane[p])
                ELSE IF Adopts THEN Lose(pane[p]) ELSE End(pane[p]))
  /\ UNCHANGED <<host, net, feeds, bind, opening, watch, opens, panesHistory>>

\* pty_attach: the route is there before the request leaves, and takes nothing yet.
Attaches(p, b) ==
  /\ bind' = [bind EXCEPT ![p] = [b EXCEPT !.at = "attaching"]]
  /\ feeds' = IF ~Up(b.l) THEN feeds
              ELSE Unrouted(b.l, b.ses) \cup {[pane |-> p, gen |-> 0, l |-> b.l, ses |-> b.ses,
                                              state |-> "pending", q |-> <<>>]}
Finds(p, b) ==
  bind' = [bind EXCEPT ![p] = [b EXCEPT !.at = "finding", !.taken = Held(BootOf(b.l), p)]]

BindGoes(t) ==
  LET p == t.pane
      st == pane[p]
      b == [Resting EXCEPT !.who = t.who, !.l = t.l, !.gen = st.gen, !.from = st.anchor,
                           !.ses = st.remote, !.closing = st.closing]
  IN
  /\ Binds(t) /\ ~Moot(p, t.l) /\ ~st.lost /\ ~BoundElsewhere(p, t.l)
  /\ SetPane(p, [st EXCEPT !.on = None])
  /\ \/ /\ ~st.closing /\ st.remote # None
        /\ Attaches(p, b)
     \/ /\ st.closing /\ st.remote # None
        /\ bind' = [bind EXCEPT ![p] = [b EXCEPT !.at = "closing"]] /\ UNCHANGED feeds
     \/ /\ st.remote = None /\ (st.closing \/ ~Adopts)
        /\ Finds(p, b) /\ UNCHANGED feeds
     \/ /\ st.remote = None /\ ~st.closing /\ Adopts
        /\ bind' = [bind EXCEPT ![p] = [b EXCEPT !.at = "locking"]] /\ UNCHANGED feeds
  /\ UNCHANGED <<host, net, opening, watch, opens, panesHistory>>

GetsOpening_Unasked(p) ==
  /\ bind[p].at = "locking" /\ UNCHANGED opening
  /\ IF pane[p].lost THEN Rests(p) ELSE Finds(p, bind[p])
  /\ UNCHANGED <<host, net, feeds, pane, queue, watch, opens, panesHistory>>

\* One finder or opener of the host at a time; a pane lost meanwhile starts nothing.
GetsOpening(p) ==
  /\ bind[p].at = "locking" /\ opening = None
  /\ IF pane[p].lost THEN Rests(p) /\ UNCHANGED opening ELSE Finds(p, bind[p]) /\ opening' = p
  /\ UNCHANGED <<host, net, feeds, pane, queue, watch, opens, panesHistory>>

\* The pane has its session, unless it was lost while the host answered: then nobody will ever
\* close what was opened for it, and it is closed here.
Commits(p, mine) ==
  IF pane[p].lost
  THEN /\ IF mine THEN At(p, "closing") /\ UNCHANGED opening ELSE Rests(p) /\ Unlocks(p)
       /\ UNCHANGED <<pane, feeds>>
  ELSE /\ SetPane(p, [pane[p] EXCEPT !.remote = bind[p].ses, !.boot = BootOf(bind[p].l), !.mine = mine,
                                     !.seed = @ /\ mine])
       /\ Attaches(p, bind[p]) /\ Unlocks(p)

Found(p) ==
  /\ bind[p].at = "found" /\ ~bind[p].closing
  /\ IF bind[p].ses = None THEN At(p, "opening") /\ UNCHANGED <<pane, feeds, opening>>
     ELSE Commits(p, FALSE)
  /\ UNCHANGED <<host, net, queue, watch, opens, panesHistory>>

Opened(p) ==
  /\ bind[p].at = "opened"
  /\ Commits(p, TRUE)
  /\ UNCHANGED <<host, net, queue, watch, opens, panesHistory>>

\* The open or the attach of a view fails with it; on a later connect the pane says so and is over.
Refused(p) ==
  /\ bind[p].at = "refused"
  /\ SetPane(p, [pane[p] EXCEPT !.in = FALSE, !.ended = @ \/ bind[p].who = "watch"])
  /\ Rests(p) /\ Unlocks(p)
  /\ UNCHANGED <<host, net, feeds, queue, watch, opens, panesHistory>>

\* A closing pane without a session closes the one it finds, if any.
FoundToClose(p) ==
  /\ bind[p].at = "found" /\ bind[p].closing
  /\ IF bind[p].ses = None THEN SetPane(p, Over(pane[p])) /\ Rests(p)
     ELSE At(p, "closing") /\ UNCHANGED pane
  /\ UNCHANGED <<host, net, feeds, tasks, panesHistory>>

Closed(p) ==
  /\ bind[p].at = "closed"
  /\ IF bind[p].closing THEN SetPane(p, Over(pane[p])) ELSE UNCHANGED pane
  /\ Rests(p) /\ Unlocks(p)
  /\ UNCHANGED <<host, net, feeds, queue, watch, opens, panesHistory>>

Unattached(p) == {f \in feeds : ~(f.pane = p /\ f.gen = 0)}

\* not_found: the host no longer has the session.
Gone(p) ==
  /\ bind[p].at = "gone"
  /\ SetPane(p, IF Adopts THEN Lose(pane[p]) ELSE End(pane[p]))
  /\ feeds' = Unattached(p)
  /\ Rests(p)
  /\ UNCHANGED <<host, net, tasks, panesHistory>>

\* Another attach, detach or close of the pane came while the host answered.
Superseded(p) == pane[p].gen # bind[p].gen \/ pane[p].ended \/ pane[p].closing

AttachSuperseded(p) ==
  /\ bind[p].at = "attached" /\ Superseded(p)
  /\ feeds' = Unattached(p)
  /\ Rests(p)
  /\ UNCHANGED <<host, net, pane, tasks, panesHistory>>

OwnGeneration_Kept(st) == st.gen
\* An attach's own generation: the pump of the one it replaces must not report on this one.
OwnGeneration(st) == st.gen + 1

\* The replay is handed over, output flows, and a launch line still fresh is typed.
Attached(p) ==
  LET st == pane[p]
      gen == OwnGeneration(st)
  IN
  /\ bind[p].at = "attached" /\ ~Superseded(p)
  /\ \E fresh \in BOOLEAN :
       SetPane(p, [st EXCEPT !.gen = gen, !.on = bind[p].l, !.anchor = bind[p].upto,
                             !.seed = @ /\ ~st.mine,
                             !.input = IF st.seed /\ st.mine /\ fresh THEN Append(@, gen) ELSE @])
  /\ feeds' = {IF f.pane = p /\ f.gen = 0 THEN [f EXCEPT !.gen = gen] ELSE f : f \in feeds}
  /\ seen' = IF st.view
             THEN [seen EXCEPT ![p] = [Handed(p, bind[p].from, bind[p].upto) EXCEPT !.replayed = FALSE]]
             ELSE seen
  /\ Rests(p)
  /\ UNCHANGED <<host, net, tasks, left, typed>>

DetachGoes(t) ==
  LET p == t.pane IN
  /\ t.who = "hide" /\ TakesTurn(t)
  /\ IF pane[p].gen = t.gen /\ live # None /\ BootOf(live) = t.boot
     THEN /\ bind' = [bind EXCEPT ![p] = [Resting EXCEPT !.at = "detaching", !.l = live, !.ses = t.ses]]
          /\ feeds' = Unrouted(live, t.ses)
     ELSE UNCHANGED <<bind, feeds>>
  /\ UNCHANGED <<host, net, pane, opening, watch, opens, panesHistory>>

-----------------------------------------------------------------------------
\* The pump of an attach, and the writer.

Forgets(f) == feeds' = feeds \ {f}
Drains(f) == feeds' = (feeds \ {f}) \cup {[f EXCEPT !.q = Tail(@)]}
Current_Always(f) == TRUE
Current(f) == pane[f.pane].gen = f.gen

PumpSuperseded(f) ==
  /\ f.gen # 0 /\ f.q # <<>> /\ ~Current(f)
  /\ Forgets(f)
  /\ UNCHANGED <<host, net, mind, panesHistory>>

\* An attach whose anchor was read before this chunk will replay it: `replayed`.
Forwards(f) ==
  LET p == f.pane
      n == Head(f.q)
  IN
  /\ f.gen # 0 /\ f.q # <<>> /\ Current(f) /\ n # None
  /\ Drains(f)
  /\ SetPane(p, [pane[p] EXCEPT !.anchor = @ + 1])
  /\ seen' = IF pane[p].view
             THEN [seen EXCEPT ![p] = [Handed(p, n - 1, n) EXCEPT
                     !.replayed = @ \/ bind[p].at \in {"attaching", "answering", "attached"}]]
             ELSE seen
  /\ UNCHANGED <<host, net, bind, tasks, left, typed>>

ForwardsExit(f) ==
  /\ f.gen # 0 /\ f.q # <<>> /\ Current(f) /\ Head(f.q) = None
  /\ Forgets(f)
  /\ SetPane(f.pane, End(pane[f.pane]))
  /\ UNCHANGED <<host, net, bind, tasks, panesHistory>>

PumpEnds(f) ==
  LET p == f.pane IN
  /\ f.gen # 0 /\ f.q = <<>> /\ f.state = "ended"
  /\ Forgets(f)
  /\ SetPane(p, IF Current(f) /\ ~pane[p].ended /\ ~pane[p].lost THEN [pane[p] EXCEPT !.on = None] ELSE pane[p])
  /\ UNCHANGED <<host, net, bind, tasks, panesHistory>>

\* write_loop: a line typed at an attach that was replaced is dropped; one sent may be lost with the link.
TypesLine(p) ==
  LET st == pane[p]
      id == st.remote
  IN
  /\ st.input # <<>>
  /\ SetPane(p, [st EXCEPT !.input = Tail(@)])
  /\ \/ /\ Head(st.input) = st.gen /\ Live(p) /\ id \in Alive
        /\ typed' = [typed EXCEPT !.lines = Append(@, <<p, Session(id).by>>)]
     \/ UNCHANGED typed
  /\ UNCHANGED <<host, net, feeds, bind, tasks, left, seen>>

-----------------------------------------------------------------------------
\* watch and adopt_all.

Task(at) == watch' = [watch EXCEPT !.task.at = at]
Idles == watch' = [watch EXCEPT !.task = Watching]
\* Panes a connect has work for; a link that died counts as not attached before the pump noticed.
Waiting == {p \in Panes : LET st == pane[p] IN
              st.in /\ ~st.ended /\ ~st.lost /\ ~Live(p) /\ (st.view \/ st.closing)}

TakesNews ==
  LET binds == {BindOf(p, "watch", live) : p \in Waiting} IN
  /\ watch.task.at = "idle" /\ news > 0
  /\ news' = news - 1
  /\ IF live = None THEN UNCHANGED <<queue, watch>>
     ELSE /\ queue' = queue \cup binds
          /\ IF Adopts /\ watch.adopted # BootOf(live)
             THEN watch' = [watch EXCEPT !.task = [Watching EXCEPT !.at = "joins", !.l = live, !.binds = binds]]
             ELSE UNCHANGED watch
  /\ seen' = [p \in Panes |-> [seen[p] EXCEPT !.late = FALSE]]
  /\ UNCHANGED <<host, links, live, feeds, pane, bind, opening, opens, left, typed>>

\* After the panes that asked for a session by address have had theirs.
Joins ==
  /\ watch.task.at = "joins"
  /\ \A t \in watch.task.binds : /\ t \notin queue
                                 /\ bind[t.pane].who # "watch" \/ bind[t.pane].l # t.l
  /\ Task("locking")
  /\ UNCHANGED <<host, net, feeds, pane, bind, queue, opening, opens, panesHistory>>

AdoptionLocks ==
  /\ watch.task.at = "locking" /\ opening = None
  /\ opening' = Adoption
  /\ Task("listing")
  /\ UNCHANGED <<host, net, feeds, pane, bind, queue, opens, panesHistory>>

HostListsAll ==
  /\ watch.task.at = "listing" /\ Up(watch.task.l)
  /\ watch' = [watch EXCEPT !.task.at = "listed", !.task.alive = Alive,
                            !.task.dead = {id \in DOMAIN host.ses : Session(id).st = "exited"}]
  /\ UNCHANGED <<host, net, feeds, pane, bind, queue, opening, opens, panesHistory>>

AdoptionFails ==
  /\ watch.task.at \in {"listing", "listed"} /\ ~Up(watch.task.l)
  /\ Idles /\ opening' = None
  /\ UNCHANGED <<host, net, feeds, pane, bind, queue, opens, panesHistory>>

\* An error of the host: once more after a while, and then given up on.
ListingRefused ==
  /\ watch.task.at = "listing" /\ Spend("mislist")
  /\ opening' = None
  /\ IF watch.task.again THEN Idles
     ELSE watch' = [watch EXCEPT !.task.at = "again", !.task.again = TRUE]
  /\ UNCHANGED <<host, net, feeds, pane, bind, queue, opens, seen, typed>>

ListsAgain ==
  /\ watch.task.at = "again"
  /\ IF live = watch.task.l THEN Task("locking") ELSE Idles
  /\ UNCHANGED <<host, net, feeds, pane, bind, queue, opening, opens, panesHistory>>

Born == {p \in Panes : pane[p].born}
\* The sessions that panes minted now take: the first new pane the smallest, and so on.
Takers(minted, new) == {takes \in [minted -> new] : \A p, q \in minted : p < q => takes[p] < takes[q]}
Adopted(boot, id) == [Unborn EXCEPT !.born = TRUE, !.in = TRUE, !.remote = id, !.boot = boot]

\* Each live session no pane holds becomes a pane that shows nothing; the exited ones are closed.
TakesOver ==
  LET boot == BootOf(watch.task.l)
      taken == Held(boot, None)
      new == watch.task.alive \ taken
      minted == Cardinality(Born) + 1 .. Cardinality(Born) + Cardinality(new)
  IN
  /\ watch.task.at = "listed"
  /\ minted \subseteq Panes
  /\ \E takes \in Takers(minted, new) :
       pane' = [p \in Panes |-> IF p \in minted THEN Adopted(boot, takes[p]) ELSE pane[p]]
  /\ opening' = None
  /\ watch' = [watch EXCEPT !.task.at = "reaping", !.task.alive = {}, !.task.dead = @ \ taken]
  /\ UNCHANGED <<host, net, feeds, bind, queue, opens, panesHistory>>

ClosesExited ==
  /\ watch.task.at = "reaping"
  /\ IF watch.task.dead = {}
     THEN watch' = [task |-> Watching, adopted |-> BootOf(watch.task.l)] /\ UNCHANGED host
     ELSE LET id == Min(watch.task.dead) IN
          /\ watch' = [watch EXCEPT !.task.dead = @ \ {id}]
          /\ host' = IF Up(watch.task.l) THEN [host EXCEPT !.ses[id].st = "closed"] ELSE host
  /\ UNCHANGED <<net, feeds, pane, bind, queue, opening, opens, panesHistory>>

-----------------------------------------------------------------------------
\* What the window asks for.

OpenAsked ==
  /\ Spend("open")
  /\ opens' = Append(opens, live)
  /\ UNCHANGED <<host, net, feeds, pane, bind, queue, opening, watch, seen, typed>>

\* Inner::unclaimed.
Unclaimed == {p \in Panes : LET st == pane[p] IN
  st.in /\ st.remote # None /\ ~(st.mine \/ st.view \/ st.ended \/ st.closing \/ st.lost)}
\* A pane shown from here on needs a bind: the client it was given binds it, or a connect to come.
Shown(p, client) ==
  /\ queue' = IF client # None THEN queue \cup {BindOf(p, "open", client)} ELSE queue
  /\ opens' = Tail(opens)
  /\ seen' = [seen EXCEPT ![p] = [next |-> pane'[p].anchor + 1, whole |-> TRUE, replayed |-> FALSE,
                                  late |-> live # None /\ client # live /\ news = 0]]

Claims ==
  /\ opens # <<>> /\ Adopts /\ opening = None
  /\ \E p \in Unclaimed : SetPane(p, Retarget(pane[p], TRUE)) /\ Shown(p, Head(opens))
  /\ UNCHANGED <<host, net, feeds, bind, opening, watch, left, typed>>

Inserts ==
  /\ opens # <<>> /\ (Adopts => opening = None /\ Unclaimed = {})
  /\ LET p == Cardinality(Born) + 1 IN
       /\ p \in Panes
       /\ SetPane(p, [Unborn EXCEPT !.born = TRUE, !.in = TRUE, !.view = TRUE])
       /\ Shown(p, Head(opens))
  /\ UNCHANGED <<host, net, feeds, bind, opening, watch, left, typed>>

\* attach: a page that kept the pane's screen has all it was handed, a new one nothing.
Shows(p) ==
  /\ pane[p].in /\ Spend("show")
  /\ \E anchor \in {0, seen[p].next - 1} :
       /\ SetPane(p, [Retarget(pane[p], TRUE) EXCEPT !.anchor = anchor])
       /\ Viewed(p, anchor)
  /\ queue' = IF live # None THEN queue \cup {BindOf(p, "show", live)} ELSE queue
  /\ UNCHANGED <<host, net, feeds, bind, opening, watch, opens, typed>>

\* detach.
Hides(p) ==
  LET st == pane[p] IN
  /\ st.in /\ st.view /\ Spend("hide")
  /\ SetPane(p, Retarget(st, FALSE))
  /\ queue' = IF st.remote # None /\ ~st.lost
              THEN queue \cup {DetachOf(p, st.gen + 1, st.remote, st.boot)} ELSE queue
  /\ UNCHANGED <<host, net, feeds, bind, opening, watch, opens, seen, typed>>

Closes(p) ==
  LET st == [Retarget(pane[p], FALSE) EXCEPT !.closing = TRUE] IN
  /\ pane[p].in /\ ~pane[p].closing /\ Spend("close")
  /\ SetPane(p, IF st.lost THEN Over(st) ELSE st)
  /\ queue' = IF ~st.lost /\ live # None THEN queue \cup {BindOf(p, "close", live)} ELSE queue
  /\ UNCHANGED <<host, net, feeds, bind, opening, watch, opens, seen, typed>>

FoundRunning_NotYet(st) == FALSE

\* A session found again is already running its launch.
FoundRunning(st) == st.remote # None /\ ~st.mine

\* seed: the window asks once for each pane.
Seeds(p) ==
  LET st == pane[p] IN
  /\ st.in /\ p \notin typed.askers /\ Spend("seed")
  /\ typed' = [typed EXCEPT !.askers = @ \cup {p}]
  /\ SetPane(p, IF st.lost \/ FoundRunning(st) THEN st
                ELSE IF Live(p) THEN [st EXCEPT !.input = Append(@, st.gen)]
                ELSE [st EXCEPT !.seed = TRUE])
  /\ UNCHANGED <<host, net, feeds, bind, tasks, seen>>

\* expire_if_unbound: it waited for too long to get a session.
Expires(p) ==
  LET st == pane[p] IN
  /\ Adopts /\ st.born /\ st.remote = None /\ ~st.ended /\ ~st.closing /\ ~st.lost /\ Spend("expire")
  /\ SetPane(p, Lose(st))
  /\ UNCHANGED <<host, net, feeds, bind, tasks, seen, typed>>

-----------------------------------------------------------------------------
\* What runs on its own: the tasks of the panes and the watch, the readers, the host at work.
BindWorks ==
  \/ \E t \in queue : BindMoot(t) \/ BindFindsItGone(t) \/ BindGoes(t) \/ DetachGoes(t)
  \/ \E p \in Panes : GetsOpening(p) \/ Found(p) \/ Opened(p) \/ Refused(p) \/ FoundToClose(p) \/ Closed(p)
                      \/ Gone(p) \/ AttachSuperseded(p) \/ Attached(p) \/ CallFails(p) \/ TypesLine(p)
PumpWorks == \E f \in feeds : PumpSuperseded(f) \/ Forwards(f) \/ ForwardsExit(f) \/ PumpEnds(f)
WatchWorks == TakesNews \/ Joins \/ AdoptionLocks \/ AdoptionFails \/ ListsAgain \/ TakesOver \/ ClosesExited
HostWorks ==
  \/ HostListsAll
  \/ \E p \in Panes : HostLists(p) \/ HostOpens(p) \/ HostRefuses(p) \/ HostAttaches(p) \/ HostCloses(p)
                      \/ HostDetaches(p)
LinkWorks == LiveCleared \/ \E l \in DOMAIN links : Reads(l)
OpenWorks == Claims \/ Inserts

PanesWork == BindWorks \/ PumpWorks \/ WatchWorks \/ HostWorks \/ LinkWorks \/ OpenWorks

Environment ==
  \/ Connects \/ LinkDies \/ HostRestarts \/ StrayOpens \/ ListingRefused \/ OpenAsked
  \/ \E id \in DOMAIN host.ses : HostOutputs(id) \/ SessionEnds(id) \/ HostReaps(id)
  \/ \E p \in Panes : Shows(p) \/ Hides(p) \/ Closes(p) \/ Seeds(p) \/ Expires(p)

PanesNext == PanesWork \/ Environment

\* Every task that can go on does; nobody has to act, and no link has to come.
PanesSpec == PanesInit /\ [][PanesNext]_allPanesVars /\ WF_allPanesVars(PanesWork)

-----------------------------------------------------------------------------
\* Types, with what a turn keeps: a pane has one attach under way at most, one pump that reports, and no
\* call of a pane is on its way while the pane rests.
PanesTypeOK ==
  /\ live \in 0 .. Len(links) /\ news \in 0 .. Len(links)
  /\ opening \in 0 .. Adoption
  /\ \A p \in Panes :
       /\ pane[p].in => pane[p].born
       /\ pane[p].remote \in Ids \cup {None}
       /\ pane[p].mine => pane[p].remote # None
       /\ Cardinality({f \in feeds : f.pane = p /\ f.gen = 0}) <= 1
       /\ Cardinality({f \in feeds : f.pane = p /\ f.gen = pane[p].gen}) <= 1
       /\ (\E f \in feeds : f.pane = p /\ f.gen = 0) => bind[p].at \in {"attaching", "answering", "attached", "gone"}
  /\ opening \in Panes => bind[opening].at \in {"finding", "found", "opening", "opened", "refused", "closing", "closed"}

\* No two panes hold one session: one that looks for its session takes none that another pane holds
\* (docs/remote.md:490-491, and the doc of `find`).
HeldOnce ==
  \A p, q \in Panes :
    p # q /\ pane[p].in /\ pane[q].in /\ pane[p].remote # None /\ pane[p].boot = pane[q].boot
      => pane[p].remote # pane[q].remote

\* On a host that adopts that is so, however the opens, the finds and the adoption of a connect meet: two
\* panes would type into one agent (`opening`).
NeverTwoPanes == Adopts => HeldOnce

\* A host that restarted is asked nothing about a session of its former boot, which it numbers like one
\* of its own: no attach, close, detach or input of a pane goes to another boot than its session's.
NeverAStranger ==
  \A p \in Panes :
    /\ pane[p].remote # None /\ bind[p].at \in {"attaching", "answering", "closing", "detaching"}
         => BootOf(bind[p].l) = pane[p].boot
    /\ Live(p) => BootOf(pane[p].on) = pane[p].boot

\* A launch line is typed once, and only into a session its own pane opened: never into a found agent.
LaunchTypedOnce ==
  \A i \in DOMAIN typed.lines :
    /\ typed.lines[i][1] = typed.lines[i][2]
    /\ \A j \in DOMAIN typed.lines : typed.lines[i] = typed.lines[j] => i = j

\* A view is handed every chunk after its anchor, once and in order, over links that die and attaches that
\* replace each other, while its pane is of the registry and panes do not share sessions (HeldOnce).  One
\* repetition is left out: what the pump of a dead link still hands over after the next attach read the
\* anchor is replayed by it again.
ViewGetsTheStream ==
  Adopts \/ Cardinality(Born) <= 1 => \A p \in Panes : pane[p].in => seen[p].whole

\* A pane that is shown or being closed does not wait for ever over a link that is up: it attaches, ends,
\* is lost or closed, or the link dies.  A pane made for a client that was replaced meanwhile waits for the
\* connect after that (`late`).
Settled(p) ==
  LET st == pane[p] IN
  ~st.in \/ st.lost \/ Live(p) \/ (~st.view /\ ~st.closing) \/ seen[p].late

=============================================================================
