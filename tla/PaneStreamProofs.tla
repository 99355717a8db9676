-------------------------- MODULE PaneStreamProofs --------------------------
(***************************************************************************)
(* Proof that a pane's view gets its session's output (ViewGetsTheStream   *)
(* of RemotePanes), for every number of panes, sessions and links and      *)
(* every budget of what users, networks and hosts do.                      *)
(*                                                                         *)
(* The invariant follows a chunk from the session to the view.  The last   *)
(* link alone carries frames (OneUp, Following, Carries).  Every route is  *)
(* that of the attach under way or of the one in force, or nobody reads    *)
(* it (Routes).  What a route holds follows what the view has (InOrder),   *)
(* what is on the wire follows that, up to all the session made, which     *)
(* sends there (Coming), and an answered attach ends no earlier than the   *)
(* pump before it brought the view (Replays).  A detach cuts none of these *)
(* (Leaving): its pane has the session, and no other pane has it.          *)
(***************************************************************************)
EXTENDS RemotePanesProofs

\* A pane of the registry, where panes do not share sessions.
Apart == Adopts \/ Cardinality(Born) <= 1
Watched(p) == pane[p].in /\ Apart

\* One link is up at most, the last one, and nothing is on its way over the others.
OneUp ==
  /\ live \in {None, Len(links)}
  /\ \A l \in 1 .. Len(links) : IF links[l].up THEN l = live ELSE links[l].wire = <<>>
\* Boots follow each other, and a pane's session is of one that a link reached.
Following ==
  /\ \A l \in 1 .. Len(links) : \A m \in 1 .. l : BootOf(m) <= BootOf(l)
  /\ \A p \in Panes : pane[p].remote # None => Len(links) # 0 /\ pane[p].boot <= BootOf(Len(links))

\* A session runs no more, or its boot is over.
Done(boot, id) == InBoot(boot, id) /\ (boot = host.boot => host.ses[id].st # "runs")
\* What is on its way: output the session made, and the one answer of an attach that waits for it.
Answers(frame, p) == frame.kind \in {"attached", "gone"} /\ frame.n = p
Written(frame) ==
  frame.kind = "data" => frame.ses \in 1 .. Len(host.ses) /\ frame.n \in 1 .. host.ses[frame.ses].out
Answered(l, frame) ==
  frame.kind \in {"attached", "gone"} =>
    /\ frame.n \in Panes /\ bind[frame.n].at = "answering" /\ bind[frame.n].l = l
    /\ bind[frame.n].ses = frame.ses
    /\ frame.kind = "gone" => Done(BootOf(l), frame.ses)
Once(wire) ==
  \A i, j \in 1 .. Len(wire) : \A p \in Panes : Answers(wire[i], p) /\ Answers(wire[j], p) => i = j
Carries ==
  \A l \in 1 .. Len(links) :
    /\ \A i \in 1 .. Len(links[l].wire) : Written(links[l].wire[i]) /\ Answered(l, links[l].wire[i])
    /\ Once(links[l].wire)

\* The routes: of an attach under way, and of the attach that is in force.
InForce(f) == f.gen # 0 /\ f.gen = pane[f.pane].gen
Coded(f) ==
  /\ f.l \in 1 .. Len(links)
  /\ f.state # "ended" => links[f.l].up
  /\ BootOf(f.l) = host.boot =>
       f.ses \in 1 .. Len(host.ses) /\ \A i \in 1 .. Len(f.q) : f.q[i] <= host.ses[f.ses].out
Pending(f) ==
  f.gen = 0 =>
    /\ f.l = bind[f.pane].l /\ f.ses = bind[f.pane].ses
    /\ bind[f.pane].at \in {"attaching", "answering"} => f.state # "live" /\ f.q = <<>>
    /\ bind[f.pane].at = "attached" => f.state # "pending"
Pumping(f) ==
  InForce(f) /\ pane[f.pane].in =>
    /\ f.state # "pending" /\ pane[f.pane].view
    /\ pane[f.pane].remote # None /\ f.ses = pane[f.pane].remote /\ BootOf(f.l) = pane[f.pane].boot
    /\ f.state # "ended" => pane[f.pane].on = f.l /\ bind[f.pane].at \notin Attaching
    /\ bind[f.pane].at # "detaching"
Routes == \A f \in feeds : Coded(f) /\ Pending(f) /\ Pumping(f)

\* A turn that the pane still waits for hands its view what follows the view's anchor.
Wanting == {"locking", "finding", "found", "opening", "opened", "attaching", "answering", "attached"}
TurnOf(p) ==
  LET b == bind[p]
      st == pane[p]
  IN
  /\ b.at \in Attaching => ~b.closing
  /\ b.at # "idle" => b.gen <= st.gen
  /\ st.in /\ b.at \in Wanting /\ b.gen = st.gen /\ ~b.closing =>
       st.view /\ b.from <= st.anchor /\ (b.from < st.anchor => seen[p].replayed)
Turns == \A p \in Panes : TurnOf(p)

\* A view has what its anchor says, and its session has made it.
ViewOf(p) ==
  LET st == pane[p] IN
  Watched(p) =>
    /\ seen[p].next = st.anchor + 1 /\ st.anchor >= 0 /\ seen[p].whole
    /\ st.remote = None => st.anchor = 0
    /\ st.remote # None /\ st.boot = host.boot => st.anchor <= host.ses[st.remote].out
Views == \A p \in Panes : ViewOf(p)
Unseen == \A p \in Panes : ~pane[p].born => seen[p].next = 1 /\ seen[p].whole

\* An attach that was answered ends no earlier than the view has been brought by the pump before it.
Attachment(frame, p) == frame.kind = "attached" /\ frame.n = p
Replayed(p) ==
  \/ bind[p].at = "attached"
  \/ /\ bind[p].at = "answering"
     /\ \E i \in 1 .. Len(links[bind[p].l].wire) : Attachment(links[bind[p].l].wire[i], p)
ReplayOf(p) ==
  Replayed(p) =>
    /\ BootOf(bind[p].l) = host.boot => bind[p].upto <= host.ses[bind[p].ses].out
    /\ Watched(p) /\ bind[p].gen = pane[p].gen =>
         /\ pane[p].anchor <= bind[p].upto
         /\ \A f \in feeds : f.pane = p /\ InForce(f) => \A i \in 1 .. Len(f.q) : f.q[i] <= bind[p].upto
Replays == \A p \in Panes : ReplayOf(p)

\* What a route holds follows what its pane has.
Ours(f) == Watched(f.pane) /\ (f.gen = 0 \/ InForce(f))
Base(f) == IF f.gen = 0 THEN bind[f.pane].upto ELSE pane[f.pane].anchor
InRow(q, base, state) ==
  \A i \in 1 .. Len(q) : q[i] = base + i \/ (q[i] = None /\ i = Len(q) /\ state = "ended")
InOrder == \A f \in feeds : Ours(f) => InRow(f.q, Base(f), f.state)

\* The output of session `id` after `k`, up to all there is, is on the wire after place `j`.
DataAt(wire, i, id) == wire[i].kind = "data" /\ wire[i].ses = id
Stream(wire, j, id, k, top) ==
  /\ \A i \in j + 1 .. Len(wire) : DataAt(wire, i, id) => wire[i].n > k
  /\ \A h, i \in j + 1 .. Len(wire) : DataAt(wire, h, id) /\ DataAt(wire, i,
      id) /\ h < i => wire[h].n < wire[i].n
  /\ \A n \in k + 1 .. top : \E i \in j + 1 .. Len(wire) : DataAt(wire, i, id) /\ wire[i].n = n
Sure(l, j, id, k) ==
  /\ Stream(links[l].wire, j, id, k, host.ses[id].out)
  /\ k <= host.ses[id].out
  /\ host.ses[id].st = "runs" => host.ses[id].to = l
ComesTo(f) ==
  Ours(f) =>
    /\ f.state = "live" => Sure(f.l, 0, f.ses, Base(f) + Len(f.q))
    /\ f.state = "pending" => \A i \in 1 .. Len(links[f.l].wire) :
         Attachment(links[f.l].wire[i], f.pane) => Sure(f.l, i, f.ses, bind[f.pane].upto)
Coming == \A f \in feeds : ComesTo(f)

\* Who detaches a session has it, or the session is over.
LeavesOf(t) ==
  LET st == pane[t.pane] IN
  t.who = "hide" => /\ t.gen <= st.gen
                    /\ t.gen = st.gen => ~st.view /\ ~st.lost /\ (Adopts => st.in \/ Done(t.boot, t.ses))
LeaveOf(p) ==
  LET b == bind[p]
      st == pane[p]
  IN
  /\ b.at = "detaching" => /\ st.remote # None /\ b.ses = st.remote /\ ~st.lost
                           /\ Adopts => st.in \/ Done(BootOf(b.l), b.ses)
  /\ b.at = "closing" => InBoot(BootOf(b.l), b.ses)
  /\ b.at \in {"closed", "gone"} => Done(BootOf(b.l), b.ses)
  /\ b.at \in {"closing", "closed"} /\ st.remote # None => b.ses = st.remote /\ st.boot = BootOf(b.l)
Leaving == (\A t \in queue : LeavesOf(t)) /\ \A p \in Panes : LeaveOf(p)

Flow ==
  /\ OneUp /\ Following /\ Carries /\ Routes /\ Turns /\ Views /\ Unseen /\ Replays /\ InOrder /\ Coming
  /\ Leaving

-----------------------------------------------------------------------------
\* What a step may do to a pane, its turn and its view.

\* The pane keeps what its stream is about, or begins a generation.
Kept(a, b) ==
  /\ b.born = a.born /\ b.view = a.view /\ b.anchor = a.anchor /\ b.lost = a.lost /\ b.gen = a.gen
  /\ b.remote = a.remote /\ b.boot = a.boot /\ (b.in => a.in)
Turned(a, b) ==
  /\ b.gen = a.gen + 1 /\ b.on = None
  /\ b.born = a.born /\ b.remote = a.remote /\ b.boot = a.boot /\ (b.in => a.in)
SeenKept(q) ==
  /\ seen'[q].next = seen[q].next /\ seen'[q].whole = seen[q].whole
  /\ seen'[q].replayed = seen[q].replayed

\* It is attached no more when its link or its pump is gone, or with its place in the registry.
OnKept(q) ==
  \/ pane'[q].on = pane[q].on \/ ~pane'[q].in \/ ~Live(q)
  \/ \A f \in feeds' : f.pane = q => f.gen # pane[q].gen
\* Why a pane leaves the registry.
InKept(q) ==
  pane[q].in /\ ~pane'[q].in =>
    \/ ~Adopts \/ pane[q].lost \/ bind[q].at \in Seeking \cup {"closed"}
    \/ /\ bind[q].at = "idle" /\ live \in 1 .. Len(links)
       /\ pane[q].remote # None /\ pane[q].boot # BootOf(live)
    \/ \E f \in feeds : f.pane = q /\ InForce(f)
Stays(q) ==
  /\ Kept(pane[q], pane'[q]) /\ OnKept(q) /\ InKept(q) /\ SeenKept(q)
  /\ bind'[q] \in {bind[q], Resting}

\* A turn goes on.
TurnKept(a, b) == b.l = a.l /\ b.gen = a.gen /\ b.from = a.from /\ b.closing = a.closing
Moves(q) ==
  LET a == bind[q]
      b == bind'[q]
  IN
  /\ pane'[q] = pane[q] /\ SeenKept(q) /\ TurnKept(a, b)
  /\ \/ a.at = "locking" /\ b.at = "finding"
     \/ a.at = "finding" /\ b.at = "found"
     \/ a.at = "found" /\ b.at = "opening"
     \/ a.at = "opening" /\ b.at \in {"opened", "refused"}
     \/ a.at \in {"found", "opened"} /\ b.at = "closing" /\ b.ses = a.ses /\ a.ses # None
     \/ a.at = "closing" /\ b.at = "closed" /\ b.ses = a.ses /\ HostCloses(q)
     \/ a.at = "attaching" /\ b.at = "answering" /\ b.ses = a.ses /\ HostAttaches(q)
     \/ /\ a.at = "answering" /\ b.at \in {"attached", "gone"} /\ b.ses = a.ses /\ b.upto = a.upto
        /\ \E l \in DOMAIN links :
             Reads(l) /\ a.l = l /\ Head(links[l].wire).kind = b.at /\ Head(links[l].wire).n = q
\* It begins, with the pane as it is.
BeginsBind(q) ==
  LET st == pane[q]
      b == bind'[q]
  IN
  /\ Kept(st, pane'[q]) /\ pane'[q].in = st.in /\ ~Live(q) /\ SeenKept(q)
  /\ bind[q].at = "idle" /\ b.gen = st.gen /\ b.from = st.anchor /\ b.ses = st.remote
  /\ b.closing \/ st.view
  /\ \/ b.at = "attaching" /\ ~b.closing /\ st.remote # None
     \/ b.at = "closing" /\ st.remote # None /\ st.boot = BootOf(b.l)
     \/ b.at \in {"finding", "locking"} /\ st.remote = None
BeginsDetach(q) ==
  LET b == bind'[q] IN
  /\ pane'[q] = pane[q] /\ SeenKept(q) /\ bind[q].at = "idle"
  /\ b.at = "detaching" /\ b.l = live /\ b.gen = 0 /\ ~b.closing
  /\ \E t \in queue : /\ t.who = "hide" /\ t.pane = q /\ t.gen = pane[q].gen /\ BootOf(live) = t.boot
                      /\ b.ses = t.ses
\* The pane is pointed at another view, at none, or lost.
Retargets(q) ==
  LET st == pane'[q] IN
  /\ Turned(pane[q], st) /\ bind'[q] \in {bind[q], Resting}
  /\ \/ st.anchor = pane[q].anchor /\ SeenKept(q)
     \/ st.anchor \in {pane[q].anchor, 0, seen[q].next - 1} /\ seen'[q].next = st.anchor + 1
        /\ (seen[q].whole => seen'[q].whole)
  /\ st.lost = pane[q].lost \/ pane[q].remote = None \/ bind[q].at \in {"idle", "gone"}
  /\ pane[q].in /\ ~st.in => pane[q].lost
\* It is made, and its view has nothing yet.
Starts(q) ==
  /\ Made(q)
  /\ seen'[q] = seen[q] \/ (seen'[q].next = pane'[q].anchor + 1 /\ seen'[q].whole)

Flows(q) ==
  \/ Stays(q) \/ Moves(q) \/ BeginsBind(q) \/ BeginsDetach(q) \/ Retargets(q)
  \/ Takes(q) /\ SeenKept(q)
  \/ Attached(q) \/ Starts(q)
  \/ \E f \in feeds : f.pane = q /\ Forwards(f)

\* What the operators on a pane make of it.
LEMMA StreamShapes ==
  ASSUME NEW st \in PaneState
  PROVE  /\ Kept(st, st) /\ Kept(st, End(st)) /\ ~End(st).in /\ Kept(st, Over(st)) /\ ~Over(st).in
         /\ Kept(st, [st EXCEPT !.on = None]) /\ [st EXCEPT !.on = None].in = st.in
         /\ \A a : /\ Kept(st, [st EXCEPT !.input = a]) /\ [st EXCEPT !.input = a].on = st.on
                   /\ [st EXCEPT !.input = a].in = st.in
         /\ \A a : /\ Kept(st, [st EXCEPT !.seed = a]) /\ [st EXCEPT !.seed = a].on = st.on
                   /\ [st EXCEPT !.seed = a].in = st.in
         /\ \A a : Kept(st, [st EXCEPT !.in = FALSE, !.ended = a]) /\ ~[st EXCEPT !.in = FALSE,
             !.ended = a].in
<1>1. Kept(st, st) /\ Kept(st, End(st)) /\ ~End(st).in /\ Kept(st, Over(st)) /\ ~Over(st).in
  BY DEF Kept, End, Over, PaneState
<1>2. Kept(st, [st EXCEPT !.on = None]) /\ [st EXCEPT !.on = None].in = st.in
  BY DEF Kept, PaneState
<1>3. \A a : /\ Kept(st, [st EXCEPT !.input = a]) /\ [st EXCEPT !.input = a].on = st.on
             /\ [st EXCEPT !.input = a].in = st.in
  BY DEF Kept, PaneState
<1>4. \A a : /\ Kept(st, [st EXCEPT !.seed = a]) /\ [st EXCEPT !.seed = a].on = st.on
             /\ [st EXCEPT !.seed = a].in = st.in
  BY DEF Kept, PaneState
<1>5. \A a : Kept(st, [st EXCEPT !.in = FALSE, !.ended = a]) /\ ~[st EXCEPT !.in = FALSE, !.ended = a].in
  BY DEF Kept, PaneState
<1>6. QED
  BY <1>1, <1>2, <1>3, <1>4, <1>5

\* ... and those that begin a generation.
LEMMA TurnedShapes ==
  ASSUME NEW st \in PaneState
  PROVE  /\ Turned(st, Lose(st)) /\ Lose(st).anchor = st.anchor /\ Lose(st).in = st.in
         /\ \A view : LET t == Retarget(st, view) IN
              /\ Turned(st, t) /\ t.anchor = st.anchor /\ t.in = st.in /\ t.lost = st.lost /\ t.view = view
         /\ \A view, a : LET t == [Retarget(st, view) EXCEPT !.anchor = a] IN
              /\ Turned(st, t) /\ t.anchor = a /\ t.in = st.in /\ t.lost = st.lost
         /\ LET t == [Retarget(st, FALSE) EXCEPT !.closing = TRUE] IN
              /\ Turned(st, t) /\ t.anchor = st.anchor /\ t.in = st.in /\ t.lost = st.lost
         /\ LET t == Over([Retarget(st, FALSE) EXCEPT !.closing = TRUE]) IN
              /\ Turned(st, t) /\ t.anchor = st.anchor /\ t.lost = st.lost
<1>1. Turned(st, Lose(st)) /\ Lose(st).anchor = st.anchor /\ Lose(st).in = st.in
  BY DEF Turned, Lose, PaneState
<1>2. ASSUME NEW view
      PROVE  LET t == Retarget(st, view) IN
             /\ Turned(st, t) /\ t.anchor = st.anchor /\ t.in = st.in /\ t.lost = st.lost /\ t.view = view
  BY DEF Turned, Retarget, PaneState
<1>3. ASSUME NEW view, NEW a
      PROVE  LET t == [Retarget(st, view) EXCEPT !.anchor = a] IN
             /\ Turned(st, t) /\ t.anchor = a /\ t.in = st.in /\ t.lost = st.lost
  BY DEF Turned, Retarget, PaneState
<1>4. LET t == [Retarget(st, FALSE) EXCEPT !.closing = TRUE] IN
      Turned(st, t) /\ t.anchor = st.anchor /\ t.in = st.in /\ t.lost = st.lost
  BY DEF Turned, Retarget, PaneState
<1>5. LET t == Over([Retarget(st, FALSE) EXCEPT !.closing = TRUE]) IN
      Turned(st, t) /\ t.anchor = st.anchor /\ t.lost = st.lost
  BY DEF Turned, Retarget, Over, PaneState
<1>6. QED
  BY <1>1, <1>2, <1>3, <1>4, <1>5

\* A pane that is not touched stays.
LEMMA Untouched ==
  ASSUME Typed, NEW q \in Panes, pane'[q] = pane[q], SeenKept(q), bind'[q] \in {bind[q], Resting}
  PROVE  Flows(q)
<1>1. Kept(pane[q], pane'[q])
  BY StreamShapes DEF Typed, PanesTyped
<1>2. OnKept(q) /\ InKept(q)
  BY DEF OnKept, InKept
<1>3. QED
  BY <1>1, <1>2 DEF Flows, Stays

\* One pane is touched, and the others stay.
LEMMA OneFlows ==
  ASSUME Typed, NEW p, p \in Panes => Flows(p),
         \A q \in Panes : q # p => pane'[q] = pane[q] /\ bind'[q] = bind[q] /\ SeenKept(q)
  PROVE  \A q \in Panes : Flows(q)
  BY Untouched

\* A step that is not about panes lets them stay.
LEMMA NoneFlows ==
  ASSUME Typed, UNCHANGED <<pane, bind, seen>>
  PROVE  \A q \in Panes : Flows(q)
  BY Untouched DEF SeenKept

\* What a turn that begins makes of its pane.
LEMMA BindsFlow ==
  ASSUME Typed, Named, Unmade, Waits, NEW t \in queue, BindStep(t)
  PROVE  \A q \in Panes : Flows(q)
<1> DEFINE p == t.pane
           st == pane[p]
<1>0. p \in Panes /\ st \in PaneState /\ bind[p] \in Turn
  BY DEF Typed, TasksTyped, PanesTyped, BindTurn, HideTurn
<1>s. UNCHANGED seen => \A q \in Panes : SeenKept(q)
  BY DEF SeenKept
<1>1. CASE BindMoot(t)
  BY <1>1, NoneFlows DEF BindMoot, panesHistory
<1>2. CASE BindFindsItGone(t)
  <2>1. /\ bind[p].at = "idle" /\ live = t.l /\ (st.lost \/ (st.remote # None /\ st.boot # BootOf(t.l)))
        /\ t.who # "hide"
    BY <1>2 DEF BindFindsItGone, Binds, TakesTurn, Moot, BoundElsewhere
  <2>2. UNCHANGED <<bind, seen>>
    BY <1>2 DEF BindFindsItGone, panesHistory
  <2>3. live \in 1 .. Len(links)
    BY <2>1 DEF Named
  <2>4. \/ pane' = [pane EXCEPT ![p] = Over(st)] \/ pane' = [pane EXCEPT ![p] = End(st)]
        \/ pane' = [pane EXCEPT ![p] = Lose(st)]
    BY <1>2 DEF BindFindsItGone, SetPane
  <2>5. /\ pane'[p] \in {Over(st), End(st), Lose(st)}
        /\ \A q \in Panes : q # p => pane'[q] = pane[q] /\ bind'[q] = bind[q] /\ SeenKept(q)
    BY <2>2, <2>4, <1>0, <1>s DEF Typed, PanesTyped
  <2>6. InKept(p)
    BY <2>1, <2>3 DEF InKept
  <2>7. CASE pane'[p] \in {Over(st), End(st)}
    <3>0. Kept(st, Over(st)) /\ ~Over(st).in /\ Kept(st, End(st)) /\ ~End(st).in
      BY <1>0, StreamShapes
    <3>1. Kept(st, pane'[p]) /\ OnKept(p)
      BY <3>0, <2>7 DEF OnKept
    <3>2. Flows(p)
      BY <3>1, <2>2, <2>6, <1>s, <1>0 DEF Flows, Stays
    <3>3. QED
      BY <3>2, <2>5, OneFlows
  <2>8. CASE pane'[p] = Lose(st)
    <3>1. Turned(st, pane'[p]) /\ pane'[p].anchor = st.anchor /\ pane'[p].in = st.in
      BY <1>0, <2>8, TurnedShapes
    <3>2. Retargets(p)
      BY <3>1, <2>1, <2>2, <1>s, <1>0 DEF Retargets
    <3>3. QED
      BY <3>2, <2>5, OneFlows DEF Flows
  <2>9. QED
    BY <2>5, <2>7, <2>8
<1>3. CASE BindGoes(t)
  <2> DEFINE b == [Resting EXCEPT !.who = t.who, !.l = t.l, !.gen = st.gen, !.from = st.anchor,
                                  !.ses = st.remote, !.closing = st.closing]
  <2>1. /\ bind[p].at = "idle" /\ ~Live(p) /\ (st.view \/ st.closing) /\ ~BoundElsewhere(p, t.l)
    BY <1>3 DEF BindGoes, Binds, TakesTurn, Moot
  <2>2. \A at : LET c == [b EXCEPT !.at = at] IN
          c.at = at /\ c.l = t.l /\ c.gen = st.gen /\ c.from = st.anchor /\ c.ses = st.remote
          /\ c.closing = st.closing
    BY DEF Resting
  <2>3. \A at, taken : LET c == [b EXCEPT !.at = at, !.taken = taken] IN
          c.at = at /\ c.l = t.l /\ c.gen = st.gen /\ c.from = st.anchor /\ c.ses = st.remote
          /\ c.closing = st.closing
    BY DEF Resting
  <2>4. st.remote # None => st.boot = BootOf(t.l)
    BY <2>1 DEF BoundElsewhere
  <2>5. pane' = [pane EXCEPT ![p] = [st EXCEPT !.on = None]] /\ UNCHANGED seen
    BY <1>3 DEF BindGoes, SetPane, panesHistory
  <2>6. /\ Kept(st, pane'[p]) /\ pane'[p].in = st.in
        /\ \A q \in Panes : q # p => pane'[q] = pane[q]
    <3>1. pane'[p] = [st EXCEPT !.on = None] /\ \A q \in Panes : q # p => pane'[q] = pane[q]
      BY <2>5, <1>0 DEF Typed, PanesTyped
    <3>2. QED
      BY <3>1, <1>0, StreamShapes
  <2>7. \/ ~st.closing /\ st.remote # None /\ Attaches(p, b)
        \/ st.closing /\ st.remote # None /\ bind' = [bind EXCEPT ![p] = [b EXCEPT !.at = "closing"]]
        \/ st.remote = None /\ Finds(p, b)
        \/ st.remote = None /\ ~st.closing /\ bind' = [bind EXCEPT ![p] = [b EXCEPT !.at = "locking"]]
    BY <1>3 DEF BindGoes
  <2> HIDE DEF b
  <2> DEFINE Begun(c, at) ==
        /\ c.gen = st.gen /\ c.from = st.anchor /\ c.ses = st.remote /\ c.closing = st.closing /\ c.l = t.l
        /\ c.at = at /\ \A q \in Panes : q # p => bind'[q] = bind[q]
  <2>8. ASSUME \/ Begun(bind'[p], "attaching") /\ ~st.closing /\ st.remote # None
               \/ Begun(bind'[p], "closing") /\ st.remote # None
               \/ Begun(bind'[p], "finding") /\ st.remote = None
               \/ Begun(bind'[p], "locking") /\ st.remote = None
        PROVE  \A q \in Panes : Flows(q)
    <3>1. BeginsBind(p)
      BY <2>8, <2>1, <2>4, <2>5, <2>6, <1>0, <1>s DEF BeginsBind
    <3>2. QED
      BY <3>1, <2>5, <2>6, <2>8, <1>s, OneFlows DEF Flows
  <2>9. CASE ~st.closing /\ st.remote # None /\ Attaches(p, b)
    <3>1. bind'[p] = [b EXCEPT !.at = "attaching"] /\ \A q \in Panes : q # p => bind'[q] = bind[q]
      BY <2>9, <1>0, TurnSteps
    <3>2. Begun(bind'[p], "attaching")
      BY <3>1, <2>2
    <3>3. QED
      BY <3>2, <2>8, <2>9
  <2>10. CASE st.closing /\ st.remote # None /\ bind' = [bind EXCEPT ![p] = [b EXCEPT !.at = "closing"]]
    <3>1. bind'[p] = [b EXCEPT !.at = "closing"] /\ \A q \in Panes : q # p => bind'[q] = bind[q]
      BY <2>10, <1>0 DEF Typed, PanesTyped
    <3>2. Begun(bind'[p], "closing")
      BY <3>1, <2>2
    <3>3. QED
      BY <3>2, <2>8, <2>10
  <2>11. CASE st.remote = None /\ Finds(p, b)
    <3>1. /\ bind'[p] = [b EXCEPT !.at = "finding", !.taken = Held(BootOf(b.l), p)]
          /\ \A q \in Panes : q # p => bind'[q] = bind[q]
      BY <2>11, <1>0, TurnSteps
    <3>2. Begun(bind'[p], "finding")
      BY <3>1, <2>3
    <3>3. QED
      BY <3>2, <2>8, <2>11
  <2>12. CASE st.remote = None /\ ~st.closing /\ bind' = [bind EXCEPT ![p] = [b EXCEPT !.at = "locking"]]
    <3>1. bind'[p] = [b EXCEPT !.at = "locking"] /\ \A q \in Panes : q # p => bind'[q] = bind[q]
      BY <2>12, <1>0 DEF Typed, PanesTyped
    <3>2. Begun(bind'[p], "locking")
      BY <3>1, <2>2
    <3>3. QED
      BY <3>2, <2>8, <2>12
  <2>13. QED
    BY <2>7, <2>9, <2>10, <2>11, <2>12
<1>4. CASE DetachGoes(t)
  <2>1. UNCHANGED <<pane, seen>> /\ bind[p].at = "idle" /\ t.who = "hide"
    BY <1>4 DEF DetachGoes, TakesTurn, panesHistory
  <2>2. CASE UNCHANGED bind
    BY <2>1, <2>2, NoneFlows
  <2>3. CASE /\ st.gen = t.gen /\ BootOf(live) = t.boot
             /\ bind' = [bind EXCEPT ![p] = [Resting EXCEPT !.at = "detaching", !.l = live, !.ses = t.ses]]
    <3>1. bind'[p] = [Resting EXCEPT !.at = "detaching", !.l = live, !.ses = t.ses]
          /\ \A q \in Panes : q # p => bind'[q] = bind[q]
      BY <2>3, <1>0 DEF Typed, PanesTyped
    <3>2. LET b == bind'[p] IN
          b.at = "detaching" /\ b.l = live /\ b.ses = t.ses /\ b.gen = 0 /\ ~b.closing
      BY <3>1 DEF Resting
    <3>3. BeginsDetach(p)
      BY <2>1, <2>3, <3>2, <1>0, <1>s DEF BeginsDetach
    <3>4. QED
      BY <2>1, <3>1, <3>3, <1>s, OneFlows DEF Flows
  <2>4. QED
    BY <1>4, <2>2, <2>3 DEF DetachGoes
<1>5. QED
  BY <1>1, <1>2, <1>3, <1>4 DEF BindStep

\* A pane takes what was found or opened for it, or it was lost meanwhile.
LEMMA CommitsFlow ==
  ASSUME Typed, Unmade, NEW p \in Panes, NEW mine \in BOOLEAN, Commits(p, mine),
         bind[p].at = (IF mine THEN "opened" ELSE "found"), ~mine => ~bind[p].closing,
         bind[p].ses # None, UNCHANGED <<host, seen>>
  PROVE  \A q \in Panes : Flows(q)
<1>0. bind[p] \in Turn /\ pane[p] \in PaneState
  BY DEF Typed, PanesTyped
<1>s. \A q \in Panes : SeenKept(q)
  BY DEF SeenKept
<1>1. CASE pane[p].lost /\ mine
  <2>1. UNCHANGED pane /\ At(p, "closing")
    BY <1>1 DEF Commits
  <2>2. bind'[p] = [bind[p] EXCEPT !.at = "closing"] /\ \A q \in Panes : q # p => bind'[q] = bind[q]
    BY <2>1 DEF At, Typed, PanesTyped
  <2>3. LET b == bind'[p] IN TurnKept(bind[p], b) /\ b.at = "closing" /\ b.ses = bind[p].ses
    BY <2>2, <1>0 DEF Turn, TurnKept
  <2>4. Moves(p)
    BY <1>1, <1>s, <2>1, <2>3 DEF Moves
  <2>5. QED
    BY <1>s, <2>1, <2>2, <2>4, OneFlows DEF Flows
<1>2. CASE pane[p].lost /\ ~mine
  <2>1. UNCHANGED pane /\ Rests(p)
    BY <1>2 DEF Commits
  <2>2. bind'[p] = Resting /\ \A q \in Panes : q # p => bind'[q] = bind[q]
    BY <2>1 DEF Rests, Typed, PanesTyped
  <2>3. QED
    BY <1>s, <2>1, <2>2, Untouched
<1>3. CASE ~pane[p].lost
  <2>1. /\ SetPane(p, [pane[p] EXCEPT !.remote = bind[p].ses, !.boot = BootOf(bind[p].l), !.mine = mine,
                                      !.seed = @ /\ mine])
        /\ Attaches(p, bind[p]) /\ Unlocks(p)
    BY <1>3 DEF Commits
  <2>2. bind'[p] = [bind[p] EXCEPT !.at = "attaching"] /\ \A q \in Panes : q # p => bind'[q] = bind[q]
    BY <2>1, TurnSteps
  <2>3. /\ pane'[p] = [pane[p] EXCEPT !.remote = bind[p].ses, !.boot = BootOf(bind[p].l), !.mine = mine,
                                      !.seed = @ /\ mine]
        /\ \A q \in Panes : q # p => pane'[q] = pane[q]
    BY <2>1 DEF SetPane, Typed, PanesTyped
  <2>4. mine <=> bind[p].at = "opened"
    OBVIOUS
  <2>5. Takes(p)
    <3>1. pane'[p] = [pane[p] EXCEPT !.remote = bind[p].ses, !.boot = BootOf(bind[p].l),
                                     !.mine = (bind[p].at = "opened"), !.seed = @ /\ bind[p].at = "opened"]
      BY <2>3, <2>4
    <3>2. QED
      BY <2>1, <2>2, <3>1 DEF Takes, Unlocks
  <2>6. QED
    BY <1>s, <2>2, <2>3, <2>5, OneFlows DEF Flows
<1>4. QED
  BY <1>1, <1>2, <1>3

\* What At and Rests do to a turn.
LEMMA TurnAt ==
  ASSUME Typed, NEW p \in Panes
  PROVE  /\ \A at : At(p, at) => /\ bind'[p].at = at /\ TurnKept(bind[p], bind'[p])
                                 /\ bind'[p].ses = bind[p].ses /\ bind'[p].upto = bind[p].upto
                                 /\ \A q \in Panes : q # p => bind'[q] = bind[q]
         /\ Rests(p) => bind'[p] = Resting /\ \A q \in Panes : q # p => bind'[q] = bind[q]
<1>0. bind[p] \in Turn /\ bind \in [Panes -> Turn]
  BY DEF Typed, PanesTyped
<1>1. ASSUME NEW at, At(p, at)
      PROVE  /\ bind'[p].at = at /\ TurnKept(bind[p], bind'[p])
             /\ bind'[p].ses = bind[p].ses /\ bind'[p].upto = bind[p].upto
             /\ \A q \in Panes : q # p => bind'[q] = bind[q]
  <2>1. bind'[p] = [bind[p] EXCEPT !.at = at] /\ \A q \in Panes : q # p => bind'[q] = bind[q]
    BY <1>0, <1>1 DEF At
  <2>2. QED
    BY <1>0, <2>1 DEF Turn, TurnKept
<1>2. Rests(p) => bind'[p] = Resting /\ \A q \in Panes : q # p => bind'[q] = bind[q]
  BY <1>0 DEF Rests
<1>3. QED
  BY <1>1, <1>2

\* One pane leaves the registry, or stays in it, and its turn is kept or ends.
LEMMA LeavesFlow ==
  ASSUME Typed, NEW p \in Panes, NEW st, SetPane(p, st), UNCHANGED seen,
         Kept(pane[p], st), ~st.in \/ st.on = pane[p].on, InKept(p),
         \/ UNCHANGED bind
         \/ Rests(p)
  PROVE  \A q \in Panes : Flows(q)
<1>1. pane'[p] = st /\ \A q \in Panes : q # p => pane'[q] = pane[q]
  BY DEF SetPane, Typed, PanesTyped
<1>2. bind'[p] \in {bind[p], Resting} /\ \A q \in Panes : q # p => bind'[q] = bind[q]
  BY TurnAt
<1>3. \A q \in Panes : SeenKept(q)
  BY DEF SeenKept
<1>4. Stays(p)
  BY <1>1, <1>2, <1>3 DEF Stays, OnKept
<1>5. QED
  BY <1>1, <1>2, <1>3, <1>4, OneFlows DEF Flows

\* What becomes of a turn that looks for a session, opens one, or closes it.
LEMMA TurnsFlow ==
  ASSUME Typed, Unmade, Guarded, Hosted, NEW p \in Panes, TurnStep(p)
  PROVE  \A q \in Panes : Flows(q)
<1>0. bind[p] \in Turn /\ pane[p] \in PaneState
  BY DEF Typed, PanesTyped
<1>s. UNCHANGED seen => \A q \in Panes : SeenKept(q)
  BY DEF SeenKept
<1>m. ASSUME UNCHANGED <<pane, seen>>, Moves(p), \A q \in Panes : q # p => bind'[q] = bind[q]
      PROVE  \A q \in Panes : Flows(q)
  BY <1>m, <1>s, OneFlows DEF Flows
<1>1. CASE GetsOpening(p)
  <2>1. bind[p].at = "locking" /\ UNCHANGED <<pane, seen>> /\ (Rests(p) \/ Finds(p, bind[p]))
    BY <1>1 DEF GetsOpening, panesHistory
  <2>2. CASE Rests(p)
    BY <2>1, <2>2, <1>s, TurnAt, Untouched
  <2>3. CASE Finds(p, bind[p])
    <3> DEFINE taken == Held(BootOf(bind[p].l), p)
    <3>1. /\ bind'[p] = [bind[p] EXCEPT !.at = "finding", !.taken = taken]
          /\ \A q \in Panes : q # p => bind'[q] = bind[q]
      BY <2>3 DEF Finds, Typed, PanesTyped
    <3> HIDE DEF taken
    <3>2. bind'[p].at = "finding" /\ TurnKept(bind[p], bind'[p])
      BY <3>1, <1>0 DEF Turn, TurnKept
    <3>3. Moves(p)
      BY <3>2, <2>1, <1>s DEF Moves
    <3>4. QED
      BY <2>1, <3>1, <3>3, <1>m
  <2>4. QED
    BY <2>1, <2>2, <2>3
<1>2. CASE Found(p)
  <2>1. CASE bind[p].ses = None
    <3>1. bind[p].at = "found" /\ At(p, "opening") /\ UNCHANGED <<pane, seen>>
      BY <1>2, <2>1 DEF Found, panesHistory
    <3>2. /\ bind'[p].at = "opening" /\ TurnKept(bind[p], bind'[p])
          /\ \A q \in Panes : q # p => bind'[q] = bind[q]
      BY <3>1, TurnAt
    <3>3. Moves(p)
      BY <3>1, <3>2, <1>s DEF Moves
    <3>4. QED
      BY <3>1, <3>2, <3>3, <1>m
  <2>2. CASE bind[p].ses # None
    <3>1. /\ bind[p].at = "found" /\ ~bind[p].closing /\ Commits(p, FALSE) /\ UNCHANGED <<host, seen>>
      BY <1>2, <2>2 DEF Found, panesHistory
    <3>2. QED
      BY <3>1, <2>2, CommitsFlow
  <2>3. QED
    BY <2>1, <2>2
<1>3. CASE Opened(p)
  <2>1. bind[p].at = "opened" /\ Commits(p, TRUE) /\ UNCHANGED <<host, seen>>
    BY <1>3 DEF Opened, panesHistory
  <2>2. bind[p].ses # None
    BY <2>1 DEF Hosted
  <2>3. QED
    BY <2>1, <2>2, CommitsFlow
<1>4. CASE Refused(p)
  <2>1. /\ bind[p].at = "refused" /\ UNCHANGED seen /\ Rests(p)
        /\ \E a : SetPane(p, [pane[p] EXCEPT !.in = FALSE, !.ended = a])
    BY <1>4 DEF Refused, panesHistory
  <2>2. PICK a : SetPane(p, [pane[p] EXCEPT !.in = FALSE, !.ended = a])
    BY <2>1
  <2> DEFINE st == [pane[p] EXCEPT !.in = FALSE, !.ended = a]
  <2>3. Kept(pane[p], st) /\ ~st.in
    BY <1>0, StreamShapes
  <2>4. InKept(p)
    BY <2>1 DEF InKept, Seeking
  <2> HIDE DEF st
  <2>5. SetPane(p, st)
    BY <2>2 DEF st
  <2>6. QED
    BY <2>1, <2>3, <2>4, <2>5, LeavesFlow
<1>5. CASE FoundToClose(p)
  <2>1. bind[p].at = "found" /\ bind[p].closing /\ UNCHANGED seen
    BY <1>5 DEF FoundToClose, panesHistory
  <2>2. CASE bind[p].ses = None
    <3>1. SetPane(p, Over(pane[p])) /\ Rests(p)
      BY <1>5, <2>2 DEF FoundToClose
    <3>2. Kept(pane[p], Over(pane[p])) /\ ~Over(pane[p]).in
      BY <1>0, StreamShapes
    <3>3. InKept(p)
      BY <2>1 DEF InKept, Seeking
    <3>4. QED
      BY <2>1, <3>1, <3>2, <3>3, LeavesFlow
  <2>3. CASE bind[p].ses # None
    <3>1. At(p, "closing") /\ UNCHANGED pane
      BY <1>5, <2>3 DEF FoundToClose
    <3>2. /\ bind'[p].at = "closing" /\ TurnKept(bind[p], bind'[p]) /\ bind'[p].ses = bind[p].ses
          /\ \A q \in Panes : q # p => bind'[q] = bind[q]
      BY <3>1, TurnAt
    <3>3. Moves(p)
      BY <2>1, <2>3, <3>1, <3>2, <1>s DEF Moves
    <3>4. QED
      BY <2>1, <3>1, <3>2, <3>3, <1>m
  <2>4. QED
    BY <2>2, <2>3
<1>6. CASE Closed(p)
  <2>1. bind[p].at = "closed" /\ UNCHANGED seen /\ Rests(p)
    BY <1>6 DEF Closed, panesHistory
  <2>2. SetPane(p, Over(pane[p])) \/ UNCHANGED pane
    BY <1>6 DEF Closed
  <2>3. CASE UNCHANGED pane
    BY <2>1, <2>3, <1>s, TurnAt, Untouched
  <2>4. CASE SetPane(p, Over(pane[p]))
    <3>1. Kept(pane[p], Over(pane[p])) /\ ~Over(pane[p]).in
      BY <1>0, StreamShapes
    <3>2. InKept(p)
      BY <2>1 DEF InKept
    <3>3. QED
      BY <2>1, <2>4, <3>1, <3>2, LeavesFlow
  <2>5. QED
    BY <2>2, <2>3, <2>4
<1>7. QED
  BY <1>1, <1>2, <1>3, <1>4, <1>5, <1>6 DEF TurnStep

\* ... and of one whose attach was answered, or whose link died.
LEMMA AnswersFlow ==
  ASSUME Typed, NEW p \in Panes, AnswerStep(p)
  PROVE  \A q \in Panes : Flows(q)
<1>0. bind[p] \in Turn /\ pane[p] \in PaneState
  BY DEF Typed, PanesTyped
<1>s. UNCHANGED seen => \A q \in Panes : SeenKept(q)
  BY DEF SeenKept
<1>1. CASE Gone(p)
  <2>1. bind[p].at = "gone" /\ UNCHANGED seen /\ Rests(p)
    BY <1>1 DEF Gone, panesHistory
  <2>2. CASE Adopts
    <3>1. SetPane(p, Lose(pane[p]))
      BY <1>1, <2>2 DEF Gone
    <3>2. pane'[p] = Lose(pane[p]) /\ \A q \in Panes : q # p => pane'[q] = pane[q]
      BY <3>1 DEF SetPane, Typed, PanesTyped
    <3>3. Turned(pane[p], pane'[p]) /\ pane'[p].anchor = pane[p].anchor /\ pane'[p].in = pane[p].in
      BY <1>0, <3>2, TurnedShapes
    <3>4. bind'[p] = Resting /\ \A q \in Panes : q # p => bind'[q] = bind[q]
      BY <2>1, TurnAt
    <3>5. Retargets(p)
      BY <2>1, <3>3, <3>4, <1>s DEF Retargets
    <3>6. QED
      BY <2>1, <3>2, <3>4, <3>5, <1>s, OneFlows DEF Flows
  <2>3. CASE ~Adopts
    <3>1. SetPane(p, End(pane[p]))
      BY <1>1, <2>3 DEF Gone
    <3>2. Kept(pane[p], End(pane[p])) /\ ~End(pane[p]).in
      BY <1>0, StreamShapes
    <3>3. InKept(p)
      BY <2>3 DEF InKept
    <3>4. QED
      BY <2>1, <3>1, <3>2, <3>3, LeavesFlow
  <2>4. QED
    BY <2>2, <2>3
<1>2. CASE AttachSuperseded(p)
  <2>1. UNCHANGED <<pane, seen>> /\ Rests(p)
    BY <1>2 DEF AttachSuperseded, panesHistory
  <2>2. QED
    BY <2>1, <1>s, TurnAt, Untouched
<1>3. CASE Attached(p)
  <2>1. Rests(p) /\ \E st : SetPane(p, st)
    BY <1>3 DEF Attached
  <2>2. \A q \in Panes : q # p => pane'[q] = pane[q] /\ bind'[q] = bind[q]
    BY <2>1 DEF Rests, SetPane, Typed, PanesTyped
  <2>3. \A q \in Panes : q # p => SeenKept(q)
    <3>1. seen' = seen \/ \E v : seen' = [seen EXCEPT ![p] = v]
      BY <1>3 DEF Attached
    <3>2. QED
      BY <3>1 DEF SeenKept, Typed, HistoryTyped
  <2>4. QED
    BY <1>3, <2>2, <2>3, OneFlows DEF Flows
<1>4. CASE CallFails(p)
  <2>1. UNCHANGED <<pane, seen>> /\ Rests(p)
    BY <1>4 DEF CallFails, panesHistory
  <2>2. QED
    BY <2>1, <1>s, TurnAt, Untouched
<1>5. CASE TypesLine(p)
  <2>1. UNCHANGED <<bind, seen>> /\ SetPane(p, [pane[p] EXCEPT !.input = Tail(pane[p].input)])
    BY <1>5 DEF TypesLine
  <2> DEFINE i == Tail(pane[p].input)
             st == [pane[p] EXCEPT !.input = i]
  <2> HIDE DEF i
  <2>2. Kept(pane[p], st) /\ st.on = pane[p].on /\ st.in = pane[p].in
    BY <1>0, StreamShapes
  <2>3. pane'[p] = st
    BY <2>1 DEF i, SetPane, Typed, PanesTyped
  <2> HIDE DEF st
  <2>4. InKept(p)
    BY <2>2, <2>3 DEF InKept
  <2>5. SetPane(p, st)
    BY <2>1 DEF st, i
  <2>6. QED
    BY <2>1, <2>2, <2>4, <2>5, LeavesFlow
<1>6. QED
  BY <1>1, <1>2, <1>3, <1>4, <1>5 DEF AnswerStep

\* A pump brings its pane on, ends it, or is forgotten.
LEMMA PumpsFlow ==
  ASSUME Typed, Keyed, NEW f \in feeds, PumpStep(f)
  PROVE  \A q \in Panes : Flows(q)
<1> DEFINE p == f.pane
<1>0. p \in Panes /\ pane[p] \in PaneState /\ f \in Feed
  BY DEF Typed, PanesTyped, NetTyped, Feed
<1>1. CASE PumpSuperseded(f)
  BY <1>1, NoneFlows DEF PumpSuperseded, mind, panesHistory
<1>2. CASE Forwards(f)
  <2>1. UNCHANGED bind /\ \E st : SetPane(p, st)
    BY <1>2 DEF Forwards
  <2>2. \A q \in Panes : q # p => pane'[q] = pane[q] /\ bind'[q] = bind[q]
    BY <2>1 DEF SetPane, Typed, PanesTyped
  <2>3. \A q \in Panes : q # p => SeenKept(q)
    <3>1. seen' = seen \/ \E v : seen' = [seen EXCEPT ![p] = v]
      BY <1>2 DEF Forwards
    <3>2. QED
      BY <3>1 DEF SeenKept, Typed, HistoryTyped
  <2>4. QED
    BY <1>2, <2>2, <2>3, OneFlows DEF Flows
<1>3. CASE ForwardsExit(f)
  <2>1. SetPane(p, End(pane[p])) /\ UNCHANGED <<bind, seen>> /\ f.gen # 0 /\ Current(f)
    BY <1>3 DEF ForwardsExit, panesHistory
  <2>2. InKept(p)
    BY <2>1 DEF InKept, InForce, Current
  <2>3. Kept(pane[p], End(pane[p])) /\ ~End(pane[p]).in
    BY <1>0, StreamShapes
  <2>4. QED
    BY <1>0, <2>1, <2>2, <2>3, LeavesFlow
<1>4. CASE PumpEnds(f)
  <2>1. UNCHANGED <<bind, seen>> /\ feeds' = feeds \ {f}
        /\ \/ SetPane(p, [pane[p] EXCEPT !.on = None]) /\ Current(f)
           \/ SetPane(p, pane[p])
    BY <1>4 DEF PumpEnds, panesHistory, Forgets
  <2>2. CASE SetPane(p, pane[p])
    <3>1. pane' = pane
      BY <2>2, <1>0 DEF SetPane, Typed, PanesTyped
    <3>2. QED
      BY <2>1, <3>1, NoneFlows
  <2>3. CASE SetPane(p, [pane[p] EXCEPT !.on = None]) /\ Current(f)
    <3> DEFINE st == [pane[p] EXCEPT !.on = None]
    <3>1. Kept(pane[p], st) /\ st.in = pane[p].in
      BY <1>0, StreamShapes
    <3> HIDE DEF st
    <3>2. pane'[p] = st /\ \A q \in Panes : q # p => pane'[q] = pane[q]
      <4>1. SetPane(p, st)
        BY <2>3 DEF st
      <4>2. QED
        BY <1>0, <4>1 DEF SetPane, Typed, PanesTyped
    <3>3. \A g \in feeds' : g.pane = p => g.gen # pane[p].gen
      BY <2>1, <2>3 DEF Keyed, Current
    <3>4. OnKept(p) /\ InKept(p)
      BY <3>1, <3>2, <3>3 DEF OnKept, InKept
    <3>5. \A q \in Panes : SeenKept(q)
      BY <2>1 DEF SeenKept
    <3>6. Stays(p)
      BY <2>1, <3>1, <3>2, <3>4, <3>5, <1>0 DEF Stays
    <3>7. QED
      BY <2>1, <3>2, <3>5, <3>6, OneFlows DEF Flows
  <2>4. QED
    BY <2>1, <2>2, <2>3
<1>5. QED
  BY <1>1, <1>2, <1>3, <1>4 DEF PumpStep

\* What the host answers takes a turn on, or it ends.
LEMMA HostsFlow ==
  ASSUME Typed, NEW p \in Panes, HostStep(p)
  PROVE  \A q \in Panes : Flows(q)
<1>0. bind[p] \in Turn /\ pane[p] \in PaneState
  BY DEF Typed, PanesTyped
<1>s. UNCHANGED <<pane, seen>>
  BY DEF HostStep, HostLists, HostOpens, HostRefuses, HostAttaches, HostCloses, HostDetaches, panesHistory
<1>k. \A q \in Panes : SeenKept(q)
  BY <1>s DEF SeenKept
<1>m. ASSUME Moves(p), \A q \in Panes : q # p => bind'[q] = bind[q]
      PROVE  \A q \in Panes : Flows(q)
  BY <1>m, <1>s, <1>k, OneFlows DEF Flows
<1>b. ASSUME NEW at, NEW x,
             bind' = [bind EXCEPT ![p].at = at, ![p].ses = x]
      PROVE  bind'[p].at = at /\ TurnKept(bind[p], bind'[p]) /\ \A q \in Panes : q # p => bind'[q] = bind[q]
  <2>1. bind'[p] = [bind[p] EXCEPT !.at = at, !.ses = x] /\ \A q \in Panes : q # p => bind'[q] = bind[q]
    BY <1>b DEF Typed, PanesTyped
  <2>2. QED
    BY <2>1, <1>0 DEF Turn, TurnKept
<1>1. CASE HostLists(p)
  <2> DEFINE x == IF Alive \ bind[p].taken = {} THEN None ELSE Max(Alive \ bind[p].taken)
  <2>1. bind[p].at = "finding" /\ bind' = [bind EXCEPT ![p].at = "found", ![p].ses = x]
    BY <1>1 DEF HostLists, Calls
  <2> HIDE DEF x
  <2>2. bind'[p].at = "found" /\ TurnKept(bind[p], bind'[p]) /\ \A q \in Panes : q # p => bind'[q] = bind[q]
    BY <2>1, <1>b
  <2>3. Moves(p)
    BY <2>1, <2>2, <1>s, <1>k DEF Moves
  <2>4. QED
    BY <2>2, <2>3, <1>m
<1>2. CASE HostOpens(p)
  <2> DEFINE x == Len(host.ses) + 1
  <2>1. bind[p].at = "opening" /\ bind' = [bind EXCEPT ![p].at = "opened", ![p].ses = x]
    BY <1>2 DEF HostOpens, Calls
  <2> HIDE DEF x
  <2>2. bind'[p].at = "opened" /\ TurnKept(bind[p], bind'[p]) /\ \A q \in Panes : q # p => bind'[q] = bind[q]
    BY <2>1, <1>b
  <2>3. Moves(p)
    BY <2>1, <2>2, <1>s, <1>k DEF Moves
  <2>4. QED
    BY <2>2, <2>3, <1>m
<1>3. CASE HostRefuses(p)
  <2>1. bind[p].at = "opening" /\ At(p, "refused")
    BY <1>3 DEF HostRefuses, Calls
  <2>2. /\ bind'[p].at = "refused" /\ TurnKept(bind[p], bind'[p])
        /\ \A q \in Panes : q # p => bind'[q] = bind[q]
    BY <2>1, TurnAt
  <2>3. Moves(p)
    BY <2>1, <2>2, <1>s, <1>k DEF Moves
  <2>4. QED
    BY <2>2, <2>3, <1>m
<1>4. CASE HostAttaches(p)
  <2>1. bind[p].at = "attaching"
        /\ \/ At(p, "answering")
           \/ \E n : bind' = [bind EXCEPT ![p].at = "answering", ![p].upto = n]
    BY <1>4 DEF HostAttaches, Calls
  <2>2. /\ bind'[p].at = "answering" /\ TurnKept(bind[p], bind'[p]) /\ bind'[p].ses = bind[p].ses
        /\ \A q \in Panes : q # p => bind'[q] = bind[q]
    <3>1. ASSUME NEW n, bind' = [bind EXCEPT ![p].at = "answering", ![p].upto = n]
          PROVE  /\ bind'[p] = [bind[p] EXCEPT !.at = "answering", !.upto = n]
                 /\ \A q \in Panes : q # p => bind'[q] = bind[q]
      BY <3>1 DEF Typed, PanesTyped
    <3>2. \A n : LET b == [bind[p] EXCEPT !.at = "answering", !.upto = n] IN
            b.at = "answering" /\ TurnKept(bind[p], b) /\ b.ses = bind[p].ses
      BY <1>0 DEF Turn, TurnKept
    <3>3. CASE At(p, "answering")
      BY <3>3, TurnAt
    <3>4. CASE \E n : bind' = [bind EXCEPT ![p].at = "answering", ![p].upto = n]
      <4>1. PICK n : bind' = [bind EXCEPT ![p].at = "answering", ![p].upto = n]
        BY <3>4
      <4>2. /\ bind'[p] = [bind[p] EXCEPT !.at = "answering", !.upto = n]
            /\ \A q \in Panes : q # p => bind'[q] = bind[q]
        BY <3>1, <4>1
      <4>3. QED
        BY <3>2, <4>2
    <3>5. QED
      BY <2>1, <3>3, <3>4
  <2>3. Moves(p)
    BY <1>4, <2>1, <2>2, <1>s, <1>k DEF Moves
  <2>4. QED
    BY <2>2, <2>3, <1>m
<1>5. CASE HostCloses(p)
  <2>1. bind[p].at = "closing" /\ At(p, "closed")
    BY <1>5 DEF HostCloses, Calls
  <2>2. /\ bind'[p].at = "closed" /\ TurnKept(bind[p], bind'[p]) /\ bind'[p].ses = bind[p].ses
        /\ \A q \in Panes : q # p => bind'[q] = bind[q]
    BY <2>1, TurnAt
  <2>3. Moves(p)
    BY <1>5, <2>1, <2>2, <1>s, <1>k DEF Moves
  <2>4. QED
    BY <2>2, <2>3, <1>m
<1>6. CASE HostDetaches(p)
  <2>1. Rests(p)
    BY <1>6 DEF HostDetaches
  <2>2. QED
    BY <2>1, <1>s, <1>k, TurnAt, Untouched
<1>7. QED
  BY <1>1, <1>2, <1>3, <1>4, <1>5, <1>6 DEF HostStep

\* An answer that arrives takes the turn that waits for it on.
LEMMA ReadsFlow ==
  ASSUME Typed, NEW l \in DOMAIN links, Reads(l)
  PROVE  \A q \in Panes : Flows(q)
<1> DEFINE frame == Head(links[l].wire)
<1>1. UNCHANGED <<pane, seen>>
  BY DEF Reads, panesHistory
<1>2. \/ UNCHANGED bind
      \/ /\ frame.kind \in {"attached", "gone"} /\ bind[frame.n].at = "answering" /\ bind[frame.n].l = l
         /\ At(frame.n, frame.kind)
  BY DEF Reads, ReadsData, ReadsExit, ReadsAnswer
<1>3. CASE UNCHANGED bind
  BY <1>1, <1>3, NoneFlows
<1>4. CASE /\ frame.kind \in {"attached", "gone"} /\ bind[frame.n].at = "answering" /\ bind[frame.n].l = l
           /\ At(frame.n, frame.kind)
  <2> DEFINE p == frame.n
  <2>1. CASE p \notin Panes
    <3>1. bind' = bind
      BY <1>4, <2>1 DEF At, Typed, PanesTyped
    <3>2. QED
      BY <1>1, <3>1, NoneFlows
  <2>2. CASE p \in Panes
    <3>1. /\ bind'[p].at = frame.kind /\ TurnKept(bind[p], bind'[p]) /\ bind'[p].ses = bind[p].ses
          /\ bind'[p].upto = bind[p].upto
          /\ \A q \in Panes : q # p => bind'[q] = bind[q]
      BY <1>4, <2>2, TurnAt
    <3>2. \A q \in Panes : SeenKept(q)
      BY <1>1 DEF SeenKept
    <3>3. Moves(p)
      BY <1>1, <1>4, <2>2, <3>1, <3>2 DEF Moves
    <3>4. QED
      BY <1>1, <2>2, <3>1, <3>2, <3>3, OneFlows DEF Flows
  <2>3. QED
    BY <2>1, <2>2
<1>5. QED
  BY <1>2, <1>3, <1>4

\* What the window asks for begins a generation of the pane, or concerns its launch line.
LEMMA AsksFlow ==
  ASSUME Typed, NEW p \in Panes, AskStep(p)
  PROVE  \A q \in Panes : Flows(q)
<1>0. pane[p] \in PaneState /\ seen \in [Panes -> View] /\ seen[p] \in View
  BY DEF Typed, PanesTyped, HistoryTyped
<1>b. UNCHANGED bind
  BY DEF AskStep, Shows, Hides, Closes, Seeds, Expires
<1>s. UNCHANGED seen => \A q \in Panes : SeenKept(q)
  BY DEF SeenKept
<1>r. ASSUME NEW st, SetPane(p, st), Retargets(p), \A q \in Panes : q # p => SeenKept(q)
      PROVE  \A q \in Panes : Flows(q)
  <2>1. \A q \in Panes : q # p => pane'[q] = pane[q]
    BY <1>r DEF SetPane, Typed, PanesTyped
  <2>2. QED
    BY <1>b, <1>r, <2>1, OneFlows DEF Flows
<1>p. ASSUME NEW st, SetPane(p, st) PROVE pane'[p] = st
  BY <1>p DEF SetPane, Typed, PanesTyped
<1>1. CASE Shows(p)
  <2>1. PICK a \in {0, seen[p].next - 1} :
          SetPane(p, [Retarget(pane[p], TRUE) EXCEPT !.anchor = a]) /\ Viewed(p, a)
    BY <1>1 DEF Shows
  <2> DEFINE st == [Retarget(pane[p], TRUE) EXCEPT !.anchor = a]
  <2>2. Turned(pane[p], st) /\ st.anchor = a /\ st.in = pane[p].in /\ st.lost = pane[p].lost
    BY <1>0 DEF Turned, Retarget, PaneState
  <2> HIDE DEF st
  <2>3. SetPane(p, st)
    BY <2>1 DEF st
  <2>4. /\ seen'[p].next = a + 1 /\ seen'[p].whole = seen[p].whole
        /\ \A q \in Panes : q # p => SeenKept(q)
    <3>1. /\ seen'[p] = [seen[p] EXCEPT !.next = a + 1, !.replayed = FALSE]
          /\ \A q \in Panes : q # p => seen'[q] = seen[q]
      BY <2>1, <1>0 DEF Viewed
    <3>2. seen'[p].next = a + 1 /\ seen'[p].whole = seen[p].whole
      BY <3>1, <1>0 DEF View
    <3>3. QED
      BY <3>1, <3>2 DEF SeenKept
  <2>5. Retargets(p)
    BY <2>2, <2>3, <2>4, <1>b, <1>p DEF Retargets
  <2>6. QED
    BY <2>3, <2>4, <2>5, <1>r
<1>2. CASE Hides(p)
  <2>1. SetPane(p, Retarget(pane[p], FALSE)) /\ UNCHANGED seen
    BY <1>2 DEF Hides
  <2>2. LET st == Retarget(pane[p], FALSE) IN
        Turned(pane[p], st) /\ st.anchor = pane[p].anchor /\ st.in = pane[p].in /\ st.lost = pane[p].lost
    BY <1>0, TurnedShapes
  <2>3. Retargets(p)
    BY <2>1, <2>2, <1>b, <1>p, <1>s DEF Retargets
  <2>4. QED
    BY <2>1, <2>3, <1>r, <1>s
<1>3. CASE Closes(p)
  <2> DEFINE st == [Retarget(pane[p], FALSE) EXCEPT !.closing = TRUE]
  <2>1. UNCHANGED seen /\ SetPane(p, IF st.lost THEN Over(st) ELSE st)
    BY <1>3 DEF Closes
  <2>2. /\ Turned(pane[p], st) /\ st.anchor = pane[p].anchor /\ st.in = pane[p].in
        /\ st.lost = pane[p].lost
        /\ Turned(pane[p], Over(st)) /\ Over(st).anchor = pane[p].anchor /\ Over(st).lost = pane[p].lost
    BY <1>0, TurnedShapes
  <2> HIDE DEF st
  <2>3. Retargets(p)
    <3>1. CASE st.lost
      BY <3>1, <2>1, <2>2, <1>b, <1>p, <1>s DEF Retargets
    <3>2. CASE ~st.lost
      BY <3>2, <2>1, <2>2, <1>b, <1>p, <1>s DEF Retargets
    <3>3. QED
      BY <3>1, <3>2
  <2>4. QED
    BY <2>1, <2>3, <1>r, <1>s
<1>4. CASE Seeds(p)
  <2>1. UNCHANGED seen
        /\ \/ SetPane(p, pane[p]) \/ SetPane(p, [pane[p] EXCEPT !.seed = TRUE])
           \/ SetPane(p, [pane[p] EXCEPT !.input = Append(pane[p].input, pane[p].gen)])
    BY <1>4 DEF Seeds
  <2>2. PICK st : /\ SetPane(p, st) /\ Kept(pane[p], st) /\ st.on = pane[p].on /\ st.in = pane[p].in
    BY <1>0, <2>1, StreamShapes
  <2>3. InKept(p)
    BY <2>2, <1>p DEF InKept
  <2>4. QED
    BY <2>1, <2>2, <2>3, <1>b, LeavesFlow
<1>5. CASE Expires(p)
  <2>1. SetPane(p, Lose(pane[p])) /\ UNCHANGED seen /\ pane[p].remote = None
    BY <1>5 DEF Expires
  <2>2. LET st == Lose(pane[p]) IN Turned(pane[p], st) /\ st.anchor = pane[p].anchor /\ st.in = pane[p].in
    BY <1>0, TurnedShapes
  <2>3. Retargets(p)
    BY <2>1, <2>2, <1>b, <1>p, <1>s DEF Retargets
  <2>4. QED
    BY <2>1, <2>3, <1>r, <1>s
<1>6. QED
  BY <1>1, <1>2, <1>3, <1>4, <1>5 DEF AskStep

\* A pane that is shown has a view that has what its anchor says.
LEMMA ShownView ==
  ASSUME Typed, NEW p \in Panes, NEW client, Shown(p, client)
  PROVE  /\ seen'[p].next = pane'[p].anchor + 1 /\ seen'[p].whole
         /\ \A q \in Panes : q # p => SeenKept(q)
  BY DEF Shown, SeenKept, Typed, HistoryTyped

\* An open makes a pane, or claims one.
LEMMA OpensFlow ==
  ASSUME Typed, Unmade, OpenStep
  PROVE  \A q \in Panes : Flows(q)
<1>1. CASE OpenAsked
  BY <1>1, NoneFlows DEF OpenAsked
<1>2. CASE Claims
  <2>1. PICK p \in Unclaimed : SetPane(p, Retarget(pane[p], TRUE)) /\ Shown(p, Head(opens))
    BY <1>2 DEF Claims
  <2>2. p \in Panes /\ pane[p] \in PaneState /\ UNCHANGED bind
    BY <1>2 DEF Unclaimed, Typed, PanesTyped, Claims
  <2>3. pane'[p] = Retarget(pane[p], TRUE) /\ \A q \in Panes : q # p => pane'[q] = pane[q]
    BY <2>1, <2>2 DEF SetPane, Typed, PanesTyped
  <2>4. /\ Turned(pane[p], pane'[p]) /\ pane'[p].anchor = pane[p].anchor /\ pane'[p].in = pane[p].in
        /\ pane'[p].lost = pane[p].lost
    BY <2>2, <2>3 DEF Turned, Retarget, PaneState
  <2>5. /\ seen'[p].next = pane'[p].anchor + 1 /\ seen'[p].whole
        /\ \A q \in Panes : q # p => SeenKept(q)
    BY <2>1, <2>2, ShownView
  <2>6. Retargets(p)
    BY <2>2, <2>4, <2>5 DEF Retargets
  <2>7. QED
    BY <2>2, <2>3, <2>5, <2>6, OneFlows DEF Flows
<1>3. CASE Inserts
  <2> DEFINE n == Cardinality(Born)
             st == [Unborn EXCEPT !.born = TRUE, !.in = TRUE, !.view = TRUE]
  <2>0. n \in 0 .. MaxPanes /\ \A p \in Panes : pane[p].born <=> p <= n
    BY Counted
  <2>1. n + 1 \in Panes /\ SetPane(n + 1, st) /\ UNCHANGED bind /\ Shown(n + 1, Head(opens))
    BY <1>3 DEF Inserts
  <2> HIDE DEF n, st
  <2>2. pane'[n + 1] = st /\ \A q \in Panes : q # n + 1 => pane'[q] = pane[q]
    BY <2>1 DEF SetPane, Typed, PanesTyped
  <2>3. ~pane[n + 1].born
    BY <2>0, <2>1, BoundsAre
  <2>4. Made(n + 1)
    BY <2>1, <2>2, <2>3 DEF Made, st
  <2>5. /\ seen'[n + 1].next = pane'[n + 1].anchor + 1 /\ seen'[n + 1].whole
        /\ \A q \in Panes : q # n + 1 => SeenKept(q)
    BY <2>1, ShownView
  <2>6. Starts(n + 1)
    BY <2>4, <2>5 DEF Starts
  <2>7. QED
    BY <2>1, <2>2, <2>5, <2>6, OneFlows DEF Flows
<1>4. QED
  BY <1>1, <1>2, <1>3 DEF OpenStep

\* The adoption makes panes.
LEMMA TakesOverFlow ==
  ASSUME Typed, Unmade, TakesOver
  PROVE  \A q \in Panes : Flows(q)
<1> DEFINE boot == BootOf(watch.task.l)
           new == watch.task.alive \ Held(boot, None)
           n == Cardinality(Born)
           c == Cardinality(new)
           minted == n + 1 .. n + c
<1>0. n \in 0 .. MaxPanes /\ \A p \in Panes : pane[p].born <=> p <= n
  BY Counted
<1>1. c \in Nat
  <2>1. IsFiniteSet(Ids)
    BY BoundsAre, FS_Interval DEF Ids
  <2>2. new \subseteq Ids
    BY DEF Typed, TasksTyped, TaskState
  <2>3. QED
    BY <2>1, <2>2, FS_Subset, FS_CardinalityType
<1>2. minted \subseteq Panes /\ watch.task.at = "listed" /\ UNCHANGED <<bind, seen>>
  BY DEF TakesOver, panesHistory
<1>3. PICK takes \in Takers(minted, new) :
        pane' = [p \in Panes |-> IF p \in minted THEN Adopted(boot, takes[p]) ELSE pane[p]]
  BY DEF TakesOver
<1> HIDE DEF boot, new, n, c
<1>4. ASSUME NEW q \in Panes PROVE Flows(q)
  <2>1. CASE q \in minted
    <3>1. ~pane[q].born
      BY <1>0, <1>1, <2>1, BoundsAre DEF Panes
    <3>2. \E id \in new : pane'[q] = Adopted(boot, id)
      BY <1>3, <2>1 DEF Takers
    <3>3. Starts(q)
      BY <1>2, <3>1, <3>2 DEF Starts, Made, boot, new
    <3>4. QED
      BY <3>3 DEF Flows
  <2>2. CASE q \notin minted
    <3>1. pane'[q] = pane[q] /\ bind'[q] = bind[q] /\ SeenKept(q)
      BY <1>2, <1>3, <2>2 DEF SeenKept
    <3>2. QED
      BY <3>1, Untouched
  <2>3. QED
    BY <2>1, <2>2
<1>5. QED
  BY <1>4

\* Every step takes each pane, its turn and its view one of the ways they go.
LEMMA FlowsStep ==
  ASSUME Inv, PanesNext
  PROVE  \A q \in Panes : Flows(q)
<1>0. Typed /\ Named /\ Unmade /\ Waits /\ Guarded /\ Hosted /\ Keyed
  BY DEF Inv
<1>1. CASE WatchStep
  <2>1. UNCHANGED <<pane, bind>>
    BY <1>1 DEF WatchStep, TakesNews, Joins, AdoptionLocks, AdoptionFails, ListsAgain, ClosesExited,
       HostListsAll, ListingRefused
  <2>2. UNCHANGED seen \/ seen' = [p \in Panes |-> [seen[p] EXCEPT !.late = FALSE]]
    BY <1>1 DEF WatchStep, TakesNews, Joins, AdoptionLocks, AdoptionFails, ListsAgain, ClosesExited,
       HostListsAll, ListingRefused, panesHistory
  <2>3. \A q \in Panes : SeenKept(q)
    BY <1>0, <2>2 DEF SeenKept, Typed, HistoryTyped, View
  <2>4. QED
    BY <1>0, <2>1, <2>3, Untouched
<1>2. LinkStep => UNCHANGED <<pane, bind, seen>>
  BY DEF LinkStep, Connects, LinkDies, LiveCleared, HostRestarts, StrayOpens, mind, panesHistory
<1>3. \A id \in DOMAIN host.ses : SessionStep(id) => UNCHANGED <<pane, bind, seen>>
  BY DEF SessionStep, HostOutputs, SessionEnds, HostReaps, mind, panesHistory
<1>4. QED
  BY <1>0, <1>1, <1>2, <1>3, StepKinds, NoneFlows, BindsFlow, TurnsFlow, AnswersFlow, HostsFlow, AsksFlow,
     PumpsFlow, TakesOverFlow, OpensFlow, ReadsFlow

-----------------------------------------------------------------------------
\* Output on a wire.

\* A wire grows at its end.
Grows(w, v) == Len(v) >= Len(w) /\ \A i \in 1 .. Len(w) : v[i] = w[i]

\* What comes after is no matter to a stream, when it is no output of its session.
LEMMA StreamGrows ==
  ASSUME NEW w \in Seq(Frame), NEW v \in Seq(Frame), Grows(w, v), NEW j \in Nat, NEW id, NEW k, NEW top,
         \A i \in Len(w) + 1 .. Len(v) : ~DataAt(v, i, id), Stream(w, j, id, k, top)
  PROVE  Stream(v, j, id, k, top)
<1>0. Len(w) \in Nat /\ Len(v) \in Nat /\ Len(v) >= Len(w)
  BY DEF Grows
<1>1. \A i \in j + 1 .. Len(v) : DataAt(v, i, id) => i \in j + 1 .. Len(w) /\ DataAt(w, i, id) /\ v[i] = w[i]
  BY <1>0 DEF Grows, DataAt
<1>2. \A i \in j + 1 .. Len(w) : DataAt(w, i, id) => i \in j + 1 .. Len(v) /\ DataAt(v, i, id) /\ v[i] = w[i]
  BY <1>0 DEF Grows, DataAt
<1> HIDE DEF DataAt
<1>3. \A i \in j + 1 .. Len(v) : DataAt(v, i, id) => v[i].n > k
  BY <1>1 DEF Stream
<1>4. \A h, i \in j + 1 .. Len(v) : DataAt(v, h, id) /\ DataAt(v, i, id) /\ h < i => v[h].n < v[i].n
  BY <1>1 DEF Stream
<1>5. \A n \in k + 1 .. top : \E i \in j + 1 .. Len(v) : DataAt(v, i, id) /\ v[i].n = n
  BY <1>2 DEF Stream
<1>6. QED
  BY <1>3, <1>4, <1>5 DEF Stream

\* The session's next output goes on it.
LEMMA StreamFed ==
  ASSUME NEW w \in Seq(Frame), NEW v \in Seq(Frame), NEW id, NEW k \in Int, NEW top \in Nat,
         Grows(w, v), Len(v) = Len(w) + 1, DataAt(v, Len(v), id), v[Len(v)].n = top + 1, k <= top,
         NEW j \in 0 .. Len(w),
         \A i \in 1 .. Len(w) : DataAt(w, i, id) => w[i].n <= top, Stream(w, j, id, k, top)
  PROVE  Stream(v, j, id, k, top + 1)
<1>0. Len(w) \in Nat /\ Len(v) \in Nat
  OBVIOUS
<1>1. \A i \in j + 1 .. Len(v) : \/ i = Len(v)
                                 \/ i \in j + 1 .. Len(w) /\ v[i] = w[i] /\ (DataAt(v, i, id) <=> DataAt(w,
                                     i, id))
  BY <1>0 DEF Grows, DataAt
<1>2. \A i \in j + 1 .. Len(w) : i \in j + 1 .. Len(v) /\ v[i] = w[i] /\ (DataAt(v, i, id) <=> DataAt(w, i,
    id))
  BY <1>0 DEF Grows, DataAt
<1>3. \A i \in j + 1 .. Len(w) : w[i].n \in Nat
  <2>1. \A i \in j + 1 .. Len(w) : i \in 1 .. Len(w)
    BY <1>0
  <2>2. \A i \in 1 .. Len(w) : w[i] \in Frame
    OBVIOUS
  <2>3. QED
    BY <2>1, <2>2 DEF Frame
<1> HIDE DEF DataAt
<1>4. \A i \in j + 1 .. Len(v) : DataAt(v, i, id) => v[i].n > k
  BY <1>1 DEF Stream
<1>5. ASSUME NEW h \in j + 1 .. Len(v), NEW i \in j + 1 .. Len(v), DataAt(v, h, id), DataAt(v, i, id), h < i
      PROVE  v[h].n < v[i].n
  <2>1. h # Len(v) /\ h \in j + 1 .. Len(w) /\ v[h] = w[h] /\ DataAt(w, h, id)
    BY <1>0, <1>1, <1>5
  <2>2. CASE i = Len(v)
    <3>1. w[h].n <= top /\ w[h].n \in Nat
      BY <1>0, <1>3, <2>1
    <3>2. QED
      BY <2>1, <2>2, <3>1
  <2>3. CASE i # Len(v)
    BY <1>1, <1>5, <2>1, <2>3 DEF Stream
  <2>4. QED
    BY <2>2, <2>3
<1>6. ASSUME NEW n \in k + 1 .. top + 1 PROVE \E i \in j + 1 .. Len(v) : DataAt(v, i, id) /\ v[i].n = n
  <2>1. CASE n = top + 1
    <3>1. Len(v) \in j + 1 .. Len(v)
      BY <1>0
    <3>2. QED
      BY <2>1, <3>1
  <2>2. CASE n # top + 1
    <3>1. n \in k + 1 .. top
      BY <2>2
    <3>2. PICK i \in j + 1 .. Len(w) : DataAt(w, i, id) /\ w[i].n = n
      BY <3>1 DEF Stream
    <3>3. QED
      BY <1>2, <3>2
  <2>3. QED
    BY <2>1, <2>2
<1>7. QED
  BY <1>4, <1>5, <1>6 DEF Stream

\* The places of the wire that a reader took a frame from.
LEMMA Places ==
  ASSUME NEW w \in Seq(Frame), w # <<>>
  PROVE  /\ Tail(w) \in Seq(Frame) /\ Head(w) = w[1] /\ Head(w) \in Frame
         /\ Len(w) \in Nat /\ Len(Tail(w)) = Len(w) - 1 /\ Len(w) >= 1
         /\ \A i \in 1 .. Len(Tail(w)) : i + 1 \in 1 .. Len(w) /\ Tail(w)[i] = w[i + 1]
<1>1. Len(w) >= 1
  BY EmptySeq
<1>2. Tail(w) \in Seq(Frame) /\ Head(w) = w[1] /\ Head(w) \in Frame /\ Len(Tail(w)) = Len(w) - 1
      /\ \A i \in 1 .. Len(Tail(w)) : Tail(w)[i] = w[i + 1]
  BY <1>1, HeadTailProperties
<1>3. \A i \in 1 .. Len(Tail(w)) : i + 1 \in 1 .. Len(w)
  BY <1>1, <1>2
<1>4. QED
  BY <1>1, <1>2, <1>3

\* A stream that begins after it stays.
LEMMA StreamShifts ==
  ASSUME NEW w \in Seq(Frame), w # <<>>, NEW j \in Nat, NEW id, NEW k, NEW top,
         Stream(w, j + 1, id, k, top)
  PROVE  Stream(Tail(w), j, id, k, top)
<1> DEFINE v == Tail(w)
<1>0. /\ Len(w) \in Nat /\ Len(v) = Len(w) - 1
      /\ \A i \in 1 .. Len(v) : i + 1 \in 1 .. Len(w) /\ v[i] = w[i + 1]
  BY Places
<1> HIDE DEF v
<1>1. \A i \in j + 1 .. Len(v) : /\ i + 1 \in (j + 1) + 1 .. Len(w) /\ v[i] = w[i + 1]
                                 /\ DataAt(v, i, id) <=> DataAt(w, i + 1, id)
  BY <1>0 DEF DataAt
<1>2. \A i \in (j + 1) + 1 .. Len(w) : i - 1 \in j + 1 .. Len(v) /\ (i - 1) + 1 = i
  BY <1>0
<1> HIDE DEF DataAt
<1>3. \A i \in j + 1 .. Len(v) : DataAt(v, i, id) => v[i].n > k
  BY <1>1 DEF Stream
<1>4. ASSUME NEW h \in j + 1 .. Len(v), NEW i \in j + 1 .. Len(v), DataAt(v, h, id), DataAt(v, i, id), h < i
      PROVE  v[h].n < v[i].n
  <2>1. h + 1 < i + 1
    BY <1>4
  <2>2. QED
    BY <1>1, <1>4, <2>1 DEF Stream
<1>5. ASSUME NEW n \in k + 1 .. top PROVE \E i \in j + 1 .. Len(v) : DataAt(v, i, id) /\ v[i].n = n
  <2>1. PICK i \in (j + 1) + 1 .. Len(w) : DataAt(w, i, id) /\ w[i].n = n
    BY DEF Stream
  <2>2. i - 1 \in j + 1 .. Len(v) /\ (i - 1) + 1 = i
    BY <1>2
  <2>3. DataAt(v, i - 1, id) /\ v[i - 1].n = n
    BY <1>1, <2>1, <2>2
  <2>4. QED
    BY <2>2, <2>3
<1>6. Stream(v, j, id, k, top)
  BY <1>3, <1>4, <1>5 DEF Stream
<1>7. QED
  BY <1>6 DEF v

\* So does one that the frame taken is no part of.
LEMMA StreamSkips ==
  ASSUME NEW w \in Seq(Frame), w # <<>>, NEW id, NEW k, NEW top, ~DataAt(w, 1, id), Stream(w, 0, id, k, top)
  PROVE  Stream(Tail(w), 0, id, k, top)
<1>0. Len(w) \in Nat /\ 0 + 1 = 1
  OBVIOUS
<1>1. \A i \in (0 + 1) + 1 .. Len(w) : i \in 0 + 1 .. Len(w)
  BY <1>0
<1>2. \A i \in 0 + 1 .. Len(w) : DataAt(w, i, id) => i \in (0 + 1) + 1 .. Len(w)
  <2>1. \A i \in 0 + 1 .. Len(w) : i = 1 \/ i \in (0 + 1) + 1 .. Len(w)
    BY <1>0
  <2>2. QED
    BY <2>1
<1> HIDE DEF DataAt
<1>3. \A i \in (0 + 1) + 1 .. Len(w) : DataAt(w, i, id) => w[i].n > k
  BY <1>1 DEF Stream
<1>4. \A h, i \in (0 + 1) + 1 .. Len(w) : DataAt(w, h, id) /\ DataAt(w, i, id) /\ h < i => w[h].n < w[i].n
  BY <1>1 DEF Stream
<1>5. \A n \in k + 1 .. top : \E i \in (0 + 1) + 1 .. Len(w) : DataAt(w, i, id) /\ w[i].n = n
  BY <1>2 DEF Stream
<1>6. Stream(w, 0 + 1, id, k, top)
  BY <1>3, <1>4, <1>5 DEF Stream
<1>7. QED
  BY <1>6, StreamShifts

\* Of the others the frame taken is the next chunk.
LEMMA StreamTaken ==
  ASSUME NEW w \in Seq(Frame), w # <<>>, NEW id, NEW k \in Int, NEW top \in Nat, DataAt(w, 1, id),
         w[1].n <= top, Stream(w, 0, id, k, top)
  PROVE  w[1].n = k + 1 /\ Stream(Tail(w), 0, id, k + 1, top)
<1>0. Len(w) \in Nat /\ Len(w) >= 1 /\ \A i \in 0 + 1 .. Len(w) : w[i].n \in Nat
  <2>1. \A i \in 0 + 1 .. Len(w) : w[i] \in Frame
    OBVIOUS
  <2>2. QED
    BY <2>1, Places DEF Frame
<1>1. 1 \in 0 + 1 .. Len(w)
  BY <1>0
<1>2. w[1].n > k
  BY <1>1 DEF Stream
<1>3. w[1].n = k + 1
  <2>1. k + 1 \in k + 1 .. top
    BY <1>0, <1>1, <1>2
  <2>2. PICK i \in 0 + 1 .. Len(w) : DataAt(w, i, id) /\ w[i].n = k + 1
    BY <2>1 DEF Stream
  <2>3. CASE i = 1
    BY <2>2, <2>3
  <2>4. CASE i # 1
    <3>1. 1 < i
      BY <2>4
    <3>2. w[1].n < w[i].n
      BY <1>1, <2>2, <3>1 DEF Stream
    <3>3. QED
      BY <1>0, <1>1, <1>2, <2>2, <3>2
  <2>5. QED
    BY <2>3, <2>4
<1>4. \A i \in (0 + 1) + 1 .. Len(w) : i \in 0 + 1 .. Len(w) /\ 1 < i
  BY <1>0
<1> HIDE DEF DataAt
<1>5. \A i \in (0 + 1) + 1 .. Len(w) : DataAt(w, i, id) => w[i].n > k + 1
  BY <1>1, <1>3, <1>4 DEF Stream
<1>6. \A h, i \in (0 + 1) + 1 .. Len(w) : DataAt(w, h, id) /\ DataAt(w, i, id) /\ h < i => w[h].n < w[i].n
  BY <1>4 DEF Stream
<1>7. ASSUME NEW n \in (k + 1) + 1 .. top PROVE \E i \in (0 + 1) + 1 .. Len(w) : DataAt(w, i,
    id) /\ w[i].n = n
  <2>1. n \in k + 1 .. top /\ n # k + 1
    OBVIOUS
  <2>2. PICK i \in 0 + 1 .. Len(w) : DataAt(w, i, id) /\ w[i].n = n
    BY <2>1 DEF Stream
  <2>3. i # 1
    BY <1>3, <2>1, <2>2
  <2>4. i \in (0 + 1) + 1 .. Len(w)
    BY <1>0, <2>3
  <2>5. QED
    BY <2>2, <2>4
<1>8. Stream(w, 0 + 1, id, k + 1, top)
  BY <1>5, <1>6, <1>7 DEF Stream
<1>9. QED
  BY <1>3, <1>8, StreamShifts

-----------------------------------------------------------------------------
\* What a step may do to the links and to the sessions' output.

\* Links get frames of these kinds at most, and the new ones have none.
WiresGrow(kinds) ==
  /\ Len(links') >= Len(links)
  /\ \A l \in 1 .. Len(links) :
       /\ links'[l].up = links[l].up /\ Grows(links[l].wire, links'[l].wire)
       /\ \A i \in Len(links[l].wire) + 1 .. Len(links'[l].wire) : links[l].up /\ links'[l].wire[i].kind \in kinds
  /\ \A l \in Len(links) + 1 .. Len(links') : links'[l].wire = <<>>
\* Sessions may be over, and send where they did what they had sent.
SesKept ==
  /\ host'.boot = host.boot /\ Len(host'.ses) >= Len(host.ses)
  /\ \A id \in 1 .. Len(host.ses) : /\ host'.ses[id].out = host.ses[id].out /\ host'.ses[id].to = host.ses[id].to
                                    /\ host'.ses[id].st = "runs" => host.ses[id].st = "runs"
Calm == SesKept /\ WiresGrow({"exit"}) /\ (Len(links') = Len(links) \/ Connects)
NetKind ==
  \/ Calm
  \/ \E id \in 1 .. Len(host.ses) : HostOutputs(id)
  \/ \E p \in Panes : HostAttaches(p) \/ HostDetaches(p)
  \/ LinkDies \/ HostRestarts
  \/ \E l \in 1 .. Len(links) : Reads(l)

\* No frame more.
LEMMA WiresStill ==
  ASSUME Typed, links' = links, NEW kinds
  PROVE  WiresGrow(kinds)
<1>1. links \in Seq(Link) /\ Len(links) \in Nat
  BY DEF Typed, NetTyped
<1>2. \A l \in 1 .. Len(links) : links[l] \in Link
  BY <1>1
<1>3. \A l \in 1 .. Len(links) : Len(links[l].wire) \in Nat
  BY <1>2 DEF Link
<1>4. QED
  BY <1>1, <1>3 DEF WiresGrow, Grows

\* One, on the link it is put on.
LEMMA PutWire ==
  ASSUME Typed, NEW l, NEW frame \in Frame, Put(l, frame)
  PROVE  /\ WiresGrow({frame.kind}) /\ Len(links') = Len(links)
         /\ l \in 1 .. Len(links) /\ links[l].up =>
              /\ links'[l].wire = Append(links[l].wire, frame)
              /\ \A k \in 1 .. Len(links) : k # l => links'[k] = links[k]
<1>1. links \in Seq(Link) /\ Len(links) \in Nat /\ DOMAIN links = 1 .. Len(links)
  BY DEF Typed, NetTyped
<1>2. \A k \in 1 .. Len(links) : links[k] \in Link
  BY <1>1
<1>3. \A k \in 1 .. Len(links) : Len(links[k].wire) \in Nat
  BY <1>2 DEF Link
<1>4. CASE ~Up(l) \/ l \notin DOMAIN links
  <2>1. links' = links
    BY <1>1, <1>4 DEF Put
  <2>2. ~(l \in 1 .. Len(links) /\ links[l].up)
    BY <1>1, <1>4 DEF Up, None
  <2>3. QED
    BY <2>1, <2>2, WiresStill
<1>5. CASE Up(l) /\ l \in DOMAIN links
  <2> DEFINE w == Append(links[l].wire, frame)
  <2>1. links' = [links EXCEPT ![l] = [links[l] EXCEPT !.wire = w]]
    BY <1>5 DEF Put
  <2>2. links[l] \in Link /\ l \in 1 .. Len(links)
    BY <1>1, <1>2, <1>5
  <2>3. [links[l] EXCEPT !.wire = w].wire = w /\ [links[l] EXCEPT !.wire = w].up = links[l].up
    BY <2>2 DEF Link
  <2>4. Len(links') = Len(links)
    BY <2>1, <1>1
  <2>5. /\ links'[l].wire = w /\ links'[l].up = links[l].up
        /\ \A k \in 1 .. Len(links) : k # l => links'[k] = links[k]
    BY <1>1, <2>1, <2>2, <2>3
  <2>6. links[l].wire \in Seq(Frame)
    BY <2>2 DEF Link
  <2>7. Len(w) = Len(links[l].wire) + 1 /\ w[Len(w)] = frame /\ Len(links[l].wire) \in Nat
        /\ \A i \in 1 .. Len(links[l].wire) : w[i] = links[l].wire[i]
    BY <2>6
  <2> HIDE DEF w
  <2>8. Grows(links[l].wire, links'[l].wire)
        /\ \A i \in Len(links[l].wire) + 1 .. Len(links'[l].wire) : links'[l].wire[i] = frame
    BY <2>5, <2>7 DEF Grows
  <2>9. \A k \in 1 .. Len(links) : k # l =>
          /\ links'[k].up = links[k].up /\ Grows(links[k].wire, links'[k].wire)
          /\ \A i \in Len(links[k].wire) + 1 .. Len(links'[k].wire) : FALSE
    BY <1>3, <2>5 DEF Grows
  <2>10. links[l].up
    BY <1>5 DEF Up
  <2>11. WiresGrow({frame.kind})
    <3>1. \A k \in Len(links) + 1 .. Len(links') : FALSE
      BY <1>1, <2>4
    <3>2. ASSUME NEW k \in 1 .. Len(links)
          PROVE  /\ links'[k].up = links[k].up /\ Grows(links[k].wire, links'[k].wire)
                 /\ \A i \in Len(links[k].wire) + 1 .. Len(links'[k].wire) :
                      links[k].up /\ links'[k].wire[i].kind \in {frame.kind}
      BY <2>5, <2>8, <2>9, <2>10
    <3>3. Len(links') >= Len(links)
      BY <1>1, <2>4
    <3>4. QED
      BY <3>1, <3>2, <3>3 DEF WiresGrow
  <2>12. QED
    BY <2>4, <2>5, <2>11 DEF w
<1>6. QED
  BY <1>4, <1>5

\* A session changes in one way, and the others stay.
LEMMA SesSet ==
  ASSUME Typed, NEW id
  PROVE  /\ DOMAIN host.ses = 1 .. Len(host.ses) /\ Len(host.ses) \in Nat
         /\ \A x : x # "runs" /\ host' = [host EXCEPT !.ses[id].st = x] => SesKept
         /\ \A x : id \in 1 .. Len(host.ses) /\ host' = [host EXCEPT !.ses[id].st = x] => host'.ses[id].st = x
         /\ \A x : id \in 1 .. Len(host.ses) /\ host' = [host EXCEPT !.ses[id].out = x] =>
              /\ host'.boot = host.boot /\ Len(host'.ses) = Len(host.ses) /\ host'.ses[id].out = x
              /\ host'.ses[id].to = host.ses[id].to /\ host'.ses[id].st = host.ses[id].st
              /\ \A k \in 1 .. Len(host.ses) : k # id => host'.ses[k] = host.ses[k]
         /\ \A x : id \in 1 .. Len(host.ses) /\ host' = [host EXCEPT !.ses[id].to = x] =>
              /\ host'.boot = host.boot /\ Len(host'.ses) = Len(host.ses) /\ host'.ses[id].to = x
              /\ host'.ses[id].out = host.ses[id].out /\ host'.ses[id].st = host.ses[id].st
              /\ \A k \in 1 .. Len(host.ses) : k # id => host'.ses[k] = host.ses[k]
<1>0. /\ host \in HostState /\ host.ses \in Seq(SessionState) /\ Len(host.ses) \in Nat
      /\ DOMAIN host.ses = 1 .. Len(host.ses)
  BY DEF Typed, HostTyped, HostState
<1>1. ASSUME NEW s, host' = [host EXCEPT !.ses = [host.ses EXCEPT ![id] = s]], id \in 1 .. Len(host.ses)
      PROVE  /\ host'.boot = host.boot /\ Len(host'.ses) = Len(host.ses) /\ host'.ses[id] = s
             /\ \A k \in 1 .. Len(host.ses) : k # id => host'.ses[k] = host.ses[k]
  <2>1. host'.ses = [host.ses EXCEPT ![id] = s] /\ host'.boot = host.boot
    BY <1>0, <1>1 DEF HostState
  <2>2. QED
    BY <1>0, <1>1, <2>1
<1>2. ASSUME id \in 1 .. Len(host.ses), NEW x
      PROVE  LET a == host.ses[id]
                 s == [a EXCEPT !.st = x]
                 o == [a EXCEPT !.out = x]
                 t == [a EXCEPT !.to = x]
             IN /\ s.st = x /\ s.out = a.out /\ s.to = a.to
                /\ o.out = x /\ o.to = a.to /\ o.st = a.st
                /\ t.to = x /\ t.out = a.out /\ t.st = a.st
  <2>1. host.ses[id] \in SessionState
    BY <1>0, <1>2
  <2>2. QED
    BY <2>1 DEF SessionState
<1>3. ASSUME NEW x, host' = [host EXCEPT !.ses[id].st = x], id \in 1 .. Len(host.ses)
      PROVE  host'.ses[id].st = x /\ (x # "runs" => SesKept)
  <2>1. host' = [host EXCEPT !.ses = [host.ses EXCEPT ![id] = [host.ses[id] EXCEPT !.st = x]]]
    BY <1>3
  <2>2. QED
    BY <1>0, <1>1, <1>2, <1>3, <2>1 DEF SesKept
<1>4. ASSUME NEW x, host' = [host EXCEPT !.ses[id].st = x], id \notin 1 .. Len(host.ses)
      PROVE  SesKept
  <2>1. host' = host
    BY <1>0, <1>4 DEF HostState
  <2>2. QED
    BY <1>0, <2>1 DEF SesKept
<1>5. ASSUME NEW x, host' = [host EXCEPT !.ses[id].out = x], id \in 1 .. Len(host.ses)
      PROVE  /\ host'.boot = host.boot /\ Len(host'.ses) = Len(host.ses) /\ host'.ses[id].out = x
             /\ host'.ses[id].to = host.ses[id].to /\ host'.ses[id].st = host.ses[id].st
             /\ \A k \in 1 .. Len(host.ses) : k # id => host'.ses[k] = host.ses[k]
  <2>1. host' = [host EXCEPT !.ses = [host.ses EXCEPT ![id] = [host.ses[id] EXCEPT !.out = x]]]
    BY <1>5
  <2>2. QED
    BY <1>1, <1>2, <1>5, <2>1
<1>6. ASSUME NEW x, host' = [host EXCEPT !.ses[id].to = x], id \in 1 .. Len(host.ses)
      PROVE  /\ host'.boot = host.boot /\ Len(host'.ses) = Len(host.ses) /\ host'.ses[id].to = x
             /\ host'.ses[id].out = host.ses[id].out /\ host'.ses[id].st = host.ses[id].st
             /\ \A k \in 1 .. Len(host.ses) : k # id => host'.ses[k] = host.ses[k]
  <2>1. host' = [host EXCEPT !.ses = [host.ses EXCEPT ![id] = [host.ses[id] EXCEPT !.to = x]]]
    BY <1>6
  <2>2. QED
    BY <1>1, <1>2, <1>6, <2>1
<1>7. QED
  BY <1>0, <1>3, <1>4, <1>5, <1>6

AttachFrame(kind, id, p) == [kind |-> kind, ses |-> id, n |-> p]

\* An attach is answered on its link, and its session sends there from then on.
LEMMA AttachFacts ==
  ASSUME Typed, Named, NEW p \in Panes, HostAttaches(p)
  PROVE  LET l == bind[p].l
             id == bind[p].ses
             w == links[l].wire
             v == links'[l].wire
         IN
         /\ l \in 1 .. Len(links) /\ links[l].up /\ bind[p].at = "attaching" /\ bind'[p].at = "answering"
         /\ bind'[p].l = l /\ bind'[p].ses = id /\ bind'[p].gen = bind[p].gen
         /\ \A q \in Panes : q # p => bind'[q] = bind[q]
         /\ WiresGrow({"attached", "gone", "exit"}) /\ Len(links') = Len(links)
         /\ \A k \in 1 .. Len(links) : k # l => links'[k] = links[k]
         /\ host'.boot = host.boot /\ Len(host'.ses) = Len(host.ses)
         /\ \A k \in 1 .. Len(host.ses) :
              /\ host'.ses[k].out = host.ses[k].out /\ host'.ses[k].st = host.ses[k].st
              /\ k # id => host'.ses[k].to = host.ses[k].to
         /\ feeds' = feeds /\ pane' = pane /\ live' = live
         /\ Exists(id) =>
              /\ id \in 1 .. Len(host.ses) /\ host'.ses[id].to = l /\ bind'[p].upto = host.ses[id].out
              /\ Len(v) >= Len(w) + 1 /\ v[Len(w) + 1] = AttachFrame("attached", id, p)
              /\ \A i \in (Len(w) + 1) + 1 .. Len(v) : v[i].kind = "exit"
         /\ ~Exists(id) =>
              host' = host /\ Len(v) = Len(w) + 1 /\ v[Len(w) + 1] = AttachFrame("gone", id, p)
<1> DEFINE l == bind[p].l
           id == bind[p].ses
           w == links[l].wire
           v == links'[l].wire
<1>1. /\ links \in Seq(Link) /\ Len(links) \in Nat /\ bind[p] \in Turn /\ bind \in [Panes -> Turn]
      /\ DOMAIN links = 1 .. Len(links)
  BY DEF Typed, NetTyped, PanesTyped
<1>2. l \in 1 .. Len(links) /\ links[l].up /\ bind[p].at = "attaching"
  BY DEF HostAttaches, Calls, Named, Up
<1>3. links[l] \in Link /\ w \in Seq(Frame) /\ Len(w) \in Nat
  <2>1. links[l] \in Link
    BY <1>1, <1>2
  <2>2. QED
    BY <2>1 DEF Link
<1>4. feeds' = feeds /\ pane' = pane /\ live' = live
  BY DEF HostAttaches
<1>5. CASE Exists(id)
  <2> DEFINE exit == IF Session(id).st = "exited" THEN <<[kind |-> "exit", ses |-> id, n |-> 0]>> ELSE <<>>
             a == AttachFrame("attached", id, p)
             u == Append(w, a) \o exit
             out == host.ses[id].out
  <2>1. /\ host' = [host EXCEPT !.ses[id].to = l]
        /\ links' = [links EXCEPT ![l].wire = Append(@, a) \o exit]
        /\ bind' = [bind EXCEPT ![p].at = "answering", ![p].upto = Session(id).out]
    BY <1>5 DEF HostAttaches, AttachFrame
  <2>2. id \in 1 .. Len(host.ses)
    BY <1>5, SesSet DEF Exists
  <2>3. /\ bind'[p].at = "answering" /\ bind'[p].upto = out /\ bind'[p].l = l /\ bind'[p].ses = id
        /\ bind'[p].gen = bind[p].gen
        /\ \A q \in Panes : q # p => bind'[q] = bind[q]
    <3>1. bind' = [bind EXCEPT ![p] = [bind[p] EXCEPT !.at = "answering", !.upto = out]]
      BY <1>1, <2>1 DEF Session
    <3>2. [bind[p] EXCEPT !.at = "answering", !.upto = out].upto = out
      BY <1>1 DEF Turn
    <3> HIDE DEF out
    <3>3. QED
      BY <1>1, <3>1, <3>2 DEF Turn
  <2>4. links' = [links EXCEPT ![l] = [links[l] EXCEPT !.wire = u]]
    BY <2>1
  <2>5. Len(links') = Len(links)
    BY <1>1, <2>4
  <2>6. /\ links'[l] = [links[l] EXCEPT !.wire = u]
        /\ \A k \in 1 .. Len(links) : k # l => links'[k] = links[k]
    BY <1>1, <1>2, <2>4
  <2>7. /\ a \in Frame /\ a.kind = "attached" /\ exit \in Seq(Frame) /\ Len(exit) \in Nat
        /\ \A i \in 1 .. Len(exit) : exit[i].kind = "exit"
    <3>1. p \in Nat /\ id \in Nat
      BY <1>1, BoundsAre DEF Panes, Turn
    <3>2. a \in Frame
      BY <3>1 DEF AttachFrame, Frame
    <3>3. CASE exit = <<>>
      BY <3>2, <3>3 DEF AttachFrame
    <3>4. CASE exit = <<[kind |-> "exit", ses |-> id, n |-> 0]>>
      <4>1. [kind |-> "exit", ses |-> id, n |-> 0] \in Frame
        BY <3>1 DEF Frame
      <4>2. QED
        BY <3>2, <3>4, <4>1 DEF AttachFrame
    <3>5. QED
      BY <3>3, <3>4
  <2>8. Append(w, a) \in Seq(Frame) /\ Len(Append(w, a)) = Len(w) + 1 /\ Append(w, a)[Len(w) + 1] = a
        /\ \A i \in 1 .. Len(w) : Append(w, a)[i] = w[i]
    BY <1>3, <2>7
  <2>9. links'[l].wire = u /\ links'[l].up = links[l].up
    <3> HIDE DEF u
    <3>1. QED
      BY <1>3, <2>6 DEF Link
  <2> HIDE DEF exit, a
  <2>10. /\ Len(u) >= Len(w) + 1 /\ u[Len(w) + 1] = a
         /\ \A i \in (Len(w) + 1) + 1 .. Len(u) : u[i].kind = "exit"
         /\ \A i \in 1 .. Len(w) : u[i] = w[i]
    <3> DEFINE x == Append(w, a)
    <3>1. x \in Seq(Frame) /\ exit \in Seq(Frame) /\ u = x \o exit
      BY <2>7, <2>8
    <3>2. Len(u) = Len(x) + Len(exit)
      BY <3>1
    <3>3. \A i \in 1 .. Len(x) : u[i] = x[i]
      BY <3>1
    <3>4. \A i \in Len(x) + 1 .. Len(u) : u[i] = exit[i - Len(x)] /\ i - Len(x) \in 1 .. Len(exit)
      BY <2>7, <2>8, <3>1, <3>2
    <3>5. Len(x) = Len(w) + 1 /\ x[Len(w) + 1] = a /\ \A i \in 1 .. Len(w) : x[i] = w[i]
      BY <2>8
    <3> HIDE DEF x, u
    <3>9. Len(w) \in Nat /\ Len(exit) \in Nat
      BY <1>3, <2>7
    <3>10. Len(u) >= Len(w) + 1 /\ Len(w) + 1 \in 1 .. Len(x) /\ \A i \in 1 .. Len(w) : i \in 1 .. Len(x)
      BY <3>2, <3>5, <3>9
    <3>6. Len(u) >= Len(w) + 1 /\ u[Len(w) + 1] = a /\ \A i \in 1 .. Len(w) : u[i] = w[i]
      BY <3>3, <3>5, <3>10
    <3>7. \A i \in (Len(w) + 1) + 1 .. Len(u) : u[i].kind = "exit"
      BY <2>7, <3>4, <3>5
    <3>8. QED
      BY <3>6, <3>7
  <2> HIDE DEF u
  <2>11. WiresGrow({"attached", "gone", "exit"})
    <3>1. \A k \in Len(links) + 1 .. Len(links') : FALSE
      BY <1>1, <2>5
    <3>2. ASSUME NEW k \in 1 .. Len(links), k # l
          PROVE  /\ links'[k].up = links[k].up /\ Grows(links[k].wire, links'[k].wire)
                 /\ \A i \in Len(links[k].wire) + 1 .. Len(links'[k].wire) : FALSE
      <4>1. links[k] \in Link
        BY <1>1
      <4>2. Len(links[k].wire) \in Nat
        BY <4>1 DEF Link
      <4>3. QED
        BY <2>6, <3>2, <4>2 DEF Grows
    <3>3. ASSUME NEW i \in Len(w) + 1 .. Len(u) PROVE u[i].kind \in {"attached", "gone", "exit"}
      <4>1. i = Len(w) + 1 \/ i \in (Len(w) + 1) + 1 .. Len(u)
        BY <1>3, <2>10
      <4>2. a.kind = "attached"
        BY <2>7
      <4>3. QED
        BY <2>10, <4>1, <4>2
    <3>4. Grows(w, u)
      BY <1>3, <2>10 DEF Grows
    <3>5. Len(links') >= Len(links)
      BY <1>1, <2>5
    <3>6. QED
      BY <1>2, <2>9, <3>1, <3>2, <3>3, <3>4, <3>5 DEF WiresGrow
  <2>12. v = u
    BY <2>9
  <2>13. /\ host'.boot = host.boot /\ Len(host'.ses) = Len(host.ses) /\ host'.ses[id].to = l
         /\ \A k \in 1 .. Len(host.ses) :
              /\ host'.ses[k].out = host.ses[k].out /\ host'.ses[k].st = host.ses[k].st
              /\ k # id => host'.ses[k].to = host.ses[k].to
    BY <2>1, <2>2, SesSet
  <2>14. QED
    BY <1>2, <1>4, <1>5, <2>2, <2>3, <2>5, <2>6, <2>10, <2>11, <2>12, <2>13 DEF a
<1>6. CASE ~Exists(id)
  <2> DEFINE a == AttachFrame("gone", id, p)
  <2>1. Put(l, a) /\ At(p, "answering") /\ host' = host
    BY <1>6 DEF HostAttaches, AttachFrame
  <2>2. a \in Frame /\ a.kind = "gone"
    <3>1. p \in Nat /\ id \in Nat
      BY <1>1, BoundsAre DEF Panes, Turn
    <3>2. QED
      BY <3>1 DEF AttachFrame, Frame
  <2>3. /\ bind'[p].at = "answering" /\ bind'[p].l = l /\ bind'[p].ses = id /\ bind'[p].gen = bind[p].gen
        /\ \A q \in Panes : q # p => bind'[q] = bind[q]
    BY <1>1, <2>1 DEF At, Turn
  <2> HIDE DEF a
  <2>4. /\ WiresGrow({"gone"}) /\ Len(links') = Len(links) /\ links'[l].wire = Append(w, a)
        /\ \A k \in 1 .. Len(links) : k # l => links'[k] = links[k]
    <3>1. a \in Frame /\ Put(l, a)
      BY <2>1, <2>2
    <3>2. /\ WiresGrow({a.kind}) /\ Len(links') = Len(links)
          /\ l \in 1 .. Len(links) /\ links[l].up =>
               /\ links'[l].wire = Append(w, a)
               /\ \A k \in 1 .. Len(links) : k # l => links'[k] = links[k]
      <4> HIDE DEF l
      <4>1. QED
        BY <3>1, PutWire
    <3>3. {a.kind} = {"gone"}
      BY <2>2
    <3>4. WiresGrow({"gone"})
      BY <3>2, <3>3
    <3>5. QED
      BY <1>2, <3>2, <3>4
  <2>5. Len(v) = Len(w) + 1 /\ v[Len(w) + 1] = a
    <3>1. Len(Append(w, a)) = Len(w) + 1 /\ Append(w, a)[Len(w) + 1] = a
      BY <1>3, <2>2
    <3>2. QED
      BY <2>4, <3>1
  <2>6. WiresGrow({"attached", "gone", "exit"})
    BY <2>4 DEF WiresGrow
  <2>7. QED
    BY <1>2, <1>4, <1>6, <2>1, <2>3, <2>4, <2>5, <2>6 DEF a
<1>7. QED
  BY <1>5, <1>6

\* Every step is one of those.
LEMMA NetStep ==
  ASSUME Typed, Named, PanesNext
  PROVE  NetKind
<1>0. /\ links \in Seq(Link) /\ Len(links) \in Nat /\ DOMAIN links = 1 .. Len(links)
      /\ Len(host.ses) \in Nat /\ DOMAIN host.ses = 1 .. Len(host.ses) /\ host \in HostState
  BY DEF Typed, NetTyped, HostTyped, HostState
<1>h. host' = host => SesKept
  BY <1>0 DEF SesKept
<1>s. ASSUME host'.boot = host.boot, host'.ses = host.ses PROVE SesKept
  BY <1>0, <1>s DEF SesKept
<1>a. ASSUME NEW s, host'.boot = host.boot, host'.ses = Append(host.ses, s) PROVE SesKept
  <2>1. host.ses \in Seq(SessionState)
    BY <1>0 DEF HostState
  <2>2. Len(host'.ses) = Len(host.ses) + 1 /\ \A k \in 1 .. Len(host.ses) : host'.ses[k] = host.ses[k]
    BY <1>a, <2>1
  <2>3. QED
    BY <1>0, <1>a, <2>2 DEF SesKept
<1>l. links' = links => WiresGrow({"exit"}) /\ Len(links') = Len(links)
  BY WiresStill
<1>x. ASSUME NEW l, NEW id \in 1 .. Len(host.ses), Put(l, [kind |-> "exit", ses |-> id, n |-> 0])
      PROVE  WiresGrow({"exit"}) /\ Len(links') = Len(links)
  <2> DEFINE frame == [kind |-> "exit", ses |-> id, n |-> 0]
  <2>1. frame \in Frame /\ frame.kind = "exit"
    BY <1>0 DEF Frame
  <2>2. Put(l, frame)
    BY <1>x
  <2> HIDE DEF frame
  <2>3. WiresGrow({frame.kind}) /\ Len(links') = Len(links)
    BY <2>1, <2>2, PutWire
  <2>4. QED
    BY <2>1, <2>3
<1>1. ASSUME NEW t \in queue, BindStep(t) PROVE Calm
  <2>1. UNCHANGED <<host, links>>
    BY <1>1 DEF BindStep, BindMoot, BindFindsItGone, BindGoes, DetachGoes, net
  <2>2. QED
    BY <2>1, <1>h, <1>l DEF Calm
<1>2. ASSUME NEW p \in Panes, TurnStep(p) PROVE Calm
  <2>1. UNCHANGED <<host, links>>
    BY <1>2 DEF TurnStep, GetsOpening, Found, Opened, Refused, FoundToClose, Closed, tasks, net
  <2>2. QED
    BY <2>1, <1>h, <1>l DEF Calm
<1>3. ASSUME NEW p \in Panes, AnswerStep(p) PROVE Calm
  <2>1. CASE Gone(p) \/ AttachSuperseded(p) \/ Attached(p) \/ TypesLine(p)
    <3>1. UNCHANGED <<host, links>>
      BY <2>1 DEF Gone, AttachSuperseded, Attached, TypesLine, net
    <3>2. QED
      BY <3>1, <1>h, <1>l DEF Calm
  <2>2. CASE CallFails(p)
    <3>1. links' = links /\ (host' = host \/ host' = [host EXCEPT !.strays = @ + 1])
      BY <2>2 DEF CallFails, net
    <3>2. host'.boot = host.boot /\ host'.ses = host.ses
      BY <1>0, <3>1 DEF HostState
    <3>3. QED
      BY <3>1, <3>2, <1>s, <1>l DEF Calm
  <2>3. QED
    BY <1>3, <2>1, <2>2 DEF AnswerStep
<1>4. ASSUME NEW f \in feeds, PumpStep(f) PROVE Calm
  <2>1. UNCHANGED <<host, links>>
    BY <1>4 DEF PumpStep, PumpSuperseded, Forwards, ForwardsExit, PumpEnds, net
  <2>2. QED
    BY <2>1, <1>h, <1>l DEF Calm
<1>5. ASSUME WatchStep PROVE Calm
  <2>1. CASE ClosesExited
    <3>1. links' = links /\ (host' = host \/ \E id : host' = [host EXCEPT !.ses[id].st = "closed"])
      BY <2>1 DEF ClosesExited, net
    <3>2. SesKept
      BY <3>1, <1>h, SesSet
    <3>3. QED
      BY <3>1, <3>2, <1>l DEF Calm
  <2>2. CASE ~ClosesExited
    <3>1. UNCHANGED <<host, links>>
      BY <1>5, <2>2 DEF WatchStep, TakesNews, Joins, AdoptionLocks, AdoptionFails, ListsAgain, HostListsAll,
         ListingRefused, net
    <3>2. QED
      BY <3>1, <1>h, <1>l DEF Calm
  <2>3. QED
    BY <2>1, <2>2
<1>6. ASSUME TakesOver \/ OpenStep PROVE Calm
  <2>1. UNCHANGED <<host, links>>
    BY <1>6 DEF TakesOver, OpenStep, OpenAsked, Claims, Inserts, net
  <2>2. QED
    BY <2>1, <1>h, <1>l DEF Calm
<1>7. ASSUME NEW p \in Panes, HostStep(p) PROVE Calm \/ HostAttaches(p) \/ HostDetaches(p)
  <2>1. CASE HostLists(p) \/ HostRefuses(p)
    <3>1. UNCHANGED <<host, links>>
      BY <2>1 DEF HostLists, HostRefuses, net
    <3>2. QED
      BY <3>1, <1>h, <1>l DEF Calm
  <2>2. CASE HostOpens(p)
    <3>1. links' = links /\ host' = [host EXCEPT !.ses = Append(@, NewSession(p))]
      BY <2>2 DEF HostOpens, net
    <3>2. host'.boot = host.boot /\ host'.ses = Append(host.ses, NewSession(p))
      BY <1>0, <3>1 DEF HostState
    <3>3. QED
      BY <3>1, <3>2, <1>a, <1>l DEF Calm
  <2>3. CASE HostCloses(p)
    <3> DEFINE id == bind[p].ses
    <3>1. \/ UNCHANGED <<host, links>>
          \/ /\ host' = [host EXCEPT !.ses[id].st = "closed"]
             /\ \/ UNCHANGED links
                \/ Exists(id) /\ Put(Session(id).to, [kind |-> "exit", ses |-> id, n |-> 0])
      BY <2>3 DEF HostCloses
    <3>2. Exists(id) => id \in 1 .. Len(host.ses)
      BY <1>0 DEF Exists
    <3>3. WiresGrow({"exit"}) /\ Len(links') = Len(links)
      BY <3>1, <3>2, <1>l, <1>x
    <3>4. SesKept
      BY <3>1, <1>h, SesSet
    <3>5. QED
      BY <3>3, <3>4 DEF Calm
  <2>4. QED
    BY <1>7, <2>1, <2>2, <2>3 DEF HostStep
<1>8. ASSUME NEW id \in DOMAIN host.ses, SessionStep(id) PROVE Calm \/ HostOutputs(id)
  <2>1. CASE SessionEnds(id)
    <3>1. /\ host' = [host EXCEPT !.ses[id].st = "exited"]
          /\ Put(Session(id).to, [kind |-> "exit", ses |-> id, n |-> 0])
      BY <2>1 DEF SessionEnds
    <3>2. QED
      BY <1>0, <3>1, <1>x, SesSet DEF Calm
  <2>2. CASE HostReaps(id)
    <3>1. links' = links /\ host' = [host EXCEPT !.ses[id].st = "closed"]
      BY <2>2 DEF HostReaps, net
    <3>2. QED
      BY <3>1, <1>l, SesSet DEF Calm
  <2>3. QED
    BY <1>8, <2>1, <2>2 DEF SessionStep
<1>9. ASSUME LinkStep PROVE Calm \/ LinkDies \/ HostRestarts
  <2>1. CASE Connects
    <3> DEFINE new == [boot |-> host.boot, up |-> TRUE, wire |-> <<>>]
    <3>1. host' = host /\ links' = Append(links, new)
      BY <2>1 DEF Connects
    <3>w. new.wire = <<>>
      OBVIOUS
    <3> HIDE DEF new
    <3>2. /\ Len(links') = Len(links) + 1 /\ links'[Len(links) + 1] = new
          /\ \A l \in 1 .. Len(links) : links'[l] = links[l]
      BY <1>0, <3>1
    <3>3. \A l \in 1 .. Len(links) : Len(links[l].wire) \in Nat
      <4>1. \A l \in 1 .. Len(links) : links[l] \in Link
        BY <1>0
      <4>2. QED
        BY <4>1 DEF Link
    <3>4. \A l \in Len(links) + 1 .. Len(links') : links'[l].wire = <<>>
      BY <1>0, <3>w, <3>2
    <3>5. \A l \in 1 .. Len(links) :
            /\ links'[l].up = links[l].up /\ Grows(links[l].wire, links'[l].wire)
            /\ \A i \in Len(links[l].wire) + 1 .. Len(links'[l].wire) : FALSE
      BY <3>2, <3>3 DEF Grows
    <3>6. Len(links') >= Len(links)
      BY <1>0, <3>2
    <3>7. QED
      BY <2>1, <3>1, <3>4, <3>5, <3>6, <1>h DEF Calm, WiresGrow
  <2>2. CASE LiveCleared
    <3>1. UNCHANGED <<host, links>>
      BY <2>2 DEF LiveCleared
    <3>2. QED
      BY <3>1, <1>h, <1>l DEF Calm
  <2>3. CASE StrayOpens
    <3>1. links' = links
      BY <2>3 DEF StrayOpens, net
    <3>2. host'.boot = host.boot /\ (host'.ses = host.ses \/ host'.ses = Append(host.ses, NewSession(None)))
      BY <1>0, <2>3 DEF StrayOpens, HostState
    <3>3. QED
      BY <3>1, <3>2, <1>s, <1>a, <1>l DEF Calm
  <2>4. QED
    BY <1>9, <2>1, <2>2, <2>3 DEF LinkStep
<1>10. ASSUME NEW p \in Panes, AskStep(p) PROVE Calm
  <2>1. UNCHANGED <<host, links>>
    BY <1>10 DEF AskStep, Shows, Hides, Closes, Seeds, Expires, net
  <2>2. QED
    BY <2>1, <1>h, <1>l DEF Calm
<1>11. QED
  BY <1>0, <1>1, <1>2, <1>3, <1>4, <1>5, <1>6, <1>7, <1>8, <1>9, <1>10, StepKinds DEF NetKind

\* The live link changes with the links, and is let go of when it is down.
LEMMA LiveStep ==
  ASSUME Typed, PanesNext
  PROVE  live' = live \/ Connects \/ LiveCleared
<1>1. \A t \in queue : BindStep(t) => live' = live
  BY DEF BindStep, BindMoot, BindFindsItGone, BindGoes, DetachGoes, net
<1>2. \A p \in Panes : TurnStep(p) => live' = live
  BY DEF TurnStep, GetsOpening, Found, Opened, Refused, FoundToClose, Closed, net
<1>3. \A p \in Panes : AnswerStep(p) => live' = live
  BY DEF AnswerStep, Gone, AttachSuperseded, Attached, TypesLine, CallFails, net
<1>4. \A p \in Panes : HostStep(p) => live' = live
  BY DEF HostStep, HostLists, HostOpens, HostRefuses, HostAttaches, HostCloses, HostDetaches, net
<1>5. \A p \in Panes : AskStep(p) => live' = live
  BY DEF AskStep, Shows, Hides, Closes, Seeds, Expires, net
<1>6. \A f \in feeds : PumpStep(f) => live' = live
  BY DEF PumpStep, PumpSuperseded, Forwards, ForwardsExit, PumpEnds, net
<1>7. WatchStep \/ TakesOver \/ OpenStep => live' = live
  BY DEF WatchStep, TakesNews, Joins, AdoptionLocks, AdoptionFails, ListsAgain, ClosesExited, HostListsAll,
     ListingRefused, TakesOver, OpenStep, OpenAsked, Claims, Inserts, net
<1>8. LinkStep => live' = live \/ Connects \/ LiveCleared
  BY DEF LinkStep, LinkDies, HostRestarts, StrayOpens, net
<1>9. \A id \in DOMAIN host.ses : SessionStep(id) => live' = live
  BY DEF SessionStep, HostOutputs, SessionEnds, HostReaps, net
<1>10. \A l \in DOMAIN links : Reads(l) => live' = live
  BY DEF Reads
<1>11. QED
  BY <1>1, <1>2, <1>3, <1>4, <1>5, <1>6, <1>7, <1>8, <1>9, <1>10, StepKinds

\* Sessions make more output, and one that is over stays so.
SesGoes ==
  host'.boot = host.boot =>
    \A id \in 1 .. Len(host.ses) : /\ host'.ses[id].out >= host.ses[id].out
                                   /\ host'.ses[id].st = "runs" => host.ses[id].st = "runs"

\* A chunk goes where its session sends.
LEMMA OutputFacts ==
  ASSUME Typed, NEW id \in 1 .. Len(host.ses), HostOutputs(id)
  PROVE  LET chunk == [kind |-> "data", ses |-> id, n |-> host.ses[id].out + 1]
             to == host.ses[id].to
         IN
         /\ host.ses[id].st = "runs" /\ host'.boot = host.boot /\ Len(host'.ses) = Len(host.ses)
         /\ host'.ses[id].out = host.ses[id].out + 1 /\ host'.ses[id].to = to /\ host'.ses[id].st = "runs"
         /\ \A k \in 1 .. Len(host.ses) : k # id => host'.ses[k] = host.ses[k]
         /\ WiresGrow({"data"}) /\ Len(links') = Len(links)
         /\ \A l \in 1 .. Len(links) : IF l = to /\ links[l].up THEN links'[l].wire = Append(links[l].wire,
             chunk)
                                                                ELSE links'[l].wire = links[l].wire
         /\ chunk \in Frame
         /\ live' = live /\ feeds' = feeds /\ pane' = pane /\ bind' = bind
<1> DEFINE out == host.ses[id].out
           to == host.ses[id].to
           chunk == [kind |-> "data", ses |-> id, n |-> out + 1]
<1>1. /\ Put(to, chunk) /\ host' = [host EXCEPT !.ses[id].out = @ + 1] /\ host.ses[id].st = "runs"
      /\ live' = live /\ feeds' = feeds /\ pane' = pane /\ bind' = bind
  BY DEF HostOutputs, Session, Alive, mind
<1>2. /\ host'.boot = host.boot /\ Len(host'.ses) = Len(host.ses)
      /\ host'.ses[id].out = out + 1 /\ host'.ses[id].to = to /\ host'.ses[id].st = "runs"
      /\ \A k \in 1 .. Len(host.ses) : k # id => host'.ses[k] = host.ses[k]
  BY <1>1, SesSet
<1>3. chunk \in Frame /\ chunk.kind = "data"
  <2>1. host.ses \in Seq(SessionState)
    BY DEF Typed, HostTyped, HostState
  <2>2. host.ses[id] \in SessionState
    BY <2>1
  <2>3. out + 1 \in Nat /\ id \in Nat
    BY <2>2 DEF SessionState
  <2>4. QED
    BY <2>3 DEF Frame
<1> HIDE DEF chunk, to
<1>4. /\ WiresGrow({"data"}) /\ Len(links') = Len(links)
      /\ to \in 1 .. Len(links) /\ links[to].up =>
           /\ links'[to].wire = Append(links[to].wire, chunk)
           /\ \A k \in 1 .. Len(links) : k # to => links'[k] = links[k]
  <2>1. Put(to, chunk) /\ chunk \in Frame
    BY <1>1, <1>3
  <2>2. /\ WiresGrow({chunk.kind}) /\ Len(links') = Len(links)
        /\ to \in 1 .. Len(links) /\ links[to].up =>
             /\ links'[to].wire = Append(links[to].wire, chunk)
             /\ \A k \in 1 .. Len(links) : k # to => links'[k] = links[k]
    BY <2>1, PutWire
  <2>3. QED
    BY <1>3, <2>2
<1>5. ASSUME NEW l \in 1 .. Len(links)
      PROVE  IF l = to /\ links[l].up THEN links'[l].wire = Append(links[l].wire, chunk)
                                      ELSE links'[l].wire = links[l].wire
  <2>1. CASE to \in 1 .. Len(links) /\ links[to].up
    BY <1>4, <2>1
  <2>2. CASE ~(to \in 1 .. Len(links) /\ links[to].up)
    <3>1. links' = links
      <4>1. links \in Seq(Link) /\ DOMAIN links = 1 .. Len(links)
        BY DEF Typed, NetTyped
      <4>2. QED
        BY <1>1, <2>2, <4>1 DEF Put, Up
    <3>2. QED
      BY <2>2, <3>1
  <2>3. QED
    BY <2>1, <2>2
<1>6. QED
  BY <1>1, <1>2, <1>3, <1>4, <1>5 DEF chunk, to

\* The reader takes the first frame of a link that is up.
LEMMA ReadsFacts ==
  ASSUME Typed, NEW l \in 1 .. Len(links), Reads(l)
  PROVE  /\ links[l].up /\ links[l].wire \in Seq(Frame) /\ links[l].wire # <<>>
         /\ host' = host /\ live' = live /\ pane' = pane /\ Len(links') = Len(links)
         /\ queue' = queue
         /\ links'[l].wire = Tail(links[l].wire) /\ links'[l].up
         /\ \A k \in 1 .. Len(links) : k # l => links'[k] = links[k]
<1>1. /\ links \in Seq(Link) /\ DOMAIN links = 1 .. Len(links)
  BY DEF Typed, NetTyped
<1>2. links[l] \in Link
  BY <1>1
<1>3. /\ links[l].up /\ links[l].wire # <<>> /\ host' = host /\ live' = live /\ pane' = pane /\ queue' = queue
      /\ links' = [links EXCEPT ![l] = [links[l] EXCEPT !.wire = Tail(links[l].wire)]]
  BY DEF Reads, Up, tasks
<1>4. /\ links'[l] = [links[l] EXCEPT !.wire = Tail(links[l].wire)] /\ Len(links') = Len(links)
      /\ \A k \in 1 .. Len(links) : k # l => links'[k] = links[k]
  BY <1>1, <1>3
<1>5. links'[l].wire = Tail(links[l].wire) /\ links'[l].up = links[l].up
  BY <1>2, <1>4 DEF Link
<1>6. links[l].wire \in Seq(Frame)
  BY <1>2 DEF Link
<1>7. QED
  BY <1>3, <1>4, <1>5, <1>6

\* When links die none is left, and no route.
LEMMA DeadFacts ==
  ASSUME Typed, OneUp, Routes, LinkDies \/ HostRestarts
  PROVE  /\ Len(links') = Len(links) /\ \A l \in 1 .. Len(links) : ~links'[l].up /\ links'[l].wire = <<>>
         /\ \A g \in feeds' : g.state = "ended"
         /\ host' = host \/ host'.boot = host.boot + 1
         /\ pane' = pane /\ bind' = bind /\ live' = live
<1>1. /\ links \in Seq(Link) /\ DOMAIN links = 1 .. Len(links) /\ Len(links) \in Nat /\ feeds \in SUBSET Feed
  BY DEF Typed, NetTyped
<1>2. PICK gone : Dies(gone) /\ (gone = {live} \/ gone = DOMAIN links)
  BY DEF LinkDies, HostRestarts
<1>3. (host' = host \/ host'.boot = host.boot + 1) /\ pane' = pane /\ bind' = bind /\ live' = live
  BY DEF LinkDies, HostRestarts, mind
<1>4. DOMAIN links' = 1 .. Len(links) /\ links' \in Seq(Link)
  BY <1>1, <1>2, DiesTyped DEF Dies
<1>5. Len(links') = Len(links)
  BY <1>1, <1>4
<1>6. ASSUME NEW l \in 1 .. Len(links) PROVE ~links'[l].up /\ links'[l].wire = <<>>
  <2>1. links'[l] = IF l \in gone THEN [links[l] EXCEPT !.up = FALSE, !.wire = <<>>] ELSE links[l]
    BY <1>1, <1>2 DEF Dies
  <2>2. links[l] \in Link
    BY <1>1
  <2>3. CASE l \in gone
    BY <2>1, <2>2, <2>3 DEF Link
  <2>4. CASE l \notin gone
    <3>1. l # live
      BY <1>1, <1>2, <2>4
    <3>2. QED
      BY <2>1, <2>4, <3>1 DEF OneUp
  <2>5. QED
    BY <2>3, <2>4
<1>7. ASSUME NEW g \in feeds' PROVE g.state = "ended"
  <2>1. PICK f \in feeds : g = IF f.l \in gone THEN [f EXCEPT !.state = "ended"] ELSE f
    BY <1>2 DEF Dies
  <2>2. CASE f.l \in gone
    <3>1. f \in Feed
      BY <1>1
    <3>2. QED
      BY <2>1, <2>2, <3>1 DEF Feed
  <2>3. CASE f.l \notin gone
    <3>1. f.l \in 1 .. Len(links) /\ f.l # live
      BY <1>1, <1>2, <2>3 DEF Routes, Coded
    <3>2. QED
      BY <2>1, <2>3, <3>1 DEF Routes, Coded, OneUp
  <2>4. QED
    BY <2>2, <2>3
<1>8. QED
  BY <1>3, <1>5, <1>6, <1>7

\* A detach takes the session's output away from its link.
LEMMA DetachFacts ==
  ASSUME Typed, NEW p \in Panes, HostDetaches(p)
  PROVE  /\ host'.boot = host.boot /\ Len(host'.ses) = Len(host.ses)
         /\ \A k \in 1 .. Len(host.ses) :
              /\ host'.ses[k].out = host.ses[k].out /\ host'.ses[k].st = host.ses[k].st
              /\ k # bind[p].ses => host'.ses[k].to = host.ses[k].to
         /\ bind[p].at = "detaching" /\ Up(bind[p].l)
         /\ links' = links /\ feeds' = feeds /\ pane' = pane /\ live' = live
<1> DEFINE id == bind[p].ses
<1>1. /\ bind[p].at = "detaching" /\ Up(bind[p].l)
      /\ links' = links /\ feeds' = feeds /\ pane' = pane /\ live' = live
      /\ host' = host \/ (Exists(id) /\ host' = [host EXCEPT !.ses[id].to = None])
  BY DEF HostDetaches, Calls, net
<1>2. Exists(id) => id \in 1 .. Len(host.ses)
  BY SesSet DEF Exists
<1>3. QED
  BY <1>1, <1>2, SesSet

\* What was output stays, what is over stays over.
LEMMA SesStep ==
  ASSUME Typed, Named, NetKind
  PROVE  SesGoes /\ (host'.boot = host.boot => Len(host'.ses) >= Len(host.ses))
<1>0. host.ses \in Seq(SessionState) /\ Len(host.ses) \in Nat /\ host.boot \in Nat
  BY DEF Typed, HostTyped, HostState
<1>1. \A id \in 1 .. Len(host.ses) : host.ses[id] \in SessionState
  BY <1>0
<1>2. \A id \in 1 .. Len(host.ses) : host.ses[id].out \in Nat
  BY <1>1 DEF SessionState
<1>3. CASE Calm
  BY <1>2, <1>3 DEF Calm, SesKept, SesGoes
<1>4. ASSUME NEW k \in 1 .. Len(host.ses), HostOutputs(k) PROVE SesGoes /\ Len(host'.ses) >= Len(host.ses)
  <2>1. /\ host'.ses[k].out = host.ses[k].out + 1 /\ host.ses[k].st = "runs" /\ Len(host'.ses) = Len(host.ses)
        /\ \A j \in 1 .. Len(host.ses) : j # k => host'.ses[j] = host.ses[j]
    BY <1>4, OutputFacts
  <2>2. \A j \in 1 .. Len(host.ses) : /\ host'.ses[j].out >= host.ses[j].out
                                      /\ host'.ses[j].st = "runs" => host.ses[j].st = "runs"
    BY <1>2, <2>1
  <2>3. QED
    BY <1>0, <2>1, <2>2 DEF SesGoes
<1>5. ASSUME NEW p \in Panes,
    HostAttaches(p) \/ HostDetaches(p) PROVE SesGoes /\ Len(host'.ses) >= Len(host.ses)
  <2>1. /\ Len(host'.ses) = Len(host.ses)
        /\ \A k \in 1 .. Len(host.ses) : host'.ses[k].out = host.ses[k].out /\ host'.ses[k].st = host.ses[k].st
    BY <1>5, AttachFacts, DetachFacts
  <2>2. QED
    BY <1>0, <1>2, <2>1 DEF SesGoes
<1>6. CASE LinkDies \/ HostRestarts
  <2>1. host' = host \/ host'.boot = host.boot + 1
    BY <1>6 DEF LinkDies, HostRestarts
  <2>2. QED
    BY <1>0, <1>2, <2>1 DEF SesGoes
<1>7. CASE \E l \in 1 .. Len(links) : Reads(l)
  <2>1. host' = host
    BY <1>7 DEF Reads
  <2>2. QED
    BY <1>0, <1>2, <2>1 DEF SesGoes
<1>8. QED
  BY <1>3, <1>4, <1>5, <1>6, <1>7 DEF NetKind

-----------------------------------------------------------------------------
\* The links.

\* Links come up one after the other, and what is not up has nothing on its way.
LEMMA OneUpStep ==
  ASSUME Typed, Named, Typed', OneUp, Routes, NetKind, live' = live \/ Connects \/ LiveCleared
  PROVE  OneUp'
<1>0. /\ links \in Seq(Link) /\ Len(links) \in Nat /\ None = 0 /\ links' \in Seq(Link) /\ Len(links') \in Nat
      /\ DOMAIN links = 1 .. Len(links)
  BY DEF Typed, NetTyped, None
<1>w. ASSUME NEW kinds, WiresGrow(kinds), NEW l \in 1 .. Len(links)
      PROVE  links'[l].up = links[l].up /\ (~links[l].up => links'[l].wire = <<>>)
  <2>1. /\ links'[l].up = links[l].up /\ Grows(links[l].wire, links'[l].wire)
        /\ \A i \in Len(links[l].wire) + 1 .. Len(links'[l].wire) : links[l].up
        /\ Len(links') >= Len(links)
    BY <1>w DEF WiresGrow
  <2>2. ASSUME ~links[l].up PROVE links'[l].wire = <<>>
    <3>1. links[l].wire = <<>> /\ Len(links[l].wire) = 0
      BY <2>2 DEF OneUp
    <3>2. l \in 1 .. Len(links')
      BY <1>0, <2>1
    <3>3. links'[l] \in Link
      BY <1>0, <3>2
    <3>4. links'[l].wire \in Seq(Frame) /\ Len(links'[l].wire) \in Nat
      BY <3>3 DEF Link
    <3>5. Len(links'[l].wire) = 0
      <4>1. 1 \notin 0 + 1 .. Len(links'[l].wire)
        BY <2>1, <2>2, <3>1
      <4>2. QED
        BY <3>4, <4>1
    <3>6. QED
      BY <3>4, <3>5, EmptySeq
  <2>3. QED
    BY <2>1, <2>2
<1>s. ASSUME live' = live, Len(links') = Len(links),
             \A l \in 1 .. Len(links) : IF links'[l].up THEN links[l].up ELSE links'[l].wire = <<>>
      PROVE  OneUp'
  BY <1>s DEF OneUp
<1>1. CASE Connects
  <2> DEFINE new == [boot |-> host.boot, up |-> TRUE, wire |-> <<>>]
  <2>1. live = None /\ links' = Append(links, new) /\ live' = Len(links) + 1
    BY <1>1 DEF Connects
  <2>2. new.up
    OBVIOUS
  <2> HIDE DEF new
  <2>3. /\ Len(links') = Len(links) + 1 /\ links'[Len(links) + 1] = new
        /\ \A l \in 1 .. Len(links) : links'[l] = links[l]
    BY <1>0, <2>1
  <2>4. \A l \in 1 .. Len(links) : ~links[l].up /\ links[l].wire = <<>>
    BY <1>0, <2>1 DEF OneUp
  <2>5. \A l \in 1 .. Len(links') : l = Len(links) + 1 \/ l \in 1 .. Len(links)
    BY <1>0, <2>3
  <2>6. \A l \in 1 .. Len(links') : IF links'[l].up THEN l = live' ELSE links'[l].wire = <<>>
    BY <2>1, <2>2, <2>3, <2>4, <2>5
  <2>7. QED
    BY <2>1, <2>3, <2>6 DEF OneUp
<1>2. CASE LiveCleared
  <2>1. links' = links /\ live' = None /\ live # None /\ ~links[live].up
    BY <1>2 DEF LiveCleared, Up
  <2>2. \A l \in 1 .. Len(links) : ~links[l].up
    BY <2>1 DEF OneUp
  <2>3. QED
    BY <2>1, <2>2 DEF OneUp
<1>3. CASE live' = live /\ ~Connects
  <2>1. CASE Calm
    BY <1>3, <1>s, <1>w, <2>1 DEF Calm
  <2>2. ASSUME NEW id \in 1 .. Len(host.ses), HostOutputs(id) PROVE OneUp'
    <3>1. WiresGrow({"data"}) /\ Len(links') = Len(links)
      BY <2>2, OutputFacts
    <3>2. QED
      BY <1>3, <1>s, <1>w, <3>1
  <2>3. ASSUME NEW p \in Panes, HostAttaches(p) PROVE OneUp'
    <3>1. WiresGrow({"attached", "gone", "exit"}) /\ Len(links') = Len(links)
      BY <2>3, AttachFacts
    <3>2. QED
      BY <1>3, <1>s, <1>w, <3>1
  <2>4. ASSUME NEW p \in Panes, HostDetaches(p) PROVE OneUp'
    <3>1. links' = links
      BY <2>4, DetachFacts
    <3>2. QED
      BY <1>3, <3>1 DEF OneUp
  <2>5. CASE LinkDies \/ HostRestarts
    <3>1. Len(links') = Len(links) /\ \A l \in 1 .. Len(links) : ~links'[l].up /\ links'[l].wire = <<>>
      BY <2>5, DeadFacts
    <3>2. QED
      BY <1>3, <1>s, <3>1
  <2>6. ASSUME NEW k \in 1 .. Len(links), Reads(k) PROVE OneUp'
    <3>1. /\ links[k].up /\ links'[k].up /\ Len(links') = Len(links)
          /\ \A l \in 1 .. Len(links) : l # k => links'[l] = links[l]
      BY <2>6, ReadsFacts
    <3>2. \A l \in 1 .. Len(links) : IF links'[l].up THEN links[l].up ELSE links'[l].wire = <<>>
      BY <3>1 DEF OneUp
    <3>3. QED
      BY <1>3, <1>s, <3>1, <3>2
  <2>7. QED
    BY <2>1, <2>2, <2>3, <2>4, <2>5, <2>6 DEF NetKind
<1>4. QED
  BY <1>1, <1>2, <1>3

\* Boots follow each other, and a pane takes sessions over links.
LEMMA FollowingStep ==
  ASSUME Typed, Typed', Named, Unmade, Following, Reached, Reached', LinksGo, PanesGo
  PROVE  Following'
<1>0. /\ Len(links) \in Nat /\ Len(links') \in Nat /\ Len(links') >= Len(links)
      /\ host.boot \in Nat /\ host'.boot \in Nat
  BY DEF Typed, NetTyped, HostTyped, HostState, LinksGo
<1>1. /\ \A l \in 1 .. Len(links) : links'[l].boot = links[l].boot
      /\ \A l \in Len(links) + 1 .. Len(links') : links'[l].boot = host'.boot
      /\ \A l \in 1 .. Len(links') : links'[l].boot \in 1 .. host'.boot
      /\ \A l \in 1 .. Len(links) : links[l].boot \in 1 .. host.boot
  BY DEF LinksGo, Reached, BootOf
<1>2. ASSUME NEW l \in 1 .. Len(links'), NEW m \in 1 .. l
      PROVE  links'[m].boot <= links'[l].boot
  <2>1. CASE l \in 1 .. Len(links)
    <3>1. m \in 1 .. Len(links) /\ links[m].boot <= links[l].boot
      BY <1>0, <2>1 DEF Following, BootOf
    <3>2. QED
      BY <1>1, <2>1, <3>1
  <2>2. CASE l \notin 1 .. Len(links)
    <3>1. l \in Len(links) + 1 .. Len(links') /\ m \in 1 .. Len(links')
      BY <1>0, <2>2
    <3>2. links'[l].boot = host'.boot /\ links'[m].boot \in 1 .. host'.boot
      BY <1>1, <3>1
    <3>3. QED
      BY <1>0, <3>2
  <2>3. QED
    BY <2>1, <2>2
<1>3. ASSUME NEW k \in 1 .. Len(links)
      PROVE  Len(links') # 0 /\ links[k].boot <= links'[Len(links')].boot
  <2>1. Len(links') \in 1 .. Len(links') /\ k \in 1 .. Len(links')
    BY <1>0
  <2>2. links'[k].boot <= links'[Len(links')].boot
    BY <1>2, <2>1
  <2>3. QED
    BY <1>1, <2>1, <2>2
<1>4. ASSUME NEW p \in Panes, pane'[p].remote # None
      PROVE  Len(links') # 0 /\ pane'[p].boot <= links'[Len(links')].boot
  <2>0. PaneGoes(p)
    BY DEF PanesGo
  <2>1. CASE Takes(p)
    <3>1. bind[p].at \in {"found", "opened"} /\ pane'[p].boot = links[bind[p].l].boot
      BY <2>1, TakesFields DEF BootOf
    <3>2. bind[p].l \in 1 .. Len(links)
      BY <3>1 DEF Named
    <3>3. QED
      BY <1>3, <3>1, <3>2
  <2>2. CASE Made(p)
    <3>1. watch.task.at = "listed" /\ pane'[p].boot = links[watch.task.l].boot
      BY <1>4, <2>2, MadeFields DEF BootOf
    <3>2. watch.task.l \in 1 .. Len(links)
      BY <3>1 DEF Named
    <3>3. QED
      BY <1>3, <3>1, <3>2
  <2>3. CASE Same(pane[p], pane'[p])
    <3>1. pane[p].remote # None /\ pane'[p].boot = pane[p].boot
      BY <1>4, <2>3 DEF Same
    <3>2. Len(links) # 0 /\ pane[p].boot <= links[Len(links)].boot
      BY <3>1 DEF Following, BootOf
    <3>3. Len(links) \in 1 .. Len(links)
      BY <1>0, <3>2
    <3>4. links[Len(links)].boot <= links'[Len(links')].boot /\ Len(links') # 0
      BY <1>3, <3>3
    <3>5. /\ pane[p].boot \in Nat /\ links[Len(links)].boot \in Nat
          /\ Len(links') \in 1 .. Len(links')
      <4>1. pane[p] \in PaneState /\ Len(links') \in 1 .. Len(links')
        BY <1>0, <3>4 DEF Typed, PanesTyped
      <4>2. links[Len(links)].boot \in 1 .. host.boot
        BY <1>1, <3>3
      <4>3. QED
        BY <4>1, <4>2, PaneFields
    <3>6. links'[Len(links')].boot \in Nat
      BY <1>0, <1>1, <3>5
    <3>7. QED
      BY <3>1, <3>2, <3>4, <3>5, <3>6
  <2>4. QED
    BY <2>0, <2>1, <2>2, <2>3, KeepsOr
<1>5. QED
  BY <1>2, <1>4 DEF Following, BootOf

-----------------------------------------------------------------------------
\* What the steps of a pane do to its stream.

\* A session is taken with the pane as it is.
LEMMA TakesKeeps ==
  ASSUME Typed, NEW p \in Panes, Takes(p)
  PROVE  LET a == bind[p]
             b == bind'[p]
             s == pane[p]
             t == pane'[p]
         IN
         /\ b.gen = a.gen /\ b.from = a.from /\ b.upto = a.upto
         /\ t.view = s.view /\ t.anchor = s.anchor /\ t.lost = s.lost
<1>0. bind[p] \in Turn /\ pane[p] \in PaneState
  BY DEF Typed, PanesTyped
<1>1. LET a == bind[p]
          b == bind'[p]
      IN b.gen = a.gen /\ b.from = a.from /\ b.upto = a.upto
  BY <1>0 DEF Takes, Turn
<1>2. LET s == pane[p]
          t == pane'[p]
      IN t.view = s.view /\ t.anchor = s.anchor /\ t.lost = s.lost
  <2> DEFINE s == pane[p].seed /\ bind[p].at = "opened"
             id == bind[p].ses
             boot == BootOf(bind[p].l)
             mine == bind[p].at = "opened"
  <2>1. pane'[p] = [pane[p] EXCEPT !.remote = id, !.boot = boot, !.mine = mine, !.seed = s]
    BY DEF Takes
  <2> HIDE DEF s, id, boot, mine
  <2>2. QED
    BY <2>1, <1>0 DEF PaneState
<1>3. QED
  BY <1>1, <1>2

\* A pane that was not made has seen nothing, and begins with that.
LEMMA MadeKeeps ==
  ASSUME Unmade, NEW p \in Panes, Made(p)
  PROVE  /\ pane[p].gen = 0 /\ bind[p] = Resting /\ pane'[p].anchor = 0 /\ pane'[p].gen = 0
<1>1. pane[p].gen = 0 /\ bind[p] = Resting
  BY DEF Made, Unmade, Unborn
<1>2. \A boot, x : LET t == Adopted(boot, x) IN t.anchor = 0 /\ t.gen = 0
  BY DEF Adopted, Unborn
<1>3. LET t == [Unborn EXCEPT !.born = TRUE, !.in = TRUE, !.view = TRUE] IN t.anchor = 0 /\ t.gen = 0
  BY DEF Unborn
<1>4. QED
  BY <1>1, <1>2, <1>3 DEF Made

\* A pane is attached: its view has what the replay brought.
LEMMA AttachedFacts ==
  ASSUME Typed, NEW p \in Panes, Attached(p)
  PROVE  LET b == bind[p]
             s == pane[p]
             t == pane'[p]
         IN
         /\ b.at = "attached" /\ b.gen = s.gen /\ bind'[p] = Resting
         /\ t.gen = s.gen + 1 /\ t.on = b.l /\ t.anchor = b.upto
         /\ t.born = s.born /\ t.in = s.in /\ t.view = s.view /\ t.remote = s.remote /\ t.boot = s.boot
         /\ t.lost = s.lost
         /\ host' = host /\ links' = links /\ live' = live /\ queue' = queue
         /\ feeds' = {IF f.pane = p /\ f.gen = 0 THEN [f EXCEPT !.gen = t.gen] ELSE f : f \in feeds}
         /\ s.view => IF b.upto = b.from
                      THEN seen'[p].next = seen[p].next /\ seen'[p].whole = seen[p].whole
                      ELSE /\ seen'[p].next = b.upto + 1
                           /\ seen'[p].whole <=> /\ seen[p].whole
                                                 /\ \/ b.from + 1 = seen[p].next
                                                    \/ seen[p].replayed /\ b.from + 1 < seen[p].next
         /\ ~s.view => seen' = seen
         /\ \A q \in Panes : q # p => pane'[q] = pane[q] /\ bind'[q] = bind[q] /\ seen'[q] = seen[q]
<1>0. /\ bind[p] \in Turn /\ pane[p] \in PaneState /\ seen[p] \in View /\ seen \in [Panes -> View]
      /\ pane \in [Panes -> PaneState] /\ bind \in [Panes -> Turn]
  BY DEF Typed, PanesTyped, HistoryTyped
<1> DEFINE gen == OwnGeneration(pane[p])
<1>1. PICK fresh \in BOOLEAN :
        SetPane(p, [pane[p] EXCEPT !.gen = gen, !.on = bind[p].l, !.anchor = bind[p].upto,
                                   !.seed = @ /\ ~pane[p].mine,
                                   !.input = IF pane[p].seed /\ pane[p].mine /\ fresh
                                             THEN Append(@, gen) ELSE @])
  BY DEF Attached
<1>2. \E s, i : pane'[p] = [pane[p] EXCEPT !.gen = gen, !.on = bind[p].l, !.anchor = bind[p].upto, !.seed = s,
                                           !.input = i]
  <2> HIDE DEF gen
  <2>1. QED
    BY <1>0, <1>1 DEF SetPane
<1>3. LET s == pane[p]
          t == pane'[p]
      IN
      /\ t.gen = gen /\ t.on = bind[p].l /\ t.anchor = bind[p].upto
      /\ t.born = s.born /\ t.in = s.in /\ t.view = s.view /\ t.remote = s.remote /\ t.boot = s.boot
      /\ t.lost = s.lost
  <2> HIDE DEF gen
  <2>1. QED
    BY <1>0, <1>2 DEF PaneState
<1>4. /\ bind[p].at = "attached" /\ bind[p].gen = pane[p].gen /\ bind'[p] = Resting
      /\ host' = host /\ links' = links /\ live' = live /\ queue' = queue
      /\ feeds' = {IF f.pane = p /\ f.gen = 0 THEN [f EXCEPT !.gen = gen] ELSE f : f \in feeds}
      /\ ~pane[p].view => seen' = seen
  BY <1>0 DEF Attached, Superseded, Rests, net, tasks
<1>5. gen = pane[p].gen + 1
  BY DEF OwnGeneration
<1>6. ASSUME pane[p].view
      PROVE  /\ IF bind[p].upto = bind[p].from
                THEN seen'[p].next = seen[p].next /\ seen'[p].whole = seen[p].whole
                ELSE /\ seen'[p].next = bind[p].upto + 1
                     /\ seen'[p].whole <=> /\ seen[p].whole
                                           /\ \/ bind[p].from + 1 = seen[p].next
                                              \/ seen[p].replayed /\ bind[p].from + 1 < seen[p].next
  <2> DEFINE v == Handed(p, bind[p].from, bind[p].upto)
             n == bind[p].upto + 1
             w == seen[p].whole /\ (bind[p].from + 1 = seen[p].next \/ (seen[p].replayed /\ bind[p].from + 1 < seen[p].next))
  <2>1. seen' = [seen EXCEPT ![p] = [v EXCEPT !.replayed = FALSE]]
    BY <1>6 DEF Attached
  <2>2. v \in View
    BY <1>0, HandedTyped, TurnFields
  <2>3. seen'[p].next = v.next /\ seen'[p].whole = v.whole
    <3> HIDE DEF v
    <3>1. QED
      BY <1>0, <2>1, <2>2 DEF View
  <2>4. CASE bind[p].upto = bind[p].from
    BY <2>3, <2>4 DEF Handed
  <2>5. CASE bind[p].upto # bind[p].from
    <3>1. v = [seen[p] EXCEPT !.next = n, !.whole = w]
      BY <2>5 DEF Handed
    <3> HIDE DEF n, w, v
    <3>2. v.next = n /\ v.whole = w
      BY <1>0, <3>1 DEF View
    <3>3. QED
      BY <2>3, <2>5, <3>2 DEF n, w
  <2>6. QED
    BY <2>4, <2>5
<1>7. \A q \in Panes : q # p => pane'[q] = pane[q] /\ bind'[q] = bind[q] /\ seen'[q] = seen[q]
  <2> HIDE DEF gen
  <2>1. \A q \in Panes : q # p => pane'[q] = pane[q]
    BY <1>0, <1>1 DEF SetPane
  <2>2. \A q \in Panes : q # p => bind'[q] = bind[q]
    BY <1>0 DEF Attached, Rests
  <2>3. \A q \in Panes : q # p => seen'[q] = seen[q]
    BY <1>0 DEF Attached
  <2>4. QED
    BY <2>1, <2>2, <2>3
<1> HIDE DEF gen
<1>8. QED
  BY <1>3, <1>4, <1>5, <1>6, <1>7

\* A pump hands its view the next chunk it holds.
LEMMA ForwardsFacts ==
  ASSUME Typed, NEW f \in feeds, Forwards(f)
  PROVE  LET p == f.pane
             s == pane[p]
             t == pane'[p]
             n == f.q[1]
         IN
         /\ p \in Panes /\ f.gen # 0 /\ f.gen = s.gen /\ f.q # <<>> /\ n # None /\ n \in Nat
         /\ t.anchor = s.anchor + 1
         /\ t.born = s.born /\ t.in = s.in /\ t.view = s.view /\ t.remote = s.remote /\ t.boot = s.boot
         /\ t.lost = s.lost /\ t.gen = s.gen /\ t.on = s.on
         /\ host' = host /\ links' = links /\ live' = live /\ bind' = bind /\ queue' = queue
         /\ feeds' = (feeds \ {f}) \cup {[f EXCEPT !.q = Tail(f.q)]}
         /\ s.view => /\ seen'[p].next = n + 1
                      /\ seen[p].whole /\ n = seen[p].next => seen'[p].whole
                      /\ bind[p].at \in {"attaching", "answering", "attached"} => seen'[p].replayed
         /\ \A q \in Panes : q # p => pane'[q] = pane[q] /\ seen'[q] = seen[q]
<1> DEFINE p == f.pane
           n == Head(f.q)
<1>0. f \in Feed /\ f.q \in Seq(Nat) /\ p \in Panes
  BY DEF Typed, NetTyped, Feed
<1>1. pane[p] \in PaneState /\ seen \in [Panes -> View] /\ seen[p] \in View /\ pane \in [Panes -> PaneState]
  BY <1>0 DEF Typed, PanesTyped, HistoryTyped
<1>2. /\ f.gen # 0 /\ f.q # <<>> /\ f.gen = pane[p].gen /\ n # None
      /\ feeds' = (feeds \ {f}) \cup {[f EXCEPT !.q = Tail(f.q)]}
      /\ pane' = [pane EXCEPT ![p] = [pane[p] EXCEPT !.anchor = @ + 1]]
      /\ host' = host /\ links' = links /\ live' = live /\ bind' = bind /\ queue' = queue
      /\ ~pane[p].view => seen' = seen
      /\ pane[p].view => seen' = [seen EXCEPT ![p] = [Handed(p, n - 1, n) EXCEPT
                     !.replayed = @ \/ bind[p].at \in {"attaching", "answering", "attached"}]]
  BY DEF Forwards, Drains, Current, SetPane, net, tasks
<1>3. n = f.q[1] /\ n \in Nat
  BY <1>0, <1>2, HeadTailProperties
<1>4. pane'[p] = [pane[p] EXCEPT !.anchor = pane[p].anchor + 1] /\ \A q \in Panes : q # p => pane'[q] = pane[q]
  BY <1>0, <1>1, <1>2
<1>5. LET s == pane[p]
          t == pane'[p]
      IN
      /\ t.anchor = s.anchor + 1
      /\ t.born = s.born /\ t.in = s.in /\ t.view = s.view /\ t.remote = s.remote /\ t.boot = s.boot
      /\ t.lost = s.lost /\ t.gen = s.gen /\ t.on = s.on
  <2> DEFINE a == pane[p].anchor + 1
  <2>1. pane'[p] = [pane[p] EXCEPT !.anchor = a]
    BY <1>4
  <2> HIDE DEF a
  <2>2. LET s == pane[p]
            t == pane'[p]
        IN
        /\ t.anchor = a
        /\ t.born = s.born /\ t.in = s.in /\ t.view = s.view /\ t.remote = s.remote /\ t.boot = s.boot
        /\ t.lost = s.lost /\ t.gen = s.gen /\ t.on = s.on
    BY <1>1, <2>1 DEF PaneState
  <2>3. QED
    BY <2>2 DEF a
<1>6. ASSUME pane[p].view
      PROVE  /\ seen'[p].next = n + 1
             /\ seen[p].whole /\ n = seen[p].next => seen'[p].whole
             /\ bind[p].at \in {"attaching", "answering", "attached"} => seen'[p].replayed
  <2> DEFINE v == Handed(p, n - 1, n)
             r == v.replayed \/ bind[p].at \in {"attaching", "answering", "attached"}
             w == seen[p].whole /\ (n - 1 + 1 = seen[p].next \/ (seen[p].replayed /\ n - 1 + 1 < seen[p].next))
  <2>1. seen' = [seen EXCEPT ![p] = [v EXCEPT !.replayed = r]]
    BY <1>2, <1>6
  <2>2. n - 1 \in Int /\ n \in Int /\ n # n - 1 /\ n - 1 + 1 = n
    BY <1>3
  <2>3. v \in View
    BY <1>0, <1>1, <2>2, HandedTyped
  <2>4. v = [seen[p] EXCEPT !.next = n + 1, !.whole = w]
    BY <2>2 DEF Handed
  <2>5. v.next = n + 1 /\ v.whole = w
    <3> DEFINE m == n + 1
    <3>1. v = [seen[p] EXCEPT !.next = m, !.whole = w]
      BY <2>4
    <3> HIDE DEF m, w, v
    <3>2. v.next = m /\ v.whole = w
      BY <1>1, <3>1 DEF View
    <3>3. QED
      BY <3>2 DEF m
  <2>6. seen'[p].next = v.next /\ seen'[p].whole = v.whole /\ seen'[p].replayed = r
    <3> HIDE DEF v, r
    <3>1. QED
      BY <1>0, <1>1, <2>1, <2>3 DEF View
  <2>7. seen[p].whole /\ n = seen[p].next => w
    BY <2>2
  <2> HIDE DEF v, w
  <2>8. QED
    BY <2>5, <2>6, <2>7
<1>7. \A q \in Panes : q # p => seen'[q] = seen[q]
  BY <1>0, <1>1, <1>2
<1> HIDE DEF n
<1>8. QED
  BY <1>0, <1>2, <1>3, <1>4, <1>5, <1>6, <1>7

\* A generation only grows, and while it is the same the pane is about the same.
LEMMA GenGoes ==
  ASSUME Typed, Unmade, NEW q \in Panes, Flows(q)
  PROVE  /\ pane[q].gen \in Nat /\ pane'[q].gen >= pane[q].gen
         /\ pane'[q].in => pane[q].in \/ Starts(q)
         /\ pane'[q].gen = pane[q].gen /\ pane[q].born =>
              /\ pane'[q].born /\ pane'[q].view = pane[q].view /\ pane'[q].lost = pane[q].lost
              /\ pane'[q].in => pane[q].in
              /\ Takes(q) \/ (pane'[q].remote = pane[q].remote /\ pane'[q].boot = pane[q].boot)
              /\ Takes(q) => bind[q].at \in Seeking
              /\ \/ pane'[q].anchor = pane[q].anchor
                 \/ \E f \in feeds : f.pane = q /\ Forwards(f)
              /\ \/ Stays(q) \/ BeginsBind(q) \/ Takes(q)
                 \/ pane'[q] = pane[q] \/ \E f \in feeds : f.pane = q /\ Forwards(f)
<1>0. pane[q].gen \in Nat
  BY PaneFields DEF Typed, PanesTyped
<1>t. Takes(q) => bind[q].at \in Seeking
  BY DEF Takes, Seeking
<1>g. pane[q].gen >= pane[q].gen
  BY <1>0
<1>1. CASE Stays(q)
  BY <1>0, <1>t, <1>g, <1>1 DEF Stays, Kept
<1>2. CASE Moves(q)
  <2>1. pane'[q] = pane[q]
    BY <1>2 DEF Moves
  <2>2. QED
    BY <1>0, <1>t, <1>g, <2>1
<1>3. CASE BeginsBind(q)
  BY <1>0, <1>t, <1>g, <1>3 DEF BeginsBind, Kept
<1>4. CASE BeginsDetach(q)
  <2>1. pane'[q] = pane[q]
    BY <1>4 DEF BeginsDetach
  <2>2. QED
    BY <1>0, <1>t, <1>g, <2>1
<1>5. CASE Retargets(q)
  <2>1. pane'[q].gen = pane[q].gen + 1 /\ (pane'[q].in => pane[q].in)
    BY <1>5 DEF Retargets, Turned
  <2>2. pane'[q].gen >= pane[q].gen /\ pane'[q].gen # pane[q].gen
    BY <1>0, <2>1
  <2>3. QED
    BY <1>0, <2>1, <2>2
<1>6. CASE Takes(q)
  <2>1. bind[q].at \in Seeking
    BY <1>6, TakesFields DEF Seeking
  <2>2. /\ pane'[q].gen = pane[q].gen /\ pane'[q].in = pane[q].in /\ pane'[q].born = pane[q].born
    BY <1>6, TakesFields
  <2>3. pane'[q].view = pane[q].view /\ pane'[q].lost = pane[q].lost /\ pane'[q].anchor = pane[q].anchor
    BY <1>6, TakesKeeps
  <2>4. QED
    BY <1>0, <1>6, <2>1, <2>2, <2>3
<1>7. CASE Attached(q)
  <2>1. pane'[q].gen = pane[q].gen + 1 /\ (pane'[q].in => pane[q].in)
    BY <1>7, AttachedFacts
  <2>2. pane'[q].gen >= pane[q].gen /\ pane'[q].gen # pane[q].gen
    BY <1>0, <2>1
  <2>3. QED
    BY <1>0, <2>1, <2>2
<1>8. CASE Starts(q)
  <2>1. ~pane[q].born /\ pane[q].gen = 0 /\ pane'[q].gen = 0
    BY <1>8, MadeKeeps DEF Starts, Made
  <2>2. QED
    BY <1>0, <1>8, <2>1
<1>9. ASSUME NEW f \in feeds, f.pane = q, Forwards(f)
      PROVE  /\ pane'[q].gen = pane[q].gen /\ pane'[q].born = pane[q].born /\ pane'[q].view = pane[q].view
             /\ pane'[q].lost = pane[q].lost /\ pane'[q].in = pane[q].in
             /\ pane'[q].remote = pane[q].remote /\ pane'[q].boot = pane[q].boot
  BY <1>9, ForwardsFacts
<1>10. CASE \E f \in feeds : f.pane = q /\ Forwards(f)
  <2>1. ~Takes(q)
    <3>1. bind' = bind
      BY <1>10, ForwardsFacts
    <3>2. QED
      BY <3>1, TakesFields
  <2>2. QED
    BY <1>0, <1>9, <1>10, <2>1
<1>11. QED
  BY <1>1, <1>2, <1>3, <1>4, <1>5, <1>6, <1>7, <1>8, <1>10 DEF Flows

\* An attach that stays under way has its link, its session and what it is for.
LEMMA AttachGoes ==
  ASSUME Typed, Unmade, NEW q \in Panes, Flows(q), bind[q].at \in Attaching, bind'[q].at \in Attaching
  PROVE  /\ bind'[q].l = bind[q].l /\ bind'[q].ses = bind[q].ses /\ bind'[q].gen = bind[q].gen
         /\ \/ bind'[q] = bind[q]
            \/ /\ bind[q].at = "attaching" /\ bind'[q].at = "answering" /\ HostAttaches(q) /\ pane'[q] = pane[q]
            \/ /\ bind[q].at = "answering" /\ bind'[q].upto = bind[q].upto /\ pane'[q] = pane[q]
               /\ bind'[q].at \in {"attached", "gone"}
               /\ \E l \in DOMAIN links :
                    Reads(l) /\ bind[q].l = l /\ Head(links[l].wire).kind = bind'[q].at /\ Head(links[l].wire).n = q
<1>0. "idle" \notin Attaching /\ "detaching" \notin Attaching /\ Resting.at = "idle"
  BY DEF Attaching, Resting
<1>1. CASE Stays(q) \/ Retargets(q)
  BY <1>0, <1>1 DEF Stays, Retargets
<1>2. CASE Moves(q)
  BY <1>2 DEF Moves, TurnKept, Attaching
<1>3. CASE BeginsBind(q) \/ BeginsDetach(q) \/ Attached(q)
  BY <1>0, <1>3, AttachedFacts DEF BeginsBind, BeginsDetach
<1>4. CASE Takes(q)
  BY <1>4, TakesFields DEF Attaching
<1>5. CASE Starts(q)
  BY <1>5 DEF Starts, Made
<1>6. CASE \E f \in feeds : f.pane = q /\ Forwards(f)
  BY <1>6, ForwardsFacts
<1>7. QED
  BY <1>1, <1>2, <1>3, <1>4, <1>5, <1>6 DEF Flows

\* What is watched was so, or begins.
LEMMA WatchedWas ==
  ASSUME Typed, Typed', Unmade, Adopts' = Adopts, \A p \in Panes : pane[p].born => pane'[p].born,
         NEW q \in Panes, Flows(q), Watched(q)'
  PROVE  Watched(q) \/ Starts(q)
<1>1. pane[q].in \/ Starts(q)
  BY GenGoes DEF Watched
<1>2. CASE Adopts
  BY <1>1, <1>2 DEF Watched, Apart
<1>3. CASE ~Adopts
  <2>1. Cardinality(Born') <= 1
    BY <1>3 DEF Watched, Apart
  <2>2. Born \subseteq Born' /\ Born' \subseteq Panes
    BY DEF Born
  <2>3. IsFiniteSet(Panes)
    BY BoundsAre, FS_Interval DEF Panes
  <2>4. IsFiniteSet(Born')
    BY <2>2, <2>3, FS_Subset
  <2>5. Cardinality(Born) <= Cardinality(Born') /\ Cardinality(Born') \in Nat /\ Cardinality(Born) \in Nat
    <3>1. IsFiniteSet(Born)
      BY <2>2, <2>4, FS_Subset
    <3>2. QED
      BY <2>2, <2>4, <3>1, FS_Subset, FS_CardinalityType
  <2>6. Cardinality(Born) <= 1
    BY <2>1, <2>5
  <2>7. QED
    BY <1>1, <2>6 DEF Watched, Apart
<1>4. QED
  BY <1>2, <1>3

\* Where panes may share sessions, one pane alone is watched.
LEMMA OneBorn ==
  ASSUME Typed, Unmade, Apart, ~Adopts, NEW p \in Panes, NEW q \in Panes, pane[p].born, pane[q].born
  PROVE  p = q
<1>1. Cardinality(Born) \in 0 .. MaxPanes /\ p <= Cardinality(Born) /\ q <= Cardinality(Born)
  BY Counted
<1>2. Cardinality(Born) <= 1
  BY DEF Apart
<1>3. p \in 1 .. MaxPanes /\ q \in 1 .. MaxPanes
  BY DEF Panes
<1>4. QED
  BY <1>1, <1>2, <1>3, BoundsAre

\* An attach that waits for its answer ends with its link alone.
LEMMA AnswersWait ==
  ASSUME Typed, Unmade, PanesNext, NEW q \in Panes, bind[q].at = "answering", bind'[q] = Resting
  PROVE  ~Up(bind[q].l)
<1>0. bind[q] # Resting /\ bind \in [Panes -> Turn]
  BY DEF Resting, Typed, PanesTyped
<1>s. ASSUME NEW p, \A r \in Panes : r # p => bind'[r] = bind[r], bind[p].at # "answering"
      PROVE  FALSE
  BY <1>0, <1>s
<1>1. ASSUME NEW t \in queue, BindStep(t) PROVE FALSE
  <2>1. bind' = bind \/ (bind[t.pane].at = "idle" /\ \A r \in Panes : r # t.pane => bind'[r] = bind[r])
    BY <1>0, <1>1 DEF BindStep, BindMoot, BindFindsItGone, BindGoes, DetachGoes, Binds, TakesTurn, Attaches,
        Finds
  <2>2. QED
    BY <1>0, <1>s, <2>1
<1>2. ASSUME NEW p \in Panes, TurnStep(p) PROVE FALSE
  <2>1. bind[p].at # "answering" /\ \A r \in Panes : r # p => bind'[r] = bind[r]
    BY <1>0, <1>2 DEF TurnStep, GetsOpening, Found, Opened, Refused, FoundToClose, Closed, Commits, Attaches,
       Finds, Rests, At
  <2>2. QED
    BY <1>s, <2>1
<1>3. ASSUME NEW p \in Panes, AnswerStep(p) PROVE ~Up(bind[q].l)
  <2>1. CASE CallFails(p)
    <3>1. ~Up(bind[p].l) /\ \A r \in Panes : r # p => bind'[r] = bind[r]
      BY <1>0, <2>1 DEF CallFails, Rests
    <3>2. QED
      BY <1>0, <3>1
  <2>2. CASE ~CallFails(p)
    <3>1. bind' = bind \/ (bind[p].at # "answering" /\ \A r \in Panes : r # p => bind'[r] = bind[r])
      BY <1>0, <1>3, <2>2 DEF AnswerStep, Gone, AttachSuperseded, Attached, TypesLine, Rests
    <3>2. QED
      BY <1>0, <1>s, <3>1
  <2>3. QED
    BY <2>1, <2>2
<1>4. ASSUME NEW p \in Panes, HostStep(p) PROVE FALSE
  <2>1. bind[p].at # "answering" /\ \A r \in Panes : r # p => bind'[r] = bind[r]
    BY <1>0, <1>4 DEF HostStep, HostLists, HostOpens, HostRefuses, HostAttaches, HostCloses, HostDetaches,
        Calls,
       Rests, At
  <2>2. QED
    BY <1>s, <2>1
<1>5. ASSUME NEW l \in DOMAIN links, Reads(l) PROVE FALSE
  <2> DEFINE frame == Head(links[l].wire)
  <2>1. bind' = bind \/ (frame.kind \in {"attached", "gone"} /\ At(frame.n, frame.kind))
    BY <1>5 DEF Reads, ReadsData, ReadsExit, ReadsAnswer
  <2> HIDE DEF frame
  <2>2. CASE At(frame.n, frame.kind) /\ frame.kind \in {"attached", "gone"} /\ frame.n = q
    <3>1. bind'[q] = [bind[q] EXCEPT !.at = frame.kind]
      BY <1>0, <2>2 DEF At
    <3>2. bind'[q].at = frame.kind
      BY <1>0, <3>1 DEF Turn
    <3>3. QED
      BY <2>2, <3>2 DEF Resting
  <2>3. QED
    BY <1>0, <2>1, <2>2 DEF At
<1>6. ASSUME \/ WatchStep \/ TakesOver \/ LinkStep \/ OpenStep
             \/ \E p \in Panes : AskStep(p)
             \/ \E f \in feeds : PumpStep(f)
             \/ \E id \in DOMAIN host.ses : SessionStep(id)
      PROVE  bind' = bind
  BY <1>6 DEF WatchStep, TakesNews, Joins, AdoptionLocks, AdoptionFails, ListsAgain, ClosesExited,
      HostListsAll,
     ListingRefused, TakesOver, LinkStep, Connects, LinkDies, LiveCleared, HostRestarts, StrayOpens, OpenStep,
     OpenAsked, Claims, Inserts, AskStep, Shows, Hides, Closes, Seeds, Expires, PumpStep, PumpSuperseded,
         Forwards,
     ForwardsExit, PumpEnds, SessionStep, HostOutputs, SessionEnds, HostReaps, mind
<1>7. QED
  BY <1>0, <1>1, <1>2, <1>3, <1>4, <1>5, <1>6, StepKinds

-----------------------------------------------------------------------------
\* Where a route comes from: it was one, and may have ended; its pump took a chunk; its attach is done; or it
\* is that of an attach that begins.
Stands(f, g) ==
  /\ g.pane = f.pane /\ g.gen = f.gen /\ g.l = f.l /\ g.ses = f.ses /\ g.q = f.q
  /\ g.state \in {f.state, "ended"}
Drained(f, g) == Forwards(f) /\ g = [f EXCEPT !.q = Tail(f.q)]
Enters(f, g) == Attached(f.pane) /\ f.gen = 0 /\ g = [f EXCEPT !.gen = pane'[f.pane].gen]
Arises(g) ==
  LET b == bind'[g.pane] IN
  /\ g.pane \in Panes /\ g.gen = 0 /\ g.state = "pending" /\ g.q = <<>>
  /\ bind[g.pane].at \notin Attaching /\ b.at = "attaching" /\ g.l = b.l /\ g.ses = b.ses
  /\ Up(g.l) /\ links' = links
RouteGoes(g) == Arises(g) \/ \E f \in feeds : Stands(f, g) \/ Drained(f, g) \/ Enters(f, g)
\* ... or a reader gave it the frame it took.
Fits(f, l, frame) == f.l = l /\ f.ses = frame.ses
ReadsTo(l, f, g) ==
  LET frame == Head(links[l].wire) IN
  /\ g.pane = f.pane /\ g.gen = f.gen /\ g.l = f.l /\ g.ses = f.ses
  /\ \/ /\ g = f
        /\ ~(Fits(f, l, frame) /\ frame.kind = "data" /\ f.state = "live")
        /\ ~(Fits(f, l, frame) /\ frame.kind = "attached" /\ f.pane = frame.n /\ f.state = "pending")
     \/ /\ Fits(f, l, frame) /\ frame.kind = "data" /\ f.state = "live"
        /\ g.state = "live" /\ g.q = Append(f.q, frame.n)
     \/ /\ Fits(f, l, frame) /\ frame.kind = "exit" /\ f.state = "live"
        /\ g.state = "ended" /\ g.q = Append(f.q, None)
     \/ /\ Fits(f, l, frame) /\ frame.kind \in {"attached", "gone"} /\ f.pane = frame.n /\ f.state = "pending"
        /\ g.q = f.q /\ g.state = IF frame.kind = "attached" THEN "live" ELSE "ended"

\* A route that is there, and one that ended, stands.
LEMMA RoutesStand ==
  ASSUME feeds \in SUBSET Feed, NEW f \in feeds
  PROVE  Stands(f, f) /\ Stands(f, [f EXCEPT !.state = "ended"])
<1>1. f \in Feed
  OBVIOUS
<1>2. QED
  BY <1>1 DEF Stands, Feed

\* What a reader does to the routes.
LEMMA FeedsRead ==
  ASSUME Typed, NEW l, Reads(l), NEW g \in feeds'
  PROVE  \E f \in feeds : ReadsTo(l, f, g)
<1>0. feeds \in SUBSET Feed
  BY DEF Typed, NetTyped
<1> DEFINE frame == Head(links[l].wire)
           id == frame.ses
           n == frame.n
<1>1. CASE ReadsData(l, frame)
  <2>1. frame.kind = "data"
        /\ \E f \in feeds : g = IF Route(f, l, id) /\ f.state = "live" THEN [f EXCEPT !.q = Append(f.q,
            n)] ELSE f
    BY <1>1 DEF ReadsData, Fed
  <2> HIDE DEF frame, id, n
  <2>2. PICK f \in feeds : g = IF Route(f, l, id) /\ f.state = "live" THEN [f EXCEPT !.q = Append(f.q,
      n)] ELSE f
    BY <2>1
  <2>3. f \in Feed
    BY <1>0
  <2>4. CASE Route(f, l, id) /\ f.state = "live"
    <3> DEFINE q == Append(f.q, n)
    <3>1. g = [f EXCEPT !.q = q]
      BY <2>2, <2>4
    <3> HIDE DEF q
    <3>2. g.pane = f.pane /\ g.gen = f.gen /\ g.l = f.l /\ g.ses = f.ses /\ g.state = f.state /\ g.q = q
      BY <2>3, <3>1 DEF Feed
    <3>3. QED
      BY <2>1, <2>4, <3>2 DEF q, ReadsTo, Fits, Route, frame, id, n
  <2>5. CASE ~(Route(f, l, id) /\ f.state = "live")
    <3>1. g = f
      BY <2>2, <2>5
    <3>2. ~(Fits(f, l, frame) /\ f.state = "live")
      BY <2>5 DEF Fits, Route, id
    <3>3. QED
      BY <2>1, <3>1, <3>2 DEF ReadsTo, frame
  <2>6. QED
    BY <2>4, <2>5
<1>2. CASE ReadsExit(l, frame)
  <2>1. frame.kind = "exit"
        /\ \E f \in feeds : g = IF Route(f, l, id) /\ f.state = "live"
                                THEN [f EXCEPT !.q = Append(f.q, None), !.state = "ended"] ELSE f
    BY <1>2 DEF ReadsExit
  <2> HIDE DEF frame, id, n
  <2>2. PICK f \in feeds : g = IF Route(f, l, id) /\ f.state = "live"
                               THEN [f EXCEPT !.q = Append(f.q, None), !.state = "ended"] ELSE f
    BY <2>1
  <2>3. f \in Feed
    BY <1>0
  <2>4. CASE Route(f, l, id) /\ f.state = "live"
    <3> DEFINE q == Append(f.q, None)
    <3>1. g = [f EXCEPT !.q = q, !.state = "ended"]
      BY <2>2, <2>4
    <3> HIDE DEF q
    <3>2. g.pane = f.pane /\ g.gen = f.gen /\ g.l = f.l /\ g.ses = f.ses /\ g.state = "ended" /\ g.q = q
      BY <2>3, <3>1 DEF Feed
    <3>3. QED
      BY <2>1, <2>4, <3>2 DEF q, ReadsTo, Fits, Route, frame, id
  <2>5. CASE ~(Route(f, l, id) /\ f.state = "live")
    <3>1. g = f
      BY <2>2, <2>5
    <3>2. QED
      BY <2>1, <3>1 DEF ReadsTo, frame
  <2>6. QED
    BY <2>4, <2>5
<1>3. CASE ReadsAnswer(l, frame)
  <2> DEFINE s == IF frame.kind = "attached" THEN "live" ELSE "ended"
             To(f) == Route(f, l, id) /\ f.pane = n /\ f.state = "pending"
  <2>1. frame.kind \in {"attached",
      "gone"} /\ \E f \in feeds : g = IF ~To(f) THEN f ELSE [f EXCEPT !.state = s]
    BY <1>3 DEF ReadsAnswer
  <2> HIDE DEF frame, id, n, s, To
  <2>2. PICK f \in feeds : g = IF ~To(f) THEN f ELSE [f EXCEPT !.state = s]
    BY <2>1
  <2>3. f \in Feed
    BY <1>0
  <2>4. CASE To(f)
    <3>1. g = [f EXCEPT !.state = s]
      BY <2>2, <2>4
    <3>2. g.pane = f.pane /\ g.gen = f.gen /\ g.l = f.l /\ g.ses = f.ses /\ g.state = s /\ g.q = f.q
      BY <2>3, <3>1 DEF Feed
    <3>3. Fits(f, l, frame) /\ f.pane = frame.n /\ f.state = "pending"
      BY <2>4 DEF To, Fits, Route, id, n
    <3>4. QED
      BY <2>1, <3>2, <3>3 DEF s, ReadsTo, frame
  <2>5. CASE ~To(f)
    <3>1. g = f
      BY <2>2, <2>5
    <3>2. ~(Fits(f, l, frame) /\ f.pane = frame.n /\ f.state = "pending")
      BY <2>5 DEF To, Fits, Route, id, n
    <3>3. QED
      BY <2>1, <3>1, <3>2 DEF ReadsTo, frame
  <2>6. QED
    BY <2>4, <2>5
<1>4. QED
  BY <1>1, <1>2, <1>3 DEF Reads

\* ... and to the turns: the answer of an attach is its turn's.
LEMMA TurnsRead ==
  ASSUME Typed, NEW l, Reads(l), NEW q \in Panes
  PROVE  LET frame == Head(links[l].wire) IN
         /\ \/ bind'[q] = bind[q]
            \/ /\ frame.kind \in {"attached",
                "gone"} /\ frame.n = q /\ bind[q].at = "answering" /\ bind[q].l = l
               /\ bind'[q].at = frame.kind /\ bind'[q].l = bind[q].l /\ bind'[q].ses = bind[q].ses
               /\ bind'[q].gen = bind[q].gen /\ bind'[q].upto = bind[q].upto
         /\ frame.kind \in {"attached", "gone"} /\ frame.n = q /\ bind[q].at = "answering" /\ bind[q].l = l
              => bind'[q].at = frame.kind
<1> DEFINE frame == Head(links[l].wire)
<1>0. bind[q] \in Turn /\ bind \in [Panes -> Turn]
  BY DEF Typed, PanesTyped
<1>1. \/ frame.kind \in {"data", "exit"} /\ bind' = bind
      \/ /\ frame.kind \in {"attached", "gone"}
         /\ IF bind[frame.n].at = "answering" /\ bind[frame.n].l = l THEN At(frame.n,
             frame.kind) ELSE UNCHANGED bind
  BY DEF Reads, ReadsData, ReadsExit, ReadsAnswer
<1> HIDE DEF frame
<1>2. At(frame.n, frame.kind) /\ frame.n = q =>
        /\ bind'[q].at = frame.kind /\ bind'[q].l = bind[q].l /\ bind'[q].ses = bind[q].ses
        /\ bind'[q].gen = bind[q].gen /\ bind'[q].upto = bind[q].upto
  BY <1>0 DEF At, Turn
<1>3. At(frame.n, frame.kind) /\ frame.n # q => bind'[q] = bind[q]
  BY <1>0 DEF At
<1>4. QED
  BY <1>1, <1>2, <1>3 DEF frame

\* An attach that begins ends older routes for its session, and has one of its own.
LEMMA AttachArises ==
  ASSUME Typed, NEW p \in Panes, NEW b, Attaches(p, b), bind[p].at \notin Attaching,
         \A x : [b EXCEPT !.at = x].at = x /\ [b EXCEPT !.at = x].l = b.l /\ [b EXCEPT !.at = x].ses = b.ses,
         links' = links, NEW g \in feeds'
  PROVE  RouteGoes(g)
<1>0. feeds \in SUBSET Feed /\ bind \in [Panes -> Turn]
  BY DEF Typed, NetTyped, PanesTyped
<1>1. bind'[p].at = "attaching" /\ bind'[p].l = b.l /\ bind'[p].ses = b.ses
  BY <1>0 DEF Attaches
<1>2. CASE g \in feeds
  BY <1>0, <1>2, RoutesStand DEF RouteGoes
<1>3. CASE Up(b.l) /\ g \in Unrouted(b.l, b.ses)
  <2>1. \E f \in feeds : g = f \/ g = [f EXCEPT !.state = "ended"]
    BY <1>3 DEF Unrouted
  <2>2. QED
    BY <1>0, <2>1, RoutesStand DEF RouteGoes
<1>4. CASE Up(b.l) /\ g = [pane |-> p, gen |-> 0, l |-> b.l, ses |-> b.ses, state |-> "pending", q |-> <<>>]
  BY <1>1, <1>4 DEF RouteGoes, Arises
<1>5. QED
  BY <1>2, <1>3, <1>4 DEF Attaches

\* Every other step leaves the routes, but for those.
LEMMA RoutesFrom ==
  ASSUME Typed, PanesNext, \A l \in DOMAIN links : ~Reads(l), NEW g \in feeds'
  PROVE  RouteGoes(g)
<1>0. feeds \in SUBSET Feed /\ \A p \in Panes : bind[p] \in Turn
  BY DEF Typed, NetTyped, PanesTyped
<1>s. g \in feeds => RouteGoes(g)
  BY <1>0, RoutesStand DEF RouteGoes
<1>e. ASSUME NEW f \in feeds, g = f \/ g = [f EXCEPT !.state = "ended"] PROVE RouteGoes(g)
  BY <1>0, <1>e, RoutesStand DEF RouteGoes
<1>1. ASSUME NEW t \in queue, BindStep(t) PROVE RouteGoes(g)
  <2> DEFINE p == t.pane
             b == [Resting EXCEPT !.who = t.who, !.l = t.l, !.gen = pane[p].gen, !.from = pane[p].anchor,
                                  !.ses = pane[p].remote, !.closing = pane[p].closing]
  <2>0. p \in Panes
    BY DEF Typed, TasksTyped, BindTurn, HideTurn
  <2>1. CASE BindGoes(t)
    <3>1. bind[p].at = "idle" /\ links' = links /\ (UNCHANGED feeds \/ Attaches(p, b))
      BY <2>1 DEF BindGoes, Binds, TakesTurn, net
    <3>2. \A x : [b EXCEPT !.at = x].at = x /\ [b EXCEPT !.at = x].l = b.l /\ [b EXCEPT !.at = x].ses = b.ses
      BY DEF Resting
    <3> HIDE DEF b
    <3>3. QED
      BY <1>s, <2>0, <3>1, <3>2, AttachArises DEF Attaching
  <2>2. CASE DetachGoes(t)
    <3>1. g \in feeds \/ \E f \in feeds : g = f \/ g = [f EXCEPT !.state = "ended"]
      BY <2>2 DEF DetachGoes, Unrouted
    <3>2. QED
      BY <1>s, <1>e, <3>1
  <2>3. QED
    BY <1>s, <1>1, <2>1, <2>2 DEF BindStep, BindMoot, BindFindsItGone
<1>2. ASSUME NEW p \in Panes, TurnStep(p) PROVE RouteGoes(g)
  <2>1. ASSUME NEW mine, Commits(p, mine), bind[p].at \in {"found", "opened"},
      links' = links PROVE RouteGoes(g)
    <3>1. UNCHANGED feeds \/ Attaches(p, bind[p])
      BY <2>1 DEF Commits
    <3>2. LET b == bind[p] IN
          \A x : [b EXCEPT !.at = x].at = x /\ [b EXCEPT !.at = x].l = b.l /\ [b EXCEPT !.at = x].ses = b.ses
      BY <1>0 DEF Turn
    <3>3. bind[p].at \notin Attaching
      BY <2>1 DEF Attaching
    <3>4. QED
      BY <1>s, <2>1, <3>1, <3>2, <3>3, AttachArises
  <2>2. QED
    BY <1>s, <1>2, <2>1 DEF TurnStep, GetsOpening, Found, Opened, Refused, FoundToClose, Closed, net
<1>3. ASSUME NEW p \in Panes, AnswerStep(p) PROVE RouteGoes(g)
  <2>1. CASE Attached(p)
    <3>1. \E f \in feeds : g = IF f.pane = p /\ f.gen = 0 THEN [f EXCEPT !.gen = pane'[p].gen] ELSE f
      BY <2>1, AttachedFacts
    <3>2. PICK f \in feeds : g = IF f.pane = p /\ f.gen = 0 THEN [f EXCEPT !.gen = pane'[p].gen] ELSE f
      BY <3>1
    <3>3. QED
      BY <1>s, <2>1, <3>2 DEF RouteGoes, Enters
  <2>2. QED
    BY <1>s, <1>3, <2>1 DEF AnswerStep, Gone, AttachSuperseded, CallFails, TypesLine, Unattached
<1>4. ASSUME NEW f \in feeds, PumpStep(f) PROVE RouteGoes(g)
  <2>1. CASE Forwards(f)
    <3>1. g \in feeds \/ g = [f EXCEPT !.q = Tail(f.q)]
      BY <2>1, ForwardsFacts
    <3>2. QED
      BY <1>s, <2>1, <3>1 DEF RouteGoes, Drained
  <2>2. QED
    BY <1>s, <1>4, <2>1 DEF PumpStep, PumpSuperseded, ForwardsExit, PumpEnds, Forgets
<1>5. ASSUME LinkStep PROVE RouteGoes(g)
  <2>1. ASSUME NEW gone, Dies(gone) PROVE RouteGoes(g)
    <3>1. \E f \in feeds : g = f \/ g = [f EXCEPT !.state = "ended"]
      BY <2>1 DEF Dies
    <3>2. QED
      BY <1>e, <3>1
  <2>2. QED
    BY <1>s, <1>5, <2>1 DEF LinkStep, Connects, LinkDies, LiveCleared, HostRestarts, StrayOpens
<1>6. ASSUME \/ WatchStep \/ TakesOver \/ OpenStep
             \/ \E p \in Panes : HostStep(p) \/ AskStep(p)
             \/ \E id \in DOMAIN host.ses : SessionStep(id)
      PROVE  UNCHANGED feeds
  BY <1>6 DEF WatchStep, TakesNews, Joins, AdoptionLocks, AdoptionFails, ListsAgain, ClosesExited,
     HostListsAll, ListingRefused, TakesOver, OpenStep, OpenAsked, Claims, Inserts, HostStep, HostLists,
         HostOpens,
     HostRefuses, HostAttaches, HostCloses, HostDetaches, AskStep, Shows, Hides, Closes, Seeds, Expires,
     SessionStep, HostOutputs, SessionEnds, HostReaps
<1>7. QED
  BY <1>s, <1>1, <1>2, <1>3, <1>4, <1>5, <1>6, StepKinds

-----------------------------------------------------------------------------
\* What the parts of the invariant's step all know of it.
Goes ==
  /\ Inv /\ Inv' /\ Flow
  /\ LinksGo /\ HostGoes /\ Adopts' = Adopts /\ PanesGo /\ \A p \in Panes : pane[p].born => pane'[p].born
  /\ NetKind /\ SesGoes /\ (host'.boot = host.boot => Len(host'.ses) >= Len(host.ses))
  /\ (live' = live \/ Connects \/ LiveCleared)
  /\ OneUp' /\ Following'
  /\ \A q \in Panes : Flows(q)
ReadsNone == \A l \in DOMAIN links : ~Reads(l)
Deadly == LinkDies \/ HostRestarts

\* Every step knows it.
LEMMA GoesNext ==
  ASSUME Inv, Flow, PanesNext
  PROVE  Goes
<1>0. /\ Typed /\ Named /\ Unmade /\ Waits /\ Reached /\ OneUp /\ Following /\ Routes
  BY DEF Inv, Flow
<1>1. Inv'
  BY InvNext
<1>2. Typed' /\ Reached'
  BY <1>1 DEF Inv
<1>3. LinksGo /\ HostGoes /\ Adopts' = Adopts
  BY <1>0, NetGoes
<1>4. PanesGo
  BY <1>0, PanesStep
<1>5. \A p \in Panes : pane[p].born => pane'[p].born
  <2>1. QueueGoes
    BY <1>0, QueueWaits
  <2>2. QED
    BY <1>0, <1>4, <2>1, UnmadeStep
<1>6. NetKind
  BY <1>0, NetStep
<1>7. SesGoes /\ (host'.boot = host.boot => Len(host'.ses) >= Len(host.ses))
  BY <1>0, <1>6, SesStep
<1>8. live' = live \/ Connects \/ LiveCleared
  BY <1>0, LiveStep
<1>9. OneUp'
  BY <1>0, <1>2, <1>6, <1>8, OneUpStep
<1>10. Following'
  BY <1>0, <1>2, <1>3, <1>4, FollowingStep
<1>11. \A q \in Panes : Flows(q)
  BY FlowsStep
<1>12. QED
  BY <1>1, <1>3, <1>4, <1>5, <1>6, <1>7, <1>8, <1>9, <1>10, <1>11 DEF Goes

\* What is over stays over, and what is of a boot stays of it.
LEMMA DoneStays ==
  ASSUME Goes, NEW boot, NEW id
  PROVE  /\ Done(boot, id) => Done(boot, id)'
         /\ InBoot(boot, id) => InBoot(boot, id)'
<1>0. /\ HostGoes /\ SesGoes /\ (host'.boot = host.boot => Len(host'.ses) >= Len(host.ses))
      /\ Typed /\ Typed'
  BY DEF Goes, Inv
<1>1. /\ host.boot \in Nat /\ host'.boot \in Nat /\ Len(host.ses) \in Nat /\ Len(host'.ses) \in Nat
  BY <1>0 DEF Typed, HostTyped, HostState
<1>2. host'.boot >= host.boot
  BY <1>0, <1>1 DEF HostGoes
<1>3. InBoot(boot, id) => InBoot(boot, id)'
  BY <1>0, <1>1, <1>2 DEF InBoot
<1>4. Done(boot, id) => Done(boot, id)'
  <2>1. SUFFICES ASSUME Done(boot, id), boot = host'.boot PROVE host'.ses[id].st # "runs"
    BY <1>3 DEF Done
  <2>2. boot = host.boot /\ host'.boot = host.boot
    BY <1>1, <1>2, <2>1 DEF Done, InBoot
  <2>3. id \in 1 .. Len(host.ses) /\ host.ses[id].st # "runs"
    BY <2>1, <2>2 DEF Done, InBoot
  <2>4. QED
    BY <1>0, <2>2, <2>3 DEF SesGoes
<1>5. QED
  BY <1>3, <1>4

\* Links die at once, or not at all, and the host stays at its boot with them.
LEMMA UpKept ==
  ASSUME Goes, ~Deadly
  PROVE  /\ host'.boot = host.boot
         /\ \A l \in 1 .. Len(links) : l \in 1 .. Len(links') /\ links'[l].up = links[l].up
<1>0. /\ NetKind /\ Typed /\ Typed' /\ Named /\ LinksGo
  BY DEF Goes, Inv
<1>1. /\ Len(links) \in Nat /\ Len(links') \in Nat /\ Len(links') >= Len(links)
  BY <1>0 DEF Typed, NetTyped, LinksGo
<1>w. ASSUME NEW kinds, WiresGrow(kinds), host'.boot = host.boot
      PROVE  /\ host'.boot = host.boot
             /\ \A l \in 1 .. Len(links) : l \in 1 .. Len(links') /\ links'[l].up = links[l].up
  BY <1>1, <1>w DEF WiresGrow
<1>2. CASE Calm
  BY <1>2, <1>w DEF Calm, SesKept
<1>3. ASSUME NEW id \in 1 .. Len(host.ses), HostOutputs(id)
      PROVE  WiresGrow({"data"}) /\ host'.boot = host.boot
  BY <1>0, <1>3, OutputFacts
<1>4. ASSUME NEW p \in Panes, HostAttaches(p)
      PROVE  WiresGrow({"attached", "gone", "exit"}) /\ host'.boot = host.boot
  BY <1>0, <1>4, AttachFacts
<1>5. ASSUME NEW p \in Panes, HostDetaches(p)
      PROVE  links' = links /\ host'.boot = host.boot
  BY <1>0, <1>5, DetachFacts
<1>6. ASSUME NEW k \in 1 .. Len(links), Reads(k)
      PROVE  /\ host'.boot = host.boot
             /\ \A l \in 1 .. Len(links) : l \in 1 .. Len(links') /\ links'[l].up = links[l].up
  <2>1. /\ links[k].up /\ links'[k].up /\ Len(links') = Len(links) /\ host' = host
        /\ \A l \in 1 .. Len(links) : l # k => links'[l] = links[l]
    BY <1>0, <1>6, ReadsFacts
  <2>2. ASSUME NEW l \in 1 .. Len(links) PROVE links'[l].up = links[l].up
    <3>1. links[l] \in Link /\ links'[l] \in Link
      BY <1>0, <2>1 DEF Typed, NetTyped
    <3>2. links[l].up \in BOOLEAN /\ links'[l].up \in BOOLEAN
      BY <3>1 DEF Link
    <3>3. CASE l = k
      BY <2>1, <3>2, <3>3
    <3>4. CASE l # k
      BY <2>1, <3>4
    <3>5. QED
      BY <3>3, <3>4
  <2>3. QED
    BY <2>1, <2>2
<1>7. QED
  BY <1>0, <1>1, <1>2, <1>3, <1>4, <1>5, <1>6, <1>w DEF NetKind, Deadly

\* A route that lives is over a link that is up, and was.
LEMMA RoutesUp ==
  ASSUME Goes, PanesNext, ReadsNone, NEW g \in feeds', g.state # "ended"
  PROVE  /\ ~Deadly /\ host'.boot = host.boot
         /\ g.l \in 1 .. Len(links) /\ links[g.l].up /\ links'[g.l].up
<1>0. /\ Typed /\ Named /\ OneUp /\ Routes
  BY DEF Goes, Inv, Flow
<1>1. ~Deadly
  BY <1>0, DeadFacts DEF Deadly
<1>2. RouteGoes(g)
  BY <1>0, RoutesFrom DEF ReadsNone
<1>3. /\ host'.boot = host.boot
      /\ \A l \in 1 .. Len(links) : l \in 1 .. Len(links') /\ links'[l].up = links[l].up
  BY <1>1, UpKept
<1>4. CASE Arises(g)
  <2>1. Up(g.l) /\ links' = links /\ g.l = bind'[g.pane].l /\ bind'[g.pane].at = "attaching" /\ g.pane \in Panes
    BY <1>4 DEF Arises
  <2>2. Named'
    BY DEF Goes, Inv
  <2>3. g.l \in 1 .. Len(links)
    BY <2>1, <2>2 DEF Named
  <2>4. QED
    BY <1>1, <1>3, <2>1, <2>3 DEF Up
<1>5. ASSUME NEW f \in feeds, Stands(f, g) \/ Drained(f, g) \/ Enters(f, g)
      PROVE  g.l = f.l /\ f.state # "ended"
  <2>1. f \in Feed
    BY <1>0 DEF Typed, NetTyped
  <2>2. CASE Stands(f, g)
    BY <2>2 DEF Stands
  <2>3. CASE Drained(f, g)
    BY <2>1, <2>3 DEF Drained, Feed
  <2>4. CASE Enters(f, g)
    BY <2>1, <2>4 DEF Enters, Feed
  <2>5. QED
    BY <1>5, <2>2, <2>3, <2>4
<1>6. ASSUME NEW f \in feeds, g.l = f.l, f.state # "ended"
      PROVE  g.l \in 1 .. Len(links) /\ links[g.l].up
  BY <1>0, <1>6 DEF Routes, Coded
<1>7. QED
  BY <1>1, <1>2, <1>3, <1>4, <1>5, <1>6 DEF RouteGoes

\* What comes over a link that stays up and that nobody reads still comes, unless the session is let go of.
LEMMA SureKeeps ==
  ASSUME Goes, ReadsNone, NEW l \in 1 .. Len(links), links[l].up, links'[l].up,
         NEW id \in 1 .. Len(host.ses), NEW k \in Int, NEW j \in 0 .. Len(links[l].wire), Sure(l, j, id, k),
         \A p \in Panes : HostDetaches(p) => bind[p].ses # id \/ host.ses[id].st # "runs"
  PROVE  Sure(l, j, id, k)'
<1>0. /\ NetKind /\ Typed /\ Typed' /\ Named /\ LinksGo /\ OneUp /\ Routes /\ Carries
  BY DEF Goes, Inv, Flow
<1> DEFINE w == links[l].wire
           v == links'[l].wire
           top == host.ses[id].out
<1>1. /\ Len(links) \in Nat /\ Len(links') \in Nat /\ Len(links') >= Len(links) /\ l \in 1 .. Len(links')
      /\ Len(host.ses) \in Nat
  BY <1>0 DEF Typed, NetTyped, LinksGo, HostTyped, HostState
<1>2. w \in Seq(Frame) /\ v \in Seq(Frame) /\ Len(w) \in Nat /\ Len(v) \in Nat /\ j \in Nat
      /\ j \in 0 .. Len(w)
  <2>1. links[l] \in Link /\ links'[l] \in Link
    BY <1>0, <1>1 DEF Typed, NetTyped
  <2>2. QED
    BY <2>1 DEF Link
<1>3. top \in Nat
  <2>1. host.ses[id] \in SessionState
    BY <1>0 DEF Typed, HostTyped, HostState
  <2>2. QED
    BY <2>1 DEF SessionState
<1>4. Stream(w, j, id, k, top) /\ k <= top /\ (host.ses[id].st = "runs" => host.ses[id].to = l)
  BY DEF Sure
<1>5. SUFFICES /\ Stream(v, j, id, k, host'.ses[id].out) /\ k <= host'.ses[id].out
               /\ host'.ses[id].st = "runs" => host'.ses[id].to = l
  BY DEF Sure
<1>6. \A i \in 1 .. Len(w) : DataAt(w, i, id) => w[i].n <= top
  <2>1. \A i \in 1 .. Len(w) : Written(w[i])
    BY <1>0 DEF Carries
  <2>2. QED
    BY <1>3, <2>1 DEF Written, DataAt
<1> HIDE DEF w, v, top
<1>g. ASSUME NEW kinds, WiresGrow(kinds), "data" \notin kinds, host'.ses[id].out = top,
             host'.ses[id].st = "runs" => host.ses[id].st = "runs", host'.ses[id].to \in {host.ses[id].to, l}
      PROVE  /\ Stream(v, j, id, k, host'.ses[id].out) /\ k <= host'.ses[id].out
             /\ host'.ses[id].st = "runs" => host'.ses[id].to = l
  <2>1. Grows(w, v) /\ \A i \in Len(w) + 1 .. Len(v) : v[i].kind \in kinds
    BY <1>g DEF WiresGrow, w, v
  <2>2. \A i \in Len(w) + 1 .. Len(v) : ~DataAt(v, i, id)
    BY <1>g, <2>1 DEF DataAt
  <2>3. Stream(v, j, id, k, top)
    BY <1>2, <1>4, <2>1, <2>2, StreamGrows
  <2>4. QED
    BY <1>4, <1>g, <2>3
<1>7. CASE Calm
  BY <1>7, <1>g DEF Calm, SesKept, top
<1>8. ASSUME NEW n \in 1 .. Len(host.ses), HostOutputs(n)
      PROVE  /\ Stream(v, j, id, k, host'.ses[id].out) /\ k <= host'.ses[id].out
             /\ host'.ses[id].st = "runs" => host'.ses[id].to = l
  <2> DEFINE chunk == [kind |-> "data", ses |-> n, n |-> host.ses[n].out + 1]
             to == host.ses[n].to
  <2>1. /\ host.ses[n].st = "runs" /\ host'.ses[n].out = host.ses[n].out + 1
        /\ host'.ses[n].to = to /\ host'.ses[n].st = "runs"
        /\ \A i \in 1 .. Len(host.ses) : i # n => host'.ses[i] = host.ses[i]
        /\ \A i \in 1 .. Len(links) : IF i = to /\ links[i].up THEN links'[i].wire = Append(links[i].wire,
            chunk)
                                                               ELSE links'[i].wire = links[i].wire
        /\ chunk \in Frame
    BY <1>0, <1>8, OutputFacts
  <2>2. chunk.kind = "data" /\ chunk.ses = n /\ chunk.n = host.ses[n].out + 1
    OBVIOUS
  <2> HIDE DEF chunk, to
  <2>3. IF l = to THEN v = Append(w, chunk) ELSE v = w
    BY <2>1 DEF v, w
  <2>4. v = Append(w, chunk) => Grows(w, v) /\ Len(v) = Len(w) + 1 /\ v[Len(v)] = chunk
    BY <1>2, <2>1 DEF Grows
  <2>5. CASE n = id
    <3>1. l = to /\ host.ses[n].out = top
      BY <1>4, <2>1, <2>5 DEF to, top
    <3>2. Grows(w, v) /\ Len(v) = Len(w) + 1 /\ v[Len(v)] = chunk
      BY <2>3, <2>4, <3>1
    <3>3. DataAt(v, Len(v), id) /\ v[Len(v)].n = top + 1
      BY <2>2, <2>5, <3>1, <3>2 DEF DataAt
    <3>4. Stream(v, j, id, k, top + 1)
      BY <1>2, <1>3, <1>4, <1>6, <3>2, <3>3, StreamFed
    <3>5. host'.ses[id].out = top + 1 /\ host'.ses[id].to = l
      BY <2>1, <2>5, <3>1
    <3>6. QED
      BY <1>3, <1>4, <3>4, <3>5
  <2>6. CASE n # id
    <3>1. host'.ses[id] = host.ses[id]
      BY <2>1, <2>6
    <3>2. CASE v = w
      BY <1>4, <3>1, <3>2 DEF top
    <3>3. CASE v = Append(w, chunk)
      <4>1. Grows(w, v) /\ Len(v) = Len(w) + 1 /\ v[Len(v)] = chunk
        BY <2>4, <3>3
      <4>2. \A i \in Len(w) + 1 .. Len(v) : ~DataAt(v, i, id)
        BY <1>2, <2>2, <2>6, <4>1 DEF DataAt
      <4>3. Stream(v, j, id, k, top)
        BY <1>2, <1>4, <4>1, <4>2, StreamGrows
      <4>4. QED
        BY <1>4, <3>1, <4>3 DEF top
    <3>4. QED
      BY <2>3, <3>2, <3>3
  <2>7. QED
    BY <2>5, <2>6
<1>9. ASSUME NEW p \in Panes, HostAttaches(p)
      PROVE  /\ Stream(v, j, id, k, host'.ses[id].out) /\ k <= host'.ses[id].out
             /\ host'.ses[id].st = "runs" => host'.ses[id].to = l
  <2> DEFINE m == bind[p].l
             s == bind[p].ses
  <2>1. /\ m \in 1 .. Len(links) /\ links[m].up
        /\ WiresGrow({"attached", "gone", "exit"})
        /\ \A i \in 1 .. Len(host.ses) :
             /\ host'.ses[i].out = host.ses[i].out /\ host'.ses[i].st = host.ses[i].st
             /\ i # s => host'.ses[i].to = host.ses[i].to
        /\ Exists(s) => s \in 1 .. Len(host.ses) /\ host'.ses[s].to = m
        /\ ~Exists(s) => host' = host
    BY <1>0, <1>9, AttachFacts
  <2> HIDE DEF m, s
  <2>2. m = l
    BY <1>0, <2>1 DEF OneUp
  <2>3. host'.ses[id].to \in {host.ses[id].to, l}
    BY <2>1, <2>2
  <2>4. QED
    BY <1>g, <2>1, <2>3 DEF top
<1>10. ASSUME NEW p \in Panes, HostDetaches(p)
       PROVE  /\ Stream(v, j, id, k, host'.ses[id].out) /\ k <= host'.ses[id].out
              /\ host'.ses[id].st = "runs" => host'.ses[id].to = l
  <2>1. /\ \A i \in 1 .. Len(host.ses) :
             /\ host'.ses[i].out = host.ses[i].out /\ host'.ses[i].st = host.ses[i].st
             /\ i # bind[p].ses => host'.ses[i].to = host.ses[i].to
        /\ links' = links
    BY <1>0, <1>10, DetachFacts
  <2>2. v = w
    BY <2>1 DEF v, w
  <2>3. host'.ses[id].st = "runs" => host'.ses[id].to = host.ses[id].to
    BY <1>10, <2>1
  <2>4. QED
    BY <1>4, <2>1, <2>2, <2>3 DEF top
<1>11. ~(LinkDies \/ HostRestarts)
  BY <1>0, DeadFacts
<1>12. QED
  BY <1>0, <1>7, <1>8, <1>9, <1>10, <1>11 DEF NetKind, ReadsNone

\* Who waits to detach from here on just hid its pane.
LEMMA HideWaits ==
  ASSUME Typed, Unmade, PanesNext, NEW t \in queue', t.who = "hide", t \notin queue
  PROVE  LET st == pane'[t.pane] IN
         t.pane \in Panes /\ t.gen = st.gen /\ ~st.view /\ ~st.lost /\ st.in
<1>k. "watch" # "hide" /\ "open" # "hide" /\ "show" # "hide" /\ "close" # "hide"
  OBVIOUS
<1>1. ~(queue' \subseteq queue)
  OBVIOUS
<1>2. ASSUME NEW p, NEW who \in {"watch", "open", "show", "close"}, NEW l,
    queue' \subseteq queue \cup {BindOf(p, who, l)}
      PROVE  FALSE
  BY <1>2, <1>k DEF BindOf
<1>3. ASSUME WatchStep PROVE FALSE
  <2>1. CASE TakesNews
    <3>1. queue' \subseteq queue \cup {BindOf(p, "watch", live) : p \in Waiting}
      BY <2>1 DEF TakesNews
    <3>2. QED
      BY <1>k, <3>1 DEF BindOf
  <2>2. QED
    BY <1>1, <1>3, <2>1 DEF WatchStep, Joins, AdoptionLocks, AdoptionFails, ListsAgain, ClosesExited,
        HostListsAll,
       ListingRefused
<1>4. ASSUME OpenStep PROVE FALSE
  <2>1. ASSUME NEW p, Shown(p, Head(opens)) PROVE FALSE
    <3>1. queue' \subseteq queue \cup {BindOf(p, "open", Head(opens))}
      BY <2>1 DEF Shown
    <3>2. QED
      BY <1>2, <3>1
  <2>2. QED
    BY <1>1, <1>4, <2>1 DEF OpenStep, OpenAsked, Claims, Inserts
<1>5. ASSUME NEW p \in Panes, AskStep(p), ~Hides(p) PROVE FALSE
  <2>1. \/ queue' \subseteq queue
        \/ queue' \subseteq queue \cup {BindOf(p, "show", live)}
        \/ queue' \subseteq queue \cup {BindOf(p, "close", live)}
    BY <1>5 DEF AskStep, Shows, Closes, Seeds, Expires, tasks
  <2>2. QED
    BY <1>1, <1>2, <2>1
<1>6. ASSUME NEW p \in Panes, Hides(p)
      PROVE  LET st == pane'[t.pane] IN
             t.pane \in Panes /\ t.gen = st.gen /\ ~st.view /\ ~st.lost /\ st.in
  <2>1. /\ pane[p].in /\ ~pane[p].lost /\ SetPane(p, Retarget(pane[p], FALSE))
        /\ t = DetachOf(p, pane[p].gen + 1, pane[p].remote, pane[p].boot)
    BY <1>6 DEF Hides
  <2>2. pane[p] \in PaneState
    BY DEF Typed, PanesTyped
  <2>3. pane'[p] = Retarget(pane[p], FALSE)
    BY <2>1 DEF SetPane, Typed, PanesTyped
  <2>4. pane'[p].gen = pane[p].gen + 1 /\ ~pane'[p].view /\ ~pane'[p].lost /\ pane'[p].in
    BY <2>1, <2>2, <2>3 DEF Retarget, PaneState
  <2>5. t.pane = p /\ t.gen = pane[p].gen + 1
    BY <2>1 DEF DetachOf
  <2>6. QED
    BY <2>4, <2>5
<1>7. ASSUME TakesOver PROVE FALSE
  BY <1>1, <1>7 DEF TakesOver
<1>8. ASSUME NEW p \in Panes, TurnStep(p) \/ CallFails(p) PROVE FALSE
  BY <1>1, <1>8 DEF TurnStep, GetsOpening, Found, Opened, Refused, FoundToClose, Closed, CallFails, tasks
<1>9. QED
  BY <1>1, <1>3, <1>4, <1>5, <1>6, <1>7, <1>8, RestingTasks DEF TasksRest

-----------------------------------------------------------------------------
\* What is on its way.

\* A frame was on its way, behind the one a reader may have taken, or is put there.
FrameGoes(l, i) ==
  LET w == links[l].wire
      frame == links'[l].wire[i]
  IN
  /\ l \in 1 .. Len(links) /\ links[l].up
  /\ \/ i \in 1 .. Len(w) /\ frame = w[i] /\ ~Reads(l)
     \/ Reads(l) /\ i + 1 \in 1 .. Len(w) /\ i # 0 /\ frame = w[i + 1]
     \/ frame.kind = "exit"
     \/ /\ frame.kind = "data" /\ frame.ses \in 1 .. Len(host.ses)
        /\ HostOutputs(frame.ses) /\ frame.n = host.ses[frame.ses].out + 1
     \/ \E p \in Panes : /\ HostAttaches(p) /\ l = bind[p].l /\ i = Len(w) + 1
                         /\ frame = AttachFrame(IF Exists(bind[p].ses) THEN "attached" ELSE "gone",
                             bind[p].ses, p)

LEMMA FrameFrom ==
  ASSUME Goes, NEW l \in 1 .. Len(links'), NEW i \in 1 .. Len(links'[l].wire)
  PROVE  FrameGoes(l, i)
<1>0. /\ NetKind /\ Typed /\ Typed' /\ Named /\ LinksGo /\ OneUp /\ Routes /\ OneUp'
  BY DEF Goes, Inv, Flow
<1> DEFINE w == links[l].wire
           v == links'[l].wire
<1>1. /\ Len(links) \in Nat /\ Len(links') \in Nat /\ Len(links') >= Len(links)
  BY <1>0 DEF Typed, NetTyped, LinksGo
<1>2. v \in Seq(Frame) /\ Len(v) \in Nat
  <2>1. links'[l] \in Link
    BY <1>0 DEF Typed, NetTyped
  <2>2. QED
    BY <2>1 DEF Link
<1>3. l \in 1 .. Len(links) => w \in Seq(Frame) /\ Len(w) \in Nat
  <2>1. l \in 1 .. Len(links) => links[l] \in Link
    BY <1>0 DEF Typed, NetTyped
  <2>2. QED
    BY <2>1 DEF Link
<1>4. i \in Nat /\ i # 0 /\ v # <<>>
  BY <1>2
<1> HIDE DEF v
<1>5. l \in 1 .. Len(links)
  <2>1. ASSUME NEW kinds, WiresGrow(kinds), l \notin 1 .. Len(links) PROVE FALSE
    BY <1>1, <1>4, <2>1 DEF WiresGrow, v
  <2>2. ASSUME Len(links') = Len(links) PROVE l \in 1 .. Len(links)
    BY <2>2
  <2>3. CASE Calm
    BY <2>1, <2>3 DEF Calm
  <2>4. ASSUME NEW id \in 1 .. Len(host.ses), HostOutputs(id) PROVE l \in 1 .. Len(links)
    BY <1>0, <2>2, <2>4, OutputFacts
  <2>5. ASSUME NEW p \in Panes, HostAttaches(p) PROVE l \in 1 .. Len(links)
    BY <1>0, <2>2, <2>5, AttachFacts
  <2>6. ASSUME NEW p \in Panes, HostDetaches(p) PROVE l \in 1 .. Len(links)
    BY <1>0, <2>6, DetachFacts
  <2>7. CASE LinkDies \/ HostRestarts
    BY <1>0, <2>2, <2>7, DeadFacts
  <2>8. ASSUME NEW k \in 1 .. Len(links), Reads(k) PROVE l \in 1 .. Len(links)
    BY <1>0, <2>2, <2>8, ReadsFacts
  <2>9. QED
    BY <1>0, <2>3, <2>4, <2>5, <2>6, <2>7, <2>8 DEF NetKind
<1>6. links[l].up
  <2>1. links'[l].up
    BY <1>0, <1>4 DEF OneUp, v
  <2>2. QED
    BY <1>0, <1>5, <2>1 DEF LinksGo
<1>7. ASSUME i \in 1 .. Len(w), v[i] = w[i], ~Reads(l) PROVE FrameGoes(l, i)
  BY <1>5, <1>6, <1>7 DEF FrameGoes, v
<1>r. ~Reads(l) \/ Reads(l)
  OBVIOUS
<1> HIDE DEF w
<1>8. ASSUME NEW kinds, WiresGrow(kinds), ~Reads(l), v[i].kind \in kinds => FrameGoes(l, i)
      PROVE  FrameGoes(l, i)
  <2>1. Grows(w, v) /\ \A k \in Len(w) + 1 .. Len(v) : v[k].kind \in kinds
    BY <1>5, <1>8 DEF WiresGrow, w, v
  <2>2. CASE i \in 1 .. Len(w)
    BY <1>7, <1>8, <2>1, <2>2 DEF Grows
  <2>3. CASE i \notin 1 .. Len(w)
    <3>1. i \in Len(w) + 1 .. Len(v)
      BY <1>2, <1>3, <1>5, <2>3 DEF w, v
    <3>2. QED
      BY <1>8, <2>1, <3>1
  <2>4. QED
    BY <2>2, <2>3
<1>9. v[i].kind = "exit" => FrameGoes(l, i)
  BY <1>5, <1>6 DEF FrameGoes, v
<1>10. ASSUME Reads(l) PROVE FrameGoes(l, i)
  <2>1. v = Tail(w) /\ w # <<>>
    BY <1>0, <1>5, <1>10, ReadsFacts DEF v, w
  <2>2. i \in 1 .. Len(Tail(w))
    BY <2>1 DEF v
  <2>3. i + 1 \in 1 .. Len(w) /\ v[i] = w[i + 1]
    BY <1>3, <1>5, <2>1, <2>2, Places DEF w
  <2>4. QED
    BY <1>4, <1>5, <1>6, <1>10, <2>3 DEF FrameGoes, v, w
<1>11. CASE ~Reads(l)
  <2>1. CASE Calm
    BY <1>8, <1>9, <1>11, <2>1 DEF Calm
  <2>2. ASSUME NEW id \in 1 .. Len(host.ses), HostOutputs(id) PROVE FrameGoes(l, i)
    <3> DEFINE chunk == [kind |-> "data", ses |-> id, n |-> host.ses[id].out + 1]
    <3>1. v = Append(w, chunk) \/ v = w
      BY <1>0, <1>5, <2>2, OutputFacts DEF v, w
    <3>2. chunk.kind = "data" /\ chunk.ses = id /\ chunk.n = host.ses[id].out + 1
      OBVIOUS
    <3> HIDE DEF chunk
    <3>w. w \in Seq(Frame) /\ Len(w) \in Nat
      BY <1>3, <1>5 DEF w
    <3>3. CASE v = w
      BY <1>7, <1>11, <3>3 DEF v
    <3>4. CASE v = Append(w, chunk)
      <4>1. i \in 1 .. Len(w) + 1
        BY <3>4, <3>w DEF v
      <4>2. CASE i \in 1 .. Len(w)
        <5>1. v[i] = w[i]
          BY <3>4, <3>w, <4>2
        <5>2. QED
          BY <1>7, <1>11, <4>2, <5>1
      <4>3. CASE i = Len(w) + 1
        <5>1. v[i] = chunk
          BY <3>4, <3>w, <4>3
        <5>2. QED
          BY <1>5, <1>6, <2>2, <3>2, <5>1 DEF FrameGoes, v
      <4>4. QED
        BY <3>w, <4>1, <4>2, <4>3
    <3>5. QED
      BY <3>1, <3>3, <3>4
  <2>3. ASSUME NEW p \in Panes, HostAttaches(p) PROVE FrameGoes(l, i)
    <3> DEFINE m == bind[p].l
               s == bind[p].ses
    <3>1. /\ m \in 1 .. Len(links)
          /\ \A k \in 1 .. Len(links) : k # m => links'[k] = links[k]
          /\ WiresGrow({"attached", "gone", "exit"})
          /\ l = m => IF Exists(s)
                      THEN /\ v[Len(w) + 1] = AttachFrame("attached", s, p)
                           /\ \A k \in (Len(w) + 1) + 1 .. Len(v) : v[k].kind = "exit"
                      ELSE Len(v) = Len(w) + 1 /\ v[Len(w) + 1] = AttachFrame("gone", s, p)
      <4>1. /\ m \in 1 .. Len(links)
            /\ \A k \in 1 .. Len(links) : k # m => links'[k] = links[k]
            /\ WiresGrow({"attached", "gone", "exit"})
        BY <1>0, <2>3, AttachFacts
      <4>2. Exists(s) => /\ links'[m].wire[Len(links[m].wire) + 1] = AttachFrame("attached", s, p)
                         /\ \A k \in (Len(links[m].wire) + 1) + 1 .. Len(links'[m].wire) : links'[m].wire[k].kind = "exit"
        BY <1>0, <2>3, AttachFacts
      <4>3. ~Exists(s) => /\ Len(links'[m].wire) = Len(links[m].wire) + 1
                          /\ links'[m].wire[Len(links[m].wire) + 1] = AttachFrame("gone", s, p)
        BY <1>0, <2>3, AttachFacts
      <4> HIDE DEF m, s
      <4>4. QED
        BY <4>1, <4>2, <4>3 DEF v, w
    <3>w. w \in Seq(Frame) /\ Len(w) \in Nat
      BY <1>3, <1>5 DEF w
    <3>2. CASE l # m
      BY <1>7, <1>11, <1>5, <3>1, <3>2 DEF v, w
    <3>3. CASE l = m
      <4>1. Grows(w, v)
        BY <1>5, <3>1 DEF WiresGrow, v, w
      <4>2. i \in 1 .. Len(v)
        BY DEF v
      <4>3. CASE i \in 1 .. Len(w)
        BY <1>7, <1>11, <4>1, <4>3 DEF Grows
      <4>4. CASE i = Len(w) + 1
        <5>1. v[i] = AttachFrame(IF Exists(s) THEN "attached" ELSE "gone", s, p)
          BY <3>1, <3>3, <4>4
        <5>2. QED
          BY <1>5, <1>6, <2>3, <3>3, <4>4, <5>1 DEF FrameGoes, v, w
      <4>5. CASE i \in (Len(w) + 1) + 1 .. Len(v)
        <5>1. Exists(s)
          BY <1>2, <3>1, <3>3, <3>w, <4>5
        <5>2. v[i].kind = "exit"
          BY <3>1, <3>3, <4>5, <5>1
        <5>3. QED
          BY <1>9, <5>2
      <4>6. QED
        BY <1>2, <3>w, <4>2, <4>3, <4>4, <4>5
    <3>4. QED
      BY <3>2, <3>3
  <2>4. ASSUME NEW p \in Panes, HostDetaches(p) PROVE FrameGoes(l, i)
    <3>1. v = w
      BY <1>0, <2>4, DetachFacts DEF v, w
    <3>2. QED
      BY <1>7, <1>11, <3>1 DEF v
  <2>5. CASE LinkDies \/ HostRestarts
    BY <1>0, <1>4, <1>5, <2>5, DeadFacts DEF v
  <2>6. ASSUME NEW k \in 1 .. Len(links), Reads(k) PROVE FrameGoes(l, i)
    <3>1. v = w
      BY <1>0, <1>5, <1>11, <2>6, ReadsFacts DEF v, w
    <3>2. QED
      BY <1>7, <1>11, <3>1 DEF v
  <2>7. QED
    BY <1>0, <2>1, <2>2, <2>3, <2>4, <2>5, <2>6 DEF NetKind
<1>12. QED
  BY <1>10, <1>11

\* An answer waits for its attach, and the attach for it.
LEMMA AnswerStays ==
  ASSUME Goes, PanesNext, NEW l \in 1 .. Len(links), NEW k \in 1 .. Len(links[l].wire),
         links[l].wire[k].kind \in {"attached", "gone"}, Reads(l) => k # 1
  PROVE  LET frame == links[l].wire[k]
             b == bind'[frame.n]
         IN
         /\ frame.n \in Panes /\ bind[frame.n].at = "answering" /\ bind[frame.n].l = l
         /\ b = bind[frame.n]
<1>0. /\ Typed /\ Unmade /\ Named /\ OneUp /\ Carries /\ \A p \in Panes : Flows(p)
  BY DEF Goes, Inv, Flow
<1> DEFINE frame == links[l].wire[k]
           q == frame.n
<1>1. Answered(l, frame) /\ Once(links[l].wire)
  BY <1>0 DEF Carries
<1>2. /\ q \in Panes /\ bind[q].at = "answering" /\ bind[q].l = l /\ Answers(frame, q)
  BY <1>1 DEF Answered, Answers
<1>w. links[l].wire \in Seq(Frame)
  <2>1. links[l] \in Link
    BY <1>0 DEF Typed, NetTyped
  <2>2. QED
    BY <2>1 DEF Link
<1>3. links[l].up
  <2>1. links[l].wire # <<>>
    BY <1>w
  <2>2. QED
    BY <1>0, <2>1 DEF OneUp
<1> HIDE DEF frame, q
<1>4. ASSUME bind'[q] = Resting PROVE FALSE
  <2>1. ~Up(bind[q].l)
    BY <1>0, <1>2, <1>4, AnswersWait
  <2>2. l # None
    BY <1>0, RestingAt DEF Typed, NetTyped
  <2>3. QED
    BY <1>2, <1>3, <2>1, <2>2 DEF Up
<1>5. ASSUME Moves(q) PROVE FALSE
  <2>1. PICK m \in DOMAIN links : /\ Reads(m) /\ bind[q].l = m /\ Head(links[m].wire).n = q
                                  /\ Head(links[m].wire).kind \in {"attached", "gone"}
    BY <1>2, <1>5 DEF Moves
  <2>2. m = l
    BY <1>2, <2>1
  <2>3. links[l].wire # <<>>
    BY <2>1, <2>2 DEF Reads
  <2>4. Head(links[l].wire) = links[l].wire[1] /\ 1 \in 1 .. Len(links[l].wire)
    BY <1>w, <2>3
  <2>5. Answers(links[l].wire[1], q)
    BY <2>1, <2>2, <2>4 DEF Answers
  <2>6. k = 1
    BY <1>1, <1>2, <2>4, <2>5 DEF Once, frame
  <2>7. QED
    BY <2>1, <2>2, <2>6
<1>6. bind'[q] = bind[q]
  <2>1. CASE Stays(q) \/ Retargets(q)
    BY <1>4, <2>1 DEF Stays, Retargets
  <2>2. CASE BeginsBind(q) \/ BeginsDetach(q)
    BY <1>2, <2>2 DEF BeginsBind, BeginsDetach
  <2>3. CASE Takes(q)
    BY <1>2, <2>3 DEF Takes
  <2>4. CASE Attached(q)
    BY <1>2, <2>4 DEF Attached
  <2>5. CASE Starts(q)
    BY <2>5 DEF Starts, Made
  <2>6. ASSUME NEW f \in feeds, Forwards(f) PROVE bind'[q] = bind[q]
    BY <2>6 DEF Forwards
  <2>7. QED
    BY <1>0, <1>2, <1>5, <2>1, <2>2, <2>3, <2>4, <2>5, <2>6 DEF Flows
<1>7. QED
  BY <1>2, <1>6 DEF frame, q

\* Output stays the session's, and what answers an attach its answer.
LEMMA WrittenStays ==
  ASSUME Goes, NEW frame, Written(frame), host'.boot = host.boot
  PROVE  Written(frame)'
<1>0. SesGoes /\ Typed /\ Typed' /\ Len(host'.ses) >= Len(host.ses)
  BY DEF Goes, Inv
<1>1. Len(host.ses) \in Nat /\ Len(host'.ses) \in Nat
  BY <1>0 DEF Typed, HostTyped, HostState
<1>2. SUFFICES ASSUME frame.kind = "data"
               PROVE  frame.ses \in 1 .. Len(host'.ses) /\ frame.n \in 1 .. host'.ses[frame.ses].out
  BY DEF Written
<1>3. frame.ses \in 1 .. Len(host.ses) /\ frame.n \in 1 .. host.ses[frame.ses].out
  BY <1>2 DEF Written
<1>4. host'.ses[frame.ses].out >= host.ses[frame.ses].out
  BY <1>0, <1>3 DEF SesGoes
<1>5. frame.ses \in 1 .. Len(host'.ses)
  BY <1>0, <1>1, <1>3
<1>6. host.ses[frame.ses].out \in Nat /\ host'.ses[frame.ses].out \in Nat
  <2>1. host.ses[frame.ses] \in SessionState /\ host'.ses[frame.ses] \in SessionState
    BY <1>0, <1>3, <1>5 DEF Typed, HostTyped, HostState
  <2>2. QED
    BY <2>1 DEF SessionState
<1>7. QED
  BY <1>3, <1>4, <1>5, <1>6

\* An attach whose answer says that its session is gone was of one that is over.
LEMMA GoneIsDone ==
  ASSUME Goes, NEW p \in Panes, HostAttaches(p), ~Exists(bind[p].ses)
  PROVE  Done(BootOf(bind[p].l), bind[p].ses)
<1>0. /\ Typed /\ Named /\ Placed /\ Hosted /\ Reached
  BY DEF Goes, Inv
<1>1. bind[p].at = "attaching" /\ bind[p].l \in 1 .. Len(links) /\ links[bind[p].l].up
  BY <1>0, AttachFacts
<1>2. pane[p].remote # None /\ bind[p].ses = pane[p].remote /\ pane[p].boot = BootOf(bind[p].l)
  BY <1>0, <1>1 DEF Placed, Attaching
<1>3. InBoot(BootOf(bind[p].l), bind[p].ses)
  BY <1>0, <1>2 DEF Hosted
<1>4. bind[p].l # None
  BY <1>0, <1>1, RestingAt DEF Typed, NetTyped
<1>5. BootOf(bind[p].l) = host.boot
  BY <1>0, <1>1, <1>4 DEF Reached, Up
<1>6. bind[p].ses \in 1 .. Len(host.ses) /\ DOMAIN host.ses = 1 .. Len(host.ses)
  BY <1>0, <1>3, <1>5 DEF InBoot, Typed, HostTyped, HostState
<1>7. host.ses[bind[p].ses].st # "runs"
  BY <1>6 DEF Exists, Session
<1>8. QED
  BY <1>3, <1>7 DEF Done

\* What is on its way stays what was written, and answers.
LEMMA CarriesStep ==
  ASSUME Goes, PanesNext
  PROVE  Carries'
<1>0. /\ Typed /\ Typed' /\ Named /\ LinksGo /\ OneUp /\ Routes /\ Carries
      /\ host'.boot = host.boot => Len(host'.ses) >= Len(host.ses)
  BY DEF Goes, Inv, Flow
<1>n. Len(links) \in Nat /\ Len(links') \in Nat /\ Len(links') >= Len(links)
  BY <1>0 DEF Typed, NetTyped, LinksGo
<1>w. \A l \in 1 .. Len(links) : links[l].wire \in Seq(Frame) /\ Len(links[l].wire) \in Nat
  <2>1. \A l \in 1 .. Len(links) : links[l] \in Link
    BY <1>0 DEF Typed, NetTyped
  <2>2. QED
    BY <2>1 DEF Link
<1>k. "data" \notin {"attached", "gone"} /\ "exit" \notin {"attached", "gone"} /\ "exit" # "data"
  OBVIOUS
<1>a. \A x, s, p : LET f == AttachFrame(x, s, p) IN f.kind = x /\ f.ses = s /\ f.n = p
  BY DEF AttachFrame
<1>b. ASSUME NEW l \in 1 .. Len(links'), NEW i \in 1 .. Len(links'[l].wire)
      PROVE  host'.boot = host.boot
  <2>1. ~Deadly
    <3>1. links'[l].wire # <<>>
      <4>1. links'[l] \in Link
        BY <1>0 DEF Typed, NetTyped
      <4>2. QED
        BY <4>1 DEF Link
    <3>2. FrameGoes(l, i)
      BY FrameFrom
    <3>3. QED
      BY <1>0, <3>1, <3>2, DeadFacts DEF FrameGoes, Deadly
  <2>2. QED
    BY <2>1, UpKept
<1>1. ASSUME NEW l \in 1 .. Len(links'), NEW i \in 1 .. Len(links'[l].wire), NEW frame,
    frame = links'[l].wire[i]
      PROVE  Written(frame)'
  <2>1. FrameGoes(l, i) /\ host'.boot = host.boot
    BY <1>b, FrameFrom
  <2>2. ASSUME NEW k \in 1 .. Len(links[l].wire), frame = links[l].wire[k], l \in 1 .. Len(links)
        PROVE  Written(frame)'
    <3>1. Written(links[l].wire[k])
      BY <1>0, <2>2 DEF Carries
    <3>2. Written(frame)
      BY <2>2, <3>1
    <3>3. \A f : Written(f) => Written(f)'
      BY <2>1, WrittenStays
    <3>4. QED
      BY <3>2, <3>3
  <2>3. CASE frame.kind # "data"
    BY <2>3 DEF Written
  <2>4. ASSUME frame.kind = "data", frame.ses \in 1 .. Len(host.ses), HostOutputs(frame.ses),
               frame.n = host.ses[frame.ses].out + 1
        PROVE  Written(frame)'
    <3> DEFINE id == frame.ses
    <3>1. id \in 1 .. Len(host.ses) /\ HostOutputs(id) /\ host.ses[id] \in SessionState
      BY <1>0, <2>4 DEF Typed, HostTyped, HostState
    <3> HIDE DEF id
    <3>2. host'.ses[id].out = host.ses[id].out + 1 /\ Len(host'.ses) = Len(host.ses)
      BY <1>0, <3>1, OutputFacts
    <3>3. host.ses[id].out \in Nat
      BY <3>1 DEF SessionState
    <3>4. frame.n \in 1 .. host'.ses[id].out
      BY <2>4, <3>2, <3>3 DEF id
    <3>5. QED
      BY <3>1, <3>2, <3>4 DEF id, Written
  <2>5. CASE \E p \in Panes : frame = AttachFrame(IF Exists(bind[p].ses) THEN "attached" ELSE "gone",
      bind[p].ses, p)
    BY <1>a, <1>k, <2>3, <2>5
  <2>6. QED
    BY <1>1, <1>k, <2>1, <2>2, <2>3, <2>4, <2>5 DEF FrameGoes
<1>2. ASSUME NEW l \in 1 .. Len(links), NEW k \in 1 .. Len(links[l].wire), Reads(l) => k # 1,
             NEW frame, frame = links[l].wire[k]
      PROVE  Answered(l, frame)'
  <2>1. Answered(l, links[l].wire[k])
    BY <1>0 DEF Carries
  <2> USE <1>2
  <2>2. CASE frame.kind \notin {"attached", "gone"}
    BY <2>2 DEF Answered
  <2>3. CASE frame.kind \in {"attached", "gone"}
    <3>1. /\ frame.n \in Panes /\ bind[frame.n].at = "answering" /\ bind[frame.n].l = l
          /\ bind'[frame.n] = bind[frame.n]
      BY <1>2, <2>3, AnswerStays
    <3>2. bind[frame.n].ses = frame.ses /\ (frame.kind = "gone" => Done(BootOf(l), frame.ses))
      BY <2>1, <2>3 DEF Answered
    <3>3. links'[l].boot = links[l].boot
      BY <1>0 DEF LinksGo
    <3>4. \A boot, id : Done(boot, id) => Done(boot, id)'
      BY DoneStays
    <3>5. frame.kind = "gone" => Done(BootOf(l), frame.ses)'
      BY <3>2, <3>3, <3>4 DEF Done, InBoot, BootOf
    <3>6. QED
      BY <3>1, <3>2, <3>5 DEF Answered
  <2>4. QED
    BY <2>2, <2>3
<1>3. ASSUME NEW l \in 1 .. Len(links), NEW p \in Panes, HostAttaches(p), l = bind[p].l,
             NEW frame, frame = AttachFrame(IF Exists(bind[p].ses) THEN "attached" ELSE "gone", bind[p].ses,
                 p)
      PROVE  Answered(l, frame)'
  <2>1. frame.n = p /\ frame.ses = bind[p].ses /\ (frame.kind = "gone" => ~Exists(bind[p].ses))
    BY <1>3, <1>a
  <2>2. bind'[p].at = "answering" /\ bind'[p].l = l /\ bind'[p].ses = bind[p].ses
    BY <1>0, <1>3, AttachFacts
  <2>3. links'[l].boot = links[l].boot
    BY <1>0 DEF LinksGo
  <2>4. \A boot, id : Done(boot, id) => Done(boot, id)'
    BY DoneStays
  <2>5. frame.kind = "gone" => Done(BootOf(l), frame.ses)'
    <3>1. frame.kind = "gone" => Done(BootOf(l), frame.ses)
      BY <1>3, <2>1, GoneIsDone
    <3>2. QED
      BY <2>3, <2>4, <3>1 DEF Done, InBoot, BootOf
  <2>6. QED
    BY <2>1, <2>2, <2>5 DEF Answered
<1>4. ASSUME NEW l \in 1 .. Len(links'), NEW i \in 1 .. Len(links'[l].wire), NEW frame,
    frame = links'[l].wire[i]
      PROVE  Answered(l, frame)'
  <2>1. FrameGoes(l, i)
    BY FrameFrom
  <2>2. l \in 1 .. Len(links) /\ (l \in 1 .. Len(links) => Len(links[l].wire) \in Nat) /\ i \in Nat
    BY <1>w, <2>1 DEF FrameGoes
  <2>3. CASE i \in 1 .. Len(links[l].wire) /\ frame = links[l].wire[i] /\ ~Reads(l)
    BY <1>2, <2>2, <2>3
  <2>4. CASE Reads(l) /\ i + 1 \in 1 .. Len(links[l].wire) /\ i # 0 /\ frame = links[l].wire[i + 1]
    <3>1. i + 1 # 1
      BY <2>2, <2>4
    <3>2. QED
      BY <1>2, <2>2, <2>4, <3>1
  <2>5. CASE frame.kind \in {"data", "exit"}
    BY <1>k, <2>5 DEF Answered
  <2>6. ASSUME NEW p \in Panes, HostAttaches(p), l = bind[p].l,
               frame = AttachFrame(IF Exists(bind[p].ses) THEN "attached" ELSE "gone", bind[p].ses, p)
        PROVE  Answered(l, frame)'
    BY <1>3, <2>2, <2>6
  <2>7. QED
    BY <1>4, <2>1, <2>3, <2>4, <2>5, <2>6 DEF FrameGoes
<1>5. ASSUME NEW l \in 1 .. Len(links'), NEW i \in 1 .. Len(links'[l].wire), NEW p,
    Answers(links'[l].wire[i], p), p \in Panes
      PROVE  /\ l \in 1 .. Len(links)
             /\ \/ /\ bind[p].at = "answering" /\ i \in 1 .. Len(links[l].wire) /\ ~Reads(l)
                   /\ Answers(links[l].wire[i], p)
                \/ /\ bind[p].at = "answering" /\ i + 1 \in 1 .. Len(links[l].wire) /\ Reads(l)
                   /\ Answers(links[l].wire[i + 1], p)
                \/ bind[p].at = "attaching" /\ i = Len(links[l].wire) + 1
  <2>1. FrameGoes(l, i)
    BY FrameFrom
  <2>2. l \in 1 .. Len(links)
    BY <2>1 DEF FrameGoes
  <2>3. ASSUME NEW k \in 1 .. Len(links[l].wire), Answers(links[l].wire[k], p)
        PROVE  bind[p].at = "answering"
    <3>1. Answered(l, links[l].wire[k])
      BY <1>0, <2>2 DEF Carries
    <3>2. QED
      BY <2>3, <3>1 DEF Answered, Answers
  <2>4. CASE i \in 1 .. Len(links[l].wire) /\ links'[l].wire[i] = links[l].wire[i] /\ ~Reads(l)
    BY <1>5, <2>2, <2>3, <2>4
  <2>5. CASE Reads(l) /\ i + 1 \in 1 .. Len(links[l].wire) /\ i # 0 /\ links'[l].wire[i] = links[l].wire[i + 1]
    BY <1>5, <2>2, <2>3, <2>5
  <2>6. CASE links'[l].wire[i].kind \in {"data", "exit"}
    BY <1>5, <1>k, <2>6 DEF Answers
  <2>7. ASSUME NEW q \in Panes, HostAttaches(q), i = Len(links[l].wire) + 1,
               links'[l].wire[i] = AttachFrame(IF Exists(bind[q].ses) THEN "attached" ELSE "gone",
                   bind[q].ses, q)
        PROVE  bind[p].at = "attaching" /\ i = Len(links[l].wire) + 1
    <3>1. q = p
      BY <1>5, <1>a, <2>7 DEF Answers
    <3>2. QED
      BY <1>0, <2>7, <3>1, AttachFacts
  <2>8. QED
    BY <2>1, <2>2, <2>4, <2>5, <2>6, <2>7 DEF FrameGoes
<1>6. ASSUME NEW l \in 1 .. Len(links'), NEW i \in 1 .. Len(links'[l].wire),
    NEW j \in 1 .. Len(links'[l].wire),
             NEW p \in Panes, Answers(links'[l].wire[i], p), Answers(links'[l].wire[j], p)
      PROVE  i = j
  <2>1. l \in 1 .. Len(links)
    BY <1>5, <1>6
  <2>2. Once(links[l].wire) /\ i \in Nat /\ j \in Nat
    BY <1>0, <2>1 DEF Carries
  <2>3. \/ bind[p].at = "attaching" /\ i = Len(links[l].wire) + 1 /\ j = Len(links[l].wire) + 1
        \/ /\ i \in 1 .. Len(links[l].wire) /\ j \in 1 .. Len(links[l].wire)
           /\ Answers(links[l].wire[i], p) /\ Answers(links[l].wire[j], p)
        \/ /\ i + 1 \in 1 .. Len(links[l].wire) /\ j + 1 \in 1 .. Len(links[l].wire)
           /\ Answers(links[l].wire[i + 1], p) /\ Answers(links[l].wire[j + 1], p)
    BY <1>5, <1>6
  <2>4. ASSUME i + 1 = j + 1 PROVE i = j
    BY <2>2, <2>4
  <2>5. QED
    BY <2>2, <2>3, <2>4 DEF Once
<1>7. \A l \in 1 .. Len(links') : \A i \in 1 .. Len(links'[l].wire) : (Written(links[l].wire[i]) /\ Answered(l, links[l].wire[i]))'
  BY <1>1, <1>4 DEF Written, Answered
<1>8. QED
  BY <1>6, <1>7 DEF Carries, Once

-----------------------------------------------------------------------------
\* The routes.

\* A route comes from one, or arises.
LEMMA RouteFrom ==
  ASSUME Goes, PanesNext, NEW g \in feeds'
  PROVE  /\ g \in Feed
         /\ \/ ReadsNone /\ RouteGoes(g)
            \/ \E l \in 1 .. Len(links) : Reads(l) /\ \E f \in feeds : f \in Feed /\ ReadsTo(l, f, g)
<1>0. Typed /\ Typed'
  BY DEF Goes, Inv
<1>1. g \in Feed /\ \A f \in feeds : f \in Feed
  BY <1>0 DEF Typed, NetTyped
<1>2. DOMAIN links = 1 .. Len(links)
  BY <1>0 DEF Typed, NetTyped
<1>3. CASE ReadsNone
  BY <1>0, <1>1, <1>3, RoutesFrom DEF ReadsNone
<1>4. CASE ~ReadsNone
  <2>1. PICK l \in 1 .. Len(links) : Reads(l)
    BY <1>2, <1>4 DEF ReadsNone
  <2>2. PICK f \in feeds : ReadsTo(l, f, g)
    BY <1>0, <2>1, FeedsRead
  <2>3. QED
    BY <1>1, <2>1, <2>2
<1>5. QED
  BY <1>3, <1>4

\* What the sources of a route say of it.
LEMMA RouteParts ==
  ASSUME NEW f \in Feed, NEW g \in Feed
  PROVE  /\ Stands(f, g) => /\ g.pane = f.pane /\ g.gen = f.gen /\ g.l = f.l /\ g.ses = f.ses /\ g.q = f.q
                            /\ g.state \in {f.state, "ended"}
         /\ Drained(f,
             g) => /\ g.pane = f.pane /\ g.gen = f.gen /\ g.l = f.l /\ g.ses = f.ses /\ g.q = Tail(f.q)
                             /\ g.state = f.state /\ f.gen # 0 /\ f.q # <<>> /\ Forwards(f)
         /\ Enters(f, g) => /\ g.pane = f.pane /\ g.gen = pane'[f.pane].gen /\ g.l = f.l /\ g.ses = f.ses
                            /\ g.q = f.q /\ g.state = f.state /\ f.gen = 0 /\ Attached(f.pane)
         /\ f.q \in Seq(Nat) /\ g.q \in Seq(Nat) /\ f.pane \in Panes /\ f.gen \in Nat /\ f.l \in Nat
<1>1. Stands(f, g) => /\ g.pane = f.pane /\ g.gen = f.gen /\ g.l = f.l /\ g.ses = f.ses /\ g.q = f.q
                      /\ g.state \in {f.state, "ended"}
  BY DEF Stands
<1>2. Drained(f, g) => /\ g.pane = f.pane /\ g.gen = f.gen /\ g.l = f.l /\ g.ses = f.ses /\ g.q = Tail(f.q)
                       /\ g.state = f.state
  BY DEF Drained, Feed
<1>3. Drained(f, g) => Forwards(f) /\ f.gen # 0 /\ f.q # <<>>
  BY DEF Drained, Forwards
<1>4. Enters(f, g) => /\ g.pane = f.pane /\ g.gen = pane'[f.pane].gen /\ g.l = f.l /\ g.ses = f.ses
                      /\ g.q = f.q /\ g.state = f.state /\ f.gen = 0 /\ Attached(f.pane)
  BY DEF Enters, Feed
<1>5. f.q \in Seq(Nat) /\ g.q \in Seq(Nat) /\ f.pane \in Panes /\ f.gen \in Nat /\ f.l \in Nat
  BY DEF Feed
<1>6. QED
  BY <1>1, <1>2, <1>3, <1>4, <1>5

\* The chunks of a tail, and of a queue that got one more.
LEMMA QueueParts ==
  ASSUME NEW q \in Seq(Nat), NEW n \in Nat
  PROVE  /\ Len(q) \in Nat
         /\ q # <<>> => /\ Len(Tail(q)) = Len(q) - 1 /\ 1 \in 1 .. Len(q)
                        /\ \A i \in 1 .. Len(Tail(q)) : i + 1 \in 1 .. Len(q) /\ Tail(q)[i] = q[i + 1]
         /\ Len(Append(q, n)) = Len(q) + 1
         /\ \A i \in 1 .. Len(q) : Append(q, n)[i] = q[i]
         /\ Append(q, n)[Len(q) + 1] = n
         /\ \A i \in 1 .. Len(Append(q, n)) : i \in 1 .. Len(q) \/ i = Len(q) + 1
<1>1. Len(q) \in Nat
  OBVIOUS
<1>2. q # <<>> => /\ Len(Tail(q)) = Len(q) - 1 /\ 1 \in 1 .. Len(q)
                  /\ \A i \in 1 .. Len(Tail(q)) : i + 1 \in 1 .. Len(q) /\ Tail(q)[i] = q[i + 1]
  OBVIOUS
<1>3. Len(Append(q, n)) = Len(q) + 1
  OBVIOUS
<1>4. (\A i \in 1 .. Len(q) : Append(q, n)[i] = q[i]) /\ Append(q, n)[Len(q) + 1] = n
  OBVIOUS
<1>5. QED
  BY <1>1, <1>2, <1>3, <1>4

\* A route is over a link that is there, and what it holds its session made.
LEMMA CodedStep ==
  ASSUME Goes, PanesNext, NEW g \in feeds'
  PROVE  Coded(g)'
<1>0. /\ Typed /\ Typed' /\ Named /\ Named' /\ LinksGo /\ HostGoes /\ SesGoes /\ OneUp /\ Routes /\ Carries /\ Reached
      /\ Placed' /\ Hosted' /\ (host'.boot = host.boot => Len(host'.ses) >= Len(host.ses))
  BY DEF Goes, Inv, Flow
<1>n. /\ Len(links) \in Nat /\ Len(links') \in Nat /\ Len(links') >= Len(links)
      /\ host.boot \in Nat /\ host'.boot \in Nat /\ Len(host.ses) \in Nat /\ Len(host'.ses) \in Nat
  BY <1>0 DEF Typed, NetTyped, LinksGo, HostTyped, HostState
<1>k. \A l \in 1 .. Len(links) : /\ l \in 1 .. Len(links') /\ links'[l].boot = links[l].boot
                                 /\ links'[l].boot = host'.boot => host'.boot = host.boot /\ links[l].boot = host.boot
  <2>1. ASSUME NEW l \in 1 .. Len(links) PROVE links'[l].boot = links[l].boot /\ links[l].boot \in 1 .. host.boot
    BY <1>0 DEF LinksGo, Reached, BootOf
  <2>2. host'.boot >= host.boot
    BY <1>0, <1>n DEF HostGoes
  <2>3. QED
    BY <1>n, <2>1, <2>2
<1>o. ASSUME host'.boot = host.boot, NEW id \in 1 .. Len(host.ses)
      PROVE  /\ id \in 1 .. Len(host'.ses) /\ host.ses[id].out \in Nat /\ host'.ses[id].out \in Nat
             /\ host'.ses[id].out >= host.ses[id].out
  <2>1. id \in 1 .. Len(host'.ses)
    BY <1>0, <1>n, <1>o
  <2>2. host.ses[id] \in SessionState /\ host'.ses[id] \in SessionState
    BY <1>0, <2>1 DEF Typed, HostTyped, HostState
  <2>3. QED
    BY <1>0, <1>o, <2>1, <2>2 DEF SessionState, SesGoes
<1>1. g \in Feed
  BY RouteFrom
<1>2. ASSUME NEW f \in feeds, f \in Feed, g.l = f.l, g.ses = f.ses, g.state # "ended" => links'[g.l].up,
             \A i \in 1 .. Len(g.q) : (\E k \in 1 .. Len(f.q) : g.q[i] = f.q[k]) \/ g.q[i] = None
                                      \/ (f.ses \in 1 .. Len(host.ses) => g.q[i] <= host.ses[f.ses].out)
      PROVE  Coded(g)'
  <2>1. Coded(f)
    BY <1>0 DEF Routes
  <2>2. g.l \in 1 .. Len(links) /\ g.l \in 1 .. Len(links')
    BY <1>2, <1>k, <2>1 DEF Coded
  <2>3. ASSUME links'[g.l].boot = host'.boot
        PROVE  g.ses \in 1 .. Len(host'.ses) /\ \A i \in 1 .. Len(g.q) : g.q[i] <= host'.ses[g.ses].out
    <3>1. host'.boot = host.boot /\ links[g.l].boot = host.boot
      BY <1>k, <2>2, <2>3
    <3>2. f.ses \in 1 .. Len(host.ses) /\ \A i \in 1 .. Len(f.q) : f.q[i] <= host.ses[f.ses].out
      BY <1>2, <2>1, <3>1 DEF Coded, BootOf
    <3>3. /\ g.ses \in 1 .. Len(host'.ses) /\ host.ses[f.ses].out \in Nat /\ host'.ses[f.ses].out \in Nat
          /\ host'.ses[f.ses].out >= host.ses[f.ses].out
      BY <1>2, <1>o, <3>1, <3>2
    <3>4. ASSUME NEW i \in 1 .. Len(g.q) PROVE g.q[i] <= host'.ses[g.ses].out
      <4>1. g.q[i] \in Nat
        BY <1>1 DEF Feed
      <4>2. g.q[i] <= host.ses[f.ses].out
        <5>1. CASE g.q[i] = None
          BY <3>3, <5>1 DEF None
        <5>2. QED
          BY <1>2, <3>2, <5>1
      <4>3. QED
        BY <1>2, <3>3, <4>1, <4>2
    <3>5. QED
      BY <3>3, <3>4
  <2>4. QED
    BY <1>2, <2>2, <2>3 DEF Coded, BootOf
<1>3. ASSUME ReadsNone, RouteGoes(g) PROVE Coded(g)'
  <2>1. g.state # "ended" => links'[g.l].up
    BY <1>3, RoutesUp
  <2>2. CASE Arises(g)
    <3>1. g.pane \in Panes /\ bind'[g.pane].at = "attaching" /\ g.l = bind'[g.pane].l /\ g.ses = bind'[g.pane].ses
          /\ g.q = <<>>
      BY <2>2 DEF Arises
    <3>2. g.l \in 1 .. Len(links')
      BY <1>0, <3>1 DEF Named
    <3>3. InBoot(links[g.l].boot, g.ses)'
      <4>1. /\ pane'[g.pane].remote # None /\ g.ses = pane'[g.pane].remote
            /\ pane'[g.pane].boot = links'[g.l].boot
        BY <1>0, <3>1 DEF Placed, Attaching, BootOf
      <4>2. InBoot(pane[g.pane].boot, pane[g.pane].remote)'
        BY <1>0, <3>1, <4>1 DEF Hosted
      <4>3. QED
        BY <4>1, <4>2 DEF InBoot
    <3>4. QED
      BY <2>1, <3>1, <3>2, <3>3 DEF Coded, BootOf, InBoot
  <2>3. ASSUME NEW f \in feeds, Stands(f, g) \/ Drained(f, g) \/ Enters(f, g) PROVE Coded(g)'
    <3>1. f \in Feed
      BY <1>0 DEF Typed, NetTyped
    <3>2. g.l = f.l /\ g.ses = f.ses /\ (g.q = f.q \/ (g.q = Tail(f.q) /\ f.q # <<>>)) /\ f.q \in Seq(Nat)
      BY <1>1, <2>3, <3>1, RouteParts
    <3>3. \A i \in 1 .. Len(g.q) : \E k \in 1 .. Len(f.q) : g.q[i] = f.q[k]
      <4>1. \A n \in Nat : f.q # <<>> =>
              \A i \in 1 .. Len(Tail(f.q)) : i + 1 \in 1 .. Len(f.q) /\ Tail(f.q)[i] = f.q[i + 1]
        BY <3>2, QueueParts
      <4>2. QED
        BY <3>2, <4>1
    <3>4. QED
      BY <1>2, <2>1, <3>1, <3>2, <3>3
  <2>4. QED
    BY <1>3, <2>2, <2>3 DEF RouteGoes
<1>4. ASSUME NEW l \in 1 .. Len(links), Reads(l), NEW f \in feeds, f \in Feed, ReadsTo(l, f,
    g) PROVE Coded(g)'
  <2> DEFINE frame == Head(links[l].wire)
  <2>1. g.l = f.l /\ g.ses = f.ses
    BY <1>4 DEF ReadsTo
  <2>2. Coded(f)
    BY <1>0 DEF Routes
  <2>3. frame = links[l].wire[1] /\ frame \in Frame /\ 1 \in 1 .. Len(links[l].wire)
    <3>1. links[l].wire \in Seq(Frame) /\ links[l].wire # <<>>
      BY <1>0, <1>4, ReadsFacts
    <3>2. QED
      BY <3>1
  <2>4. frame.kind = "data" => (frame.ses \in 1 .. Len(host.ses) => frame.n <= host.ses[frame.ses].out)
    <3>1. Written(frame)
      BY <1>0, <2>3 DEF Carries
    <3>2. QED
      BY <3>1 DEF Written
  <2>5. frame.n \in Nat
    BY <2>3 DEF Frame
  <2> HIDE DEF frame
  <2>6. g.state # "ended" => links'[g.l].up
    <3>1. ~Deadly /\ (\E k \in 1 .. Len(links) : links'[k].up)
      <4>1. links'[l].up
        BY <1>0, <1>4, ReadsFacts
      <4>2. QED
        BY <1>0, <4>1, DeadFacts DEF Deadly
    <3>2. \A k \in 1 .. Len(links) : links'[k].up = links[k].up
      BY <3>1, UpKept
    <3>3. g.state # "ended" => f.state # "ended"
      BY <1>4 DEF ReadsTo
    <3>4. QED
      BY <2>1, <2>2, <3>2, <3>3 DEF Coded
  <2>7. \/ g.q = f.q
        \/ g.q = Append(f.q, None)
        \/ g.q = Append(f.q, frame.n) /\ frame.kind = "data" /\ f.ses = frame.ses
    BY <1>4 DEF ReadsTo, Fits, frame
  <2>8. f.q \in Seq(Nat) /\ None \in Nat
    BY <1>4 DEF Feed, None
  <2>9. \A i \in 1 .. Len(g.q) : (\E k \in 1 .. Len(f.q) : g.q[i] = f.q[k]) \/ g.q[i] = None
                                 \/ (f.ses \in 1 .. Len(host.ses) => g.q[i] <= host.ses[f.ses].out)
    <3>1. \A n \in Nat : /\ \A i \in 1 .. Len(f.q) : Append(f.q, n)[i] = f.q[i]
                         /\ Append(f.q, n)[Len(f.q) + 1] = n
                         /\ \A i \in 1 .. Len(Append(f.q, n)) : i \in 1 .. Len(f.q) \/ i = Len(f.q) + 1
      BY <2>8, QueueParts
    <3>2. ASSUME NEW n \in Nat, g.q = Append(f.q, n), NEW i \in 1 .. Len(g.q)
          PROVE  (\E k \in 1 .. Len(f.q) : g.q[i] = f.q[k]) \/ g.q[i] = n
      <4>1. i \in 1 .. Len(Append(f.q, n))
        BY <3>2
      <4>2. i \in 1 .. Len(f.q) \/ i = Len(f.q) + 1
        BY <3>1, <4>1
      <4>3. QED
        BY <3>1, <3>2, <4>2
    <3>3. CASE g.q = f.q
      BY <3>3
    <3>4. CASE g.q = Append(f.q, None)
      BY <2>8, <3>2, <3>4
    <3>5. CASE g.q = Append(f.q, frame.n) /\ frame.kind = "data" /\ f.ses = frame.ses
      <4>1. f.ses \in 1 .. Len(host.ses) => frame.n <= host.ses[f.ses].out
        BY <2>4, <3>5
      <4>2. \A i \in 1 .. Len(g.q) : (\E k \in 1 .. Len(f.q) : g.q[i] = f.q[k]) \/ g.q[i] = frame.n
        BY <2>5, <3>2, <3>5
      <4>3. QED
        BY <4>1, <4>2
    <3>6. QED
      BY <2>7, <3>3, <3>4, <3>5
  <2>10. QED
    BY <1>2, <1>4, <2>1, <2>6, <2>9
<1>5. QED
  BY <1>3, <1>4, RouteFrom

\* The route of an attach under way is its link's and its session's, and takes output once it was answered.
LEMMA PendingStep ==
  ASSUME Goes, PanesNext, NEW g \in feeds'
  PROVE  Pending(g)'
<1>0. /\ Typed /\ Typed' /\ Unmade /\ Keyed /\ Keyed' /\ Routes /\ Carries
      /\ \A p \in Panes : Flows(p)
  BY DEF Goes, Inv, Flow
<1>1. g \in Feed
  BY RouteFrom
<1> DEFINE p == g.pane
           b == bind'[p]
<1>p. p \in Panes
  BY <1>1 DEF Feed
<1>2. SUFFICES ASSUME g.gen = 0
               PROVE  /\ g.l = b.l /\ g.ses = b.ses
                      /\ b.at \in {"attaching", "answering"} => g.state # "live" /\ g.q = <<>>
                      /\ b.at = "attached" => g.state # "pending"
  BY DEF Pending
<1>3. b.at \in Attaching
  BY <1>0, <1>2 DEF Keyed
<1>k. "attaching" # "attached" /\ "attached" # "gone" /\ "live" # "pending" /\ "ended" # "live" /\ "ended" # "pending"
      /\ "answering" # "attached" /\ "gone" # "answering" /\ "gone" # "attaching" /\ "data" \notin {"attached", "gone"}
      /\ "exit" \notin {"attached", "gone"} /\ "exit" # "data"
  OBVIOUS
<1>4. ASSUME NEW f \in feeds, f \in Feed, f.pane = p, f.gen = 0
      PROVE  /\ bind[p].at \in Attaching
             /\ f.l = bind[p].l /\ f.ses = bind[p].ses
             /\ bind[p].at \in {"attaching", "answering"} => f.state # "live" /\ f.q = <<>>
             /\ bind[p].at = "attached" => f.state # "pending"
  <2>1. bind[p].at \in Attaching
    BY <1>0, <1>4 DEF Keyed
  <2>2. Pending(f)
    BY <1>0 DEF Routes
  <2>3. QED
    BY <1>4, <2>1, <2>2 DEF Pending
<1>5. ASSUME ReadsNone, RouteGoes(g)
      PROVE  /\ g.l = b.l /\ g.ses = b.ses
             /\ b.at \in {"attaching", "answering"} => g.state # "live" /\ g.q = <<>>
             /\ b.at = "attached" => g.state # "pending"
  <2>1. CASE Arises(g)
    BY <1>k, <2>1 DEF Arises
  <2>2. ASSUME NEW f \in feeds, Stands(f, g) \/ Drained(f, g) \/ Enters(f, g)
        PROVE  /\ g.l = b.l /\ g.ses = b.ses
               /\ b.at \in {"attaching", "answering"} => g.state # "live" /\ g.q = <<>>
               /\ b.at = "attached" => g.state # "pending"
    <3>1. f \in Feed
      BY <1>0 DEF Typed, NetTyped
    <3>2. ~Drained(f, g)
      BY <1>1, <1>2, <3>1, RouteParts
    <3>3. ~Enters(f, g)
      <4>1. SUFFICES ASSUME Enters(f, g) PROVE FALSE
        OBVIOUS
      <4>2. Attached(f.pane) /\ f.pane \in Panes /\ pane'[f.pane].gen = 0
        BY <1>1, <1>2, <3>1, <4>1, RouteParts
      <4>3. pane'[f.pane].gen = pane[f.pane].gen + 1 /\ pane[f.pane].gen \in Nat
        <5>1. pane[f.pane] \in PaneState
          BY <1>0, <4>2 DEF Typed, PanesTyped
        <5>2. QED
          BY <1>0, <4>2, <5>1, AttachedFacts, PaneFields
      <4>4. QED
        BY <4>2, <4>3
    <3>4. Stands(f, g)
      BY <2>2, <3>2, <3>3
    <3>5. /\ f.pane = p /\ f.gen = 0 /\ g.l = f.l /\ g.ses = f.ses /\ g.q = f.q
          /\ g.state \in {f.state, "ended"}
      BY <1>1, <1>2, <3>1, <3>4, RouteParts
    <3> HIDE DEF p, b
    <3>6. /\ bind[p].at \in Attaching /\ f.l = bind[p].l /\ f.ses = bind[p].ses
          /\ bind[p].at \in {"attaching", "answering"} => f.state # "live" /\ f.q = <<>>
          /\ bind[p].at = "attached" => f.state # "pending"
      BY <1>4, <3>1, <3>5
    <3>7. /\ b.l = bind[p].l /\ b.ses = bind[p].ses
          /\ \/ b = bind[p]
             \/ bind[p].at = "attaching" /\ b.at = "answering"
             \/ \E l \in DOMAIN links : Reads(l)
      BY <1>0, <1>3, <1>p, <3>6, AttachGoes DEF b
    <3>8. QED
      BY <1>5, <1>k, <3>5, <3>6, <3>7 DEF ReadsNone
  <2>3. QED
    BY <1>5, <2>1, <2>2 DEF RouteGoes
<1>6. ASSUME NEW l \in 1 .. Len(links), Reads(l), NEW f \in feeds, f \in Feed, ReadsTo(l, f, g)
      PROVE  /\ g.l = b.l /\ g.ses = b.ses
             /\ b.at \in {"attaching", "answering"} => g.state # "live" /\ g.q = <<>>
             /\ b.at = "attached" => g.state # "pending"
  <2> DEFINE frame == Head(links[l].wire)
  <2>1. f.pane = p /\ f.gen = 0 /\ g.l = f.l /\ g.ses = f.ses
    BY <1>2, <1>6 DEF ReadsTo
  <2>2. /\ bind[p].at \in Attaching /\ f.l = bind[p].l /\ f.ses = bind[p].ses
        /\ bind[p].at \in {"attaching", "answering"} => f.state # "live" /\ f.q = <<>>
        /\ bind[p].at = "attached" => f.state # "pending"
    BY <1>4, <1>6, <2>1
  <2>3. /\ \/ b = bind[p]
           \/ /\ frame.kind \in {"attached",
               "gone"} /\ frame.n = p /\ bind[p].at = "answering" /\ bind[p].l = l
              /\ b.at = frame.kind /\ b.l = bind[p].l /\ b.ses = bind[p].ses
        /\ frame.kind \in {"attached", "gone"} /\ frame.n = p /\ bind[p].at = "answering" /\ bind[p].l = l
             => b.at = frame.kind
    BY <1>0, <1>6, <1>p, TurnsRead
  <2>4. frame.kind \in {"attached", "gone"} /\ frame.n = p =>
          bind[p].at = "answering" /\ bind[p].l = l /\ frame.ses = bind[p].ses
    <3>1. frame = links[l].wire[1] /\ 1 \in 1 .. Len(links[l].wire)
      <4>1. links[l].wire \in Seq(Frame) /\ links[l].wire # <<>>
        BY <1>0, <1>6, ReadsFacts
      <4>2. QED
        BY <4>1
    <3>2. Answered(l, frame)
      BY <1>0, <3>1 DEF Carries
    <3>3. QED
      BY <3>2 DEF Answered
  <2>5. \/ g = f /\ ~(Fits(f, l, frame) /\ frame.kind = "attached" /\ p = frame.n /\ f.state = "pending")
        \/ f.state = "live" /\ g.state \in {"live", "ended"}
        \/ /\ frame.kind \in {"attached", "gone"} /\ p = frame.n /\ f.state = "pending"
           /\ g.state \in {"live", "ended"}
    BY <1>6, <2>1 DEF ReadsTo
  <2> HIDE DEF frame, p, b
  <2>6. g.l = b.l /\ g.ses = b.ses
    BY <2>1, <2>2, <2>3
  <2>7. CASE b = bind[p]
    <3>1. ~(frame.kind \in {"attached", "gone"} /\ frame.n = p)
      BY <1>k, <2>3, <2>4, <2>7
    <3>2. g = f \/ (f.state = "live" /\ g.state \in {"live", "ended"})
      BY <2>5, <3>1
    <3>3. b.at \in {"attaching", "answering"} => g.state # "live" /\ g.q = <<>>
      BY <1>k, <2>2, <2>7, <3>2
    <3>4. b.at = "attached" => g.state # "pending"
      BY <1>k, <2>2, <2>7, <3>2
    <3>5. QED
      BY <2>6, <3>3, <3>4
  <2>8. CASE frame.kind \in {"attached", "gone"} /\ frame.n = p /\ b.at = frame.kind
    <3>1. b.at \notin {"attaching", "answering"}
      BY <1>k, <2>8
    <3>2. b.at = "attached" => g.state # "pending"
      <4>1. SUFFICES ASSUME frame.kind = "attached" PROVE g.state # "pending"
        BY <2>8
      <4>2. Fits(f, l, frame)
        BY <2>2, <2>4, <2>8 DEF Fits
      <4>3. QED
        BY <1>k, <2>5, <2>8, <4>1, <4>2
    <3>3. QED
      BY <2>6, <3>1, <3>2
  <2>9. QED
    BY <2>3, <2>7, <2>8
<1>7. QED
  BY <1>5, <1>6, RouteFrom

\* A route that is in force was, and its pane is about the same.
LEMMA ForceWas ==
  ASSUME Goes, NEW f \in feeds, f \in Feed, NEW gen, gen = f.gen, gen # 0, gen = pane'[f.pane].gen
  PROVE  LET q == f.pane IN
         /\ q \in Panes /\ pane[q].born /\ InForce(f) /\ pane'[q].gen = pane[q].gen
         /\ pane'[q].view = pane[q].view
         /\ pane'[q].in => pane[q].in
         /\ pane[q].remote # None => ~Takes(q) /\ pane'[q].remote = pane[q].remote /\ pane'[q].boot = pane[q].boot
         /\ ~Retargets(q) /\ ~Attached(q) /\ ~Starts(q)
<1>0. /\ Typed /\ Unmade /\ Keyed /\ Placed /\ \A p \in Panes : Flows(p)
  BY DEF Goes, Inv, Flow
<1> DEFINE q == f.pane
<1>1. q \in Panes /\ f.gen \in Nat /\ f.gen <= pane[q].gen
  BY <1>0 DEF Feed, Keyed
<1>2. pane[q].gen \in Nat /\ pane'[q].gen >= pane[q].gen
  BY <1>0, <1>1, GenGoes
<1>3. pane[q].gen = f.gen /\ pane'[q].gen = pane[q].gen /\ pane[q].gen # 0
  <2>1. pane'[q].gen \in Nat
    BY <1>1
  <2>2. QED
    BY <1>1, <1>2, <2>1
<1>4. pane[q].born
  BY <1>0, <1>1, <1>3, UnmadeFacts
<1>5. /\ pane'[q].view = pane[q].view
      /\ pane'[q].in => pane[q].in
      /\ Takes(q) \/ (pane'[q].remote = pane[q].remote /\ pane'[q].boot = pane[q].boot)
      /\ Takes(q) => bind[q].at \in Seeking
  BY <1>0, <1>1, <1>3, <1>4, GenGoes
<1>6. pane[q].remote # None => ~Takes(q)
  BY <1>0, <1>1, <1>5 DEF Placed
<1>7. ~Retargets(q)
  BY <1>2, <1>3 DEF Retargets, Turned
<1>8. ~Attached(q)
  BY <1>0, <1>1, <1>2, <1>3, AttachedFacts
<1>9. ~Starts(q)
  BY <1>4 DEF Starts, Made
<1>10. QED
  BY <1>1, <1>3, <1>4, <1>5, <1>6, <1>7, <1>8, <1>9 DEF InForce

\* While its route lives nobody else takes the pane's turn to attach, and its pane knows of its link.
LEMMA PumpingStays ==
  ASSUME Goes, PanesNext, NEW f \in feeds, f \in Feed, InForce(f), NEW g \in feeds', g \in Feed,
         g.pane = f.pane, g.gen = f.gen, g.l = f.l, g.ses = f.ses, f.state = "ended" => g.state = "ended",
         f.state # "pending" => g.state # "pending",
         pane'[f.pane].gen = f.gen, pane'[f.pane].in
  PROVE  Pumping(g)'
<1>0. /\ Typed /\ Unmade /\ Routes /\ Leaving /\ LinksGo /\ Named /\ \A p \in Panes : Flows(p)
  BY DEF Goes, Inv, Flow
<1> DEFINE q == f.pane
<1>1. f.gen # 0 /\ f.gen = pane[q].gen
  BY DEF InForce
<1>2. /\ q \in Panes /\ pane[q].born /\ pane'[q].gen = pane[q].gen
      /\ pane'[q].view = pane[q].view
      /\ pane'[q].in => pane[q].in
      /\ pane[q].remote # None => ~Takes(q) /\ pane'[q].remote = pane[q].remote /\ pane'[q].boot = pane[q].boot
      /\ ~Retargets(q) /\ ~Attached(q) /\ ~Starts(q)
  BY <1>1, ForceWas
<1>3. Coded(f) /\ Pumping(f)
  BY <1>0 DEF Routes
<1>4. /\ f.state # "pending" /\ pane[q].view
      /\ pane[q].remote # None /\ f.ses = pane[q].remote /\ BootOf(f.l) = pane[q].boot
      /\ f.state # "ended" => pane[q].on = f.l /\ bind[q].at \notin Attaching
      /\ bind[q].at # "detaching"
  BY <1>2, <1>3 DEF Pumping
<1>5. f.l \in 1 .. Len(links) /\ (f.state # "ended" => links[f.l].up)
  BY <1>3 DEF Coded
<1>6. links'[f.l].boot = links[f.l].boot /\ f.l # None
  BY <1>0, <1>5, RestingAt DEF LinksGo, Typed, NetTyped
<1> HIDE DEF q
<1>l. f.state # "ended" => Live(q)
  BY <1>4, <1>5, <1>6 DEF Live, Up
<1>7. /\ f.state # "ended" => pane'[q].on = f.l /\ bind'[q].at \notin Attaching
      /\ bind'[q].at # "detaching"
  <2>1. CASE Stays(q)
    <3>1. pane'[q].on = pane[q].on \/ ~Live(q)
      <4>1. OnKept(q)
        BY <2>1 DEF Stays
      <4>2. ~ \A h \in feeds' : h.pane = q => h.gen # pane[q].gen
        BY <1>1 DEF q
      <4>3. QED
        BY <4>1, <4>2 DEF OnKept, q
    <3>2. bind'[q] \in {bind[q], Resting}
      BY <2>1 DEF Stays
    <3>3. Resting.at \notin Attaching /\ Resting.at # "detaching"
      BY DEF Resting, Attaching
    <3>4. QED
      BY <1>4, <1>l, <3>1, <3>2, <3>3
  <2>2. CASE Moves(q)
    <3>1. pane'[q] = pane[q] /\ bind'[q].at # "detaching"
      BY <2>2 DEF Moves
    <3>2. bind[q].at \notin Attaching => bind'[q].at \notin Attaching
      BY <2>2 DEF Moves, Attaching
    <3>3. QED
      BY <1>4, <3>1, <3>2
  <2>3. CASE BeginsBind(q)
    <3>1. ~Live(q) /\ bind'[q].at # "detaching"
      BY <2>3 DEF BeginsBind
    <3>2. QED
      BY <1>l, <3>1
  <2>4. CASE BeginsDetach(q)
    <3>1. PICK t \in queue : t.who = "hide" /\ t.pane = q /\ t.gen = pane[q].gen
      BY <2>4 DEF BeginsDetach
    <3>2. LeavesOf(t)
      BY <1>0 DEF Leaving
    <3>3. QED
      BY <1>4, <3>1, <3>2 DEF LeavesOf
  <2>5. ASSUME NEW h \in feeds, h.pane = q, Forwards(h)
        PROVE  pane'[q].on = pane[q].on /\ bind'[q] = bind[q]
    BY <1>0, <2>5, ForwardsFacts
  <2>6. ~Takes(q)
    BY <1>2, <1>4 DEF q
  <2>7. Flows(q)
    BY <1>0, <1>2 DEF q
  <2>8. ~Retargets(q) /\ ~Attached(q) /\ ~Starts(q)
    BY <1>2 DEF q
  <2>9. QED
    BY <1>4, <2>1, <2>2, <2>3, <2>4, <2>5, <2>6, <2>7, <2>8 DEF Flows
<1>8. /\ g.state # "pending" /\ pane'[q].view /\ pane'[q].remote # None /\ g.ses = pane'[q].remote
      /\ links'[g.l].boot = pane'[q].boot
  BY <1>2, <1>4, <1>6 DEF BootOf, q
<1>9. g.pane = q
  BY DEF q
<1>10. QED
  BY <1>7, <1>8, <1>9 DEF Pumping, BootOf

\* A route that is in force is of a pane that shows its session, and its pump alone feeds the view.
LEMMA PumpingStep ==
  ASSUME Goes, PanesNext, NEW g \in feeds'
  PROVE  Pumping(g)'
<1>0. /\ Typed /\ Typed' /\ Unmade /\ Keyed /\ Keyed' /\ Routes /\ Turns /\ Placed /\ LinksGo /\ Named
  BY DEF Goes, Inv, Flow
<1>1. g \in Feed
  BY RouteFrom
<1>2. SUFFICES ASSUME g.gen # 0, g.gen = pane'[g.pane].gen, pane'[g.pane].in PROVE Pumping(g)'
  BY DEF Pumping, InForce
<1>3. ASSUME NEW f \in feeds, f \in Feed, g.pane = f.pane, g.gen = f.gen, g.l = f.l, g.ses = f.ses,
             f.state = "ended" => g.state = "ended", f.state # "pending" => g.state # "pending"
      PROVE  Pumping(g)'
  <2>1. InForce(f)
    BY <1>2, <1>3, ForceWas
  <2>2. QED
    BY <1>1, <1>2, <1>3, <2>1, PumpingStays
<1>4. ASSUME ReadsNone, RouteGoes(g) PROVE Pumping(g)'
  <2>1. ~Arises(g)
    BY <1>2 DEF Arises
  <2>2. PICK f \in feeds : Stands(f, g) \/ Drained(f, g) \/ Enters(f, g)
    BY <1>4, <2>1 DEF RouteGoes
  <2>3. f \in Feed
    BY <1>0 DEF Typed, NetTyped
  <2>4. CASE Stands(f, g)
    <3>1. /\ g.pane = f.pane /\ g.gen = f.gen /\ g.l = f.l /\ g.ses = f.ses /\ g.state \in {f.state, "ended"}
      BY <1>1, <2>3, <2>4, RouteParts
    <3>2. QED
      BY <1>3, <2>3, <3>1
  <2>5. CASE Drained(f, g)
    <3>1. /\ g.pane = f.pane /\ g.gen = f.gen /\ g.l = f.l /\ g.ses = f.ses /\ g.state = f.state
      BY <1>1, <2>3, <2>5, RouteParts
    <3>2. QED
      BY <1>3, <2>3, <3>1
  <2>6. CASE Enters(f, g)
    <3> DEFINE p == f.pane
    <3>1. /\ g.pane = p /\ g.l = f.l /\ g.ses = f.ses /\ g.state = f.state /\ f.gen = 0 /\ Attached(p) /\ p \in Panes
      BY <1>1, <2>3, <2>6, RouteParts
    <3> HIDE DEF p
    <3>2. /\ bind[p].at = "attached" /\ bind[p].gen = pane[p].gen /\ bind'[p] = Resting
          /\ pane'[p].on = bind[p].l /\ pane'[p].in = pane[p].in /\ pane'[p].view = pane[p].view
          /\ pane'[p].remote = pane[p].remote /\ pane'[p].boot = pane[p].boot
      BY <1>0, <3>1, AttachedFacts
    <3>3. f.l = bind[p].l /\ f.ses = bind[p].ses /\ f.state # "pending"
      BY <1>0, <3>1, <3>2 DEF Routes, Pending, p
    <3>4. pane[p].view
      <4>1. TurnOf(p)
        BY <1>0, <3>1 DEF Turns
      <4>2. pane[p].in
        BY <1>2, <3>1, <3>2
      <4>3. QED
        BY <3>2, <4>1, <4>2 DEF TurnOf, Wanting, Attaching
    <3>5. pane[p].remote # None /\ bind[p].ses = pane[p].remote /\ pane[p].boot = BootOf(bind[p].l)
      BY <1>0, <3>1, <3>2 DEF Placed, Attaching
    <3>6. bind[p].l \in 1 .. Len(links)
      BY <1>0, <3>1, <3>2 DEF Named
    <3>7. links'[g.l].boot = pane'[p].boot
      BY <1>0, <3>1, <3>2, <3>3, <3>5, <3>6 DEF LinksGo, BootOf
    <3>8. bind'[p].at \notin Attaching /\ bind'[p].at # "detaching"
      BY <3>2 DEF Resting, Attaching
    <3>9. QED
      BY <3>1, <3>2, <3>3, <3>4, <3>5, <3>7, <3>8 DEF Pumping, BootOf
  <2>7. QED
    BY <2>2, <2>4, <2>5, <2>6
<1>5. ASSUME NEW l \in 1 .. Len(links), Reads(l), NEW f \in feeds, f \in Feed, ReadsTo(l, f,
    g) PROVE Pumping(g)'
  <2>1. g.pane = f.pane /\ g.gen = f.gen /\ g.l = f.l /\ g.ses = f.ses
    BY <1>5 DEF ReadsTo
  <2>2. (f.state = "ended" => g.state = "ended") /\ (f.state # "pending" => g.state # "pending")
    BY <1>5 DEF ReadsTo
  <2>3. QED
    BY <1>3, <1>5, <2>1, <2>2
<1>6. QED
  BY <1>4, <1>5, RouteFrom

\* So the routes keep what they are known for.
LEMMA RoutesStep ==
  ASSUME Goes, PanesNext
  PROVE  Routes'
BY CodedStep, PendingStep, PumpingStep DEF Routes

-----------------------------------------------------------------------------
\* The turns and the views.

\* The pump that hands on a chunk is in force, of a pane that shows its session.
LEMMA ForwardsForce ==
  ASSUME Goes, NEW f \in feeds, Forwards(f)
  PROVE  LET p == f.pane IN
         /\ p \in Panes /\ f \in Feed /\ InForce(f) /\ pane[p].born
         /\ pane[p].in => /\ pane[p].view /\ pane[p].remote # None /\ f.ses = pane[p].remote
                          /\ BootOf(f.l) = pane[p].boot /\ bind[p].at \notin Seeking
<1>0. /\ Typed /\ Unmade /\ Routes /\ Placed
  BY DEF Goes, Inv, Flow
<1> DEFINE p == f.pane
<1>1. p \in Panes /\ f.gen # 0 /\ f.gen = pane[p].gen /\ f \in Feed
  <2>1. f \in Feed
    BY <1>0 DEF Typed, NetTyped
  <2>2. QED
    BY <1>0, <2>1, ForwardsFacts
<1>2. InForce(f)
  BY <1>1 DEF InForce
<1>3. pane[p].born
  BY <1>0, <1>1, UnmadeFacts
<1>4. pane[p].in => /\ pane[p].view /\ pane[p].remote # None /\ f.ses = pane[p].remote
                    /\ BootOf(f.l) = pane[p].boot
  BY <1>0, <1>2 DEF Routes, Pumping
<1>5. pane[p].in => bind[p].at \notin Seeking
  BY <1>0, <1>1, <1>4 DEF Placed
<1>6. QED
  BY <1>1, <1>2, <1>3, <1>4, <1>5

\* A turn that a pane waits for hands its view what follows, or what it is known to repeat.
LEMMA TurnsStep ==
  ASSUME Goes, PanesNext
  PROVE  Turns'
<1>0. /\ Typed /\ Typed' /\ Unmade /\ Turns /\ Guarded /\ \A q \in Panes : Flows(q)
  BY DEF Goes, Inv, Flow
<1>r. Resting.at = "idle" /\ Resting.at \notin Attaching /\ Resting.at \notin Wanting
  BY DEF Resting, Attaching, Wanting
<1>1. SUFFICES ASSUME NEW p \in Panes PROVE TurnOf(p)'
  BY DEF Turns
<1> DEFINE a == bind[p]
           b == bind'[p]
           s == pane[p]
           t == pane'[p]
<1>2. /\ a.at \in Attaching => ~a.closing
      /\ a.at # "idle" => a.gen <= s.gen
      /\ s.in /\ a.at \in Wanting /\ a.gen = s.gen /\ ~a.closing =>
           s.view /\ a.from <= s.anchor /\ (a.from < s.anchor => seen[p].replayed)
  BY <1>0 DEF Turns, TurnOf
<1>3. SUFFICES /\ b.at \in Attaching => ~b.closing
               /\ b.at # "idle" => b.gen <= t.gen
               /\ t.in /\ b.at \in Wanting /\ b.gen = t.gen /\ ~b.closing =>
                    t.view /\ b.from <= t.anchor /\ (b.from < t.anchor => seen'[p].replayed)
  BY DEF TurnOf
<1>4. a \in Turn /\ b \in Turn /\ s \in PaneState /\ t \in PaneState
  BY <1>0 DEF Typed, PanesTyped
<1>5. /\ a.gen \in Nat /\ b.gen \in Nat /\ s.gen \in Nat /\ t.gen \in Nat
      /\ a.from \in Int /\ b.from \in Int /\ s.anchor \in Int /\ t.anchor \in Int
  BY <1>4, PaneFields, TurnFields
<1>6. ASSUME Kept(s, t), SeenKept(p), b \in {a, Resting}
      PROVE  /\ b.at \in Attaching => ~b.closing
             /\ b.at # "idle" => b.gen <= t.gen
             /\ t.in /\ b.at \in Wanting /\ b.gen = t.gen /\ ~b.closing =>
                  t.view /\ b.from <= t.anchor /\ (b.from < t.anchor => seen'[p].replayed)
  BY <1>2, <1>6, <1>r DEF Kept, SeenKept
<1>7. CASE Stays(p)
  BY <1>6, <1>7 DEF Stays
<1>8. CASE Moves(p)
  <2>1. t = s /\ SeenKept(p) /\ TurnKept(a, b)
    BY <1>8 DEF Moves
  <2>2. b.at \in Attaching => a.at \in Attaching
    BY <1>8 DEF Moves, Attaching
  <2>3. b.at \in Wanting => a.at \in Wanting
    BY <1>8 DEF Moves, Wanting
  <2>4. a.at # "idle"
    BY <1>8 DEF Moves
  <2>5. QED
    BY <1>2, <2>1, <2>2, <2>3, <2>4 DEF TurnKept, SeenKept
<1>9. CASE BeginsBind(p)
  <2>1. /\ Kept(s, t) /\ b.gen = s.gen /\ b.from = s.anchor /\ (b.closing \/ s.view)
        /\ b.at = "attaching" => ~b.closing
        /\ b.at \in {"attaching", "closing", "finding", "locking"}
    BY <1>9 DEF BeginsBind
  <2>2. t.view = s.view /\ t.anchor = s.anchor /\ t.gen = s.gen
    BY <2>1 DEF Kept
  <2>3. b.at \in Attaching => b.at = "attaching"
    BY <2>1 DEF Attaching
  <2>4. QED
    BY <1>5, <2>1, <2>2, <2>3
<1>10. CASE BeginsDetach(p)
  <2>1. b.at = "detaching" /\ b.gen = 0
    BY <1>10 DEF BeginsDetach
  <2>2. b.at \notin Attaching /\ b.at \notin Wanting
    BY <2>1 DEF Attaching, Wanting
  <2>3. QED
    BY <1>5, <2>1, <2>2
<1>11. CASE Retargets(p)
  <2>1. t.gen = s.gen + 1 /\ b \in {a, Resting}
    BY <1>11 DEF Retargets, Turned
  <2>2. CASE b = Resting
    BY <1>r, <2>2
  <2>3. CASE b = a
    <3>1. b.at \in Wanting => b.at # "idle"
      BY DEF Wanting
    <3>2. b.at # "idle" => b.gen <= t.gen /\ b.gen # t.gen
      BY <1>2, <1>5, <2>1, <2>3
    <3>3. QED
      BY <1>2, <2>3, <3>1, <3>2
  <2>4. QED
    BY <2>1, <2>2, <2>3
<1>12. CASE Takes(p) /\ SeenKept(p)
  <2>1. /\ b.gen = a.gen /\ b.from = a.from /\ t.view = s.view /\ t.anchor = s.anchor
    BY <1>0, <1>12, TakesKeeps
  <2>2. /\ a.at \in {"found", "opened"} /\ (a.at = "found" => ~a.closing)
        /\ b.at = "attaching" /\ b.closing = a.closing /\ t.in = s.in /\ t.gen = s.gen
    BY <1>0, <1>12, TakesFields
  <2>3. ~a.closing
    BY <1>0, <2>2 DEF Guarded
  <2>4. a.at \in Wanting /\ a.at # "idle"
    BY <2>2 DEF Wanting
  <2>5. QED
    BY <1>2, <1>12, <2>1, <2>2, <2>3, <2>4 DEF SeenKept
<1>13. CASE Attached(p)
  <2>1. b = Resting
    BY <1>0, <1>13, AttachedFacts
  <2>2. QED
    BY <1>r, <2>1
<1>14. CASE Starts(p)
  <2>1. b = Resting
    <3>1. Made(p) /\ b = a
      BY <1>14 DEF Starts, Made
    <3>2. QED
      BY <1>0, <3>1, MadeKeeps
  <2>2. QED
    BY <1>r, <2>1
<1>15. ASSUME NEW f \in feeds, f.pane = p, Forwards(f)
       PROVE  /\ b.at \in Attaching => ~b.closing
              /\ b.at # "idle" => b.gen <= t.gen
              /\ t.in /\ b.at \in Wanting /\ b.gen = t.gen /\ ~b.closing =>
                   t.view /\ b.from <= t.anchor /\ (b.from < t.anchor => seen'[p].replayed)
  <2>1. /\ t.anchor = s.anchor + 1 /\ t.in = s.in /\ t.view = s.view /\ t.gen = s.gen /\ b = a
        /\ s.view => (a.at \in {"attaching", "answering", "attached"} => seen'[p].replayed)
    BY <1>0, <1>15, ForwardsFacts
  <2>2. s.in => a.at \notin Seeking
    BY <1>15, ForwardsForce
  <2>3. a.at \in Wanting => a.at \in Seeking \cup {"attaching", "answering", "attached"}
    BY DEF Wanting, Seeking
  <2>4. ASSUME t.in, b.at \in Wanting, b.gen = t.gen, ~b.closing
        PROVE  t.view /\ b.from <= t.anchor /\ seen'[p].replayed
    <3>1. s.view /\ a.from <= s.anchor
      BY <1>2, <2>1, <2>4
    <3>2. a.at \in {"attaching", "answering", "attached"}
      BY <2>1, <2>2, <2>3, <2>4
    <3>3. QED
      BY <1>5, <2>1, <3>1, <3>2
  <2>5. QED
    BY <1>2, <2>1, <2>4
<1>16. QED
  BY <1>0, <1>7, <1>8, <1>9, <1>10, <1>11, <1>12, <1>13, <1>14, <1>15 DEF Flows

\* What a session made before, it still did; and none of its chunks is numbered below 1.
LEMMA OutHolds ==
  ASSUME Goes, NEW p \in Panes, NEW k \in Int
  PROVE  /\ pane[p].remote # None /\ pane'[p].remote = pane[p].remote /\ pane'[p].boot = pane[p].boot
            /\ (pane[p].boot = host.boot => k <= host.ses[pane[p].remote].out)
            => (pane'[p].boot = host'.boot => k <= host'.ses[pane'[p].remote].out)
         /\ pane'[p].remote # None /\ pane'[p].boot = host'.boot => host'.ses[pane'[p].remote].out \in Nat
<1>0. /\ Typed /\ Typed' /\ Hosted /\ Hosted' /\ HostGoes /\ SesGoes
      /\ (host'.boot = host.boot => Len(host'.ses) >= Len(host.ses))
  BY DEF Goes, Inv
<1>n. host.boot \in Nat /\ host'.boot \in Nat /\ Len(host.ses) \in Nat /\ Len(host'.ses) \in Nat
  BY <1>0 DEF Typed, HostTyped, HostState
<1>1. ASSUME pane'[p].remote # None, pane'[p].boot = host'.boot
      PROVE  host'.ses[pane'[p].remote].out \in Nat
  <2>1. InBoot(pane[p].boot, pane[p].remote)'
    BY <1>0, <1>1 DEF Hosted
  <2>2. pane'[p].remote \in 1 .. Len(host'.ses)
    BY <1>1, <2>1 DEF InBoot
  <2>3. host'.ses[pane'[p].remote] \in SessionState
    BY <1>0, <2>2 DEF Typed, HostTyped, HostState
  <2>4. QED
    BY <2>3 DEF SessionState
<1>2. ASSUME pane[p].remote # None, pane'[p].remote = pane[p].remote, pane'[p].boot = pane[p].boot,
             pane[p].boot = host.boot => k <= host.ses[pane[p].remote].out, pane'[p].boot = host'.boot
      PROVE  k <= host'.ses[pane'[p].remote].out
  <2> DEFINE id == pane[p].remote
  <2>1. InBoot(pane[p].boot, id)
    BY <1>0, <1>2 DEF Hosted
  <2>2. host'.boot >= host.boot
    BY <1>0, <1>n DEF HostGoes
  <2>3. pane[p].boot = host.boot /\ host'.boot = host.boot
    BY <1>n, <1>2, <2>1, <2>2 DEF InBoot
  <2>4. id \in 1 .. Len(host.ses) /\ id \in 1 .. Len(host'.ses)
    BY <1>0, <1>n, <2>1, <2>3 DEF InBoot
  <2>5. host.ses[id].out \in Nat /\ host'.ses[id].out \in Nat
    <3>1. host.ses[id] \in SessionState /\ host'.ses[id] \in SessionState
      BY <1>0, <2>4 DEF Typed, HostTyped, HostState
    <3>2. QED
      BY <3>1 DEF SessionState
  <2>6. host'.ses[id].out >= host.ses[id].out
    BY <1>0, <2>3, <2>4 DEF SesGoes
  <2> HIDE DEF id
  <2>7. k <= host.ses[id].out
    BY <1>2, <2>3 DEF id
  <2>8. k <= host'.ses[id].out
    BY <2>5, <2>6, <2>7
  <2>9. QED
    BY <1>2, <2>8 DEF id
<1>3. QED
  BY <1>1, <1>2

\* What the attach of a pane brings its view follows what the view has.
LEMMA AttachBrings ==
  ASSUME Goes, NEW p \in Panes, Attached(p), Watched(p)
  PROVE  LET b == bind[p]
             s == pane[p]
         IN
         /\ s.view /\ s.anchor <= b.upto /\ b.upto \in Nat
         /\ b.from <= s.anchor /\ (b.from < s.anchor => seen[p].replayed)
         /\ s.remote # None /\ b.ses = s.remote /\ s.boot = BootOf(b.l)
         /\ s.boot = host.boot => b.upto <= host.ses[s.remote].out
<1>0. /\ Typed /\ Placed /\ Turns /\ Replays
  BY DEF Goes, Inv, Flow
<1>1. bind[p].at = "attached" /\ bind[p].gen = pane[p].gen
  BY <1>0, AttachedFacts
<1>2. pane[p].in
  BY DEF Watched
<1>3. /\ pane[p].view /\ bind[p].from <= pane[p].anchor
      /\ bind[p].from < pane[p].anchor => seen[p].replayed
  <2>1. TurnOf(p)
    BY <1>0 DEF Turns
  <2>2. QED
    BY <1>1, <1>2, <2>1 DEF TurnOf, Wanting, Attaching
<1>4. pane[p].remote # None /\ bind[p].ses = pane[p].remote /\ pane[p].boot = BootOf(bind[p].l)
  BY <1>0, <1>1 DEF Placed, Attaching
<1>5. /\ BootOf(bind[p].l) = host.boot => bind[p].upto <= host.ses[bind[p].ses].out
      /\ pane[p].anchor <= bind[p].upto
  BY <1>0, <1>1 DEF Replays, ReplayOf, Replayed
<1>6. bind[p].upto \in Nat
  <2>1. bind[p] \in Turn
    BY <1>0 DEF Typed, PanesTyped
  <2>2. QED
    BY <2>1, TurnFields
<1>7. QED
  BY <1>3, <1>4, <1>5, <1>6

\* A view has what its anchor says.
LEMMA ViewsStep ==
  ASSUME Goes, PanesNext
  PROVE  Views'
<1>0. /\ Typed /\ Typed' /\ Unmade /\ Placed /\ Views /\ Unseen /\ InOrder /\ Routes /\ Adopts' = Adopts
      /\ (\A q \in Panes : pane[q].born => pane'[q].born) /\ \A q \in Panes : Flows(q)
  BY DEF Goes, Inv, Flow
<1>1. SUFFICES ASSUME NEW p \in Panes, Watched(p)' PROVE ViewOf(p)'
  BY DEF Views, ViewOf
<1> DEFINE s == pane[p]
           t == pane'[p]
           v == seen[p]
           w == seen'[p]
<1>2. SUFFICES /\ w.next = t.anchor + 1 /\ t.anchor >= 0 /\ w.whole
               /\ t.remote = None => t.anchor = 0
               /\ t.remote # None /\ t.boot = host'.boot => t.anchor <= host'.ses[t.remote].out
  BY DEF ViewOf
<1>3. s.anchor \in Int /\ t.anchor \in Int
  <2>1. s \in PaneState /\ t \in PaneState
    BY <1>0 DEF Typed, PanesTyped
  <2>2. QED
    BY <2>1, PaneFields
<1>4. Watched(p) \/ Starts(p)
  BY <1>0, <1>1, WatchedWas
<1>5. Watched(p) =>
        /\ v.next = s.anchor + 1 /\ s.anchor >= 0 /\ v.whole
        /\ s.remote = None => s.anchor = 0
        /\ s.remote # None /\ s.boot = host.boot => s.anchor <= host.ses[s.remote].out
  BY <1>0 DEF Views, ViewOf
<1>6. /\ \A k \in Int :
           s.remote # None /\ t.remote = s.remote /\ t.boot = s.boot /\ (s.boot = host.boot => k <= host.ses[s.remote].out)
             => (t.boot = host'.boot => k <= host'.ses[t.remote].out)
      /\ t.remote # None /\ t.boot = host'.boot => host'.ses[t.remote].out \in Nat
  BY OutHolds
<1>k. Unborn.remote = None
  BY DEF Unborn
<1>7. ASSUME Starts(p)
      PROVE  /\ w.next = t.anchor + 1 /\ t.anchor >= 0 /\ w.whole
             /\ t.remote = None => t.anchor = 0
             /\ t.remote # None /\ t.boot = host'.boot => t.anchor <= host'.ses[t.remote].out
  <2>1. Made(p) /\ ~s.born /\ t.anchor = 0
    BY <1>0, <1>7, MadeKeeps DEF Starts, Made
  <2>2. v.next = 1 /\ v.whole
    BY <1>0, <2>1 DEF Unseen
  <2>3. w.next = t.anchor + 1 /\ w.whole
    BY <1>7, <2>1, <2>2 DEF Starts
  <2>4. QED
    BY <1>6, <2>1, <2>3
<1>8. ASSUME Watched(p), t.remote = s.remote, t.boot = s.boot, t.anchor = s.anchor, SeenKept(p)
      PROVE  /\ w.next = t.anchor + 1 /\ t.anchor >= 0 /\ w.whole
             /\ t.remote = None => t.anchor = 0
             /\ t.remote # None /\ t.boot = host'.boot => t.anchor <= host'.ses[t.remote].out
  BY <1>3, <1>5, <1>6, <1>8 DEF SeenKept
<1>9. CASE Watched(p) /\ (Stays(p) \/ Moves(p) \/ BeginsBind(p) \/ BeginsDetach(p))
  <2>1. t.remote = s.remote /\ t.boot = s.boot /\ t.anchor = s.anchor /\ SeenKept(p)
    BY <1>9 DEF Stays, Moves, BeginsBind, BeginsDetach, Kept
  <2>2. QED
    BY <1>8, <1>9, <2>1
<1>10. CASE Watched(p) /\ Retargets(p)
  <2>1. t.remote = s.remote /\ t.boot = s.boot
    BY <1>10 DEF Retargets, Turned
  <2>2. \/ t.anchor = s.anchor /\ SeenKept(p)
        \/ t.anchor \in {s.anchor, 0, v.next - 1} /\ w.next = t.anchor + 1 /\ (v.whole => w.whole)
    BY <1>10 DEF Retargets
  <2>3. v.next - 1 = s.anchor
    BY <1>3, <1>5, <1>10
  <2>4. CASE t.anchor \in {s.anchor, 0} /\ w.next = t.anchor + 1 /\ (v.whole => w.whole)
    <3>1. t.anchor >= 0 /\ w.whole
      BY <1>5, <1>10, <2>4
    <3>2. t.remote = None => t.anchor = 0
      BY <1>5, <1>10, <2>1, <2>4
    <3>3. t.remote # None /\ t.boot = host'.boot => t.anchor <= host'.ses[t.remote].out
      BY <1>3, <1>5, <1>6, <1>10, <2>1, <2>4
    <3>4. QED
      BY <2>4, <3>1, <3>2, <3>3
  <2>5. QED
    BY <1>8, <1>10, <2>1, <2>2, <2>3, <2>4
<1>11. CASE Watched(p) /\ Takes(p) /\ SeenKept(p)
  <2>1. t.anchor = s.anchor
    BY <1>0, <1>11, TakesKeeps
  <2>2. bind[p].at \in Seeking
    BY <1>0, <1>11, TakesFields DEF Seeking
  <2>3. s.remote = None
    BY <1>0, <2>2 DEF Placed
  <2>4. t.anchor = 0
    BY <1>5, <1>11, <2>1, <2>3
  <2>5. QED
    BY <1>5, <1>6, <1>11, <2>1, <2>4 DEF SeenKept
<1>12. CASE Watched(p) /\ Attached(p)
  <2> DEFINE b == bind[p]
  <2>1. /\ s.view /\ s.anchor <= b.upto /\ b.upto \in Nat
        /\ b.from <= s.anchor /\ (b.from < s.anchor => v.replayed)
        /\ s.remote # None /\ b.ses = s.remote /\ s.boot = BootOf(b.l)
        /\ s.boot = host.boot => b.upto <= host.ses[s.remote].out
    BY <1>12, AttachBrings
  <2>2. /\ t.anchor = b.upto /\ t.remote = s.remote /\ t.boot = s.boot
        /\ s.view => IF b.upto = b.from
                     THEN w.next = v.next /\ w.whole = v.whole
                     ELSE /\ w.next = b.upto + 1
                          /\ w.whole <=> /\ v.whole
                                         /\ \/ b.from + 1 = v.next
                                            \/ v.replayed /\ b.from + 1 < v.next
    BY <1>0, <1>12, AttachedFacts
  <2>3. b.from \in Int
    <3>1. b \in Turn
      BY <1>0 DEF Typed, PanesTyped
    <3>2. QED
      BY <3>1, TurnFields
  <2>4. v.next = s.anchor + 1 /\ v.whole
    BY <1>5, <1>12
  <2> HIDE DEF b
  <2>5. CASE b.upto = b.from
    <3>1. b.upto = s.anchor
      BY <1>3, <2>1, <2>3, <2>5
    <3>2. w.next = t.anchor + 1 /\ w.whole
      BY <2>1, <2>2, <2>4, <2>5, <3>1
    <3>3. QED
      BY <1>6, <2>1, <2>2, <3>2
  <2>6. CASE b.upto # b.from
    <3>1. w.next = t.anchor + 1
      BY <2>1, <2>2, <2>6
    <3>2. b.from + 1 = v.next \/ (v.replayed /\ b.from + 1 < v.next)
      BY <1>3, <2>1, <2>3, <2>4
    <3>3. w.whole
      BY <2>1, <2>2, <2>4, <2>6, <3>2
    <3>4. QED
      BY <1>6, <2>1, <2>2, <3>1, <3>3
  <2>7. QED
    BY <2>5, <2>6
<1>13. ASSUME NEW f \in feeds, f.pane = p, Forwards(f), Watched(p)
       PROVE  /\ w.next = t.anchor + 1 /\ t.anchor >= 0 /\ w.whole
              /\ t.remote = None => t.anchor = 0
              /\ t.remote # None /\ t.boot = host'.boot => t.anchor <= host'.ses[t.remote].out
  <2>1. /\ f \in Feed /\ InForce(f) /\ s.view /\ s.remote # None /\ f.ses = s.remote /\ BootOf(f.l) = s.boot
    BY <1>13, ForwardsForce DEF Watched
  <2> DEFINE n == f.q[1]
  <2>2. /\ f.gen # 0 /\ f.q # <<>> /\ n # None /\ n \in Nat /\ t.anchor = s.anchor + 1
        /\ t.remote = s.remote /\ t.boot = s.boot
        /\ s.view => w.next = n + 1 /\ (v.whole /\ n = v.next => w.whole)
    BY <1>0, <1>13, ForwardsFacts
  <2>3. 1 \in 1 .. Len(f.q)
    BY <2>1, <2>2 DEF Feed
  <2>4. n = s.anchor + 1
    <3>1. InRow(f.q, Base(f), f.state)
      BY <1>0, <1>13, <2>1 DEF InOrder, Ours
    <3>2. n = Base(f) + 1
      BY <2>2, <2>3, <3>1 DEF InRow
    <3>3. QED
      BY <1>13, <2>2, <3>2 DEF Base
  <2>5. s.boot = host.boot => n <= host.ses[s.remote].out
    BY <1>0, <2>1, <2>3 DEF Routes, Coded
  <2> HIDE DEF n
  <2>6. w.next = t.anchor + 1 /\ w.whole /\ t.anchor >= 0 /\ t.anchor = n
    BY <1>3, <1>5, <1>13, <2>1, <2>2, <2>4
  <2>7. QED
    BY <1>3, <1>6, <2>1, <2>2, <2>5, <2>6
<1>14. QED
  BY <1>0, <1>4, <1>7, <1>9, <1>10, <1>11, <1>12, <1>13 DEF Flows

\* A pane that was not made was handed nothing.
LEMMA UnseenStep ==
  ASSUME Goes, PanesNext
  PROVE  Unseen'
<1>0. /\ Typed /\ Typed' /\ Unmade /\ Unmade' /\ Unseen
      /\ (\A q \in Panes : pane[q].born => pane'[q].born) /\ \A q \in Panes : Flows(q)
  BY DEF Goes, Inv, Flow
<1>1. SUFFICES ASSUME NEW p \in Panes, ~pane'[p].born PROVE seen'[p].next = 1 /\ seen'[p].whole
  BY DEF Unseen
<1>2. ~pane[p].born /\ seen[p].next = 1 /\ seen[p].whole
  BY <1>0, <1>1 DEF Unseen
<1>3. pane[p].gen = 0 /\ pane'[p].gen = 0
  BY <1>0, <1>1, <1>2 DEF Unmade, Unborn
<1>4. CASE SeenKept(p)
  BY <1>2, <1>4 DEF SeenKept
<1>5. ~Retargets(p)
  BY <1>3 DEF Retargets, Turned
<1>6. ~Attached(p)
  BY <1>0, <1>3, AttachedFacts
<1>7. ~Starts(p)
  <2>1. Made(p) => pane'[p].born
    BY <1>0, MadeFields
  <2>2. QED
    BY <1>1, <2>1 DEF Starts
<1>8. \A f \in feeds : f.pane = p => ~Forwards(f)
  BY <1>0, <1>3, ForwardsFacts
<1>9. QED
  BY <1>0, <1>4, <1>5, <1>6, <1>7, <1>8 DEF Flows, Stays, Moves, BeginsBind, BeginsDetach

-----------------------------------------------------------------------------
\* The replays.

\* An attach that is answered was under way, of a pane that goes on with its session.
LEMMA AttachWas ==
  ASSUME Goes, NEW p \in Panes, bind'[p].at \in {"answering", "attached"}
  PROVE  /\ bind[p].at \in Attaching /\ pane[p].born
         /\ pane'[p].remote = pane[p].remote /\ pane'[p].boot = pane[p].boot
<1>0. /\ Typed /\ Unmade /\ PanesGo /\ \A q \in Panes : Flows(q)
  BY DEF Goes, Inv
<1>r. Resting.at = "idle" /\ {"answering", "attached"} \subseteq Attaching
  BY DEF Resting, Attaching
<1>1. bind[p].at \in Attaching
  <2>1. CASE bind'[p] \in {bind[p], Resting}
    BY <1>r, <2>1
  <2>2. CASE Moves(p)
    BY <2>2 DEF Moves, Attaching
  <2>3. ~BeginsBind(p) /\ ~BeginsDetach(p)
    BY DEF BeginsBind, BeginsDetach
  <2>4. ~Takes(p)
    BY <1>0, TakesFields
  <2>5. Attached(p) => bind'[p] = Resting
    BY <1>0, AttachedFacts
  <2>6. Starts(p) => bind'[p] = bind[p]
    BY DEF Starts, Made
  <2>7. (\E f \in feeds : Forwards(f)) => bind'[p] = bind[p]
    BY DEF Forwards
  <2>8. Stays(p) \/ Retargets(p) => bind'[p] \in {bind[p], Resting}
    BY DEF Stays, Retargets
  <2>9. Flows(p)
    BY <1>0
  <2>10. QED
    BY <2>1, <2>2, <2>3, <2>4, <2>5, <2>6, <2>7, <2>8, <2>9 DEF Flows
<1>2. pane[p].born
  <2>1. bind[p].at # "idle"
    BY <1>1 DEF Attaching
  <2>2. QED
    BY <1>0, <2>1, UnmadeFacts
<1>3. ~Takes(p)
  <2>1. bind[p].at \notin {"found", "opened"}
    BY <1>1 DEF Attaching
  <2>2. QED
    BY <1>0, <2>1, TakesFields
<1>4. ~Made(p)
  BY <1>2 DEF Made
<1>5. Same(pane[p], pane'[p])
  BY <1>0, <1>3, <1>4, KeepsOr DEF PanesGo
<1>6. QED
  BY <1>1, <1>2, <1>5 DEF Same

\* An answer that is on its way was, or was just made.
LEMMA AttachmentWas ==
  ASSUME Goes, NEW p \in Panes, NEW l \in 1 .. Len(links'), NEW i \in 1 .. Len(links'[l].wire),
         Attachment(links'[l].wire[i], p)
  PROVE  /\ l \in 1 .. Len(links)
         /\ \/ \E k \in 1 .. Len(links[l].wire) : Attachment(links[l].wire[k], p)
            \/ HostAttaches(p) /\ Exists(bind[p].ses) /\ i = Len(links[l].wire) + 1 /\ l = bind[p].l
<1>k. "attached" \notin {"data", "exit"} /\ "gone" # "attached"
  OBVIOUS
<1>a. \A x, s, q : LET f == AttachFrame(x, s, q) IN f.kind = x /\ f.ses = s /\ f.n = q
  BY DEF AttachFrame
<1>1. FrameGoes(l, i)
  BY FrameFrom
<1>2. l \in 1 .. Len(links)
  BY <1>1 DEF FrameGoes
<1>3. ASSUME NEW q \in Panes, HostAttaches(q), l = bind[q].l, i = Len(links[l].wire) + 1,
             links'[l].wire[i] = AttachFrame(IF Exists(bind[q].ses) THEN "attached" ELSE "gone",
                 bind[q].ses, q)
      PROVE  HostAttaches(p) /\ Exists(bind[p].ses) /\ i = Len(links[l].wire) + 1 /\ l = bind[p].l
  BY <1>3, <1>a, <1>k DEF Attachment
<1>4. QED
  BY <1>1, <1>2, <1>3, <1>k DEF FrameGoes, Attachment

\* The chunks a route in force holds were in one's that was in force, unless its session sends more: then no
\* attach of its pane is under way.
LEMMA ForceHolds ==
  ASSUME Goes, PanesNext, NEW p \in Panes, bind[p].at \in Attaching, pane[p].in, pane'[p].gen = pane[p].gen,
         NEW g \in feeds', g.pane = p, g.gen # 0, g.gen = pane'[p].gen, NEW i \in 1 .. Len(g.q)
  PROVE  g.q[i] = None \/ \E f \in feeds : f.pane = p /\ InForce(f) /\ \E k \in 1 .. Len(f.q) : g.q[i] = f.q[k]
<1>0. /\ Typed /\ Routes
  BY DEF Goes, Inv, Flow
<1>1. g \in Feed
  BY RouteFrom
<1>2. ASSUME NEW f \in feeds, f \in Feed, f.pane = p, f.gen = g.gen, \E k \in 1 .. Len(f.q) : g.q[i] = f.q[k]
      PROVE  \E h \in feeds : h.pane = p /\ InForce(h) /\ \E k \in 1 .. Len(h.q) : g.q[i] = h.q[k]
  BY <1>2 DEF InForce
<1>3. ASSUME ReadsNone, RouteGoes(g)
      PROVE  \E f \in feeds : f.pane = p /\ InForce(f) /\ \E k \in 1 .. Len(f.q) : g.q[i] = f.q[k]
  <2>1. ~Arises(g)
    BY DEF Arises
  <2>2. PICK f \in feeds : Stands(f, g) \/ Drained(f, g) \/ Enters(f, g)
    BY <1>3, <2>1 DEF RouteGoes
  <2>3. f \in Feed
    BY <1>0 DEF Typed, NetTyped
  <2>4. ~Enters(f, g)
    <3>1. Enters(f, g) => Attached(p)
      BY <1>1, <2>3, RouteParts
    <3>2. Attached(p) => pane'[p].gen = pane[p].gen + 1
      BY <1>0, AttachedFacts
    <3>3. pane[p].gen \in Nat
      <4>1. pane[p] \in PaneState
        BY <1>0 DEF Typed, PanesTyped
      <4>2. QED
        BY <4>1, PaneFields
    <3>4. QED
      BY <3>1, <3>2, <3>3
  <2>5. /\ g.pane = f.pane /\ g.gen = f.gen /\ (g.q = f.q \/ (g.q = Tail(f.q) /\ f.q # <<>>)) /\ f.q \in Seq(Nat)
    BY <1>1, <2>2, <2>3, <2>4, RouteParts
  <2>6. \E k \in 1 .. Len(f.q) : g.q[i] = f.q[k]
    <3>1. \A n \in Nat : f.q # <<>> =>
            \A h \in 1 .. Len(Tail(f.q)) : h + 1 \in 1 .. Len(f.q) /\ Tail(f.q)[h] = f.q[h + 1]
      BY <2>5, QueueParts
    <3>2. QED
      BY <2>5, <3>1
  <2>7. QED
    BY <1>2, <2>3, <2>5, <2>6
<1>4. ASSUME NEW l \in 1 .. Len(links), Reads(l), NEW f \in feeds, f \in Feed, ReadsTo(l, f, g)
      PROVE  g.q[i] = None \/ \E h \in feeds : h.pane = p /\ InForce(h) /\ \E k \in 1 .. Len(h.q) : g.q[i] = h.q[k]
  <2>1. g.pane = f.pane /\ g.gen = f.gen
    BY <1>4 DEF ReadsTo
  <2>2. f.state # "live"
    <3>1. InForce(f) /\ Pumping(f)
      BY <1>0, <2>1 DEF InForce, Routes
    <3>2. QED
      BY <2>1, <3>1 DEF Pumping
  <2>3. g.q = f.q
    BY <1>4, <2>2 DEF ReadsTo
  <2>4. QED
    BY <1>2, <1>4, <2>1, <2>3
<1>5. QED
  BY <1>3, <1>4, RouteFrom

\* An attach that was answered ends no earlier than what its view has, and what the pump before it still holds.
LEMMA ReplaysStep ==
  ASSUME Goes, PanesNext
  PROVE  Replays'
<1>0. /\ Typed /\ Typed' /\ Named /\ Unmade /\ Placed /\ Placed' /\ Reached /\ Turns /\ Views /\ Replays /\ Carries /\ Routes
      /\ InOrder /\ LinksGo /\ Adopts' = Adopts
      /\ (\A q \in Panes : pane[q].born => pane'[q].born) /\ \A q \in Panes : Flows(q)
  BY DEF Goes, Inv, Flow
<1>k. "attached" # "answering" /\ "answering" # "attaching" /\ "gone" \notin {"attached", "answering"}
  OBVIOUS
<1>1. SUFFICES ASSUME NEW p \in Panes, Replayed(p)' PROVE ReplayOf(p)'
  BY DEF Replays, ReplayOf
<1> DEFINE a == bind[p]
           b == bind'[p]
           s == pane[p]
           t == pane'[p]
<1>2. b.at \in {"answering", "attached"}
  BY <1>1 DEF Replayed
<1>3. a.at \in Attaching /\ s.born /\ t.remote = s.remote /\ t.boot = s.boot
  BY <1>2, AttachWas
<1>4. /\ s.remote # None /\ a.ses = s.remote /\ s.boot = links[a.l].boot
      /\ t.remote # None /\ b.ses = t.remote /\ t.boot = links'[b.l].boot
  <2>1. b.at \in Attaching
    BY <1>2 DEF Attaching
  <2>2. QED
    BY <1>0, <1>3, <2>1 DEF Placed, BootOf
<1>5. /\ b.l = a.l /\ b.ses = a.ses /\ b.gen = a.gen
      /\ \/ b = a
         \/ HostAttaches(p) /\ a.at = "attaching" /\ b.at = "answering" /\ t = s
         \/ /\ a.at = "answering" /\ b.upto = a.upto /\ t = s /\ b.at \in {"attached", "gone"}
            /\ \E l \in DOMAIN links : Reads(l) /\ a.l = l /\ Head(links[l].wire).kind = b.at /\ Head(links[l].wire).n = p
  <2>1. b.at \in Attaching
    BY <1>2 DEF Attaching
  <2>2. QED
    BY <1>0, <1>3, <2>1, AttachGoes
<1>6. a.l \in 1 .. Len(links) /\ b.upto \in Nat /\ a.upto \in Nat
  <2>1. a.at # "idle"
    BY <1>3 DEF Attaching
  <2>2. a \in Turn /\ b \in Turn
    BY <1>0 DEF Typed, PanesTyped
  <2>3. QED
    BY <1>0, <2>1, <2>2, TurnFields DEF Named
<1>7. \A k \in Int : (s.boot = host.boot => k <= host.ses[s.remote].out)
                       => (t.boot = host'.boot => k <= host'.ses[t.remote].out)
  BY <1>3, <1>4, OutHolds
<1>8. SUFFICES /\ s.boot = host.boot => b.upto <= host.ses[s.remote].out
               /\ Watched(p)' /\ b.gen = t.gen =>
                    /\ t.anchor <= b.upto
                    /\ \A g \in feeds' : g.pane = p /\ g.gen # 0 /\ g.gen = t.gen => \A i \in 1 .. Len(g.q) : g.q[i] <= b.upto
  BY <1>4, <1>6, <1>7 DEF ReplayOf, BootOf, InForce
<1>w. Watched(p)' => Watched(p)
  BY <1>0, <1>3, WatchedWas DEF Starts, Made
<1>9. ASSUME Replayed(p), b.upto = a.upto
      PROVE  /\ s.boot = host.boot => b.upto <= host.ses[s.remote].out
             /\ Watched(p)' /\ b.gen = t.gen =>
                  /\ t.anchor <= b.upto
                  /\ \A g \in feeds' : g.pane = p /\ g.gen # 0 /\ g.gen = t.gen => \A i \in 1 .. Len(g.q) : g.q[i] <= b.upto
  <2>1. /\ s.boot = host.boot => a.upto <= host.ses[s.remote].out
        /\ Watched(p) /\ a.gen = s.gen =>
             /\ s.anchor <= a.upto
             /\ \A f \in feeds : f.pane = p /\ InForce(f) => \A i \in 1 .. Len(f.q) : f.q[i] <= a.upto
    BY <1>0, <1>4, <1>9 DEF Replays, ReplayOf, BootOf
  <2>2. ASSUME Watched(p)', b.gen = t.gen
        PROVE  /\ t.anchor <= b.upto
               /\ \A g \in feeds' : g.pane = p /\ g.gen # 0 /\ g.gen = t.gen => \A i \in 1 .. Len(g.q) : g.q[i] <= b.upto
    <3>1. Watched(p) /\ s.in
      BY <1>w, <2>2 DEF Watched
    <3>2. s.gen = t.gen /\ a.gen = s.gen
      <4>1. a.gen <= s.gen
        <5>1. a.at # "idle"
          BY <1>3 DEF Attaching
        <5>2. QED
          BY <1>0, <5>1 DEF Turns, TurnOf
      <4>2. s.gen \in Nat /\ t.gen >= s.gen
        BY <1>0, GenGoes
      <4>3. a.gen \in Nat /\ t.gen \in Nat
        <5>1. a \in Turn /\ t \in PaneState
          BY <1>0 DEF Typed, PanesTyped
        <5>2. QED
          BY <5>1, TurnFields, PaneFields
      <4>4. QED
        BY <1>5, <2>2, <4>1, <4>2, <4>3
    <3>3. /\ s.anchor <= a.upto
          /\ \A f \in feeds : f.pane = p /\ InForce(f) => \A i \in 1 .. Len(f.q) : f.q[i] <= a.upto
      BY <2>1, <3>1, <3>2
    <3>4. t.anchor <= b.upto
      <4>1. CASE t.anchor = s.anchor
        BY <1>9, <3>3, <4>1
      <4>2. ASSUME NEW f \in feeds, f.pane = p, Forwards(f) PROVE t.anchor <= b.upto
        <5>1. f \in Feed /\ InForce(f)
          BY <4>2, ForwardsForce
        <5>2. f.q # <<>> /\ f.q[1] # None /\ t.anchor = s.anchor + 1 /\ f.gen # 0
          BY <1>0, <4>2, ForwardsFacts
        <5>3. 1 \in 1 .. Len(f.q)
          BY <5>1, <5>2 DEF Feed
        <5>4. InRow(f.q, Base(f), f.state)
          BY <1>0, <3>1, <4>2, <5>1 DEF InOrder, Ours
        <5>5. f.q[1] = s.anchor + 1
          BY <4>2, <5>2, <5>3, <5>4 DEF InRow, Base
        <5>6. f.q[1] <= a.upto
          BY <3>3, <4>2, <5>1, <5>3
        <5>7. QED
          BY <1>9, <5>2, <5>5, <5>6
      <4>3. t.anchor = s.anchor \/ \E f \in feeds : f.pane = p /\ Forwards(f)
        BY <1>0, <1>3, <3>2, GenGoes
      <4>4. QED
        BY <4>1, <4>2, <4>3
    <3>5. ASSUME NEW g \in feeds', g.pane = p, g.gen # 0, g.gen = t.gen, NEW i \in 1 .. Len(g.q)
          PROVE  g.q[i] <= b.upto
      <4>1. g.q[i] = None \/ \E f \in feeds : f.pane = p /\ InForce(f) /\ \E k \in 1 .. Len(f.q) : g.q[i] = f.q[k]
        BY <1>3, <3>1, <3>2, <3>5, ForceHolds
      <4>2. QED
        BY <1>6, <1>9, <3>3, <4>1 DEF None
    <3>6. QED
      BY <3>4, <3>5
  <2>3. QED
    BY <1>9, <2>1, <2>2
<1>10. CASE b = a
  <2>1. Replayed(p)
    <3>1. CASE b.at = "attached"
      BY <1>10, <3>1 DEF Replayed
    <3>2. CASE b.at = "answering"
      <4>1. PICK i \in 1 .. Len(links'[b.l].wire) : Attachment(links'[b.l].wire[i], p)
        BY <1>1, <1>k, <3>2 DEF Replayed
      <4>2. b.l \in 1 .. Len(links')
        <5>1. Len(links') \in Nat /\ Len(links) \in Nat /\ Len(links') >= Len(links)
          BY <1>0 DEF Typed, NetTyped, LinksGo
        <5>2. QED
          BY <1>5, <1>6, <5>1
      <4>3. ~HostAttaches(p)
        BY <1>0, <1>10, <1>k, <3>2, AttachFacts
      <4> HIDE DEF a, b
      <4>4. \E k \in 1 .. Len(links[b.l].wire) : Attachment(links[b.l].wire[k], p)
        BY <4>1, <4>2, <4>3, AttachmentWas
      <4>5. QED
        BY <1>10, <3>2, <4>4 DEF Replayed, a
    <3>3. QED
      BY <1>2, <3>1, <3>2
  <2>2. QED
    BY <1>9, <1>10, <2>1
<1>11. CASE HostAttaches(p) /\ a.at = "attaching" /\ b.at = "answering" /\ t = s
  <2>1. PICK place \in 1 .. Len(links'[b.l].wire) : Attachment(links'[b.l].wire[place], p)
    BY <1>1, <1>k, <1>11 DEF Replayed
  <2>2. b.l \in 1 .. Len(links')
    <3>1. Len(links') \in Nat /\ Len(links) \in Nat /\ Len(links') >= Len(links)
      BY <1>0 DEF Typed, NetTyped, LinksGo
    <3>2. QED
      BY <1>5, <1>6, <3>1
  <2>3. ~ \E k \in 1 .. Len(links[a.l].wire) : Attachment(links[a.l].wire[k], p)
    <3>1. \A k \in 1 .. Len(links[a.l].wire) : Answered(a.l, links[a.l].wire[k])
      BY <1>0, <1>6 DEF Carries
    <3>2. QED
      BY <1>11, <1>k, <3>1 DEF Answered, Attachment
  <2>4. Exists(a.ses)
    <3> HIDE DEF b
    <3>1. \/ \E k \in 1 .. Len(links[b.l].wire) : Attachment(links[b.l].wire[k], p)
          \/ Exists(bind[p].ses)
      BY <2>1, <2>2, AttachmentWas
    <3>2. QED
      BY <1>5, <2>3, <3>1
  <2>5. /\ a.ses \in 1 .. Len(host.ses) /\ b.upto = host.ses[a.ses].out /\ links[a.l].up /\ feeds' = feeds
    BY <1>0, <1>11, <2>4, AttachFacts
  <2>6. s.boot = host.boot
    <3>1. a.l # None
      BY <1>0, <1>6, RestingAt DEF Typed, NetTyped
    <3>2. QED
      BY <1>0, <1>4, <1>6, <2>5, <3>1 DEF Reached, BootOf, Up
  <2>7. b.upto = host.ses[s.remote].out
    BY <1>4, <2>5
  <2>8. ASSUME Watched(p)'
        PROVE  /\ t.anchor <= b.upto
               /\ \A g \in feeds' : g.pane = p /\ g.gen # 0 /\ g.gen = t.gen => \A i \in 1 .. Len(g.q) : g.q[i] <= b.upto
    <3>1. Watched(p) /\ s.in
      BY <1>w, <2>8 DEF Watched
    <3>2. s.anchor <= host.ses[s.remote].out
      BY <1>0, <1>4, <2>6, <3>1 DEF Views, ViewOf
    <3>3. ASSUME NEW f \in feeds, f.pane = p, f.gen # 0, f.gen = s.gen, NEW i \in 1 .. Len(f.q)
          PROVE  f.q[i] <= b.upto
      <4>1. Coded(f) /\ Pumping(f) /\ InForce(f)
        BY <1>0, <3>3 DEF Routes, InForce
      <4>2. f.ses = s.remote /\ BootOf(f.l) = s.boot
        BY <3>1, <3>3, <4>1 DEF Pumping
      <4>3. f.q[i] <= host.ses[f.ses].out
        BY <2>6, <4>1, <4>2 DEF Coded
      <4>4. QED
        BY <2>7, <4>2, <4>3
    <3>4. QED
      BY <1>11, <2>5, <2>7, <3>2, <3>3
  <2>9. b.upto <= host.ses[s.remote].out
    BY <1>6, <2>7
  <2>10. QED
    BY <2>8, <2>9
<1>12. ASSUME a.at = "answering", b.upto = a.upto, NEW l \in DOMAIN links, Reads(l), a.l = l,
              Head(links[l].wire).kind = b.at, Head(links[l].wire).n = p, b.at \in {"attached", "gone"}
       PROVE  Replayed(p)
  <2>1. b.at = "attached"
    BY <1>2, <1>12, <1>k
  <2>2. Head(links[l].wire) = links[l].wire[1] /\ 1 \in 1 .. Len(links[l].wire)
    <3>1. links[l].wire \in Seq(Frame) /\ links[l].wire # <<>>
      BY <1>0, <1>6, <1>12, ReadsFacts
    <3>2. QED
      BY <3>1
  <2>3. Attachment(links[l].wire[1], p)
    BY <1>12, <2>1, <2>2 DEF Attachment
  <2>4. QED
    BY <1>12, <2>2, <2>3 DEF Replayed
<1>13. QED
  BY <1>5, <1>9, <1>10, <1>11, <1>12

-----------------------------------------------------------------------------
\* What the routes hold.

\* Chunks in a row stay so when one is taken, when the next one or the end comes, and when the route ends.
LEMMA RowParts ==
  ASSUME NEW q \in Seq(Nat), NEW base \in Int, NEW state, NEW st \in {state, "ended"}, InRow(q, base, state)
  PROVE  /\ InRow(q, base, st)
         /\ q # <<>> /\ q[1] # None => q[1] = base + 1 /\ InRow(Tail(q), base + 1, st)
         /\ state # "ended" /\ base + Len(q) + 1 \in Nat => InRow(Append(q, base + Len(q) + 1), base, st)
         /\ state # "ended" => InRow(Append(q, None), base, "ended")
<1>1. \A i \in 1 .. Len(q) : q[i] = base + i \/ (q[i] = None /\ i = Len(q) /\ state = "ended")
  BY DEF InRow
<1>2. InRow(q, base, st)
  BY <1>1 DEF InRow
<1>3. ASSUME q # <<>>, q[1] # None
      PROVE  q[1] = base + 1 /\ InRow(Tail(q), base + 1, st)
  <2>1. /\ Len(q) \in Nat /\ Len(Tail(q)) = Len(q) - 1 /\ 1 \in 1 .. Len(q)
        /\ \A i \in 1 .. Len(Tail(q)) : i + 1 \in 1 .. Len(q) /\ Tail(q)[i] = q[i + 1]
    <3>1. \A n \in Nat : /\ Len(q) \in Nat
                         /\ q # <<>> => /\ Len(Tail(q)) = Len(q) - 1 /\ 1 \in 1 .. Len(q)
                                        /\ \A i \in 1 .. Len(Tail(q)) : i + 1 \in 1 .. Len(q) /\ Tail(q)[i] = q[i + 1]
      BY QueueParts
    <3>2. QED
      BY <1>3, <3>1
  <2>2. q[1] = base + 1
    BY <1>1, <1>3, <2>1
  <2>3. ASSUME NEW i \in 1 .. Len(Tail(q))
        PROVE  Tail(q)[i] = (base + 1) + i \/ (Tail(q)[i] = None /\ i = Len(Tail(q)) /\ st = "ended")
    <3>1. i + 1 \in 1 .. Len(q) /\ Tail(q)[i] = q[i + 1]
      BY <2>1
    <3>2. q[i + 1] = base + (i + 1) \/ (q[i + 1] = None /\ i + 1 = Len(q) /\ state = "ended")
      BY <1>1, <3>1
    <3>3. i \in Nat
      OBVIOUS
    <3>4. base + (i + 1) = (base + 1) + i /\ (i + 1 = Len(q) => i = Len(Tail(q)))
      BY <2>1, <3>3
    <3>5. QED
      BY <3>1, <3>2, <3>4
  <2>4. QED
    BY <2>2, <2>3 DEF InRow
<1>4. ASSUME state # "ended", NEW n \in Nat, NEW last, n = base + Len(q) + 1 \/ (n = None /\ last = "ended")
      PROVE  InRow(Append(q, n), base, last)
  <2>1. /\ Len(q) \in Nat /\ Len(Append(q, n)) = Len(q) + 1
        /\ \A i \in 1 .. Len(q) : Append(q, n)[i] = q[i]
        /\ Append(q, n)[Len(q) + 1] = n
        /\ \A i \in 1 .. Len(Append(q, n)) : i \in 1 .. Len(q) \/ i = Len(q) + 1
    BY QueueParts
  <2>2. ASSUME NEW i \in 1 .. Len(Append(q, n))
        PROVE  Append(q, n)[i] = base + i \/ (Append(q, n)[i] = None /\ i = Len(Append(q,
            n)) /\ last = "ended")
    <3>1. CASE i \in 1 .. Len(q)
      BY <1>1, <1>4, <2>1, <3>1
    <3>2. CASE i = Len(q) + 1
      <4>1. base + i = base + Len(q) + 1
        BY <2>1, <3>2
      <4>2. QED
        BY <1>4, <2>1, <3>2, <4>1
    <3>3. QED
      BY <2>1, <3>1, <3>2
  <2>3. QED
    BY <2>2 DEF InRow
<1>5. None \in Nat
  BY DEF None
<1>6. QED
  BY <1>2, <1>3, <1>4, <1>5

\* The chunk a route that lives is given is the next one.
LEMMA NextChunk ==
  ASSUME Goes, NEW l \in 1 .. Len(links), Reads(l), NEW f \in feeds, f \in Feed, Ours(f), f.state = "live",
         Head(links[l].wire).kind = "data", Fits(f, l, Head(links[l].wire))
  PROVE  LET n == Head(links[l].wire).n
             k == Base(f) + Len(f.q)
         IN
         /\ n \in Nat /\ n = k + 1
         /\ Stream(Tail(links[l].wire), 0, f.ses, k + 1, host.ses[f.ses].out)
         /\ k + 1 <= host.ses[f.ses].out
<1>0. /\ Typed /\ Coming /\ Carries
  BY DEF Goes, Inv, Flow
<1> DEFINE w == links[l].wire
           k == Base(f) + Len(f.q)
           top == host.ses[f.ses].out
<1>1. w \in Seq(Frame) /\ w # <<>>
  BY <1>0, ReadsFacts
<1>2. Head(w) = w[1] /\ w[1] \in Frame /\ 1 \in 1 .. Len(w)
  BY <1>1
<1>3. Sure(f.l, 0, f.ses, k)
  BY <1>0 DEF Coming, ComesTo
<1>4. f.l = l /\ f.ses = w[1].ses /\ w[1].kind = "data"
  BY <1>2 DEF Fits
<1>5. Stream(w, 0, f.ses, k, top)
  BY <1>3, <1>4 DEF Sure
<1>6. DataAt(w, 1, f.ses)
  BY <1>4 DEF DataAt
<1>7. f.ses \in 1 .. Len(host.ses) /\ w[1].n \in 1 .. top
  <2>1. Written(w[1])
    BY <1>0, <1>2 DEF Carries
  <2>2. QED
    BY <1>4, <2>1 DEF Written
<1>8. top \in Nat
  <2>1. host.ses[f.ses] \in SessionState
    BY <1>0, <1>7 DEF Typed, HostTyped, HostState
  <2>2. QED
    BY <2>1 DEF SessionState
<1>9. k \in Int
  <2>1. f.q \in Seq(Nat) /\ f.pane \in Panes
    BY DEF Feed
  <2>2. bind[f.pane] \in Turn /\ pane[f.pane] \in PaneState
    BY <1>0, <2>1 DEF Typed, PanesTyped
  <2>3. Base(f) \in Int
    BY <2>2, TurnFields, PaneFields DEF Base
  <2>4. Len(f.q) \in Nat
    BY <2>1
  <2>5. QED
    BY <2>3, <2>4
<1> HIDE DEF w, k, top
<1>10. w[1].n = k + 1 /\ Stream(Tail(w), 0, f.ses, k + 1, top)
  <2>1. w[1].n <= top
    BY <1>7, <1>8
  <2>2. QED
    BY <1>1, <1>5, <1>6, <1>8, <1>9, <2>1, StreamTaken
<1>11. w[1].n \in Nat /\ k + 1 <= top
  BY <1>7, <1>8, <1>10
<1>12. QED
  BY <1>2, <1>10, <1>11 DEF w, k, top

\* Who watched, and what a route follows, as a reader leaves them.
LEMMA ReadsLeaves ==
  ASSUME Goes, NEW l \in 1 .. Len(links), Reads(l), NEW f \in feeds, f \in Feed, NEW g \in feeds', g \in Feed,
         ReadsTo(l, f, g), Ours(g)'
  PROVE  Ours(f) /\ Base(g)' = Base(f)
<1>0. /\ Typed /\ Adopts' = Adopts
  BY DEF Goes, Inv
<1>1. pane' = pane
  BY <1>0, ReadsFacts
<1>2. g.pane = f.pane /\ g.gen = f.gen /\ f.pane \in Panes
  BY DEF ReadsTo, Feed
<1>3. Watched(f.pane)
  BY <1>0, <1>1, <1>2 DEF Ours, Watched, Apart, Born
<1>4. Ours(f)
  BY <1>1, <1>2, <1>3 DEF Ours, InForce
<1>5. bind'[f.pane].upto = bind[f.pane].upto
  BY <1>0, <1>2, TurnsRead
<1>6. QED
  BY <1>1, <1>2, <1>4, <1>5 DEF Base

\* Who watched, and what a route follows, when nobody reads: the same, unless its attach is answered or its pump
\* takes a chunk.
LEMMA StandsLeaves ==
  ASSUME Goes, PanesNext, ReadsNone, NEW f \in feeds, f \in Feed, NEW g \in feeds', g \in Feed, Stands(f,
      g), Ours(g)'
  PROVE  /\ Ours(f)
         /\ \/ Base(g)' = Base(f)
            \/ f.gen = 0 /\ bind[f.pane].at = "attaching" /\ g.q = <<>> /\ g.state # "live" /\ HostAttaches(f.pane)
         /\ f.gen = 0 /\ bind[f.pane].at # "attaching" => bind'[f.pane] = bind[f.pane]
         /\ f.gen = 0 => bind'[f.pane].l = bind[f.pane].l /\ bind[f.pane].at \in Attaching
<1>0. /\ Typed /\ Typed' /\ Unmade /\ Keyed /\ Keyed' /\ Routes /\ Adopts' = Adopts
      /\ (\A q \in Panes : pane[q].born => pane'[q].born) /\ \A q \in Panes : Flows(q)
  BY DEF Goes, Inv, Flow
<1> DEFINE p == f.pane
<1>1. /\ g.pane = p /\ g.gen = f.gen /\ g.q = f.q /\ p \in Panes /\ f.gen \in Nat /\ f.q \in Seq(Nat)
      /\ g.state \in {f.state, "ended"}
  BY RouteParts
<1>2. Watched(p)'
  BY <1>1 DEF Ours
<1> HIDE DEF p
<1>3. CASE f.gen = 0
  <2>1. bind[p].at \in Attaching /\ bind'[p].at \in Attaching
    BY <1>0, <1>1, <1>3 DEF Keyed, p
  <2>2. pane[p].born
    <3>1. bind[p].at # "idle"
      BY <2>1 DEF Attaching
    <3>2. QED
      BY <1>0, <1>1, <3>1, UnmadeFacts
  <2>3. Watched(p)
    BY <1>0, <1>1, <1>2, <2>2, WatchedWas DEF Starts, Made
  <2>4. /\ bind'[p].l = bind[p].l
        /\ \/ bind'[p] = bind[p]
           \/ bind[p].at = "attaching" /\ HostAttaches(p)
           \/ \E l \in DOMAIN links : Reads(l)
    BY <1>0, <1>1, <2>1, AttachGoes
  <2>5. bind[p].at = "attaching" => f.q = <<>> /\ f.state # "live"
    BY <1>0, <1>3 DEF Routes, Pending, p
  <2>6. bind'[p] = bind[p] \/ (bind[p].at = "attaching" /\ g.q = <<>> /\ g.state # "live" /\ HostAttaches(p))
    BY <1>1, <2>4, <2>5 DEF ReadsNone
  <2>7. Ours(f)
    BY <1>3, <2>3 DEF Ours, p
  <2>8. bind'[p] = bind[p] => Base(g)' = Base(f)
    BY <1>1, <1>3 DEF Base, p
  <2>9. QED
    BY <1>3, <2>1, <2>4, <2>6, <2>7, <2>8 DEF p
<1>4. CASE f.gen # 0
  <2>1. f.gen = pane'[p].gen
    BY <1>1, <1>4 DEF Ours, InForce, p
  <2>2. InForce(f) /\ pane[p].born /\ pane'[p].gen = pane[p].gen
    BY <1>4, <2>1, ForceWas DEF p
  <2>3. Watched(p)
    BY <1>0, <1>1, <1>2, <2>2, WatchedWas DEF Starts, Made
  <2>4. pane'[p].anchor = pane[p].anchor
    <3>1. \/ pane'[p].anchor = pane[p].anchor
          \/ \E h \in feeds : h.pane = p /\ Forwards(h)
      BY <1>0, <1>1, <2>2, GenGoes
    <3>2. ASSUME NEW h \in feeds, h.pane = p, Forwards(h) PROVE FALSE
      <4>1. h \in Feed /\ InForce(h)
        BY <3>2, ForwardsForce
      <4>2. h = f
        BY <1>0, <2>2, <3>2, <4>1 DEF Keyed, InForce, p
      <4>3. [f EXCEPT !.q = Tail(f.q)] \in feeds' /\ f.q # <<>>
        BY <1>0, <3>2, <4>2, ForwardsFacts
      <4>4. [f EXCEPT !.q = Tail(f.q)].pane = p /\ [f EXCEPT !.q = Tail(f.q)].gen = f.gen
            /\ [f EXCEPT !.q = Tail(f.q)].q = Tail(f.q)
        BY DEF Feed, p
      <4>5. g = [f EXCEPT !.q = Tail(f.q)]
        BY <1>0, <1>1, <4>3, <4>4 DEF Keyed
      <4>6. Tail(f.q) = f.q
        BY <1>1, <4>4, <4>5
      <4>7. \A n \in Nat : Len(Tail(f.q)) = Len(f.q) - 1 /\ Len(f.q) \in Nat
        BY <1>1, <4>3, QueueParts
      <4>8. Len(f.q) = Len(f.q) - 1 /\ Len(f.q) \in Nat
        BY <4>6, <4>7
      <4>9. QED
        BY <4>8
    <3>3. QED
      BY <3>1, <3>2
  <2>5. Ours(f)
    BY <2>2, <2>3 DEF Ours, p
  <2>6. Base(g)' = Base(f)
    BY <1>1, <1>4, <2>4 DEF Base, p
  <2>7. QED
    BY <1>4, <2>5, <2>6
<1>5. QED
  BY <1>3, <1>4

\* A route follows a number.
LEMMA BaseIs ==
  ASSUME Typed, NEW f \in Feed
  PROVE  Base(f) \in Int
<1>1. f.pane \in Panes
  BY DEF Feed
<1>2. bind[f.pane] \in Turn /\ pane[f.pane] \in PaneState
  BY <1>1 DEF Typed, PanesTyped
<1>3. QED
  BY <1>2, TurnFields, PaneFields DEF Base

\* Who watches a pane that was made before did.
LEMMA MadeWatched ==
  ASSUME Goes, NEW p \in Panes, pane[p].born, Watched(p)'
  PROVE  Watched(p)
<1>1. Typed /\ Typed' /\ Unmade /\ Adopts' = Adopts /\ Flows(p) /\ \A q \in Panes : pane[q].born => pane'[q].born
  BY DEF Goes, Inv
<1>2. ~Starts(p)
  BY DEF Starts, Made
<1>3. QED
  BY <1>1, <1>2, WatchedWas

\* What a pump that takes a chunk follows.
LEMMA DrainedLeaves ==
  ASSUME Goes, NEW f \in feeds, f \in Feed, NEW g \in feeds', g \in Feed, Drained(f, g), Ours(g)'
  PROVE  Ours(f) /\ Base(g)' = Base(f) + 1 /\ f.q # <<>> /\ f.q[1] # None
<1>0. Typed
  BY DEF Goes, Inv
<1>1. /\ g.pane = f.pane /\ g.gen = f.gen /\ f.gen # 0 /\ f.q # <<>> /\ Forwards(f)
  BY RouteParts
<1>2. f.pane \in Panes /\ InForce(f) /\ pane[f.pane].born
  BY <1>1, ForwardsForce
<1>3. f.q[1] # None /\ pane'[f.pane].anchor = pane[f.pane].anchor + 1
  BY <1>0, <1>1, ForwardsFacts
<1>4. Watched(f.pane)
  BY <1>1, <1>2, MadeWatched DEF Ours
<1>5. Base(g)' = Base(f) + 1
  BY <1>1, <1>3 DEF Base
<1>6. QED
  BY <1>1, <1>2, <1>3, <1>4, <1>5 DEF Ours

\* ... and the route of an attach that is done.
LEMMA EntersLeaves ==
  ASSUME Goes, NEW f \in feeds, f \in Feed, NEW g \in feeds', g \in Feed, Enters(f, g), Ours(g)'
  PROVE  Ours(f) /\ Base(g)' = Base(f) /\ bind[f.pane].at = "attached"
<1>0. Typed /\ Unmade
  BY DEF Goes, Inv
<1>1. /\ g.pane = f.pane /\ g.gen = pane'[f.pane].gen /\ f.gen = 0 /\ Attached(f.pane) /\ f.pane \in Panes
  BY RouteParts
<1>2. /\ bind[f.pane].at = "attached" /\ pane'[f.pane].gen = pane[f.pane].gen + 1
      /\ pane'[f.pane].anchor = bind[f.pane].upto
  BY <1>0, <1>1, AttachedFacts
<1>3. pane[f.pane].born /\ pane[f.pane].gen \in Nat
  <2>1. bind[f.pane].at # "idle"
    BY <1>2
  <2>2. pane[f.pane].born
    BY <1>0, <1>1, <2>1, UnmadeFacts
  <2>3. pane[f.pane] \in PaneState
    BY <1>0, <1>1 DEF Typed, PanesTyped
  <2>4. QED
    BY <2>2, <2>3, PaneFields
<1>4. Watched(f.pane)
  BY <1>1, <1>3, MadeWatched DEF Ours
<1>5. g.gen # 0
  BY <1>1, <1>2, <1>3
<1>6. Base(g)' = Base(f)
  BY <1>1, <1>2, <1>5 DEF Base
<1>7. QED
  BY <1>1, <1>2, <1>4, <1>6 DEF Ours

\* What a route holds follows what its pane has.
LEMMA RowStep ==
  ASSUME Goes, PanesNext, NEW g \in feeds', Ours(g)'
  PROVE  InRow(g.q, Base(g)', g.state)
<1>0. Typed /\ InOrder
  BY DEF Goes, Inv, Flow
<1>1. g \in Feed
  BY RouteFrom
<1>2. CASE ReadsNone /\ Arises(g)
  <2>1. g.q = <<>>
    BY <1>2 DEF Arises
  <2>2. QED
    BY <2>1 DEF InRow
<1>3. ASSUME ReadsNone, NEW f \in feeds, f \in Feed, Stands(f, g)
      PROVE  InRow(g.q, Base(g)', g.state)
  <2>1. Base(g)' = Base(f) \/ g.q = <<>>
    BY <1>1, <1>3, StandsLeaves
  <2>2. g.q = f.q /\ g.state \in {f.state, "ended"} /\ f.q \in Seq(Nat)
    BY <1>1, <1>3, RouteParts
  <2>3. Ours(f)
    BY <1>1, <1>3, StandsLeaves
  <2>4. InRow(f.q, Base(f), f.state) /\ Base(f) \in Int
    BY <1>0, <1>3, <2>3, BaseIs DEF InOrder
  <2>5. InRow(g.q, Base(f), g.state)
    BY <2>2, <2>4, RowParts
  <2>6. CASE g.q = <<>>
    BY <2>6 DEF InRow
  <2>7. QED
    BY <2>1, <2>5, <2>6
<1>4. ASSUME NEW f \in feeds, f \in Feed, Drained(f, g)
      PROVE  InRow(g.q, Base(g)', g.state)
  <2>1. Ours(f) /\ Base(g)' = Base(f) + 1 /\ f.q # <<>> /\ f.q[1] # None
    BY <1>1, <1>4, DrainedLeaves
  <2>2. g.q = Tail(f.q) /\ g.state = f.state /\ f.q \in Seq(Nat)
    BY <1>1, <1>4, RouteParts
  <2>3. InRow(f.q, Base(f), f.state) /\ Base(f) \in Int
    BY <1>0, <1>4, <2>1, BaseIs DEF InOrder
  <2>4. InRow(Tail(f.q), Base(f) + 1, f.state)
    BY <2>1, <2>2, <2>3, RowParts
  <2>5. QED
    BY <2>1, <2>2, <2>4
<1>5. ASSUME NEW f \in feeds, f \in Feed, Enters(f, g)
      PROVE  InRow(g.q, Base(g)', g.state)
  <2>1. Ours(f) /\ Base(g)' = Base(f)
    BY <1>1, <1>5, EntersLeaves
  <2>2. g.q = f.q /\ g.state = f.state
    BY <1>1, <1>5, RouteParts
  <2>3. QED
    BY <1>0, <2>1, <2>2 DEF InOrder
<1>6. ASSUME NEW l \in 1 .. Len(links), Reads(l), NEW f \in feeds, f \in Feed, ReadsTo(l, f, g)
      PROVE  InRow(g.q, Base(g)', g.state)
  <2> DEFINE frame == Head(links[l].wire)
  <2>1. Ours(f) /\ Base(g)' = Base(f)
    BY <1>1, <1>6, ReadsLeaves
  <2>2. InRow(f.q, Base(f), f.state) /\ Base(f) \in Int /\ f.q \in Seq(Nat)
    BY <1>0, <1>6, <2>1, BaseIs DEF InOrder, Feed
  <2>3. CASE g = f
    BY <2>1, <2>2, <2>3
  <2>4. CASE Fits(f, l,
      frame) /\ frame.kind = "data" /\ f.state = "live" /\ g.state = "live" /\ g.q = Append(f.q, frame.n)
    <3>1. frame.n \in Nat /\ frame.n = Base(f) + Len(f.q) + 1
      BY <1>6, <2>1, <2>4, NextChunk
    <3>2. InRow(Append(f.q, Base(f) + Len(f.q) + 1), Base(f), f.state)
      BY <2>2, <2>4, <3>1, RowParts
    <3>3. QED
      BY <2>1, <2>4, <3>1, <3>2
  <2>5. CASE f.state = "live" /\ g.state = "ended" /\ g.q = Append(f.q, None)
    <3>1. InRow(Append(f.q, None), Base(f), "ended")
      BY <2>2, <2>5, RowParts
    <3>2. QED
      BY <2>1, <2>5, <3>1
  <2>6. CASE f.state = "pending" /\ g.q = f.q
    <3>1. \A i \in 1 .. Len(f.q) : f.q[i] = Base(f) + i
      BY <2>2, <2>6 DEF InRow
    <3>2. QED
      BY <2>1, <2>6, <3>1 DEF InRow
  <2>7. QED
    BY <1>6, <2>3, <2>4, <2>5, <2>6 DEF ReadsTo
<1>7. \A f \in feeds : f \in Feed
  BY <1>0 DEF Typed, NetTyped
<1>8. QED
  BY <1>2, <1>3, <1>4, <1>5, <1>6, <1>7, RouteFrom DEF RouteGoes

\* So do all the routes hold chunks in a row.
LEMMA InOrderStep ==
  ASSUME Goes, PanesNext
  PROVE  InOrder'
  BY RowStep DEF InOrder

-----------------------------------------------------------------------------
\* What comes to the routes.

\* A route that lives is of a pane of the registry, and of the pane's session, on the boot the host is at.
LEMMA OursHas ==
  ASSUME Goes, NEW f \in feeds, f \in Feed, Ours(f), f.state # "ended"
  PROVE  LET p == f.pane IN
         /\ p \in Panes /\ pane[p].in /\ pane[p].born /\ Apart
         /\ pane[p].remote # None /\ f.ses = pane[p].remote /\ pane[p].boot = host.boot
         /\ f.l \in 1 .. Len(links) /\ links[f.l].up /\ BootOf(f.l) = host.boot
         /\ f.ses \in 1 .. Len(host.ses)
         /\ f.gen = 0 => /\ bind[p].at \in Attaching /\ f.l = bind[p].l /\ f.ses = bind[p].ses
         /\ f.gen # 0 => /\ InForce(f) /\ bind[p].at # "detaching" /\ f.state # "pending"
<1>0. /\ Typed /\ Unmade /\ Placed /\ Keyed /\ Reached /\ Coded(f) /\ Pending(f) /\ Pumping(f)
  BY DEF Goes, Inv, Flow, Routes
<1> DEFINE p == f.pane
<1>1. p \in Panes
  BY DEF Feed
<1>2. pane[p].in /\ Apart
  BY DEF Ours, Watched
<1>3. pane[p].born
  BY <1>0, <1>1, <1>2, UnmadeFacts
<1>4. f.l \in 1 .. Len(links) /\ links[f.l].up
  BY <1>0 DEF Coded
<1>5. BootOf(f.l) = host.boot
  <2>1. f.l # None
    BY <1>0, <1>4, RestingAt DEF Typed, NetTyped
  <2>2. QED
    BY <1>0, <1>4, <2>1 DEF Reached, Up
<1>6. f.ses \in 1 .. Len(host.ses)
  BY <1>0, <1>5 DEF Coded
<1>7. f.gen = 0 => bind[p].at \in Attaching /\ f.l = bind[p].l /\ f.ses = bind[p].ses
  BY <1>0 DEF Keyed, Pending
<1>8. f.gen # 0 => /\ InForce(f) /\ bind[p].at # "detaching" /\ f.state # "pending"
                   /\ pane[p].remote # None /\ f.ses = pane[p].remote /\ BootOf(f.l) = pane[p].boot
  BY <1>0, <1>2 DEF Ours, Pumping
<1>9. f.gen = 0 => pane[p].remote # None /\ f.ses = pane[p].remote /\ BootOf(f.l) = pane[p].boot
  BY <1>0, <1>1, <1>7 DEF Placed
<1> HIDE DEF p
<1>10. QED
  BY <1>1, <1>2, <1>3, <1>4, <1>5, <1>6, <1>7, <1>8, <1>9 DEF p

\* No detach is of its session: its pane is at no detach, and no other pane has the session, unless it is over.
LEMMA DetachesElse ==
  ASSUME Goes, NEW f \in feeds, f \in Feed, Ours(f), f.state # "ended", NEW p \in Panes, HostDetaches(p)
  PROVE  bind[p].ses # f.ses \/ host.ses[f.ses].st # "runs"
<1>0. /\ Typed /\ Unmade /\ Placed /\ Named /\ Reached /\ NeverTwoPanes /\ LeaveOf(p)
  BY DEF Goes, Inv, Flow, Leaving
<1> DEFINE q == f.pane
<1>1. /\ q \in Panes /\ pane[q].in /\ pane[q].born /\ Apart
      /\ pane[q].remote # None /\ f.ses = pane[q].remote /\ pane[q].boot = host.boot
      /\ f.gen = 0 => bind[q].at \in Attaching
      /\ f.gen # 0 => bind[q].at # "detaching"
  BY OursHas
<1>2. bind[p].at = "detaching" /\ Up(bind[p].l)
  BY <1>0, DetachFacts
<1>3. p # q
  BY <1>1, <1>2 DEF Attaching
<1>4. pane[p].remote # None /\ bind[p].ses = pane[p].remote /\ (Adopts => pane[p].in \/ Done(BootOf(bind[p].l), bind[p].ses))
  BY <1>0, <1>2 DEF LeaveOf
<1>5. BootOf(bind[p].l) = host.boot /\ pane[p].boot = host.boot
  <2>1. bind[p].l \in 1 .. Len(links)
    BY <1>0, <1>2 DEF Named
  <2>2. pane[p].boot = BootOf(bind[p].l)
    BY <1>0, <1>2, <1>4 DEF Placed
  <2>3. QED
    BY <1>0, <1>2, <2>1, <2>2 DEF Reached
<1>6. CASE Adopts /\ pane[p].in
  <2>1. pane[p].remote # pane[q].remote
    BY <1>0, <1>1, <1>3, <1>4, <1>5, <1>6 DEF NeverTwoPanes, HeldOnce
  <2>2. QED
    BY <1>1, <1>4, <2>1
<1>7. CASE Done(BootOf(bind[p].l), bind[p].ses)
  BY <1>5, <1>7 DEF Done
<1>8. CASE ~Adopts
  <2>1. pane[p].born
    BY <1>0, <1>2, UnmadeFacts
  <2>2. QED
    BY <1>0, <1>1, <1>3, <1>8, <2>1, OneBorn
<1>9. QED
  BY <1>4, <1>6, <1>7, <1>8

\* So what comes to it still does, unless somebody reads.
LEMMA SureStays ==
  ASSUME Goes, ReadsNone, NEW f \in feeds, f \in Feed, Ours(f), f.state # "ended", links'[f.l].up,
         NEW k \in Int, NEW j \in 0 .. Len(links[f.l].wire), Sure(f.l, j, f.ses, k)
  PROVE  Sure(f.l, j, f.ses, k)'
<1>1. f.l \in 1 .. Len(links) /\ links[f.l].up /\ f.ses \in 1 .. Len(host.ses)
  BY OursHas
<1>2. \A p \in Panes : HostDetaches(p) => bind[p].ses # f.ses \/ host.ses[f.ses].st # "runs"
  BY DetachesElse
<1> DEFINE l == f.l
           id == f.ses
<1> HIDE DEF l, id
<1>3. Sure(l, j, id, k)'
  <2>1. /\ l \in 1 .. Len(links) /\ links[l].up /\ links'[l].up /\ id \in 1 .. Len(host.ses)
        /\ j \in 0 .. Len(links[l].wire) /\ Sure(l, j, id, k)
        /\ \A p \in Panes : HostDetaches(p) => bind[p].ses # id \/ host.ses[id].st # "runs"
    BY <1>1, <1>2 DEF l, id
  <2>2. QED
    BY <2>1, SureKeeps
<1>4. QED
  BY <1>3 DEF l, id

\* What a reader leaves on the wires.
LEMMA SureRead ==
  ASSUME Typed, NEW l \in 1 .. Len(links), Reads(l), NEW m \in 1 .. Len(links), NEW id, NEW k, NEW j \in Nat
  PROVE  /\ m # l /\ Sure(m, j, id, k) => Sure(m, j, id, k)'
         /\ m = l /\ Sure(m, j + 1, id, k) => Sure(m, j, id, k)'
         /\ m = l /\ ~DataAt(links[l].wire, 1, id) /\ Sure(m, 0, id, k) => Sure(m, 0, id, k)'
<1>1. /\ links[l].wire \in Seq(Frame) /\ links[l].wire # <<>> /\ host' = host
      /\ links'[l].wire = Tail(links[l].wire) /\ \A n \in 1 .. Len(links) : n # l => links'[n] = links[n]
  BY ReadsFacts
<1>2. m # l /\ Sure(m, j, id, k) => Sure(m, j, id, k)'
  BY <1>1 DEF Sure
<1>3. m = l /\ Sure(m, j + 1, id, k) => Sure(m, j, id, k)'
  <2>1. SUFFICES ASSUME m = l, Sure(l, j + 1, id, k) PROVE Sure(l, j, id, k)'
    OBVIOUS
  <2>2. Stream(Tail(links[l].wire), j, id, k, host.ses[id].out)
    BY <1>1, <2>1, StreamShifts DEF Sure
  <2>3. QED
    BY <1>1, <2>1, <2>2 DEF Sure
<1>4. m = l /\ ~DataAt(links[l].wire, 1, id) /\ Sure(m, 0, id, k) => Sure(m, 0, id, k)'
  <2>1. SUFFICES ASSUME m = l, ~DataAt(links[l].wire, 1, id), Sure(l, 0, id, k) PROVE Sure(l, 0, id, k)'
    OBVIOUS
  <2>2. Stream(Tail(links[l].wire), 0, id, k, host.ses[id].out)
    BY <1>1, <2>1, StreamSkips DEF Sure
  <2>3. QED
    BY <1>1, <2>1, <2>2 DEF Sure
<1>5. QED
  BY <1>2, <1>3, <1>4

\* A route that takes output has what it holds followed by what comes: nobody reads,
LEMMA LiveStands ==
  ASSUME Goes, PanesNext, ReadsNone, NEW g \in feeds', Ours(g)', g.state = "live", NEW k,
      k = Base(g)' + Len(g.q)
  PROVE  Sure(g.l, 0, g.ses, k)'
<1>0. Typed /\ Coming /\ \A f \in feeds : f \in Feed
  BY DEF Goes, Inv, Flow, Typed, NetTyped
<1>1. g \in Feed /\ RouteGoes(g)
  <2>1. ~\E l \in 1 .. Len(links) : Reads(l)
    BY <1>0 DEF ReadsNone, Typed, NetTyped
  <2>2. QED
    BY <2>1, RouteFrom
<1>2. g.l \in 1 .. Len(links) /\ links'[g.l].up
  BY RoutesUp
<1>3. ASSUME NEW f \in feeds, f \in Feed, Ours(f), f.state = "live", g.l = f.l, g.ses = f.ses,
             Base(f) + Len(f.q) = k
      PROVE  Sure(g.l, 0, g.ses, k)'
  <2>1. Sure(f.l, 0, f.ses, k)
    BY <1>0, <1>3 DEF Coming, ComesTo
  <2>2. k \in Int
    <3>1. Base(f) \in Int
      BY <1>0, <1>3, BaseIs
    <3>2. f.q \in Seq(Nat)
      BY <1>3 DEF Feed
    <3>3. Len(f.q) \in Nat
      BY <3>2
    <3>4. QED
      BY <1>3, <3>1, <3>3
  <2>3. 0 \in 0 .. Len(links[f.l].wire)
    <3>1. links[f.l] \in Link
      BY <1>0, <1>2, <1>3 DEF Typed, NetTyped
    <3>2. Len(links[f.l].wire) \in Nat
      BY <3>1 DEF Link
    <3>3. QED
      BY <3>2
  <2>4. f.state # "ended" /\ links'[f.l].up
    BY <1>2, <1>3
  <2>5. Sure(f.l, 0, f.ses, k)'
    BY <1>3, <2>1, <2>2, <2>3, <2>4, SureStays
  <2>6. QED
    BY <1>3, <2>5
<1>4. ~Arises(g)
  BY DEF Arises
<1>5. ASSUME NEW f \in feeds, Stands(f, g) PROVE Sure(g.l, 0, g.ses, k)'
  <2>1. g.l = f.l /\ g.ses = f.ses /\ g.q = f.q /\ f.state = "live"
    BY <1>0, <1>1, <1>5, RouteParts
  <2>2. Ours(f) /\ Base(g)' = Base(f)
    BY <1>0, <1>1, <1>5, StandsLeaves
  <2>3. QED
    BY <1>0, <1>3, <2>1, <2>2
<1>6. ASSUME NEW f \in feeds, Drained(f, g) PROVE Sure(g.l, 0, g.ses, k)'
  <2>1. g.l = f.l /\ g.ses = f.ses /\ g.q = Tail(f.q) /\ f.state = "live" /\ f.q \in Seq(Nat)
    BY <1>0, <1>1, <1>6, RouteParts
  <2>2. Ours(f) /\ Base(g)' = Base(f) + 1 /\ f.q # <<>>
    BY <1>0, <1>1, <1>6, DrainedLeaves
  <2>3. Len(g.q) = Len(f.q) - 1 /\ Len(f.q) \in Nat
    <3>1. \A n \in Nat : Len(Tail(f.q)) = Len(f.q) - 1 /\ Len(f.q) \in Nat
      BY <2>1, <2>2, QueueParts
    <3>2. QED
      BY <2>1, <3>1
  <2>4. Base(f) \in Int
    BY <1>0, BaseIs
  <2>5. Base(f) + Len(f.q) = k
    BY <2>2, <2>3, <2>4
  <2>6. QED
    BY <1>0, <1>3, <2>1, <2>2, <2>5
<1>7. ASSUME NEW f \in feeds, Enters(f, g) PROVE Sure(g.l, 0, g.ses, k)'
  <2>1. g.l = f.l /\ g.ses = f.ses /\ g.q = f.q /\ f.state = "live"
    BY <1>0, <1>1, <1>7, RouteParts
  <2>2. Ours(f) /\ Base(g)' = Base(f)
    BY <1>0, <1>1, <1>7, EntersLeaves
  <2>3. QED
    BY <1>0, <1>3, <2>1, <2>2
<1>8. QED
  BY <1>1, <1>4, <1>5, <1>6, <1>7 DEF RouteGoes

\* ... or a reader hands it the next chunk, or the answer of its attach.
LEMMA LiveReads ==
  ASSUME Goes, PanesNext, NEW l \in 1 .. Len(links), Reads(l), NEW f \in feeds, f \in Feed, NEW g \in feeds',
         g \in Feed, ReadsTo(l, f, g), Ours(g)', g.state = "live", NEW k, k = Base(g)' + Len(g.q)
  PROVE  Sure(g.l, 0, g.ses, k)'
<1>0. Typed /\ Coming /\ Carries /\ Pending(f)
  BY DEF Goes, Inv, Flow, Routes
<1> DEFINE frame == Head(links[l].wire)
           w == links[l].wire
<1>1. Ours(f) /\ Base(g)' = Base(f) /\ g.l = f.l /\ g.ses = f.ses
  <2>1. Ours(f) /\ Base(g)' = Base(f)
    BY ReadsLeaves
  <2>2. QED
    BY <2>1 DEF ReadsTo
<1>2. /\ w \in Seq(Frame) /\ w # <<>> /\ host' = host /\ links'[l].wire = Tail(w)
  BY <1>0, ReadsFacts
<1>3. frame = w[1] /\ 1 \in 1 .. Len(w)
  BY <1>2
<1>4. Base(f) \in Int /\ f.q \in Seq(Nat) /\ Len(f.q) \in Nat
  <2>1. f.q \in Seq(Nat)
    BY DEF Feed
  <2>2. QED
    BY <1>0, <2>1, BaseIs
<1>5. CASE g = f /\ ~(Fits(f, l, frame) /\ frame.kind = "data" /\ f.state = "live")
  <2>1. Sure(f.l, 0, f.ses, k)
    BY <1>0, <1>1, <1>5 DEF Coming, ComesTo
  <2>2. f.l \in 1 .. Len(links)
    BY <1>1, <1>5, OursHas
  <2>3. f.l = l => ~DataAt(w, 1, f.ses)
    BY <1>3, <1>5 DEF Fits, DataAt
  <2>4. Sure(f.l, 0, f.ses, k)'
    BY <1>0, <2>1, <2>2, <2>3, SureRead
  <2>5. QED
    BY <1>5, <2>4
<1>6. CASE Fits(f, l, frame) /\ frame.kind = "data" /\ f.state = "live" /\ g.q = Append(f.q, frame.n)
  <2>1. /\ frame.n \in Nat /\ Stream(Tail(w), 0, f.ses, (Base(f) + Len(f.q)) + 1, host.ses[f.ses].out)
        /\ (Base(f) + Len(f.q)) + 1 <= host.ses[f.ses].out
    BY <1>1, <1>6, NextChunk
  <2>2. Len(g.q) = Len(f.q) + 1
    BY <1>4, <1>6, <2>1
  <2>3. k = (Base(f) + Len(f.q)) + 1
    BY <1>1, <1>4, <2>2
  <2>4. f.l = l
    BY <1>6 DEF Fits
  <2>5. Sure(f.l, 0, f.ses, Base(f) + Len(f.q))
    BY <1>0, <1>1, <1>6 DEF Coming, ComesTo
  <2>6. QED
    BY <1>1, <1>2, <2>1, <2>3, <2>4, <2>5 DEF Sure
<1>7. CASE Fits(f, l,
    frame) /\ frame.kind = "attached" /\ f.pane = frame.n /\ f.state = "pending" /\ g.q = f.q
  <2>1. f.gen = 0 /\ f.l = l /\ bind[f.pane].at \in Attaching
    <3>1. f.gen = 0 => bind[f.pane].at \in Attaching
      BY <1>1, <1>7, OursHas
    <3>2. f.gen # 0 => f.state # "pending"
      BY <1>1, <1>7, OursHas
    <3>3. QED
      BY <1>7, <3>1, <3>2 DEF Fits
  <2>2. Attachment(w[1], f.pane)
    BY <1>3, <1>7 DEF Attachment
  <2>3. Sure(f.l, 1, f.ses, bind[f.pane].upto)
    BY <1>0, <1>1, <1>3, <1>7, <2>1, <2>2 DEF Coming, ComesTo
  <2>4. bind[f.pane].at = "answering"
    BY <1>0, <1>3, <1>7 DEF Carries, Answered
  <2>5. f.q = <<>>
    BY <1>0, <2>1, <2>4 DEF Pending
  <2>6. k = bind[f.pane].upto
    <3>1. Base(f) = bind[f.pane].upto
      BY <2>1 DEF Base
    <3>2. Len(g.q) = 0
      BY <1>7, <2>5
    <3>3. QED
      BY <1>1, <1>4, <3>1, <3>2
  <2>7. Sure(l, 0 + 1, f.ses, k)
    BY <2>1, <2>3, <2>6
  <2>8. Sure(l, 0, f.ses, k)'
    BY <1>0, <2>7, SureRead
  <2>9. QED
    BY <1>1, <2>1, <2>8
<1>8. QED
  BY <1>5, <1>6, <1>7 DEF ReadsTo

\* A route whose attach waits for its answer will have what comes after it: nobody reads,
LEMMA PendingStands ==
  ASSUME Goes, PanesNext, ReadsNone, NEW g \in feeds', Ours(g)', g.state = "pending",
         NEW i \in 1 .. Len(links'[g.l].wire), Attachment(links'[g.l].wire[i], g.pane),
         NEW k, k = bind'[g.pane].upto
  PROVE  Sure(g.l, i, g.ses, k)'
<1>0. Typed /\ Typed' /\ Named /\ Coming /\ \A f \in feeds : f \in Feed
  BY DEF Goes, Inv, Flow, Typed, NetTyped
<1>1. g \in Feed /\ RouteGoes(g)
  <2>1. ~\E l \in 1 .. Len(links) : Reads(l)
    BY <1>0 DEF ReadsNone, Typed, NetTyped
  <2>2. QED
    BY <2>1, RouteFrom
<1>2. g.l \in 1 .. Len(links) /\ links'[g.l].up /\ g.l \in 1 .. Len(links')
  <2>1. g.l \in 1 .. Len(links) /\ links'[g.l].up
    BY RoutesUp
  <2>2. Len(links') >= Len(links) /\ Len(links) \in Nat /\ Len(links') \in Nat
    BY <1>0 DEF Goes, LinksGo, Typed, NetTyped
  <2>3. QED
    BY <2>1, <2>2
<1>3. g.pane \in Panes
  BY <1>1 DEF Feed
<1>4. ASSUME Arises(g) PROVE FALSE
  <2>1. bind'[g.pane].at = "attaching"
    BY <1>4 DEF Arises
  <2>2. Carries'
    BY CarriesStep
  <2>3. ASSUME NEW frame, frame = links'[g.l].wire[i] PROVE FALSE
    <3>1. frame.kind = "attached" /\ frame.n = g.pane
      BY <2>3 DEF Attachment
    <3>2. Answered(g.l, frame)'
      BY <1>2, <2>2, <2>3 DEF Carries
    <3>3. bind'[frame.n].at = "answering"
      BY <3>1, <3>2 DEF Answered
    <3>4. QED
      BY <2>1, <3>1, <3>3
  <2>4. QED
    BY <2>3
<1>5. ASSUME NEW f \in feeds, Drained(f, g) PROVE FALSE
  <2>1. f.state = "pending" /\ f.gen # 0
    BY <1>0, <1>1, <1>5, RouteParts
  <2>2. Ours(f)
    BY <1>0, <1>1, <1>5, DrainedLeaves
  <2>3. QED
    BY <1>0, <2>1, <2>2, OursHas
<1>6. ASSUME NEW f \in feeds, Enters(f, g) PROVE FALSE
  <2>1. f.state = "pending" /\ f.gen = 0
    BY <1>0, <1>1, <1>6, RouteParts
  <2>2. bind[f.pane].at = "attached"
    BY <1>0, <1>1, <1>6, EntersLeaves
  <2>3. Pending(f)
    BY DEF Goes, Flow, Routes
  <2>4. QED
    BY <2>1, <2>2, <2>3 DEF Pending
<1>7. ASSUME NEW f \in feeds, Stands(f, g) PROVE Sure(g.l, i, g.ses, k)'
  <2>1. g.l = f.l /\ g.ses = f.ses /\ g.pane = f.pane /\ f.state = "pending" /\ f \in Feed
    BY <1>0, <1>1, <1>7, RouteParts
  <2>2. /\ Ours(f)
        /\ f.gen = 0 /\ bind[f.pane].at # "attaching" => bind'[f.pane] = bind[f.pane]
    BY <1>0, <1>1, <1>7, StandsLeaves
  <2>3. f.gen = 0 /\ f.l = bind[f.pane].l /\ f.ses = bind[f.pane].ses
    BY <2>1, <2>2, OursHas
  <2> DEFINE l == g.l
             w == links[l].wire
             frame == links'[l].wire[i]
  <2>4. FrameGoes(l, i)
    BY <1>2, FrameFrom
  <2>5. frame.kind = "attached" /\ frame.n = g.pane
    BY DEF Attachment
  <2>6. ~Reads(l)
    BY <1>0, <1>2 DEF ReadsNone, Typed, NetTyped
  <2>7. CASE i \in 1 .. Len(w) /\ frame = w[i]
    <3>1. Sure(f.l, i, f.ses, bind[f.pane].upto)
      BY <1>0, <2>1, <2>2, <2>5, <2>7 DEF Coming, ComesTo, Attachment
    <3>2. bind[f.pane].at = "answering"
      <4>1. w[i].kind \in {"attached", "gone"} /\ w[i].n = f.pane
        BY <2>1, <2>5, <2>7
      <4>2. QED
        BY <1>2, <2>6, <2>7, <4>1, AnswerStays
    <3>3. k = bind[f.pane].upto
      BY <2>1, <2>2, <2>3, <3>2
    <3>4. k \in Int /\ i \in 0 .. Len(links[f.l].wire)
      <4>1. bind[f.pane] \in Turn
        BY <1>0, <1>3, <2>1 DEF Typed, PanesTyped
      <4>2. k \in Int
        BY <3>3, <4>1, TurnFields
      <4>3. i \in 0 .. Len(w)
        BY <2>7
      <4>4. QED
        BY <2>1, <4>2, <4>3
    <3>5. f.state # "ended" /\ links'[f.l].up
      BY <1>2, <2>1
    <3>6. Sure(f.l, i, f.ses, k)
      BY <3>1, <3>3
    <3>7. Sure(f.l, i, f.ses, k)'
      BY <2>1, <2>2, <3>4, <3>5, <3>6, SureStays
    <3>8. QED
      BY <2>1, <3>7
  <2>8. ASSUME NEW p \in Panes, HostAttaches(p), l = bind[p].l, i = Len(w) + 1,
               frame = AttachFrame(IF Exists(bind[p].ses) THEN "attached" ELSE "gone", bind[p].ses, p)
        PROVE  Sure(g.l, i, g.ses, k)'
    <3>1. p = g.pane /\ Exists(bind[p].ses)
      BY <2>5, <2>8 DEF AttachFrame
    <3> DEFINE id == bind[p].ses
               v == links'[l].wire
    <3>2. g.ses = id
      BY <2>1, <2>3, <3>1
    <3>3. /\ host'.ses[id].to = l /\ bind'[p].upto = host.ses[id].out /\ host'.ses[id].out = host.ses[id].out
          /\ \A j \in (Len(w) + 1) + 1 .. Len(v) : v[j].kind = "exit"
          /\ id \in 1 .. Len(host.ses)
      <4>1. /\ Exists(id) =>
                 /\ id \in 1 .. Len(host.ses) /\ host'.ses[id].to = bind[p].l /\ bind'[p].upto = host.ses[id].out
                 /\ \A j \in (Len(links[bind[p].l].wire) + 1) + 1 .. Len(links'[bind[p].l].wire) :
                      links'[bind[p].l].wire[j].kind = "exit"
        BY <1>0, <2>8, AttachFacts
      <4>2. \A j \in 1 .. Len(host.ses) : host'.ses[j].out = host.ses[j].out
        BY <1>0, <2>8, AttachFacts
      <4>3. QED
        BY <2>8, <3>1, <4>1, <4>2
    <3>4. k = host'.ses[id].out
      BY <3>1, <3>3
    <3>5. k \in Nat
      <4>1. bind'[g.pane] \in Turn
        BY <1>0, <1>3 DEF Typed, PanesTyped
      <4>2. QED
        BY <4>1, TurnFields
    <3>6. \A j \in i + 1 .. Len(v) : ~DataAt(v, j, id)
      BY <2>8, <3>3 DEF DataAt
    <3> HIDE DEF v
    <3>7. Stream(v, i, id, k, k)
      BY <3>5, <3>6 DEF Stream
    <3>8. QED
      BY <3>2, <3>3, <3>4, <3>5, <3>7 DEF Sure, v
  <2> HIDE DEF frame
  <2>9. QED
    BY <2>4, <2>5, <2>6, <2>7, <2>8 DEF FrameGoes, frame
<1>8. QED
  BY <1>1, <1>4, <1>5, <1>6, <1>7 DEF RouteGoes

\* ... or a reader takes what is before it.
LEMMA PendingReads ==
  ASSUME Goes, PanesNext, NEW l \in 1 .. Len(links), Reads(l), NEW f \in feeds, f \in Feed, NEW g \in feeds',
         g \in Feed, ReadsTo(l, f, g), Ours(g)', g.state = "pending",
         NEW i \in 1 .. Len(links'[g.l].wire), Attachment(links'[g.l].wire[i], g.pane),
         NEW k, k = bind'[g.pane].upto
  PROVE  Sure(g.l, i, g.ses, k)'
<1>0. Typed /\ Coming
  BY DEF Goes, Inv, Flow
<1> DEFINE w == links[l].wire
<1>1. Ours(f)
  BY ReadsLeaves
<1>2. g = f
  BY DEF ReadsTo
<1>3. f.l \in 1 .. Len(links) /\ f.gen = 0
  BY <1>1, <1>2, OursHas
<1>4. /\ w \in Seq(Frame) /\ w # <<>> /\ links'[l].wire = Tail(w)
      /\ \A n \in 1 .. Len(links) : n # l => links'[n] = links[n]
  BY <1>0, ReadsFacts
<1>5. k = bind[f.pane].upto
  <2>1. f.pane \in Panes
    BY DEF Feed
  <2>2. bind'[f.pane].upto = bind[f.pane].upto
    BY <1>0, <2>1, TurnsRead
  <2>3. QED
    BY <1>2, <2>2
<1>6. CASE f.l # l
  <2>1. links'[f.l] = links[f.l]
    BY <1>3, <1>4, <1>6
  <2>2. i \in 1 .. Len(links[f.l].wire) /\ Attachment(links[f.l].wire[i], f.pane)
    BY <1>2, <2>1
  <2>3. Sure(f.l, i, f.ses, k)
    BY <1>0, <1>1, <1>2, <1>5, <2>2 DEF Coming, ComesTo
  <2>4. i \in Nat
    OBVIOUS
  <2>5. Sure(f.l, i, f.ses, k)'
    BY <1>0, <1>3, <1>6, <2>3, <2>4, SureRead
  <2>6. QED
    BY <1>2, <2>5
<1>7. CASE f.l = l
  <2>t. links'[g.l].wire = Tail(w)
    BY <1>2, <1>4, <1>7
  <2>1. i \in 1 .. Len(Tail(w)) /\ i \in Nat
    BY <2>t
  <2>2. i + 1 \in 1 .. Len(w) /\ Tail(w)[i] = w[i + 1]
    BY <1>4, <2>1, Places
  <2>a. links'[g.l].wire[i] = w[i + 1]
    BY <2>2, <2>t
  <2>3. Attachment(w[i + 1], f.pane)
    BY <1>2, <2>a
  <2>4. Sure(l, i + 1, f.ses, k)
    BY <1>0, <1>1, <1>2, <1>5, <1>7, <2>2, <2>3 DEF Coming, ComesTo
  <2>5. Sure(l, i, f.ses, k)'
    BY <1>0, <2>1, <2>4, SureRead
  <2>6. QED
    BY <1>2, <1>7, <2>5
<1>8. QED
  BY <1>6, <1>7

\* So what comes to the routes follows what they hold.
LEMMA ComingStep ==
  ASSUME Goes, PanesNext
  PROVE  Coming'
<1>1. SUFFICES ASSUME NEW g \in feeds', Ours(g)'
               PROVE  /\ g.state = "live" => Sure(g.l, 0, g.ses, Base(g) + Len(g.q))'
                      /\ g.state = "pending" => \A i \in 1 .. Len(links'[g.l].wire) :
                           Attachment(links'[g.l].wire[i], g.pane) => Sure(g.l, i, g.ses, bind[g.pane].upto)'
  BY DEF Coming, ComesTo
<1>2. g \in Feed
  BY RouteFrom
<1>3. ASSUME g.state = "live" PROVE Sure(g.l, 0, g.ses, Base(g) + Len(g.q))'
  <2>1. ASSUME NEW k, k = Base(g)' + Len(g.q) PROVE Sure(g.l, 0, g.ses, k)'
    <3>1. CASE ReadsNone
      BY <1>1, <1>3, <2>1, <3>1, LiveStands
    <3>2. CASE ~ReadsNone
      <4>1. PICK l \in 1 .. Len(links), f \in feeds : Reads(l) /\ f \in Feed /\ ReadsTo(l, f, g)
        BY <3>2, RouteFrom
      <4>2. QED
        BY <1>1, <1>2, <1>3, <2>1, <4>1, LiveReads
    <3>3. QED
      BY <3>1, <3>2
  <2>2. QED
    BY <2>1
<1>4. ASSUME g.state = "pending", NEW i \in 1 .. Len(links'[g.l].wire), Attachment(links'[g.l].wire[i],
    g.pane)
      PROVE  Sure(g.l, i, g.ses, bind[g.pane].upto)'
  <2>1. ASSUME NEW k, k = bind'[g.pane].upto PROVE Sure(g.l, i, g.ses, k)'
    <3>1. CASE ReadsNone
      BY <1>1, <1>4, <2>1, <3>1, PendingStands
    <3>2. CASE ~ReadsNone
      <4>1. PICK l \in 1 .. Len(links), f \in feeds : Reads(l) /\ f \in Feed /\ ReadsTo(l, f, g)
        BY <3>2, RouteFrom
      <4>2. QED
        BY <1>1, <1>2, <1>4, <2>1, <4>1, PendingReads
    <3>3. QED
      BY <3>1, <3>2
  <2>2. QED
    BY <2>1
<1>5. QED
  BY <1>3, <1>4

-----------------------------------------------------------------------------
\* Who detaches and closes.

\* A turn that begins is over a link that is there.
LEMMA BeginsFrom ==
  ASSUME Goes, NEW p \in Panes, bind[p].at = "idle", bind'[p].at # "idle"
  PROVE  bind'[p].l \in 1 .. Len(links) /\ (bind'[p].at = "closing" => BootOf(bind'[p].l) = pane[p].boot)
<1>1. PaneGoes(p)
  BY DEF Goes, PanesGo
<1>2. bind'[p] # bind[p] /\ bind'[p] # Resting
  BY DEF Resting
<1>3. Begins(p)
  <2>1. ~Ends(p) /\ ~Joined(p) /\ ~Made(p)
    BY <1>2 DEF Ends, Joined, Made
  <2>2. ~Locks(p) /\ ~Takes(p)
    BY DEF Locks, Takes
  <2>3. ~GoesOn(p)
    <3>1. \A s \in Steps : s[1] # "idle"
      BY DEF Steps
    <3>2. <<bind[p].at, bind'[p].at>>[1] = "idle"
      OBVIOUS
    <3>3. QED
      BY <3>1, <3>2 DEF GoesOn
  <2>4. QED
    BY <1>1, <1>2, <2>1, <2>2, <2>3 DEF PaneGoes
<1>4. QED
  BY <1>3 DEF Begins

\* A turn that goes on as it was is of the pane's session still.
LEMMA LeaveKeeps ==
  ASSUME Goes, NEW p \in Panes, bind'[p] = bind[p], bind[p].at # "idle",
         pane'[p].remote = pane[p].remote, pane'[p].boot = pane[p].boot,
         bind[p].at = "detaching" /\ pane[p].remote # None /\ ~pane[p].lost =>
           ~pane'[p].lost /\ (Adopts /\ pane[p].in => pane'[p].in)
  PROVE  LeaveOf(p)'
<1>0. Named /\ LinksGo /\ LeaveOf(p) /\ Adopts' = Adopts
  BY DEF Goes, Inv, Flow, Leaving
<1>1. ASSUME NEW b, b = bind'[p], NEW boot, boot = links'[b.l].boot
      PROVE  /\ b.at = "detaching" => /\ pane'[p].remote # None /\ b.ses = pane'[p].remote /\ ~pane'[p].lost
                                      /\ Adopts' => pane'[p].in \/ Done(boot, b.ses)'
             /\ b.at = "closing" => InBoot(boot, b.ses)'
             /\ b.at \in {"closed", "gone"} => Done(boot, b.ses)'
             /\ b.at \in {"closing",
                 "closed"} /\ pane'[p].remote # None => b.ses = pane'[p].remote /\ pane'[p].boot = boot
  <2>1. b = bind[p] /\ boot = BootOf(b.l)
    BY <1>0, <1>1 DEF Named, LinksGo, BootOf
  <2>2. /\ Done(boot, b.ses) => Done(boot, b.ses)'
        /\ InBoot(boot, b.ses) => InBoot(boot, b.ses)'
    BY DoneStays
  <2>3. /\ b.at = "detaching" => /\ pane[p].remote # None /\ b.ses = pane[p].remote /\ ~pane[p].lost
                                 /\ Adopts => pane[p].in \/ Done(boot, b.ses)
        /\ b.at = "closing" => InBoot(boot, b.ses)
        /\ b.at \in {"closed", "gone"} => Done(boot, b.ses)
        /\ b.at \in {"closing",
            "closed"} /\ pane[p].remote # None => b.ses = pane[p].remote /\ pane[p].boot = boot
    BY <1>0, <2>1 DEF LeaveOf
  <2>4. QED
    BY <1>0, <2>1, <2>2, <2>3
<1>2. QED
  BY <1>1 DEF LeaveOf, Done, InBoot, BootOf

\* So is one that was not, of what it was found, opened or begun for.
LEMMA LeaveGoes ==
  ASSUME Goes, NEW p \in Panes, NEW b, b = bind'[p], b.l \in 1 .. Len(links), NEW boot, boot = BootOf(b.l),
         pane'[p] = pane[p] \/ (b.at = "closing" /\ pane'[p].remote = pane[p].remote /\ pane'[p].boot = pane[p].boot),
         b.at = "detaching" => /\ pane[p].remote # None /\ b.ses = pane[p].remote /\ ~pane[p].lost
                               /\ Adopts => pane[p].in \/ Done(boot, b.ses),
         b.at = "closing" => InBoot(boot, b.ses),
         b.at \in {"closed", "gone"} => Done(boot, b.ses)',
         b.at \in {"closing",
             "closed"} /\ pane[p].remote # None => b.ses = pane[p].remote /\ pane[p].boot = boot
  PROVE  LeaveOf(p)'
<1>0. LinksGo /\ Adopts' = Adopts
  BY DEF Goes, Inv
<1>1. boot = links'[b.l].boot
  BY <1>0 DEF LinksGo, BootOf
<1>2. /\ Done(boot, b.ses) => Done(boot, b.ses)'
      /\ InBoot(boot, b.ses) => InBoot(boot, b.ses)'
  BY DoneStays
<1>3. /\ b.at = "detaching" => /\ pane'[p].remote # None /\ b.ses = pane'[p].remote /\ ~pane'[p].lost
                               /\ Adopts' => pane'[p].in \/ Done(boot, b.ses)'
      /\ b.at = "closing" => InBoot(boot, b.ses)'
      /\ b.at \in {"closing",
          "closed"} /\ pane'[p].remote # None => b.ses = pane'[p].remote /\ pane'[p].boot = boot
  BY <1>0, <1>2
<1>4. QED
  BY <1>1, <1>3 DEF LeaveOf, Done, InBoot, BootOf

\* A close ends the session.
LEMMA CloseEnds ==
  ASSUME Goes, NEW p \in Panes, HostCloses(p), NEW l, l = bind[p].l, NEW id, id = bind[p].ses,
         NEW boot, boot = BootOf(l), InBoot(boot, id)
  PROVE  Done(boot, id)'
<1>0. Typed /\ Named /\ Reached
  BY DEF Goes, Inv
<1>1. bind[p].at = "closing" /\ Up(l)
  BY DEF HostCloses, Calls
<1>2. l \in 1 .. Len(links)
  BY <1>0, <1>1 DEF Named
<1>3. BootOf(l) = host.boot
  BY <1>0, <1>1, <1>2 DEF Reached
<1>4. id \in 1 .. Len(host.ses) /\ DOMAIN host.ses = 1 .. Len(host.ses)
  BY <1>0, <1>3 DEF InBoot, Typed, HostTyped, HostState
<1>5. host'.ses[id].st # "runs" /\ host'.boot = host.boot
  <2>1. CASE Exists(id)
    <3>1. host' = [host EXCEPT !.ses[id].st = "closed"]
      BY <2>1 DEF HostCloses
    <3>2. host'.ses[id].st = "closed"
      BY <1>0, <1>4, <3>1, SesSet
    <3>3. host'.boot = host.boot
      BY <3>1, <1>0 DEF Typed, HostTyped, HostState
    <3>4. QED
      BY <3>2, <3>3
  <2>2. CASE ~Exists(id)
    <3>1. host' = host
      BY <2>2 DEF HostCloses
    <3>2. QED
      BY <1>4, <2>2, <3>1 DEF Exists, Session
  <2>3. QED
    BY <2>1, <2>2
<1>6. InBoot(boot, id)'
  BY DoneStays
<1>7. QED
  BY <1>5, <1>6 DEF Done

\* A pane leaves the registry while it hides, if at all, when nobody attaches its session any more.
LEMMA OutIsDone ==
  ASSUME Goes, NEW p \in Panes, Stays(p), Adopts, pane[p].in, ~pane'[p].in, ~pane[p].lost,
      pane[p].remote # None,
         \A f \in feeds : f.pane = p => ~InForce(f)
  PROVE  Done(pane[p].boot, pane[p].remote) /\ bind[p].at # "detaching"
<1>0. /\ Typed /\ Placed /\ Hosted /\ Reached /\ OneUp /\ Following /\ LeaveOf(p)
  BY DEF Goes, Inv, Flow, Leaving
<1>1. \/ bind[p].at \in Seeking \cup {"closed"}
      \/ /\ bind[p].at = "idle" /\ live \in 1 .. Len(links)
         /\ pane[p].boot # BootOf(live)
  BY DEF Stays, InKept
<1>2. bind[p].at \notin Seeking
  BY <1>0 DEF Placed
<1>3. CASE bind[p].at = "closed"
  BY <1>0, <1>3 DEF LeaveOf
<1>4. CASE bind[p].at = "idle" /\ live \in 1 .. Len(links) /\ pane[p].boot # BootOf(live)
  <2>1. live = Len(links) /\ Len(links) # 0
    BY <1>0, <1>4, RestingAt DEF OneUp, Typed, NetTyped
  <2>2. pane[p].boot <= BootOf(live)
    BY <1>0, <2>1 DEF Following
  <2>3. BootOf(live) \in 1 .. host.boot
    BY <1>0, <1>4 DEF Reached
  <2>4. pane[p].boot \in Nat /\ host.boot \in Nat
    <3>1. pane[p] \in PaneState
      BY <1>0 DEF Typed, PanesTyped
    <3>2. QED
      BY <1>0, <3>1, PaneFields DEF Typed, HostTyped, HostState
  <2>5. pane[p].boot # host.boot
    BY <1>4, <2>2, <2>3, <2>4
  <2>6. InBoot(pane[p].boot, pane[p].remote)
    BY <1>0 DEF Hosted
  <2>7. QED
    BY <1>4, <2>5, <2>6 DEF Done
<1>5. QED
  BY <1>1, <1>2, <1>3, <1>4

\* A turn that detaches is of the session its pane has, and one that closes of what it closes.
LEMMA LeaveStep ==
  ASSUME Goes, PanesNext, NEW p \in Panes
  PROVE  LeaveOf(p)'
<1>0. /\ Typed /\ Unmade /\ Named /\ Named' /\ Placed /\ Hosted /\ Waits /\ LeaveOf(p) /\ Routes /\ Carries
      /\ Leaving /\ Flows(p)
  BY DEF Goes, Inv, Flow, Leaving
<1>1. CASE bind'[p].at \notin {"detaching", "closing", "closed", "gone"}
  BY <1>1 DEF LeaveOf
<1>2. ASSUME bind'[p].at \in {"detaching", "closing", "closed", "gone"} PROVE LeaveOf(p)'
  <2>r. bind'[p] # Resting
    BY <1>2 DEF Resting
  <2>p. pane[p] \in PaneState
    BY <1>0 DEF Typed, PanesTyped
  <2>1. CASE Stays(p)
    <3>1. bind'[p] = bind[p] /\ Kept(pane[p], pane'[p])
      BY <2>1, <2>r DEF Stays
    <3>2. bind[p].at # "idle" /\ pane'[p].remote = pane[p].remote /\ pane'[p].boot = pane[p].boot
          /\ pane'[p].lost = pane[p].lost
      BY <1>2, <3>1 DEF Kept
    <3>3. ASSUME bind[p].at = "detaching", pane[p].remote # None, ~pane[p].lost, Adopts, pane[p].in,
        ~pane'[p].in
          PROVE  FALSE
      <4>1. \A f \in feeds : f.pane = p => ~InForce(f)
        BY <1>0, <3>3 DEF Routes, Pumping
      <4>2. QED
        BY <2>1, <3>3, <4>1, OutIsDone
    <3>4. QED
      BY <3>1, <3>2, <3>3, LeaveKeeps
  <2>2. CASE Retargets(p)
    <3>1. bind'[p] = bind[p] /\ Turned(pane[p], pane'[p])
      BY <2>2, <2>r DEF Retargets
    <3>2. bind[p].at # "idle" /\ pane'[p].remote = pane[p].remote /\ pane'[p].boot = pane[p].boot
      BY <1>2, <3>1 DEF Turned
    <3>3. bind[p].at = "detaching" /\ pane[p].remote # None /\ ~pane[p].lost =>
            ~pane'[p].lost /\ (Adopts /\ pane[p].in => pane'[p].in)
      BY <2>2 DEF Retargets
    <3>4. QED
      BY <3>1, <3>2, <3>3, LeaveKeeps
  <2>3. ASSUME NEW f \in feeds, f.pane = p, Forwards(f) PROVE LeaveOf(p)'
    <3>1. /\ bind' = bind /\ pane'[p].in = pane[p].in /\ pane'[p].remote = pane[p].remote
          /\ pane'[p].boot = pane[p].boot /\ pane'[p].lost = pane[p].lost
      BY <1>0, <2>3, ForwardsFacts
    <3>2. bind[p].at # "idle"
      BY <1>2, <3>1
    <3>3. QED
      BY <3>1, <3>2, LeaveKeeps
  <2>4. ASSUME Takes(p) \/ Attached(p) \/ Starts(p) PROVE FALSE
    <3>1. CASE Takes(p)
      BY <1>0, <1>2, <3>1, TakesFields
    <3>2. CASE Attached(p)
      BY <1>0, <2>r, <3>2, AttachedFacts
    <3>3. CASE Starts(p)
      BY <1>0, <1>2, <3>3, MadeFields DEF Starts
    <3>4. QED
      BY <2>4, <3>1, <3>2, <3>3
  <2>5. CASE BeginsDetach(p)
    <3>1. PICK t \in queue : t.who = "hide" /\ t.pane = p /\ t.gen = pane[p].gen /\ BootOf(live) = t.boot
                             /\ bind'[p].ses = t.ses
      BY <2>5 DEF BeginsDetach
    <3>2. pane'[p] = pane[p] /\ bind[p].at = "idle" /\ bind'[p].at = "detaching" /\ bind'[p].l = live
      BY <2>5 DEF BeginsDetach
    <3>3. t.ses # None /\ t.ses = pane[p].remote
      BY <1>0, <3>1 DEF Waits
    <3>4. ~pane[p].lost /\ (Adopts => pane[p].in \/ Done(t.boot, t.ses))
      BY <1>0, <3>1 DEF Leaving, LeavesOf
    <3>5. bind'[p].l \in 1 .. Len(links)
      BY <3>2, BeginsFrom
    <3>6. ASSUME NEW b, b = bind'[p], NEW boot, boot = BootOf(b.l) PROVE LeaveOf(p)'
      <4>1. b.l \in 1 .. Len(links) /\ b.at = "detaching" /\ b.ses = t.ses /\ boot = t.boot
        BY <3>1, <3>2, <3>5, <3>6
      <4>2. pane[p].remote # None /\ b.ses = pane[p].remote /\ ~pane[p].lost /\ (Adopts => pane[p].in \/ Done(boot, b.ses))
        BY <3>3, <3>4, <4>1
      <4>3. b.at \notin {"closing", "closed", "gone"}
        BY <4>1
      <4>4. QED
        BY <3>2, <3>6, <4>1, <4>2, <4>3, LeaveGoes
    <3>7. QED
      BY <3>6
  <2>6. CASE BeginsBind(p)
    <3>1. /\ Kept(pane[p], pane'[p]) /\ bind[p].at = "idle" /\ bind'[p].ses = pane[p].remote
          /\ bind'[p].at = "closing" => pane[p].remote # None /\ pane[p].boot = BootOf(bind'[p].l)
          /\ bind'[p].at \in {"attaching", "closing", "finding", "locking"}
      BY <2>6 DEF BeginsBind
    <3>2. bind'[p].at = "closing"
      BY <1>2, <3>1
    <3>3. bind'[p].l \in 1 .. Len(links)
      BY <3>1, <3>2, BeginsFrom
    <3>4. InBoot(pane[p].boot, pane[p].remote)
      BY <1>0, <3>1, <3>2 DEF Hosted
    <3>5. ASSUME NEW b, b = bind'[p], NEW boot, boot = BootOf(b.l) PROVE LeaveOf(p)'
      <4>1. b.l \in 1 .. Len(links) /\ b.at = "closing" /\ b.ses = pane[p].remote /\ boot = pane[p].boot
        BY <3>1, <3>2, <3>3, <3>5
      <4>2. pane'[p].remote = pane[p].remote /\ pane'[p].boot = pane[p].boot
        BY <3>1 DEF Kept
      <4>3. b.at \notin {"detaching", "closed", "gone"} /\ InBoot(boot, b.ses)
        BY <3>4, <4>1
      <4>4. QED
        BY <3>5, <4>1, <4>2, <4>3, LeaveGoes
    <3>6. QED
      BY <3>5
  <2>7. CASE Moves(p)
    <3>1. /\ pane'[p] = pane[p] /\ bind'[p].l = bind[p].l
          /\ \/ bind[p].at \in {"found",
              "opened"} /\ bind'[p].at = "closing" /\ bind'[p].ses = bind[p].ses /\ bind[p].ses # None
             \/ bind[p].at = "closing" /\ bind'[p].at = "closed" /\ bind'[p].ses = bind[p].ses /\ HostCloses(p)
             \/ /\ bind[p].at = "answering" /\ bind'[p].at = "gone" /\ bind'[p].ses = bind[p].ses
                /\ \E l \in DOMAIN links :
                     Reads(l) /\ bind[p].l = l /\ Head(links[l].wire).kind = "gone" /\ Head(links[l].wire).n = p
      BY <1>2, <2>7 DEF Moves, TurnKept
    <3>2. bind[p].l \in 1 .. Len(links)
      BY <1>0, <3>1 DEF Named
    <3>3. ASSUME NEW b, b = bind'[p], NEW boot, boot = BootOf(b.l) PROVE LeaveOf(p)'
      <4>1. b.l = bind[p].l /\ b.l \in 1 .. Len(links) /\ b.ses = bind[p].ses
        BY <3>1, <3>2, <3>3
      <4>2. CASE bind[p].at \in {"found", "opened"} /\ b.at = "closing" /\ bind[p].ses # None
        <5>1. InBoot(boot, b.ses)
          BY <1>0, <3>3, <4>1, <4>2 DEF Hosted
        <5>2. pane[p].remote = None
          BY <1>0, <4>2 DEF Placed, Seeking
        <5>3. b.at \notin {"detaching", "closed", "gone"}
          BY <4>2
        <5>4. QED
          BY <3>1, <3>3, <4>1, <5>1, <5>2, <5>3, LeaveGoes
      <4>3. CASE bind[p].at = "closing" /\ b.at = "closed" /\ HostCloses(p)
        <5>1. /\ InBoot(boot, b.ses)
              /\ pane[p].remote # None => b.ses = pane[p].remote /\ pane[p].boot = boot
          BY <1>0, <3>3, <4>1, <4>3 DEF LeaveOf
        <5>2. Done(boot, b.ses)'
          <6>1. ASSUME NEW l, l = b.l, NEW id, id = b.ses PROVE Done(boot, id)'
            BY <3>3, <4>1, <4>3, <5>1, <6>1, CloseEnds
          <6>2. QED
            BY <6>1
        <5>3. b.at \notin {"detaching", "closing"}
          BY <4>3
        <5>4. QED
          BY <3>1, <3>3, <4>1, <5>1, <5>2, <5>3, LeaveGoes
      <4>4. CASE /\ bind[p].at = "answering" /\ b.at = "gone"
                 /\ \E l \in DOMAIN links :
                      Reads(l) /\ bind[p].l = l /\ Head(links[l].wire).kind = "gone" /\ Head(links[l].wire).n = p
        <5>1. Reads(b.l) /\ Head(links[b.l].wire).kind = "gone" /\ Head(links[b.l].wire).n = p
          BY <4>1, <4>4
        <5>2. links[b.l].wire \in Seq(Frame) /\ links[b.l].wire # <<>>
          BY <1>0, <4>1, <5>1, ReadsFacts
        <5>3. Head(links[b.l].wire) = links[b.l].wire[1] /\ 1 \in 1 .. Len(links[b.l].wire)
          BY <5>2
        <5>4. Done(boot, b.ses)
          <6>1. Answered(b.l, links[b.l].wire[1])
            BY <1>0, <4>1, <5>3 DEF Carries
          <6>2. QED
            BY <3>3, <4>1, <5>1, <5>3, <6>1 DEF Answered
        <5>5. Done(boot, b.ses)'
          BY <5>4, DoneStays
        <5>6. b.at \notin {"detaching", "closing", "closed"}
          BY <4>4
        <5>7. QED
          BY <3>1, <3>3, <4>1, <5>5, <5>6, LeaveGoes
      <4>5. QED
        BY <3>1, <3>3, <4>2, <4>3, <4>4
    <3>4. QED
      BY <3>3
  <2>8. QED
    BY <1>0, <2>1, <2>2, <2>3, <2>4, <2>5, <2>6, <2>7 DEF Flows
<1>3. QED
  BY <1>1, <1>2

\* Who waits to detach hid its pane, and has the session, or the session is over.
LEMMA LeavesStep ==
  ASSUME Goes, PanesNext, NEW t \in queue'
  PROVE  LeavesOf(t)'
<1>0. /\ Typed /\ Typed' /\ Unmade /\ Waits /\ Routes /\ Leaving /\ Adopts' = Adopts /\ \A p \in Panes : Flows(p)
  BY DEF Goes, Inv, Flow
<1> DEFINE p == t.pane
<1>1. SUFFICES ASSUME t.who = "hide"
               PROVE  /\ t.gen <= pane'[p].gen
                      /\ t.gen = pane'[p].gen =>
                           ~pane'[p].view /\ ~pane'[p].lost /\ (Adopts => pane'[p].in \/ Done(t.boot, t.ses)')
  BY <1>0 DEF LeavesOf
<1>2. CASE t \notin queue
  <2>1. p \in Panes /\ t.gen = pane'[p].gen /\ ~pane'[p].view /\ ~pane'[p].lost /\ pane'[p].in
    BY <1>0, <1>1, <1>2, HideWaits
  <2>2. pane'[p] \in PaneState
    BY <1>0, <2>1 DEF Typed, PanesTyped
  <2>3. pane'[p].gen \in Nat
    BY <2>2, PaneFields
  <2>4. QED
    BY <2>1, <2>3
<1>3. CASE t \in queue
  <2>1. p \in Panes /\ t.gen \in Nat
    BY <1>0, <1>1, <1>3 DEF Typed, TasksTyped, BindTurn, HideTurn, Callers
  <2>2. /\ t.gen <= pane[p].gen
        /\ t.gen = pane[p].gen => ~pane[p].view /\ ~pane[p].lost /\ (Adopts => pane[p].in \/ Done(t.boot,
            t.ses))
    BY <1>0, <1>1, <1>3 DEF Leaving, LeavesOf
  <2>3. /\ t.ses # None /\ t.ses = pane[p].remote /\ t.boot = pane[p].boot /\ pane[p].born
    BY <1>0, <1>1, <1>3 DEF Waits, Unmade
  <2>4. pane[p].gen \in Nat /\ pane'[p].gen \in Nat /\ pane'[p].gen >= pane[p].gen
    <3>1. pane'[p] \in PaneState
      BY <1>0, <2>1 DEF Typed, PanesTyped
    <3>2. QED
      BY <1>0, <2>1, <3>1, GenGoes, PaneFields
  <2>5. ASSUME t.gen = pane'[p].gen
        PROVE  ~pane'[p].view /\ ~pane'[p].lost /\ (Adopts => pane'[p].in \/ Done(t.boot, t.ses)')
    <3>1. t.gen = pane[p].gen /\ pane'[p].gen = pane[p].gen
      BY <2>1, <2>2, <2>4, <2>5
    <3>2. ~pane[p].view /\ ~pane[p].lost /\ (Adopts => pane[p].in \/ Done(t.boot, t.ses))
      BY <2>2, <3>1
    <3>3. /\ pane'[p].view = pane[p].view /\ pane'[p].lost = pane[p].lost
          /\ \/ Stays(p) \/ BeginsBind(p) \/ Takes(p)
             \/ pane'[p] = pane[p] \/ \E f \in feeds : f.pane = p /\ Forwards(f)
      BY <1>0, <2>1, <2>3, <3>1, GenGoes
    <3>4. ASSUME Adopts, ~pane'[p].in, pane[p].in PROVE Done(t.boot, t.ses)'
      <4>1. Stays(p)
        <5>1. ~BeginsBind(p)
          BY <3>4 DEF BeginsBind
        <5>2. ~Takes(p)
          BY <1>0, <2>1, <3>4, TakesFields
        <5>3. ASSUME NEW f \in feeds, f.pane = p, Forwards(f) PROVE FALSE
          BY <1>0, <3>4, <5>3, ForwardsFacts
        <5>4. QED
          BY <3>3, <3>4, <5>1, <5>2, <5>3
      <4>2. \A f \in feeds : f.pane = p => ~InForce(f)
        BY <1>0, <3>2, <3>4 DEF Routes, Pumping
      <4>3. Done(t.boot, t.ses)
        BY <2>1, <2>3, <3>2, <3>4, <4>1, <4>2, OutIsDone
      <4>4. QED
        BY <4>3, DoneStays
    <3>5. Done(t.boot, t.ses) => Done(t.boot, t.ses)'
      BY DoneStays
    <3>6. QED
      BY <3>2, <3>3, <3>4, <3>5
  <2>6. QED
    BY <2>1, <2>2, <2>4, <2>5
<1>4. QED
  BY <1>2, <1>3

\* So a detach takes no output from who watches.
LEMMA LeavingStep ==
  ASSUME Goes, PanesNext
  PROVE  Leaving'
  BY LeavesStep, LeaveStep DEF Leaving

-----------------------------------------------------------------------------
\* The invariant.

\* It holds as the app starts: nothing is attached, and no view was handed anything.
LEMMA FlowInit ==
  ASSUME PanesInit
  PROVE  Flow
<1>1. /\ links = <<>> /\ live = None /\ feeds = {} /\ queue = {}
      /\ pane = [p \in Panes |-> Unborn] /\ bind = [p \in Panes |-> Resting]
      /\ seen = [p \in Panes |-> [next |-> 1, whole |-> TRUE, replayed |-> FALSE, late |-> FALSE]]
  BY DEF PanesInit
<1>2. Len(links) = 0
  BY <1>1
<1>3. \A p \in Panes : /\ ~pane[p].born /\ ~pane[p].in /\ pane[p].remote = None /\ bind[p].at = "idle"
                       /\ seen[p].next = 1 /\ seen[p].whole
  BY <1>1 DEF Unborn, Resting
<1>4. OneUp
  BY <1>1, <1>2 DEF OneUp
<1>5. Following
  BY <1>2, <1>3 DEF Following
<1>6. Carries
  BY <1>2 DEF Carries
<1>7. Routes /\ InOrder /\ Coming
  BY <1>1 DEF Routes, InOrder, Coming
<1>8. Turns
  BY <1>3 DEF Turns, TurnOf, Attaching, Wanting
<1>9. Views
  BY <1>3 DEF Views, ViewOf, Watched
<1>10. Unseen
  BY <1>3 DEF Unseen
<1>11. Replays
  BY <1>3 DEF Replays, ReplayOf, Replayed
<1>12. Leaving
  BY <1>1, <1>3 DEF Leaving, LeaveOf
<1>13. QED
  BY <1>4, <1>5, <1>6, <1>7, <1>8, <1>9, <1>10, <1>11, <1>12 DEF Flow

\* Every step keeps each part of it.
LEMMA FlowNext ==
  ASSUME Inv, Flow, PanesNext
  PROVE  Flow'
<1>1. Goes
  BY GoesNext
<1>2. OneUp' /\ Following'
  BY <1>1 DEF Goes
<1>3. Carries' /\ Routes' /\ Turns' /\ Views' /\ Unseen'
  BY <1>1, CarriesStep, RoutesStep, TurnsStep, ViewsStep, UnseenStep
<1>4. Replays' /\ InOrder' /\ Coming' /\ Leaving'
  BY <1>1, ReplaysStep, InOrderStep, ComingStep, LeavingStep
<1>5. QED
  BY <1>2, <1>3, <1>4 DEF Flow

\* So does a step that changes nothing.
LEMMA FlowStutter ==
  ASSUME Flow, UNCHANGED allPanesVars
  PROVE  Flow'
<1>1. /\ host' = host /\ links' = links /\ live' = live /\ feeds' = feeds /\ pane' = pane
      /\ bind' = bind /\ queue' = queue /\ seen' = seen /\ left' = left
  BY DEF allPanesVars, panesVars, panesHistory
<1>2. Adopts' = Adopts /\ Born' = Born
  BY <1>1 DEF Adopts, Born
<1>3. OneUp' /\ Following'
  BY <1>1 DEF Flow, OneUp, Following, BootOf
<1>4. Carries'
  BY <1>1 DEF Flow, Carries, Written, Answered, Once, Answers, Done, InBoot, BootOf
<1>5. Routes'
  BY <1>1 DEF Flow, Routes, Coded, Pending, Pumping, InForce, BootOf
<1>6. Turns' /\ Unseen'
  BY <1>1 DEF Flow, Turns, TurnOf, Unseen
<1>7. Views'
  BY <1>1, <1>2 DEF Flow, Views, ViewOf, Watched, Apart
<1>8. Replays'
  BY <1>1, <1>2 DEF Flow, Replays, ReplayOf, Replayed, Attachment, InForce, Watched, Apart, BootOf
<1>9. InOrder'
  BY <1>1, <1>2 DEF Flow, InOrder, Ours, Base, InForce, Watched, Apart
<1>10. Coming'
  BY <1>1, <1>2 DEF Flow, Coming, ComesTo, Sure, Attachment, Ours, Base, InForce, Watched, Apart
<1>11. Leaving'
  BY <1>1, <1>2 DEF Flow, Leaving, LeavesOf, LeaveOf, Done, InBoot, BootOf
<1>12. QED
  BY <1>3, <1>4, <1>5, <1>6, <1>7, <1>8, <1>9, <1>10, <1>11 DEF Flow

\* A view has every chunk after its anchor in every state of every run: over links that die, attaches that
\* replace each other, and chunks of a dead link that its pump hands over after the next attach was asked for
\* (`pump`, `bind` and `attach` of `Inner`, and what `Shared::dispatch` routes).
THEOREM ViewsGetTheStream == PanesSpec => []ViewGetsTheStream
<1>1. PanesInit => Inv /\ Flow
  BY InvInit, FlowInit
<1>2. Inv /\ Flow /\ [PanesNext]_allPanesVars => (Inv /\ Flow)'
  BY InvNext, InvStutter, FlowNext, FlowStutter
<1>3. Flow => ViewGetsTheStream
  BY DEF Flow, Views, ViewOf, Watched, Apart, ViewGetsTheStream
<1>4. QED
  BY <1>1, <1>2, <1>3, PTL DEF PanesSpec
==============================================================================
