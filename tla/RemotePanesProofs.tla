-------------------------- MODULE RemotePanesProofs --------------------------
(***************************************************************************)
(* Proofs about RemotePanes, for every number of panes, sessions and links *)
(* and every budget of what users, networks and hosts do: its types, that  *)
(* no two panes hold one session (NeverTwoPanes), that no call of a pane   *)
(* goes to another boot than its session's (NeverAStranger), and that a    *)
(* launch line is typed once, by the pane that opened the session          *)
(* (LaunchTypedOnce).                                                      *)
(***************************************************************************)
EXTENDS RemotePanes, FiniteSetTheorems, SequenceTheorems, WellFoundedInduction, TLAPS

TurnAts == {"idle", "locking", "finding", "found", "opening", "opened", "refused", "attaching", "answering",
            "attached", "gone", "closing", "closed", "detaching"}
WatchAts == {"idle", "joins", "locking", "listing", "listed", "again", "reaping"}
Callers == {"watch", "open", "show", "close"}

SessionState == [st : {"runs", "exited", "closed"}, out : Nat, to : Nat, by : 0 .. MaxPanes]
HostState == [boot : Nat \ {0}, ses : Seq(SessionState), strays : Nat]
Frame == [kind : {"data", "exit", "attached", "gone"}, ses : Nat, n : Nat]
Link == [boot : Nat, up : BOOLEAN, wire : Seq(Frame)]
Feed == [pane : Panes, gen : Nat, l : Nat, ses : Nat, state : {"pending", "live", "ended"}, q : Seq(Nat)]
PaneState ==
  [born : BOOLEAN, in : BOOLEAN, view : BOOLEAN, remote : 0 .. MaxIds, boot : Nat, mine : BOOLEAN,
   gen : Nat, on : Nat, anchor : Int, seed : BOOLEAN, closing : BOOLEAN, ended : BOOLEAN,
   lost : BOOLEAN, input : Seq(Nat)]
Turn ==
  [at : TurnAts, who : Callers \cup {"none"}, l : Nat, gen : Nat, from : Int, upto : Nat, ses : 0 .. MaxIds,
   taken : SUBSET (0 .. MaxIds), closing : BOOLEAN]
BindTurn == [pane : Panes, who : Callers, l : Nat]
HideTurn == [pane : Panes, who : {"hide"}, gen : Nat, ses : 0 .. MaxIds, boot : Nat]
TaskState ==
  [at : WatchAts, l : Nat, binds : SUBSET BindTurn, alive : SUBSET Ids, dead : SUBSET Ids, again : BOOLEAN]
View == [next : Int, whole : BOOLEAN, replayed : BOOLEAN, late : BOOLEAN]

HostTyped == host \in HostState /\ Len(host.ses) <= MaxIds
NetTyped == links \in Seq(Link) /\ live \in Nat /\ news \in Nat /\ feeds \in SUBSET Feed
PanesTyped == pane \in [Panes -> PaneState] /\ bind \in [Panes -> Turn]
TasksTyped ==
  /\ queue \in SUBSET (BindTurn \cup HideTurn)
  /\ opening \in 0 .. Adoption
  /\ watch \in [task : TaskState, adopted : Nat]
  /\ opens \in Seq(Nat)
Profile ==
  /\ left = [what \in Does \cup {"adopts"} |-> left[what]]
  /\ \A what \in Does : left[what] \in Nat
HistoryTyped ==
  /\ Profile
  /\ seen \in [Panes -> View]
  /\ typed \in [lines : Seq(Panes \X (0 .. MaxPanes)), askers : SUBSET Panes]
Typed == HostTyped /\ NetTyped /\ PanesTyped /\ TasksTyped /\ HistoryTyped
-----------------------------------------------------------------------------
\* The module's operators keep what they touch of its kind.

\* A budget is spent, and the profile stays.
LEMMA Spends ==
  ASSUME Profile, NEW what \in Does, Spend(what)
  PROVE  Profile' /\ left'.adopts = left.adopts
<1>1. what # "adopts"
  BY DEF Does
<1>2. left' = [w \in Does \cup {"adopts"} |-> IF w = what THEN left[what] - 1 ELSE left[w]]
  BY DEF Profile, Spend
<1>3. left[what] - 1 \in Nat
  BY DEF Profile, Spend
<1>4. QED
  BY <1>1, <1>2, <1>3 DEF Profile

\* The bounds are numbers, and so is the lock holder they make of the adoption.
LEMMA BoundsAre == MaxPanes \in Nat /\ MaxIds \in Nat /\ Adoption \in Nat
  BY PanesAssumption DEF Adoption

\* A turn nobody holds is one.
LEMMA RestingTyped == Resting \in Turn
  BY BoundsAre DEF Resting, Turn, TurnAts, None

\* A pane's turn goes on or ends.
LEMMA TurnsTyped ==
  ASSUME bind \in [Panes -> Turn], NEW p \in Panes
  PROVE  /\ Rests(p) => bind' \in [Panes -> Turn]
         /\ \A at \in TurnAts : At(p, at) => bind' \in [Panes -> Turn]
<1>2. Rests(p) => bind' \in [Panes -> Turn]
  BY RestingTyped DEF Rests
<1>3. ASSUME NEW at \in TurnAts, At(p, at) PROVE bind' \in [Panes -> Turn]
  <2>1. [bind[p] EXCEPT !.at = at] \in Turn
    BY DEF Turn
  <2>2. bind' = [bind EXCEPT ![p] = [bind[p] EXCEPT !.at = at]]
    BY <1>3 DEF At
  <2>3. QED
    BY <2>1, <2>2
<1>4. QED
  BY <1>2, <1>3

\* State::retarget, lose, end and the rest make a pane of a pane.
LEMMA PaneShapes ==
  ASSUME NEW st \in PaneState
  PROVE  /\ Lose(st) \in PaneState /\ End(st) \in PaneState /\ Over(st) \in PaneState
         /\ \A view \in BOOLEAN : Retarget(st, view) \in PaneState
<1>0. \A n \in Nat : /\ [st EXCEPT !.lost = TRUE, !.seed = FALSE, !.on = 0, !.gen = n] \in PaneState
                     /\ \A view \in BOOLEAN : [st EXCEPT !.gen = n, !.view = view, !.on = 0] \in PaneState
  BY DEF PaneState
<1>g. st.gen + 1 \in Nat
  BY DEF PaneState
<1>1. Lose(st) \in PaneState
  BY <1>0, <1>g DEF Lose, None
<1>2. End(st) \in PaneState
  BY DEF PaneState, End, None
<1>3. Over(st) \in PaneState
  BY DEF PaneState, Over
<1>4. ASSUME NEW view \in BOOLEAN PROVE Retarget(st, view) \in PaneState
  BY <1>0, <1>g DEF Retarget, None
<1>5. QED
  BY <1>1, <1>2, <1>3, <1>4

\* A pane that was not made yet is one.
LEMMA UnbornTyped == Unborn \in PaneState
<1>1. <<>> \in Seq(Nat)
  OBVIOUS
<1>2. QED
  BY <1>1, BoundsAre DEF Unborn, PaneState, None

\* One pane changes, and the others stay.
LEMMA SetsPane ==
  ASSUME pane \in [Panes -> PaneState], NEW p, NEW st, p \in Panes => st \in PaneState, SetPane(p, st)
  PROVE  pane' \in [Panes -> PaneState]
  BY DEF SetPane

\* What is put on a link's way.
LEMMA Puts ==
  ASSUME links \in Seq(Link), NEW l, NEW frame \in Frame, Put(l, frame)
  PROVE  links' \in Seq(Link)
<1>1. CASE ~Up(l)
  BY <1>1 DEF Put
<1>2. CASE Up(l) /\ l \notin DOMAIN links
  <2>1. links' = links
    BY <1>2 DEF Put
  <2>2. QED
    BY <2>1
<1>3. CASE Up(l) /\ l \in DOMAIN links
  <2>0. links[l] \in Link
    BY <1>3
  <2>1. links[l] \in Link /\ Append(links[l].wire, frame) \in Seq(Frame)
    BY <2>0 DEF Link
  <2>2. [links[l] EXCEPT !.wire = Append(links[l].wire, frame)] \in Link
    BY <2>1 DEF Link
  <2>3. links' = [links EXCEPT ![l] = [links[l] EXCEPT !.wire = Append(links[l].wire, frame)]]
    BY <1>3 DEF Put
  <2>4. QED
    BY <1>3, <2>2, <2>3
<1>4. QED
  BY <1>1, <1>2, <1>3

\* Links that die (Shared::fail) and the routes over them are links and routes.
LEMMA DiesTyped ==
  ASSUME links \in Seq(Link), feeds \in SUBSET Feed, NEW gone, Dies(gone)
  PROVE  links' \in Seq(Link) /\ feeds' \in SUBSET Feed
<1>1. <<>> \in Seq(Frame)
  OBVIOUS
<1>2. \A l \in DOMAIN links : links[l] \in Link
  OBVIOUS
<1>3. \A k \in Link : [k EXCEPT !.up = FALSE, !.wire = <<>>] \in Link
  BY <1>1 DEF Link
<1>5. links' \in Seq(Link)
  <2>1. \A l \in DOMAIN links : links'[l] \in Link
    BY <1>2, <1>3 DEF Dies
  <2>0. DOMAIN links = 1 .. Len(links)
    OBVIOUS
  <2>2. links' = [l \in 1 .. Len(links) |-> links'[l]]
    BY <2>0, Zenon DEF Dies
  <2>3. Len(links) \in Nat /\ \A l \in 1 .. Len(links) : links'[l] \in Link
    BY <2>1
  <2>4. QED
    BY <2>2, <2>3
<1>4. feeds' \in SUBSET Feed
  BY DEF Dies, Feed
<1>6. QED
  BY <1>4, <1>5

\* A route that ends and a route that is fed are routes.
LEMMA RoutesTyped ==
  ASSUME feeds \in SUBSET Feed, NEW l, NEW id
  PROVE  /\ Unrouted(l, id) \in SUBSET Feed
         /\ \A event \in Nat : Fed(l, id, event) \in SUBSET Feed
<1>1. \A f \in Feed : [f EXCEPT !.state = "ended"] \in Feed
  BY DEF Feed
<1>2. Unrouted(l, id) \in SUBSET Feed
  BY <1>1 DEF Unrouted
<1>3. ASSUME NEW event \in Nat PROVE Fed(l, id, event) \in SUBSET Feed
  <2>1. \A f \in Feed : Append(f.q, event) \in Seq(Nat)
    BY DEF Feed
  <2>2. \A f \in Feed : [f EXCEPT !.q = Append(f.q, event)] \in Feed
    BY <2>1 DEF Feed
  <2>3. QED
    BY <2>2 DEF Fed
<1>4. QED
  BY <1>2, <1>3

\* Sessions are held by number.
LEMMA HeldTyped ==
  ASSUME pane \in [Panes -> PaneState], NEW b, NEW p
  PROVE  Held(b, p) \in SUBSET Ids
  BY BoundsAre DEF Held, PaneState, Ids, None

\* An attach (pty_attach) makes a turn of a turn, and its route is one.
LEMMA AttachesTyped ==
  ASSUME bind \in [Panes -> Turn], feeds \in SUBSET Feed, NEW p \in Panes, NEW b \in Turn, Attaches(p, b)
  PROVE  bind' \in [Panes -> Turn] /\ feeds' \in SUBSET Feed
<1>1. bind' \in [Panes -> Turn]
  BY DEF Attaches, Turn, TurnAts
<1>2. <<>> \in Seq(Nat)
  OBVIOUS
<1>3. [pane |-> p, gen |-> 0, l |-> b.l, ses |-> b.ses, state |-> "pending", q |-> <<>>] \in Feed
  <2>1. b.l \in Nat /\ b.ses \in Nat
    BY BoundsAre DEF Turn
  <2>2. QED
    BY <1>2, <2>1 DEF Feed
<1>4. feeds' \in SUBSET Feed
  BY <1>3, RoutesTyped DEF Attaches
<1>5. QED
  BY <1>1, <1>4

\* So does the search for a session of the address.
LEMMA FindsTyped ==
  ASSUME PanesTyped, NEW p \in Panes, NEW b \in Turn, Finds(p, b)
  PROVE  bind' \in [Panes -> Turn]
<1>1. Held(BootOf(b.l), p) \in SUBSET (0 .. MaxIds)
  BY HeldTyped, BoundsAre DEF PanesTyped, Ids
<1>2. QED
  BY <1>1 DEF Finds, PanesTyped, Turn, TurnAts

\* Sessions: one more, or one of them changed.
LEMMA SessionsTyped ==
  ASSUME host \in HostState
  PROVE  /\ \A by \in 0 .. MaxPanes : Append(host.ses, NewSession(by)) \in Seq(SessionState)
         /\ Alive \in SUBSET (1 .. Len(host.ses))
         /\ DOMAIN host.ses = 1 .. Len(host.ses)
<1>1. \A by \in 0 .. MaxPanes : NewSession(by) \in SessionState
  BY DEF NewSession, SessionState, None
<1>2. QED
  BY <1>1 DEF HostState, Alive

\* A session that exits or is closed stays in the table.
LEMMA ClosesTyped ==
  ASSUME HostTyped, NEW id, NEW st \in {"runs", "exited", "closed"}, host' = [host EXCEPT !.ses[id].st = st]
  PROVE  HostTyped'
<1>1. CASE id \notin DOMAIN host.ses
  BY <1>1 DEF HostTyped, HostState
<1>2. CASE id \in DOMAIN host.ses
  <2>1. host.ses \in Seq(SessionState) /\ host.ses[id] \in SessionState
    BY <1>2 DEF HostTyped, HostState
  <2>2. [host.ses[id] EXCEPT !.st = st] \in SessionState
    BY <2>1 DEF SessionState
  <2>3. host' = [host EXCEPT !.ses = [host.ses EXCEPT ![id] = [host.ses[id] EXCEPT !.st = st]]]
    OBVIOUS
  <2>4. QED
    <3>1. [host.ses EXCEPT ![id] = [host.ses[id] EXCEPT !.st = st]] \in Seq(SessionState)
      BY <1>2, <2>1, <2>2
    <3>2. Len([host.ses EXCEPT ![id] = [host.ses[id] EXCEPT !.st = st]]) = Len(host.ses)
      BY <1>2, <2>1
    <3>3. QED
      BY <2>3, <3>1, <3>2 DEF HostTyped, HostState
<1>3. QED
  BY <1>1, <1>2

\* The adoption goes on or ends.
LEMMA WatchTyped ==
  ASSUME watch \in [task : TaskState, adopted : Nat]
  PROVE  /\ \A at \in WatchAts : Task(at) => watch' \in [task : TaskState, adopted : Nat]
         /\ Idles => watch' \in [task : TaskState, adopted : Nat]
         /\ Watching \in TaskState
<1>1. Watching \in TaskState
  BY DEF Watching, TaskState, WatchAts, None
<1>2. Idles => watch' \in [task : TaskState, adopted : Nat]
  BY <1>1 DEF Idles
<1>3. ASSUME NEW at \in WatchAts, Task(at) PROVE watch' \in [task : TaskState, adopted : Nat]
  <2>1. watch.task \in TaskState
    OBVIOUS
  <2>2. [watch.task EXCEPT !.at = at] \in TaskState
    BY <2>1 DEF TaskState
  <2>3. watch' = [watch EXCEPT !.task = [watch.task EXCEPT !.at = at]]
    BY <1>3 DEF Task
  <2>4. QED
    BY <2>2, <2>3
<1>4. QED
  BY <1>1, <1>2, <1>3

\* A view that is handed chunks is one.
LEMMA HandedTyped ==
  ASSUME seen \in [Panes -> View], NEW p \in Panes, NEW from \in Int, NEW upto \in Int
  PROVE  Handed(p, from, upto) \in View
<1>1. seen[p] \in View
  OBVIOUS
<1>2. \A v \in View : \A b \in BOOLEAN : \A n \in Int : [v EXCEPT !.next = n, !.whole = b] \in View
  BY DEF View
<1>6. upto + 1 \in Int
  OBVIOUS
<1>3. \A v \in View : (v.whole /\ (from + 1 = v.next \/ (v.replayed /\ from + 1 < v.next))) \in BOOLEAN
  OBVIOUS
<1>4. QED
  BY <1>1, <1>2, <1>3, <1>6, Zenon DEF Handed

\* What else the actions make of a pane.
LEMMA PaneChanges ==
  ASSUME NEW st \in PaneState
  PROVE  /\ \A l \in Nat : [st EXCEPT !.on = l] \in PaneState
         /\ \A a \in Int : [st EXCEPT !.anchor = a] \in PaneState
         /\ \A over \in BOOLEAN : [st EXCEPT !.in = FALSE, !.ended = over] \in PaneState
         /\ [st EXCEPT !.closing = TRUE] \in PaneState
         /\ [st EXCEPT !.seed = TRUE] \in PaneState
         /\ \A q \in Seq(Nat) : [st EXCEPT !.input = q] \in PaneState
         /\ \A id \in 0 .. MaxIds, b \in Nat, mine \in BOOLEAN, seed \in BOOLEAN :
              [st EXCEPT !.remote = id, !.boot = b, !.mine = mine, !.seed = seed] \in PaneState
         /\ \A g \in Nat, l \in Nat, a \in Int, seed \in BOOLEAN, q \in Seq(Nat) :
              [st EXCEPT !.gen = g, !.on = l, !.anchor = a, !.seed = seed, !.input = q] \in PaneState
<1>1. \A l \in Nat : [st EXCEPT !.on = l] \in PaneState
  BY DEF PaneState
<1>2. \A a \in Int : [st EXCEPT !.anchor = a] \in PaneState
  BY DEF PaneState
<1>3. \A over \in BOOLEAN : [st EXCEPT !.in = FALSE, !.ended = over] \in PaneState
  BY DEF PaneState
<1>4. [st EXCEPT !.closing = TRUE] \in PaneState /\ [st EXCEPT !.seed = TRUE] \in PaneState
  BY DEF PaneState
<1>5. \A q \in Seq(Nat) : [st EXCEPT !.input = q] \in PaneState
  BY DEF PaneState
<1>6. \A id \in 0 .. MaxIds, b \in Nat, mine \in BOOLEAN, seed \in BOOLEAN :
        [st EXCEPT !.remote = id, !.boot = b, !.mine = mine, !.seed = seed] \in PaneState
  BY DEF PaneState
<1>7. \A g \in Nat, l \in Nat, a \in Int, seed \in BOOLEAN, q \in Seq(Nat) :
        [st EXCEPT !.gen = g, !.on = l, !.anchor = a, !.seed = seed, !.input = q] \in PaneState
  BY DEF PaneState
<1>8. QED
  BY <1>1, <1>2, <1>3, <1>4, <1>5, <1>6, <1>7

\* What the fields of a pane are.
LEMMA PaneFields ==
  ASSUME NEW st \in PaneState
  PROVE  /\ st.gen + 1 \in Nat /\ st.gen \in Nat /\ st.anchor \in Int /\ st.remote \in 0 .. MaxIds
         /\ st.boot \in Nat /\ st.on \in Nat /\ st.input \in Seq(Nat)
         /\ {st.born, st.in, st.view, st.mine, st.seed, st.closing, st.ended, st.lost} \subseteq BOOLEAN
<1>1. /\ st.gen \in Nat /\ st.anchor \in Int /\ st.remote \in 0 .. MaxIds
      /\ st.boot \in Nat /\ st.on \in Nat /\ st.input \in Seq(Nat)
  BY DEF PaneState
<1>2. st.gen + 1 \in Nat
  BY <1>1
<1>3. {st.born, st.in, st.view, st.mine, st.seed, st.closing, st.ended, st.lost} \subseteq BOOLEAN
  BY DEF PaneState
<1>4. QED
  BY <1>1, <1>2, <1>3

\* ... and of a turn.
LEMMA TurnChanges ==
  ASSUME NEW b \in Turn
  PROVE  /\ \A at \in TurnAts : [b EXCEPT !.at = at] \in Turn
         /\ \A at \in TurnAts, id \in 0 .. MaxIds : [b EXCEPT !.at = at, !.ses = id] \in Turn
         /\ \A at \in TurnAts, upto \in Nat : [b EXCEPT !.at = at, !.upto = upto] \in Turn
         /\ \A at \in TurnAts, ids \in SUBSET (0 .. MaxIds) : [b EXCEPT !.at = at, !.taken = ids] \in Turn
  BY DEF Turn

\* What the fields of a turn are.
LEMMA TurnFields ==
  ASSUME NEW b \in Turn
  PROVE  b.l \in Nat /\ b.gen \in Nat /\ b.from \in Int /\ b.upto \in Nat /\ b.ses \in 0 .. MaxIds
         /\ b.taken \in SUBSET (0 .. MaxIds) /\ b.closing \in BOOLEAN
  BY DEF Turn


\* Every link that is named exists.
Named ==
  /\ live \in 0 .. Len(links) /\ news \in 0 .. Len(links)
  /\ \A i \in 1 .. Len(opens) : opens[i] \in 0 .. Len(links)
  /\ watch.task.at # "idle" => watch.task.l \in 1 .. Len(links)
  /\ \A p \in Panes : bind[p].at # "idle" => bind[p].l \in 1 .. Len(links)
  /\ \A p \in Panes : pane[p].on \in 0 .. Len(links)
  /\ \A t \in queue : t.who # "hide" => t.l \in 1 .. Len(links)

\* A link that was made reached a boot.
LEMMA BootsTyped ==
  ASSUME Typed, NEW l \in 1 .. Len(links)
  PROVE  BootOf(l) \in Nat /\ links[l] \in Link
<1>1. links[l] \in Link
  BY DEF Typed, NetTyped
<1>2. QED
  BY <1>1 DEF BootOf, Link

-----------------------------------------------------------------------------
\* The actions, by what they are about.
BindStep(t) == BindMoot(t) \/ BindFindsItGone(t) \/ BindGoes(t) \/ DetachGoes(t)
TurnStep(p) == GetsOpening(p) \/ Found(p) \/ Opened(p) \/ Refused(p) \/ FoundToClose(p) \/ Closed(p)
AnswerStep(p) == Gone(p) \/ AttachSuperseded(p) \/ Attached(p) \/ CallFails(p) \/ TypesLine(p)
PumpStep(f) == PumpSuperseded(f) \/ Forwards(f) \/ ForwardsExit(f) \/ PumpEnds(f)
WatchStep ==
  \/ TakesNews \/ Joins \/ AdoptionLocks \/ AdoptionFails \/ ListsAgain \/ ClosesExited
  \/ HostListsAll \/ ListingRefused
HostStep(p) ==
  HostLists(p) \/ HostOpens(p) \/ HostRefuses(p) \/ HostAttaches(p) \/ HostCloses(p) \/ HostDetaches(p)
SessionStep(id) == HostOutputs(id) \/ SessionEnds(id) \/ HostReaps(id)
LinkStep == Connects \/ LinkDies \/ LiveCleared \/ HostRestarts \/ StrayOpens
OpenStep == OpenAsked \/ Claims \/ Inserts
AskStep(p) == Shows(p) \/ Hides(p) \/ Closes(p) \/ Seeds(p) \/ Expires(p)

\* They are all there is.
LEMMA StepKinds ==
  ASSUME PanesNext
  PROVE  \/ \E t \in queue : BindStep(t)
         \/ \E p \in Panes : TurnStep(p) \/ AnswerStep(p) \/ HostStep(p) \/ AskStep(p)
         \/ \E f \in feeds : PumpStep(f)
         \/ WatchStep \/ TakesOver \/ LinkStep \/ OpenStep
         \/ \E id \in DOMAIN host.ses : SessionStep(id)
         \/ \E l \in DOMAIN links : Reads(l)
  BY DEF PanesNext, PanesWork, BindWorks, PumpWorks, WatchWorks, HostWorks, LinkWorks, OpenWorks, Environment,
     BindStep, TurnStep, AnswerStep, HostStep, AskStep, PumpStep, WatchStep, LinkStep, OpenStep, SessionStep

-----------------------------------------------------------------------------
\* Every action keeps every field of its kind: what becomes of a turn that waits.
LEMMA BindsTyped ==
  ASSUME Typed, Named, NEW t \in queue, BindStep(t)
  PROVE  Typed'
<1>q. TakesTurn(t) => queue' \in SUBSET (BindTurn \cup HideTurn)
  BY DEF TakesTurn, Typed, TasksTyped
<1>p. /\ t.pane \in Panes /\ pane[t.pane] \in PaneState
      /\ t \in BindTurn \cup HideTurn
      /\ (t.who = "hide" => t \in HideTurn) /\ (t.who # "hide" => t \in BindTurn)
  BY DEF Typed, TasksTyped, PanesTyped, BindTurn, HideTurn, Callers
<1>1. CASE BindMoot(t)
  BY <1>1, <1>q DEF BindMoot, Binds, Typed, HostTyped, NetTyped, PanesTyped, TasksTyped, HistoryTyped,
      Profile, net, tasks, mind, panesHistory
<1>2. CASE BindFindsItGone(t)
  <2>1. pane' \in [Panes -> PaneState]
    <3>1. \/ SetPane(t.pane, Over(pane[t.pane])) \/ SetPane(t.pane, Lose(pane[t.pane]))
          \/ SetPane(t.pane, End(pane[t.pane]))
      BY <1>2 DEF BindFindsItGone
    <3>2. QED
      BY <3>1, <1>p, PaneShapes, SetsPane DEF Typed, PanesTyped
  <2>2. QED
    BY <1>2, <1>q, <2>1 DEF BindFindsItGone, Binds, Typed, HostTyped, NetTyped, PanesTyped, TasksTyped,
        HistoryTyped, Profile, net, tasks, mind, panesHistory
<1>3. CASE BindGoes(t)
  <2> DEFINE p == t.pane
             st == pane[p]
             b == [Resting EXCEPT !.who = t.who, !.l = t.l, !.gen = st.gen, !.from = st.anchor,
                                  !.ses = st.remote, !.closing = st.closing]
  <2>1. b \in Turn
    <3>1. t.who \in Callers \cup {"none"} /\ t.l \in Nat
      BY <1>3, <1>p DEF BindGoes, Binds, BindTurn
    <3>2. st.gen \in Nat /\ st.anchor \in Int /\ st.remote \in 0 .. MaxIds /\ st.closing \in BOOLEAN
      BY <1>p, PaneFields
    <3>3. QED
      BY <3>1, <3>2, RestingTyped, ZenonT(30) DEF Turn
  <2>2. pane' \in [Panes -> PaneState]
    <3>1. SetPane(p, [st EXCEPT !.on = None])
      BY <1>3 DEF BindGoes
    <3>2. QED
      BY <3>1, <1>p, PaneChanges, SetsPane DEF Typed, PanesTyped, None
  <2>3. bind' \in [Panes -> Turn] /\ feeds' \in SUBSET Feed
    <3>1. \/ Attaches(p, b) \/ (Finds(p, b) /\ UNCHANGED feeds)
          \/ (bind' = [bind EXCEPT ![p] = [b EXCEPT !.at = "closing"]] /\ UNCHANGED feeds)
          \/ (bind' = [bind EXCEPT ![p] = [b EXCEPT !.at = "locking"]] /\ UNCHANGED feeds)
      BY <1>3 DEF BindGoes
    <3>2. bind \in [Panes -> Turn] /\ feeds \in SUBSET Feed /\ p \in Panes /\ PanesTyped
      BY <1>p DEF Typed, PanesTyped, NetTyped
    <3>3. {"closing", "locking"} \subseteq TurnAts
      BY DEF TurnAts
    <3>4. QED
      <4> HIDE DEF b, p
      <4>1. [b EXCEPT !.at = "closing"] \in Turn /\ [b EXCEPT !.at = "locking"] \in Turn
        BY <2>1, <3>3, TurnChanges
      <4>2. QED
        BY <2>1, <3>1, <3>2, <4>1, AttachesTyped, FindsTyped
  <2>4. QED
    BY <1>3, <1>q, <2>2, <2>3 DEF BindGoes, Binds, Typed, HostTyped, NetTyped, PanesTyped, TasksTyped,
        HistoryTyped, Profile, net, tasks, mind, panesHistory
<1>4. CASE DetachGoes(t)
  <2>1. t.gen \in Nat /\ t.ses \in 0 .. MaxIds
    BY <1>4, <1>p DEF DetachGoes, HideTurn
  <2>2. bind' \in [Panes -> Turn]
    <3>1. [Resting EXCEPT !.at = "detaching", !.l = live, !.ses = t.ses] \in Turn
      <4>1. \A l \in Nat, id \in 0 .. MaxIds, at \in TurnAts : [Resting EXCEPT !.at = at, !.l = l,
          !.ses = id] \in Turn
        BY RestingTyped DEF Turn
      <4>2. live \in Nat /\ "detaching" \in TurnAts
        BY DEF Typed, NetTyped, TurnAts
      <4>3. QED
        BY <2>1, <4>1, <4>2
    <3>2. QED
      BY <1>4, <1>p, <3>1 DEF DetachGoes, Typed, PanesTyped
  <2>3. feeds' \in SUBSET Feed
    BY <1>4, RoutesTyped DEF DetachGoes, Typed, NetTyped
  <2>4. QED
    BY <1>4, <1>q, <2>2, <2>3 DEF DetachGoes, Typed, HostTyped, NetTyped, PanesTyped, TasksTyped,
        HistoryTyped, Profile, net, tasks, mind, panesHistory
<1>5. QED
  BY <1>1, <1>2, <1>3, <1>4 DEF BindStep


\* What becomes of the lock when a turn ends.
LEMMA UnlocksTyped ==
  ASSUME Typed, NEW p, Unlocks(p)
  PROVE  opening' \in 0 .. Adoption
  BY BoundsAre DEF Unlocks, Typed, TasksTyped, None

\* The pane gets its session, or what it was found or opened for is over.
LEMMA CommitsTyped ==
  ASSUME Typed, Named, NEW p \in Panes, bind[p].at # "idle", NEW mine \in BOOLEAN, Commits(p, mine)
  PROVE  PanesTyped' /\ feeds' \in SUBSET Feed /\ opening' \in 0 .. Adoption
<1>0. pane[p] \in PaneState /\ bind[p] \in Turn /\ bind \in [Panes -> Turn] /\ feeds \in SUBSET Feed
  BY DEF Typed, PanesTyped, NetTyped
<1>1. CASE pane[p].lost
  <2>1. /\ (At(p, "closing") /\ UNCHANGED opening) \/ (Rests(p) /\ Unlocks(p))
        /\ UNCHANGED <<pane, feeds>>
    BY <1>1 DEF Commits
  <2>2. bind' \in [Panes -> Turn]
    BY <2>1, <1>0, TurnsTyped DEF TurnAts
  <2>3. opening' \in 0 .. Adoption
    BY <2>1, UnlocksTyped DEF Typed, TasksTyped
  <2>4. QED
    BY <2>1, <2>2, <2>3 DEF Typed, PanesTyped, NetTyped
<1>2. CASE ~pane[p].lost
  <2>1. /\ SetPane(p, [pane[p] EXCEPT !.remote = bind[p].ses, !.boot = BootOf(bind[p].l), !.mine = mine,
                                      !.seed = @ /\ mine])
        /\ Attaches(p, bind[p]) /\ Unlocks(p)
    BY <1>2 DEF Commits
  <2>2. BootOf(bind[p].l) \in Nat /\ bind[p].ses \in 0 .. MaxIds /\ (pane[p].seed /\ mine) \in BOOLEAN
    BY <1>0, BootsTyped, TurnFields DEF Named
  <2>3. [pane[p] EXCEPT !.remote = bind[p].ses, !.boot = BootOf(bind[p].l), !.mine = mine,
                        !.seed = @ /\ mine] \in PaneState
    BY <1>0, <2>2, PaneChanges, Zenon
  <2>4. pane' \in [Panes -> PaneState]
    BY <2>1, <2>3, SetsPane DEF Typed, PanesTyped
  <2>5. QED
    BY <2>1, <2>4, <1>0, AttachesTyped, UnlocksTyped DEF PanesTyped
<1>3. QED
  BY <1>1, <1>2

\* ... of a turn under way.
LEMMA TurnsGoTyped ==
  ASSUME Typed, Named, NEW p \in Panes, TurnStep(p)
  PROVE  Typed'
<1>0. /\ pane[p] \in PaneState /\ bind[p] \in Turn /\ bind \in [Panes -> Turn] /\ PanesTyped
      /\ feeds \in SUBSET Feed /\ pane \in [Panes -> PaneState]
  BY DEF Typed, PanesTyped, NetTyped
<1>1. CASE GetsOpening(p)
  <2>1. bind' \in [Panes -> Turn]
    <3>1. Rests(p) \/ Finds(p, bind[p])
      BY <1>1 DEF GetsOpening
    <3>2. QED
      BY <3>1, <1>0, TurnsTyped, FindsTyped
  <2>2. opening' \in 0 .. Adoption
    BY <1>1, BoundsAre DEF GetsOpening, Typed, TasksTyped, Panes, Adoption
  <2>3. QED
    BY <1>1, <2>1, <2>2 DEF GetsOpening, Typed, HostTyped, NetTyped, PanesTyped, TasksTyped, HistoryTyped,
        Profile, net, tasks, mind, panesHistory
<1>2. CASE Found(p)
  <2>1. CASE bind[p].ses = None
    <3>1. At(p, "opening") /\ UNCHANGED <<host, net, pane, feeds, opening, queue, watch, opens, panesHistory>>
      BY <1>2, <2>1 DEF Found
    <3>2. bind' \in [Panes -> Turn]
      BY <3>1, <1>0, TurnsTyped DEF TurnAts
    <3>3. QED
      BY <3>1, <3>2 DEF Typed, HostTyped, NetTyped, PanesTyped, TasksTyped, HistoryTyped, Profile, net,
          tasks, mind, panesHistory
  <2>2. CASE bind[p].ses # None
    <3>1. bind[p].at # "idle" /\ Commits(p, FALSE) /\ UNCHANGED <<host, net, queue, watch, opens,
        panesHistory>>
      BY <1>2, <2>2 DEF Found
    <3>2. PanesTyped' /\ feeds' \in SUBSET Feed /\ opening' \in 0 .. Adoption
      BY <3>1, CommitsTyped
    <3>3. QED
      BY <3>1, <3>2 DEF Typed, HostTyped, NetTyped, PanesTyped, TasksTyped, HistoryTyped, Profile, net,
          tasks, mind, panesHistory
  <2>3. QED
    BY <2>1, <2>2
<1>3. CASE Opened(p)
  <2>1. bind[p].at # "idle" /\ Commits(p, TRUE) /\ UNCHANGED <<host, net, queue, watch, opens, panesHistory>>
    BY <1>3 DEF Opened
  <2>2. PanesTyped' /\ feeds' \in SUBSET Feed /\ opening' \in 0 .. Adoption
    BY <2>1, CommitsTyped
  <2>3. QED
    BY <2>1, <2>2 DEF Typed, HostTyped, NetTyped, PanesTyped, TasksTyped, HistoryTyped, Profile, net, tasks,
        mind, panesHistory
<1>4. CASE Refused(p)
  <2>1. pane' \in [Panes -> PaneState]
    <3>1. (pane[p].ended \/ bind[p].who = "watch") \in BOOLEAN
      OBVIOUS
    <3>2. [pane[p] EXCEPT !.in = FALSE, !.ended = @ \/ bind[p].who = "watch"] \in PaneState
      BY <3>1, <1>0, PaneChanges, Zenon
    <3>3. QED
      BY <1>4, <1>0, <3>2, SetsPane DEF Refused
  <2>2. bind' \in [Panes -> Turn] /\ opening' \in 0 .. Adoption
    BY <1>4, <1>0, TurnsTyped, UnlocksTyped DEF Refused
  <2>3. QED
    BY <1>4, <2>1, <2>2 DEF Refused, Typed, HostTyped, NetTyped, PanesTyped, TasksTyped, HistoryTyped,
        Profile, net, tasks, mind, panesHistory
<1>5. CASE FoundToClose(p)
  <2>1. \/ SetPane(p, Over(pane[p])) /\ Rests(p)
        \/ At(p, "closing") /\ UNCHANGED pane
    BY <1>5 DEF FoundToClose
  <2>2. pane' \in [Panes -> PaneState]
    BY <2>1, <1>0, PaneShapes, SetsPane
  <2>3. bind' \in [Panes -> Turn]
    BY <2>1, <1>0, TurnsTyped DEF TurnAts
  <2>4. QED
    BY <1>5, <2>2, <2>3 DEF FoundToClose, Typed, HostTyped, NetTyped, PanesTyped, TasksTyped, HistoryTyped,
        Profile, net, tasks, mind, panesHistory
<1>6. CASE Closed(p)
  <2>1. SetPane(p, Over(pane[p])) \/ UNCHANGED pane
    BY <1>6 DEF Closed
  <2>2. pane' \in [Panes -> PaneState]
    BY <2>1, <1>0, PaneShapes, SetsPane
  <2>3. bind' \in [Panes -> Turn] /\ opening' \in 0 .. Adoption
    BY <1>6, <1>0, TurnsTyped, UnlocksTyped DEF Closed
  <2>4. QED
    BY <1>6, <2>2, <2>3 DEF Closed, Typed, HostTyped, NetTyped, PanesTyped, TasksTyped, HistoryTyped,
        Profile, net, tasks, mind, panesHistory
<1>7. QED
  BY <1>1, <1>2, <1>3, <1>4, <1>5, <1>6 DEF TurnStep

\* ... of an attach that is answered, or a call that fails; and a line that is typed.
LEMMA AnswersTyped ==
  ASSUME Typed, Named, NEW p \in Panes, AnswerStep(p)
  PROVE  Typed'
<1>0. /\ pane[p] \in PaneState /\ bind[p] \in Turn /\ bind \in [Panes -> Turn] /\ PanesTyped
      /\ feeds \in SUBSET Feed /\ pane \in [Panes -> PaneState] /\ Unattached(p) \in SUBSET Feed
  BY DEF Typed, PanesTyped, NetTyped, Unattached
<1>1. CASE Gone(p)
  <2>1. SetPane(p, Lose(pane[p])) \/ SetPane(p, End(pane[p]))
    BY <1>1 DEF Gone
  <2>2. pane' \in [Panes -> PaneState]
    BY <2>1, <1>0, PaneShapes, SetsPane
  <2>3. bind' \in [Panes -> Turn] /\ feeds' \in SUBSET Feed
    BY <1>1, <1>0, TurnsTyped DEF Gone
  <2>4. QED
    BY <1>1, <2>2, <2>3 DEF Gone, Typed, HostTyped, NetTyped, PanesTyped, TasksTyped, HistoryTyped, Profile,
        net, tasks, mind, panesHistory
<1>2. CASE AttachSuperseded(p)
  <2>1. bind' \in [Panes -> Turn] /\ feeds' \in SUBSET Feed
    BY <1>2, <1>0, TurnsTyped DEF AttachSuperseded
  <2>2. QED
    BY <1>2, <2>1 DEF AttachSuperseded, Typed, HostTyped, NetTyped, PanesTyped, TasksTyped, HistoryTyped,
        Profile, net, tasks, mind, panesHistory
<1>3. CASE Attached(p)
  <2>1. pane' \in [Panes -> PaneState]
    <3>1. PICK fresh \in BOOLEAN :
            SetPane(p, [pane[p] EXCEPT !.gen = OwnGeneration(pane[p]), !.on = bind[p].l,
                !.anchor = bind[p].upto,
                          !.seed = @ /\ ~pane[p].mine,
                          !.input = IF pane[p].seed /\ pane[p].mine /\ fresh
                                    THEN Append(@, OwnGeneration(pane[p])) ELSE @])
      BY <1>3 DEF Attached
    <3>2. OwnGeneration(pane[p]) \in Nat /\ bind[p].l \in Nat /\ bind[p].upto \in Int
          /\ pane[p].input \in Seq(Nat) /\ (pane[p].seed /\ ~pane[p].mine) \in BOOLEAN
      BY <1>0, PaneFields, TurnFields DEF OwnGeneration
    <3>3. (IF pane[p].seed /\ pane[p].mine /\ fresh
           THEN Append(pane[p].input, OwnGeneration(pane[p])) ELSE pane[p].input) \in Seq(Nat)
      BY <3>2
    <3>4. [pane[p] EXCEPT !.gen = OwnGeneration(pane[p]), !.on = bind[p].l, !.anchor = bind[p].upto,
                          !.seed = @ /\ ~pane[p].mine,
                          !.input = IF pane[p].seed /\ pane[p].mine /\ fresh
                                    THEN Append(@, OwnGeneration(pane[p])) ELSE @] \in PaneState
      BY <1>0, <3>2, <3>3, PaneChanges, Zenon
    <3>5. QED
      BY <3>1, <3>4, <1>0, SetsPane
  <2>2. bind' \in [Panes -> Turn]
    BY <1>3, <1>0, TurnsTyped DEF Attached
  <2>3. feeds' \in SUBSET Feed
    <3>1. OwnGeneration(pane[p]) \in Nat
      BY <1>0, PaneFields DEF OwnGeneration
    <3>2. \A g \in Nat : \A f \in Feed : [f EXCEPT !.gen = g] \in Feed
      BY DEF Feed
    <3>3. QED
      BY <1>3, <1>0, <3>1, <3>2 DEF Attached
  <2>4. seen' \in [Panes -> View]
    <3>1. bind[p].from \in Int /\ bind[p].upto \in Int /\ seen \in [Panes -> View]
      BY <1>0, TurnFields DEF Typed, HistoryTyped
    <3>2. Handed(p, bind[p].from, bind[p].upto) \in View
      BY <3>1, HandedTyped
    <3>3. \A v \in View : [v EXCEPT !.replayed = FALSE] \in View
      BY DEF View
    <3>4. QED
      BY <1>3, <3>1, <3>2, <3>3 DEF Attached
  <2>5. QED
    BY <1>3, <2>1, <2>2, <2>3, <2>4 DEF Attached, Typed, HostTyped, NetTyped, PanesTyped, TasksTyped,
        HistoryTyped, Profile, net, tasks, mind, panesHistory
<1>4. CASE CallFails(p)
  <2>1. host' \in HostState /\ Len(host'.ses) <= MaxIds
    <3>1. \A h \in HostState : [h EXCEPT !.strays = h.strays + 1] \in HostState
      BY DEF HostState
    <3>2. QED
      BY <1>4, <3>1 DEF CallFails, Typed, HostTyped, HostState
  <2>2. bind' \in [Panes -> Turn] /\ opening' \in 0 .. Adoption
    BY <1>4, <1>0, TurnsTyped, UnlocksTyped DEF CallFails
  <2>3. feeds' \in SUBSET Feed
    BY <1>4, <1>0 DEF CallFails
  <2>4. QED
    BY <1>4, <2>1, <2>2, <2>3 DEF CallFails, Typed, HostTyped, NetTyped, PanesTyped, TasksTyped,
        HistoryTyped, Profile, net, tasks, mind, panesHistory
<1>5. CASE TypesLine(p)
  <2>1. pane' \in [Panes -> PaneState]
    <3>1. pane[p].input \in Seq(Nat) /\ pane[p].input # <<>>
      BY <1>5, <1>0, PaneFields DEF TypesLine
    <3>2. Tail(pane[p].input) \in Seq(Nat)
      BY <3>1
    <3>3. [pane[p] EXCEPT !.input = Tail(@)] \in PaneState
      BY <1>0, <3>2, PaneChanges
    <3>4. QED
      BY <1>5, <1>0, <3>3, SetsPane DEF TypesLine
  <2>2. typed' \in [lines : Seq(Panes \X (0 .. MaxPanes)), askers : SUBSET Panes]
    <3>1. CASE UNCHANGED typed
      BY <3>1 DEF Typed, HistoryTyped
    <3>2. CASE /\ pane[p].remote \in Alive
               /\ typed' = [typed EXCEPT !.lines = Append(@, <<p, Session(pane[p].remote).by>>)]
      <4>1. Session(pane[p].remote).by \in 0 .. MaxPanes
        <5>1. host.ses[pane[p].remote] \in SessionState
          BY <3>2, SessionsTyped DEF Typed, HostTyped, HostState
        <5>2. QED
          BY <5>1 DEF Session, SessionState
      <4>2. <<p, Session(pane[p].remote).by>> \in Panes \X (0 .. MaxPanes)
        BY <4>1
      <4>3. Append(typed.lines, <<p, Session(pane[p].remote).by>>) \in Seq(Panes \X (0 .. MaxPanes))
        BY <4>2 DEF Typed, HistoryTyped
      <4>5. \A t \in [lines : Seq(Panes \X (0 .. MaxPanes)), askers : SUBSET Panes] :
              \A s \in Seq(Panes \X (0 .. MaxPanes)) :
                [t EXCEPT !.lines = s] \in [lines : Seq(Panes \X (0 .. MaxPanes)), askers : SUBSET Panes]
        OBVIOUS
      <4>4. QED
        BY <3>2, <4>3, <4>5 DEF Typed, HistoryTyped
    <3>3. QED
      BY <1>5, <3>1, <3>2 DEF TypesLine
  <2>3. QED
    BY <1>5, <2>1, <2>2 DEF TypesLine, Typed, HostTyped, NetTyped, PanesTyped, TasksTyped, HistoryTyped,
        Profile, net, tasks, mind, panesHistory
<1>6. QED
  BY <1>1, <1>2, <1>3, <1>4, <1>5 DEF AnswerStep

\* ... of the pump of an attach.
LEMMA PumpsTyped ==
  ASSUME Typed, NEW f \in feeds, PumpStep(f)
  PROVE  Typed'
<1>0. /\ f \in Feed /\ f.pane \in Panes /\ pane[f.pane] \in PaneState
      /\ feeds \in SUBSET Feed /\ pane \in [Panes -> PaneState]
  BY DEF Typed, PanesTyped, NetTyped, Feed
<1>1. Forgets(f) => feeds' \in SUBSET Feed
  BY <1>0 DEF Forgets
<1>2. CASE PumpSuperseded(f)
  BY <1>1, <1>2 DEF PumpSuperseded, Typed, HostTyped, NetTyped, PanesTyped, TasksTyped, HistoryTyped,
      Profile, net, tasks, mind, panesHistory
<1>3. CASE Forwards(f)
  <2>0. f.q \in Seq(Nat) /\ f.q # <<>>
    BY <1>0, <1>3 DEF Forwards, Feed
  <2>1. Head(f.q) \in Nat /\ Tail(f.q) \in Seq(Nat)
    BY <2>0
  <2>2. feeds' \in SUBSET Feed
    <3>1. [f EXCEPT !.q = Tail(f.q)] \in Feed
      BY <1>0, <2>1 DEF Feed
    <3>2. QED
      BY <1>3, <1>0, <3>1 DEF Forwards, Drains
  <2>3. pane' \in [Panes -> PaneState]
    <3>1. pane[f.pane].anchor + 1 \in Int
      BY <1>0, PaneFields
    <3>2. [pane[f.pane] EXCEPT !.anchor = @ + 1] \in PaneState
      BY <1>0, <3>1, PaneChanges
    <3>3. QED
      BY <1>3, <1>0, <3>2, SetsPane DEF Forwards
  <2>4. seen' \in [Panes -> View]
    <3>1. Head(f.q) - 1 \in Int /\ Head(f.q) \in Int /\ seen \in [Panes -> View]
      BY <2>1 DEF Typed, HistoryTyped
    <3>2. Handed(f.pane, Head(f.q) - 1, Head(f.q)) \in View
      BY <3>1, <1>0, HandedTyped
    <3>3. \A v \in View, r \in BOOLEAN : [v EXCEPT !.replayed = r] \in View
      BY DEF View
    <3>4. \A v \in View, b \in BOOLEAN : (v.replayed \/ b) \in BOOLEAN
      OBVIOUS
    <3>5. [Handed(f.pane, Head(f.q) - 1, Head(f.q)) EXCEPT
             !.replayed = @ \/ bind[f.pane].at \in {"attaching", "answering", "attached"}] \in View
      BY <3>2, <3>3, <3>4, Zenon
    <3>6. QED
      BY <1>3, <3>1, <3>5 DEF Forwards
  <2>5. QED
    BY <1>3, <2>2, <2>3, <2>4 DEF Forwards, Typed, HostTyped, NetTyped, PanesTyped, TasksTyped,
        HistoryTyped, Profile, net, tasks, mind, panesHistory
<1>4. CASE ForwardsExit(f)
  <2>1. pane' \in [Panes -> PaneState]
    BY <1>4, <1>0, PaneShapes, SetsPane DEF ForwardsExit
  <2>2. QED
    BY <1>4, <1>1, <2>1 DEF ForwardsExit, Typed, HostTyped, NetTyped, PanesTyped, TasksTyped, HistoryTyped,
        Profile, net, tasks, mind, panesHistory
<1>5. CASE PumpEnds(f)
  <2>1. pane' \in [Panes -> PaneState]
    <3>1. SetPane(f.pane, [pane[f.pane] EXCEPT !.on = None]) \/ SetPane(f.pane, pane[f.pane])
      BY <1>5 DEF PumpEnds
    <3>2. QED
      BY <3>1, <1>0, PaneChanges, SetsPane DEF None
  <2>2. QED
    BY <1>5, <1>1, <2>1 DEF PumpEnds, Typed, HostTyped, NetTyped, PanesTyped, TasksTyped, HistoryTyped,
        Profile, net, tasks, mind, panesHistory
<1>6. QED
  BY <1>2, <1>3, <1>4, <1>5 DEF PumpStep

\* Of ids that are not none, Max takes one.
LEMMA MaxTaken ==
  ASSUME NEW S \in SUBSET Ids, S # {}
  PROVE  Max(S) \in S
<1>0. MaxIds \in Nat /\ S \subseteq 1 .. MaxIds
  BY BoundsAre DEF Ids
<1> DEFINE T == {MaxIds - x : x \in S}
<1>5. \A x \in S : MaxIds - x \in Nat
  BY <1>0
<1>1. T \subseteq Nat /\ T # {}
  BY <1>5
<1>2. PICK m \in T : \A y \in T : ~(<<y, m>> \in OpToRel(<, Nat))
  <2> HIDE DEF T
  <2>1. QED
    BY <1>1, NatLessThanWellFounded, WFMin
<1>3. PICK x \in S : m = MaxIds - x
  OBVIOUS
<1>4. ASSUME NEW y \in S PROVE x >= y
  <2>1. MaxIds - y \in T
    OBVIOUS
  <2>2. <<MaxIds - y, m>> \in Nat \X Nat
    BY <1>0, <1>3
  <2>3. ~(MaxIds - y < m)
    <3> SUFFICES ASSUME MaxIds - y < m PROVE <<MaxIds - y, m>> \in OpToRel(<, Nat)
      BY <1>2, <2>1
    <3>1. QED
      BY <2>2 DEF OpToRel
  <2>4. QED
    BY <2>3, <1>0, <1>3
<1>6. QED
  BY <1>4 DEF Max

\* ... of the watch.
LEMMA WatchesTyped ==
  ASSUME Typed, Named, WatchStep
  PROVE  Typed'
<1>0. /\ watch \in [task : TaskState, adopted : Nat] /\ watch.task \in TaskState /\ watch.adopted \in Nat
      /\ Adoption \in 0 .. Adoption /\ None \in 0 .. Adoption
  BY BoundsAre DEF Typed, TasksTyped, None
<1>w. {"locking", "listing", "listed", "again", "reaping", "joins", "idle"} \subseteq WatchAts
  BY DEF WatchAts
<1>k. ASSUME NEW t \in TaskState PROVE [watch EXCEPT !.task = t] \in [task : TaskState, adopted : Nat]
  <2>1. \A w \in [task : TaskState, adopted : Nat], u \in TaskState :
          [w EXCEPT !.task = u] \in [task : TaskState, adopted : Nat]
    OBVIOUS
  <2>2. QED
    BY <2>1, <1>0
<1>1. CASE TakesNews
  <2> DEFINE binds == {BindOf(p, "watch", live) : p \in Waiting}
  <2>1. binds \in SUBSET BindTurn
    BY DEF BindOf, BindTurn, Callers, Waiting, Typed, NetTyped
  <2>2. queue' \in SUBSET (BindTurn \cup HideTurn)
    BY <1>1, <2>1 DEF TakesNews, Typed, TasksTyped
  <2>3. watch' \in [task : TaskState, adopted : Nat]
    <3>1. \A l \in Nat, b \in SUBSET BindTurn : [Watching EXCEPT !.at = "joins", !.l = l,
        !.binds = b] \in TaskState
      BY <1>w, <1>0, WatchTyped DEF TaskState
    <3>2. live \in Nat
      BY DEF Typed, NetTyped
    <3>3. [Watching EXCEPT !.at = "joins", !.l = live, !.binds = binds] \in TaskState
      <4> HIDE DEF binds
      <4>1. QED
        BY <3>1, <3>2, <2>1
    <3>4. \/ UNCHANGED watch
          \/ watch' = [watch EXCEPT !.task = [Watching EXCEPT !.at = "joins", !.l = live, !.binds = binds]]
      BY <1>1 DEF TakesNews
    <3>5. QED
      BY <3>3, <3>4, <1>0, <1>k
  <2>4. seen' \in [Panes -> View]
    <3>1. \A v \in View : [v EXCEPT !.late = FALSE] \in View
      BY DEF View
    <3>2. QED
      BY <1>1, <3>1 DEF TakesNews, Typed, HistoryTyped
  <2>5. news' \in Nat
    BY <1>1 DEF TakesNews, Typed, NetTyped
  <2>6. QED
    BY <1>1, <2>2, <2>3, <2>4, <2>5 DEF TakesNews, Typed, HostTyped, NetTyped, PanesTyped, TasksTyped,
        HistoryTyped, Profile, net, tasks, mind, panesHistory
<1>2. CASE Joins
  <2>1. watch' \in [task : TaskState, adopted : Nat]
    BY <1>2, <1>0, <1>w, WatchTyped DEF Joins
  <2>2. QED
    BY <1>2, <2>1 DEF Joins, Typed, HostTyped, NetTyped, PanesTyped, TasksTyped, HistoryTyped, Profile, net,
        tasks, mind, panesHistory
<1>3. CASE AdoptionLocks
  <2>1. watch' \in [task : TaskState, adopted : Nat]
    BY <1>3, <1>0, <1>w, WatchTyped DEF AdoptionLocks
  <2>2. QED
    BY <1>3, <1>0, <2>1 DEF AdoptionLocks, Typed, HostTyped, NetTyped, PanesTyped, TasksTyped, HistoryTyped,
        Profile, net, tasks, mind, panesHistory
<1>4. CASE AdoptionFails
  <2>1. watch' \in [task : TaskState, adopted : Nat]
    BY <1>4, <1>0, WatchTyped DEF AdoptionFails
  <2>2. QED
    BY <1>4, <1>0, <2>1 DEF AdoptionFails, Typed, HostTyped, NetTyped, PanesTyped, TasksTyped, HistoryTyped,
        Profile, net, tasks, mind, panesHistory
<1>5. CASE ListsAgain
  <2>1. watch' \in [task : TaskState, adopted : Nat]
    <3>1. Task("locking") \/ Idles
      BY <1>5 DEF ListsAgain
    <3>2. QED
      BY <3>1, <1>0, <1>w, WatchTyped
  <2>2. QED
    BY <1>5, <2>1 DEF ListsAgain, Typed, HostTyped, NetTyped, PanesTyped, TasksTyped, HistoryTyped, Profile,
        net, tasks, mind, panesHistory
<1>6. CASE ClosesExited
  <2>1. watch' \in [task : TaskState, adopted : Nat]
    <3>1. CASE watch.task.dead = {}
      <4>1. watch.task.at # "idle"
        BY <1>6 DEF ClosesExited
      <4>2. BootOf(watch.task.l) \in Nat
        BY <4>1, BootsTyped DEF Named
      <4>3. watch' = [task |-> Watching, adopted |-> BootOf(watch.task.l)]
        BY <1>6, <3>1 DEF ClosesExited
      <4>4. QED
        BY <4>2, <4>3, <1>0, WatchTyped
    <3>2. CASE watch.task.dead # {}
      <4> DEFINE dead == watch.task.dead \ {Min(watch.task.dead)}
      <4>1. dead \in SUBSET Ids
        BY <1>0 DEF TaskState
      <4>2. watch' = [watch EXCEPT !.task = [watch.task EXCEPT !.dead = dead]]
        BY <1>6, <3>2 DEF ClosesExited
      <4>3. [watch.task EXCEPT !.dead = dead] \in TaskState
        <5> HIDE DEF dead
        <5>1. QED
          BY <4>1, <1>0 DEF TaskState
      <4>4. QED
        BY <4>2, <4>3, <1>k
    <3>3. QED
      BY <3>1, <3>2
  <2>2. HostTyped'
    <3>1. UNCHANGED host \/ \E id : host' = [host EXCEPT !.ses[id].st = "closed"]
      BY <1>6 DEF ClosesExited
    <3>2. UNCHANGED host => HostTyped'
      BY DEF Typed, HostTyped
    <3>3. QED
      BY <3>1, <3>2, ClosesTyped DEF Typed
  <2>3. QED
    BY <1>6, <2>1, <2>2 DEF ClosesExited, Typed, NetTyped, PanesTyped, TasksTyped, HistoryTyped, Profile,
       net, panesHistory
<1>7. CASE HostListsAll
  <2> DEFINE dead == {id \in DOMAIN host.ses : Session(id).st = "exited"}
  <2>1. Alive \in SUBSET Ids /\ dead \in SUBSET Ids
    BY SessionsTyped, BoundsAre DEF Typed, HostTyped, HostState, Ids
  <2>2. \A t \in TaskState, a \in SUBSET Ids, d \in SUBSET Ids :
          [t EXCEPT !.at = "listed", !.alive = a, !.dead = d] \in TaskState
    BY <1>w DEF TaskState
  <2>3. watch' = [watch EXCEPT !.task = [watch.task EXCEPT !.at = "listed", !.alive = Alive, !.dead = dead]]
    BY <1>7 DEF HostListsAll
  <2>4. watch' \in [task : TaskState, adopted : Nat]
    <3> HIDE DEF dead
    <3>1. QED
      BY <2>1, <2>2, <2>3, <1>0, <1>k
  <2>5. QED
    BY <1>7, <2>4 DEF HostListsAll, Typed, HostTyped, NetTyped, PanesTyped, TasksTyped, HistoryTyped,
        Profile, net, tasks, mind, panesHistory
<1>8. CASE ListingRefused
  <2>1. watch' \in [task : TaskState, adopted : Nat]
    <3>1. \/ Idles
          \/ watch' = [watch EXCEPT !.task = [watch.task EXCEPT !.at = "again", !.again = TRUE]]
      BY <1>8 DEF ListingRefused
    <3>2. [watch.task EXCEPT !.at = "again", !.again = TRUE] \in TaskState
      BY <1>0, <1>w DEF TaskState
    <3>3. QED
      BY <3>1, <3>2, <1>0, <1>k, WatchTyped
  <2>2. Profile'
    BY <1>8, Spends DEF ListingRefused, Does, Typed, HistoryTyped
  <2>3. QED
    BY <1>8, <1>0, <2>1, <2>2 DEF ListingRefused, Typed, HostTyped, NetTyped, PanesTyped, TasksTyped,
       HistoryTyped, net
<1>9. QED
  BY <1>1, <1>2, <1>3, <1>4, <1>5, <1>6, <1>7, <1>8 DEF WatchStep

\* ... of an adoption, which makes panes of the sessions it found.
LEMMA TakesOverTyped ==
  ASSUME Typed, Named, TakesOver
  PROVE  Typed'
<1> DEFINE boot == BootOf(watch.task.l)
           new == watch.task.alive \ Held(boot, None)
           minted == Cardinality(Born) + 1 .. Cardinality(Born) + Cardinality(new)
<1>1. boot \in Nat
  BY BootsTyped DEF Named, TakesOver
<1>2. new \in SUBSET Ids
  BY DEF Typed, TasksTyped, TaskState
<1>8. \A id \in new : id \in 0 .. MaxIds
  BY <1>2, BoundsAre DEF Ids
<1>3. pane' \in [Panes -> PaneState]
  <2>1. PICK takes \in Takers(minted, new) :
          pane' = [p \in Panes |-> IF p \in minted THEN Adopted(boot, takes[p]) ELSE pane[p]]
    BY DEF TakesOver
  <2>2. \A b \in Nat, id \in 0 .. MaxIds : Adopted(b, id) \in PaneState
    BY UnbornTyped DEF PaneState, Adopted
  <2> HIDE DEF boot, new, minted
  <2>3. ASSUME NEW p \in minted PROVE Adopted(boot, takes[p]) \in PaneState
    <3>1. takes[p] \in 0 .. MaxIds
      <4>1. takes \in [minted -> new]
        BY <2>1 DEF Takers
      <4>2. takes[p] \in new
        BY <4>1
      <4>3. QED
        BY <4>2, <1>8
    <3>2. QED
      BY <1>1, <2>2, <3>1
  <2>4. QED
    BY <2>1, <2>3 DEF Typed, PanesTyped
<1>4. watch' \in [task : TaskState, adopted : Nat]
  <2> DEFINE dead == watch.task.dead \ Held(boot, None)
  <2>1. watch' = [watch EXCEPT !.task = [watch.task EXCEPT !.at = "reaping", !.alive = {}, !.dead = dead]]
    BY DEF TakesOver
  <2>2. watch \in [task : TaskState, adopted : Nat] /\ dead \in SUBSET Ids
    BY DEF Typed, TasksTyped, TaskState
  <2> HIDE DEF dead
  <2>3. [watch.task EXCEPT !.at = "reaping", !.alive = {}, !.dead = dead] \in TaskState
    BY <2>2 DEF TaskState, WatchAts
  <2>4. QED
    BY <2>1, <2>2, <2>3
<1>5. opening' \in 0 .. Adoption
  BY BoundsAre DEF TakesOver, None
<1>6. UNCHANGED <<host, net, feeds, bind, queue, opens, panesHistory>>
  BY DEF TakesOver
<1>7. QED
  BY <1>3, <1>4, <1>5, <1>6 DEF Typed, HostTyped, NetTyped, PanesTyped, TasksTyped, HistoryTyped, Profile,
      net, tasks, mind, panesHistory

\* ... of what the host does with a pane's calls.
LEMMA HostsTyped ==
  ASSUME Typed, Named, NEW p \in Panes, HostStep(p)
  PROVE  Typed'
<1>0. /\ bind[p] \in Turn /\ bind \in [Panes -> Turn]
      /\ host \in HostState /\ links \in Seq(Link) /\ p \in Nat
      /\ bind[p].ses \in Nat /\ bind[p].l \in Nat
  BY TurnFields, BoundsAre DEF Typed, PanesTyped, HostTyped, NetTyped, Panes
<1>k. ASSUME NEW b \in Turn, bind' = [bind EXCEPT ![p] = b] PROVE bind' \in [Panes -> Turn]
  BY <1>0, <1>k
<1>f. \A kind \in {"data", "exit", "attached", "gone"}, id \in Nat, n \in Nat :
        [kind |-> kind, ses |-> id, n |-> n] \in Frame
  BY DEF Frame
<1>1. CASE HostLists(p)
  <2> DEFINE id == IF Alive \ bind[p].taken = {} THEN None ELSE Max(Alive \ bind[p].taken)
  <2>1. id \in 0 .. MaxIds
    <3>1. Alive \in SUBSET Ids
      BY SessionsTyped, BoundsAre DEF Typed, HostTyped, HostState, Ids
    <3>2. Alive \ bind[p].taken \in SUBSET Ids
      BY <3>1
    <3>3. QED
      BY <3>2, MaxTaken, BoundsAre DEF Ids, None
  <2>2. bind' = [bind EXCEPT ![p] = [bind[p] EXCEPT !.at = "found", !.ses = id]]
    BY <1>1, <1>0 DEF HostLists
  <2> HIDE DEF id
  <2>3. [bind[p] EXCEPT !.at = "found", !.ses = id] \in Turn
    BY <2>1, <1>0, TurnChanges DEF TurnAts
  <2>4. bind' \in [Panes -> Turn]
    BY <2>2, <2>3, <1>k
  <2>5. QED
    BY <1>1, <2>4 DEF HostLists, Typed, HostTyped, NetTyped, PanesTyped, TasksTyped, HistoryTyped, Profile,
        net, tasks, mind, panesHistory
<1>2. CASE HostOpens(p)
  <2>1. Len(host.ses) + 1 \in 0 .. MaxIds /\ host.ses \in Seq(SessionState)
    BY <1>2, <1>0, BoundsAre DEF HostOpens, HostState
  <2>2. bind' = [bind EXCEPT ![p] = [bind[p] EXCEPT !.at = "opened", !.ses = Len(host.ses) + 1]]
    BY <1>2, <1>0 DEF HostOpens
  <2>3. [bind[p] EXCEPT !.at = "opened", !.ses = Len(host.ses) + 1] \in Turn
    BY <2>1, <1>0, TurnChanges DEF TurnAts
  <2>4. bind' \in [Panes -> Turn]
    BY <2>2, <2>3, <1>k
  <2>5. HostTyped'
    <3>1. p \in 0 .. MaxPanes
      BY BoundsAre DEF Panes
    <3>2. Append(host.ses, NewSession(p)) \in Seq(SessionState)
      BY <3>1, <1>0, SessionsTyped
    <3>3. Len(Append(host.ses, NewSession(p))) = Len(host.ses) + 1
      BY <2>1
    <3>4. host' = [host EXCEPT !.ses = Append(host.ses, NewSession(p))]
      BY <1>2 DEF HostOpens
    <3>5. \A s \in Seq(SessionState) : [host EXCEPT !.ses = s] \in HostState
      BY <1>0 DEF HostState
    <3>6. [host EXCEPT !.ses = Append(host.ses, NewSession(p))].ses = Append(host.ses, NewSession(p))
      BY <1>0 DEF HostState
    <3>7. host'.ses = Append(host.ses, NewSession(p)) /\ host' \in HostState
      BY <3>2, <3>4, <3>5, <3>6
    <3>8. Len(host'.ses) <= MaxIds
      BY <3>3, <3>7, <2>1
    <3>9. QED
      BY <3>7, <3>8 DEF HostTyped
  <2>6. QED
    BY <1>2, <2>4, <2>5 DEF HostOpens, Typed, NetTyped, PanesTyped, TasksTyped, HistoryTyped, Profile,
       net, tasks, panesHistory
<1>3. CASE HostRefuses(p)
  <2>1. bind' \in [Panes -> Turn]
    BY <1>3, <1>0, TurnsTyped DEF HostRefuses, TurnAts
  <2>2. Profile'
    <3>1. UNCHANGED left \/ Spend("refuse")
      BY <1>3 DEF HostRefuses
    <3>2. Profile /\ "refuse" \in Does
      BY DEF Typed, HistoryTyped, Does
    <3>3. QED
      BY <3>1, <3>2, Spends DEF Profile
  <2>3. QED
    BY <1>3, <2>1, <2>2 DEF HostRefuses, Typed, HostTyped, NetTyped, PanesTyped, TasksTyped, HistoryTyped,
       net, tasks
<1>4. CASE HostAttaches(p)
  <2>0. /\ UNCHANGED <<live, news, feeds, pane, tasks, panesHistory>>
        /\ bind[p].l \in DOMAIN links /\ links[bind[p].l] \in Link
    BY <1>4, <1>0 DEF HostAttaches, Calls, Named
  <2>1. CASE Exists(bind[p].ses)
    <3> DEFINE l == bind[p].l
               id == bind[p].ses
               first == [kind |-> "attached", ses |-> id, n |-> p]
               exit == IF Session(id).st = "exited" THEN <<[kind |-> "exit", ses |-> id, n |-> 0]>> ELSE <<>>
               wire == Append(links[l].wire, first) \o exit
    <3>1. /\ host' = [host EXCEPT !.ses[id].to = l]
          /\ links' = [links EXCEPT ![l] = [links[l] EXCEPT !.wire = wire]]
          /\ bind' = [bind EXCEPT ![p] = [bind[p] EXCEPT !.at = "answering", !.upto = Session(id).out]]
      <4>1. links' = [links EXCEPT ![l].wire = Append(@, first) \o exit]
        BY <1>4, <2>1 DEF HostAttaches
      <4>2. links' = [links EXCEPT ![l] = [links[l] EXCEPT !.wire = wire]]
        BY <4>1, <2>0
      <4>3. QED
        BY <1>4, <2>1, <4>2, <1>0 DEF HostAttaches
    <3>2. id \in DOMAIN host.ses /\ host.ses[id] \in SessionState /\ host.ses \in Seq(SessionState)
      BY <2>1, <1>0 DEF Exists, HostState
    <3>3. wire \in Seq(Frame)
      <4>1. first \in Frame /\ links[l].wire \in Seq(Frame)
        BY <1>f, <1>0, <2>0 DEF Link
      <4>2. exit \in Seq(Frame)
        <5>1. [kind |-> "exit", ses |-> id, n |-> 0] \in Frame
          BY <1>f, <1>0
        <5>2. <<[kind |-> "exit", ses |-> id, n |-> 0]>> \in Seq(Frame) /\ <<>> \in Seq(Frame)
          BY <5>1
        <5>3. QED
          BY <5>2
      <4> HIDE DEF first, exit
      <4>3. Append(links[l].wire, first) \in Seq(Frame)
        BY <4>1
      <4>4. QED
        BY <4>2, <4>3
    <3>4. links' \in Seq(Link)
      <4> HIDE DEF wire
      <4>1. [links[l] EXCEPT !.wire = wire] \in Link
        BY <2>0, <3>3 DEF Link
      <4>2. \A k \in Link : [links EXCEPT ![l] = k] \in Seq(Link)
        BY <2>0, <1>0
      <4>3. QED
        BY <3>1, <4>1, <4>2
    <3>5. bind' \in [Panes -> Turn]
      <4>1. Session(id).out \in Nat
        BY <3>2 DEF Session, SessionState
      <4>2. [bind[p] EXCEPT !.at = "answering", !.upto = Session(id).out] \in Turn
        BY <4>1, <1>0, TurnChanges DEF TurnAts
      <4>3. QED
        BY <3>1, <4>2, <1>k
    <3>6. HostTyped'
      <4>1. [host.ses[id] EXCEPT !.to = l] \in SessionState
        BY <3>2, <1>0 DEF SessionState
      <4>2. host' = [host EXCEPT !.ses = [host.ses EXCEPT ![id] = [host.ses[id] EXCEPT !.to = l]]]
        BY <3>1
      <4>3. [host.ses EXCEPT ![id] = [host.ses[id] EXCEPT !.to = l]] \in Seq(SessionState)
            /\ Len([host.ses EXCEPT ![id] = [host.ses[id] EXCEPT !.to = l]]) = Len(host.ses)
        BY <3>2, <4>1
      <4>4. QED
        BY <4>2, <4>3 DEF Typed, HostTyped, HostState
    <3>7. QED
      BY <2>0, <3>4, <3>5, <3>6 DEF Typed, NetTyped, PanesTyped, TasksTyped, HistoryTyped, Profile,
         tasks, panesHistory
  <2>2. CASE ~Exists(bind[p].ses)
    <3>1. /\ Put(bind[p].l, [kind |-> "gone", ses |-> bind[p].ses, n |-> p])
          /\ At(p, "answering") /\ UNCHANGED host
      BY <1>4, <2>2 DEF HostAttaches
    <3>2. links' \in Seq(Link)
      BY <3>1, <1>f, <1>0, Puts
    <3>3. bind' \in [Panes -> Turn]
      BY <3>1, <1>0, TurnsTyped DEF TurnAts
    <3>4. QED
      BY <2>0, <3>1, <3>2, <3>3 DEF Typed, HostTyped, NetTyped, PanesTyped, TasksTyped, HistoryTyped,
          Profile, net, tasks, mind, panesHistory
  <2>3. QED
    BY <2>1, <2>2
<1>5. CASE HostCloses(p)
  <2>0. UNCHANGED <<live, news, feeds, pane, tasks, panesHistory>> /\ At(p, "closed")
    BY <1>5 DEF HostCloses
  <2>1. bind' \in [Panes -> Turn]
    BY <2>0, <1>0, TurnsTyped DEF TurnAts
  <2>2. HostTyped'
    <3>1. host' = [host EXCEPT !.ses[bind[p].ses].st = "closed"] \/ UNCHANGED host
      BY <1>5 DEF HostCloses
    <3>2. UNCHANGED host => HostTyped'
      BY DEF Typed, HostTyped
    <3>3. QED
      BY <3>1, <3>2, ClosesTyped DEF Typed
  <2>3. links' \in Seq(Link)
    <3>1. \/ Put(Session(bind[p].ses).to, [kind |-> "exit", ses |-> bind[p].ses, n |-> 0])
          \/ UNCHANGED links
      BY <1>5 DEF HostCloses
    <3>2. QED
      BY <3>1, <1>f, <1>0, Puts
  <2>4. QED
    BY <2>0, <2>1, <2>2, <2>3 DEF Typed, NetTyped, PanesTyped, TasksTyped, HistoryTyped, Profile,
       tasks, panesHistory
<1>6. CASE HostDetaches(p)
  <2>1. bind' \in [Panes -> Turn]
    BY <1>6, <1>0, TurnsTyped DEF HostDetaches
  <2>2. HostTyped'
    <3>1. CASE host' = host
      BY <3>1 DEF Typed, HostTyped
    <3>2. CASE /\ Exists(bind[p].ses)
               /\ host' = [host EXCEPT !.ses[bind[p].ses].to = None]
      <4> DEFINE id == bind[p].ses
      <4>0. id \in DOMAIN host.ses /\ host.ses[id] \in SessionState /\ host.ses \in Seq(SessionState)
        BY <3>2, <1>0 DEF Exists, HostState
      <4>1. [host.ses[id] EXCEPT !.to = None] \in SessionState
        BY <4>0 DEF SessionState, None
      <4>2. host' = [host EXCEPT !.ses = [host.ses EXCEPT ![id] = [host.ses[id] EXCEPT !.to = None]]]
        BY <3>2
      <4>3. [host.ses EXCEPT ![id] = [host.ses[id] EXCEPT !.to = None]] \in Seq(SessionState)
            /\ Len([host.ses EXCEPT ![id] = [host.ses[id] EXCEPT !.to = None]]) = Len(host.ses)
        BY <4>0, <4>1
      <4>4. QED
        BY <4>2, <4>3 DEF Typed, HostTyped, HostState
    <3>3. QED
      BY <1>6, <3>1, <3>2 DEF HostDetaches
  <2>3. QED
    BY <1>6, <2>1, <2>2 DEF HostDetaches, Typed, NetTyped, PanesTyped, TasksTyped, HistoryTyped, Profile,
       net, tasks, panesHistory
<1>7. QED
  BY <1>1, <1>2, <1>3, <1>4, <1>5, <1>6 DEF HostStep

\* ... of what its sessions do.
LEMMA SessionsGoTyped ==
  ASSUME Typed, NEW id \in DOMAIN host.ses, SessionStep(id)
  PROVE  Typed'
<1>0. /\ host \in HostState /\ host.ses \in Seq(SessionState) /\ host.ses[id] \in SessionState
      /\ id \in Nat /\ links \in Seq(Link) /\ Profile
      /\ \A kind \in {"data", "exit", "attached", "gone"}, n \in Nat : [kind |-> kind, ses |-> id,
          n |-> n] \in Frame
  BY DEF Typed, HostTyped, HostState, NetTyped, HistoryTyped, Frame
<1>1. CASE HostOutputs(id)
  <2>1. Session(id).out + 1 \in Nat
    BY <1>0 DEF Session, SessionState
  <2>2. links' \in Seq(Link)
    BY <1>1, <1>0, <2>1, Puts DEF HostOutputs
  <2>3. HostTyped'
    <3>1. \A n \in Nat : [host.ses[id] EXCEPT !.out = n] \in SessionState
      BY <1>0 DEF SessionState
    <3>2. [host.ses[id] EXCEPT !.out = host.ses[id].out + 1] \in SessionState
      BY <3>1, <2>1 DEF Session
    <3>3. host' = [host EXCEPT !.ses =
                     [host.ses EXCEPT ![id] = [host.ses[id] EXCEPT !.out = host.ses[id].out + 1]]]
      BY <1>1 DEF HostOutputs
    <3>4. [host.ses EXCEPT ![id] = [host.ses[id] EXCEPT !.out = host.ses[id].out + 1]] \in Seq(SessionState)
          /\ Len([host.ses EXCEPT ![id] = [host.ses[id] EXCEPT !.out = host.ses[id].out + 1]]) = Len(host.ses)
      BY <1>0, <3>2
    <3>5. QED
      BY <3>3, <3>4 DEF Typed, HostTyped, HostState
  <2>4. Profile'
    BY <1>1, <1>0, Spends DEF HostOutputs, Does
  <2>5. QED
    BY <1>1, <2>2, <2>3, <2>4 DEF HostOutputs, Typed, NetTyped, PanesTyped, TasksTyped, HistoryTyped, mind,
        tasks
<1>2. CASE SessionEnds(id)
  <2>1. links' \in Seq(Link)
    BY <1>2, <1>0, Puts DEF SessionEnds
  <2>2. HostTyped'
    BY <1>2, ClosesTyped DEF SessionEnds, Typed
  <2>3. Profile'
    BY <1>2, <1>0, Spends DEF SessionEnds, Does
  <2>4. QED
    BY <1>2, <2>1, <2>2, <2>3 DEF SessionEnds, Typed, NetTyped, PanesTyped, TasksTyped, HistoryTyped, mind,
        tasks
<1>3. CASE HostReaps(id)
  <2>1. HostTyped'
    BY <1>3, ClosesTyped DEF HostReaps, Typed
  <2>2. QED
    BY <1>3, <2>1 DEF HostReaps, Typed, NetTyped, PanesTyped, TasksTyped, HistoryTyped, Profile, net, mind,
        tasks,
       panesHistory
<1>4. QED
  BY <1>1, <1>2, <1>3 DEF SessionStep

\* ... of the links, and of what is read from them.
LEMMA LinksTyped ==
  ASSUME Typed, Named, LinkStep
  PROVE  Typed'
<1>0. /\ host \in HostState /\ Len(host.ses) <= MaxIds /\ Len(host.ses) \in Nat /\ host.boot \in Nat
      /\ links \in Seq(Link) /\ Profile /\ Len(links) \in Nat
      /\ {"link", "drop", "boot"} \subseteq Does
  BY DEF Typed, HostTyped, HostState, NetTyped, HistoryTyped, Does
<1>e. <<>> \in Seq(Frame) /\ <<>> \in Seq(SessionState) /\ Len(<<>>) = 0
  OBVIOUS
<1>1. CASE Connects
  <2>1. [boot |-> host.boot, up |-> TRUE, wire |-> <<>>] \in Link
    BY <1>0, <1>e DEF Link
  <2>2. links' \in Seq(Link)
    BY <1>1, <1>0, <2>1 DEF Connects
  <2>3. live' \in Nat /\ news' \in Nat
    BY <1>1, <1>0 DEF Connects, Typed, NetTyped
  <2>4. Profile'
    BY <1>1, <1>0, Spends DEF Connects
  <2>5. QED
    BY <1>1, <2>2, <2>3, <2>4 DEF Connects, Typed, HostTyped, NetTyped, PanesTyped, TasksTyped, HistoryTyped,
       mind, tasks
<1>2. CASE LinkDies
  <2>1. links' \in Seq(Link) /\ feeds' \in SUBSET Feed
    BY <1>2, DiesTyped DEF LinkDies, Typed, NetTyped
  <2>2. Profile'
    BY <1>2, <1>0, Spends DEF LinkDies
  <2>3. QED
    BY <1>2, <2>1, <2>2 DEF LinkDies, Typed, HostTyped, NetTyped, PanesTyped, TasksTyped, HistoryTyped,
        mind, tasks
<1>3. CASE LiveCleared
  BY <1>3 DEF LiveCleared, None, Typed, HostTyped, NetTyped, PanesTyped, TasksTyped, HistoryTyped, Profile,
      net, tasks, mind, panesHistory
<1>4. CASE HostRestarts
  <2>1. links' \in Seq(Link) /\ feeds' \in SUBSET Feed
    BY <1>4, DiesTyped DEF HostRestarts, Typed, NetTyped
  <2>2. Profile'
    BY <1>4, <1>0, Spends DEF HostRestarts
  <2>3. HostTyped'
    <3>1. host.boot + 1 \in Nat \ {0}
      BY <1>0
    <3>2. host' = [boot |-> host.boot + 1, ses |-> <<>>, strays |-> 0]
      BY <1>4 DEF HostRestarts
    <3>3. host' \in HostState
      BY <3>1, <3>2, <1>e DEF HostState
    <3>4. QED
      BY <3>2, <3>3, <1>e, BoundsAre DEF HostTyped
  <2>4. QED
    BY <1>4, <2>1, <2>2, <2>3 DEF HostRestarts, Typed, NetTyped, PanesTyped, TasksTyped, HistoryTyped, mind,
        tasks
<1>5. CASE StrayOpens
  <2>1. HostTyped'
    <3>1. host.strays - 1 \in Nat /\ host.ses \in Seq(SessionState)
      BY <1>5, <1>0 DEF StrayOpens, HostState
    <3>2. Append(host.ses, NewSession(None)) \in Seq(SessionState)
      BY <1>0, SessionsTyped, BoundsAre DEF None
    <3>3. \A n \in Nat, s \in Seq(SessionState) :
            /\ [host EXCEPT !.strays = n, !.ses = s] \in HostState
            /\ [host EXCEPT !.strays = n, !.ses = s].ses = s
            /\ [host EXCEPT !.strays = n] \in HostState
            /\ [host EXCEPT !.strays = n].ses = host.ses
      BY <1>0 DEF HostState
    <3>4. \/ /\ Len(host.ses) < MaxIds
             /\ host' = [host EXCEPT !.strays = host.strays - 1, !.ses = Append(host.ses, NewSession(None))]
          \/ host' = [host EXCEPT !.strays = host.strays - 1]
      BY <1>5 DEF StrayOpens
    <3>5. Len(Append(host.ses, NewSession(None))) = Len(host.ses) + 1
      BY <3>1
    <3>6. /\ host' \in HostState
          /\ \/ host'.ses = host.ses
             \/ Len(host.ses) < MaxIds /\ host'.ses = Append(host.ses, NewSession(None))
      <4>1. CASE host' = [host EXCEPT !.strays = host.strays - 1]
        BY <4>1, <3>1, <3>3
      <4>2. CASE /\ Len(host.ses) < MaxIds
                 /\ host' = [host EXCEPT !.strays = host.strays - 1, !.ses = Append(host.ses,
                     NewSession(None))]
        <5> DEFINE s == Append(host.ses, NewSession(None))
        <5>1. s \in Seq(SessionState) /\ host.strays - 1 \in Nat /\ Len(host.ses) < MaxIds
              /\ host' = [host EXCEPT !.strays = host.strays - 1, !.ses = s]
          BY <4>2, <3>1, <3>2
        <5>2. host' \in HostState /\ host'.ses = s
          <6> HIDE DEF s
          <6>1. QED
            BY <5>1, <3>3
        <5>3. QED
          BY <5>1, <5>2
      <4>3. QED
        BY <3>4, <4>1, <4>2
    <3>7. Len(host'.ses) <= MaxIds
      BY <3>5, <3>6, <1>0, BoundsAre
    <3>8. QED
      BY <3>6, <3>7 DEF HostTyped
  <2>2. QED
    BY <1>5, <2>1 DEF StrayOpens, Typed, NetTyped, PanesTyped, TasksTyped, HistoryTyped, Profile, net, mind,
        tasks,
       panesHistory
<1>6. QED
  BY <1>1, <1>2, <1>3, <1>4, <1>5 DEF LinkStep

\* The reader of a link (Shared::dispatch) keeps the types.
LEMMA ReadsTyped ==
  ASSUME Typed, NEW l \in DOMAIN links, Reads(l)
  PROVE  Typed'
<1> DEFINE frame == Head(links[l].wire)
<1>0. /\ links \in Seq(Link) /\ links[l] \in Link /\ feeds \in SUBSET Feed
      /\ bind \in [Panes -> Turn] /\ links[l].wire # <<>>
  BY DEF Typed, NetTyped, PanesTyped, Reads
<1>1. links[l].wire \in Seq(Frame)
  BY <1>0 DEF Link
<1>2. frame \in Frame /\ Tail(links[l].wire) \in Seq(Frame)
  BY <1>0, <1>1
<1>3. links' \in Seq(Link)
  <2>1. [links[l] EXCEPT !.wire = Tail(links[l].wire)] \in Link
    BY <1>0, <1>2 DEF Link
  <2>2. links' = [links EXCEPT ![l] = [links[l] EXCEPT !.wire = Tail(links[l].wire)]]
    BY <1>0 DEF Reads
  <2>3. \A k \in Link : [links EXCEPT ![l] = k] \in Seq(Link)
    BY <1>0
  <2>4. QED
    BY <2>1, <2>2, <2>3
<1>4. ReadsData(l, frame) \/ ReadsExit(l, frame) \/ ReadsAnswer(l, frame)
  BY DEF Reads
<1> HIDE DEF frame
<1>5. feeds' \in SUBSET Feed
  <2>1. CASE ReadsData(l, frame)
    BY <2>1, <1>0, <1>2, RoutesTyped DEF ReadsData, Frame
  <2>2. CASE ReadsExit(l, frame)
    <3>1. \A f \in Feed : Append(f.q, None) \in Seq(Nat)
      BY DEF Feed, None
    <3>2. \A f \in Feed : [f EXCEPT !.q = Append(f.q, None), !.state = "ended"] \in Feed
      BY <3>1 DEF Feed
    <3>3. QED
      BY <2>2, <1>0, <3>2 DEF ReadsExit
  <2>3. CASE ReadsAnswer(l, frame)
    <3>1. \A f \in Feed, st \in {"live", "ended"} : [f EXCEPT !.state = st] \in Feed
      BY DEF Feed
    <3>2. (IF frame.kind = "attached" THEN "live" ELSE "ended") \in {"live", "ended"}
      OBVIOUS
    <3>3. QED
      BY <2>3, <1>0, <3>1, <3>2 DEF ReadsAnswer
  <2>4. QED
    BY <1>4, <2>1, <2>2, <2>3
<1>6. bind' \in [Panes -> Turn]
  <2>1. UNCHANGED bind \/ (frame.kind \in {"attached", "gone"} /\ At(frame.n, frame.kind))
    BY <1>4 DEF ReadsData, ReadsExit, ReadsAnswer
  <2>2. CASE frame.n \in Panes
    BY <2>1, <2>2, <1>0, TurnsTyped DEF TurnAts
  <2>3. CASE frame.n \notin Panes
    <3>1. At(frame.n, frame.kind) => bind' = bind
      BY <2>3, <1>0 DEF At
    <3>2. QED
      BY <2>1, <3>1, <1>0
  <2>4. QED
    BY <2>2, <2>3
<1>7. UNCHANGED <<host, live, news, pane, tasks, panesHistory>>
  BY DEF Reads
<1>8. QED
  BY <1>3, <1>5, <1>6, <1>7 DEF Typed, HostTyped, NetTyped, PanesTyped, TasksTyped, HistoryTyped, Profile,
      net, tasks, mind, panesHistory

\* ... of what the window asks for: an open that claims a pane of a session found, or makes one,
LEMMA ShownTyped ==
  ASSUME Typed, Named, NEW p \in Panes, opens # <<>>, Shown(p, Head(opens)), pane' \in [Panes -> PaneState]
  PROVE  /\ queue' \in SUBSET (BindTurn \cup HideTurn) /\ opens' \in Seq(Nat) /\ seen' \in [Panes -> View]
         /\ Head(opens) \in 0 .. Len(links)
<1>0. opens \in Seq(Nat) /\ seen \in [Panes -> View]
  BY DEF Typed, TasksTyped, HistoryTyped
<1>1. Head(opens) \in Nat /\ Tail(opens) \in Seq(Nat) /\ Head(opens) = opens[1] /\ 1 \in 1 .. Len(opens)
  BY <1>0
<1>2. BindOf(p, "open", Head(opens)) \in BindTurn
  BY <1>1 DEF BindOf, BindTurn, Callers
<1>3. queue' \in SUBSET (BindTurn \cup HideTurn)
  BY <1>2 DEF Shown, Typed, TasksTyped
<1>4. seen' \in [Panes -> View]
  <2>1. pane'[p].anchor + 1 \in Int
    <3>1. pane'[p] \in PaneState
      OBVIOUS
    <3>2. QED
      BY <3>1, PaneFields
  <2>2. \A n \in Int, late \in BOOLEAN : [next |-> n, whole |-> TRUE, replayed |-> FALSE,
      late |-> late] \in View
    BY DEF View
  <2>3. (live # None /\ Head(opens) # live /\ news = 0) \in BOOLEAN
    OBVIOUS
  <2>4. [next |-> pane'[p].anchor + 1, whole |-> TRUE, replayed |-> FALSE,
         late |-> live # None /\ Head(opens) # live /\ news = 0] \in View
    BY <2>1, <2>2, <2>3, Zenon
  <2>5. QED
    BY <2>4, <1>0 DEF Shown
<1>5. QED
  BY <1>1, <1>3, <1>4 DEF Shown, Named

\* So do the opens of the window.
LEMMA OpensTyped ==
  ASSUME Typed, Named, OpenStep
  PROVE  Typed'
<1>0. Profile /\ opens \in Seq(Nat) /\ live \in Nat /\ pane \in [Panes -> PaneState]
  BY DEF Typed, TasksTyped, NetTyped, PanesTyped, HistoryTyped
<1>1. CASE OpenAsked
  <2>1. Profile' /\ opens' \in Seq(Nat)
    BY <1>1, <1>0, Spends DEF OpenAsked, Does
  <2>2. QED
    BY <1>1, <2>1 DEF OpenAsked, Typed, HostTyped, NetTyped, PanesTyped, TasksTyped, HistoryTyped, net
<1>s. ASSUME NEW p \in Panes, NEW st \in PaneState, SetPane(p, st), Shown(p, Head(opens)), opens # <<>>,
             UNCHANGED <<host, net, feeds, bind, opening, watch, left, typed>>
      PROVE  Typed'
  <2>1. pane' \in [Panes -> PaneState]
    BY <1>s, <1>0, SetsPane
  <2>2. queue' \in SUBSET (BindTurn \cup HideTurn) /\ opens' \in Seq(Nat) /\ seen' \in [Panes -> View]
    BY <1>s, <2>1, ShownTyped
  <2>3. QED
    BY <1>s, <2>1, <2>2 DEF Typed, HostTyped, NetTyped, PanesTyped, TasksTyped, HistoryTyped, Profile, net
<1>2. CASE Claims
  <2>1. PICK p \in Unclaimed : SetPane(p, Retarget(pane[p], TRUE)) /\ Shown(p, Head(opens))
    BY <1>2 DEF Claims
  <2>2. p \in Panes
    BY DEF Unclaimed
  <2>3. Retarget(pane[p], TRUE) \in PaneState
    BY <1>0, <2>2, PaneShapes
  <2>4. QED
    BY <1>2, <2>1, <2>2, <2>3, <1>s DEF Claims
<1>3. CASE Inserts
  <2> DEFINE p == Cardinality(Born) + 1
  <2>1. p \in Panes /\ SetPane(p, [Unborn EXCEPT !.born = TRUE, !.in = TRUE, !.view = TRUE]) /\ Shown(p,
      Head(opens))
    BY <1>3 DEF Inserts
  <2>2. [Unborn EXCEPT !.born = TRUE, !.in = TRUE, !.view = TRUE] \in PaneState
    BY UnbornTyped DEF PaneState
  <2>3. opens # <<>> /\ UNCHANGED <<host, net, feeds, bind, opening, watch, left, typed>>
    BY <1>3 DEF Inserts
  <2> HIDE DEF p
  <2>4. QED
    BY <2>1, <2>2, <2>3, <1>s
<1>4. QED
  BY <1>1, <1>2, <1>3 DEF OpenStep

\* ... or a pane that is shown, hidden, closed, asked to type its launch line, or waits for too long.
LEMMA AsksTyped ==
  ASSUME Typed, NEW p \in Panes, AskStep(p)
  PROVE  Typed'
<1>0. /\ Profile /\ live \in Nat /\ pane \in [Panes -> PaneState] /\ pane[p] \in PaneState
      /\ seen \in [Panes -> View] /\ queue \in SUBSET (BindTurn \cup HideTurn)
      /\ {"show", "hide", "close", "seed", "expire"} \subseteq Does
  BY DEF Typed, TasksTyped, NetTyped, PanesTyped, HistoryTyped, Does
<1>b. \A who \in {"show", "close"} : BindOf(p, who, live) \in BindTurn
  BY <1>0 DEF BindOf, BindTurn, Callers
<1>1. CASE Shows(p)
  <2>1. PICK anchor \in {0, seen[p].next - 1} :
           SetPane(p, [Retarget(pane[p], TRUE) EXCEPT !.anchor = anchor]) /\ Viewed(p, anchor)
    BY <1>1 DEF Shows
  <2>2. anchor \in Int
    <3>1. seen[p] \in View
      BY <1>0
    <3>2. QED
      BY <2>1, <3>1 DEF View
  <2>3. pane' \in [Panes -> PaneState]
    <3>1. Retarget(pane[p], TRUE) \in PaneState
      BY <1>0, PaneShapes
    <3>2. [Retarget(pane[p], TRUE) EXCEPT !.anchor = anchor] \in PaneState
      BY <3>1, <2>2, PaneChanges
    <3>3. QED
      BY <2>1, <3>2, <1>0, SetsPane
  <2>4. seen' \in [Panes -> View]
    <3>1. \A v \in View, n \in Int : [v EXCEPT !.next = n, !.replayed = FALSE] \in View
      BY DEF View
    <3>2. seen' = [seen EXCEPT ![p] = [seen[p] EXCEPT !.next = anchor + 1, !.replayed = FALSE]]
      BY <2>1, <1>0 DEF Viewed
    <3>3. anchor + 1 \in Int /\ seen[p] \in View
      BY <2>2, <1>0
    <3>4. QED
      BY <3>1, <3>2, <3>3, <1>0
  <2>5. queue' \in SUBSET (BindTurn \cup HideTurn)
    BY <1>1, <1>0, <1>b DEF Shows
  <2>6. Profile'
    BY <1>1, <1>0, Spends DEF Shows
  <2>7. QED
    BY <1>1, <2>3, <2>4, <2>5, <2>6 DEF Shows, Typed, HostTyped, NetTyped, PanesTyped, TasksTyped,
        HistoryTyped, net
<1>2. CASE Hides(p)
  <2>1. pane' \in [Panes -> PaneState]
    BY <1>2, <1>0, PaneShapes, SetsPane DEF Hides
  <2>2. queue' \in SUBSET (BindTurn \cup HideTurn)
    <3>1. DetachOf(p, pane[p].gen + 1, pane[p].remote, pane[p].boot) \in HideTurn
      BY <1>0, PaneFields DEF DetachOf, HideTurn
    <3>2. QED
      BY <1>2, <1>0, <3>1 DEF Hides
  <2>3. Profile'
    BY <1>2, <1>0, Spends DEF Hides
  <2>4. QED
    BY <1>2, <2>1, <2>2, <2>3 DEF Hides, Typed, HostTyped, NetTyped, PanesTyped, TasksTyped, HistoryTyped, net
<1>3. CASE Closes(p)
  <2>1. pane' \in [Panes -> PaneState]
    <3> DEFINE st == [Retarget(pane[p], FALSE) EXCEPT !.closing = TRUE]
    <3>1. Retarget(pane[p], FALSE) \in PaneState
      BY <1>0, PaneShapes
    <3>2. st \in PaneState
      BY <3>1, PaneChanges
    <3>3. SetPane(p, Over(st)) \/ SetPane(p, st)
      BY <1>3 DEF Closes
    <3> HIDE DEF st
    <3>4. QED
      BY <3>2, <3>3, <1>0, PaneShapes, SetsPane
  <2>2. queue' \in SUBSET (BindTurn \cup HideTurn)
    BY <1>3, <1>0, <1>b DEF Closes
  <2>3. Profile'
    BY <1>3, <1>0, Spends DEF Closes
  <2>4. QED
    BY <1>3, <2>1, <2>2, <2>3 DEF Closes, Typed, HostTyped, NetTyped, PanesTyped, TasksTyped, HistoryTyped,
        net
<1>4. CASE Seeds(p)
  <2>1. pane' \in [Panes -> PaneState]
    <3>1. Append(pane[p].input, pane[p].gen) \in Seq(Nat)
      BY <1>0, PaneFields
    <3>2. /\ [pane[p] EXCEPT !.input = Append(@, pane[p].gen)] \in PaneState
          /\ [pane[p] EXCEPT !.seed = TRUE] \in PaneState
      BY <3>1, <1>0, PaneChanges
    <3>3. \/ SetPane(p, pane[p]) \/ SetPane(p, [pane[p] EXCEPT !.seed = TRUE])
          \/ SetPane(p, [pane[p] EXCEPT !.input = Append(@, pane[p].gen)])
      BY <1>4 DEF Seeds
    <3>4. QED
      BY <3>2, <3>3, <1>0, SetsPane
  <2>2. typed' \in [lines : Seq(Panes \X (0 .. MaxPanes)), askers : SUBSET Panes]
    <3>1. \A t \in [lines : Seq(Panes \X (0 .. MaxPanes)), askers : SUBSET Panes] :
            [t EXCEPT !.askers = t.askers \cup {p}] \in [lines : Seq(Panes \X (0 .. MaxPanes)),
                askers : SUBSET Panes]
      OBVIOUS
    <3>2. QED
      BY <1>4, <3>1 DEF Seeds, Typed, HistoryTyped
  <2>3. Profile'
    BY <1>4, <1>0, Spends DEF Seeds
  <2>4. QED
    BY <1>4, <2>1, <2>2, <2>3 DEF Seeds, Typed, HostTyped, NetTyped, PanesTyped, TasksTyped, HistoryTyped,
        net, tasks
<1>5. CASE Expires(p)
  <2>1. pane' \in [Panes -> PaneState]
    BY <1>5, <1>0, PaneShapes, SetsPane DEF Expires
  <2>2. Profile'
    BY <1>5, <1>0, Spends DEF Expires
  <2>3. QED
    BY <1>5, <2>1, <2>2 DEF Expires, Typed, HostTyped, NetTyped, PanesTyped, TasksTyped, HistoryTyped, net,
        tasks
<1>6. QED
  BY <1>1, <1>2, <1>3, <1>4, <1>5 DEF AskStep

-----------------------------------------------------------------------------
\* What a step may do to each part of the state, whichever action it is.

Seeking == {"locking", "finding", "found", "opening", "opened", "refused"}
Attaching == {"attaching", "answering", "attached", "gone"}
Listing == {"listing", "listed"}

\* Links stay on the boot they reached and come up once; the host's sessions keep who opened them.
LinksGo ==
  /\ Len(links') >= Len(links)
  /\ \A l \in 1 .. Len(links) : /\ links'[l].boot = links[l].boot
                                /\ links'[l].up => links[l].up /\ host'.boot = host.boot
  /\ \A l \in Len(links) + 1 .. Len(links') : links'[l].boot = host'.boot
HostGoes ==
  \/ host'.boot = host.boot + 1
  \/ /\ host'.boot = host.boot /\ Len(host'.ses) >= Len(host.ses)
     /\ \A id \in 1 .. Len(host.ses) : host'.ses[id].by = host.ses[id].by
NetNamed ==
  /\ live \in 0 .. Len(links) /\ news \in 0 .. Len(links)
  /\ \A i \in 1 .. Len(opens) : opens[i] \in 0 .. Len(links)

\* Links and sessions as they were; a frame more on a link, a session changed.
LEMMA LinksStill ==
  ASSUME Typed, UNCHANGED links, host'.boot = host.boot
  PROVE  LinksGo
<1>1. links \in Seq(Link) /\ Len(links) \in Nat
  BY DEF Typed, NetTyped
<1>2. QED
  BY <1>1 DEF LinksGo

\* A host that does nothing keeps its sessions.
LEMMA HostStill ==
  ASSUME Typed, UNCHANGED host
  PROVE  HostGoes /\ host'.boot = host.boot
<1>1. Len(host.ses) \in Nat
  BY DEF Typed, HostTyped, HostState
<1>2. QED
  BY <1>1 DEF HostGoes

\* A frame on its way changes neither boot nor number of the links.
LEMMA PutKeeps ==
  ASSUME Typed, NEW l, NEW frame, Put(l, frame), host'.boot = host.boot
  PROVE  LinksGo /\ Len(links') = Len(links)
<1>1. links \in Seq(Link) /\ Len(links) \in Nat /\ DOMAIN links = 1 .. Len(links)
  BY DEF Typed, NetTyped
<1>2. CASE ~Up(l)
  BY <1>1, <1>2 DEF Put, LinksGo
<1>3. CASE Up(l) /\ l \notin DOMAIN links
  <2>1. links' = links
    BY <1>1, <1>3 DEF Put
  <2>2. QED
    BY <1>1, <2>1 DEF LinksGo
<1>4. CASE Up(l) /\ l \in DOMAIN links
  <2>1. links' = [links EXCEPT ![l] = [links[l] EXCEPT !.wire = Append(links[l].wire, frame)]]
    BY <1>4 DEF Put
  <2>2. links[l] \in Link
    BY <1>1, <1>4
  <2>3. \A w : /\ [links[l] EXCEPT !.wire = w].boot = links[l].boot
               /\ [links[l] EXCEPT !.wire = w].up = links[l].up
    BY <2>2 DEF Link
  <2>4. Len(links') = Len(links)
    BY <2>1, <1>1
  <2>5. \A k \in 1 .. Len(links) : links'[k].boot = links[k].boot /\ links'[k].up = links[k].up
    BY <2>1, <2>3, <1>1
  <2>6. QED
    BY <2>4, <2>5, <1>1 DEF LinksGo
<1>5. QED
  BY <1>2, <1>3, <1>4

\* What changes in one session is not who opened it.
LEMMA SesKeeps ==
  ASSUME Typed, NEW id, NEW x,
         \/ host' = [host EXCEPT !.ses[id].st = x] \/ host' = [host EXCEPT !.ses[id].out = x]
         \/ host' = [host EXCEPT !.ses[id].to = x]
  PROVE  HostGoes /\ host'.boot = host.boot
<1>0. host \in HostState /\ host.ses \in Seq(SessionState) /\ Len(host.ses) \in Nat
  BY DEF Typed, HostTyped, HostState
<1>1. CASE id \notin DOMAIN host.ses
  <2>1. host' = host
    BY <1>0, <1>1 DEF HostState
  <2>2. QED
    BY <2>1, HostStill
<1>2. CASE id \in DOMAIN host.ses
  <2> DEFINE changed == {[host.ses[id] EXCEPT !.st = x], [host.ses[id] EXCEPT !.out = x],
                         [host.ses[id] EXCEPT !.to = x]}
  <2>1. PICK s \in changed : host' = [host EXCEPT !.ses = [host.ses EXCEPT ![id] = s]]
    OBVIOUS
  <2>2. s.by = host.ses[id].by
    <3>1. host.ses[id] \in SessionState
      BY <1>0, <1>2
    <3>2. QED
      BY <2>1, <3>1 DEF SessionState
  <2>3. host'.ses = [host.ses EXCEPT ![id] = s] /\ host'.boot = host.boot
    BY <2>1, <1>0 DEF HostState
  <2>4. Len(host'.ses) = Len(host.ses) /\ \A k \in 1 .. Len(host.ses) : host'.ses[k].by = host.ses[k].by
    BY <2>2, <2>3, <1>0, <1>2
  <2>5. QED
    BY <2>3, <2>4, <1>0 DEF HostGoes
<1>3. QED
  BY <1>1, <1>2

\* Of one session more; of links that die.
LEMMA SesAdded ==
  ASSUME Typed, NEW s, host'.boot = host.boot, host'.ses = Append(host.ses, s)
  PROVE  HostGoes
<1>0. host.ses \in Seq(SessionState) /\ Len(host.ses) \in Nat
  BY DEF Typed, HostTyped, HostState
<1>1. Len(host'.ses) = Len(host.ses) + 1
  BY <1>0
<1>2. \A k \in 1 .. Len(host.ses) : host'.ses[k] = host.ses[k]
  BY <1>0
<1>3. QED
  BY <1>0, <1>1, <1>2 DEF HostGoes

\* A link that dies stays on its boot, and only a restart of the host kills them all.
LEMMA DiesKeeps ==
  ASSUME Typed, NEW gone, Dies(gone), host'.boot = host.boot \/ gone = DOMAIN links
  PROVE  LinksGo /\ Len(links') = Len(links)
<1>1. links \in Seq(Link) /\ Len(links) \in Nat /\ DOMAIN links = 1 .. Len(links)
  BY DEF Typed, NetTyped
<1>2. DOMAIN links' = 1 .. Len(links)
  BY <1>1 DEF Dies
<1>3. links' \in Seq(Link)
  BY DiesTyped DEF Typed, NetTyped
<1>4. Len(links') = Len(links)
  BY <1>1, <1>2, <1>3
<1>5. ASSUME NEW l \in 1 .. Len(links)
      PROVE  links'[l].boot = links[l].boot /\ (links'[l].up => links[l].up /\ l \notin gone)
  <2>1. links[l] \in Link
    BY <1>1
  <2>2. links'[l] = IF l \in gone THEN [links[l] EXCEPT !.up = FALSE, !.wire = <<>>] ELSE links[l]
    BY <1>1 DEF Dies
  <2>3. QED
    BY <2>1, <2>2 DEF Link
<1>6. QED
  BY <1>1, <1>4, <1>5 DEF LinksGo

\* A step does no more than that to the links and to the host, names only links there are, and keeps
\* the profile.
LEMMA NetGoes ==
  ASSUME Typed, Named, PanesNext
  PROVE  LinksGo /\ HostGoes /\ NetNamed' /\ Adopts' = Adopts
<1> DEFINE Goal == LinksGo /\ HostGoes /\ NetNamed' /\ Adopts' = Adopts
<1>0. NetNamed /\ Len(links) \in Nat /\ links \in Seq(Link) /\ opens \in Seq(Nat) /\ Profile
  BY DEF Named, NetNamed, Typed, NetTyped, TasksTyped, HistoryTyped
<1>s. ASSUME UNCHANGED <<host, net, opens>> PROVE LinksGo /\ HostGoes /\ NetNamed'
  BY <1>s, <1>0, LinksStill, HostStill DEF net, NetNamed
<1>a. UNCHANGED left => Adopts' = Adopts
  BY DEF Adopts
<1>b. \A what \in Does : Spend(what) => Adopts' = Adopts
  BY <1>0, Spends DEF Adopts
<1>1. ASSUME NEW t \in queue, BindStep(t) PROVE Goal
  <2>1. UNCHANGED <<host, net, opens, left>>
    BY <1>1 DEF BindStep, BindMoot, BindFindsItGone, BindGoes, DetachGoes, panesHistory
  <2>2. QED
    BY <2>1, <1>s, <1>a
<1>2. ASSUME NEW p \in Panes, TurnStep(p) PROVE Goal
  <2>1. UNCHANGED <<host, net, opens, left>>
    BY <1>2 DEF TurnStep, GetsOpening, Found, Opened, Refused, FoundToClose, Closed, tasks, panesHistory
  <2>2. QED
    BY <2>1, <1>s, <1>a
<1>3. ASSUME NEW p \in Panes, AnswerStep(p) PROVE Goal
  <2>1. CASE Gone(p) \/ AttachSuperseded(p) \/ Attached(p) \/ TypesLine(p)
    <3>1. UNCHANGED <<host, net, opens, left>>
      BY <2>1 DEF Gone, AttachSuperseded, Attached, TypesLine, tasks, panesHistory
    <3>2. QED
      BY <3>1, <1>s, <1>a
  <2>2. CASE CallFails(p)
    <3>1. UNCHANGED <<net, opens, left>> /\ (host' = host \/ host' = [host EXCEPT !.strays = @ + 1])
      BY <2>2 DEF CallFails, panesHistory
    <3>2. host'.boot = host.boot /\ host'.ses = host.ses
      BY <3>1 DEF Typed, HostTyped, HostState
    <3>3. HostGoes
      <4>1. Len(host.ses) \in Nat
        BY DEF Typed, HostTyped, HostState
      <4>2. QED
        BY <3>2, <4>1 DEF HostGoes
    <3>4. LinksGo
      BY <3>1, <3>2, LinksStill DEF net
    <3>5. QED
      BY <3>1, <3>3, <3>4, <1>0, <1>a DEF net, NetNamed
  <2>3. QED
    BY <1>3, <2>1, <2>2 DEF AnswerStep
<1>4. ASSUME NEW f \in feeds, PumpStep(f) PROVE Goal
  <2>1. UNCHANGED <<host, net, opens, left>>
    BY <1>4 DEF PumpStep, PumpSuperseded, Forwards, ForwardsExit, PumpEnds, mind, tasks, panesHistory
  <2>2. QED
    BY <2>1, <1>s, <1>a
<1>5. ASSUME WatchStep PROVE Goal
  <2>1. CASE TakesNews
    <3>1. UNCHANGED <<host, links, live, opens, left>> /\ news' = news - 1 /\ news > 0
      BY <2>1 DEF TakesNews
    <3>2. QED
      BY <3>1, <1>0, <1>a, LinksStill, HostStill DEF NetNamed
  <2>2. CASE Joins \/ AdoptionLocks \/ AdoptionFails \/ ListsAgain \/ HostListsAll
    <3>1. UNCHANGED <<host, net, opens, left>>
      BY <2>2 DEF Joins, AdoptionLocks, AdoptionFails, ListsAgain, HostListsAll, panesHistory
    <3>2. QED
      BY <3>1, <1>s, <1>a
  <2>3. CASE ListingRefused
    <3>1. UNCHANGED <<host, net, opens>> /\ Spend("mislist") /\ "mislist" \in Does
      BY <2>3 DEF ListingRefused, Does
    <3>2. QED
      BY <3>1, <1>s, <1>b
  <2>4. CASE ClosesExited
    <3>1. UNCHANGED <<net, opens, left>>
          /\ (host' = host \/ \E id : host' = [host EXCEPT !.ses[id].st = "closed"])
      BY <2>4 DEF ClosesExited, panesHistory
    <3>2. HostGoes /\ host'.boot = host.boot
      BY <3>1, HostStill, SesKeeps
    <3>3. QED
      BY <3>1, <3>2, <1>0, <1>a, LinksStill DEF net, NetNamed
  <2>5. QED
    BY <1>5, <2>1, <2>2, <2>3, <2>4 DEF WatchStep
<1>6. ASSUME TakesOver PROVE Goal
  <2>1. UNCHANGED <<host, net, opens, left>>
    BY <1>6 DEF TakesOver, panesHistory
  <2>2. QED
    BY <2>1, <1>s, <1>a
<1>7. ASSUME NEW p \in Panes, HostStep(p) PROVE Goal
  <2>1. CASE HostLists(p)
    <3>1. UNCHANGED <<host, net, opens, left>>
      BY <2>1 DEF HostLists, tasks, panesHistory
    <3>2. QED
      BY <3>1, <1>s, <1>a
  <2>2. CASE HostOpens(p)
    <3>1. UNCHANGED <<net, opens, left>> /\ host' = [host EXCEPT !.ses = Append(@, NewSession(p))]
      BY <2>2 DEF HostOpens, tasks, panesHistory
    <3>2. host'.boot = host.boot /\ host'.ses = Append(host.ses, NewSession(p))
      BY <3>1 DEF Typed, HostTyped, HostState
    <3>3. QED
      BY <3>1, <3>2, <1>0, <1>a, LinksStill, SesAdded DEF net, NetNamed
  <2>3. CASE HostRefuses(p)
    <3>1. UNCHANGED <<host, net, opens>> /\ (UNCHANGED left \/ Spend("refuse")) /\ "refuse" \in Does
      BY <2>3 DEF HostRefuses, Does, tasks
    <3>2. QED
      BY <3>1, <1>s, <1>a, <1>b
  <2>4. CASE HostAttaches(p)
    <3>1. UNCHANGED <<live, news, opens, left>>
      BY <2>4 DEF HostAttaches, tasks, panesHistory
    <3>2. HostGoes /\ LinksGo /\ Len(links') = Len(links)
      <4>1. CASE Exists(bind[p].ses)
        <5>1. host' = [host EXCEPT !.ses[bind[p].ses].to = bind[p].l]
          BY <2>4, <4>1 DEF HostAttaches
        <5>2. HostGoes /\ host'.boot = host.boot
          BY <5>1, SesKeeps
        <5>3. PICK w : links' = [links EXCEPT ![bind[p].l].wire = w]
          BY <2>4, <4>1 DEF HostAttaches
        <5>4. bind[p].l \in 1 .. Len(links)
          BY <2>4 DEF HostAttaches, Calls, Named
        <5>5. links[bind[p].l] \in Link
          BY <5>4, <1>0
        <5>6. \A l \in 1 .. Len(links) : links'[l].boot = links[l].boot /\ links'[l].up = links[l].up
          BY <5>3, <5>4, <5>5, <1>0, SMTT(30) DEF Link
        <5>7. Len(links') = Len(links)
          BY <5>3, <1>0
        <5>8. QED
          BY <5>2, <5>6, <5>7, <1>0 DEF LinksGo
      <4>2. CASE ~Exists(bind[p].ses)
        <5>1. UNCHANGED host /\ \E frame : Put(bind[p].l, frame)
          BY <2>4, <4>2 DEF HostAttaches
        <5>2. QED
          BY <5>1, HostStill, PutKeeps
      <4>3. QED
        BY <4>1, <4>2
    <3>3. QED
      BY <3>1, <3>2, <1>0, <1>a DEF NetNamed
  <2>5. CASE HostCloses(p)
    <3>1. UNCHANGED <<live, news, opens, left>>
          /\ (UNCHANGED host \/ host' = [host EXCEPT !.ses[bind[p].ses].st = "closed"])
          /\ (UNCHANGED links \/ \E l, frame : Put(l, frame))
      BY <2>5 DEF HostCloses, tasks, panesHistory
    <3>2. HostGoes /\ host'.boot = host.boot
      BY <3>1, HostStill, SesKeeps
    <3>3. LinksGo /\ Len(links') = Len(links)
      BY <3>1, <3>2, LinksStill, PutKeeps
    <3>4. QED
      BY <3>1, <3>2, <3>3, <1>0, <1>a DEF NetNamed
  <2>6. CASE HostDetaches(p)
    <3>1. UNCHANGED <<net, opens, left>>
          /\ (UNCHANGED host \/ host' = [host EXCEPT !.ses[bind[p].ses].to = None])
      BY <2>6 DEF HostDetaches, tasks, panesHistory
    <3>2. HostGoes /\ host'.boot = host.boot
      BY <3>1, HostStill, SesKeeps
    <3>3. QED
      BY <3>1, <3>2, <1>0, <1>a, LinksStill DEF net, NetNamed
  <2>7. QED
    BY <1>7, <2>1, <2>2, <2>3, <2>4, <2>5, <2>6 DEF HostStep
<1>8. ASSUME NEW id \in DOMAIN host.ses, SessionStep(id) PROVE Goal
  <2>1. CASE HostOutputs(id)
    <3>1. UNCHANGED <<live, news, opens>> /\ (\E l, frame : Put(l, frame)) /\ Spend("out") /\ "out" \in Does
      BY <2>1 DEF HostOutputs, mind, tasks, Does
    <3>2. \E x : host' = [host EXCEPT !.ses[id].out = x]
      BY <2>1 DEF HostOutputs
    <3>3. HostGoes /\ host'.boot = host.boot
      BY <3>2, SesKeeps
    <3>4. LinksGo /\ Len(links') = Len(links)
      BY <3>1, <3>3, PutKeeps
    <3>5. QED
      BY <3>1, <3>3, <3>4, <1>0, <1>b DEF NetNamed
  <2>2. CASE SessionEnds(id)
    <3>1. UNCHANGED <<live, news, opens>> /\ (\E l, frame : Put(l, frame)) /\ Spend("exit") /\ "exit" \in Does
          /\ host' = [host EXCEPT !.ses[id].st = "exited"]
      BY <2>2 DEF SessionEnds, mind, tasks, Does
    <3>2. HostGoes /\ host'.boot = host.boot
      BY <3>1, SesKeeps
    <3>3. LinksGo /\ Len(links') = Len(links)
      BY <3>1, <3>2, PutKeeps
    <3>4. QED
      BY <3>1, <3>2, <3>3, <1>0, <1>b DEF NetNamed
  <2>3. CASE HostReaps(id)
    <3>1. UNCHANGED <<net, opens, left>> /\ host' = [host EXCEPT !.ses[id].st = "closed"]
      BY <2>3 DEF HostReaps, mind, tasks, panesHistory
    <3>2. HostGoes /\ host'.boot = host.boot
      BY <3>1, SesKeeps
    <3>3. QED
      BY <3>1, <3>2, <1>0, <1>a, LinksStill DEF net, NetNamed
  <2>4. QED
    BY <1>8, <2>1, <2>2, <2>3 DEF SessionStep
<1>9. ASSUME LinkStep PROVE Goal
  <2>1. CASE Connects
    <3>1. UNCHANGED <<host, opens>> /\ Spend("link") /\ "link" \in Does
          /\ links' = Append(links, [boot |-> host.boot, up |-> TRUE, wire |-> <<>>])
          /\ live' = Len(links) + 1 /\ news' = news + 1
      BY <2>1 DEF Connects, mind, tasks, Does
    <3>2. /\ Len(links') = Len(links) + 1 /\ links'[Len(links) + 1].boot = host.boot
          /\ \A l \in 1 .. Len(links) : links'[l] = links[l]
      BY <3>1, <1>0
    <3>3. LinksGo
      BY <3>1, <3>2, <1>0 DEF LinksGo
    <3>4. QED
      BY <3>1, <3>2, <3>3, <1>0, <1>b, HostStill DEF NetNamed
  <2>2. CASE LinkDies
    <3>1. UNCHANGED <<host, live, news, opens>> /\ Spend("drop") /\ "drop" \in Does /\ Dies({live})
      BY <2>2 DEF LinkDies, mind, tasks, Does
    <3>2. QED
      BY <3>1, <1>0, <1>b, HostStill, DiesKeeps DEF NetNamed
  <2>3. CASE LiveCleared
    <3>1. UNCHANGED <<host, links, news, opens, left>> /\ live' = None
      BY <2>3 DEF LiveCleared, mind, tasks, panesHistory
    <3>2. QED
      BY <3>1, <1>0, <1>a, LinksStill, HostStill DEF NetNamed, None
  <2>4. CASE HostRestarts
    <3>1. UNCHANGED <<live, news, opens>> /\ Spend("boot") /\ "boot" \in Does /\ Dies(DOMAIN links)
          /\ host'.boot = host.boot + 1
      BY <2>4 DEF HostRestarts, mind, tasks, Does
    <3>2. QED
      BY <3>1, <1>0, <1>b, DiesKeeps DEF NetNamed, HostGoes
  <2>5. CASE StrayOpens
    <3>1. UNCHANGED <<net, opens, left>>
      BY <2>5 DEF StrayOpens, mind, tasks, panesHistory
    <3>2. host'.boot = host.boot /\ (host'.ses = host.ses \/ host'.ses = Append(host.ses, NewSession(None)))
      BY <2>5 DEF StrayOpens, Typed, HostTyped, HostState
    <3>3. HostGoes
      <4>1. CASE host'.ses = host.ses
        <5>1. Len(host.ses) \in Nat
          BY DEF Typed, HostTyped, HostState
        <5>2. QED
          BY <3>2, <4>1, <5>1 DEF HostGoes
      <4>2. QED
        BY <3>2, <4>1, SesAdded
    <3>4. QED
      BY <3>1, <3>2, <3>3, <1>0, <1>a, LinksStill DEF net, NetNamed
  <2>6. QED
    BY <1>9, <2>1, <2>2, <2>3, <2>4, <2>5 DEF LinkStep
<1>10. ASSUME NEW l \in DOMAIN links, Reads(l) PROVE Goal
  <2>1. UNCHANGED <<host, live, news, opens, left>> /\ \E w : links' = [links EXCEPT ![l].wire = w]
    BY <1>10 DEF Reads, tasks, panesHistory
  <2>2. links[l] \in Link /\ l \in 1 .. Len(links)
    BY <1>0
  <2>3. \A k \in 1 .. Len(links) : links'[k].boot = links[k].boot /\ links'[k].up = links[k].up
    BY <2>1, <2>2, <1>0 DEF Link
  <2>4. Len(links') = Len(links)
    BY <2>1, <1>0
  <2>5. LinksGo
    BY <2>1, <2>3, <2>4, <1>0 DEF LinksGo
  <2>6. QED
    BY <2>1, <2>4, <2>5, <1>0, <1>a, HostStill DEF NetNamed
<1>11. ASSUME OpenStep PROVE Goal
  <2>1. CASE OpenAsked
    <3>1. UNCHANGED <<host, net>> /\ Spend("open") /\ "open" \in Does /\ opens' = Append(opens, live)
      BY <2>1 DEF OpenAsked, Does
    <3>2. \A i \in 1 .. Len(opens') : opens'[i] \in 0 .. Len(links)
      <4>1. Len(opens') = Len(opens) + 1 /\ opens'[Len(opens) + 1] = live
            /\ \A i \in 1 .. Len(opens) : opens'[i] = opens[i]
        BY <3>1, <1>0
      <4>2. QED
        BY <4>1, <1>0 DEF NetNamed
    <3>3. QED
      BY <3>1, <3>2, <1>0, <1>b, LinksStill, HostStill DEF net, NetNamed
  <2>2. CASE Claims \/ Inserts
    <3>1. UNCHANGED <<host, net, left>> /\ opens # <<>> /\ opens' = Tail(opens)
      BY <2>2 DEF Claims, Inserts, Shown
    <3>2. \A i \in 1 .. Len(opens') : opens'[i] \in 0 .. Len(links)
      <4>1. Len(opens') = Len(opens) - 1 /\ \A i \in 1 .. Len(opens') : opens'[i] = opens[i + 1]
        BY <3>1, <1>0
      <4>2. QED
        BY <4>1, <1>0 DEF NetNamed
    <3>3. QED
      BY <3>1, <3>2, <1>0, <1>a, LinksStill, HostStill DEF net, NetNamed
  <2>3. QED
    BY <1>11, <2>1, <2>2 DEF OpenStep
<1>12. ASSUME NEW p \in Panes, AskStep(p) PROVE Goal
  <2>1. UNCHANGED <<host, net, opens>> /\ \E what \in Does : Spend(what)
    BY <1>12 DEF AskStep, Shows, Hides, Closes, Seeds, Expires, tasks, Does
  <2>2. QED
    BY <2>1, <1>s, <1>b
<1>13. QED
  BY <1>1, <1>2, <1>3, <1>4, <1>5, <1>6, <1>7, <1>8, <1>9, <1>10, <1>11, <1>12, StepKinds

\* Types hold from the start and stay.
LEMMA TypedInit ==
  ASSUME PanesInit
  PROVE  Typed /\ Named
<1>0. PICK b \in Budgets : left = b
  BY DEF PanesInit
<1>1. /\ left = [what \in Does \cup {"adopts"} |-> left[what]] /\ left.had \in 0 .. MaxIds
      /\ \A what \in Does : left[what] \in Nat
  BY <1>0, PanesAssumption
<1>2. NewSession(None) \in SessionState
  BY BoundsAre DEF NewSession, SessionState, None
<1>3. HostTyped
  <2>1. [id \in 1 .. left.had |-> NewSession(None)] \in Seq(SessionState)
        /\ Len([id \in 1 .. left.had |-> NewSession(None)]) = left.had
    <3>1. left.had \in Nat
      BY <1>1, BoundsAre
    <3>2. \A n \in Nat, s \in SessionState :
            [id \in 1 .. n |-> s] \in Seq(SessionState) /\ Len([id \in 1 .. n |-> s]) = n
      OBVIOUS
    <3>3. QED
      BY <1>2, <3>1, <3>2
  <2>2. host = [boot |-> 1, ses |-> [id \in 1 .. left.had |-> NewSession(None)], strays |-> 0]
    BY DEF PanesInit
  <2>3. QED
    BY <2>1, <2>2, <1>1, BoundsAre DEF HostTyped, HostState
<1>4. links = <<>> /\ live = 0 /\ news = 0 /\ opens = <<>> /\ feeds = {} /\ queue = {} /\ opening = 0
  BY DEF PanesInit, None
<1>5. NetTyped
  <2>1. <<>> \in Seq(Link)
    OBVIOUS
  <2>2. QED
    BY <1>4, <2>1 DEF NetTyped
<1>6. PanesTyped
  BY UnbornTyped, RestingTyped DEF PanesInit, PanesTyped
<1>7. watch = [task |-> Watching, adopted |-> 0] /\ Watching \in TaskState
  <2>1. Watching \in TaskState
    BY DEF Watching, TaskState, WatchAts, None
  <2>2. QED
    BY <2>1 DEF PanesInit, None
<1>8. TasksTyped
  <2>1. <<>> \in Seq(Nat)
    OBVIOUS
  <2>2. QED
    BY <1>4, <1>7, <2>1, BoundsAre DEF TasksTyped
<1>9. HistoryTyped
  <2>1. <<>> \in Seq(Panes \X (0 .. MaxPanes))
    OBVIOUS
  <2>2. seen \in [Panes -> View]
    BY DEF PanesInit, View
  <2>3. typed = [lines |-> <<>>, askers |-> {}]
    BY DEF PanesInit
  <2>4. QED
    BY <1>1, <2>1, <2>2, <2>3 DEF HistoryTyped, Profile
<1>10. Named
  <2>1. Len(links) = 0 /\ Len(opens) = 0
    BY <1>4
  <2>2. \A p \in Panes : bind[p].at = "idle" /\ pane[p].on = 0
    BY DEF PanesInit, Resting, Unborn, None
  <2>3. watch.task.at = "idle"
    BY <1>7 DEF Watching
  <2>4. QED
    BY <1>4, <2>1, <2>2, <2>3 DEF Named
<1>11. QED
  BY <1>3, <1>5, <1>6, <1>8, <1>9, <1>10 DEF Typed

\* Every step keeps the types.
LEMMA TypedStep ==
  ASSUME Typed, Named, PanesNext
  PROVE  Typed'
  BY StepKinds, BindsTyped, TurnsGoTyped, AnswersTyped, HostsTyped, AsksTyped, PumpsTyped, WatchesTyped,
     TakesOverTyped, LinksTyped, OpensTyped, SessionsGoTyped, ReadsTyped

-----------------------------------------------------------------------------
\* What a step may do to a pane and to its turn.

\* A pane goes on with its session, or without one; it may notice that it is not attached any more.
Same(a, b) ==
  /\ b.born = a.born /\ b.remote = a.remote /\ b.boot = a.boot /\ b.mine = a.mine
  /\ (b.in => a.in) /\ b.gen >= a.gen
Still(a, b) == Same(a, b) /\ b.on \in {a.on, None}
Quiet(q) == Still(pane[q], pane'[q]) /\ (pane[q].born \/ pane'[q] = pane[q])

NoneComing(q) == \A f \in feeds' : f.pane = q => f.gen # 0
\* The turn ends: the lock is let go of, unless it was not asked for.
Ends(q) ==
  /\ Quiet(q) /\ bind'[q] = Resting
  /\ bind[q].at \in Attaching => NoneComing(q)
  /\ \/ opening = q => opening' = None
     \/ bind[q].at \in {"locking", "detaching"} \cup Attaching \/ bind[q].closing
\* It begins with the pane as it is, over a link to the boot of its session.
Begins(q) ==
  LET b == bind'[q] IN
  /\ Quiet(q) /\ pane[q].born /\ bind[q].at = "idle" /\ b.l \in 1 .. Len(links)
  /\ \/ b.at = "attaching" /\ b.ses = pane[q].remote /\ b.ses # None /\ BootOf(b.l) = pane[q].boot
     \/ b.at = "closing" /\ BootOf(b.l) = pane[q].boot
     \/ b.at = "finding" /\ pane[q].remote = None /\ (b.closing \/ ~Adopts)
     \/ b.at = "locking" /\ pane[q].remote = None /\ ~b.closing
     \/ b.at = "detaching" /\ BootOf(b.l) = pane[q].boot
Locks(q) ==
  LET b == bind'[q] IN
  /\ pane'[q] = pane[q] /\ bind[q].at = "locking" /\ b.at = "finding"
  /\ b.l = bind[q].l /\ b.closing = bind[q].closing /\ b.taken = Held(BootOf(b.l), q)
  /\ opening = None /\ opening' = q
\* It goes on: what the host found, opened or answered.
Steps ==
  {<<"found", "opening">>, <<"opening", "refused">>, <<"attaching", "answering">>, <<"answering",
      "attached">>,
   <<"answering", "gone">>, <<"closing", "closed">>, <<"found", "closing">>, <<"opened", "closing">>}
GoesOn(q) ==
  LET a == bind[q]
      b == bind'[q]
  IN
  /\ pane'[q] = pane[q] /\ b.l = a.l /\ b.closing = a.closing /\ b.taken = a.taken
  /\ \/ /\ a.at = "finding" /\ b.at = "found" /\ Up(a.l) /\ host' = host
        /\ b.ses \in {None} \cup (Alive \ a.taken)
     \/ /\ a.at = "opening" /\ b.at = "opened" /\ Up(a.l) /\ host'.boot = host.boot
        /\ b.ses = Len(host.ses) + 1 /\ Len(host'.ses) = b.ses /\ host'.ses[b.ses].by = q
     \/ /\ <<a.at, b.at>> \in Steps /\ b.ses = a.ses
        /\ a.at = "found" => (a.closing <=> b.at = "closing")
\* The pane takes the session found or opened for it, and it is attached to it.
Takes(q) ==
  LET b == bind[q] IN
  /\ b.at \in {"found", "opened"} /\ (b.at = "found" => ~b.closing /\ b.ses # None)
  /\ bind'[q] = [b EXCEPT !.at = "attaching"]
  /\ pane'[q] = [pane[q] EXCEPT !.remote = b.ses, !.boot = BootOf(b.l), !.mine = (b.at = "opened"),
                                !.seed = @ /\ b.at = "opened"]
  /\ host' = host /\ opening' = (IF opening = q THEN None ELSE opening)
\* It is attached, at a generation of its own.
Joined(q) ==
  /\ Same(pane[q], pane'[q]) /\ pane[q].born /\ bind[q].at = "attached" /\ bind'[q] = Resting
  /\ pane'[q].gen = pane[q].gen + 1 /\ pane'[q].on = bind[q].l /\ NoneComing(q)
\* It is made: for an open, or for a session that was found and that no pane holds.
Made(q) ==
  LET st == pane'[q] IN
  /\ ~pane[q].born /\ bind'[q] = bind[q]
  /\ \/ st = [Unborn EXCEPT !.born = TRUE, !.in = TRUE, !.view = TRUE]
     \/ /\ watch.task.at = "listed"
        /\ \E id \in watch.task.alive \ Held(BootOf(watch.task.l), None) :
             st = Adopted(BootOf(watch.task.l), id)

PaneGoes(q) ==
  \/ Quiet(q) /\ bind'[q] = bind[q]
  \/ Ends(q) \/ Begins(q) \/ Locks(q) \/ GoesOn(q) \/ Takes(q) \/ Joined(q) \/ Made(q)
\* Panes are made in their order, and no two for one session.
PanesMade ==
  \/ \A q \in Panes : pane'[q].born = pane[q].born
  \/ /\ \E n \in 0 .. MaxPanes : Born' = 1 .. n
     /\ \A p, q \in Panes : ~pane[p].born /\ ~pane[q].born /\ p # q /\ pane'[p].remote # None
                             => pane'[p].remote # pane'[q].remote
PanesGo == PanesMade /\ \A q \in Panes : PaneGoes(q)

\* Panes that were not made yet are as they will be, and nothing waits for their turn.
Unmade ==
  /\ \A p \in Panes : ~pane[p].born => pane[p] = Unborn /\ bind[p] = Resting
  /\ \A t \in queue : pane[t.pane].born
  /\ \E n \in 0 .. MaxPanes : Born = 1 .. n
\* Who waits to detach a pane's session names the session the pane has.
Waits ==
  \A t \in queue : t.who = "hide" =>
    t.ses # None /\ t.ses = pane[t.pane].remote /\ t.boot = pane[t.pane].boot

\* A pane that is registered, takes a turn, has a line queued or a generation was made.
LEMMA UnmadeFacts ==
  ASSUME Typed, Unmade, NEW p \in Panes
  PROVE  /\ pane[p].in => pane[p].born
         /\ bind[p].at # "idle" => pane[p].born
         /\ pane[p].input # <<>> => pane[p].born
         /\ pane[p].gen # 0 => pane[p].born
  BY DEF Unmade, Unborn, Resting

\* State's methods change neither a pane's session nor who opened it, and attach it to nothing.
LEMMA SameShapes ==
  ASSUME NEW st \in PaneState
  PROVE  /\ Still(st, st) /\ Still(st, Lose(st)) /\ Still(st, End(st)) /\ Still(st, Over(st))
         /\ \A view \in BOOLEAN : Still(st, Retarget(st, view))
         /\ \A view \in BOOLEAN, a \in Int : Still(st, [Retarget(st, view) EXCEPT !.anchor = a])
         /\ Still(st, [Retarget(st, FALSE) EXCEPT !.closing = TRUE])
         /\ Still(st, Over([Retarget(st, FALSE) EXCEPT !.closing = TRUE]))
         /\ Still(st, [st EXCEPT !.on = None])
         /\ \A a : Still(st, [st EXCEPT !.anchor = a])
         /\ \A a : Still(st, [st EXCEPT !.input = a])
         /\ \A a : Still(st, [st EXCEPT !.seed = a])
         /\ \A a : Still(st, [st EXCEPT !.in = FALSE, !.ended = a])
<1>g. st.gen \in Nat /\ st.gen + 1 >= st.gen /\ st.gen >= st.gen
  BY DEF PaneState
<1>1. Still(st, st)
  BY <1>g DEF Still, Same
<1>2. Still(st, Lose(st))
  BY <1>g DEF Still, Same, Lose, PaneState
<1>3. Still(st, End(st)) /\ Still(st, Over(st))
  BY <1>g DEF Still, Same, End, Over, PaneState
<1>4. \A view \in BOOLEAN : Still(st, Retarget(st, view))
  BY <1>g DEF Still, Same, Retarget, PaneState
<1>5. \A view \in BOOLEAN, a \in Int : Still(st, [Retarget(st, view) EXCEPT !.anchor = a])
  BY <1>g DEF Still, Same, Retarget, PaneState
<1>6. Still(st, [Retarget(st, FALSE) EXCEPT !.closing = TRUE])
  BY <1>g DEF Still, Same, Retarget, PaneState
<1>7. Still(st, Over([Retarget(st, FALSE) EXCEPT !.closing = TRUE]))
  BY <1>g DEF Still, Same, Retarget, Over, PaneState
<1>8. Still(st, [st EXCEPT !.on = None])
  BY <1>g DEF Still, Same, PaneState
<1>9. \A a : /\ Still(st, [st EXCEPT !.anchor = a]) /\ Still(st, [st EXCEPT !.input = a])
             /\ Still(st, [st EXCEPT !.seed = a])
  BY <1>g DEF Still, Same, PaneState
<1>10. \A a : Still(st, [st EXCEPT !.in = FALSE, !.ended = a])
  BY <1>g DEF Still, Same, PaneState
<1>11. QED
  BY <1>1, <1>2, <1>3, <1>4, <1>5, <1>6, <1>7, <1>8, <1>9, <1>10

\* One pane, or none, is touched.
LEMMA OnePane ==
  ASSUME Typed, NEW p, p \in Panes => PaneGoes(p) /\ pane'[p].born = pane[p].born,
         \A q \in Panes : q # p => pane'[q] = pane[q] /\ bind'[q] = bind[q]
  PROVE  PanesGo
<1>1. ASSUME NEW q \in Panes, q # p PROVE PaneGoes(q)
  <2>1. Quiet(q)
    BY <1>1, SameShapes DEF Quiet, Typed, PanesTyped
  <2>2. QED
    BY <1>1, <2>1 DEF PaneGoes
<1>2. \A q \in Panes : PaneGoes(q) /\ pane'[q].born = pane[q].born
  BY <1>1
<1>3. QED
  BY <1>2 DEF PanesGo, PanesMade

\* A step that is not about panes is none of theirs.
LEMMA NoPane ==
  ASSUME Typed, UNCHANGED <<pane, bind>>
  PROVE  PanesGo
<1>1. None \notin Panes
  BY BoundsAre DEF None, Panes
<1>2. None \in Panes => PaneGoes(None) /\ pane'[None].born = pane[None].born
  BY <1>1
<1>3. \A q \in Panes : q # None => pane'[q] = pane[q] /\ bind'[q] = bind[q]
  OBVIOUS
<1>4. QED
  BY <1>2, <1>3, OnePane

\* A step that changes one pane, but not its session, takes no turn on.
LEMMA QuietPane ==
  ASSUME Typed, Unmade, NEW p \in Panes, NEW st, SetPane(p, st), UNCHANGED bind, Still(pane[p], st),
         pane[p].born \/ st = pane[p]
  PROVE  PanesGo
<1>1. pane'[p] = st /\ \A q \in Panes : q # p => pane'[q] = pane[q] /\ bind'[q] = bind[q]
  BY DEF SetPane, Typed, PanesTyped
<1>2. PaneGoes(p) /\ pane'[p].born = pane[p].born
  BY <1>1 DEF PaneGoes, Quiet, Still, Same
<1>3. QED
  BY <1>1, <1>2, OnePane

\* What the operators on a pane and its turn do to that one and to the others.
LEMMA TurnSteps ==
  ASSUME Typed, NEW p \in Panes
  PROVE  /\ Rests(p) => bind'[p] = Resting /\ \A q \in Panes : q # p => bind'[q] = bind[q]
         /\ \A at : At(p, at) => /\ bind'[p] = [bind[p] EXCEPT !.at = at]
                                 /\ \A q \in Panes : q # p => bind'[q] = bind[q]
         /\ \A b : Attaches(p, b) => /\ bind'[p] = [b EXCEPT !.at = "attaching"]
                                     /\ \A q \in Panes : q # p => bind'[q] = bind[q]
         /\ \A b : Finds(p, b) => /\ bind'[p] = [b EXCEPT !.at = "finding", !.taken = Held(BootOf(b.l), p)]
                                  /\ \A q \in Panes : q # p => bind'[q] = bind[q]
         /\ \A st : SetPane(p, st) => pane'[p] = st /\ \A q \in Panes : q # p => pane'[q] = pane[q]
  BY DEF Typed, PanesTyped, Rests, At, Attaches, Finds, SetPane

\* What a turn that begins, goes on or ends makes of its pane.
LEMMA BindsGo ==
  ASSUME Typed, Named, Unmade, Waits, NEW t \in queue, BindStep(t)
  PROVE  PanesGo
<1> DEFINE p == t.pane
           st == pane[p]
<1>0. /\ p \in Panes /\ st \in PaneState /\ st.born /\ bind[p] \in Turn /\ pane \in [Panes -> PaneState]
      /\ bind \in [Panes -> Turn]
  BY DEF Typed, TasksTyped, PanesTyped, BindTurn, HideTurn, Unmade
<1>1. CASE BindMoot(t)
  BY <1>1, NoPane DEF BindMoot
<1>2. CASE BindFindsItGone(t)
  <2>1. \/ SetPane(p, Over(st)) \/ SetPane(p, Lose(st)) \/ SetPane(p, End(st))
    BY <1>2 DEF BindFindsItGone
  <2>2. UNCHANGED bind
    BY <1>2 DEF BindFindsItGone
  <2>3. QED
    BY <1>0, <2>1, <2>2, SameShapes, QuietPane
<1>3. CASE BindGoes(t)
  <2> DEFINE b == [Resting EXCEPT !.who = t.who, !.l = t.l, !.gen = st.gen, !.from = st.anchor,
                                  !.ses = st.remote, !.closing = st.closing]
  <2>1. t.who # "hide" /\ t \in queue /\ bind[p].at = "idle" /\ ~BoundElsewhere(p, t.l)
    BY <1>3 DEF BindGoes, Binds, TakesTurn
  <2>2. b.l = t.l /\ b.ses = st.remote /\ b.closing = st.closing
        /\ \A at : /\ [b EXCEPT !.at = at].at = at /\ [b EXCEPT !.at = at].l = t.l
                   /\ [b EXCEPT !.at = at].ses = st.remote /\ [b EXCEPT !.at = at].closing = st.closing
    BY DEF Resting
  <2>3. \A at, taken : /\ [b EXCEPT !.at = at, !.taken = taken].at = at
                       /\ [b EXCEPT !.at = at, !.taken = taken].l = t.l
                       /\ [b EXCEPT !.at = at, !.taken = taken].closing = st.closing
    BY DEF Resting
  <2>4. t.l \in 1 .. Len(links) /\ (st.remote # None => BootOf(t.l) = st.boot)
    BY <2>1 DEF Named, BoundElsewhere
  <2>5. SetPane(p, [st EXCEPT !.on = None])
    BY <1>3 DEF BindGoes
  <2>6. Quiet(p) /\ pane'[p].born = pane[p].born /\ \A q \in Panes : q # p => pane'[q] = pane[q]
    <3>1. pane'[p] = [st EXCEPT !.on = None] /\ \A q \in Panes : q # p => pane'[q] = pane[q]
      BY <2>5, <1>0 DEF SetPane
    <3>2. Still(st, [st EXCEPT !.on = None])
      BY <1>0, SameShapes
    <3>3. QED
      BY <3>1, <3>2, <1>0 DEF Quiet, Still, Same
  <2>7. \/ ~st.closing /\ st.remote # None /\ Attaches(p, b)
        \/ st.closing /\ st.remote # None /\ bind' = [bind EXCEPT ![p] = [b EXCEPT !.at = "closing"]]
        \/ st.remote = None /\ (st.closing \/ ~Adopts) /\ Finds(p, b)
        \/ st.remote = None /\ ~st.closing /\ bind' = [bind EXCEPT ![p] = [b EXCEPT !.at = "locking"]]
    BY <1>3 DEF BindGoes
  <2>8. Begins(p) /\ \A q \in Panes : q # p => bind'[q] = bind[q]
    <3> HIDE DEF b
    <3>1. CASE ~st.closing /\ st.remote # None /\ Attaches(p, b)
      <4>1. bind'[p] = [b EXCEPT !.at = "attaching"] /\ \A q \in Panes : q # p => bind'[q] = bind[q]
        BY <3>1, <1>0 DEF Attaches
      <4>2. QED
        BY <3>1, <4>1, <1>0, <2>1, <2>2, <2>4, <2>6 DEF Begins
    <3>2. CASE st.closing /\ st.remote # None /\ bind' = [bind EXCEPT ![p] = [b EXCEPT !.at = "closing"]]
      BY <3>2, <1>0, <2>1, <2>2, <2>4, <2>6 DEF Begins
    <3>3. CASE st.remote = None /\ (st.closing \/ ~Adopts) /\ Finds(p, b)
      <4>1. bind'[p].at = "finding" /\ bind'[p].l = t.l /\ bind'[p].closing = st.closing
            /\ \A q \in Panes : q # p => bind'[q] = bind[q]
        <5>1. bind'[p] = [b EXCEPT !.at = "finding", !.taken = Held(BootOf(b.l), p)]
              /\ \A q \in Panes : q # p => bind'[q] = bind[q]
          BY <3>3, <1>0 DEF Finds
        <5>2. QED
          BY <5>1, <2>3
      <4>2. QED
        BY <3>3, <4>1, <1>0, <2>1, <2>4, <2>6 DEF Begins
    <3>4. CASE st.remote = None /\ ~st.closing /\ bind' = [bind EXCEPT ![p] = [b EXCEPT !.at = "locking"]]
      BY <3>4, <1>0, <2>1, <2>2, <2>4, <2>6 DEF Begins
    <3>5. QED
      BY <2>7, <3>1, <3>2, <3>3, <3>4
  <2>9. QED
    BY <1>0, <2>6, <2>8, OnePane DEF PaneGoes
<1>4. CASE DetachGoes(t)
  <2>1. UNCHANGED pane /\ bind[p].at = "idle" /\ t.who = "hide"
    BY <1>4 DEF DetachGoes, TakesTurn
  <2>2. CASE UNCHANGED bind
    BY <2>1, <2>2, NoPane
  <2>3. CASE /\ live # None /\ BootOf(live) = t.boot
             /\ bind' = [bind EXCEPT ![p] = [Resting EXCEPT !.at = "detaching", !.l = live, !.ses = t.ses]]
    <3>1. bind'[p] = [Resting EXCEPT !.at = "detaching", !.l = live, !.ses = t.ses]
          /\ \A q \in Panes : q # p => bind'[q] = bind[q]
      BY <2>3, <1>0
    <3>2. bind'[p].at = "detaching" /\ bind'[p].l = live
      BY <3>1 DEF Resting
    <3>3. live \in 1 .. Len(links) /\ t.boot = st.boot
      BY <2>1, <2>3 DEF Named, None, Waits
    <3>4. Begins(p)
      BY <1>0, <2>1, <2>3, <3>2, <3>3, SameShapes DEF Begins, Quiet
    <3>5. QED
      BY <1>0, <2>1, <3>1, <3>4, OnePane DEF PaneGoes
  <2>4. QED
    BY <1>4, <2>2, <2>3 DEF DetachGoes
<1>5. QED
  BY <1>1, <1>2, <1>3, <1>4 DEF BindStep

\* A pane takes the session that was found or opened for it, or its turn ends or closes it.
LEMMA CommitsGo ==
  ASSUME Typed, Named, Unmade, NEW p \in Panes, NEW mine \in BOOLEAN, Commits(p, mine),
         bind[p].at = (IF mine THEN "opened" ELSE "found"), ~mine => ~bind[p].closing /\ bind[p].ses # None,
         UNCHANGED host
  PROVE  PanesGo
<1>0. bind[p] \in Turn /\ pane[p] \in PaneState /\ pane[p].born
  BY UnmadeFacts DEF Typed, PanesTyped
<1>1. CASE pane[p].lost
  <2>1. UNCHANGED pane /\ ((mine /\ At(p, "closing")) \/ (Rests(p) /\ Unlocks(p)))
    BY <1>1 DEF Commits
  <2>2. \A q \in Panes : q # p => bind'[q] = bind[q]
    BY <2>1, TurnSteps
  <2>3. CASE mine /\ At(p, "closing")
    <3>1. bind'[p] = [bind[p] EXCEPT !.at = "closing"]
      BY <2>3, TurnSteps
    <3>2. GoesOn(p)
      BY <1>0, <2>1, <2>3, <3>1 DEF GoesOn, Steps, Turn
    <3>3. QED
      BY <2>1, <2>2, <3>2, OnePane DEF PaneGoes
  <2>4. CASE Rests(p) /\ Unlocks(p)
    <3>1. bind'[p] = Resting /\ (opening = p => opening' = None)
      BY <2>4, TurnSteps DEF Unlocks
    <3>2. Ends(p)
      BY <1>0, <2>1, <3>1, SameShapes DEF Ends, Quiet, Attaching
    <3>3. QED
      BY <2>1, <2>2, <3>2, OnePane DEF PaneGoes
  <2>5. QED
    BY <2>1, <2>3, <2>4
<1>2. CASE ~pane[p].lost
  <2> DEFINE st == [pane[p] EXCEPT !.remote = bind[p].ses, !.boot = BootOf(bind[p].l), !.mine = mine,
                                   !.seed = @ /\ mine]
  <2>1. SetPane(p, st) /\ Attaches(p, bind[p]) /\ Unlocks(p)
    BY <1>2 DEF Commits
  <2>2. pane'[p] = st /\ bind'[p] = [bind[p] EXCEPT !.at = "attaching"]
        /\ \A q \in Panes : q # p => pane'[q] = pane[q] /\ bind'[q] = bind[q]
    <3> HIDE DEF st
    <3>1. QED
      BY <2>1, TurnSteps
  <2>3. (bind[p].at = "opened") = mine
    OBVIOUS
  <2>4. Takes(p)
    BY <2>1, <2>2, <2>3 DEF Takes, Unlocks
  <2>5. pane'[p].born = pane[p].born
    BY <2>2, <1>0 DEF PaneState
  <2>6. QED
    BY <2>2, <2>4, <2>5, OnePane DEF PaneGoes
<1>3. QED
  BY <1>1, <1>2

\* What a turn does on its own goes one of the ways a turn goes.
LEMMA TurnsGo ==
  ASSUME Typed, Named, Unmade, NEW p \in Panes, TurnStep(p)
  PROVE  PanesGo
<1>0. /\ bind[p] \in Turn /\ pane[p] \in PaneState /\ (bind[p].at # "idle" => pane[p].born)
      /\ Still(pane[p], pane[p])
  BY UnmadeFacts, SameShapes DEF Typed, PanesTyped
<1>r. ASSUME Rests(p), NEW st, pane' = pane \/ SetPane(p, st), pane' # pane => Still(pane[p], st),
    bind[p].at # "idle",
             bind[p].at \notin Attaching,
             \/ opening = p => opening' = None
             \/ bind[p].at \in {"locking", "detaching"} \/ bind[p].closing
      PROVE  PanesGo
  <2>a. bind'[p] = Resting /\ \A q \in Panes : q # p => bind'[q] = bind[q]
    BY <1>r, TurnSteps
  <2>b. \A q \in Panes : q # p => pane'[q] = pane[q]
    BY <1>r, TurnSteps
  <2>1. bind'[p] = Resting /\ \A q \in Panes : q # p => pane'[q] = pane[q] /\ bind'[q] = bind[q]
    BY <2>a, <2>b
  <2>2. Quiet(p)
    BY <1>0, <1>r, TurnSteps DEF Quiet
  <2>3. Ends(p) /\ pane'[p].born = pane[p].born
    BY <1>r, <2>1, <2>2 DEF Ends, Quiet, Still, Same
  <2>4. QED
    BY <2>1, <2>3, OnePane DEF PaneGoes
<1>1. CASE GetsOpening(p)
  <2>1. UNCHANGED pane /\ bind[p].at = "locking" /\ opening = None
        /\ (Rests(p) \/ (Finds(p, bind[p]) /\ opening' = p))
    BY <1>1 DEF GetsOpening
  <2>2. CASE Rests(p)
    BY <1>r, <2>1, <2>2 DEF Attaching
  <2>3. CASE Finds(p, bind[p]) /\ opening' = p
    <3>1. bind'[p] = [bind[p] EXCEPT !.at = "finding", !.taken = Held(BootOf(bind[p].l), p)]
          /\ \A q \in Panes : q # p => bind'[q] = bind[q]
      BY <2>3, TurnSteps
    <3>2. Locks(p)
      BY <1>0, <2>1, <2>3, <3>1 DEF Locks, Turn
    <3>3. QED
      BY <2>1, <3>1, <3>2, OnePane DEF PaneGoes
  <2>4. QED
    BY <2>1, <2>2, <2>3
<1>2. CASE Found(p)
  <2>1. CASE bind[p].ses = None
    <3>1. At(p, "opening") /\ UNCHANGED pane /\ bind[p].at = "found" /\ ~bind[p].closing
      BY <1>2, <2>1 DEF Found
    <3>2. bind'[p] = [bind[p] EXCEPT !.at = "opening"] /\ \A q \in Panes : q # p => bind'[q] = bind[q]
      BY <3>1, TurnSteps
    <3>3. GoesOn(p)
      BY <1>0, <3>1, <3>2 DEF GoesOn, Steps, Turn
    <3>4. QED
      BY <3>1, <3>2, <3>3, OnePane DEF PaneGoes
  <2>2. CASE bind[p].ses # None
    BY <1>2, <2>2, CommitsGo DEF Found
  <2>3. QED
    BY <2>1, <2>2
<1>3. CASE Opened(p)
  BY <1>3, CommitsGo DEF Opened
<1>4. CASE Refused(p)
  <2> DEFINE st == [pane[p] EXCEPT !.in = FALSE, !.ended = @ \/ bind[p].who = "watch"]
  <2>1. SetPane(p, st) /\ Rests(p) /\ Unlocks(p) /\ bind[p].at = "refused"
    BY <1>4 DEF Refused
  <2>2. Still(pane[p], st)
    BY <1>0, SameShapes
  <2> HIDE DEF st
  <2>3. QED
    BY <1>r, <2>1, <2>2 DEF Unlocks, Attaching
<1>5. CASE FoundToClose(p)
  <2>1. bind[p].at = "found" /\ bind[p].closing
        /\ ((SetPane(p, Over(pane[p])) /\ Rests(p)) \/ (At(p, "closing") /\ UNCHANGED pane))
    BY <1>5 DEF FoundToClose
  <2>2. CASE SetPane(p, Over(pane[p])) /\ Rests(p)
    <3>1. Still(pane[p], Over(pane[p]))
      BY <1>0, SameShapes
    <3>2. QED
      BY <1>r, <2>1, <2>2, <3>1 DEF Attaching
  <2>3. CASE At(p, "closing") /\ UNCHANGED pane
    <3>1. bind'[p] = [bind[p] EXCEPT !.at = "closing"] /\ \A q \in Panes : q # p => bind'[q] = bind[q]
      BY <2>3, TurnSteps
    <3>2. LET b == bind'[p] IN /\ b.at = "closing" /\ b.l = bind[p].l /\ b.ses = bind[p].ses
                               /\ b.closing = bind[p].closing /\ b.taken = bind[p].taken
      BY <1>0, <3>1 DEF Turn
    <3>5. GoesOn(p)
      BY <1>0, <2>1, <2>3, <3>2 DEF GoesOn, Steps
    <3>6. QED
      BY <2>3, <3>1, <3>5, OnePane DEF PaneGoes
  <2>4. QED
    BY <2>1, <2>2, <2>3
<1>6. CASE Closed(p)
  <2>1. Rests(p) /\ Unlocks(p) /\ bind[p].at = "closed" /\ (SetPane(p, Over(pane[p])) \/ UNCHANGED pane)
    BY <1>6 DEF Closed
  <2>2. Still(pane[p], Over(pane[p]))
    BY <1>0, SameShapes
  <2>3. QED
    BY <1>r, <2>1, <2>2 DEF Unlocks, Attaching
<1>7. QED
  BY <1>1, <1>2, <1>3, <1>4, <1>5, <1>6 DEF TurnStep

\* So does what it does with an answer.
LEMMA AnswersGo ==
  ASSUME Typed, Named, Unmade, NEW p \in Panes, AnswerStep(p)
  PROVE  PanesGo
<1>0. /\ bind[p] \in Turn /\ pane[p] \in PaneState /\ (bind[p].at # "idle" => pane[p].born)
      /\ Still(pane[p], pane[p])
  BY UnmadeFacts, SameShapes DEF Typed, PanesTyped
<1>n. feeds' = Unattached(p) => NoneComing(p)
  BY DEF Unattached, NoneComing
<1>1. CASE Gone(p)
  <2>1. /\ bind[p].at = "gone" /\ (SetPane(p, Lose(pane[p])) \/ SetPane(p, End(pane[p])))
        /\ Rests(p) /\ feeds' = Unattached(p)
    BY <1>1 DEF Gone
  <2>2. /\ bind'[p] = Resting /\ Still(pane[p], pane'[p])
        /\ \A q \in Panes : q # p => pane'[q] = pane[q] /\ bind'[q] = bind[q]
    <3>1. \/ pane'[p] = Lose(pane[p]) /\ \A q \in Panes : q # p => pane'[q] = pane[q]
          \/ pane'[p] = End(pane[p]) /\ \A q \in Panes : q # p => pane'[q] = pane[q]
      BY <2>1, TurnSteps
    <3>2. bind'[p] = Resting /\ \A q \in Panes : q # p => bind'[q] = bind[q]
      BY <2>1, TurnSteps
    <3>3. Still(pane[p], Lose(pane[p])) /\ Still(pane[p], End(pane[p]))
      BY <1>0, SameShapes
    <3>4. QED
      BY <3>1, <3>2, <3>3
  <2>3. Ends(p) /\ pane'[p].born = pane[p].born
    BY <1>0, <1>n, <2>1, <2>2 DEF Ends, Quiet, Still, Same, Attaching
  <2>4. QED
    BY <2>2, <2>3, OnePane DEF PaneGoes
<1>2. CASE AttachSuperseded(p)
  <2>1. bind[p].at = "attached" /\ UNCHANGED pane /\ Rests(p) /\ feeds' = Unattached(p)
    BY <1>2 DEF AttachSuperseded
  <2>2. bind'[p] = Resting /\ \A q \in Panes : q # p => bind'[q] = bind[q]
    BY <2>1, TurnSteps
  <2>3. Ends(p)
    BY <1>0, <1>n, <2>1, <2>2 DEF Ends, Quiet, Attaching
  <2>4. QED
    BY <2>1, <2>2, <2>3, OnePane DEF PaneGoes
<1>3. CASE Attached(p)
  <2>1. bind[p].at = "attached" /\ Rests(p)
    BY <1>3 DEF Attached
  <2>2. PICK seed, input :
          SetPane(p, [pane[p] EXCEPT !.gen = pane[p].gen + 1, !.on = bind[p].l, !.anchor = bind[p].upto,
                                     !.seed = seed, !.input = input])
    BY <1>3 DEF Attached, OwnGeneration
  <2> DEFINE st == [pane[p] EXCEPT !.gen = pane[p].gen + 1, !.on = bind[p].l, !.anchor = bind[p].upto,
                                   !.seed = seed, !.input = input]
  <2>s. SetPane(p, st)
    BY <2>2
  <2> HIDE DEF st
  <2>3. /\ pane'[p] = st
        /\ bind'[p] = Resting
        /\ \A q \in Panes : q # p => pane'[q] = pane[q] /\ bind'[q] = bind[q]
    BY <2>1, <2>s, TurnSteps
  <2>4. pane'[p].gen = pane[p].gen + 1 /\ pane'[p].on = bind[p].l /\ Same(pane[p], pane'[p])
    <3>1. pane[p].gen + 1 >= pane[p].gen
      BY <1>0 DEF PaneState
    <3>2. QED
      BY <2>3, <1>0, <3>1 DEF st, PaneState, Same
  <2>5. NoneComing(p)
    <3>1. feeds' = {IF f.pane = p /\ f.gen = 0 THEN [f EXCEPT !.gen = pane[p].gen + 1] ELSE f : f \in feeds}
      BY <1>3 DEF Attached, OwnGeneration
    <3>2. \A f \in feeds : [f EXCEPT !.gen = pane[p].gen + 1].gen # 0
      <4>1. pane[p].gen + 1 # 0
        BY <1>0 DEF PaneState
      <4>2. QED
        BY <4>1 DEF Typed, NetTyped, Feed
    <3>3. QED
      BY <3>1, <3>2 DEF NoneComing
  <2>6. Joined(p)
    BY <1>0, <2>1, <2>3, <2>4, <2>5 DEF Joined
  <2>7. QED
    BY <2>3, <2>4, <2>6, OnePane DEF PaneGoes, Same
<1>4. CASE CallFails(p)
  <2>1. Rests(p) /\ Unlocks(p) /\ feeds' = Unattached(p) /\ UNCHANGED pane /\ bind[p].at # "idle"
    BY <1>4 DEF CallFails, Unattached
  <2>2. bind'[p] = Resting /\ \A q \in Panes : q # p => bind'[q] = bind[q]
    BY <2>1, TurnSteps
  <2>3. Ends(p)
    BY <1>0, <1>n, <2>1, <2>2 DEF Ends, Quiet, Unlocks
  <2>4. QED
    BY <2>1, <2>2, <2>3, OnePane DEF PaneGoes
<1>5. CASE TypesLine(p)
  <2>1. SetPane(p, [pane[p] EXCEPT !.input = Tail(@)]) /\ UNCHANGED bind /\ pane[p].born
    BY <1>5, UnmadeFacts DEF TypesLine
  <2>2. Still(pane[p], [pane[p] EXCEPT !.input = Tail(@)])
    BY <1>0, SameShapes
  <2>3. QED
    BY <2>1, <2>2, QuietPane
<1>6. QED
  BY <1>1, <1>2, <1>3, <1>4, <1>5 DEF AnswerStep

\* A pump takes no turn on.
LEMMA PumpsGo ==
  ASSUME Typed, Unmade, NEW f \in feeds, PumpStep(f)
  PROVE  PanesGo
<1>0. f.pane \in Panes /\ pane[f.pane] \in PaneState
  BY DEF Typed, PanesTyped, NetTyped, Feed
<1>c. f.gen # 0 /\ Current(f) => pane[f.pane].born
  BY <1>0, UnmadeFacts DEF Current
<1>1. CASE PumpSuperseded(f)
  BY <1>1, NoPane DEF PumpSuperseded, mind
<1>2. CASE Forwards(f)
  <2>1. SetPane(f.pane, [pane[f.pane] EXCEPT !.anchor = @ + 1]) /\ UNCHANGED bind /\ pane[f.pane].born
    BY <1>2, <1>c DEF Forwards
  <2>2. Still(pane[f.pane], [pane[f.pane] EXCEPT !.anchor = @ + 1])
    BY <1>0, SameShapes
  <2>3. QED
    BY <1>0, <2>1, <2>2, QuietPane
<1>3. CASE ForwardsExit(f)
  <2>1. SetPane(f.pane, End(pane[f.pane])) /\ UNCHANGED bind /\ pane[f.pane].born
    BY <1>3, <1>c DEF ForwardsExit
  <2>2. QED
    BY <1>0, <2>1, SameShapes, QuietPane
<1>4. CASE PumpEnds(f)
  <2>1. UNCHANGED bind
        /\ \/ SetPane(f.pane, [pane[f.pane] EXCEPT !.on = None]) /\ pane[f.pane].born
           \/ SetPane(f.pane, pane[f.pane])
    BY <1>4, <1>c DEF PumpEnds
  <2>2. Still(pane[f.pane], [pane[f.pane] EXCEPT !.on = None]) /\ Still(pane[f.pane], pane[f.pane])
    BY <1>0, SameShapes
  <2>3. QED
    BY <1>0, <2>1, <2>2, QuietPane
<1>5. QED
  BY <1>1, <1>2, <1>3, <1>4 DEF PumpStep

\* As many panes were made as the last of them says.
LEMMA Counted ==
  ASSUME Typed, Unmade
  PROVE  /\ Cardinality(Born) \in 0 .. MaxPanes /\ Born = 1 .. Cardinality(Born)
         /\ \A p \in Panes : pane[p].born <=> p <= Cardinality(Born)
<1>1. PICK n \in 0 .. MaxPanes : Born = 1 .. n
  BY DEF Unmade
<1>2. Cardinality(1 .. n) = n
  BY <1>1, BoundsAre, FS_Interval
<1>3. Cardinality(Born) = n /\ Born = 1 .. Cardinality(Born)
  BY <1>1, <1>2
<1>4. \A p \in Panes : pane[p].born <=> p \in Born
  BY DEF Born
<1>5. \A p \in Panes : p \in 1 .. n <=> p <= n
  BY <1>1, BoundsAre DEF Panes
<1>6. QED
  BY <1>1, <1>3, <1>4, <1>5

\* An open makes a pane without a session, or claims one.
LEMMA OpensGo ==
  ASSUME Typed, Unmade, OpenStep
  PROVE  PanesGo
<1>1. CASE OpenAsked
  BY <1>1, NoPane DEF OpenAsked
<1>2. CASE Claims
  <2>1. PICK p \in Unclaimed : SetPane(p, Retarget(pane[p], TRUE))
    BY <1>2 DEF Claims
  <2>2. p \in Panes /\ pane[p].in /\ pane[p] \in PaneState
    BY DEF Unclaimed, Typed, PanesTyped
  <2>3. pane[p].born /\ Still(pane[p], Retarget(pane[p], TRUE))
    BY <2>2, UnmadeFacts, SameShapes
  <2>4. UNCHANGED bind
    BY <1>2 DEF Claims
  <2>5. QED
    BY <2>1, <2>2, <2>3, <2>4, QuietPane
<1>3. CASE Inserts
  <2> DEFINE n == Cardinality(Born)
             st == [Unborn EXCEPT !.born = TRUE, !.in = TRUE, !.view = TRUE]
  <2>0. n \in 0 .. MaxPanes /\ Born = 1 .. n /\ \A p \in Panes : pane[p].born <=> p <= n
    BY Counted
  <2>1. n + 1 \in Panes /\ SetPane(n + 1, st) /\ UNCHANGED bind
    BY <1>3 DEF Inserts
  <2>2. st.born /\ st.remote = None
    BY DEF Unborn
  <2> HIDE DEF n, st
  <2>3. pane'[n + 1] = st /\ \A q \in Panes : q # n + 1 => pane'[q] = pane[q]
    BY <2>1, TurnSteps
  <2>4. ~pane[n + 1].born
    BY <2>0, <2>1, BoundsAre
  <2>5. Made(n + 1)
    BY <2>1, <2>3, <2>4 DEF Made, st
  <2>6. \A q \in Panes : PaneGoes(q)
    <3>1. \A q \in Panes : q # n + 1 => Quiet(q)
      BY <2>3, SameShapes DEF Quiet, Typed, PanesTyped
    <3>2. QED
      BY <2>1, <2>3, <2>5, <3>1 DEF PaneGoes
  <2>7. Born' = 1 .. n + 1 /\ n + 1 \in 0 .. MaxPanes
    <3>1. \A q \in Panes : pane'[q].born <=> q <= n + 1
      BY <2>0, <2>1, <2>2, <2>3, BoundsAre DEF Panes
    <3>2. n + 1 \in 1 .. MaxPanes
      BY <2>1 DEF Panes
    <3>3. QED
      BY <3>1, <3>2, BoundsAre DEF Born, Panes
  <2>8. \A p \in Panes : ~pane[p].born => pane'[p].remote = None
    BY <2>2, <2>3 DEF Unmade, Unborn
  <2>9. QED
    BY <2>6, <2>7, <2>8 DEF PanesGo, PanesMade
<1>4. QED
  BY <1>1, <1>2, <1>3 DEF OpenStep

\* The adoption makes a pane of each session no pane holds, each of one of its own.
LEMMA TakesOverGoes ==
  ASSUME Typed, Named, Unmade, TakesOver
  PROVE  PanesGo
<1> DEFINE boot == BootOf(watch.task.l)
           new == watch.task.alive \ Held(boot, None)
           n == Cardinality(Born)
           c == Cardinality(new)
           minted == n + 1 .. n + c
<1>0. n \in 0 .. MaxPanes /\ Born = 1 .. n /\ \A p \in Panes : pane[p].born <=> p <= n
  BY Counted
<1>1. c \in Nat
  <2>1. IsFiniteSet(Ids)
    BY BoundsAre, FS_Interval DEF Ids
  <2>2. new \subseteq Ids
    BY DEF Typed, TasksTyped, TaskState
  <2>3. QED
    BY <2>1, <2>2, FS_Subset, FS_CardinalityType
<1>2. minted \subseteq Panes /\ watch.task.at = "listed" /\ UNCHANGED bind
  BY DEF TakesOver
<1>3. PICK takes \in Takers(minted, new) :
        pane' = [p \in Panes |-> IF p \in minted THEN Adopted(boot, takes[p]) ELSE pane[p]]
  BY DEF TakesOver
<1>4. takes \in [minted -> new] /\ \A p, q \in minted : p < q => takes[p] < takes[q]
  BY <1>3 DEF Takers
<1>5. new \subseteq Nat
  <2>1. new \subseteq Ids
    BY DEF Typed, TasksTyped, TaskState
  <2>2. QED
    BY <2>1, BoundsAre DEF Ids
<1> HIDE DEF boot, new, n, c
<1>6. ASSUME NEW p \in minted PROVE takes[p] \in new /\ pane'[p] = Adopted(boot, takes[p]) /\ ~pane[p].born
  <2>1. p \in Panes /\ p > n
    BY <1>0, <1>1, <1>2
  <2>2. takes[p] \in new
    BY <1>4
  <2>3. pane'[p] = Adopted(boot, takes[p])
    BY <1>3, <2>1
  <2>4. ~pane[p].born
    BY <1>0, <2>1, BoundsAre DEF Panes
  <2>5. QED
    BY <2>2, <2>3, <2>4
<1>7. \A p \in Panes : p \notin minted => pane'[p] = pane[p]
  BY <1>3
<1>8. \A id : Adopted(boot, id).born /\ Adopted(boot, id).remote = id
  BY DEF Adopted, Unborn
<1>9. \A q \in Panes : PaneGoes(q)
  <2>1. ASSUME NEW q \in minted PROVE Made(q)
    <3>1. \E id \in new : pane'[q] = Adopted(boot, id)
      BY <1>6
    <3>2. QED
      BY <1>2, <1>6, <3>1 DEF Made, boot, new
  <2>2. ASSUME NEW q \in Panes, q \notin minted PROVE Quiet(q) /\ bind'[q] = bind[q]
    BY <1>2, <1>7, <2>2, SameShapes DEF Quiet, Typed, PanesTyped
  <2>3. QED
    BY <2>1, <2>2 DEF PaneGoes
<1>10. Born' = 1 .. n + c /\ n + c \in 0 .. MaxPanes
  <2>1. n + c \in 0 .. MaxPanes
    <3>1. CASE c = 0
      BY <3>1, <1>0
    <3>2. CASE c # 0
      <4>1. n + c \in minted
        BY <3>2, <1>0, <1>1
      <4>2. QED
        BY <4>1, <1>2, BoundsAre DEF Panes
    <3>3. QED
      BY <3>1, <3>2
  <2>2. \A q \in Panes : pane'[q].born <=> q <= n + c
    <3>1. ASSUME NEW q \in Panes PROVE pane'[q].born <=> q <= n + c
      <4>1. q \in Nat /\ n \in Nat /\ c \in Nat /\ (pane[q].born <=> q <= n)
        BY <1>0, <1>1, BoundsAre DEF Panes
      <4>2. CASE q \in minted
        <5>1. pane'[q].born = TRUE
          <6>1. pane'[q] = Adopted(boot, takes[q])
            BY <1>6, <4>2
          <6>2. QED
            BY <6>1, <1>8
        <5>2. q <= n + c
          BY <4>1, <4>2
        <5>3. QED
          BY <5>1, <5>2
      <4>3. CASE q \notin minted
        <5>1. pane'[q].born = pane[q].born /\ (q <= n \/ q > n + c)
          BY <1>7, <4>1, <4>3
        <5>2. QED
          BY <4>1, <5>1
      <4>4. QED
        BY <4>2, <4>3
    <3>2. QED
      BY <3>1
  <2>3. QED
    BY <2>1, <2>2, BoundsAre DEF Born, Panes
<1>11. ASSUME NEW p \in Panes, NEW q \in Panes, ~pane[p].born, ~pane[q].born, p # q, pane'[p].remote # None
       PROVE  pane'[p].remote # pane'[q].remote
  <2>1. pane[p].remote = None /\ pane[q].remote = None
    BY <1>11 DEF Unmade, Unborn
  <2>2. p \in minted
    BY <1>7, <1>11, <2>1
  <2>3. CASE q \in minted
    <3> HIDE DEF minted
    <3>1. takes[p] \in Nat /\ takes[q] \in Nat /\ p \in Nat /\ q \in Nat
      <4>1. takes[p] \in new /\ takes[q] \in new
        BY <1>6, <2>2, <2>3
      <4>2. \A id \in new : id \in Nat
        BY <1>5
      <4>3. p \in Nat /\ q \in Nat
        BY <1>11, BoundsAre DEF Panes
      <4>4. QED
        BY <4>1, <4>2, <4>3
    <3>2. takes[p] # takes[q]
      <4>1. p < q \/ q < p
        BY <1>11, <3>1
      <4>2. QED
        BY <4>1, <1>4, <2>2, <2>3, <3>1
    <3>3. pane'[p].remote = takes[p] /\ pane'[q].remote = takes[q]
      BY <1>6, <1>8, <2>2, <2>3
    <3>4. QED
      BY <3>2, <3>3
  <2>4. CASE q \notin minted
    BY <1>7, <1>11, <2>1, <2>4
  <2>5. QED
    BY <2>3, <2>4
<1>12. QED
  BY <1>9, <1>10, <1>11 DEF PanesGo, PanesMade

\* What the host does for a call takes its turn on.
LEMMA HostsGo ==
  ASSUME Typed, Unmade, NEW p \in Panes, HostStep(p)
  PROVE  PanesGo
<1>0. bind[p] \in Turn /\ pane[p] \in PaneState /\ Still(pane[p], pane[p])
  BY SameShapes DEF Typed, PanesTyped
<1>g. ASSUME NEW b, bind' = [bind EXCEPT ![p] = b], b.l = bind[p].l, b.closing = bind[p].closing,
             b.taken = bind[p].taken, UNCHANGED pane,
             \/ /\ bind[p].at = "finding" /\ b.at = "found" /\ Up(bind[p].l) /\ host' = host
                /\ b.ses \in {None} \cup (Alive \ bind[p].taken)
             \/ /\ bind[p].at = "opening" /\ b.at = "opened" /\ Up(bind[p].l) /\ host'.boot = host.boot
                /\ b.ses = Len(host.ses) + 1 /\ Len(host'.ses) = b.ses /\ host'.ses[b.ses].by = p
             \/ <<bind[p].at, b.at>> \in Steps /\ b.ses = bind[p].ses /\ bind[p].at # "found"
      PROVE  PanesGo
  <2>1. bind'[p] = b /\ \A q \in Panes : q # p => bind'[q] = bind[q]
    BY <1>g DEF Typed, PanesTyped
  <2>2. GoesOn(p)
    BY <1>g, <2>1 DEF GoesOn
  <2>3. QED
    BY <1>g, <2>1, <2>2, OnePane DEF PaneGoes
<1>a. \A at : /\ [bind[p] EXCEPT !.at = at].at = at /\ [bind[p] EXCEPT !.at = at].l = bind[p].l
              /\ [bind[p] EXCEPT !.at = at].closing = bind[p].closing
              /\ [bind[p] EXCEPT !.at = at].taken = bind[p].taken
              /\ [bind[p] EXCEPT !.at = at].ses = bind[p].ses
  BY <1>0 DEF Turn
<1>1. CASE HostLists(p)
  <2> DEFINE id == IF Alive \ bind[p].taken = {} THEN None ELSE Max(Alive \ bind[p].taken)
             b == [bind[p] EXCEPT !.at = "found", !.ses = id]
  <2>1. bind' = [bind EXCEPT ![p] = b] /\ UNCHANGED <<host, pane>> /\ bind[p].at = "finding" /\ Up(bind[p].l)
    BY <1>1 DEF HostLists, Calls, Typed, PanesTyped
  <2>2. id \in {None} \cup (Alive \ bind[p].taken)
    <3>1. Alive \in SUBSET Ids
      BY SessionsTyped, BoundsAre DEF Typed, HostTyped, HostState, Ids
    <3>2. Alive \ bind[p].taken \in SUBSET Ids
      BY <3>1
    <3>3. QED
      BY <3>2, MaxTaken
  <2> HIDE DEF id
  <2>3. /\ b.at = "found" /\ b.ses = id /\ b.l = bind[p].l
        /\ b.closing = bind[p].closing /\ b.taken = bind[p].taken
    BY <1>0 DEF Turn
  <2> HIDE DEF b
  <2>4. QED
    BY <1>g, <2>1, <2>2, <2>3
<1>2. CASE HostOpens(p)
  <2> DEFINE b == [bind[p] EXCEPT !.at = "opened", !.ses = Len(host.ses) + 1]
  <2>1. /\ bind' = [bind EXCEPT ![p] = b] /\ UNCHANGED pane /\ bind[p].at = "opening" /\ Up(bind[p].l)
        /\ host' = [host EXCEPT !.ses = Append(@, NewSession(p))]
    BY <1>2 DEF HostOpens, Calls, Typed, PanesTyped
  <2>2. host'.boot = host.boot /\ host'.ses = Append(host.ses,
      NewSession(p)) /\ host.ses \in Seq(SessionState)
    BY <2>1 DEF Typed, HostTyped, HostState
  <2>3. Len(host'.ses) = Len(host.ses) + 1 /\ host'.ses[Len(host.ses) + 1] = NewSession(p)
    BY <2>2
  <2>4. NewSession(p).by = p
    BY DEF NewSession
  <2>5. b.at = "opened" /\ b.ses = Len(host.ses) + 1 /\ b.l = bind[p].l /\ b.closing = bind[p].closing
        /\ b.taken = bind[p].taken
    BY <1>0 DEF Turn
  <2> HIDE DEF b
  <2>6. QED
    BY <1>g, <2>1, <2>2, <2>3, <2>4, <2>5
<1>3. CASE HostRefuses(p)
  <2>1. /\ bind' = [bind EXCEPT ![p] = [bind[p] EXCEPT !.at = "refused"]]
        /\ UNCHANGED pane /\ bind[p].at = "opening"
    BY <1>3 DEF HostRefuses, Calls, At, Typed, PanesTyped
  <2>2. <<bind[p].at, "refused">> \in Steps /\ bind[p].at # "found"
    BY <2>1 DEF Steps
  <2>3. QED
    BY <1>g, <1>a, <2>1, <2>2
<1>4. CASE HostAttaches(p)
  <2>1. UNCHANGED pane /\ bind[p].at = "attaching"
    BY <1>4 DEF HostAttaches, Calls
  <2>2. PICK b : /\ bind' = [bind EXCEPT ![p] = b]
                 /\ \/ b = [bind[p] EXCEPT !.at = "answering"]
                    \/ \E upto : b = [bind[p] EXCEPT !.at = "answering", !.upto = upto]
    <3>1. CASE Exists(bind[p].ses)
      <4>1. bind' = [bind EXCEPT ![p].at = "answering", ![p].upto = Session(bind[p].ses).out]
        BY <1>4, <3>1 DEF HostAttaches
      <4>2. bind' = [bind EXCEPT ![p] = [bind[p] EXCEPT !.at = "answering",
          !.upto = Session(bind[p].ses).out]]
        BY <4>1 DEF Typed, PanesTyped
      <4>3. QED
        BY <4>2
    <3>2. CASE ~Exists(bind[p].ses)
      BY <1>4, <3>2 DEF HostAttaches, At, Typed, PanesTyped
    <3>3. QED
      BY <3>1, <3>2
  <2>3. b.at = "answering" /\ b.l = bind[p].l /\ b.closing = bind[p].closing /\ b.taken = bind[p].taken
        /\ b.ses = bind[p].ses
    BY <2>2, <1>0 DEF Turn
  <2>4. <<bind[p].at, b.at>> \in Steps /\ bind[p].at # "found"
    BY <2>1, <2>3 DEF Steps
  <2>5. QED
    BY <1>g, <2>1, <2>2, <2>3, <2>4
<1>5. CASE HostCloses(p)
  <2>1. /\ bind' = [bind EXCEPT ![p] = [bind[p] EXCEPT !.at = "closed"]]
        /\ UNCHANGED pane /\ bind[p].at = "closing"
    BY <1>5 DEF HostCloses, Calls, At, Typed, PanesTyped
  <2>2. <<bind[p].at, "closed">> \in Steps /\ bind[p].at # "found"
    BY <2>1 DEF Steps
  <2>3. QED
    BY <1>g, <1>a, <2>1, <2>2
<1>6. CASE HostDetaches(p)
  <2>1. Rests(p) /\ UNCHANGED pane /\ bind[p].at = "detaching"
    BY <1>6 DEF HostDetaches, Calls
  <2>2. bind'[p] = Resting /\ \A q \in Panes : q # p => bind'[q] = bind[q]
    BY <2>1, TurnSteps
  <2>3. pane[p].born
    BY <2>1, UnmadeFacts
  <2>4. Ends(p)
    BY <1>0, <2>1, <2>2, <2>3 DEF Ends, Quiet, Attaching
  <2>5. QED
    BY <2>1, <2>2, <2>4, OnePane DEF PaneGoes
<1>7. QED
  BY <1>1, <1>2, <1>3, <1>4, <1>5, <1>6 DEF HostStep

\* So does the reader that takes the answer to an attach.
LEMMA ReadsGo ==
  ASSUME Typed, Unmade, NEW l \in DOMAIN links, Reads(l)
  PROVE  PanesGo
<1>1. UNCHANGED pane
  BY DEF Reads
<1>2. \/ UNCHANGED bind
      \/ \E p, at : bind[p].at = "answering" /\ at \in {"attached", "gone"} /\ At(p, at)
  BY DEF Reads, ReadsData, ReadsExit, ReadsAnswer
<1>3. CASE UNCHANGED bind
  BY <1>1, <1>3, NoPane
<1>4. ASSUME NEW p, NEW at \in {"attached", "gone"}, bind[p].at = "answering", At(p, at) PROVE PanesGo
  <2>1. CASE p \notin Panes
    <3>1. bind' = bind
      BY <1>4, <2>1 DEF At, Typed, PanesTyped
    <3>2. QED
      BY <1>1, <3>1, NoPane
  <2>2. CASE p \in Panes
    <3>0. bind[p] \in Turn
      BY <2>2 DEF Typed, PanesTyped
    <3>1. bind'[p] = [bind[p] EXCEPT !.at = at] /\ \A q \in Panes : q # p => bind'[q] = bind[q]
      BY <1>4, <2>2, TurnSteps
    <3>2. GoesOn(p)
      BY <1>1, <1>4, <3>0, <3>1 DEF GoesOn, Steps, Turn
    <3>3. QED
      BY <1>1, <3>1, <3>2, OnePane DEF PaneGoes
  <2>3. QED
    BY <2>1, <2>2
<1>5. QED
  BY <1>2, <1>3, <1>4

\* What the window asks for takes no turn on.
LEMMA AsksGo ==
  ASSUME Typed, Unmade, NEW p \in Panes, AskStep(p)
  PROVE  PanesGo
<1>0. pane[p] \in PaneState /\ (pane[p].in => pane[p].born) /\ seen \in [Panes -> View]
  BY UnmadeFacts DEF Typed, PanesTyped, HistoryTyped
<1>1. CASE Shows(p)
  <2>1. UNCHANGED bind /\ pane[p].in
        /\ \E anchor \in {0, seen[p].next - 1} :
             SetPane(p, [Retarget(pane[p], TRUE) EXCEPT !.anchor = anchor])
    BY <1>1 DEF Shows
  <2>2. \A anchor \in {0, seen[p].next - 1} : anchor \in Int
    <3>1. seen[p] \in View
      BY <1>0
    <3>2. QED
      BY <3>1 DEF View
  <2>3. \A anchor \in {0, seen[p].next - 1} :
          Still(pane[p], [Retarget(pane[p], TRUE) EXCEPT !.anchor = anchor])
    BY <1>0, <2>2, SameShapes
  <2>4. QED
    BY <1>0, <2>1, <2>3, QuietPane
<1>2. CASE Hides(p)
  <2>1. UNCHANGED bind /\ pane[p].in /\ SetPane(p, Retarget(pane[p], FALSE))
    BY <1>2 DEF Hides
  <2>2. QED
    BY <1>0, <2>1, SameShapes, QuietPane
<1>3. CASE Closes(p)
  <2> DEFINE st == [Retarget(pane[p], FALSE) EXCEPT !.closing = TRUE]
  <2>1. UNCHANGED bind /\ pane[p].in /\ (SetPane(p, Over(st)) \/ SetPane(p, st))
    BY <1>3 DEF Closes
  <2>2. Still(pane[p], st) /\ Still(pane[p], Over(st))
    BY <1>0, SameShapes
  <2> HIDE DEF st
  <2>3. QED
    BY <1>0, <2>1, <2>2, QuietPane
<1>4. CASE Seeds(p)
  <2>1. UNCHANGED bind /\ pane[p].in
        /\ \/ SetPane(p, pane[p]) \/ SetPane(p, [pane[p] EXCEPT !.seed = TRUE])
           \/ SetPane(p, [pane[p] EXCEPT !.input = Append(@, pane[p].gen)])
    BY <1>4 DEF Seeds
  <2>2. /\ Still(pane[p], pane[p]) /\ Still(pane[p], [pane[p] EXCEPT !.seed = TRUE])
        /\ Still(pane[p], [pane[p] EXCEPT !.input = Append(@, pane[p].gen)])
    BY <1>0, SameShapes
  <2>3. QED
    BY <1>0, <2>1, <2>2, QuietPane
<1>5. CASE Expires(p)
  <2>1. UNCHANGED bind /\ pane[p].born /\ SetPane(p, Lose(pane[p]))
    BY <1>5 DEF Expires
  <2>2. QED
    BY <1>0, <2>1, SameShapes, QuietPane
<1>6. QED
  BY <1>1, <1>2, <1>3, <1>4, <1>5 DEF AskStep

\* Every step of the program takes each pane and its turn one of the ways they go.
LEMMA PanesStep ==
  ASSUME Typed, Named, Unmade, Waits, PanesNext
  PROVE  PanesGo
<1>1. WatchStep => UNCHANGED <<pane, bind>>
  BY DEF WatchStep, TakesNews, Joins, AdoptionLocks, AdoptionFails, ListsAgain, ClosesExited, HostListsAll,
     ListingRefused
<1>2. LinkStep => UNCHANGED <<pane, bind>>
  BY DEF LinkStep, Connects, LinkDies, LiveCleared, HostRestarts, StrayOpens, mind
<1>3. \A id \in DOMAIN host.ses : SessionStep(id) => UNCHANGED <<pane, bind>>
  BY DEF SessionStep, HostOutputs, SessionEnds, HostReaps, mind
<1>4. QED
  BY <1>1, <1>2, <1>3, StepKinds, NoPane, BindsGo, TurnsGo, AnswersGo, HostsGo, AsksGo, PumpsGo,
      TakesOverGoes,
     OpensGo, ReadsGo

-----------------------------------------------------------------------------
\* What a step may do to the queue, the lock and the watch.

\* What waits for a turn from here on names a link that exists, or the session its pane has.
QueueGoes ==
  \A t \in queue' \ queue :
    /\ pane'[t.pane].born
    /\ t.who # "hide" => t.l \in 1 .. Len(links)
    /\ t.who = "hide" => t.ses # None /\ t.ses = pane'[t.pane].remote /\ t.boot = pane'[t.pane].boot
\* The lock is taken when it is free, and let go of by its holder.
LockGoes ==
  \/ opening' = opening /\ (watch'.task.at \in Listing => watch.task.at \in Listing)
  \/ \E p \in Panes : /\ opening = p /\ opening' = None /\ watch' = watch
                      /\ bind'[p].at \in {"idle", "attaching"}
  \/ \E p \in Panes : /\ opening = None /\ opening' = p /\ watch' = watch
                      /\ bind[p].at = "locking" /\ bind'[p].at = "finding"
                      /\ bind'[p].closing = bind[p].closing
  \/ opening = None /\ opening' = Adoption /\ bind' = bind
  \/ watch.task.at \in Listing /\ opening' = None /\ watch'.task.at \notin Listing /\ bind' = bind
\* The adoption stays on its link, and what it was told is of that link's boot.
Lists ==
  LET a == watch.task
      b == watch'.task
  IN
  /\ b.at # "idle" => b.l \in 1 .. Len(links)
  /\ b.at = "listed" => (a.at = "listed" /\ b = a) \/ (Up(b.l) /\ b.alive = Alive /\ host' = host)

\* Steps that leave all three alone.
TasksRest == queue' \subseteq queue /\ UNCHANGED <<opening, watch>>

\* Which steps touch what waits for a turn, the lock or the adoption.
LEMMA RestingTasks ==
  ASSUME PanesNext
  PROVE  \/ TasksRest \/ WatchStep \/ TakesOver \/ OpenStep
         \/ \E p \in Panes : TurnStep(p) \/ CallFails(p) \/ AskStep(p)
<1>1. ASSUME NEW t \in queue, BindStep(t) PROVE TasksRest
  BY <1>1 DEF BindStep, BindMoot, BindFindsItGone, BindGoes, DetachGoes, Binds, TakesTurn, TasksRest
<1>2. ASSUME NEW p \in Panes, AnswerStep(p) PROVE TasksRest \/ CallFails(p)
  BY <1>2 DEF AnswerStep, Gone, AttachSuperseded, Attached, TypesLine, tasks, TasksRest
<1>3. ASSUME NEW p \in Panes, HostStep(p) PROVE TasksRest
  BY <1>3 DEF HostStep, HostLists, HostOpens, HostRefuses, HostAttaches, HostCloses, HostDetaches, tasks,
      TasksRest
<1>4. ASSUME NEW f \in feeds, PumpStep(f) PROVE TasksRest
  BY <1>4 DEF PumpStep, PumpSuperseded, Forwards, ForwardsExit, PumpEnds, mind, tasks, TasksRest
<1>5. ASSUME LinkStep PROVE TasksRest
  BY <1>5 DEF LinkStep, Connects, LinkDies, LiveCleared, HostRestarts, StrayOpens, mind, tasks, TasksRest
<1>6. ASSUME NEW id \in DOMAIN host.ses, SessionStep(id) PROVE TasksRest
  BY <1>6 DEF SessionStep, HostOutputs, SessionEnds, HostReaps, mind, tasks, TasksRest
<1>7. ASSUME NEW l \in DOMAIN links, Reads(l) PROVE TasksRest
  BY <1>7 DEF Reads, tasks, TasksRest
<1>8. QED
  BY <1>1, <1>2, <1>3, <1>4, <1>5, <1>6, <1>7, StepKinds

\* What a step puts in the queue names a link that exists, or the session its pane has.
LEMMA QueueWaits ==
  ASSUME Typed, Named, Unmade, PanesNext
  PROVE  QueueGoes
<1>0. /\ live \in 0 .. Len(links) /\ links \in Seq(Link)
      /\ \A p, who : BindOf(p, who, live).pane = p /\ BindOf(p, who, live).who = who /\ BindOf(p, who,
          live).l = live
  BY DEF Named, Typed, NetTyped, BindOf
<1>k. \A who \in {"watch", "open", "show", "close"} : who # "hide"
  OBVIOUS
<1>1. CASE queue' \subseteq queue
  BY <1>1 DEF QueueGoes
<1>2. ASSUME NEW p, NEW who \in {"watch", "open", "show", "close"}, NEW l \in 1 .. Len(links),
             queue' \subseteq queue \cup {BindOf(p, who, l)}, pane'[p].born
      PROVE  QueueGoes
  BY <1>2 DEF QueueGoes, BindOf
<1>3. ASSUME TakesNews PROVE QueueGoes
  <2>1. CASE live = None
    BY <1>1, <1>3, <2>1 DEF TakesNews
  <2>2. CASE live # None
    <3>1. queue' = queue \cup {BindOf(p, "watch", live) : p \in Waiting} /\ UNCHANGED pane
      BY <1>3, <2>2 DEF TakesNews
    <3>2. \A p \in Waiting : pane[p].born
      BY UnmadeFacts DEF Waiting
    <3>3. live \in 1 .. Len(links)
      BY <1>0, <2>2 DEF None
    <3>4. QED
      BY <3>1, <3>2, <3>3 DEF QueueGoes, BindOf
  <2>3. QED
    BY <2>1, <2>2
<1>4. ASSUME WatchStep PROVE QueueGoes
  BY <1>1, <1>3, <1>4 DEF WatchStep, Joins, AdoptionLocks, AdoptionFails, ListsAgain, ClosesExited,
      HostListsAll,
     ListingRefused
<1>5. ASSUME NEW p \in Panes, Shown(p, Head(opens)), pane'[p].born, opens # <<>> PROVE QueueGoes
  <2>1. Head(opens) \in 0 .. Len(links)
    <3>1. Head(opens) = opens[1] /\ 1 \in 1 .. Len(opens)
      BY <1>5 DEF Typed, TasksTyped
    <3>2. QED
      BY <3>1 DEF Named
  <2>2. CASE Head(opens) = None
    BY <1>1, <1>5, <2>2 DEF Shown
  <2>3. CASE Head(opens) # None
    <3>1. Head(opens) \in 1 .. Len(links)
      BY <2>1, <2>3 DEF None
    <3>2. queue' = queue \cup {BindOf(p, "open", Head(opens))}
      BY <1>5, <2>3 DEF Shown
    <3>3. QED
      BY <1>2, <1>5, <3>1, <3>2
  <2>4. QED
    BY <2>2, <2>3
<1>6. ASSUME OpenStep PROVE QueueGoes
  <2>1. CASE OpenAsked
    BY <1>1, <2>1 DEF OpenAsked
  <2>2. CASE Claims
    <3>1. PICK p \in Unclaimed : SetPane(p, Retarget(pane[p], TRUE)) /\ Shown(p, Head(opens)) /\ opens # <<>>
      BY <2>2 DEF Claims
    <3>2. p \in Panes /\ pane[p].in /\ pane[p] \in PaneState
      BY DEF Unclaimed, Typed, PanesTyped
    <3>3. pane'[p] = Retarget(pane[p], TRUE)
      BY <3>1, <3>2 DEF SetPane, Typed, PanesTyped
    <3>4. pane'[p].born
      BY <3>2, <3>3, SameShapes, UnmadeFacts DEF Still, Same
    <3>5. QED
      BY <1>5, <3>1, <3>2, <3>4
  <2>3. CASE Inserts
    <3> DEFINE p == Cardinality(Born) + 1
    <3>1. /\ p \in Panes /\ SetPane(p, [Unborn EXCEPT !.born = TRUE, !.in = TRUE, !.view = TRUE])
          /\ Shown(p, Head(opens)) /\ opens # <<>>
      BY <2>3 DEF Inserts
    <3> HIDE DEF p
    <3>2. pane'[p] = [Unborn EXCEPT !.born = TRUE, !.in = TRUE, !.view = TRUE]
      BY <3>1 DEF SetPane, Typed, PanesTyped
    <3>3. pane'[p].born
      BY <3>2 DEF Unborn
    <3>4. QED
      BY <1>5, <3>1, <3>3
  <2>4. QED
    BY <1>6, <2>1, <2>2, <2>3 DEF OpenStep
<1>7. ASSUME NEW p \in Panes, AskStep(p) PROVE QueueGoes
  <2>0. pane[p] \in PaneState /\ (pane[p].in => pane[p].born) /\ pane \in [Panes -> PaneState]
    BY UnmadeFacts DEF Typed, PanesTyped
  <2>l. live # None => live \in 1 .. Len(links)
    BY <1>0 DEF None
  <2>1. CASE Shows(p)
    <3>1. PICK anchor \in {0, seen[p].next - 1} :
            SetPane(p, [Retarget(pane[p], TRUE) EXCEPT !.anchor = anchor])
      BY <2>1 DEF Shows
    <3>2. pane'[p] = [Retarget(pane[p], TRUE) EXCEPT !.anchor = anchor] /\ pane[p].born
      BY <2>0, <2>1, <3>1 DEF SetPane, Shows
    <3>3. pane'[p].born
      BY <2>0, <3>2 DEF Retarget, PaneState
    <3>4. QED
      BY <1>1, <1>2, <2>1, <2>l, <3>3 DEF Shows
  <2>2. CASE Hides(p)
    <3> DEFINE st == pane[p]
    <3>1. pane'[p] = Retarget(st, FALSE) /\ st.born
      BY <2>0, <2>2 DEF SetPane, Hides
    <3>2. Still(st, Retarget(st, FALSE))
      BY <2>0, SameShapes
    <3>3. pane'[p].born /\ pane'[p].remote = st.remote /\ pane'[p].boot = st.boot
      BY <3>1, <3>2 DEF Still, Same
    <3>4. \/ queue' = queue
          \/ st.remote # None /\ queue' = queue \cup {DetachOf(p, st.gen + 1, st.remote, st.boot)}
      BY <2>2 DEF Hides
    <3>5. \A g, id, b : LET t == DetachOf(p, g, id, b)
                        IN t.pane = p /\ t.who = "hide" /\ t.ses = id /\ t.boot = b
      BY DEF DetachOf
    <3>6. QED
      BY <3>3, <3>4, <3>5 DEF QueueGoes
  <2>3. CASE Closes(p)
    <3> DEFINE st == [Retarget(pane[p], FALSE) EXCEPT !.closing = TRUE]
    <3>1. (pane'[p] = st \/ pane'[p] = Over(st)) /\ pane[p].born
      BY <2>0, <2>3 DEF SetPane, Closes
    <3>2. Still(pane[p], st) /\ Still(pane[p], Over(st))
      BY <2>0, SameShapes
    <3> HIDE DEF st
    <3>3. pane'[p].born
      BY <3>1, <3>2 DEF Still, Same
    <3>4. QED
      BY <1>1, <1>2, <2>3, <2>l, <3>3 DEF Closes
  <2>4. CASE Seeds(p) \/ Expires(p)
    BY <1>1, <2>4 DEF Seeds, Expires, tasks
  <2>5. QED
    BY <1>7, <2>1, <2>2, <2>3, <2>4 DEF AskStep
<1>8. ASSUME NEW p \in Panes, TurnStep(p) \/ CallFails(p) PROVE QueueGoes
  BY <1>1, <1>8 DEF TurnStep, GetsOpening, Found, Opened, Refused, FoundToClose, Closed, CallFails, tasks
<1>9. TakesOver => QueueGoes
  BY <1>1 DEF TakesOver
<1>10. QED
  BY <1>1, <1>4, <1>6, <1>7, <1>8, <1>9, RestingTasks DEF TasksRest

\* What the operators on the adoption do to it.
LEMMA TaskFields ==
  ASSUME Typed
  PROVE  /\ Idles => watch'.task = Watching
         /\ Watching.at = "idle"
         /\ Task("locking") => watch'.task.at = "locking" /\ watch'.task.l = watch.task.l
         /\ Task("listing") => watch'.task.at = "listing" /\ watch'.task.l = watch.task.l
<1>1. watch.task \in TaskState /\ watch \in [task : TaskState, adopted : Nat]
  BY DEF Typed, TasksTyped
<1>2. \A at : [watch.task EXCEPT !.at = at].at = at /\ [watch.task EXCEPT !.at = at].l = watch.task.l
  BY <1>1 DEF TaskState
<1>3. \A at : Task(at) => watch'.task = [watch.task EXCEPT !.at = at]
  BY <1>1 DEF Task
<1>4. Idles => watch'.task = Watching
  BY <1>1 DEF Idles
<1>5. Watching.at = "idle"
  BY DEF Watching
<1>6. /\ Task("locking") => watch'.task.at = "locking" /\ watch'.task.l = watch.task.l
      /\ Task("listing") => watch'.task.at = "listing" /\ watch'.task.l = watch.task.l
  BY <1>2, <1>3
<1>7. QED
  BY <1>4, <1>5, <1>6

\* The adoption that took its sessions over is past its list.
LEMMA TakesOverTask ==
  ASSUME Typed, TakesOver
  PROVE  watch'.task.at = "reaping" /\ watch'.task.l = watch.task.l
<1>1. watch.task \in TaskState /\ watch \in [task : TaskState, adopted : Nat]
  BY DEF Typed, TasksTyped
<1>2. PICK s, d : watch' = [watch EXCEPT !.task.at = "reaping", !.task.alive = s, !.task.dead = d]
  BY DEF TakesOver
<1>3. watch'.task = [watch.task EXCEPT !.at = "reaping", !.alive = s, !.dead = d]
  BY <1>1, <1>2
<1>4. QED
  BY <1>1, <1>3 DEF TaskState

\* A turn that ends or attaches lets go of the lock.
LEMMA UnlocksGo ==
  ASSUME NEW p \in Panes, Unlocks(p), UNCHANGED watch, bind'[p].at \in {"idle", "attaching"}
  PROVE  LockGoes
  BY DEF Unlocks, LockGoes

\* An attach takes the turn there.
LEMMA AttachesAt ==
  ASSUME Typed, NEW p \in Panes
  PROVE  Attaches(p, bind[p]) => bind'[p].at = "attaching"
<1>1. bind[p] \in Turn
  BY DEF Typed, PanesTyped
<1>2. [bind[p] EXCEPT !.at = "attaching"].at = "attaching"
  BY <1>1 DEF Turn
<1>3. QED
  BY <1>2, TurnSteps

\* Every step takes the lock when it is free, lets go of its own, or leaves it alone.
LEMMA LocksGo ==
  ASSUME Typed, PanesNext
  PROVE  LockGoes
<1>1. TasksRest => LockGoes
  BY DEF TasksRest, LockGoes
<1>2. OpenStep => LockGoes
  BY DEF OpenStep, OpenAsked, Claims, Inserts, LockGoes
<1>3. \A p \in Panes : AskStep(p) => LockGoes
  BY DEF AskStep, Shows, Hides, Closes, Seeds, Expires, tasks, LockGoes
<1>4. ASSUME WatchStep PROVE LockGoes
  <2>1. CASE TakesNews
    <3>1. opening' = opening /\ (watch' = watch \/ \E b, l : watch' = [watch EXCEPT !.task =
            [Watching EXCEPT !.at = "joins", !.l = l, !.binds = b]])
      BY <2>1 DEF TakesNews
    <3>2. watch' = watch \/ watch'.task.at = "joins"
      BY <3>1 DEF Typed, TasksTyped, Watching
    <3>3. QED
      BY <3>1, <3>2 DEF LockGoes, Listing
  <2>2. CASE Joins
    BY <2>2, TaskFields DEF Joins, LockGoes, Listing
  <2>3. CASE AdoptionLocks
    BY <2>3 DEF AdoptionLocks, LockGoes
  <2>4. CASE AdoptionFails
    BY <2>4, TaskFields DEF AdoptionFails, LockGoes, Listing
  <2>5. CASE ListsAgain
    BY <2>5, TaskFields DEF ListsAgain, LockGoes, Listing
  <2>6. CASE ClosesExited
    <3>1. opening' = opening /\ watch.task.at = "reaping"
          /\ \/ watch'.task = Watching
             \/ \E id : watch' = [watch EXCEPT !.task.dead = @ \ {id}]
      BY <2>6 DEF ClosesExited
    <3>2. watch'.task.at \notin Listing
      <4>1. CASE watch'.task = Watching
        BY <4>1, TaskFields DEF Listing
      <4>2. CASE \E id : watch' = [watch EXCEPT !.task.dead = @ \ {id}]
        BY <3>1, <4>2, SMTT(30) DEF Listing, Typed, TasksTyped, TaskState
      <4>3. QED
        BY <3>1, <4>1, <4>2
    <3>3. QED
      BY <3>1, <3>2 DEF LockGoes
  <2>7. CASE HostListsAll
    BY <2>7 DEF HostListsAll, LockGoes, Listing
  <2>8. CASE ListingRefused
    <3>1. opening' = None /\ watch.task.at = "listing" /\ bind' = bind
          /\ (Idles \/ watch' = [watch EXCEPT !.task.at = "again", !.task.again = TRUE])
      BY <2>8 DEF ListingRefused
    <3>2. watch'.task.at \notin Listing
      <4>1. CASE Idles
        BY <4>1, TaskFields DEF Listing
      <4>2. CASE watch' = [watch EXCEPT !.task.at = "again", !.task.again = TRUE]
        BY <4>2 DEF Listing, Typed, TasksTyped, TaskState
      <4>3. QED
        BY <3>1, <4>1, <4>2
    <3>3. QED
      BY <3>1, <3>2 DEF LockGoes, Listing
  <2>9. QED
    BY <1>4, <2>1, <2>2, <2>3, <2>4, <2>5, <2>6, <2>7, <2>8 DEF WatchStep
<1>5. ASSUME TakesOver PROVE LockGoes
  <2>1. watch.task.at = "listed" /\ opening' = None /\ bind' = bind
    BY <1>5 DEF TakesOver
  <2>2. watch'.task.at = "reaping"
    BY <1>5, TakesOverTask
  <2>3. QED
    BY <2>1, <2>2 DEF LockGoes, Listing
<1>6. ASSUME NEW p \in Panes, TurnStep(p) PROVE LockGoes
  <2>0. bind[p] \in Turn /\ Resting.at = "idle"
    BY DEF Typed, PanesTyped, Resting
  <2>c. ASSUME NEW mine, Commits(p, mine), UNCHANGED watch PROVE LockGoes
    <3>1. UNCHANGED opening \/ (Unlocks(p) /\ (Rests(p) \/ Attaches(p, bind[p])))
      BY <2>c DEF Commits
    <3>2. CASE UNCHANGED opening
      BY <2>c, <3>2 DEF LockGoes
    <3>3. CASE Unlocks(p) /\ (Rests(p) \/ Attaches(p, bind[p]))
      BY <2>c, <2>0, <3>3, TurnSteps, AttachesAt, UnlocksGo
    <3>4. QED
      BY <3>1, <3>2, <3>3
  <2>1. CASE GetsOpening(p)
    <3>1. watch' = watch /\ bind[p].at = "locking" /\ opening = None
          /\ (opening' = opening \/ (opening' = p /\ Finds(p, bind[p])))
      BY <2>1 DEF GetsOpening
    <3>2. \A taken : LET b == [bind[p] EXCEPT !.at = "finding", !.taken = taken]
                     IN b.at = "finding" /\ b.closing = bind[p].closing
      BY <2>0 DEF Turn
    <3>f. Finds(p, bind[p]) =>
            bind'[p] = [bind[p] EXCEPT !.at = "finding", !.taken = Held(BootOf(bind[p].l), p)]
      BY TurnSteps
    <3>3. Finds(p, bind[p]) => bind'[p].at = "finding" /\ bind'[p].closing = bind[p].closing
      BY <3>2, <3>f
    <3>4. QED
      BY <3>1, <3>3 DEF LockGoes
  <2>2. CASE Found(p)
    BY <2>2, <2>c DEF Found, LockGoes
  <2>3. CASE Opened(p)
    BY <2>3, <2>c DEF Opened
  <2>4. CASE Refused(p) \/ Closed(p)
    BY <2>4, <2>0, TurnSteps, UnlocksGo DEF Refused, Closed
  <2>5. CASE FoundToClose(p)
    BY <2>5 DEF FoundToClose, tasks, LockGoes
  <2>6. QED
    BY <1>6, <2>1, <2>2, <2>3, <2>4, <2>5 DEF TurnStep
<1>7. ASSUME NEW p \in Panes, CallFails(p) PROVE LockGoes
  <2>1. Rests(p) /\ Unlocks(p) /\ UNCHANGED watch
    BY <1>7 DEF CallFails
  <2>r. bind'[p] = Resting
    BY <2>1, TurnSteps
  <2>2. bind'[p].at = "idle"
    BY <2>r DEF Resting
  <2>3. QED
    BY <2>1, <2>2, UnlocksGo
<1>8. QED
  BY <1>1, <1>2, <1>3, <1>4, <1>5, <1>6, <1>7, RestingTasks

\* Every step keeps what the adoption listed, or lists what runs on the host now.
LEMMA ListsGo ==
  ASSUME Typed, Named, PanesNext
  PROVE  Lists
<1>0. /\ watch.task \in TaskState /\ watch \in [task : TaskState, adopted : Nat]
      /\ live \in 0 .. Len(links) /\ (watch.task.at # "idle" => watch.task.l \in 1 .. Len(links))
      /\ links \in Seq(Link)
  BY DEF Typed, TasksTyped, Named, NetTyped
<1>1. UNCHANGED watch => Lists
  BY <1>0 DEF Lists
<1>t. ASSUME NEW b, watch'.task = b, b.at \notin {"idle", "listed"}, b.l = watch.task.l,
    watch.task.at # "idle"
      PROVE  Lists
  BY <1>t, <1>0 DEF Lists
<1>u. watch'.task = Watching => Lists
  BY TaskFields DEF Lists
<1>2. ASSUME WatchStep PROVE Lists
  <2>1. CASE TakesNews
    <3>1. \/ watch' = watch
          \/ /\ live # None
             /\ \E b : watch' = [watch EXCEPT !.task = [Watching EXCEPT !.at = "joins", !.l = live,
                 !.binds = b]]
      BY <2>1 DEF TakesNews
    <3>2. \/ watch' = watch
          \/ live # None /\ watch'.task.at = "joins" /\ watch'.task.l = live
      BY <3>1, <1>0 DEF Watching
    <3>3. QED
      BY <1>0, <1>1, <3>2 DEF Lists, None
  <2>2. CASE Joins
    BY <2>2, <1>t, TaskFields DEF Joins
  <2>3. CASE AdoptionLocks
    BY <2>3, <1>t, TaskFields DEF AdoptionLocks
  <2>4. CASE AdoptionFails
    BY <2>4, <1>u, TaskFields DEF AdoptionFails
  <2>5. CASE ListsAgain
    BY <2>5, <1>t, <1>u, TaskFields DEF ListsAgain
  <2>6. CASE ClosesExited
    <3>1. watch.task.at = "reaping"
          /\ \/ watch'.task = Watching
             \/ \E id : watch' = [watch EXCEPT !.task.dead = @ \ {id}]
      BY <2>6 DEF ClosesExited
    <3>2. CASE \E id : watch' = [watch EXCEPT !.task.dead = @ \ {id}]
      <4>1. watch'.task.at = "reaping" /\ watch'.task.l = watch.task.l
        BY <3>1, <3>2, <1>0 DEF TaskState
      <4>2. QED
        BY <3>1, <4>1, <1>t
    <3>3. QED
      BY <3>1, <3>2, <1>u
  <2>7. CASE HostListsAll
    <3>1. /\ watch.task.at = "listing" /\ Up(watch.task.l) /\ host' = host
          /\ \E d : watch' = [watch EXCEPT !.task.at = "listed", !.task.alive = Alive, !.task.dead = d]
      BY <2>7 DEF HostListsAll
    <3>2. watch'.task.l = watch.task.l /\ watch'.task.alive = Alive
      <4>1. PICK d : watch' = [watch EXCEPT !.task.at = "listed", !.task.alive = Alive, !.task.dead = d]
        BY <3>1
      <4>2. watch'.task = [watch.task EXCEPT !.at = "listed", !.alive = Alive, !.dead = d]
        BY <4>1, <1>0
      <4>3. \A s : LET b == [watch.task EXCEPT !.at = "listed", !.alive = s, !.dead = d]
                   IN b.l = watch.task.l /\ b.alive = s
        BY <1>0 DEF TaskState
      <4>4. QED
        BY <4>2, <4>3
    <3>3. QED
      BY <3>1, <3>2, <1>0 DEF Lists
  <2>8. CASE ListingRefused
    <3>1. watch.task.at = "listing"
          /\ (Idles \/ watch' = [watch EXCEPT !.task.at = "again", !.task.again = TRUE])
      BY <2>8 DEF ListingRefused
    <3>2. CASE watch' = [watch EXCEPT !.task.at = "again", !.task.again = TRUE]
      <4>1. watch'.task.at = "again" /\ watch'.task.l = watch.task.l
        BY <3>2, <1>0 DEF TaskState
      <4>2. QED
        BY <3>1, <4>1, <1>t
    <3>3. QED
      BY <3>1, <3>2, <1>u, TaskFields
  <2>9. QED
    BY <1>2, <2>1, <2>2, <2>3, <2>4, <2>5, <2>6, <2>7, <2>8 DEF WatchStep
<1>3. ASSUME TakesOver PROVE Lists
  <2>1. watch.task.at = "listed"
    BY <1>3 DEF TakesOver
  <2>2. watch'.task.at = "reaping" /\ watch'.task.l = watch.task.l
    BY <1>3, TakesOverTask
  <2>3. QED
    BY <2>1, <2>2, <1>t
<1>4. ASSUME OpenStep \/ \E p \in Panes : TurnStep(p) \/ CallFails(p) \/ AskStep(p) PROVE UNCHANGED watch
  BY <1>4 DEF OpenStep, OpenAsked, Claims, Inserts, AskStep, Shows, Hides, Closes, Seeds, Expires, tasks,
      TurnStep,
     GetsOpening, Found, Opened, Refused, FoundToClose, Closed, CallFails
<1>5. QED
  BY <1>1, <1>2, <1>3, <1>4, RestingTasks DEF TasksRest

-----------------------------------------------------------------------------
\* What a step may do to the routes and their pumps: each stays of its pane and its generation, an attach
\* brings one that has none yet, and an attach that is done gives it one of its own.
Carried(S) ==
  \E h : /\ \A f \in feeds : h[f].pane = f.pane /\ h[f].gen = f.gen
         /\ \A g \in S : \E f \in feeds : g = h[f]
Routed ==
  \E p \in Panes : \E new : /\ new.pane = p /\ new.gen = 0 /\ Carried(feeds' \ {new})
                             /\ bind[p].at \notin Attaching /\ bind'[p].at = "attaching"
Given ==
  \E p \in Panes, gen \in Nat :
    /\ pane'[p].gen = gen /\ gen = pane[p].gen + 1
    /\ feeds' = {IF f.pane = p /\ f.gen = 0 THEN [f EXCEPT !.gen = gen] ELSE f : f \in feeds}
FeedsGo == Carried(feeds') \/ Routed \/ Given

\* Routes that are forgotten leave the others as they were.
LEMMA CarriedSome ==
  ASSUME NEW S, S \subseteq feeds
  PROVE  Carried(S)
<1> DEFINE h == [f \in feeds |-> f]
<1>1. \A f \in feeds : h[f] = f
  OBVIOUS
<1> HIDE DEF h
<1>2. (\A f \in feeds : h[f].pane = f.pane /\ h[f].gen = f.gen) /\ \A g \in S : \E f \in feeds : g = h[f]
  BY <1>1
<1>3. QED
  BY <1>2 DEF Carried

\* Routes that end stay of their pane and generation.
LEMMA CarriedEnded ==
  ASSUME feeds \in SUBSET Feed, NEW gone
  PROVE  Carried({IF f \in gone THEN [f EXCEPT !.state = "ended"] ELSE f : f \in feeds})
<1> DEFINE h == [f \in feeds |-> IF f \in gone THEN [f EXCEPT !.state = "ended"] ELSE f]
           S == {IF f \in gone THEN [f EXCEPT !.state = "ended"] ELSE f : f \in feeds}
<1>1. \A f \in feeds : h[f] = IF f \in gone THEN [f EXCEPT !.state = "ended"] ELSE f
  OBVIOUS
<1>2. \A g \in S : \E f \in feeds : g = IF f \in gone THEN [f EXCEPT !.state = "ended"] ELSE f
  OBVIOUS
<1> HIDE DEF h, S
<1>k. \A f \in feeds : LET g == [f EXCEPT !.state = "ended"] IN g.pane = f.pane /\ g.gen = f.gen
  BY DEF Feed
<1>3. \A f \in feeds : h[f].pane = f.pane /\ h[f].gen = f.gen
  BY <1>1, <1>k
<1>4. \A g \in S : \E f \in feeds : g = h[f]
  BY <1>1, <1>2
<1>5. Carried(S)
  BY <1>3, <1>4 DEF Carried
<1>6. QED
  BY <1>5 DEF S

\* So do those a newer route for their session ends.
LEMMA CarriedUnrouted ==
  ASSUME feeds \in SUBSET Feed, NEW l, NEW id
  PROVE  Carried(Unrouted(l, id))
<1> DEFINE gone == {f \in feeds : Route(f, l, id)}
<1>1. Unrouted(l, id) = {IF f \in gone THEN [f EXCEPT !.state = "ended"] ELSE f : f \in feeds}
  BY DEF Unrouted
<1>2. QED
  BY <1>1, CarriedEnded

\* An attach brings one route, of its pane and no generation yet.
LEMMA AttachRoutes ==
  ASSUME Typed, NEW p \in Panes, NEW b, Attaches(p, b), bind[p].at \notin Attaching, bind'[p].at = "attaching"
  PROVE  FeedsGo
<1>0. feeds \in SUBSET Feed
  BY DEF Typed, NetTyped
<1>1. CASE feeds' = feeds
  BY <1>1, CarriedSome DEF FeedsGo
<1>2. CASE feeds' # feeds
  <2> DEFINE new == [pane |-> p, gen |-> 0, l |-> b.l, ses |-> b.ses, state |-> "pending", q |-> <<>>]
  <2>1. feeds' = Unrouted(b.l, b.ses) \cup {new}
    BY <1>2 DEF Attaches
  <2>2. new.pane = p /\ new.gen = 0
    OBVIOUS
  <2> HIDE DEF new
  <2>3. feeds' \ {new} \subseteq Unrouted(b.l, b.ses)
    BY <2>1
  <2>4. Carried(feeds' \ {new})
    BY <1>0, <2>3, CarriedUnrouted DEF Carried
  <2>5. QED
    BY <2>2, <2>4 DEF FeedsGo, Routed
<1>3. QED
  BY <1>1, <1>2

\* The reader feeds and ends routes, and makes none.
LEMMA ReadsCarries ==
  ASSUME Typed, NEW l, Reads(l)
  PROVE  Carried(feeds')
<1>0. feeds \in SUBSET Feed
  BY DEF Typed, NetTyped
<1> DEFINE frame == Head(links[l].wire)
<1>1. CASE ReadsData(l, frame)
  <2> DEFINE id == frame.ses
             n == frame.n
             h == [f \in feeds |-> IF Route(f, l, id) /\ f.state = "live" THEN [f EXCEPT !.q = Append(@,
                 n)] ELSE f]
  <2>1. \A f \in feeds : h[f] = IF Route(f, l, id) /\ f.state = "live" THEN [f EXCEPT !.q = Append(@,
      n)] ELSE f
    OBVIOUS
  <2>2. feeds' = {IF Route(f, l, id) /\ f.state = "live" THEN [f EXCEPT !.q = Append(@,
      n)] ELSE f : f \in feeds}
    BY <1>1 DEF ReadsData, Fed
  <2> HIDE DEF h, id, n
  <2>k. \A f \in feeds : LET g == [f EXCEPT !.q = Append(@, n)] IN g.pane = f.pane /\ g.gen = f.gen
    BY <1>0 DEF Feed
  <2>3. \A f \in feeds : h[f].pane = f.pane /\ h[f].gen = f.gen
    BY <2>1, <2>k
  <2>4. \A g \in feeds' : \E f \in feeds : g = h[f]
    BY <2>1, <2>2
  <2>5. QED
    BY <2>3, <2>4 DEF Carried
<1>2. CASE ReadsExit(l, frame)
  <2> DEFINE id == frame.ses
             h == [f \in feeds |-> IF Route(f, l, id) /\ f.state = "live"
                                   THEN [f EXCEPT !.q = Append(@, None), !.state = "ended"] ELSE f]
  <2>1. \A f \in feeds : h[f] = IF Route(f, l, id) /\ f.state = "live"
                                THEN [f EXCEPT !.q = Append(@, None), !.state = "ended"] ELSE f
    OBVIOUS
  <2>2. feeds' = {IF Route(f, l, id) /\ f.state = "live"
                  THEN [f EXCEPT !.q = Append(@, None), !.state = "ended"] ELSE f : f \in feeds}
    BY <1>2 DEF ReadsExit
  <2> HIDE DEF h, id
  <2>k. \A f \in feeds : LET g == [f EXCEPT !.q = Append(@, None),
      !.state = "ended"] IN g.pane = f.pane /\ g.gen = f.gen
    BY <1>0 DEF Feed
  <2>3. \A f \in feeds : h[f].pane = f.pane /\ h[f].gen = f.gen
    BY <2>1, <2>k
  <2>w. \A g \in feeds' : \E f \in feeds :
          g = IF Route(f, l, id) /\ f.state = "live"
              THEN [f EXCEPT !.q = Append(@, None), !.state = "ended"] ELSE f
    BY <2>2
  <2>4. \A g \in feeds' : \E f \in feeds : g = h[f]
    BY <2>1, <2>w
  <2>5. QED
    BY <2>3, <2>4 DEF Carried
<1>3. CASE ReadsAnswer(l, frame)
  <2> DEFINE s == IF frame.kind = "attached" THEN "live" ELSE "ended"
             other == {f \in feeds : ~(Route(f, l, frame.ses) /\ f.pane = frame.n /\ f.state = "pending")}
             h == [f \in feeds |-> IF f \in other THEN f ELSE [f EXCEPT !.state = s]]
  <2>1. \A f \in feeds : h[f] = IF f \in other THEN f ELSE [f EXCEPT !.state = s]
    OBVIOUS
  <2>2. feeds' = {IF f \in other THEN f ELSE [f EXCEPT !.state = s] : f \in feeds}
    BY <1>3 DEF ReadsAnswer
  <2> HIDE DEF h, s, other
  <2>k. \A f \in feeds : LET g == [f EXCEPT !.state = s] IN g.pane = f.pane /\ g.gen = f.gen
    BY <1>0 DEF Feed
  <2>3. \A f \in feeds : h[f].pane = f.pane /\ h[f].gen = f.gen
    BY <2>1, <2>k
  <2>4. \A g \in feeds' : \E f \in feeds : g = h[f]
    BY <2>1, <2>2
  <2>5. QED
    BY <2>3, <2>4 DEF Carried
<1>4. QED
  BY <1>1, <1>2, <1>3 DEF Reads

\* Every step does to the routes one of the three things that may be done to them.
LEMMA RoutesGo ==
  ASSUME Typed, PanesNext
  PROVE  FeedsGo
<1>0. feeds \in SUBSET Feed
  BY DEF Typed, NetTyped
<1>s. feeds' \subseteq feeds => FeedsGo
  BY CarriedSome DEF FeedsGo
<1>u. \A l, id : feeds' = Unrouted(l, id) => FeedsGo
  BY <1>0, CarriedUnrouted DEF FeedsGo
<1>1. ASSUME NEW t \in queue, BindStep(t) PROVE FeedsGo
  <2>1. CASE BindGoes(t)
    <3> DEFINE p == t.pane
    <3>0. p \in Panes /\ bind[p].at = "idle"
      BY <2>1 DEF BindGoes, Binds, TakesTurn, Typed, TasksTyped, BindTurn, HideTurn
    <3>1. \/ UNCHANGED feeds
          \/ \E b : Attaches(p, b) /\ bind'[p].at = "attaching"
      <4> DEFINE b == [Resting EXCEPT !.who = t.who, !.l = t.l, !.gen = pane[p].gen, !.from = pane[p].anchor,
                                      !.ses = pane[p].remote, !.closing = pane[p].closing]
      <4>1. [b EXCEPT !.at = "attaching"].at = "attaching"
        BY DEF Resting
      <4>2. UNCHANGED feeds \/ Attaches(p, b)
        BY <2>1 DEF BindGoes
      <4> HIDE DEF b
      <4>3. Attaches(p, b) => bind'[p].at = "attaching"
        BY <3>0, <4>1, TurnSteps
      <4>4. QED
        BY <4>2, <4>3
    <3>2. QED
      BY <1>s, <3>0, <3>1, AttachRoutes DEF Attaching
  <2>2. CASE DetachGoes(t)
    BY <1>s, <1>u, <2>2 DEF DetachGoes
  <2>3. QED
    BY <1>s, <1>1, <2>1, <2>2 DEF BindStep, BindMoot, BindFindsItGone
<1>2. ASSUME NEW p \in Panes, TurnStep(p) PROVE FeedsGo
  <2>1. ASSUME NEW mine, Commits(p, mine), bind[p].at \in {"found", "opened"} PROVE FeedsGo
    <3>1. UNCHANGED feeds \/ Attaches(p, bind[p])
      BY <2>1 DEF Commits
    <3>2. QED
      BY <1>s, <2>1, <3>1, AttachesAt, AttachRoutes DEF Attaching
  <2>2. QED
    BY <1>s, <1>2, <2>1 DEF TurnStep, GetsOpening, Found, Opened, Refused, FoundToClose, Closed
<1>3. ASSUME NEW p \in Panes, AnswerStep(p) PROVE FeedsGo
  <2>1. CASE Attached(p)
    <3> DEFINE gen == OwnGeneration(pane[p])
    <3>0. pane[p] \in PaneState
      BY DEF Typed, PanesTyped
    <3>1. gen \in Nat /\ gen = pane[p].gen + 1
      BY <3>0 DEF OwnGeneration, PaneState
    <3>2. pane'[p].gen = gen
      <4>1. PICK fresh \in BOOLEAN :
              SetPane(p, [pane[p] EXCEPT !.gen = gen, !.on = bind[p].l, !.anchor = bind[p].upto,
                                         !.seed = @ /\ ~pane[p].mine,
                                         !.input = IF pane[p].seed /\ pane[p].mine /\ fresh
                                                   THEN Append(@, gen) ELSE @])
        BY <2>1 DEF Attached
      <4> HIDE DEF gen
      <4>3. \E a, s, l, i : pane'[p] = [pane[p] EXCEPT !.gen = gen, !.on = l, !.anchor = a, !.seed = s,
          !.input = i]
        BY <4>1 DEF SetPane, Typed, PanesTyped
      <4>2. QED
        BY <3>0, <4>3 DEF PaneState
    <3>3. feeds' = {IF f.pane = p /\ f.gen = 0 THEN [f EXCEPT !.gen = gen] ELSE f : f \in feeds}
      BY <2>1 DEF Attached
    <3> HIDE DEF gen
    <3>4. QED
      BY <3>1, <3>2, <3>3 DEF FeedsGo, Given
  <2>2. QED
    BY <1>s, <1>3, <2>1 DEF AnswerStep, Gone, AttachSuperseded, CallFails, TypesLine, Unattached
<1>4. ASSUME NEW f \in feeds, PumpStep(f) PROVE FeedsGo
  <2>1. CASE Forwards(f)
    <3> DEFINE h == [g \in feeds |-> IF g = f THEN [f EXCEPT !.q = Tail(@)] ELSE g]
    <3>1. \A g \in feeds : h[g] = IF g = f THEN [f EXCEPT !.q = Tail(@)] ELSE g
      OBVIOUS
    <3>2. feeds' = (feeds \ {f}) \cup {[f EXCEPT !.q = Tail(@)]}
      BY <2>1 DEF Forwards, Drains
    <3> HIDE DEF h
    <3>k. [f EXCEPT !.q = Tail(@)].pane = f.pane /\ [f EXCEPT !.q = Tail(@)].gen = f.gen
      BY <1>0 DEF Feed
    <3>3. \A g \in feeds : h[g].pane = g.pane /\ h[g].gen = g.gen
      BY <3>1, <3>k
    <3>4. \A g \in feeds' : \E k \in feeds : g = h[k]
      BY <3>1, <3>2
    <3>5. QED
      BY <3>3, <3>4 DEF Carried, FeedsGo
  <2>2. QED
    BY <1>s, <1>4, <2>1 DEF PumpStep, PumpSuperseded, ForwardsExit, PumpEnds, Forgets
<1>5. ASSUME LinkStep PROVE FeedsGo
  <2>1. ASSUME NEW gone, Dies(gone) PROVE FeedsGo
    <3> DEFINE ended == {f \in feeds : f.l \in gone}
    <3>1. feeds' = {IF f \in ended THEN [f EXCEPT !.state = "ended"] ELSE f : f \in feeds}
      BY <2>1 DEF Dies
    <3>2. QED
      BY <1>0, <3>1, CarriedEnded DEF FeedsGo
  <2>2. QED
    BY <1>s, <1>5, <2>1 DEF LinkStep, Connects, LinkDies, LiveCleared, HostRestarts, StrayOpens
<1>6. \A l \in DOMAIN links : Reads(l) => FeedsGo
  BY ReadsCarries DEF FeedsGo
<1>7. ASSUME \/ WatchStep \/ TakesOver \/ OpenStep
             \/ \E p \in Panes : HostStep(p) \/ AskStep(p)
             \/ \E id \in DOMAIN host.ses : SessionStep(id)
      PROVE  UNCHANGED feeds
  BY <1>7 DEF WatchStep, TakesNews, Joins, AdoptionLocks, AdoptionFails, ListsAgain, ClosesExited,
      HostListsAll,
     ListingRefused, TakesOver, OpenStep, OpenAsked, Claims, Inserts, HostStep, HostLists, HostOpens,
         HostRefuses,
     HostAttaches, HostCloses, HostDetaches, AskStep, Shows, Hides, Closes, Seeds, Expires, SessionStep,
         HostOutputs,
     SessionEnds, HostReaps
<1>8. QED
  BY <1>s, <1>1, <1>2, <1>3, <1>4, <1>5, <1>6, <1>7, StepKinds

-----------------------------------------------------------------------------
\* What a step may do to a launch line: it is asked for once, queued once, and leaves the queue to be typed.
Mute(a, b) == b.input = a.input /\ (b.seed => a.seed)
Queues(a, b) == b.mine /\ \E g \in Nat : b.input = Append(a.input, g)
LaunchGoes(q) ==
  LET a == pane[q]
      b == pane'[q]
  IN
  \/ Mute(a, b)
  \/ /\ q \notin typed.askers /\ q \in typed'.askers /\ typed'.lines = typed.lines
     /\ b.input = a.input \/ (Queues(a, b) /\ b.seed = a.seed)
  \/ Queues(a, b) /\ a.seed /\ ~b.seed
  \/ a.input # <<>> /\ b.input = Tail(a.input) /\ b.seed = a.seed
LinesGo ==
  /\ typed.askers \subseteq typed'.askers
  /\ \/ typed'.lines = typed.lines
     \/ \E q \in Panes : /\ pane[q].input # <<>> /\ Live(q) /\ pane[q].remote \in Alive
                         /\ pane'[q].input = Tail(pane[q].input)
                         /\ typed'.lines = Append(typed.lines, <<q, Session(pane[q].remote).by>>)
LaunchesGo == LinesGo /\ \A q \in Panes : LaunchGoes(q)
SaysNothing == typed' = typed /\ \A q \in Panes : Mute(pane[q], pane'[q])
\* A link is to the boot of the session its pane has.
Attended == \A p \in Panes : pane[p].on # None => pane[p].remote # None /\ BootOf(pane[p].on) = pane[p].boot

\* State's methods but seed leave the launch line where it is.
LEMMA MuteShapes ==
  ASSUME NEW st \in PaneState
  PROVE  /\ Mute(st, st) /\ Mute(st, Lose(st)) /\ Mute(st, End(st)) /\ Mute(st, Over(st))
         /\ \A view \in BOOLEAN : Mute(st, Retarget(st, view))
         /\ \A a : \A view \in BOOLEAN : Mute(st, [Retarget(st, view) EXCEPT !.anchor = a])
         /\ Mute(st, [Retarget(st, FALSE) EXCEPT !.closing = TRUE])
         /\ Mute(st, Over([Retarget(st, FALSE) EXCEPT !.closing = TRUE]))
         /\ Mute(st, [st EXCEPT !.on = None])
         /\ \A a : Mute(st, [st EXCEPT !.anchor = a])
         /\ \A a : Mute(st, [st EXCEPT !.in = FALSE, !.ended = a])
         /\ \A id, boot, mine : \A s \in BOOLEAN :
              (s => st.seed) => Mute(st, [st EXCEPT !.remote = id, !.boot = boot, !.mine = mine, !.seed = s])
<1>1. Mute(st, st)
  BY DEF Mute
<1>2. Mute(st, Lose(st))
  BY DEF Mute, Lose, PaneState
<1>3. Mute(st, End(st)) /\ Mute(st, Over(st))
  BY DEF Mute, End, Over, PaneState
<1>4. \A view \in BOOLEAN : Mute(st, Retarget(st, view))
  BY DEF Mute, Retarget, PaneState
<1>5. \A a : \A view \in BOOLEAN : Mute(st, [Retarget(st, view) EXCEPT !.anchor = a])
  BY DEF Mute, Retarget, PaneState
<1>6. Mute(st, [Retarget(st, FALSE) EXCEPT !.closing = TRUE])
  BY DEF Mute, Retarget, PaneState
<1>7. Mute(st, Over([Retarget(st, FALSE) EXCEPT !.closing = TRUE]))
  BY DEF Mute, Retarget, Over, PaneState
<1>8. Mute(st, [st EXCEPT !.on = None])
  BY DEF Mute, PaneState
<1>9. \A a : Mute(st, [st EXCEPT !.anchor = a])
  BY DEF Mute, PaneState
<1>10. \A a : Mute(st, [st EXCEPT !.in = FALSE, !.ended = a])
  BY DEF Mute, PaneState
<1>11. ASSUME NEW id, NEW boot, NEW mine, NEW s \in BOOLEAN, s => st.seed
       PROVE  Mute(st, [st EXCEPT !.remote = id, !.boot = boot, !.mine = mine, !.seed = s])
  BY <1>11 DEF Mute, PaneState
<1>12. QED
  BY <1>1, <1>2, <1>3, <1>4, <1>5, <1>6, <1>7, <1>8, <1>9, <1>10, <1>11

\* A pane that changes and keeps its line says nothing.
LEMMA MutePane ==
  ASSUME Typed, NEW p \in Panes, NEW st, SetPane(p, st), Mute(pane[p], st), UNCHANGED typed
  PROVE  SaysNothing
<1>1. \A q \in Panes : pane'[q] = IF q = p THEN st ELSE pane[q]
  BY DEF SetPane, Typed, PanesTyped
<1>2. \A q \in Panes : Mute(pane[q], pane[q])
  BY DEF Mute
<1>3. QED
  BY <1>1, <1>2 DEF SaysNothing

\* Nor does a step that changes no pane.
LEMMA MuteAll ==
  ASSUME UNCHANGED <<pane, typed>>
  PROVE  SaysNothing
  BY DEF SaysNothing, Mute

\* A step that says nothing is one a launch line allows.
LEMMA NothingSaid ==
  ASSUME SaysNothing
  PROVE  LaunchesGo
  BY DEF SaysNothing, LaunchesGo, LinesGo, LaunchGoes

\* Most steps leave the launch lines alone.
LEMMA BindsMute ==
  ASSUME Typed, NEW t \in queue, BindStep(t)
  PROVE  SaysNothing
<1>0. t.pane \in Panes /\ pane[t.pane] \in PaneState
  BY DEF Typed, TasksTyped, PanesTyped, BindTurn, HideTurn
<1>1. CASE BindMoot(t) \/ DetachGoes(t)
  BY <1>1, MuteAll DEF BindMoot, DetachGoes, panesHistory
<1>2. CASE BindFindsItGone(t)
  <2>1. /\ UNCHANGED typed
        /\ \/ SetPane(t.pane, Over(pane[t.pane])) \/ SetPane(t.pane, Lose(pane[t.pane]))
           \/ SetPane(t.pane, End(pane[t.pane]))
    BY <1>2 DEF BindFindsItGone, panesHistory
  <2>2. QED
    BY <1>0, <2>1, MuteShapes, MutePane
<1>3. CASE BindGoes(t)
  <2>1. UNCHANGED typed /\ SetPane(t.pane, [pane[t.pane] EXCEPT !.on = None])
    BY <1>3 DEF BindGoes, panesHistory
  <2>2. QED
    BY <1>0, <2>1, MuteShapes, MutePane
<1>4. QED
  BY <1>1, <1>2, <1>3 DEF BindStep

\* A turn on its own way says nothing.
LEMMA TurnsMute ==
  ASSUME Typed, NEW p \in Panes, TurnStep(p)
  PROVE  SaysNothing
<1>0. pane[p] \in PaneState
  BY DEF Typed, PanesTyped
<1>t. UNCHANGED typed
  BY DEF TurnStep, GetsOpening, Found, Opened, Refused, FoundToClose, Closed, panesHistory
<1>c. ASSUME NEW mine \in BOOLEAN, Commits(p, mine) PROVE SaysNothing
  <2>1. CASE UNCHANGED pane
    BY <1>t, <2>1, MuteAll
  <2>2. CASE SetPane(p, [pane[p] EXCEPT !.remote = bind[p].ses, !.boot = BootOf(bind[p].l), !.mine = mine,
                                        !.seed = @ /\ mine])
    <3> DEFINE s == pane[p].seed /\ mine
    <3>1. SetPane(p, [pane[p] EXCEPT !.remote = bind[p].ses, !.boot = BootOf(bind[p].l), !.mine = mine,
                                     !.seed = s])
      BY <2>2
    <3>2. s \in BOOLEAN /\ (s => pane[p].seed)
      BY <1>0 DEF PaneState
    <3> HIDE DEF s
    <3>3. QED
      BY <1>0, <1>t, <3>1, <3>2, MuteShapes, MutePane
  <2>3. QED
    BY <1>c, <2>1, <2>2 DEF Commits
<1>1. CASE GetsOpening(p)
  BY <1>1, <1>t, MuteAll DEF GetsOpening
<1>2. CASE Found(p) \/ Opened(p)
  BY <1>2, <1>c, <1>t, MuteAll DEF Found, Opened
<1>3. CASE Refused(p)
  <2>1. \E a : SetPane(p, [pane[p] EXCEPT !.in = FALSE, !.ended = a])
    BY <1>3 DEF Refused
  <2>2. QED
    BY <1>0, <1>t, <2>1, MuteShapes, MutePane
<1>4. CASE FoundToClose(p) \/ Closed(p)
  <2>1. UNCHANGED pane \/ SetPane(p, Over(pane[p]))
    BY <1>4 DEF FoundToClose, Closed
  <2>2. QED
    BY <1>0, <1>t, <2>1, MuteAll, MuteShapes, MutePane
<1>5. QED
  BY <1>1, <1>2, <1>3, <1>4 DEF TurnStep

\* Nor does a pump.
LEMMA PumpsMute ==
  ASSUME Typed, NEW f \in feeds, PumpStep(f)
  PROVE  SaysNothing
<1>0. f.pane \in Panes /\ pane[f.pane] \in PaneState
  BY DEF Typed, PanesTyped, NetTyped, Feed
<1>t. UNCHANGED typed
  BY DEF PumpStep, PumpSuperseded, Forwards, ForwardsExit, PumpEnds, panesHistory
<1>1. \/ UNCHANGED pane \/ SetPane(f.pane, [pane[f.pane] EXCEPT !.anchor = @ + 1])
      \/ SetPane(f.pane, End(pane[f.pane])) \/ SetPane(f.pane, pane[f.pane])
      \/ SetPane(f.pane, [pane[f.pane] EXCEPT !.on = None])
  BY DEF PumpStep, PumpSuperseded, Forwards, ForwardsExit, PumpEnds, mind
<1>2. QED
  BY <1>0, <1>t, <1>1, MuteAll, MuteShapes, MutePane

\* Nor do a pane that was just made or claimed.
LEMMA MadeMute ==
  ASSUME Typed, Unmade, TakesOver \/ OpenStep
  PROVE  SaysNothing
<1>t. UNCHANGED typed
  BY DEF TakesOver, OpenStep, OpenAsked, Claims, Inserts, panesHistory
<1>u. \A p \in Panes : ~pane[p].born => pane[p].input = <<>> /\ ~pane[p].seed
  BY DEF Unmade, Unborn
<1>1. CASE OpenAsked
  BY <1>1, <1>t, MuteAll DEF OpenAsked
<1>2. CASE Claims
  <2>1. PICK p \in Unclaimed : SetPane(p, Retarget(pane[p], TRUE))
    BY <1>2 DEF Claims
  <2>2. p \in Panes /\ pane[p] \in PaneState
    BY DEF Unclaimed, Typed, PanesTyped
  <2>3. QED
    BY <1>t, <2>1, <2>2, MuteShapes, MutePane
<1>3. CASE Inserts
  <2> DEFINE p == Cardinality(Born) + 1
             st == [Unborn EXCEPT !.born = TRUE, !.in = TRUE, !.view = TRUE]
  <2>1. p \in Panes /\ SetPane(p, st)
    BY <1>3 DEF Inserts
  <2>2. st.input = <<>> /\ ~st.seed
    BY DEF Unborn
  <2>3. ~pane[p].born
    BY <2>1, Counted, BoundsAre
  <2> HIDE DEF p, st
  <2>4. Mute(pane[p], st)
    BY <1>u, <2>1, <2>2, <2>3 DEF Mute
  <2>5. QED
    BY <1>t, <2>1, <2>4, MutePane
<1>4. CASE TakesOver
  <2> DEFINE boot == BootOf(watch.task.l)
             new == watch.task.alive \ Held(boot, None)
             minted == Cardinality(Born) + 1 .. Cardinality(Born) + Cardinality(new)
  <2>n. Cardinality(new) \in Nat
    <3>1. IsFiniteSet(Ids)
      BY BoundsAre, FS_Interval DEF Ids
    <3>2. new \subseteq Ids
      BY DEF Typed, TasksTyped, TaskState
    <3>3. QED
      BY <3>1, <3>2, FS_Subset, FS_CardinalityType
  <2>1. minted \subseteq Panes
    BY <1>4 DEF TakesOver
  <2>2. PICK takes : pane' = [p \in Panes |-> IF p \in minted THEN Adopted(boot, takes[p]) ELSE pane[p]]
    BY <1>4 DEF TakesOver
  <2>3. \A p \in minted : ~pane[p].born
    <3>1. ASSUME NEW p \in minted PROVE ~pane[p].born
      <4>1. p > Cardinality(Born) /\ p \in Panes
        <5>1. \A a, b \in Nat : \A x \in a + 1 .. a + b : x > a
          OBVIOUS
        <5>2. Cardinality(Born) \in Nat
          BY Counted
        <5> HIDE DEF new
        <5>3. p > Cardinality(Born)
          BY <2>n, <5>1, <5>2
        <5>4. QED
          BY <2>1, <5>3
      <4>2. QED
        BY <4>1, Counted, BoundsAre DEF Panes
    <3>2. QED
      BY <3>1
  <2>4. \A id : Adopted(boot, id).input = <<>> /\ ~Adopted(boot, id).seed
    BY DEF Adopted, Unborn
  <2> HIDE DEF boot, new, minted
  <2>5. ASSUME NEW p \in Panes PROVE Mute(pane[p], pane'[p])
    <3>1. CASE p \in minted
      <4>1. pane'[p] = Adopted(boot, takes[p])
        BY <2>2, <3>1
      <4>2. QED
        BY <1>u, <2>3, <2>4, <3>1, <4>1 DEF Mute
    <3>2. CASE p \notin minted
      BY <2>2, <3>2 DEF Mute
    <3>3. QED
      BY <3>1, <3>2
  <2>6. QED
    BY <1>t, <2>5 DEF SaysNothing
<1>5. QED
  BY <1>1, <1>2, <1>3, <1>4 DEF OpenStep

\* The window asks once for each pane; one that is attached and opened its session queues the line.
LEMMA AsksSay ==
  ASSUME Typed, Attended, NEW p \in Panes, AskStep(p)
  PROVE  LaunchesGo
<1>0. pane[p] \in PaneState /\ typed \in [lines : Seq(Panes \X (0 .. MaxPanes)), askers : SUBSET Panes]
  BY DEF Typed, PanesTyped, HistoryTyped
<1>1. CASE Shows(p)
  <2>1. UNCHANGED typed /\ \E a : SetPane(p, [Retarget(pane[p], TRUE) EXCEPT !.anchor = a])
    BY <1>1 DEF Shows
  <2>2. QED
    BY <1>0, <2>1, MuteShapes, MutePane, NothingSaid
<1>2. CASE Hides(p)
  BY <1>0, <1>2, MuteShapes, MutePane, NothingSaid DEF Hides
<1>3. CASE Closes(p)
  <2> DEFINE st == [Retarget(pane[p], FALSE) EXCEPT !.closing = TRUE]
  <2>1. UNCHANGED typed /\ (SetPane(p, Over(st)) \/ SetPane(p, st))
    BY <1>3 DEF Closes
  <2>2. Mute(pane[p], st) /\ Mute(pane[p], Over(st))
    BY <1>0, MuteShapes
  <2> HIDE DEF st
  <2>3. QED
    BY <2>1, <2>2, MutePane, NothingSaid
<1>4. CASE Expires(p)
  BY <1>0, <1>4, MuteShapes, MutePane, NothingSaid DEF Expires
<1>5. CASE Seeds(p)
  <2>1. p \notin typed.askers /\ typed' = [typed EXCEPT !.askers = @ \cup {p}]
    BY <1>5 DEF Seeds
  <2>2. typed'.lines = typed.lines /\ typed'.askers = typed.askers \cup {p}
    BY <1>0, <2>1
  <2>3. PICK st : /\ SetPane(p, st)
                  /\ \/ st = pane[p]
                     \/ st = [pane[p] EXCEPT !.seed = TRUE]
                     \/ /\ ~FoundRunning(pane[p]) /\ Live(p)
                        /\ st = [pane[p] EXCEPT !.input = Append(@, pane[p].gen)]
    BY <1>5 DEF Seeds
  <2>4. \A q \in Panes : pane'[q] = IF q = p THEN st ELSE pane[q]
    BY <2>3 DEF SetPane, Typed, PanesTyped
  <2>5. st.input = pane[p].input \/ (Queues(pane[p], st) /\ st.seed = pane[p].seed)
    <3>1. CASE st = pane[p]
      BY <3>1
    <3>2. CASE st = [pane[p] EXCEPT !.seed = TRUE]
      BY <1>0, <3>2 DEF PaneState
    <3>3. CASE /\ ~FoundRunning(pane[p]) /\ Live(p)
               /\ st = [pane[p] EXCEPT !.input = Append(@, pane[p].gen)]
      <4>1. pane[p].mine
        BY <3>3 DEF FoundRunning, Live, Up, Attended
      <4>2. \A i : LET b == [pane[p] EXCEPT !.input = i]
                   IN b.input = i /\ b.seed = pane[p].seed /\ b.mine = pane[p].mine
        BY <1>0 DEF PaneState
      <4>3. pane[p].gen \in Nat
        BY <1>0 DEF PaneState
      <4>4. QED
        BY <3>3, <4>1, <4>2, <4>3 DEF Queues
    <3>4. QED
      BY <2>3, <3>1, <3>2, <3>3
  <2>6. \A q \in Panes : LaunchGoes(q)
    <3>1. ASSUME NEW q \in Panes, q # p PROVE LaunchGoes(q)
      BY <2>4, <3>1 DEF LaunchGoes, Mute
    <3>2. LaunchGoes(p)
      BY <2>1, <2>2, <2>4, <2>5 DEF LaunchGoes
    <3>3. QED
      BY <3>1, <3>2
  <2>7. QED
    BY <2>2, <2>6 DEF LaunchesGo, LinesGo
<1>6. QED
  BY <1>1, <1>2, <1>3, <1>4, <1>5 DEF AskStep

\* An attach queues the line that waited for it, and the writer takes it.
LEMMA AnswersSay ==
  ASSUME Typed, NEW p \in Panes, AnswerStep(p)
  PROVE  LaunchesGo
<1>0. pane[p] \in PaneState /\ typed \in [lines : Seq(Panes \X (0 .. MaxPanes)), askers : SUBSET Panes]
  BY DEF Typed, PanesTyped, HistoryTyped
<1>1. CASE Gone(p)
  <2>1. UNCHANGED typed /\ (SetPane(p, Lose(pane[p])) \/ SetPane(p, End(pane[p])))
    BY <1>1 DEF Gone, panesHistory
  <2>2. QED
    BY <1>0, <2>1, MuteShapes, MutePane, NothingSaid
<1>2. CASE AttachSuperseded(p) \/ CallFails(p)
  BY <1>2, MuteAll, NothingSaid DEF AttachSuperseded, CallFails, panesHistory
<1>3. CASE Attached(p)
  <2> DEFINE gen == OwnGeneration(pane[p])
  <2>1. PICK fresh \in BOOLEAN :
          SetPane(p, [pane[p] EXCEPT !.gen = gen, !.on = bind[p].l, !.anchor = bind[p].upto,
                                     !.seed = @ /\ ~pane[p].mine,
                                     !.input = IF pane[p].seed /\ pane[p].mine /\ fresh
                                               THEN Append(@, gen) ELSE @])
    BY <1>3 DEF Attached
  <2>2. UNCHANGED typed
    BY <1>3 DEF Attached
  <2> DEFINE s == pane[p].seed /\ ~pane[p].mine
             i == IF pane[p].seed /\ pane[p].mine /\ fresh THEN Append(pane[p].input, gen) ELSE pane[p].input
             st == [pane[p] EXCEPT !.gen = gen, !.on = bind[p].l, !.anchor = bind[p].upto, !.seed = s,
                 !.input = i]
  <2>3. SetPane(p, st)
    BY <2>1
  <2>4. gen \in Nat
    BY <1>0 DEF OwnGeneration, PaneState
  <2>5. st.input = i /\ st.seed = s /\ st.mine = pane[p].mine
    <3> HIDE DEF i, s, gen
    <3>1. QED
      BY <1>0 DEF PaneState
  <2>6. Mute(pane[p], st) \/ (Queues(pane[p], st) /\ pane[p].seed /\ ~st.seed)
    <3>1. CASE pane[p].seed /\ pane[p].mine /\ fresh
      <4>1. i = Append(pane[p].input, gen) /\ s = FALSE
        BY <3>1
      <4> HIDE DEF i, s, gen, st
      <4>2. QED
        BY <3>1, <4>1, <2>4, <2>5 DEF Queues
    <3>2. CASE ~(pane[p].seed /\ pane[p].mine /\ fresh)
      <4>1. i = pane[p].input /\ (s => pane[p].seed)
        BY <3>2
      <4> HIDE DEF i, s, gen, st
      <4>2. QED
        BY <4>1, <2>5 DEF Mute
    <3>3. QED
      BY <3>1, <3>2
  <2> HIDE DEF st
  <2>7. \A q \in Panes : pane'[q] = IF q = p THEN st ELSE pane[q]
    BY <2>3 DEF SetPane, Typed, PanesTyped
  <2>8. ASSUME NEW q \in Panes PROVE LaunchGoes(q)
    <3>1. CASE q = p
      BY <2>6, <2>7, <3>1 DEF LaunchGoes
    <3>2. CASE q # p
      BY <2>7, <3>2 DEF LaunchGoes, Mute
    <3>3. QED
      BY <3>1, <3>2
  <2>9. QED
    BY <2>2, <2>8 DEF LaunchesGo, LinesGo
<1>4. CASE TypesLine(p)
  <2>1. pane[p].input # <<>> /\ SetPane(p, [pane[p] EXCEPT !.input = Tail(@)])
    BY <1>4 DEF TypesLine
  <2>2. \A q \in Panes : pane'[q] = IF q = p THEN [pane[p] EXCEPT !.input = Tail(@)] ELSE pane[q]
    BY <2>1 DEF SetPane, Typed, PanesTyped
  <2>3. \A x : LET b == [pane[p] EXCEPT !.input = x] IN b.input = x /\ b.seed = pane[p].seed
    BY <1>0 DEF PaneState
  <2>4. pane'[p].input = Tail(pane[p].input) /\ pane'[p].seed = pane[p].seed
    BY <2>2, <2>3
  <2>5. ASSUME NEW q \in Panes PROVE LaunchGoes(q)
    <3>1. CASE q = p
      BY <2>1, <2>4, <3>1 DEF LaunchGoes
    <3>2. CASE q # p
      BY <2>2, <3>2 DEF LaunchGoes, Mute
    <3>3. QED
      BY <3>1, <3>2
  <2>6. \/ UNCHANGED typed
        \/ /\ Live(p) /\ pane[p].remote \in Alive
           /\ typed' = [typed EXCEPT !.lines = Append(@, <<p, Session(pane[p].remote).by>>)]
    BY <1>4 DEF TypesLine
  <2>7. LinesGo
    <3>1. CASE UNCHANGED typed
      BY <3>1 DEF LinesGo
    <3>2. CASE /\ Live(p) /\ pane[p].remote \in Alive
               /\ typed' = [typed EXCEPT !.lines = Append(@, <<p, Session(pane[p].remote).by>>)]
      <4>1. /\ typed'.askers = typed.askers
            /\ typed'.lines = Append(typed.lines, <<p, Session(pane[p].remote).by>>)
        BY <1>0, <3>2
      <4>2. QED
        BY <2>1, <2>4, <3>2, <4>1 DEF LinesGo
    <3>3. QED
      BY <2>6, <3>1, <3>2
  <2>8. QED
    BY <2>5, <2>7 DEF LaunchesGo
<1>5. QED
  BY <1>1, <1>2, <1>3, <1>4 DEF AnswerStep

\* Every step does to the launch lines what may be done to them.
LEMMA LaunchesStep ==
  ASSUME Typed, Unmade, Attended, PanesNext
  PROVE  LaunchesGo
<1>1. ASSUME \/ WatchStep \/ LinkStep
             \/ \E p \in Panes : HostStep(p)
             \/ \E id \in DOMAIN host.ses : SessionStep(id)
             \/ \E l \in DOMAIN links : Reads(l)
      PROVE  UNCHANGED <<pane, typed>>
  BY <1>1 DEF WatchStep, TakesNews, Joins, AdoptionLocks, AdoptionFails, ListsAgain, ClosesExited,
      HostListsAll,
     ListingRefused, HostStep, HostLists, HostOpens, HostRefuses, HostAttaches, HostCloses, HostDetaches,
         LinkStep,
     Connects, LinkDies, LiveCleared, HostRestarts, StrayOpens, SessionStep, HostOutputs, SessionEnds,
         HostReaps,
     Reads, mind, panesHistory
<1>2. QED
  BY <1>1, StepKinds, MuteAll, NothingSaid, BindsMute, TurnsMute, PumpsMute, MadeMute, AsksSay, AnswersSay

-----------------------------------------------------------------------------
\* The invariant.

\* Links reached boots that were, and those that are up the one that is.
Reached == \A l \in 1 .. Len(links) : BootOf(l) \in 1 .. host.boot /\ (Up(l) => BootOf(l) = host.boot)
\* A turn is about the session its pane has, on that session's boot; who looks for one has none.
Placed ==
  \A p \in Panes :
    LET b == bind[p]
        st == pane[p]
    IN
    /\ b.at \in Seeking => st.remote = None
    /\ b.at \in Attaching => st.remote # None /\ b.ses = st.remote /\ st.boot = BootOf(b.l)
    /\ b.at \in {"closing", "detaching"} /\ st.remote # None => st.boot = BootOf(b.l)
\* Who finds or opens a session on a host that adopts holds the lock, and so does the adoption.
HolderAts == {"finding", "found", "opening", "opened", "refused", "closing", "closed"}
Guarded ==
  /\ \A p \in Panes :
       /\ bind[p].at \in {"locking", "opening", "opened", "refused"} => ~bind[p].closing
       /\ opening = p => bind[p].at \in HolderAts /\ ~bind[p].closing
       /\ Adopts /\ ~bind[p].closing /\ bind[p].at \in {"finding", "found", "opening", "opened"}
            => opening = p
  /\ watch.task.at \in Listing => opening = Adoption
\* A session of a boot exists, or the boot is over; the pane that opened it.
InBoot(boot, id) == boot \in 1 .. host.boot /\ (boot = host.boot => id \in 1 .. Len(host.ses))
OpenedBy(boot, id, p) == boot = host.boot => host.ses[id].by = p
Hosted ==
  /\ \A p \in Panes :
       LET b == bind[p]
           st == pane[p]
       IN
       /\ st.remote # None => InBoot(st.boot, st.remote)
       /\ st.mine => st.remote # None /\ OpenedBy(st.boot, st.remote, p)
       /\ b.at \in {"found", "opened"} /\ b.ses # None => InBoot(BootOf(b.l), b.ses)
       /\ b.at = "opened" => b.ses # None /\ OpenedBy(BootOf(b.l), b.ses, p)
  /\ watch.task.at = "listed" => \A id \in watch.task.alive : InBoot(BootOf(watch.task.l), id)
\* What is found or opened for a pane is held by no other.
Holds(q, boot) == pane[q].in /\ pane[q].boot = boot /\ pane[q].remote # None
Fresh ==
  \A p \in Panes :
    LET b == bind[p] IN
    /\ b.at = "found" /\ b.ses # None => b.ses \notin b.taken
    /\ Adopts /\ ~b.closing /\ b.at \in {"finding", "found"} =>
         \A q \in Panes : q # p /\ Holds(q, BootOf(b.l)) => pane[q].remote \in b.taken
    /\ Adopts /\ b.at = "opened" => \A q \in Panes : q # p /\ Holds(q, BootOf(b.l)) => pane[q].remote # b.ses
\* Routes and pumps are told apart by pane and generation; a route has none while its attach is under way.
Keyed ==
  /\ \A f, g \in feeds : f.pane = g.pane /\ f.gen = g.gen => f = g
  /\ \A f \in feeds : f.gen <= pane[f.pane].gen /\ (f.gen = 0 => bind[f.pane].at \in Attaching)
\* A launch line waits in one place until it is typed.
Lined(p) == \E i \in 1 .. Len(typed.lines) : typed.lines[i][1] = p
Asked ==
  \A p \in Panes :
    LET st == pane[p] IN
    /\ st.input # <<>> => st.mine /\ ~st.seed /\ Len(st.input) = 1 /\ p \in typed.askers /\ ~Lined(p)
    /\ st.seed => p \in typed.askers /\ ~Lined(p)
    /\ Lined(p) => p \in typed.askers

-----------------------------------------------------------------------------
\* Each of its parts stays.
LEMMA TakesFields ==
  ASSUME Typed, NEW p \in Panes, Takes(p)
  PROVE  LET a == bind[p]
             b == bind'[p]
             s == pane[p]
             t == pane'[p]
         IN
         /\ a.at \in {"found", "opened"} /\ (a.at = "found" => ~a.closing /\ a.ses # None)
         /\ b.at = "attaching" /\ b.l = a.l /\ b.ses = a.ses /\ b.closing = a.closing /\ b.taken = a.taken
         /\ t.remote = a.ses /\ t.boot = BootOf(a.l) /\ (t.mine <=> a.at = "opened")
         /\ t.born = s.born /\ t.in = s.in /\ t.gen = s.gen /\ t.on = s.on
         /\ host' = host /\ opening' = (IF opening = p THEN None ELSE opening)
<1>0. bind[p] \in Turn /\ pane[p] \in PaneState
  BY DEF Typed, PanesTyped
<1>1. bind'[p] = [bind[p] EXCEPT !.at = "attaching"] /\ bind[p].at \in {"found", "opened"}
      /\ (bind[p].at = "found" => ~bind[p].closing /\ bind[p].ses # None)
      /\ host' = host /\ opening' = (IF opening = p THEN None ELSE opening)
  BY DEF Takes
<1>2. LET a == bind[p]
          b == bind'[p]
      IN b.at = "attaching" /\ b.l = a.l /\ b.ses = a.ses /\ b.closing = a.closing /\ b.taken = a.taken
  BY <1>0, <1>1 DEF Turn
<1>3. LET s == pane[p]
          t == pane'[p]
      IN /\ t.remote = bind[p].ses /\ t.boot = BootOf(bind[p].l) /\ t.mine = (bind[p].at = "opened")
         /\ t.born = s.born /\ t.in = s.in /\ t.gen = s.gen /\ t.on = s.on
  <2> DEFINE s == pane[p].seed /\ bind[p].at = "opened"
             id == bind[p].ses
             boot == BootOf(bind[p].l)
             mine == bind[p].at = "opened"
  <2>1. pane'[p] = [pane[p] EXCEPT !.remote = id, !.boot = boot, !.mine = mine, !.seed = s]
    BY DEF Takes
  <2> HIDE DEF s, id, boot, mine
  <2>2. LET t == pane'[p]
        IN /\ t.remote = id /\ t.boot = boot /\ t.mine = mine
           /\ t.born = pane[p].born /\ t.in = pane[p].in /\ t.gen = pane[p].gen /\ t.on = pane[p].on
    BY <2>1, <1>0 DEF PaneState
  <2>3. QED
    BY <2>2 DEF id, boot, mine
<1>4. QED
  BY <1>1, <1>2, <1>3

\* A pane that is made is attached to nothing; one that has a session has a listed one nobody held.
LEMMA MadeFields ==
  ASSUME Unmade, NEW p \in Panes, Made(p)
  PROVE  LET t == pane'[p] IN
         /\ ~pane[p].born /\ bind'[p] = bind[p] /\ bind[p].at = "idle"
         /\ t.born /\ ~t.mine /\ t.on = None /\ t.gen = 0
         /\ \/ t.remote = None
            \/ /\ watch.task.at = "listed" /\ t.boot = BootOf(watch.task.l) /\ t.remote \in watch.task.alive
               /\ t.remote \notin Held(t.boot, None)
<1>1. ~pane[p].born /\ bind'[p] = bind[p] /\ bind[p].at = "idle"
  BY DEF Made, Unmade, Resting
<1>2. CASE pane'[p] = [Unborn EXCEPT !.born = TRUE, !.in = TRUE, !.view = TRUE]
  BY <1>1, <1>2 DEF Unborn
<1>3. CASE /\ watch.task.at = "listed"
           /\ \E id \in watch.task.alive \ Held(BootOf(watch.task.l), None) :
                pane'[p] = Adopted(BootOf(watch.task.l), id)
  <2>1. PICK id \in watch.task.alive \ Held(BootOf(watch.task.l), None) :
                pane'[p] = Adopted(BootOf(watch.task.l), id)
    BY <1>3
  <2>2. \A boot, x : LET t == Adopted(boot, x) IN
          t.born /\ ~t.mine /\ t.on = None /\ t.gen = 0 /\ t.boot = boot /\ t.remote = x
    BY DEF Adopted, Unborn
  <2>3. QED
    BY <1>1, <1>3, <2>1, <2>2
<1>4. QED
  BY <1>2, <1>3 DEF Made

\* How a turn goes on, link, session and sort of it kept.
LEMMA OnAts ==
  ASSUME NEW p \in Panes, GoesOn(p)
  PROVE  LET a == bind[p]
             b == bind'[p]
         IN
         /\ pane'[p] = pane[p] /\ b.l = a.l /\ b.closing = a.closing /\ b.taken = a.taken
         /\ \/ /\ a.at = "finding" /\ b.at = "found" /\ Up(a.l) /\ host' = host
               /\ b.ses \in {None} \cup (Alive \ a.taken)
            \/ /\ a.at = "opening" /\ b.at = "opened" /\ Up(a.l) /\ host'.boot = host.boot
               /\ b.ses = Len(host.ses) + 1 /\ Len(host'.ses) = b.ses /\ host'.ses[b.ses].by = p
            \/ /\ b.ses = a.ses
               /\ \/ a.at = "found" /\ b.at = "opening" /\ ~a.closing
                  \/ a.at = "found" /\ b.at = "closing" /\ a.closing
                  \/ a.at = "opened" /\ b.at = "closing"
                  \/ a.at = "opening" /\ b.at = "refused"
                  \/ a.at = "closing" /\ b.at = "closed"
                  \/ a.at = "attaching" /\ b.at = "answering"
                  \/ a.at = "answering" /\ b.at \in {"attached", "gone"}
<1>1. <<bind[p].at, bind'[p].at>> \in Steps =>
        \/ bind[p].at = "found" /\ bind'[p].at \in {"opening", "closing"}
        \/ bind[p].at = "opened" /\ bind'[p].at = "closing"
        \/ bind[p].at = "opening" /\ bind'[p].at = "refused"
        \/ bind[p].at = "closing" /\ bind'[p].at = "closed"
        \/ bind[p].at = "attaching" /\ bind'[p].at = "answering"
        \/ bind[p].at = "answering" /\ bind'[p].at \in {"attached", "gone"}
  BY DEF Steps
<1>2. QED
  BY <1>1 DEF GoesOn

\* Neither a turn that rests nor the adoption is some pane's.
LEMMA RestingAt ==
  Resting.at = "idle" /\ None \notin Panes /\ Adoption \notin Panes /\ Adoption # None /\ None = 0
  BY BoundsAre DEF Resting, None, Panes, Adoption

\* Every step names links that exist.
LEMMA NamedStep ==
  ASSUME Typed, Named, Unmade, PanesGo, QueueGoes, Lists, LinksGo, NetNamed', Typed'
  PROVE  Named'
<1>0. /\ Len(links) \in Nat /\ Len(links') \in Nat /\ Len(links') >= Len(links)
      /\ \A n \in 0 .. Len(links) : n \in 0 .. Len(links')
      /\ \A n \in 1 .. Len(links) : n \in 1 .. Len(links')
  <2>1. Len(links) \in Nat /\ Len(links') \in Nat /\ Len(links') >= Len(links)
    BY DEF Typed, NetTyped, LinksGo
  <2>2. QED
    BY <2>1
<1>1. ASSUME NEW p \in Panes
      PROVE  (bind'[p].at # "idle" => bind'[p].l \in 1 .. Len(links)) /\ pane'[p].on \in 0 .. Len(links)
  <2>0. /\ bind[p].at # "idle" => bind[p].l \in 1 .. Len(links)
        /\ pane[p].on \in 0 .. Len(links) /\ 0 \in 0 .. Len(links)
    BY <1>0 DEF Named
  <2>1. CASE Quiet(p) /\ bind'[p] = bind[p]
    BY <2>0, <2>1 DEF Quiet, Still, None
  <2>2. CASE Ends(p)
    BY <2>0, <2>2, RestingAt DEF Ends, Quiet, Still, None
  <2>3. CASE Begins(p)
    BY <2>0, <2>3 DEF Begins, Quiet, Still, None
  <2>4. CASE Locks(p)
    BY <2>0, <2>4 DEF Locks
  <2>5. CASE GoesOn(p)
    BY <2>0, <2>5, OnAts
  <2>6. CASE Takes(p)
    BY <2>0, <2>6, TakesFields
  <2>7. CASE Joined(p)
    <3>1. bind[p].l \in 0 .. Len(links)
      BY <1>0, <2>0, <2>7 DEF Joined
    <3>2. QED
      BY <2>7, <3>1, RestingAt DEF Joined
  <2>8. CASE Made(p)
    BY <2>0, <2>8, MadeFields DEF None
  <2>9. QED
    BY <2>1, <2>2, <2>3, <2>4, <2>5, <2>6, <2>7, <2>8 DEF PanesGo, PaneGoes
<1>2. watch'.task.at # "idle" => watch'.task.l \in 1 .. Len(links)
  BY DEF Lists
<1>3. \A t \in queue' : t.who # "hide" => t.l \in 1 .. Len(links)
  BY DEF Named, QueueGoes
<1>4. QED
  BY <1>0, <1>1, <1>2, <1>3 DEF Named, NetNamed

\* Panes that were not made are untouched, and those that were stay so.
LEMMA UnmadeStep ==
  ASSUME Typed, Unmade, PanesGo, QueueGoes
  PROVE  Unmade' /\ \A p \in Panes : pane[p].born => pane'[p].born
<1>1. ASSUME NEW p \in Panes
      PROVE  /\ pane[p].born => pane'[p].born
             /\ ~pane'[p].born => pane'[p] = Unborn /\ bind'[p] = Resting
  <2>0. ~pane[p].born => pane[p] = Unborn /\ bind[p] = Resting
    BY DEF Unmade
  <2>1. CASE Quiet(p) /\ bind'[p] = bind[p]
    BY <2>0, <2>1 DEF Quiet, Still, Same
  <2>2. CASE Ends(p)
    BY <2>0, <2>2 DEF Ends, Quiet, Still, Same
  <2>3. CASE Begins(p)
    BY <2>0, <2>3 DEF Begins, Quiet, Still, Same
  <2>4. CASE Locks(p)
    BY <2>0, <2>4, RestingAt DEF Locks
  <2>5. CASE GoesOn(p)
    BY <2>0, <2>5, OnAts, RestingAt
  <2>6. CASE Takes(p)
    BY <2>0, <2>6, TakesFields, RestingAt
  <2>7. CASE Joined(p)
    BY <2>0, <2>7 DEF Joined, Same
  <2>8. CASE Made(p)
    BY <2>0, <2>8, MadeFields
  <2>9. QED
    BY <2>1, <2>2, <2>3, <2>4, <2>5, <2>6, <2>7, <2>8 DEF PanesGo, PaneGoes
<1>2. \A t \in queue' : pane'[t.pane].born
  <2>1. \A t \in queue : t.pane \in Panes
    BY DEF Typed, TasksTyped, BindTurn, HideTurn
  <2>2. QED
    BY <1>1, <2>1 DEF Unmade, QueueGoes
<1>3. \E n \in 0 .. MaxPanes : Born' = 1 .. n
  <2>1. CASE \A q \in Panes : pane'[q].born = pane[q].born
    <3>1. Born' = Born
      BY <2>1 DEF Born
    <3>2. QED
      BY <3>1 DEF Unmade
  <2>2. QED
    BY <2>1 DEF PanesGo, PanesMade
<1>4. QED
  BY <1>1, <1>2, <1>3 DEF Unmade

\* A link that is up is to the boot the host is at.
LEMMA ReachedStep ==
  ASSUME Typed, Reached, LinksGo, HostGoes, Typed'
  PROVE  Reached'
<1>0. /\ host.boot \in Nat \ {0} /\ host'.boot \in Nat \ {0} /\ host'.boot >= host.boot
      /\ Len(links) \in Nat /\ Len(links') \in Nat /\ None = 0
  BY DEF Typed, HostTyped, HostState, NetTyped, HostGoes, None
<1>1. ASSUME NEW l \in 1 .. Len(links)
      PROVE  links'[l].boot \in 1 .. host'.boot /\ (links'[l].up => links'[l].boot = host'.boot)
  BY <1>0 DEF Reached, LinksGo, BootOf, Up
<1>2. ASSUME NEW l \in Len(links) + 1 .. Len(links')
      PROVE  links'[l].boot \in 1 .. host'.boot /\ links'[l].boot = host'.boot
  BY <1>0 DEF LinksGo
<1>3. \A l \in 1 .. Len(links') : l \in 1 .. Len(links) \/ l \in Len(links) + 1 .. Len(links')
  BY <1>0
<1>4. QED
  BY <1>1, <1>2, <1>3 DEF Reached, BootOf, Up

\* A pane takes a session, is made, or goes on with what it has.
LEMMA KeepsOr ==
  ASSUME Typed, NEW p \in Panes, PaneGoes(p)
  PROVE  Takes(p) \/ Made(p) \/ Same(pane[p], pane'[p])
<1>1. Same(pane[p], pane[p])
  BY SameShapes DEF Typed, PanesTyped, Still
<1>2. QED
  BY <1>1 DEF PaneGoes, Quiet, Still, Ends, Begins, Locks, GoesOn, Joined

\* A turn, and the link a pane is attached to, stay with the boot of the pane's session.
LEMMA PlacedStep ==
  ASSUME Typed, Named, Unmade, Placed, Attended, Hosted, PanesGo, LinksGo
  PROVE  Placed' /\ Attended'
<1>b. \A l \in 1 .. Len(links) : links'[l].boot = BootOf(l)
  BY DEF LinksGo, BootOf
<1>1. ASSUME NEW p \in Panes
      PROVE  LET b == bind'[p]
                 st == pane'[p]
             IN
             /\ b.at \in Seeking => st.remote = None
             /\ b.at \in Attaching => st.remote # None /\ b.ses = st.remote /\ st.boot = links'[b.l].boot
             /\ b.at \in {"closing", "detaching"} /\ st.remote # None => st.boot = links'[b.l].boot
             /\ st.on # None => st.remote # None /\ links'[st.on].boot = st.boot
  <2>0. /\ bind[p].at # "idle" => bind[p].l \in 1 .. Len(links) /\ links'[bind[p].l].boot = BootOf(bind[p].l)
        /\ pane[p].on # None => pane[p].on \in 1 .. Len(links) /\ links'[pane[p].on].boot = BootOf(pane[p].on)
    BY <1>b DEF Named, None
  <2>1. CASE Quiet(p) /\ bind'[p] = bind[p]
    <3>1. bind[p].at \in Seeking \cup Attaching \cup {"closing", "detaching"} => bind[p].at # "idle"
      BY DEF Seeking, Attaching
    <3>2. QED
      BY <2>0, <2>1, <3>1 DEF Quiet, Still, Same, Placed, Attended
  <2>2. CASE Ends(p)
    BY <2>0, <2>2, RestingAt DEF Ends, Quiet, Still, Same, Attended, Seeking, Attaching
  <2>3. CASE Begins(p)
    BY <1>b, <2>0, <2>3 DEF Begins, Quiet, Still, Same, Attended, Seeking, Attaching
  <2>4. CASE Locks(p)
    BY <2>0, <2>4 DEF Locks, Placed, Attended, Seeking, Attaching
  <2>5. CASE GoesOn(p)
    BY <2>0, <2>5, OnAts DEF Placed, Attended, Seeking, Attaching
  <2>6. CASE Takes(p)
    <3>1. bind[p].ses # None
      BY <2>6, TakesFields DEF Hosted
    <3>2. pane[p].remote = None
      BY <2>6, TakesFields DEF Placed, Seeking
    <3>3. QED
      BY <2>0, <2>6, <3>1, <3>2, TakesFields DEF Attended, Seeking, Attaching
  <2>7. CASE Joined(p)
    BY <2>0, <2>7, RestingAt DEF Joined, Same, Placed, Seeking, Attaching
  <2>8. CASE Made(p)
    BY <2>8, MadeFields DEF Seeking, Attaching
  <2>9. QED
    BY <2>1, <2>2, <2>3, <2>4, <2>5, <2>6, <2>7, <2>8 DEF PanesGo, PaneGoes
<1>2. QED
  BY <1>1 DEF Placed, Attended, BootOf

\* Who waits to detach still names the pane's session: it is not replaced while the pane is there.
LEMMA WaitsStep ==
  ASSUME Typed, Unmade, Waits, Placed, PanesGo, QueueGoes
  PROVE  Waits'
<1>1. ASSUME NEW p \in Panes, pane[p].born, pane[p].remote # None
      PROVE  pane'[p].remote = pane[p].remote /\ pane'[p].boot = pane[p].boot
  <2>1. ~Takes(p)
    BY <1>1, TakesFields DEF Placed, Seeking
  <2>2. ~Made(p)
    BY <1>1, MadeFields
  <2>3. QED
    BY <2>1, <2>2, KeepsOr DEF PanesGo, Same
<1>2. ASSUME NEW t \in queue', t.who = "hide"
      PROVE  t.ses # None /\ t.ses = pane'[t.pane].remote /\ t.boot = pane'[t.pane].boot
  <2>1. CASE t \in queue
    <3>1. t.pane \in Panes /\ pane[t.pane].born
      BY <2>1 DEF Typed, TasksTyped, BindTurn, HideTurn, Unmade
    <3>2. QED
      BY <1>1, <1>2, <2>1, <3>1 DEF Waits
  <2>2. CASE t \notin queue
    BY <1>2, <2>2 DEF QueueGoes
  <2>3. QED
    BY <2>1, <2>2
<1>3. QED
  BY <1>2 DEF Waits

\* Who finds or opens holds `opening`, through its turn and through the adoption.
LEMMA GuardedStep ==
  ASSUME Typed, Unmade, Guarded, PanesGo, LockGoes, Adopts' = Adopts
  PROVE  Guarded'
<1> DEFINE Opens == {"finding", "found", "opening", "opened"}
<1>1. watch'.task.at \in Listing => opening' = Adoption
  BY RestingAt DEF LockGoes, Guarded
<1>2. ASSUME NEW p \in Panes
      PROVE  /\ bind'[p].at \in {"locking", "opening", "opened", "refused"} => ~bind'[p].closing
             /\ bind'[p].at \in Opens /\ ~bind'[p].closing /\ Adopts =>
                  \/ opening' = p
                  \/ /\ bind[p].at \in Opens /\ ~bind[p].closing
                      /\ bind'[p].at # "idle" /\ bind'[p].at # "attaching"
                     /\ opening = p
             /\ opening = p /\ opening' = p => bind'[p].at \in HolderAts /\ ~bind'[p].closing
             /\ bind[p].at = "locking" => ~bind[p].closing
  <2>0. /\ bind[p].at \in {"locking", "opening", "opened", "refused"} => ~bind[p].closing
        /\ opening = p => bind[p].at \in HolderAts /\ ~bind[p].closing
        /\ Adopts /\ ~bind[p].closing /\ bind[p].at \in Opens => opening = p
    BY DEF Guarded
  <2>1. CASE Quiet(p) /\ bind'[p] = bind[p]
    BY <2>0, <2>1
  <2>2. CASE Ends(p)
    <3>1. opening = p => opening' = None
      BY <2>0, <2>2 DEF Ends, HolderAts, Attaching
    <3>2. QED
      BY <2>0, <2>2, <3>1, RestingAt DEF Ends
  <2>3. CASE Begins(p)
    BY <2>0, <2>3 DEF Begins, HolderAts
  <2>4. CASE Locks(p)
    BY <2>0, <2>4, RestingAt DEF Locks
  <2>5. CASE GoesOn(p)
    BY <2>0, <2>5, OnAts DEF HolderAts
  <2>6. CASE Takes(p)
    BY <2>0, <2>6, TakesFields, RestingAt
  <2>7. CASE Joined(p)
    BY <2>0, <2>7, RestingAt DEF Joined, HolderAts
  <2>8. CASE Made(p)
    BY <2>0, <2>8, MadeFields DEF HolderAts
  <2>9. QED
    BY <2>1, <2>2, <2>3, <2>4, <2>5, <2>6, <2>7, <2>8 DEF PanesGo, PaneGoes
<1>3. ASSUME NEW p \in Panes, opening' = p PROVE bind'[p].at \in HolderAts /\ ~bind'[p].closing
  <2>1. CASE opening = p
    BY <1>2, <1>3, <2>1
  <2>2. CASE opening # p
    <3>1. bind[p].at = "locking" /\ bind'[p].at = "finding" /\ bind'[p].closing = bind[p].closing
      BY <1>3, <2>2, RestingAt DEF LockGoes
    <3>2. QED
      BY <1>2, <3>1 DEF HolderAts
  <2>3. QED
    BY <2>1, <2>2
<1>4. ASSUME NEW p \in Panes, bind'[p].at \in Opens, ~bind'[p].closing, Adopts PROVE opening' = p
  <2>1. CASE opening = p /\ bind'[p].at # "idle" /\ bind'[p].at # "attaching" /\ opening' # p
    <3>1. p # None /\ p # Adoption
      BY RestingAt
    <3>2. watch.task.at \notin Listing
      BY <2>1, <3>1 DEF Guarded
    <3>3. QED
      BY <2>1, <3>1, <3>2 DEF LockGoes
  <2>2. QED
    BY <1>2, <1>4, <2>1
<1>5. QED
  BY <1>1, <1>2, <1>3, <1>4 DEF Guarded

\* Sessions that panes have exist on their boot, opened by who is said to have opened them.
LEMMA HostedStep ==
  ASSUME Typed, Named, Unmade, Reached, Hosted, PanesGo, LinksGo, HostGoes, Lists, Typed'
  PROVE  Hosted'
<1> DEFINE In(boot, id) == boot \in 1 .. host'.boot /\ (boot = host'.boot => id \in 1 .. Len(host'.ses))
           By(boot, id, p) == boot = host'.boot => host'.ses[id].by = p
<1>0. /\ host.boot \in Nat \ {0} /\ host'.boot \in Nat \ {0}
      /\ Len(host.ses) \in Nat /\ Len(host'.ses) \in Nat
      /\ DOMAIN host.ses = 1 .. Len(host.ses) /\ None = 0
  BY DEF Typed, HostTyped, HostState, None
<1>b. \A l \in 1 .. Len(links) : links'[l].boot = BootOf(l) /\ BootOf(l) \in 1 .. host.boot
                                 /\ (Up(l) => BootOf(l) = host.boot)
  BY DEF LinksGo, BootOf, Reached
<1>i. \A boot, id : InBoot(boot, id) => In(boot, id)
  BY <1>0 DEF HostGoes, InBoot
<1>j. \A boot, id, p : InBoot(boot, id) /\ OpenedBy(boot, id, p) => By(boot, id, p)
  BY <1>0 DEF HostGoes, InBoot, OpenedBy
<1>r. ASSUME host' = host, NEW l \in 1 .. Len(links), Up(l) PROVE \A id \in Alive : In(BootOf(l), id)
  BY <1>0, <1>b, <1>r DEF Alive
<1> HIDE DEF In, By
<1>1. ASSUME NEW p \in Panes
      PROVE  LET b == bind'[p]
                 st == pane'[p]
             IN
             /\ st.remote # None => In(st.boot, st.remote)
             /\ st.mine => st.remote # None /\ By(st.boot, st.remote, p)
  <2>1. CASE Same(pane[p], pane'[p])
    BY <1>i, <1>j, <2>1 DEF Same, Hosted
  <2>2. CASE Takes(p)
    BY <1>i, <1>j, <2>2, TakesFields DEF Hosted
  <2>3. CASE Made(p)
    BY <1>i, <2>3, MadeFields DEF Hosted
  <2>4. QED
    BY <2>1, <2>2, <2>3, KeepsOr DEF PanesGo
<1>2. ASSUME NEW p \in Panes
      PROVE  LET b == bind'[p] IN
             /\ b.at \in {"found", "opened"} /\ b.ses # None => In(links'[b.l].boot, b.ses)
             /\ b.at = "opened" => b.ses # None /\ By(links'[b.l].boot, b.ses, p)
  <2>0. bind[p].at # "idle" => bind[p].l \in 1 .. Len(links) /\ links'[bind[p].l].boot = BootOf(bind[p].l)
    BY <1>b DEF Named
  <2>1. CASE bind'[p] = bind[p]
    BY <1>i, <1>j, <2>0, <2>1 DEF Hosted
  <2>2. CASE Ends(p) \/ Joined(p)
    BY <2>2, RestingAt DEF Ends, Joined
  <2>3. CASE Begins(p)
    BY <2>3 DEF Begins
  <2>4. CASE Locks(p)
    BY <2>4 DEF Locks
  <2>5. CASE GoesOn(p)
    <3>1. CASE /\ bind[p].at = "finding" /\ bind'[p].at = "found" /\ Up(bind[p].l) /\ host' = host
               /\ bind'[p].ses \in {None} \cup (Alive \ bind[p].taken)
      BY <1>r, <2>0, <2>5, <3>1, OnAts
    <3>2. CASE /\ bind[p].at = "opening" /\ bind'[p].at = "opened" /\ Up(bind[p].l) /\ host'.boot = host.boot
               /\ bind'[p].ses = Len(host.ses) + 1 /\ Len(host'.ses) = bind'[p].ses
               /\ host'.ses[bind'[p].ses].by = p
      <4>1. bind'[p].ses # None /\ bind'[p].ses \in 1 .. Len(host'.ses) /\ bind'[p].l = bind[p].l
        BY <1>0, <2>5, <3>2, OnAts
      <4>2. links'[bind'[p].l].boot = host'.boot
        BY <1>b, <2>0, <3>2, <4>1
      <4>3. QED
        BY <1>0, <3>2, <4>1, <4>2 DEF In, By
    <3>3. CASE bind'[p].at \notin {"found", "opened"}
      BY <3>3
    <3>4. QED
      BY <2>5, <3>1, <3>2, <3>3, OnAts
  <2>6. CASE Takes(p)
    BY <2>6, TakesFields
  <2>7. QED
    BY <2>1, <2>2, <2>3, <2>4, <2>5, <2>6, MadeFields DEF PanesGo, PaneGoes
<1>3. ASSUME watch'.task.at = "listed", NEW id \in watch'.task.alive
      PROVE  In(links'[watch'.task.l].boot, id)
  <2>0. watch'.task.l \in 1 .. Len(links)
    BY <1>3 DEF Lists
  <2>1. CASE watch.task.at = "listed" /\ watch'.task = watch.task
    BY <1>3, <1>b, <1>i, <2>0, <2>1 DEF Hosted
  <2>2. CASE Up(watch'.task.l) /\ watch'.task.alive = Alive /\ host' = host
    BY <1>3, <1>b, <1>r, <2>0, <2>2
  <2>3. QED
    BY <1>3, <2>1, <2>2 DEF Lists
<1>4. QED
  BY <1>1, <1>2, <1>3 DEF Hosted, In, By, InBoot, OpenedBy, BootOf

\* While another pane holds the lock, what a pane has is what it had.
LEMMA HoldsStays ==
  ASSUME Typed, Unmade, Guarded, Adopts, PanesGo, NEW q \in Panes
  PROVE  /\ Takes(q) => opening = q
         /\ Made(q) /\ pane'[q].remote # None => opening = Adoption
         /\ opening \notin {q, Adoption} /\ pane'[q].remote # None =>
              /\ pane'[q].in => pane[q].in
              /\ pane[q].boot = pane'[q].boot /\ pane[q].remote = pane'[q].remote
<1>1. Takes(q) => opening = q
  BY TakesFields DEF Guarded
<1>2. Made(q) /\ pane'[q].remote # None => opening = Adoption
  BY MadeFields DEF Guarded, Listing
<1>3. QED
  BY <1>1, <1>2, KeepsOr DEF PanesGo, Same

\* What is found or opened for a pane stays held by no other, since who would take it needs the lock.
LEMMA FreshStep ==
  ASSUME Typed, Named, Unmade, Reached, Guarded, Hosted, Fresh, PanesGo, LinksGo, Adopts' = Adopts
  PROVE  Fresh'
<1>0. /\ \A l \in 1 .. Len(links) : links'[l].boot = BootOf(l) /\ (Up(l) => BootOf(l) = host.boot)
      /\ Len(host.ses) \in Nat
  BY DEF LinksGo, BootOf, Reached, Typed, HostTyped, HostState
<1>1. ASSUME NEW p \in Panes, bind'[p].at = "found",
    bind'[p].ses # None PROVE bind'[p].ses \notin bind'[p].taken
  <2>1. CASE bind'[p] = bind[p]
    BY <1>1, <2>1 DEF Fresh
  <2>2. CASE GoesOn(p)
    BY <1>1, <2>2, OnAts
  <2>3. QED
    BY <1>1, <2>1, <2>2, RestingAt, TakesFields, MadeFields DEF PanesGo, PaneGoes, Ends, Begins, Locks, Joined
<1>l. ASSUME NEW p \in Panes, bind'[p].at \in {"finding", "found", "opened"}
      PROVE  \/ /\ bind[p].at # "idle" /\ bind'[p].l = bind[p].l
                /\ links'[bind[p].l].boot = BootOf(bind[p].l)
             \/ bind'[p].at = "finding" /\ (bind'[p].closing \/ ~Adopts)
  <2>0. bind[p].at # "idle" => bind[p].l \in 1 .. Len(links) /\ links'[bind[p].l].boot = BootOf(bind[p].l)
    BY <1>0 DEF Named
  <2>1. CASE bind'[p] = bind[p]
    BY <1>l, <2>0, <2>1
  <2>2. CASE Begins(p)
    BY <1>l, <2>2 DEF Begins
  <2>3. CASE Locks(p)
    BY <2>0, <2>3 DEF Locks
  <2>4. CASE GoesOn(p)
    BY <2>0, <2>4, OnAts
  <2>5. QED
    BY <1>l, <2>1, <2>2, <2>3, <2>4, RestingAt, TakesFields, MadeFields DEF PanesGo, PaneGoes, Ends, Joined
<1>2. ASSUME NEW p \in Panes, Adopts, ~bind'[p].closing, bind'[p].at \in {"finding", "found"},
             NEW q \in Panes, q # p, pane'[q].in, pane'[q].boot = links'[bind'[p].l].boot,
                 pane'[q].remote # None
      PROVE  pane'[q].remote \in bind'[p].taken
  <2>0. bind'[p].l = bind[p].l /\ pane'[q].boot = BootOf(bind[p].l)
    BY <1>2, <1>l
  <2>1. CASE bind[p].at \in {"finding", "found"} /\ ~bind[p].closing /\ bind'[p].taken = bind[p].taken
    <3>1. opening = p
      BY <1>2, <2>1 DEF Guarded
    <3>2. Holds(q, BootOf(bind[p].l)) /\ pane'[q].remote = pane[q].remote
      BY <1>2, <2>0, <3>1, HoldsStays, RestingAt DEF Holds
    <3>3. QED
      BY <1>2, <2>1, <3>2 DEF Fresh
  <2>2. CASE Locks(p)
    <3>1. opening = None /\ bind'[p].taken = Held(BootOf(bind[p].l), p)
      BY <2>0, <2>2 DEF Locks
    <3>2. Holds(q, BootOf(bind[p].l)) /\ pane'[q].remote = pane[q].remote
      BY <1>2, <2>0, <3>1, HoldsStays, RestingAt DEF Holds
    <3>3. pane[q].remote \in Held(BootOf(bind[p].l), p)
      BY <1>2, <3>2 DEF Held, Holds
    <3>4. QED
      BY <3>1, <3>2, <3>3
  <2>3. CASE bind'[p] = bind[p]
    BY <1>2, <2>1, <2>3
  <2>4. CASE GoesOn(p)
    BY <1>2, <2>1, <2>4, OnAts
  <2>5. CASE Begins(p)
    BY <1>2, <2>5 DEF Begins
  <2>6. QED
    BY <1>2, <2>2, <2>3, <2>4, <2>5, RestingAt, TakesFields, MadeFields DEF PanesGo, PaneGoes, Ends, Joined
<1>3. ASSUME NEW p \in Panes, Adopts, bind'[p].at = "opened",
             NEW q \in Panes, q # p, pane'[q].in, pane'[q].boot = links'[bind'[p].l].boot,
                 pane'[q].remote # None
      PROVE  pane'[q].remote # bind'[p].ses
  <2>0. bind'[p].l = bind[p].l /\ pane'[q].boot = BootOf(bind[p].l)
    BY <1>3, <1>l
  <2>w. ASSUME bind[p].at \in {"opening", "opened"}
        PROVE  Holds(q, BootOf(bind[p].l)) /\ pane'[q].remote = pane[q].remote
    <3>1. opening = p
      BY <1>3, <2>w DEF Guarded
    <3>2. QED
      BY <1>3, <2>0, <3>1, HoldsStays, RestingAt DEF Holds
  <2>1. CASE bind'[p] = bind[p]
    BY <1>3, <2>w, <2>1 DEF Fresh
  <2>2. CASE GoesOn(p)
    <3>1. bind[p].at = "opening" /\ Up(bind[p].l) /\ bind'[p].ses = Len(host.ses) + 1
      BY <1>3, <2>2, OnAts
    <3>2. BootOf(bind[p].l) = host.boot
      BY <1>0, <3>1 DEF Named
    <3>3. pane[q].remote \in 1 .. Len(host.ses)
      BY <2>w, <3>1, <3>2 DEF Hosted, Holds, InBoot
    <3>4. QED
      BY <1>0, <2>w, <3>1, <3>3
  <2>3. QED
    BY <1>3, <2>1, <2>2, RestingAt, TakesFields, MadeFields DEF PanesGo, PaneGoes, Ends, Begins, Locks, Joined
<1>4. QED
  BY <1>1, <1>2, <1>3 DEF Fresh, Holds, BootOf

\* So the pane that takes it is apart from the others.
LEMMA ApartStep ==
  ASSUME Typed, Unmade, Guarded, Fresh, NeverTwoPanes, PanesGo, Adopts' = Adopts
  PROVE  NeverTwoPanes'
<1>1. ASSUME Adopts, NEW p \in Panes, NEW q \in Panes, p # q, pane'[p].in, pane'[q].in,
    pane'[p].remote # None,
             pane'[p].boot = pane'[q].boot, pane'[p].remote = pane'[q].remote, Takes(p)
      PROVE  FALSE
  <2>1. opening = p
    BY <1>1, HoldsStays
  <2>2. Holds(q, BootOf(bind[p].l)) /\ pane[q].remote = bind[p].ses
    BY <1>1, <2>1, HoldsStays, TakesFields, RestingAt DEF Holds
  <2>3. QED
    BY <1>1, <2>2, TakesFields DEF Fresh
<1>2. ASSUME Adopts, NEW p \in Panes, NEW q \in Panes, p # q, pane'[p].in, pane'[q].in,
    pane'[p].remote # None,
             pane'[p].boot = pane'[q].boot, pane'[p].remote = pane'[q].remote, Made(p)
      PROVE  FALSE
  <2>1. opening = Adoption
    BY <1>2, HoldsStays
  <2>2. ~Takes(q)
    BY <1>2, <2>1, HoldsStays, RestingAt
  <2>3. CASE Made(q)
    <3>1. ~pane[p].born /\ ~pane[q].born /\ pane'[p].born
      BY <1>2, <2>3, MadeFields
    <3>2. QED
      BY <1>2, <3>1 DEF PanesGo, PanesMade
  <2>4. CASE Same(pane[q], pane'[q])
    <3>1. pane[q].in /\ pane[q].boot = pane'[p].boot /\ pane[q].remote = pane'[p].remote /\ None \notin Panes
      BY <1>2, <2>4, RestingAt DEF Same
    <3>2. pane[q].remote \in Held(pane'[p].boot, None)
      BY <1>2, <3>1 DEF Held
    <3>3. QED
      BY <1>2, <3>1, <3>2, MadeFields
  <2>5. QED
    BY <2>2, <2>3, <2>4, KeepsOr DEF PanesGo
<1>3. ASSUME Adopts, NEW p \in Panes, NEW q \in Panes, p # q, pane'[p].in, pane'[q].in,
    pane'[p].remote # None,
             pane'[p].boot = pane'[q].boot, pane'[p].remote = pane'[q].remote
      PROVE  FALSE
  <2>1. ~Takes(p) /\ ~Made(p) /\ ~Takes(q) /\ ~Made(q)
    BY <1>1, <1>2, <1>3
  <2>2. Same(pane[p], pane'[p]) /\ Same(pane[q], pane'[q])
    BY <2>1, KeepsOr DEF PanesGo
  <2>3. QED
    BY <1>3, <2>2 DEF Same, NeverTwoPanes, HeldOnce
<1>4. QED
  BY <1>3 DEF NeverTwoPanes, HeldOnce

\* Routes and pumps stay told apart: an attach gives its route a generation larger than any before.
LEMMA KeyedStep ==
  ASSUME Typed, Unmade, Keyed, PanesGo, FeedsGo, Typed'
  PROVE  Keyed'
<1>0. /\ feeds \in SUBSET Feed /\ feeds' \in SUBSET Feed
      /\ \A p \in Panes : pane[p].gen \in Nat /\ pane'[p].gen \in Nat
  BY DEF Typed, NetTyped, PanesTyped, PaneState
<1>g. ASSUME NEW p \in Panes PROVE pane'[p].gen >= pane[p].gen
  <2>1. Made(p) => pane'[p].gen = pane[p].gen
    <3> SUFFICES ASSUME Made(p) PROVE pane'[p].gen = pane[p].gen
      OBVIOUS
    <3>1. ~pane[p].born /\ pane'[p].gen = 0
      BY MadeFields
    <3>2. pane[p] = Unborn
      BY <3>1 DEF Unmade
    <3>3. pane[p].gen = 0
      BY <3>2 DEF Unborn
    <3>4. QED
      BY <3>1, <3>3
  <2>2. QED
    BY <1>0, <2>1, KeepsOr, TakesFields DEF PanesGo, Same
<1>a. ASSUME NEW p \in Panes, bind[p].at \in Attaching
      PROVE  bind'[p].at \in Attaching \/ NoneComing(p)
  <2>0. bind[p].at \notin {"idle", "locking", "found", "opened"}
    BY <1>a DEF Attaching
  <2>1. QED
    BY <1>a, <2>0, OnAts, TakesFields, MadeFields DEF PanesGo, PaneGoes, Ends, Begins, Locks, Joined,
        Attaching
<1>1. CASE Carried(feeds')
  <2>1. PICK h : /\ \A f \in feeds : h[f].pane = f.pane /\ h[f].gen = f.gen
                 /\ \A g \in feeds' : \E f \in feeds : g = h[f]
    BY <1>1 DEF Carried
  <2>2. ASSUME NEW f \in feeds', NEW g \in feeds', f.pane = g.pane, f.gen = g.gen PROVE f = g
    BY <2>1, <2>2 DEF Keyed
  <2>3. ASSUME NEW f \in feeds'
        PROVE  f.gen <= pane'[f.pane].gen /\ (f.gen = 0 => bind'[f.pane].at \in Attaching)
    <3>1. PICK k \in feeds : f.pane = k.pane /\ f.gen = k.gen
      BY <2>1
    <3>2. k.pane \in Panes /\ k.gen \in Nat
      BY <1>0 DEF Feed
    <3>3. f.gen <= pane'[f.pane].gen
      <4>1. k.gen <= pane[k.pane].gen /\ pane[k.pane].gen <= pane'[k.pane].gen
        BY <1>g, <3>2 DEF Keyed
      <4>2. QED
        BY <1>0, <3>1, <3>2, <4>1
    <3>4. f.gen = 0 => bind'[f.pane].at \in Attaching
      BY <1>a, <3>1, <3>2 DEF Keyed, NoneComing
    <3>5. QED
      BY <3>3, <3>4
  <2>4. QED
    BY <2>2, <2>3 DEF Keyed
<1>2. CASE Routed
  <2>1. PICK p \in Panes : \E new : /\ new.pane = p /\ new.gen = 0 /\ Carried(feeds' \ {new})
                                    /\ bind[p].at \notin Attaching /\ bind'[p].at = "attaching"
    BY <1>2 DEF Routed
  <2>2. PICK new : /\ new.pane = p /\ new.gen = 0 /\ Carried(feeds' \ {new})
                   /\ bind[p].at \notin Attaching /\ bind'[p].at = "attaching"
    BY <2>1
  <2>3. PICK h : /\ \A f \in feeds : h[f].pane = f.pane /\ h[f].gen = f.gen
                 /\ \A g \in feeds' \ {new} : \E f \in feeds : g = h[f]
    BY <2>2 DEF Carried
  <2>4. ASSUME NEW f \in feeds', f # new PROVE ~(f.pane = p /\ f.gen = 0)
    BY <2>2, <2>3, <2>4 DEF Keyed
  <2>5. ASSUME NEW f \in feeds', NEW g \in feeds', f.pane = g.pane, f.gen = g.gen PROVE f = g
    BY <2>2, <2>3, <2>4, <2>5 DEF Keyed
  <2>6. ASSUME NEW f \in feeds'
        PROVE  f.gen <= pane'[f.pane].gen /\ (f.gen = 0 => bind'[f.pane].at \in Attaching)
    <3>1. CASE f = new
      BY <1>0, <2>2, <3>1 DEF Attaching
    <3>2. CASE f # new
      <4>1. PICK k \in feeds : f.pane = k.pane /\ f.gen = k.gen
        BY <2>3, <3>2
      <4>2. k.pane \in Panes /\ k.gen \in Nat
        BY <1>0 DEF Feed
      <4>3. f.gen <= pane'[f.pane].gen
        <5>1. k.gen <= pane[k.pane].gen /\ pane[k.pane].gen <= pane'[k.pane].gen
          BY <1>g, <4>2 DEF Keyed
        <5>2. QED
          BY <1>0, <4>1, <4>2, <5>1
      <4>4. f.gen = 0 => bind'[f.pane].at \in Attaching
        BY <1>a, <4>1, <4>2 DEF Keyed, NoneComing
      <4>5. QED
        BY <4>3, <4>4
    <3>3. QED
      BY <3>1, <3>2
  <2>7. QED
    BY <2>5, <2>6 DEF Keyed
<1>3. CASE Given
  <2>1. PICK p \in Panes : \E gen \in Nat :
               /\ pane'[p].gen = gen /\ gen = pane[p].gen + 1
               /\ feeds' = {IF f.pane = p /\ f.gen = 0 THEN [f EXCEPT !.gen = gen] ELSE f : f \in feeds}
    BY <1>3 DEF Given
  <2>2. PICK gen \in Nat :
               /\ pane'[p].gen = gen /\ gen = pane[p].gen + 1
               /\ feeds' = {IF f.pane = p /\ f.gen = 0 THEN [f EXCEPT !.gen = gen] ELSE f : f \in feeds}
    BY <2>1
  <2> DEFINE h == [f \in feeds |-> IF f.pane = p /\ f.gen = 0 THEN [f EXCEPT !.gen = gen] ELSE f]
  <2>3. \A f \in feeds : h[f] = IF f.pane = p /\ f.gen = 0 THEN [f EXCEPT !.gen = gen] ELSE f
    OBVIOUS
  <2> HIDE DEF h
  <2>w. \A g \in feeds' : \E f \in feeds : g = IF f.pane = p /\ f.gen = 0 THEN [f EXCEPT !.gen = gen] ELSE f
    BY <2>2
  <2>4. \A g \in feeds' : \E f \in feeds : g = h[f]
    BY <2>3, <2>w
  <2>k. \A f \in feeds : [f EXCEPT !.gen = gen].pane = f.pane /\ [f EXCEPT !.gen = gen].gen = gen
    BY <1>0 DEF Feed
  <2>5. ASSUME NEW f \in feeds
        PROVE  /\ h[f].pane = f.pane
               /\ f.pane = p /\ f.gen = 0 => h[f].gen = gen
               /\ ~(f.pane = p /\ f.gen = 0) => h[f].gen = f.gen
    BY <2>3, <2>k
  <2>6. ASSUME NEW f \in feeds PROVE f.pane \in Panes /\ f.gen \in Nat /\ f.gen <= pane[f.pane].gen
    BY <1>0 DEF Feed, Keyed
  <2>7. ASSUME NEW f \in feeds, NEW g \in feeds, h[f].pane = h[g].pane, h[f].gen = h[g].gen PROVE f = g
    <3>1. f.pane = g.pane
      BY <2>5, <2>7
    <3>2. CASE f.pane # p
      BY <2>5, <2>7, <3>1, <3>2 DEF Keyed
    <3>3. CASE f.pane = p
      <4>1. f.gen < gen /\ g.gen < gen
        <5>1. pane[p].gen \in Nat /\ gen = pane[p].gen + 1
          BY <1>0, <2>2
        <5>2. f.gen \in Nat /\ f.gen <= pane[p].gen /\ g.gen \in Nat /\ g.gen <= pane[p].gen
          BY <2>6, <3>1, <3>3
        <5>3. QED
          BY <5>1, <5>2
      <4>2. f.gen = g.gen
        BY <2>5, <2>6, <2>7, <3>1, <3>3, <4>1
      <4>3. QED
        BY <3>1, <4>2 DEF Keyed
    <3>4. QED
      BY <3>2, <3>3
  <2>8. ASSUME NEW f \in feeds', NEW g \in feeds', f.pane = g.pane, f.gen = g.gen PROVE f = g
    <3>1. PICK a \in feeds : f = h[a]
      BY <2>4
    <3>2. PICK b \in feeds : g = h[b]
      BY <2>4
    <3>3. QED
      BY <2>7, <2>8, <3>1, <3>2
  <2>9. ASSUME NEW f \in feeds'
        PROVE  f.gen <= pane'[f.pane].gen /\ (f.gen = 0 => bind'[f.pane].at \in Attaching)
    <3>1. PICK k \in feeds : f = h[k]
      BY <2>4
    <3>2. CASE k.pane = p /\ k.gen = 0
      <4>1. f.pane = p /\ f.gen = gen /\ gen # 0
        BY <1>0, <2>2, <2>5, <3>1, <3>2
      <4>2. QED
        BY <2>2, <4>1
    <3>3. CASE ~(k.pane = p /\ k.gen = 0)
      <4>1. f.pane = k.pane /\ f.gen = k.gen
        BY <2>5, <3>1, <3>3
      <4>2. f.gen <= pane'[f.pane].gen
        <5>1. k.gen <= pane[k.pane].gen /\ pane[k.pane].gen <= pane'[k.pane].gen
          BY <1>g, <2>6
        <5>2. QED
          BY <1>0, <2>6, <4>1, <5>1
      <4>3. f.gen = 0 => bind'[f.pane].at \in Attaching
        BY <1>a, <2>6, <4>1 DEF Keyed, NoneComing
      <4>4. QED
        BY <4>2, <4>3
    <3>4. QED
      BY <3>2, <3>3
  <2>10. QED
    BY <2>8, <2>9 DEF Keyed
<1>4. QED
  BY <1>1, <1>2, <1>3 DEF FeedsGo

\* A launch line is in one place: asked for, queued, or typed.
LEMMA AskedStep ==
  ASSUME Typed, Unmade, Placed, Hosted, Asked, PanesGo, LaunchesGo, Typed'
  PROVE  Asked'
<1>0. /\ typed.lines \in Seq(Panes \X (0 .. MaxPanes)) /\ typed'.lines \in Seq(Panes \X (0 .. MaxPanes))
      /\ \A p \in Panes : pane[p].input \in Seq(Nat) /\ pane'[p].input \in Seq(Nat)
      /\ typed.askers \subseteq typed'.askers
  BY DEF Typed, HistoryTyped, PanesTyped, PaneState, LaunchesGo, LinesGo
<1>l. ASSUME NEW p \in Panes, Lined(p)'
      PROVE  \/ Lined(p)
             \/ pane[p].input # <<>> /\ pane'[p].input = Tail(pane[p].input) /\ typed'.lines # typed.lines
  <2>1. CASE typed'.lines = typed.lines
    BY <1>l, <2>1 DEF Lined
  <2>2. CASE typed'.lines # typed.lines
    <3>1. PICK q \in Panes : /\ pane[q].input # <<>> /\ pane'[q].input = Tail(pane[q].input)
                             /\ \E by : typed'.lines = Append(typed.lines, <<q, by>>)
      BY <2>2 DEF LaunchesGo, LinesGo
    <3>2. PICK by : typed'.lines = Append(typed.lines, <<q, by>>)
      BY <3>1
    <3>3. PICK i \in 1 .. Len(typed'.lines) : typed'.lines[i][1] = p
      BY <1>l DEF Lined
    <3>4. CASE i = Len(typed.lines) + 1
      <4>1. typed'.lines[i] = <<q, by>>
        BY <1>0, <3>2, <3>4
      <4>2. q = p
        BY <3>3, <4>1
      <4>3. QED
        BY <2>2, <3>1, <4>2
    <3>5. CASE i # Len(typed.lines) + 1
      <4>1. i \in 1 .. Len(typed.lines) /\ typed'.lines[i] = typed.lines[i]
        BY <1>0, <3>2, <3>3, <3>5
      <4>2. QED
        BY <3>3, <4>1 DEF Lined
    <3>6. QED
      BY <3>4, <3>5
  <2>3. QED
    BY <2>1, <2>2
<1>m. ASSUME NEW p \in Panes, pane[p].input # <<>> PROVE pane'[p].mine
  <2>1. pane[p].mine /\ pane[p].remote # None /\ pane[p].born
    BY <1>m, UnmadeFacts DEF Asked, Hosted
  <2>2. ~Takes(p) /\ ~Made(p)
    BY <2>1, TakesFields, MadeFields DEF Placed, Seeking
  <2>3. QED
    BY <2>1, <2>2, KeepsOr DEF PanesGo, Same
<1>a. ASSUME NEW s \in Seq(Nat), NEW g \in Nat PROVE s = <<>> => Append(s, g) # <<>> /\ Len(Append(s, g)) = 1
  OBVIOUS
<1>t. ASSUME NEW s \in Seq(Nat), Len(s) = 1 PROVE Tail(s) = <<>>
  <2>0. Len(<<>>) = 0
    OBVIOUS
  <2>1. s # <<>>
    <3>1. Len(s) # 0
      BY <1>t
    <3>2. QED
      BY <2>0, <3>1, Zenon
  <2>2. Tail(s) \in Seq(Nat) /\ Len(Tail(s)) = Len(s) - 1
    BY <2>1, HeadTailProperties
  <2>3. Len(Tail(s)) = 0
    BY <1>t, <2>2
  <2>4. QED
    BY <2>2, <2>3, EmptySeq
<1>1. ASSUME NEW p \in Panes
      PROVE  LET st == pane'[p] IN
             /\ st.input # <<>> =>
                  st.mine /\ ~st.seed /\ Len(st.input) = 1 /\ p \in typed'.askers /\ ~Lined(p)'
             /\ st.seed => p \in typed'.askers /\ ~Lined(p)'
             /\ Lined(p)' => p \in typed'.askers
  <2> DEFINE a == pane[p]
             b == pane'[p]
  <2>0. /\ a.input # <<>> => a.mine /\ ~a.seed /\ Len(a.input) = 1 /\ p \in typed.askers /\ ~Lined(p)
        /\ a.seed => p \in typed.askers /\ ~Lined(p) /\ a.input = <<>>
        /\ Lined(p) => p \in typed.askers
    BY DEF Asked
  <2>l. Lined(p)' => Lined(p) \/ (a.input # <<>> /\ b.input = Tail(a.input) /\ typed'.lines # typed.lines)
    BY <1>l
  <2>i. /\ a.input # <<>> => b.mine /\ Tail(a.input) = <<>>
        /\ typed.askers \subseteq typed'.askers
        /\ Queues(a, b) /\ a.input = <<>> => b.mine /\ b.input # <<>> /\ Len(b.input) = 1
    BY <1>0, <1>m, <1>t, <1>a, <2>0 DEF Queues
  <2>c. Lined(p)' => p \in typed'.askers
    BY <2>0, <2>l, <2>i
  <2> DEFINE lined == Lined(p)
             linedN == Lined(p)'
  <2>1. CASE Mute(a, b)
    BY <2>0, <2>l, <2>i, <2>c, <2>1 DEF Mute
  <2>2. CASE /\ p \notin typed.askers /\ p \in typed'.askers /\ typed'.lines = typed.lines
             /\ b.input = a.input \/ (Queues(a, b) /\ b.seed = a.seed)
    BY <2>0, <2>l, <2>i, <2>c, <2>2
  <2>3. CASE Queues(a, b) /\ a.seed /\ ~b.seed
    BY <2>0, <2>l, <2>i, <2>c, <2>3
  <2>4. CASE a.input # <<>> /\ b.input = Tail(a.input) /\ b.seed = a.seed
    BY <2>0, <2>l, <2>i, <2>c, <2>4
  <2>5. QED
    BY <2>1, <2>2, <2>3, <2>4 DEF LaunchesGo, LaunchGoes
<1>2. QED
  BY <1>1 DEF Asked

\* So it is typed once, and the session it is typed into was opened by its pane.
LEMMA OnceStep ==
  ASSUME Typed, Named, Reached, Attended, Hosted, Asked, LaunchTypedOnce, LaunchesGo, Typed'
  PROVE  LaunchTypedOnce'
<1>0. /\ typed.lines \in Seq(Panes \X (0 .. MaxPanes)) /\ DOMAIN typed.lines = 1 .. Len(typed.lines)
      /\ DOMAIN typed'.lines = 1 .. Len(typed'.lines)
  BY DEF Typed, HistoryTyped
<1>1. CASE typed'.lines = typed.lines
  BY <1>1 DEF LaunchTypedOnce
<1>2. CASE typed'.lines # typed.lines
  <2>1. PICK p \in Panes : /\ pane[p].input # <<>> /\ Live(p) /\ pane[p].remote \in Alive
                           /\ typed'.lines = Append(typed.lines, <<p, Session(pane[p].remote).by>>)
    BY <1>2 DEF LaunchesGo, LinesGo
  <2>2. Session(pane[p].remote).by = p
    <3>1. pane[p].on \in 1 .. Len(links) /\ Up(pane[p].on) /\ pane[p].on # None
      BY <2>1 DEF Live, Up, Named, None
    <3>2. pane[p].boot = host.boot
      BY <3>1 DEF Attended, Reached
    <3>3. QED
      BY <2>1, <3>2 DEF Asked, Hosted, OpenedBy, Session
  <2>3. \A i \in 1 .. Len(typed.lines) : typed.lines[i][1] # p
    BY <2>1 DEF Asked, Lined
  <2> DEFINE n == Len(typed.lines)
             line == <<p, p>>
  <2>4. n \in Nat /\ Len(typed'.lines) = n + 1 /\ typed'.lines[n + 1] = line
        /\ \A i \in 1 .. n : typed'.lines[i] = typed.lines[i]
    BY <1>0, <2>1, <2>2
  <2>5. line[1] = p /\ line[2] = p
    OBVIOUS
  <2> HIDE DEF n, line
  <2>6. \A i \in 1 .. n + 1 : i \in 1 .. n \/ i = n + 1
    BY <2>4
  <2>7. \A i \in 1 .. n : /\ typed.lines[i][1] = typed.lines[i][2] /\ typed.lines[i][1] # p
                          /\ \A j \in 1 .. n : typed.lines[i] = typed.lines[j] => i = j
    BY <1>0, <2>3 DEF LaunchTypedOnce, n
  <2>8. ASSUME NEW i \in 1 .. n + 1
        PROVE  /\ typed'.lines[i][1] = typed'.lines[i][2]
               /\ \A j \in 1 .. n + 1 : typed'.lines[i] = typed'.lines[j] => i = j
    <3>1. CASE i \in 1 .. n
      BY <2>4, <2>5, <2>6, <2>7, <3>1
    <3>2. CASE i = n + 1
      BY <2>4, <2>5, <2>6, <2>7, <3>2
    <3>3. QED
      BY <2>6, <3>1, <3>2
  <2>9. QED
    BY <1>0, <2>4, <2>8 DEF LaunchTypedOnce
<1>3. QED
  BY <1>1, <1>2

-----------------------------------------------------------------------------
\* What every reachable state keeps: the types and names; that a turn is about its pane's session, on that
\* session's boot; that `opening` guards what finds and opens; which sessions exist and who opened them;
\* and where a route and a launch line may be.
Inv ==
  /\ Typed /\ Named /\ Unmade /\ Waits
  /\ Reached /\ Placed /\ Attended
  /\ Guarded /\ Hosted /\ Fresh /\ NeverTwoPanes
  /\ Keyed /\ Asked /\ LaunchTypedOnce

\* The invariant holds as the app starts, whatever ran on the host before.
LEMMA InvInit ==
  ASSUME PanesInit
  PROVE  Inv
<1>1. Typed /\ Named
  BY TypedInit
<1>2. /\ \A p \in Panes : pane[p] = Unborn /\ bind[p] = Resting
      /\ queue = {} /\ feeds = {} /\ opening = None /\ links = <<>>
      /\ watch.task = Watching /\ typed.lines = <<>>
  BY DEF PanesInit
<1>3. Len(links) = 0 /\ Len(typed.lines) = 0 /\ DOMAIN typed.lines = {}
  BY <1>2
<1>4. \A n : n \notin 1 .. 0
  OBVIOUS
<1>5. /\ ~Unborn.born /\ ~Unborn.in /\ Unborn.remote = None /\ ~Unborn.mine /\ Unborn.on = None
      /\ ~Unborn.seed /\ Unborn.input = <<>>
      /\ Resting.at = "idle" /\ ~Resting.closing /\ Watching.at = "idle"
  BY DEF Unborn, Resting, Watching
<1>6. Unmade
  <2>1. Born = 1 .. 0
    BY <1>2, <1>4, <1>5 DEF Born
  <2>2. 0 \in 0 .. MaxPanes
    BY BoundsAre
  <2>3. QED
    BY <1>2, <2>1, <2>2 DEF Unmade
<1>7. Waits /\ Reached /\ Keyed
  BY <1>2, <1>3, <1>4 DEF Waits, Reached, Keyed
<1>8. Placed /\ Attended
  BY <1>2, <1>5 DEF Placed, Attended, Seeking, Attaching
<1>9. Guarded /\ Hosted /\ Fresh
  BY <1>2, <1>5, RestingAt DEF Guarded, Hosted, Fresh, Listing
<1>10. NeverTwoPanes
  BY <1>2, <1>5 DEF NeverTwoPanes, HeldOnce
<1>11. Asked /\ LaunchTypedOnce
  BY <1>2, <1>3, <1>4, <1>5 DEF Asked, Lined, LaunchTypedOnce
<1>12. QED
  BY <1>1, <1>6, <1>7, <1>8, <1>9, <1>10, <1>11 DEF Inv

\* A step of the program keeps each part, from what its effects on the parts of the state are.
LEMMA InvNext ==
  ASSUME Inv, PanesNext
  PROVE  Inv'
<1>0. /\ Typed /\ Named /\ Unmade /\ Waits /\ Reached /\ Placed /\ Attended
      /\ Guarded /\ Hosted /\ Fresh /\ NeverTwoPanes /\ Keyed /\ Asked /\ LaunchTypedOnce
  BY DEF Inv
<1>1. Typed'
  BY <1>0, TypedStep
<1>2. LinksGo /\ HostGoes /\ NetNamed' /\ Adopts' = Adopts
  BY <1>0, NetGoes
<1>3. PanesGo /\ QueueGoes
  BY <1>0, PanesStep, QueueWaits
<1>4. LockGoes /\ Lists /\ FeedsGo /\ LaunchesGo
  BY <1>0, LocksGo, ListsGo, RoutesGo, LaunchesStep
<1>5. Named' /\ Unmade' /\ Waits'
  BY <1>0, <1>1, <1>2, <1>3, <1>4, NamedStep, UnmadeStep, WaitsStep
<1>6. Reached' /\ Placed' /\ Attended'
  BY <1>0, <1>1, <1>2, <1>3, ReachedStep, PlacedStep
<1>7. Guarded' /\ Hosted'
  BY <1>0, <1>1, <1>2, <1>3, <1>4, GuardedStep, HostedStep
<1>8. Fresh' /\ NeverTwoPanes'
  BY <1>0, <1>2, <1>3, FreshStep, ApartStep
<1>9. Keyed'
  BY <1>0, <1>1, <1>3, <1>4, KeyedStep
<1>10. Asked' /\ LaunchTypedOnce'
  BY <1>0, <1>1, <1>3, <1>4, AskedStep, OnceStep
<1>11. QED
  BY <1>1, <1>5, <1>6, <1>7, <1>8, <1>9, <1>10 DEF Inv

\* So does a step that changes nothing.
LEMMA InvStutter ==
  ASSUME Inv, UNCHANGED allPanesVars
  PROVE  Inv'
<1>0. /\ host' = host /\ links' = links /\ live' = live /\ news' = news /\ feeds' = feeds /\ pane' = pane
      /\ bind' = bind /\ queue' = queue /\ opening' = opening /\ watch' = watch /\ opens' = opens
      /\ left' = left /\ seen' = seen /\ typed' = typed
  BY DEF allPanesVars, panesVars, panesHistory
<1>1. Typed' <=> Typed
  BY <1>0 DEF Typed, HostTyped, NetTyped, PanesTyped, TasksTyped, HistoryTyped, Profile
<1>2. (Named' <=> Named) /\ (Waits' <=> Waits)
  BY <1>0 DEF Named, Waits
<1>3. Unmade' <=> Unmade
  BY <1>0 DEF Unmade, Born
<1>4. (Reached' <=> Reached) /\ (Placed' <=> Placed) /\ (Attended' <=> Attended)
  BY <1>0 DEF Reached, Placed, Attended, BootOf, Up
<1>5. Guarded' <=> Guarded
  BY <1>0 DEF Guarded, Adopts
<1>6. Hosted' <=> Hosted
  BY <1>0 DEF Hosted, InBoot, OpenedBy, BootOf
<1>7. (Fresh' <=> Fresh) /\ (NeverTwoPanes' <=> NeverTwoPanes)
  BY <1>0 DEF Fresh, Holds, BootOf, Adopts, NeverTwoPanes, HeldOnce
<1>8. Keyed' <=> Keyed
  BY <1>0 DEF Keyed
<1>9. (Asked' <=> Asked) /\ (LaunchTypedOnce' <=> LaunchTypedOnce)
  BY <1>0 DEF Asked, Lined, LaunchTypedOnce
<1>10. QED
  BY <1>1, <1>2, <1>3, <1>4, <1>5, <1>6, <1>7, <1>8, <1>9 DEF Inv

\* The invariant of the panes holds in every state of every run of the program.
THEOREM PanesKeep == PanesSpec => []Inv
<1>1. PanesInit => Inv
  BY InvInit
<1>2. Inv /\ [PanesNext]_allPanesVars => Inv'
  BY InvNext, InvStutter
<1>3. QED
  BY <1>1, <1>2, PTL DEF PanesSpec

\* What has one element at most.
LEMMA OneAtMost ==
  ASSUME NEW S, \A x, y \in S : x = y
  PROVE  Cardinality(S) <= 1
<1>1. CASE S = {}
  BY <1>1, FS_EmptySet
<1>2. CASE S # {}
  <2>1. PICK x \in S : TRUE
    BY <1>2
  <2>2. S = {x}
    BY <2>1
  <2>3. QED
    BY <2>2, FS_Singleton
<1>3. QED
  BY <1>1, <1>2

\* Links and sessions are named by what exists; a pane of the registry was made, and one that opened its
\* session has it; a pane has one attach under way and one pump of its generation at most, the attach only
\* while its turn is at it; and who holds `opening` is at what it guards.
THEOREM PanesWellTyped == PanesSpec => []PanesTypeOK
<1>1. ASSUME Inv
      PROVE  PanesTypeOK
  <2>0. /\ Typed /\ Named /\ Unmade /\ Guarded /\ Hosted /\ Keyed
    BY <1>1 DEF Inv
  <2>1. live \in 0 .. Len(links) /\ news \in 0 .. Len(links) /\ opening \in 0 .. Adoption
    BY <2>0 DEF Named, Typed, TasksTyped
  <2>2. ASSUME NEW p \in Panes
        PROVE  /\ pane[p].in => pane[p].born
               /\ pane[p].remote \in Ids \cup {None}
               /\ pane[p].mine => pane[p].remote # None
    <3>1. pane[p].remote \in 0 .. MaxIds
      BY <2>0 DEF Typed, PanesTyped, PaneState
    <3>2. pane[p].remote \in Ids \cup {None}
      BY <3>1, BoundsAre DEF Ids, None
    <3>3. QED
      BY <2>0, <3>2, UnmadeFacts DEF Hosted
  <2>3. ASSUME NEW p \in Panes, NEW gen
        PROVE  Cardinality({f \in feeds : f.pane = p /\ f.gen = gen}) <= 1
    BY <2>0, OneAtMost DEF Keyed
  <2>4. ASSUME NEW p \in Panes, NEW f \in feeds, f.pane = p, f.gen = 0
        PROVE  bind[p].at \in {"attaching", "answering", "attached", "gone"}
    BY <2>0, <2>4 DEF Keyed, Attaching
  <2>5. opening \in Panes => bind[opening].at \in HolderAts
    BY <2>0 DEF Guarded
  <2>6. QED
    BY <2>1, <2>2, <2>3, <2>4, <2>5 DEF PanesTypeOK, HolderAts
<1>2. QED
  BY <1>1, PanesKeep, PTL

\* On a host that adopts, no two panes of the registry hold one session: `Inner::opening` is held over the
\* list and the take of every find, open and adoption, and what each of them takes is held by none.
THEOREM PanesApart == PanesSpec => []NeverTwoPanes
<1>1. Inv => NeverTwoPanes
  BY DEF Inv
<1>2. QED
  BY <1>1, PanesKeep, PTL

\* No attach, close, detach or input of a pane reaches another boot than its session's (`bind` compares
\* the boot of the client it was given with the pane's before it asks for anything).
THEOREM CallsReachTheirBoot == PanesSpec => []NeverAStranger
<1>1. ASSUME Inv
      PROVE  NeverAStranger
  <2>1. Placed /\ Attended
    BY <1>1 DEF Inv
  <2>2. ASSUME NEW p \in Panes, pane[p].remote # None,
               bind[p].at \in {"attaching", "answering", "closing", "detaching"}
        PROVE  BootOf(bind[p].l) = pane[p].boot
    BY <2>1, <2>2 DEF Placed, Attaching
  <2>3. ASSUME NEW p \in Panes, Live(p)
        PROVE  BootOf(pane[p].on) = pane[p].boot
    BY <2>1, <2>3 DEF Attended, Live, Up
  <2>4. QED
    BY <2>2, <2>3 DEF NeverAStranger
<1>2. QED
  BY <1>1, PanesKeep, PTL

\* A launch line is typed once, into a session its own pane opened: `seed` leaves a pane that found its
\* session alone, and the line waits in one place at a time, in the pane or in what its writer takes.
THEOREM LaunchesOnce == PanesSpec => []LaunchTypedOnce
<1>1. Inv => LaunchTypedOnce
  BY DEF Inv
<1>2. QED
  BY <1>1, PanesKeep, PTL
==============================================================================
