-------------------------- MODULE HostTableProofs --------------------------
(***************************************************************************)
(* Proofs about HostTable, for every number of sessions, requests, pages   *)
(* and every max_ptys: its type invariant with the locks, that it          *)
(* implements SessionLife, and that a receiver hears of its session's end. *)
(***************************************************************************)
EXTENDS HostTable, FiniteSetTheorems, WellFoundedInduction, TLAPS

Kinds == {"open", "attach", "close", "adopt", "all", "park", "reap", "end"}
Processes == {"unborn", "running", "over"}

SesState ==
  [owner : Pages \cup {NoPage}, name : Names \cup {NoName}, sink : Gates \cup {Parked, NoSink},
   proc : Processes, pumped : BOOLEAN]
SessState ==
  [route : Gates \cup {NoGate}, gate : Gates \cup {NoGate}, ended : BOOLEAN, maybeLost : BOOLEAN,
   serial : Tasks \cup {NoTask}]
Gate == [id : Ids, retired : BOOLEAN, answered : BOOLEAN, told : BOOLEAN]

\* What a task may be doing, by what it keeps meanwhile.
Resting == [at : {"idle", "spawning"}]
OnSession == [at : {"registered", "found", "killed"}, id : Ids]
Attaching == [at : {"gated", "swapped"}, id : Ids, gate : Gates, old : Gates \cup {NoGate}]
Tagged == [at : {"tagged"}, old : SUBSET Ids, adopted : SUBSET Ids]
Listed == [at : {"listed"}, live : SUBSET Ids, adopted : SUBSET Ids]
ParkingSome == [at : {"parking"}, adopted : SUBSET Ids]
TaskState == Resting \cup OnSession \cup Attaching \cup Tagged \cup Listed \cup ParkingSome

ReaperState ==
  [at : {"idle"}] \cup [at : {"listed"}, dead : SUBSET Ids] \cup [at : {"closing"}, todo : SUBSET Ids]
    \cup [at : {"killed"}, id : Ids, todo : SUBSET Ids]

Typed ==
  /\ nextId \in Nat /\ down \in BOOLEAN /\ closing \in {"no", "drained", "done"}
  /\ held \in SUBSET (1 .. nextId) /\ table \in SUBSET (1 .. nextId) /\ marked \in SUBSET Ids
  /\ ses \in [Ids -> SesState] /\ sess \in [Ids -> SessState]
  /\ opening \in Tasks \cup {NoTask}
  /\ task \in [Tasks -> TaskState] /\ reaper \in ReaperState
  /\ gates \in Seq(Gate)
  /\ left \in [Kinds -> Nat]
  /\ asked \in SUBSET Ids /\ cut \in SUBSET Gates

\* The bounds hold because what is under way was paid for.
Found == {t \in Tasks : task[t].at = "found"}
Counted ==
  /\ nextId + left["open"] <= MaxAsked["open"]
  /\ \A t \in Tasks : task[t].at = "spawning" => nextId + left["open"] < MaxAsked["open"]
  /\ IsFiniteSet(Found)
  /\ Len(gates) + Cardinality(Found) + left["attach"] <= MaxAsked["attach"]

\* `opening` and the attach locks are held by those at work under them, and by nobody else.
Locked ==
  /\ \A t \in Tasks : task[t].at \in {"spawning", "registered"} <=> opening = t
  /\ \A id \in Ids : sess[id].serial # NoTask =>
       task[sess[id].serial].at \in {"gated", "swapped"} /\ task[sess[id].serial].id = id
  /\ \A t \in Tasks : task[t].at \in {"gated", "swapped"} => sess[task[t].id].serial = t

TypeInv == Typed /\ Counted /\ Locked

\* A newer session has, or had, the name of session `id`.
Replaced(id) ==
  /\ ses[id].name # NoName
  /\ \E newer \in Ids : newer > id /\ newer <= nextId /\ ses[newer].name = ses[id].name

\* What the refinement needs: ids are minted in order; an open that spawns was counted, and
\* its session is the only one that starts; an adoption closes sessions that were replaced,
\* the reaper sessions that are over.
LifeOrder ==
  /\ \A id \in Ids : id <= nextId <=> ses[id].proc # "unborn"
  /\ \A t \in Tasks :
       /\ task[t].at = "spawning" => Cardinality(held) < MaxPtys
       /\ task[t].at = "registered" => task[t].id <= nextId
       /\ task[t].at = "tagged" => \A id \in task[t].old : id <= nextId /\ Replaced(id)
  /\ reaper.at = "listed" => \A id \in reaper.dead : ses[id].proc = "over"
  /\ reaper.at \in {"closing", "killed"} => \A id \in reaper.todo : ses[id].proc = "over"
  /\ down => held = {}
\* Gate `g` is session `id`'s, current, and what its reader feeds.
Connected(id, g) ==
  /\ g \in 1 .. Len(gates) /\ gates[g].id = id /\ ~gates[g].retired
  /\ sess[id].gate = g /\ ses[id].sink = g

\* What a receiver needs to hear of the end, unless it was let go of: at rest, its gate is
\* the one that is fed, and was told if the reader is done; an attach that gated has its own
\* gate in place and knows the one it retired; one that swapped knows whether the reader is
\* done.
AtRest(id) ==
  LET g == sess[id].route IN
  sess[id].serial = NoTask /\ g # NoGate /\ g \notin cut =>
    Connected(id, g) /\ gates[g].answered /\ (ses[id].pumped => gates[g].told)
UnderWay(t) ==
  LET id == task[t].id
      g == task[t].gate IN
  /\ task[t].at \in {"gated", "swapped"} => g \in 1 .. Len(gates) /\ gates[g].id = id
  /\ task[t].at = "gated" => sess[id].route \in cut \cup {NoGate, task[t].old}
  /\ task[t].at = "gated" /\ g \notin cut => sess[id].gate = g /\ ~gates[g].retired
  /\ task[t].at = "swapped" /\ g \notin cut => Connected(id, g) /\ (ses[id].pumped => sess[id].ended)
Hears ==
  closing = "no" =>
    /\ \A id \in Ids : AtRest(id) /\ (id > nextId => ses[id].sink = NoSink)
    /\ \A t \in Tasks : UnderWay(t)
-----------------------------------------------------------------------------
\* The module's operators.

\* A set of ids that is not empty has a least one.
LEMMA MinFacts ==
  ASSUME NEW S \in SUBSET Ids, S # {}
  PROVE  Min(S) \in S
<1>1. S \subseteq Nat
  BY TableAssumption DEF Ids
<1>2. PICK m \in S : \A y \in S : ~(<<y, m>> \in OpToRel(<, Nat))
  BY <1>1, NatLessThanWellFounded, WFMin
<1>3. ASSUME NEW y \in S PROVE m <= y
  <2>1. <<y, m>> \in Nat \X Nat /\ <<y, m>>[1] = y /\ <<y, m>>[2] = m
    BY <1>1
  <2>2. ~(y < m)
    <3> SUFFICES ASSUME y < m PROVE <<y, m>> \in OpToRel(<, Nat)
      BY <1>2
    <3>1. QED
      BY <2>1 DEF OpToRel
  <2>3. QED
    BY <1>1, <2>2
<1>4. QED
  BY <1>3 DEF Min

\* The gates after those of some sessions are retired.
LEMMA RetiredFacts ==
  ASSUME NEW S, gates \in Seq(Gate)
  PROVE  /\ Retired(S) \in Seq(Gate)
         /\ Len(Retired(S)) = Len(gates)
         /\ \A g \in 1 .. Len(gates) :
              /\ Retired(S)[g].id = gates[g].id
              /\ Retired(S)[g].answered = gates[g].answered
              /\ Retired(S)[g].told = gates[g].told
              /\ gates[g].retired => Retired(S)[g].retired
              /\ ~(gates[g].id \in S /\ sess[gates[g].id].gate = g) => Retired(S)[g] = gates[g]
<1>1. DOMAIN gates = 1 .. Len(gates) /\ \A g \in 1 .. Len(gates) : gates[g] \in Gate
  OBVIOUS
<1>2. \A gate \in Gate : /\ [gate EXCEPT !.retired = TRUE] \in Gate
                         /\ [gate EXCEPT !.retired = TRUE].id = gate.id
                         /\ [gate EXCEPT !.retired = TRUE].answered = gate.answered
                         /\ [gate EXCEPT !.retired = TRUE].told = gate.told
                         /\ [gate EXCEPT !.retired = TRUE].retired
  BY DEF Gate
<1>3. DOMAIN Retired(S) = 1 .. Len(gates)
  BY <1>1 DEF Retired
<1>4. \A g \in 1 .. Len(gates) :
        Retired(S)[g] = IF gates[g].id \in S /\ sess[gates[g].id].gate = g
                          THEN [gates[g] EXCEPT !.retired = TRUE] ELSE gates[g]
  BY <1>1 DEF Retired
<1>5. Retired(S) \in Seq(Gate) /\ Len(Retired(S)) = Len(gates)
  BY <1>1, <1>2 DEF Retired
<1>6. ASSUME NEW g \in 1 .. Len(gates)
      PROVE  /\ Retired(S)[g].id = gates[g].id
             /\ Retired(S)[g].answered = gates[g].answered
             /\ Retired(S)[g].told = gates[g].told
             /\ gates[g].retired => Retired(S)[g].retired
             /\ ~(gates[g].id \in S /\ sess[gates[g].id].gate = g) => Retired(S)[g] = gates[g]
  <2>1. gates[g] \in Gate
    BY <1>1
  <2>2. CASE gates[g].id \in S /\ sess[gates[g].id].gate = g
    <3>1. Retired(S)[g] = [gates[g] EXCEPT !.retired = TRUE]
      BY <1>4, <2>2
    <3>2. QED
      BY <1>2, <2>1, <2>2, <3>1
  <2>3. CASE ~(gates[g].id \in S /\ sess[gates[g].id].gate = g)
    BY <1>4, <2>3
  <2>4. QED
    BY <2>2, <2>3
<1>7. QED
  BY <1>5, <1>6

\* Sessions that leave the manager's map keep their name, sink and process.
LEMMA ReleaseFacts ==
  ASSUME Typed, NEW S, Release(S)
  PROVE  /\ held' = held \ S
         /\ ses' \in [Ids -> SesState]
         /\ \A id \in Ids : /\ ses'[id].name = ses[id].name /\ ses'[id].sink = ses[id].sink
                            /\ ses'[id].proc = ses[id].proc /\ ses'[id].pumped = ses[id].pumped
<1>1. \A x \in SesState : /\ [x EXCEPT !.owner = NoPage] \in SesState
                          /\ [x EXCEPT !.owner = NoPage].name = x.name
                          /\ [x EXCEPT !.owner = NoPage].sink = x.sink
                          /\ [x EXCEPT !.owner = NoPage].proc = x.proc
                          /\ [x EXCEPT !.owner = NoPage].pumped = x.pumped
  BY DEF SesState
<1>2. ses \in [Ids -> SesState]
  BY DEF Typed
<1>3. QED
  BY <1>1, <1>2 DEF Release

\* A request begins at a task that rests, before the shutdown, and costs one of its kind.
LEMMA AskedFacts ==
  ASSUME Typed, NEW t \in Tasks, NEW what \in Kinds \ {"all"}, Asked(t, what)
  PROVE  /\ task[t] = Idle /\ task[t].at = "idle" /\ closing = "no"
         /\ left' \in [Kinds -> Nat]
         /\ left'[what] = left[what] - 1
         /\ \A k \in Kinds \ {what, "all"} : left'[k] = left[k]
<1>1. task[t] = Idle /\ closing = "no" /\ left[what] > 0 /\ left["all"] > 0
  BY DEF Asked
<1>2. left' = [left EXCEPT ![what] = @ - 1, !["all"] = @ - 1]
  BY DEF Asked
<1>3. left \in [Kinds -> Nat] /\ "all" \in Kinds /\ what \in Kinds /\ what # "all"
  BY DEF Typed, Kinds
<1>4. left[what] - 1 \in Nat /\ left["all"] - 1 \in Nat
  BY <1>1, <1>3
<1>5. QED
  BY <1>1, <1>2, <1>3, <1>4 DEF Idle

\* A close or an adoption leaves the budgets of opens and attaches.
LEMMA AskedElse ==
  ASSUME Typed, NEW t \in Tasks, NEW what \in {"close", "adopt"}, Asked(t, what)
  PROVE  /\ task[t].at = "idle" /\ left' \in [Kinds -> Nat]
         /\ left'["attach"] = left["attach"] /\ left'["open"] = left["open"]
         /\ left["attach"] \in Nat /\ left["open"] \in Nat
<1>1. what \in Kinds \ {"all"} /\ {"open", "attach"} \subseteq Kinds \ {what, "all"}
  BY DEF Kinds
<1>2. left \in [Kinds -> Nat]
  BY DEF Typed
<1>3. QED
  BY <1>1, <1>2, AskedFacts

\* A budget is spent by one.
LEMMA SpendFacts ==
  ASSUME Typed, NEW what \in {"park", "reap"}, Spend(what)
  PROVE  /\ left' \in [Kinds -> Nat] /\ closing = "no"
         /\ left'["open"] = left["open"] /\ left'["attach"] = left["attach"]
  BY DEF Typed, Spend, Kinds

\* What a task keeps, by what it is doing.
LEMMA TaskKinds ==
  ASSUME NEW r \in TaskState
  PROVE  /\ r.at \in {"registered", "found", "killed"} => r \in OnSession
         /\ r.at \in {"gated", "swapped"} => r \in Attaching
         /\ r.at = "tagged" => r \in Tagged
         /\ r.at = "listed" => r \in Listed
         /\ r.at = "parking" => r \in ParkingSome
  BY DEF TaskState, Resting, OnSession, Attaching, Tagged, Listed, ParkingSome

\* Replacing one task's state leaves the others'.
LEMMA TaskBecomes ==
  ASSUME Typed, NEW t \in Tasks, NEW r \in TaskState, task' = [task EXCEPT ![t] = r]
  PROVE  task' \in [Tasks -> TaskState] /\ task'[t] = r /\ \A u \in Tasks \ {t} : task'[u] = task[u]
  BY DEF Typed
-----------------------------------------------------------------------------
\* Steps that leave a part of the state to the others.

\* Nobody takes or lets go of a lock.
LEMMA LockedKept ==
  ASSUME TypeInv, opening' = opening,
         \A id \in Ids : sess'[id].serial = sess[id].serial,
         \A u \in Tasks : \/ task'[u] = task[u]
                          \/ /\ task[u].at \notin {"spawning", "registered", "gated", "swapped"}
                             /\ task'[u].at \notin {"spawning", "registered", "gated", "swapped"}
  PROVE  Locked'
<1> USE DEF TypeInv
<1>1. \A u \in Tasks : task'[u].at \in {"spawning", "registered"} <=> opening' = u
  BY DEF Locked
<1>2. ASSUME NEW id \in Ids, sess'[id].serial # NoTask
      PROVE  task'[sess'[id].serial].at \in {"gated", "swapped"} /\ task'[sess'[id].serial].id = id
  <2>1. sess[id].serial \in Tasks /\ sess'[id].serial = sess[id].serial
    BY <1>2 DEF Typed, SessState
  <2>2. task[sess[id].serial].at \in {"gated", "swapped"} /\ task[sess[id].serial].id = id
    BY <1>2, <2>1 DEF Locked
  <2>3. QED
    BY <2>1, <2>2
<1>3. ASSUME NEW u \in Tasks, task'[u].at \in {"gated", "swapped"}
      PROVE  sess'[task'[u].id].serial = u
  <2>1. task'[u] = task[u] /\ task[u].at \in {"gated", "swapped"}
    BY <1>3
  <2>2. task[u] \in Attaching
    BY <2>1, TaskKinds DEF Typed
  <2>3. QED
    BY <2>1, <2>2 DEF Locked, Attaching
<1>4. QED
  BY <1>1, <1>2, <1>3 DEF Locked

\* No id is minted, no gate made, and nobody sets out to do either.
LEMMA CountedKept ==
  ASSUME TypeInv, nextId' = nextId, Len(gates') = Len(gates),
         left'["open"] \in Nat, left'["open"] <= left["open"],
         left'["attach"] \in Nat, left'["attach"] <= left["attach"],
         \A u \in Tasks : \/ task'[u] = task[u]
                          \/ /\ task[u].at # "found"
                             /\ task'[u].at \notin {"spawning", "found"}
  PROVE  Counted'
<1> USE DEF TypeInv
<1>1. Found' = Found
  BY DEF Found
<1>2. Cardinality(Found) \in Nat /\ Len(gates) \in Nat
  BY FS_CardinalityType DEF Counted, Typed
<1>3. /\ nextId \in Nat /\ left["open"] \in Nat /\ left["attach"] \in Nat
      /\ MaxAsked["open"] \in Nat /\ MaxAsked["attach"] \in Nat
  BY TableAssumption DEF Typed, Kinds
<1>4. \A u \in Tasks : task'[u].at = "spawning" => task[u].at = "spawning"
  OBVIOUS
<1>5. nextId' + left'["open"] <= MaxAsked["open"]
  BY <1>3 DEF Counted
<1>6. \A u \in Tasks : task'[u].at = "spawning" => nextId' + left'["open"] < MaxAsked["open"]
  BY <1>3, <1>4 DEF Counted
<1>7. IsFiniteSet(Found') /\ Len(gates') + Cardinality(Found') + left'["attach"] <= MaxAsked["attach"]
  BY <1>1, <1>2, <1>3 DEF Counted
<1>8. QED
  BY <1>5, <1>6, <1>7 DEF Counted

\* Sessions may be let go of and processes end; no open sets out, an adoption closes only
\* what was replaced, the reaper what is over.
LEMMA OrderKept ==
  ASSUME Typed, LifeOrder, nextId' = nextId, held' \in SUBSET held, down' = down \/ held' = {},
         \A id \in Ids : /\ ses'[id].name = ses[id].name
                         /\ \/ ses'[id].proc = ses[id].proc
                            \/ ses[id].proc = "running" /\ ses'[id].proc = "over",
         \/ reaper' = reaper
         \/ /\ reaper'.at = "listed" => \A id \in reaper'.dead : id \in Ids /\ ses[id].proc = "over"
            /\ reaper'.at \in {"closing", "killed"} =>
                 \A id \in reaper'.todo : id \in Ids /\ ses[id].proc = "over",
         \A u \in Tasks : \/ task'[u] = task[u]
                          \/ task'[u].at \notin {"spawning", "registered", "tagged"}
                          \/ /\ task'[u].at = "tagged"
                             /\ \A id \in task'[u].old : id \in Ids /\ id <= nextId /\ Replaced(id)
  PROVE  LifeOrder'
<1>1. Cardinality(held') <= Cardinality(held) /\ Cardinality(held) \in Nat /\ Cardinality(held') \in Nat
  <2>1. IsFiniteSet(1 .. nextId) /\ held \in SUBSET (1 .. nextId)
    BY FS_Interval DEF Typed
  <2>2. QED
    BY <2>1, FS_Subset, FS_CardinalityType
<1>2. \A id \in Ids : Replaced(id) => Replaced(id)'
  BY DEF Replaced
<1>3. \A id \in Ids : id <= nextId' <=> ses'[id].proc # "unborn"
  BY DEF LifeOrder
<1>4. ASSUME NEW u \in Tasks
      PROVE  /\ task'[u].at = "spawning" => Cardinality(held') < MaxPtys
             /\ task'[u].at = "registered" => task'[u].id <= nextId'
             /\ task'[u].at = "tagged" => \A id \in task'[u].old : id <= nextId' /\ Replaced(id)'
  <2>1. CASE task'[u] = task[u]
    <3>1. task[u].at = "tagged" => \A id \in task[u].old : id \in Ids
      BY TaskKinds DEF Typed, Tagged
    <3>2. QED
      BY <2>1, <3>1, <1>1, <1>2, TableAssumption DEF LifeOrder
  <2>2. CASE task'[u].at \notin {"spawning", "registered", "tagged"}
    BY <2>2
  <2>3. CASE task'[u].at = "tagged" /\ \A id \in task'[u].old : id \in Ids /\ id <= nextId /\ Replaced(id)
    BY <2>3, <1>2
  <2>4. QED
    BY <2>1, <2>2, <2>3
<1>5. /\ reaper'.at = "listed" => \A id \in reaper'.dead : ses'[id].proc = "over"
      /\ reaper'.at \in {"closing", "killed"} => \A id \in reaper'.todo : ses'[id].proc = "over"
  <2>1. /\ reaper.at = "listed" => reaper.dead \in SUBSET Ids
        /\ reaper.at \in {"closing", "killed"} => reaper.todo \in SUBSET Ids
    BY DEF Typed, ReaperState
  <2>2. QED
    BY <2>1 DEF LifeOrder
<1>6. down' => held' = {}
  BY DEF LifeOrder
<1>7. QED
  BY <1>3, <1>4, <1>5, <1>6 DEF LifeOrder

\* What the manager holds and the host lists was minted.
LEMMA Minted ==
  ASSUME TypeInv
  PROVE  held \in SUBSET Ids /\ table \in SUBSET Ids /\ \A id \in held \cup table : id <= nextId
<1>1. nextId \in Nat /\ left["open"] \in Nat /\ MaxAsked["open"] \in Nat
  BY TableAssumption DEF TypeInv, Typed, Kinds
<1>2. nextId <= MaxAsked["open"]
  BY <1>1 DEF TypeInv, Counted
<1>3. ASSUME NEW id \in 1 .. nextId PROVE id \in Ids /\ id <= nextId
  BY <1>1, <1>2 DEF Ids
<1>4. QED
  BY <1>3 DEF TypeInv, Typed

\* The host's sessions as SessionLife sees them.
LifeOf == [id \in Ids |-> IF id > nextId THEN "unborn"
                         ELSE IF id \notin held THEN "closed"
                         ELSE IF Starting(id) THEN "starting" ELSE ses[id].proc]
NamesOf == [id \in Ids |-> ses[id].name]

\* Nothing of that changes.
LEMMA LifeStutters ==
  ASSUME nextId' = nextId, held' = held, asked' = asked, down' = down,
         \A id \in Ids : ses'[id].name = ses[id].name /\ ses'[id].proc = ses[id].proc,
         \A u \in Tasks : \/ task'[u] = task[u]
                          \/ task[u].at # "registered" /\ task'[u].at # "registered"
  PROVE  UNCHANGED Life!lifeVars
<1>1. \A id \in Ids : Starting(id)' <=> Starting(id)
  BY DEF Starting
<1>2. LifeOf' = LifeOf
  BY <1>1 DEF LifeOf
<1>3. NamesOf' = NamesOf
  BY DEF NamesOf
<1>4. QED
  BY <1>2, <1>3 DEF Life!lifeVars, LifeOf, NamesOf

\* The mapped state at first is one SessionLife starts in.
LEMMA LifeStarts == TableInit => Life!LifeInit
  BY TableAssumption DEF TableInit, Life!LifeInit, Unborn, Ids
-----------------------------------------------------------------------------
\* Every step keeps the invariant, and is a step of SessionLife's or changes nothing there.

TableInv == TypeInv /\ LifeOrder
Simulated == Life!LifeNext \/ UNCHANGED Life!lifeVars

\* The steps of SessionLife's that a host takes.
LEMMA LifeSteps ==
  ASSUME NEW i \in Ids,
         \/ Life!Ends(i) \/ Life!CloseAsked(i) \/ Life!Started(i) \/ Life!Close(i)
         \/ \E n \in Names : Life!Open(i, n)
         \/ Life!ShutDown
  PROVE  Simulated
  BY DEF Simulated, Life!LifeNext

\* OpenStarts keeps the invariant, and is a step of SessionLife or none.
LEMMA OpenStartsInv ==
  ASSUME TableInv, NEW t \in Tasks, OpenStarts(t)
  PROVE  TableInv' /\ Simulated
<1> USE DEF TableInv, TypeInv
<1>1. /\ Asked(t, "open") /\ opening = NoTask /\ Cardinality(held) < MaxPtys /\ opening' = t
      /\ task' = [task EXCEPT ![t] = [at |-> "spawning"]]
      /\ UNCHANGED <<held, nextId, down, ses, table, sess, marked, reaper, closing, gates, asked, cut>>
  BY DEF OpenStarts
<1>2. /\ task[t].at = "idle" /\ left' \in [Kinds -> Nat]
      /\ left'["open"] = left["open"] - 1 /\ left'["attach"] = left["attach"]
  BY <1>1, AskedFacts DEF Kinds
<1>3. task' \in [Tasks -> TaskState] /\ task'[t].at = "spawning" /\ \A u \in Tasks \ {t} : task'[u] = task[u]
  <2>1. [at |-> "spawning"] \in TaskState
    BY DEF TaskState, Resting
  <2>2. QED
    BY <1>1, <2>1, TaskBecomes
<1>4. Typed'
  BY <1>1, <1>2, <1>3 DEF Typed
<1>5. Counted'
  <2>1. Found' = Found
    BY <1>2, <1>3 DEF Found
  <2>2. Cardinality(Found) \in Nat /\ Len(gates) \in Nat
    BY FS_CardinalityType DEF Counted, Typed
  <2>3. nextId \in Nat /\ left["open"] \in Nat /\ MaxAsked["open"] \in Nat
    BY TableAssumption DEF Typed, Kinds
  <2>4. nextId' + left'["open"] < MaxAsked["open"]
    BY <1>1, <1>2, <2>3 DEF Counted
  <2>5. QED
    BY <1>1, <1>2, <2>1, <2>2, <2>3, <2>4 DEF Counted, Typed
<1>6. Locked'
  <2>1. \A u \in Tasks : task[u].at \notin {"spawning", "registered"}
    BY <1>1, TableAssumption DEF Locked
  <2>2. ASSUME NEW id \in Ids, sess[id].serial # NoTask PROVE sess[id].serial \in Tasks \ {t}
    <3>1. sess[id].serial \in Tasks
      BY <2>2 DEF Typed, SessState
    <3>2. QED
      BY <2>2, <3>1, <1>2 DEF Locked
  <2>3. QED
    BY <1>1, <1>2, <1>3, <2>1, <2>2 DEF Locked
<1>7. LifeOrder'
  BY <1>1, <1>3 DEF LifeOrder, Replaced
<1>8. UNCHANGED Life!lifeVars
  BY <1>1, <1>2, <1>3, LifeStutters
<1>9. QED
  BY <1>4, <1>5, <1>6, <1>7, <1>8 DEF Simulated

\* An open is over: its task rests, and nobody holds `opening`.
LEMMA OpenOverFacts ==
  ASSUME TypeInv, NEW t \in Tasks, task[t].at \in {"spawning", "registered"}, OpenOver(t),
         UNCHANGED <<nextId, sess, gates, left>>
  PROVE  /\ task' \in [Tasks -> TaskState] /\ task'[t] = Idle /\ \A u \in Tasks \ {t} : task'[u] = task[u]
         /\ \A u \in Tasks : task'[u].at \notin {"spawning", "registered"}
         /\ opening' = NoTask
         /\ Counted' /\ Locked'
<1> USE DEF TypeInv
<1>1. task' \in [Tasks -> TaskState] /\ task'[t] = Idle /\ \A u \in Tasks \ {t} : task'[u] = task[u]
  <2>1. Idle \in TaskState
    BY DEF Idle, TaskState, Resting
  <2>2. QED
    BY <2>1, TaskBecomes DEF OpenOver
<1>2. opening = t /\ opening' = NoTask
  BY DEF OpenOver, Locked
<1>3. \A u \in Tasks : task'[u].at \notin {"spawning", "registered"}
  BY <1>1, <1>2 DEF Locked, Idle
<1>4. Counted'
  BY <1>1, CountedKept DEF Idle, Typed, Kinds
<1>5. Locked'
  <2>1. \A id \in Ids : sess[id].serial # NoTask => sess[id].serial \in Tasks \ {t}
    BY DEF Locked, Typed, SessState
  <2>2. QED
    BY <1>1, <1>2, <1>3, <2>1, TableAssumption DEF Locked, Idle
<1>6. QED
  BY <1>1, <1>2, <1>3, <1>4, <1>5

\* SpawnFails keeps the invariant, and is a step of SessionLife or none.
LEMMA SpawnFailsInv ==
  ASSUME TableInv, NEW t \in Tasks, SpawnFails(t)
  PROVE  TableInv' /\ Simulated
<1>1. /\ task[t].at = "spawning" /\ OpenOver(t)
      /\ UNCHANGED <<held, nextId, down, ses, table, sess, marked, reaper, closing, gates, left, asked, cut>>
  BY DEF SpawnFails, history
<1>2. /\ task' \in [Tasks -> TaskState] /\ task'[t] = Idle /\ \A u \in Tasks \ {t} : task'[u] = task[u]
      /\ opening' = NoTask /\ Counted' /\ Locked'
  BY <1>1, OpenOverFacts DEF TableInv
<1>3. Typed'
  BY <1>1, <1>2 DEF TableInv, TypeInv, Typed
<1>4. LifeOrder'
  BY <1>1, <1>2, OrderKept DEF TableInv, TypeInv, Idle
<1>5. UNCHANGED Life!lifeVars
  BY <1>1, <1>2, LifeStutters DEF Idle
<1>6. QED
  BY <1>2, <1>3, <1>4, <1>5 DEF TableInv, TypeInv, Simulated

\* The session an open put on the table starts, unless it was closed meanwhile.
LEMMA InsertsInv ==
  ASSUME TableInv, NEW t \in Tasks, Inserts(t)
  PROVE  TableInv' /\ Simulated
<1>a. task[t].at = "registered"
  BY DEF Inserts
<1>b. PICK id \in Ids : id = task[t].id
  BY <1>a, TaskKinds DEF TableInv, TypeInv, Typed, OnSession
<1>1. /\ task[t].at = "registered" /\ OpenOver(t) /\ table' = table \cup {id}
      /\ UNCHANGED <<held, nextId, down, ses, sess, marked, reaper, closing, gates, left, asked, cut>>
  BY <1>b DEF Inserts, history
<1>2. /\ task' \in [Tasks -> TaskState] /\ task'[t] = Idle /\ \A u \in Tasks \ {t} : task'[u] = task[u]
      /\ \A u \in Tasks : task'[u].at \notin {"spawning", "registered"}
      /\ opening' = NoTask /\ Counted' /\ Locked'
  BY <1>1, OpenOverFacts DEF TableInv
<1>3. id \in 1 .. nextId
  BY <1>1, <1>b, TableAssumption DEF TableInv, TypeInv, Typed, LifeOrder, Ids
<1>4. Typed'
  BY <1>1, <1>2, <1>3 DEF TableInv, TypeInv, Typed
<1>5. LifeOrder'
  BY <1>1, <1>2, OrderKept DEF TableInv, TypeInv, Idle
<1>6. Simulated
  <2>1. \A i \in Ids : ~Starting(i)' /\ (Starting(i) <=> i = id)
    BY <1>1, <1>2, <1>b DEF Starting, TableInv, TypeInv, Locked
  <2>2. NamesOf' = NamesOf
    BY <1>1 DEF NamesOf
  <2>3. CASE id \notin held
    <3>1. LifeOf' = LifeOf
      BY <1>1, <2>1, <2>3 DEF LifeOf
    <3>2. QED
      BY <1>1, <2>2, <3>1 DEF Simulated, Life!lifeVars, LifeOf, NamesOf
  <2>4. CASE id \in held
    <3>1. ses[id].proc \in {"running", "over"}
      BY <1>3, TableAssumption DEF TableInv, TypeInv, LifeOrder, Typed, SesState, Processes
    <3>0. ~(id > nextId)
      BY <1>3 DEF TableInv, TypeInv, Typed
    <3>2. LifeOf[id] = "starting" /\ LifeOf' = [LifeOf EXCEPT ![id] = ses[id].proc]
      <4>1. LifeOf[id] = "starting" /\ LifeOf'[id] = ses[id].proc
        BY <1>1, <3>0, <2>1, <2>4 DEF LifeOf
      <4>2. \A i \in Ids \ {id} : LifeOf'[i] = LifeOf[i]
        BY <1>1, <2>1 DEF LifeOf
      <4>3. QED
        BY <4>1, <4>2 DEF LifeOf
    <3>3. Life!Started(id)
      BY <1>1, <2>2, <3>1, <3>2 DEF Life!Started, LifeOf, NamesOf
    <3>4. QED
      BY <3>3, LifeSteps
  <2>5. QED
    BY <2>3, <2>4
<1>7. QED
  BY <1>2, <1>4, <1>5, <1>6 DEF TableInv, TypeInv
\* A session the manager holds is on SessionLife's table, and no other.
LEMMA HeldSeen ==
  ASSUME TableInv
  PROVE  /\ \A i \in Ids : (i > nextId) <=> LifeOf[i] = "unborn"
         /\ \A i \in held : /\ i \in Ids /\ ~(i > nextId)
                            /\ LifeOf[i] = IF Starting(i) THEN "starting" ELSE ses[i].proc
                            /\ ses[i].proc \in {"running", "over"}
         /\ {i \in Ids : LifeOf[i] \in {"starting", "running", "over"}} = held
<1> USE DEF TableInv, TypeInv
<1>1. ASSUME NEW i \in held PROVE i \in Ids /\ ~(i > nextId) /\ i <= nextId
  BY Minted DEF Typed
<1>2. \A i \in held : ses[i].proc \in {"running", "over"}
  BY <1>1 DEF LifeOrder, Typed, SesState, Processes
<1>3. \A i \in held : LifeOf[i] = IF Starting(i) THEN "starting" ELSE ses[i].proc
  BY <1>1 DEF LifeOf
<1>4. \A i \in Ids : i \notin held => LifeOf[i] \in {"unborn", "closed"}
  BY DEF LifeOf
<1>5. \A i \in Ids : (i > nextId) <=> LifeOf[i] = "unborn"
  <2>1. \A i \in Ids : ~(i > nextId) /\ i \notin held => LifeOf[i] = "closed"
    BY DEF LifeOf
  <2>2. \A i \in Ids : i > nextId => LifeOf[i] = "unborn"
    BY DEF LifeOf
  <2>3. QED
    BY <1>2, <1>3, <2>1, <2>2
<1>6. {i \in Ids : LifeOf[i] \in {"starting", "running", "over"}} = held
  BY <1>1, <1>2, <1>3, <1>4
<1>7. QED
  BY <1>1, <1>2, <1>3, <1>5, <1>6

\* The manager lets one session go.
LEMMA LifeLetsGo ==
  ASSUME TableInv, NEW id \in Ids, held' = held \ {id}, nextId' = nextId,
         \A i \in Ids : ses'[i].name = ses[i].name /\ ses'[i].proc = ses[i].proc,
         \A i \in Ids \ {id} : Starting(i)' <=> Starting(i)
  PROVE  /\ NamesOf' = NamesOf
         /\ id \notin held => LifeOf' = LifeOf
         /\ id \in held => LifeOf' = [LifeOf EXCEPT ![id] = "closed"]
<1>1. NamesOf' = NamesOf
  BY DEF NamesOf
<1>2. \A i \in Ids \ {id} : LifeOf'[i] = LifeOf[i]
  BY DEF LifeOf
<1>3. id \notin held => LifeOf'[id] = LifeOf[id]
  BY DEF LifeOf
<1>4. id \in held => LifeOf'[id] = "closed"
  BY HeldSeen DEF LifeOf
<1>5. QED
  BY <1>1, <1>2, <1>3, <1>4 DEF LifeOf

\* A session is minted by the only open under way, within max_ptys.
LEMMA RegistersInv ==
  ASSUME TableInv, NEW t \in Tasks, NEW page \in Pages, NEW n \in Names, Registers(t, page, n)
  PROVE  TableInv' /\ Simulated
<1> USE DEF TableInv, TypeInv
<1>1. PICK id \in Ids : id = nextId + 1
  <2>1. nextId \in Nat /\ left["open"] \in Nat /\ MaxAsked["open"] \in Nat
    BY TableAssumption DEF Typed, Kinds
  <2>2. nextId + left["open"] < MaxAsked["open"]
    BY DEF Registers, Counted
  <2>3. QED
    BY <2>1, <2>2 DEF Ids
<1>2. /\ task[t].at = "spawning" /\ ~down /\ nextId' = id /\ held' = held \cup {id}
      /\ ses' = [ses EXCEPT ![id] = [owner |-> page, name |-> n, sink |-> Parked,
                                     proc |-> "running", pumped |-> FALSE]]
      /\ task' = [task EXCEPT ![t] = [at |-> "registered", id |-> id]]
      /\ UNCHANGED <<down, table, sess, marked, opening, reaper, closing, gates, left, asked, cut>>
  BY <1>1 DEF Registers, history
<1>n. nextId \in Nat /\ id \in Nat /\ left["open"] \in Nat /\ MaxAsked["open"] \in Nat
  BY TableAssumption DEF Typed, Ids, Kinds
<1>3. /\ task' \in [Tasks -> TaskState] /\ task'[t] = [at |-> "registered", id |-> id]
      /\ \A u \in Tasks \ {t} : task'[u] = task[u]
  <2>1. [at |-> "registered", id |-> id] \in TaskState
    BY DEF TaskState, OnSession
  <2>2. QED
    BY <1>2, <2>1, TaskBecomes
<1>4. /\ ses' \in [Ids -> SesState] /\ \A i \in Ids \ {id} : ses'[i] = ses[i]
      /\ ses'[id].proc = "running" /\ ses'[id].name = n
  <2>1. [owner |-> page, name |-> n, sink |-> Parked, proc |-> "running", pumped |-> FALSE] \in SesState
    BY DEF SesState, Processes
  <2>2. QED
    BY <1>2, <2>1 DEF Typed
<1>5. Typed'
  BY <1>1, <1>2, <1>3, <1>4, <1>n DEF Typed
<1>6. Counted'
  <2>1. Found' = Found
    BY <1>2, <1>3 DEF Found
  <2>2. \A u \in Tasks : task'[u].at # "spawning"
    BY <1>2, <1>3 DEF Locked
  <2>3. nextId' + left'["open"] <= MaxAsked["open"]
    BY <1>1, <1>2, <1>n DEF Counted
  <2>4. QED
    BY <1>2, <2>1, <2>2, <2>3 DEF Counted
<1>7. Locked'
  <2>1. ASSUME NEW i \in Ids, sess[i].serial # NoTask PROVE sess[i].serial \in Tasks \ {t}
    <3>1. sess[i].serial \in Tasks
      BY <2>1 DEF Typed, SessState
    <3>2. QED
      BY <2>1, <3>1, <1>2 DEF Locked
  <2>2. QED
    BY <1>2, <1>3, <2>1 DEF Locked
<1>8. LifeOrder'
  <2>1. \A i \in Ids : i <= nextId' <=> ses'[i].proc # "unborn"
    BY <1>1, <1>2, <1>4, <1>n, TableAssumption DEF LifeOrder, Ids
  <2>2. \A u \in Tasks : /\ task'[u].at # "spawning"
                         /\ task'[u].at = "registered" => task'[u].id <= nextId'
    BY <1>2, <1>3, <1>n DEF Locked
  <2>3. ASSUME NEW u \in Tasks, task'[u].at = "tagged", NEW i \in task'[u].old
        PROVE  i <= nextId' /\ Replaced(i)'
    <3>1. task'[u] = task[u] /\ task[u].at = "tagged" /\ i \in Ids
      BY <2>3, <1>3, TaskKinds DEF Typed, Tagged
    <3>2. i <= nextId /\ Replaced(i) /\ i # id
      BY <2>3, <3>1, <1>1, <1>n, TableAssumption DEF LifeOrder, Ids
    <3>3. \A j \in Ids : j <= nextId => ses'[j] = ses[j] /\ j <= nextId'
      BY <1>1, <1>2, <1>4, <1>n, TableAssumption DEF Ids
    <3>4. QED
      BY <3>1, <3>2, <3>3 DEF Replaced
  <2>4. /\ reaper'.at = "listed" => \A i \in reaper'.dead : ses'[i].proc = "over"
        /\ reaper'.at \in {"closing", "killed"} => \A i \in reaper'.todo : ses'[i].proc = "over"
    <3>1. ses[id].proc = "unborn"
      BY <1>1, <1>n DEF LifeOrder
    <3>2. /\ reaper.at = "listed" => reaper.dead \in SUBSET Ids
          /\ reaper.at \in {"closing", "killed"} => reaper.todo \in SUBSET Ids
      BY DEF Typed, ReaperState
    <3>3. QED
      BY <1>2, <1>4, <3>1, <3>2 DEF LifeOrder
  <2>5. QED
    BY <1>2, <2>1, <2>2, <2>3, <2>4 DEF LifeOrder
<1>9. Simulated
  <2>1. \A i \in Ids : ~Starting(i) /\ (Starting(i)' <=> i = id)
    BY <1>2, <1>3 DEF Starting, Locked
  <2>2. id > nextId /\ ~(id > nextId') /\ id \notin held
    BY <1>1, <1>2, <1>n DEF Typed
  <2>3. \A i \in Ids : i # id => (i > nextId' <=> i > nextId)
    BY <1>1, <1>2, <1>n, TableAssumption DEF Ids
  <2>4. LifeOf' = [LifeOf EXCEPT ![id] = "starting"]
    <3>1. LifeOf'[id] = "starting"
      BY <1>2, <2>1, <2>2 DEF LifeOf
    <3>2. \A i \in Ids \ {id} : LifeOf'[i] = LifeOf[i]
      BY <1>2, <1>4, <2>1, <2>3 DEF LifeOf
    <3>3. QED
      BY <3>1, <3>2 DEF LifeOf
  <2>5. NamesOf' = [NamesOf EXCEPT ![id] = n]
    BY <1>4 DEF NamesOf
  <2>6. LifeOf[id] = "unborn" /\ \A before \in Ids : before < id => LifeOf[before] # "unborn"
    BY <1>1, <1>n, <2>2, HeldSeen, TableAssumption DEF Ids
  <2>7. Cardinality({i \in Ids : LifeOf[i] \in {"starting", "running", "over"}}) < MaxPtys
    BY <1>2, HeldSeen DEF LifeOrder
  <2>8. Life!Open(id, n)
    <3>1. Life!Cardinality(Life!Held) < MaxPtys
      <4>1. Life!Held = {i \in Ids : LifeOf[i] \in {"starting", "running", "over"}}
        BY DEF Life!Held, LifeOf
      <4>2. Life!Cardinality(Life!Held) = Cardinality(Life!Held)
        BY DEF Cardinality, Life!Cardinality
      <4>3. QED
        BY <2>7, <4>1, <4>2
    <3>2. ~down /\ asked' = asked /\ down' = down
      BY <1>2
    <3>3. QED
      BY <2>4, <2>5, <2>6, <3>1, <3>2 DEF Life!Open, LifeOf, NamesOf
  <2>9. QED
    BY <2>8, LifeSteps
<1>10. QED
  BY <1>5, <1>6, <1>7, <1>8, <1>9

\* The manager lets go of a session that is over, failed to start, or was replaced.
LEMMA LifeCloses ==
  ASSUME TableInv, NEW id \in Ids, held' = held \ {id}, nextId' = nextId, asked' = asked, down' = down,
         \A i \in Ids : ses'[i].name = ses[i].name /\ ses'[i].proc = ses[i].proc,
         \A i \in Ids \ {id} : Starting(i)' <=> Starting(i),
         id \in held => ses[id].proc = "over" \/ Starting(id) \/ Replaced(id)
  PROVE  Simulated
<1>1. /\ NamesOf' = NamesOf
      /\ id \notin held => LifeOf' = LifeOf
      /\ id \in held => LifeOf' = [LifeOf EXCEPT ![id] = "closed"]
  BY LifeLetsGo
<1>2. CASE id \notin held
  BY <1>1, <1>2 DEF Simulated, Life!lifeVars, LifeOf, NamesOf
<1>3. CASE id \in held
  <2>1. id \in Life!Held
    <3>1. LifeOf[id] \in {"starting", "running", "over"}
      BY <1>3, HeldSeen
    <3>2. QED
      BY <3>1 DEF Life!Held, LifeOf
  <2>2. LifeOf[id] = "over" \/ LifeOf[id] = "starting" \/ Life!Superseded(id)
    <3>1. CASE ses[id].proc = "over" \/ Starting(id)
      BY <1>3, <3>1, HeldSeen
    <3>2. CASE Replaced(id)
      <4>1. PICK newer \in Ids : newer > id /\ newer <= nextId /\ ses[newer].name = ses[id].name
        BY <3>2 DEF Replaced
      <4>2. LifeOf[newer] # "unborn"
        <5>1. newer \in Nat /\ nextId \in Nat
          BY DEF Ids, TableInv, TypeInv, Typed
        <5>2. ~(newer > nextId)
          BY <4>1, <5>1
        <5>3. QED
          BY <5>2, HeldSeen
      <4>3. NamesOf[id] # NoName /\ NamesOf[newer] = NamesOf[id]
        BY <3>2, <4>1 DEF Replaced, NamesOf
      <4>4. Life!Superseded(id)
        BY <4>1, <4>2, <4>3 DEF Life!Superseded, LifeOf, NamesOf
      <4>5. QED
        BY <4>4
    <3>3. QED
      BY <1>3, <3>1, <3>2
  <2>3. Life!Close(id)
    BY <1>1, <1>3, <2>1, <2>2 DEF Life!Close, LifeOf, NamesOf
  <2>4. QED
    BY <2>3, LifeSteps
<1>4. QED
  BY <1>2, <1>3

\* ReaderFails keeps the invariant, and is a step of SessionLife or none.
LEMMA ReaderFailsInv ==
  ASSUME TableInv, NEW t \in Tasks, ReaderFails(t)
  PROVE  TableInv' /\ Simulated
<1> USE DEF TableInv, TypeInv
<1>a. task[t].at = "registered"
  BY DEF ReaderFails
<1>b. PICK id \in Ids : id = task[t].id
  BY <1>a, TaskKinds DEF Typed, OnSession
<1>1. /\ Release({id}) /\ OpenOver(t)
      /\ UNCHANGED <<nextId, down, table, sess, marked, reaper, closing, gates, left, asked, cut>>
  BY <1>b DEF ReaderFails, history
<1>2. /\ task' \in [Tasks -> TaskState] /\ task'[t] = Idle /\ \A u \in Tasks \ {t} : task'[u] = task[u]
      /\ \A u \in Tasks : task'[u].at \notin {"spawning", "registered"}
      /\ opening' = NoTask /\ Counted' /\ Locked'
  BY <1>a, <1>1, OpenOverFacts
<1>3. /\ held' = held \ {id} /\ ses' \in [Ids -> SesState]
      /\ \A i \in Ids : ses'[i].name = ses[i].name /\ ses'[i].proc = ses[i].proc
  BY <1>1, ReleaseFacts
<1>4. Typed'
  BY <1>1, <1>2, <1>3 DEF Typed
<1>5. LifeOrder'
  BY <1>1, <1>2, <1>3, OrderKept DEF Idle
<1>6. Simulated
  <2>1. Starting(id) /\ \A i \in Ids \ {id} : Starting(i)' <=> Starting(i)
    BY <1>a, <1>b, <1>2 DEF Starting, Locked
  <2>2. QED
    BY <1>1, <1>3, <2>1, LifeCloses
<1>7. QED
  BY <1>2, <1>4, <1>5, <1>6

\* A process that ends is seen to end only while it is held and not starting.
LEMMA ProcessEndsInv ==
  ASSUME TableInv, NEW id \in Ids, ProcessEnds(id)
  PROVE  TableInv' /\ Simulated
<1> USE DEF TableInv, TypeInv
<1>1. /\ ses[id].proc = "running" /\ left["end"] > 0 /\ left' = [left EXCEPT !["end"] = @ - 1]
      /\ ses' = [ses EXCEPT ![id].proc = "over"]
      /\ UNCHANGED <<held, nextId, down, table, sess, marked, opening, task, reaper, closing, gates, asked, cut>>
  BY DEF ProcessEnds, Alive
<1>2. /\ left' \in [Kinds -> Nat] /\ left'["open"] = left["open"] /\ left'["attach"] = left["attach"]
      /\ left["open"] \in Nat /\ left["attach"] \in Nat
  BY <1>1 DEF Typed, Kinds
<1>3. /\ ses' \in [Ids -> SesState] /\ \A i \in Ids \ {id} : ses'[i] = ses[i]
      /\ ses'[id].proc = "over" /\ ses'[id].name = ses[id].name
  <2>1. [ses[id] EXCEPT !.proc = "over"] \in SesState
    BY DEF Typed, SesState, Processes
  <2>2. QED
    BY <1>1, <2>1 DEF Typed, SesState
<1>4. Typed'
  BY <1>1, <1>2, <1>3 DEF Typed
<1>5. Counted'
  BY <1>1, <1>2, CountedKept
<1>6. Locked'
  BY <1>1, LockedKept
<1>7. LifeOrder'
  BY <1>1, <1>3, OrderKept
<1>8. Simulated
  <2>1. NamesOf' = NamesOf
    BY <1>3 DEF NamesOf
  <2>2. \A i \in Ids : Starting(i)' <=> Starting(i)
    BY <1>1 DEF Starting
  <2>3. \A i \in Ids \ {id} : LifeOf'[i] = LifeOf[i]
    BY <1>1, <1>3, <2>2 DEF LifeOf
  <2>4. CASE id \in held /\ ~Starting(id)
    <3>1. LifeOf[id] = "running" /\ ~(id > nextId)
      BY <1>1, <2>4, HeldSeen
    <3>2. LifeOf'[id] = "over"
      BY <1>1, <1>3, <2>2, <2>4, <3>1 DEF LifeOf
    <3>3. LifeOf' = [LifeOf EXCEPT ![id] = "over"]
      BY <2>3, <3>2 DEF LifeOf
    <3>4. Life!Ends(id)
      BY <1>1, <2>1, <3>1, <3>3 DEF Life!Ends, LifeOf, NamesOf
    <3>5. QED
      BY <3>4, LifeSteps
  <2>5. CASE ~(id \in held /\ ~Starting(id))
    <3>1. id <= nextId /\ ~(id > nextId)
      BY <1>1, TableAssumption DEF LifeOrder, Typed, Ids
    <3>2. LifeOf'[id] = LifeOf[id]
      BY <1>1, <2>2, <2>5, <3>1 DEF LifeOf
    <3>3. LifeOf' = LifeOf
      BY <2>3, <3>2 DEF LifeOf
    <3>4. QED
      BY <1>1, <2>1, <3>3 DEF Simulated, Life!lifeVars, LifeOf, NamesOf
  <2>6. QED
    BY <2>4, <2>5
<1>9. QED
  BY <1>4, <1>5, <1>6, <1>7, <1>8
-----------------------------------------------------------------------------
\* The steps that touch gates, sinks and routes: what each leaves behind.

\* Replacing one session of the manager's leaves the others.
LEMMA SesBecomes ==
  ASSUME Typed, NEW id \in Ids, NEW r \in SesState, ses' = [ses EXCEPT ![id] = r]
  PROVE  ses' \in [Ids -> SesState] /\ ses'[id] = r /\ \A i \in Ids \ {id} : ses'[i] = ses[i]
  BY DEF Typed

\* Replacing one session of the host's leaves the others.
LEMMA SessBecomes ==
  ASSUME Typed, NEW id \in Ids, NEW r \in SessState, sess' = [sess EXCEPT ![id] = r]
  PROVE  sess' \in [Ids -> SessState] /\ sess'[id] = r /\ \A i \in Ids \ {id} : sess'[i] = sess[i]
  BY DEF Typed

\* Replacing one gate leaves the others.
LEMMA GateBecomes ==
  ASSUME gates \in Seq(Gate), NEW g, NEW r \in Gate, gates' = [gates EXCEPT ![g] = r]
  PROVE  /\ gates' \in Seq(Gate) /\ Len(gates') = Len(gates)
         /\ g \in 1 .. Len(gates) => gates'[g] = r
         /\ \A h \in 1 .. Len(gates) : h # g => gates'[h] = gates[h]
<1>1. DOMAIN gates = 1 .. Len(gates) /\ \A h \in 1 .. Len(gates) : gates[h] \in Gate
  OBVIOUS
<1>2. gates' = [h \in 1 .. Len(gates) |-> IF h = g THEN r ELSE gates[h]]
  BY <1>1
<1>3. Len(gates) \in Nat
  OBVIOUS
<1>4. PICK n \in Nat : n = Len(gates)
  BY <1>3
<1>5. gates' \in [1 .. n -> Gate]
  BY <1>1, <1>2, <1>4
<1>6. gates' \in Seq(Gate)
  BY <1>5
<1>7. Len(gates') = n
  BY <1>2, <1>4, <1>6
<1>8. QED
  BY <1>2, <1>4, <1>6, <1>7

\* A reader that is done: its session has ended, if it has a sink, and its gate was told, if
\* it is answered and not retired.
LEMMA PumpEndsFacts ==
  ASSUME Typed, NEW id \in Ids, PumpEnds(id)
  PROVE  /\ ses' \in [Ids -> SesState] /\ \A i \in Ids \ {id} : ses'[i] = ses[i]
         /\ ses'[id].name = ses[id].name /\ ses'[id].proc = ses[id].proc /\ ses'[id].sink = ses[id].sink
         /\ sess' \in [Ids -> SessState]
         /\ \A i \in Ids : /\ sess'[i].route = sess[i].route /\ sess'[i].gate = sess[i].gate
                           /\ sess'[i].serial = sess[i].serial
                           /\ sess[i].ended => sess'[i].ended
         /\ ses[id].sink # NoSink => sess'[id].ended
         /\ gates' \in Seq(Gate) /\ Len(gates') = Len(gates)
         /\ \A g \in 1 .. Len(gates) :
              /\ gates'[g].id = gates[g].id /\ gates'[g].retired = gates[g].retired
              /\ gates'[g].answered = gates[g].answered
              /\ gates[g].told => gates'[g].told
              /\ g \in Gates /\ ses[id].sink = g /\ gates[g].answered /\ ~gates[g].retired => gates'[g].told
<1>1. /\ ses' \in [Ids -> SesState] /\ \A i \in Ids \ {id} : ses'[i] = ses[i]
      /\ ses'[id].name = ses[id].name /\ ses'[id].proc = ses[id].proc /\ ses'[id].sink = ses[id].sink
  <2>1. [ses[id] EXCEPT !.pumped = TRUE] \in SesState
    BY DEF Typed, SesState
  <2>2. ses' = [ses EXCEPT ![id] = [ses[id] EXCEPT !.pumped = TRUE]]
    BY DEF PumpEnds
  <2>3. /\ ses' \in [Ids -> SesState] /\ ses'[id] = [ses[id] EXCEPT !.pumped = TRUE]
        /\ \A i \in Ids \ {id} : ses'[i] = ses[i]
    BY <2>1, <2>2, SesBecomes
  <2>4. ses[id] \in SesState
    BY DEF Typed
  <2>5. QED
    BY <2>3, <2>4 DEF SesState
<1>2. /\ sess' \in [Ids -> SessState]
      /\ \A i \in Ids : /\ sess'[i].route = sess[i].route /\ sess'[i].gate = sess[i].gate
                        /\ sess'[i].serial = sess[i].serial
                        /\ sess[i].ended => sess'[i].ended
      /\ ses[id].sink # NoSink => sess'[id].ended
  <2>1. CASE ses[id].sink = NoSink
    BY <2>1 DEF PumpEnds, Typed
  <2>2. CASE ses[id].sink # NoSink
    <3>1. sess[id] \in SessState
      BY DEF Typed
    <3>2. [sess[id] EXCEPT !.ended = TRUE] \in SessState
      BY <3>1 DEF SessState
    <3>3. sess' = [sess EXCEPT ![id] = [sess[id] EXCEPT !.ended = TRUE]]
      BY <2>2 DEF PumpEnds
    <3>4. /\ sess' \in [Ids -> SessState] /\ sess'[id] = [sess[id] EXCEPT !.ended = TRUE]
          /\ \A i \in Ids \ {id} : sess'[i] = sess[i]
      BY <3>2, <3>3, SessBecomes
    <3>5. QED
      BY <3>1, <3>4 DEF SessState
  <2>3. QED
    BY <2>1, <2>2
<1>3. /\ gates' \in Seq(Gate) /\ Len(gates') = Len(gates)
      /\ \A g \in 1 .. Len(gates) :
           /\ gates'[g].id = gates[g].id /\ gates'[g].retired = gates[g].retired
           /\ gates'[g].answered = gates[g].answered
           /\ gates[g].told => gates'[g].told
           /\ g \in Gates /\ ses[id].sink = g /\ gates[g].answered /\ ~gates[g].retired => gates'[g].told
  <2>0. PICK s : s = ses[id].sink
    OBVIOUS
  <2>1. gates \in Seq(Gate)
    BY DEF Typed
  <2>2. CASE s \in 1 .. Len(gates) /\ s \in Gates /\ gates[s].answered /\ ~gates[s].retired
    <3>1. gates[s] \in Gate
      BY <2>1, <2>2
    <3>2. [gates[s] EXCEPT !.told = TRUE] \in Gate
      BY <3>1 DEF Gate
    <3>r. PICK r \in Gate : r = [gates[s] EXCEPT !.told = TRUE]
      BY <3>2
    <3>3. gates' = [gates EXCEPT ![s] = r]
      BY <2>0, <2>2, <3>r DEF PumpEnds
    <3>4. /\ gates' \in Seq(Gate) /\ Len(gates') = Len(gates)
          /\ gates'[s] = r
          /\ \A h \in 1 .. Len(gates) : h # s => gates'[h] = gates[h]
      BY <2>1, <2>2, <3>3, GateBecomes
    <3>5. QED
      BY <2>0, <3>1, <3>r, <3>4 DEF Gate
  <2>3. CASE ~(s \in 1 .. Len(gates) /\ s \in Gates /\ gates[s].answered /\ ~gates[s].retired)
    <3>1. gates' = gates
      <4>1. gates' = gates \/ (s \notin 1 .. Len(gates) /\ gates' = [gates EXCEPT ![s].told = TRUE])
        BY <2>0, <2>3 DEF PumpEnds
      <4>2. DOMAIN gates = 1 .. Len(gates)
        BY <2>1
      <4>3. s \notin DOMAIN gates => [gates EXCEPT ![s].told = TRUE] = gates
        BY <2>1
      <4>4. QED
        BY <4>1, <4>2, <4>3
    <3>2. QED
      BY <2>0, <2>1, <2>3, <3>1
  <2>4. QED
    BY <2>2, <2>3
<1>4. QED
  BY <1>1, <1>2, <1>3

\* PumpEnds keeps the invariant, and is a step of SessionLife or none.
LEMMA PumpEndsInv ==
  ASSUME TableInv, NEW id \in Ids, PumpEnds(id)
  PROVE  TableInv' /\ Simulated
<1> USE DEF TableInv, TypeInv
<1>1. UNCHANGED <<held, nextId, down, table, marked, opening, task, reaper, closing, left, asked, cut>>
  BY DEF PumpEnds, history
<1>2. /\ ses' \in [Ids -> SesState] /\ sess' \in [Ids -> SessState]
      /\ gates' \in Seq(Gate) /\ Len(gates') = Len(gates)
      /\ \A i \in Ids : /\ ses'[i].name = ses[i].name /\ ses'[i].proc = ses[i].proc
                        /\ sess'[i].serial = sess[i].serial
  BY PumpEndsFacts
<1>3. Typed'
  BY <1>1, <1>2 DEF Typed
<1>4. Counted'
  BY <1>1, <1>2, CountedKept DEF Typed, Kinds
<1>5. Locked'
  BY <1>1, <1>2, LockedKept
<1>6. LifeOrder'
  BY <1>1, <1>2, OrderKept
<1>7. UNCHANGED Life!lifeVars
  BY <1>1, <1>2, LifeStutters
<1>8. QED
  BY <1>3, <1>4, <1>5, <1>6, <1>7 DEF Simulated

\* An attach that looked its session up may make a gate: the bound allows for it.
LEMMA AttachFindsInv ==
  ASSUME TableInv, NEW t \in Tasks, NEW id \in Ids, AttachFinds(t, id)
  PROVE  TableInv' /\ Simulated
<1> USE DEF TableInv, TypeInv
<1>1. /\ Asked(t, "attach") /\ task' = [task EXCEPT ![t] = [at |-> "found", id |-> id]]
      /\ UNCHANGED <<held, nextId, down, ses, table, sess, marked, opening, reaper, closing, gates, asked, cut>>
  BY DEF AttachFinds
<1>2. /\ task[t].at = "idle" /\ left' \in [Kinds -> Nat]
      /\ left'["attach"] = left["attach"] - 1 /\ left'["open"] = left["open"]
  BY <1>1, AskedFacts DEF Kinds
<1>3. /\ task' \in [Tasks -> TaskState] /\ task'[t] = [at |-> "found", id |-> id]
      /\ \A u \in Tasks \ {t} : task'[u] = task[u]
  <2>1. [at |-> "found", id |-> id] \in TaskState
    BY DEF TaskState, OnSession
  <2>2. QED
    BY <1>1, <2>1, TaskBecomes
<1>4. Typed'
  BY <1>1, <1>2, <1>3 DEF Typed
<1>5. Counted'
  <2>1. Found' = Found \cup {t} /\ t \notin Found
    BY <1>2, <1>3 DEF Found
  <2>2. /\ IsFiniteSet(Found') /\ Cardinality(Found') = Cardinality(Found) + 1
        /\ Cardinality(Found) \in Nat
    BY <2>1, FS_AddElement, FS_CardinalityType DEF Counted
  <2>3. Len(gates) \in Nat /\ left["attach"] \in Nat /\ MaxAsked["attach"] \in Nat
    BY TableAssumption DEF Typed, Kinds
  <2>4. \A u \in Tasks : task'[u].at = "spawning" => task[u].at = "spawning"
    BY <1>3
  <2>5. Len(gates') + Cardinality(Found') + left'["attach"] <= MaxAsked["attach"]
    BY <1>1, <1>2, <2>2, <2>3 DEF Counted
  <2>6. QED
    BY <1>1, <1>2, <2>2, <2>4, <2>5 DEF Counted
<1>6. Locked'
  BY <1>1, <1>2, <1>3, LockedKept
<1>7. LifeOrder'
  BY <1>1, <1>2, <1>3, OrderKept
<1>8. UNCHANGED Life!lifeVars
  BY <1>1, <1>2, <1>3, LifeStutters
<1>9. QED
  BY <1>4, <1>5, <1>6, <1>7, <1>8 DEF Simulated

\* The attach has its session's lock and a gate of its own; the one before is retired.
GateMade(t, id, g) ==
  /\ id = task[t].id /\ g = Len(gates) + 1
  /\ sess[id].serial = NoTask
  /\ task' \in [Tasks -> TaskState]
  /\ task'[t] = [at |-> "gated", id |-> id, gate |-> g, old |-> sess[id].gate]
  /\ \A u \in Tasks \ {t} : task'[u] = task[u]
  /\ sess' \in [Ids -> SessState] /\ \A i \in Ids \ {id} : sess'[i] = sess[i]
  /\ sess'[id].serial = t /\ sess'[id].gate = g
  /\ sess'[id].route = sess[id].route /\ sess'[id].ended = sess[id].ended
  /\ gates' \in Seq(Gate) /\ Len(gates') = g
  /\ gates'[g] = [id |-> id, retired |-> FALSE, answered |-> FALSE, told |-> FALSE]
  /\ \A h \in 1 .. Len(gates) : gates'[h] = Retired({id})[h]

\* AttachGates retires the session's gate and puts a new one in its place.
LEMMA AttachGatesFacts ==
  ASSUME TypeInv, NEW t \in Tasks, AttachGates(t)
  PROVE  \E id \in Ids, g \in Gates : GateMade(t, id, g)
<1> USE DEF TypeInv
<1>a. task[t].at = "found"
  BY DEF AttachGates
<1>b. PICK id \in Ids : id = task[t].id
  BY <1>a, TaskKinds DEF Typed, OnSession
<1>c. PICK g \in Nat : g = Len(gates) + 1
  BY DEF Typed
<1>1. /\ task[t].at = "found" /\ sess[id].serial = NoTask
      /\ sess' = [sess EXCEPT ![id].serial = t, ![id].gate = g]
      /\ gates' = Append(Retired({id}), [id |-> id, retired |-> FALSE, answered |-> FALSE, told |-> FALSE])
      /\ task' = [task EXCEPT ![t] = [at |-> "gated", id |-> id, gate |-> g, old |-> sess[id].gate]]
  BY <1>b, <1>c DEF AttachGates
<1>2. g \in Gates
  <2>1. t \in Found /\ IsFiniteSet(Found)
    BY <1>1 DEF Found, Counted
  <2>2. Cardinality(Found) \in Nat /\ Cardinality(Found) # 0
    BY <2>1, FS_CardinalityType, FS_EmptySet
  <2>3. Len(gates) \in Nat /\ left["attach"] \in Nat /\ MaxAsked["attach"] \in Nat
    BY TableAssumption DEF Typed, Kinds
  <2>4. QED
    BY <1>c, <2>2, <2>3 DEF Counted, Gates
<1>3. sess[id] \in SessState
  BY DEF Typed
<1>4. /\ task' \in [Tasks -> TaskState]
      /\ task'[t] = [at |-> "gated", id |-> id, gate |-> g, old |-> sess[id].gate]
      /\ \A u \in Tasks \ {t} : task'[u] = task[u]
  <2>1. PICK r \in TaskState : r = [at |-> "gated", id |-> id, gate |-> g, old |-> sess[id].gate]
    BY <1>2, <1>3 DEF TaskState, Attaching, SessState
  <2>2. task' = [task EXCEPT ![t] = r]
    BY <1>1, <2>1
  <2>3. QED
    BY <2>1, <2>2, TaskBecomes
<1>5. /\ sess' \in [Ids -> SessState] /\ \A i \in Ids \ {id} : sess'[i] = sess[i]
      /\ sess'[id].serial = t /\ sess'[id].gate = g
      /\ sess'[id].route = sess[id].route /\ sess'[id].ended = sess[id].ended
  <2>1. PICK r \in SessState : r = [sess[id] EXCEPT !.serial = t, !.gate = g]
    BY <1>2, <1>3 DEF SessState
  <2>2. sess' = [sess EXCEPT ![id] = r]
    BY <1>1, <2>1 DEF Typed
  <2>3. QED
    BY <1>3, <2>1, <2>2, SessBecomes DEF SessState
<1>6. /\ gates' \in Seq(Gate) /\ Len(gates') = g
      /\ gates'[g] = [id |-> id, retired |-> FALSE, answered |-> FALSE, told |-> FALSE]
      /\ \A h \in 1 .. Len(gates) : gates'[h] = Retired({id})[h]
  <2>1. PICK s \in Seq(Gate) : s = Retired({id}) /\ Len(s) = Len(gates)
    BY RetiredFacts DEF Typed
  <2>2. PICK r \in Gate : r = [id |-> id, retired |-> FALSE, answered |-> FALSE, told |-> FALSE]
    BY DEF Gate
  <2>3. gates' = Append(s, r)
    BY <1>1, <2>1, <2>2
  <2>4. /\ Append(s, r) \in Seq(Gate) /\ Len(Append(s, r)) = Len(s) + 1
        /\ Append(s, r)[Len(s) + 1] = r
        /\ \A h \in 1 .. Len(s) : Append(s, r)[h] = s[h]
    OBVIOUS
  <2>5. QED
    BY <1>c, <2>1, <2>2, <2>3, <2>4
<1>7. GateMade(t, id, g)
  BY <1>b, <1>c, <1>1, <1>4, <1>5, <1>6 DEF GateMade
<1>8. QED
  BY <1>2, <1>7

\* AttachGates keeps the invariant, and is a step of SessionLife or none.
LEMMA AttachGatesInv ==
  ASSUME TableInv, NEW t \in Tasks, AttachGates(t)
  PROVE  TableInv' /\ Simulated
<1> USE DEF TableInv, TypeInv
<1>1. /\ task[t].at = "found"
      /\ UNCHANGED <<held, nextId, down, ses, table, marked, opening, reaper, closing, left, asked, cut>>
  BY DEF AttachGates, history
<1>2. PICK id \in Ids, g \in Gates : GateMade(t, id, g)
  BY AttachGatesFacts
<1>3. g = Len(gates) + 1
  BY <1>2 DEF GateMade
<1>4. /\ sess[id].serial = NoTask
      /\ task' \in [Tasks -> TaskState] /\ task'[t].at = "gated" /\ task'[t].id = id
      /\ \A u \in Tasks \ {t} : task'[u] = task[u]
      /\ sess' \in [Ids -> SessState] /\ \A i \in Ids \ {id} : sess'[i] = sess[i]
      /\ sess'[id].serial = t
      /\ gates' \in Seq(Gate) /\ Len(gates') = g
  BY <1>2 DEF GateMade
<1>5. Typed'
  BY <1>1, <1>4 DEF Typed
<1>6. Counted'
  <2>1. Found' = Found \ {t} /\ t \in Found
    BY <1>1, <1>4 DEF Found
  <2>2. IsFiniteSet(Found') /\ Cardinality(Found') = Cardinality(Found) - 1 /\ Cardinality(Found) \in Nat
    BY <2>1, FS_RemoveElement, FS_CardinalityType DEF Counted
  <2>3. Len(gates) \in Nat /\ left["attach"] \in Nat /\ MaxAsked["attach"] \in Nat
    BY TableAssumption DEF Typed, Kinds
  <2>4. Len(gates') + Cardinality(Found') + left'["attach"] <= MaxAsked["attach"]
    BY <1>1, <1>3, <1>4, <2>2, <2>3 DEF Counted
  <2>5. \A u \in Tasks : task'[u].at = "spawning" => task[u].at = "spawning"
    BY <1>4
  <2>6. QED
    BY <1>1, <2>2, <2>4, <2>5 DEF Counted
<1>7. Locked'
  <2>1. ASSUME NEW i \in Ids, sess'[i].serial # NoTask
        PROVE  task'[sess'[i].serial].at \in {"gated", "swapped"} /\ task'[sess'[i].serial].id = i
    <3>1. CASE i = id
      BY <1>4, <3>1
    <3>2. CASE i # id
      <4>1. sess'[i] = sess[i] /\ sess[i].serial \in Tasks
        BY <1>4, <2>1, <3>2 DEF Typed, SessState
      <4>2. sess[i].serial # t
        BY <1>1, <2>1, <4>1 DEF Locked
      <4>3. QED
        BY <1>4, <2>1, <4>1, <4>2 DEF Locked
    <3>3. QED
      BY <3>1, <3>2
  <2>2. ASSUME NEW u \in Tasks, task'[u].at \in {"gated", "swapped"} PROVE sess'[task'[u].id].serial = u
    <3>1. CASE u = t
      BY <1>4, <3>1
    <3>2. CASE u # t
      <4>1. task'[u] = task[u] /\ task[u].id \in Ids /\ sess[task[u].id].serial = u
        BY <1>4, <2>2, <3>2, TaskKinds DEF Locked, Typed, Attaching
      <4>2. task[u].id # id
        BY <1>4, <4>1, TableAssumption
      <4>3. QED
        BY <1>4, <4>1, <4>2
    <3>3. QED
      BY <3>1, <3>2
  <2>3. \A u \in Tasks : task'[u].at \in {"spawning", "registered"} <=> opening' = u
    BY <1>1, <1>4 DEF Locked
  <2>4. QED
    BY <2>1, <2>2, <2>3 DEF Locked
<1>8. LifeOrder'
  BY <1>1, <1>4, OrderKept
<1>9. UNCHANGED Life!lifeVars
  BY <1>1, <1>4, LifeStutters
<1>10. QED
  BY <1>5, <1>6, <1>7, <1>8, <1>9 DEF Simulated

\* An attach lets go of its session's lock.
LEMMA LockDropped ==
  ASSUME TypeInv, NEW t \in Tasks, task[t].at \in {"gated", "swapped"}, opening' = opening,
         task'[t] = Idle, \A u \in Tasks \ {t} : task'[u] = task[u],
         sess'[task[t].id].serial = NoTask,
         \A i \in Ids \ {task[t].id} : sess'[i].serial = sess[i].serial
  PROVE  Locked'
<1> USE DEF TypeInv
<1>1. \A u \in Tasks : task'[u].at \in {"spawning", "registered"} <=> opening' = u
  BY DEF Locked, Idle
<1>2. ASSUME NEW i \in Ids, sess'[i].serial # NoTask
      PROVE  task'[sess'[i].serial].at \in {"gated", "swapped"} /\ task'[sess'[i].serial].id = i
  <2>1. i # task[t].id /\ sess'[i].serial = sess[i].serial /\ sess[i].serial \in Tasks
    BY <1>2 DEF Typed, SessState
  <2>2. sess[i].serial # t
    BY <1>2, <2>1 DEF Locked
  <2>3. QED
    BY <1>2, <2>1, <2>2 DEF Locked
<1>3. ASSUME NEW u \in Tasks, task'[u].at \in {"gated", "swapped"} PROVE sess'[task'[u].id].serial = u
  <2>1. u # t /\ task'[u] = task[u]
    BY <1>3 DEF Idle
  <2>2. task[u].id \in Ids /\ sess[task[u].id].serial = u
    BY <1>3, <2>1, TaskKinds DEF Locked, Typed, Attaching
  <2>3. task[u].id # task[t].id
    BY <2>1, <2>2 DEF Locked
  <2>4. QED
    BY <2>1, <2>2, <2>3
<1>4. QED
  BY <1>1, <1>2, <1>3 DEF Locked

\* Nothing of session `id` but its sink is moved.
SinkMoved(id, s) ==
  /\ ses' \in [Ids -> SesState] /\ \A i \in Ids \ {id} : ses'[i] = ses[i]
  /\ ses'[id].name = ses[id].name /\ ses'[id].proc = ses[id].proc /\ ses'[id].pumped = ses[id].pumped
  /\ ses'[id].sink = s

\* A session's sink moves to a gate or is parked.
LEMMA SinkMoves ==
  ASSUME Typed, NEW id \in Ids, NEW s \in Gates \cup {Parked, NoSink}, ses' = [ses EXCEPT ![id].sink = s]
  PROVE  SinkMoved(id, s)
<1>1. ses[id] \in SesState
  BY DEF Typed
<1>2. PICK r \in SesState : r = [ses[id] EXCEPT !.sink = s]
  BY <1>1 DEF SesState
<1>3. ses' = [ses EXCEPT ![id] = r]
  BY <1>2
<1>4. ses' \in [Ids -> SesState] /\ ses'[id] = r /\ \A i \in Ids \ {id} : ses'[i] = ses[i]
  BY <1>3, SesBecomes
<1>5. QED
  BY <1>1, <1>2, <1>4 DEF SinkMoved, SesState

\* A task of an attach or an adoption goes on, or rests.
TaskMoved(t, r) ==
  task' \in [Tasks -> TaskState] /\ task'[t] = r /\ \A u \in Tasks \ {t} : task'[u] = task[u]

\* A task goes back to rest.
LEMMA TaskRests ==
  ASSUME Typed, NEW t \in Tasks, task' = [task EXCEPT ![t] = Idle]
  PROVE  TaskMoved(t, Idle)
<1>1. PICK r \in TaskState : r = Idle
  BY DEF Idle, TaskState, Resting
<1>2. task' = [task EXCEPT ![t] = r]
  BY <1>1
<1>3. QED
  BY <1>1, <1>2, TaskBecomes DEF TaskMoved

\* The attach was refused: its session's lock is free, its old gate cut off.
AttachUndone(t, id) ==
  /\ id = task[t].id /\ TaskMoved(t, Idle)
  /\ sess' \in [Ids -> SessState] /\ \A i \in Ids \ {id} : sess'[i] = sess[i]
  /\ sess'[id].serial = NoTask /\ sess'[id].gate = sess[id].gate
  /\ sess'[id].route = sess[id].route /\ sess'[id].ended = sess[id].ended

\* AttachRefused undoes the attach, and lets go of the gate it had retired.
LEMMA AttachRefusedFacts ==
  ASSUME TypeInv, NEW t \in Tasks, AttachRefused(t)
  PROVE  /\ \E id \in Ids : AttachUndone(t, id)
         /\ cut' = cut \cup ({task[t].old} \ {NoGate}) /\ cut' \in SUBSET Gates
<1> USE DEF TypeInv
<1>1. task[t].at = "gated"
  BY DEF AttachRefused
<1>2. PICK id \in Ids : id = task[t].id
  BY <1>1, TaskKinds DEF Typed, Attaching
<1>3. /\ sess' = [sess EXCEPT ![id].serial = NoTask]
      /\ cut' = cut \cup ({task[t].old} \ {NoGate}) /\ task' = [task EXCEPT ![t] = Idle]
  BY <1>2 DEF AttachRefused
<1>4. cut' \in SUBSET Gates
  BY <1>1, <1>3, TaskKinds DEF Typed, Attaching
<1>5. sess[id] \in SessState
  BY DEF Typed
<1>6. PICK r \in SessState : r = [sess[id] EXCEPT !.serial = NoTask]
  BY <1>5 DEF SessState
<1>7. sess' = [sess EXCEPT ![id] = r]
  BY <1>3, <1>6
<1>8. AttachUndone(t, id)
  <2>1. sess' \in [Ids -> SessState] /\ sess'[id] = r /\ \A i \in Ids \ {id} : sess'[i] = sess[i]
    BY <1>7, SessBecomes
  <2>2. TaskMoved(t, Idle)
    BY <1>3, TaskRests
  <2>3. r.serial = NoTask /\ r.gate = sess[id].gate /\ r.route = sess[id].route /\ r.ended = sess[id].ended
    BY <1>5, <1>6 DEF SessState
  <2>4. QED
    BY <1>2, <2>1, <2>2, <2>3 DEF AttachUndone
<1>9. QED
  BY <1>3, <1>4, <1>8

\* AttachRefused keeps the invariant, and is a step of SessionLife or none.
LEMMA AttachRefusedInv ==
  ASSUME TableInv, NEW t \in Tasks, AttachRefused(t)
  PROVE  TableInv' /\ Simulated
<1> USE DEF TableInv, TypeInv
<1>1. /\ task[t].at = "gated"
      /\ UNCHANGED <<held, nextId, down, ses, table, marked, opening, reaper, closing, gates, left, asked>>
  BY DEF AttachRefused
<1>2. PICK id \in Ids : AttachUndone(t, id)
  BY AttachRefusedFacts
<1>3. /\ id = task[t].id /\ cut' \in SUBSET Gates
      /\ task' \in [Tasks -> TaskState] /\ task'[t] = Idle /\ \A u \in Tasks \ {t} : task'[u] = task[u]
      /\ sess' \in [Ids -> SessState] /\ \A i \in Ids \ {id} : sess'[i] = sess[i]
      /\ sess'[id].serial = NoTask
  BY <1>2, AttachRefusedFacts DEF AttachUndone, TaskMoved
<1>4. Typed'
  BY <1>1, <1>3 DEF Typed
<1>5. Counted'
  BY <1>1, <1>3, CountedKept DEF Typed, Kinds, Idle
<1>6. Locked'
  BY <1>1, <1>3, LockDropped
<1>7. LifeOrder'
  BY <1>1, <1>3, OrderKept DEF Idle
<1>8. UNCHANGED Life!lifeVars
  BY <1>1, <1>3, LifeStutters DEF Idle
<1>9. QED
  BY <1>4, <1>5, <1>6, <1>7, <1>8 DEF Simulated

\* The session's reader feeds the attach's gate, and `ended` says whether it was done.
AttachSwapped(t, id, g) ==
  /\ id = task[t].id /\ g = task[t].gate
  /\ task' \in [Tasks -> TaskState]
  /\ task'[t].at = "swapped" /\ task'[t].id = id /\ task'[t].gate = g
  /\ \A u \in Tasks \ {t} : task'[u] = task[u]
  /\ SinkMoved(id, g)
  /\ sess' \in [Ids -> SessState] /\ \A i \in Ids \ {id} : sess'[i] = sess[i]
  /\ sess'[id].serial = sess[id].serial /\ sess'[id].gate = sess[id].gate
  /\ sess'[id].route = sess[id].route
  /\ sess'[id].ended = (sess[id].ended \/ ses[id].pumped)

\* AttachSwaps moves the sink to the new gate.
LEMMA AttachSwapsFacts ==
  ASSUME TypeInv, NEW t \in Tasks, AttachSwaps(t)
  PROVE  \E id \in Ids, g \in Gates : AttachSwapped(t, id, g)
<1> USE DEF TypeInv
<1>1. task[t].at = "gated"
  BY DEF AttachSwaps
<1>2. task[t] \in Attaching
  BY <1>1, TaskKinds DEF Typed
<1>3. PICK id \in Ids, g \in Gates : id = task[t].id /\ g = task[t].gate
  BY <1>2 DEF Attaching
<1>4. /\ ses' = [ses EXCEPT ![id].sink = g]
      /\ sess' = [sess EXCEPT ![id].ended = @ \/ ses[id].pumped]
      /\ task' = [task EXCEPT ![t].at = "swapped"]
  BY <1>3 DEF AttachSwaps, SinkSwapped
<1>5. SinkMoved(id, g)
  BY <1>4, SinkMoves
<1>6. /\ sess' \in [Ids -> SessState] /\ \A i \in Ids \ {id} : sess'[i] = sess[i]
      /\ sess'[id].serial = sess[id].serial /\ sess'[id].gate = sess[id].gate
      /\ sess'[id].route = sess[id].route
      /\ sess'[id].ended = (sess[id].ended \/ ses[id].pumped)
  <2>1. sess[id] \in SessState /\ (sess[id].ended \/ ses[id].pumped) \in BOOLEAN
    BY DEF Typed
  <2>2. PICK r \in SessState : r = [sess[id] EXCEPT !.ended = @ \/ ses[id].pumped]
    BY <2>1 DEF SessState
  <2>3. sess' = [sess EXCEPT ![id] = r]
    BY <1>4, <2>2
  <2>4. sess' \in [Ids -> SessState] /\ sess'[id] = r /\ \A i \in Ids \ {id} : sess'[i] = sess[i]
    BY <2>3, SessBecomes
  <2>5. /\ r.serial = sess[id].serial /\ r.gate = sess[id].gate /\ r.route = sess[id].route
        /\ r.ended = (sess[id].ended \/ ses[id].pumped)
    BY <2>1, <2>2 DEF SessState
  <2>6. QED
    BY <2>4, <2>5
<1>7. /\ task' \in [Tasks -> TaskState]
      /\ task'[t].at = "swapped" /\ task'[t].id = id /\ task'[t].gate = g
      /\ \A u \in Tasks \ {t} : task'[u] = task[u]
  <2>1. PICK r \in TaskState : r = [task[t] EXCEPT !.at = "swapped"]
    BY <1>2 DEF TaskState, Attaching
  <2>2. task' = [task EXCEPT ![t] = r]
    BY <1>4, <2>1
  <2>3. r.at = "swapped" /\ r.id = id /\ r.gate = g
    BY <1>2, <1>3, <2>1 DEF Attaching
  <2>4. QED
    BY <2>2, <2>3, TaskBecomes
<1>8. AttachSwapped(t, id, g)
  BY <1>3, <1>5, <1>6, <1>7 DEF AttachSwapped
<1>9. QED
  BY <1>8

\* AttachSwaps keeps the invariant, and is a step of SessionLife or none.
LEMMA AttachSwapsInv ==
  ASSUME TableInv, NEW t \in Tasks, AttachSwaps(t)
  PROVE  TableInv' /\ Simulated
<1> USE DEF TableInv, TypeInv
<1>1. /\ task[t].at = "gated"
      /\ UNCHANGED <<held, nextId, down, table, marked, opening, reaper, closing, gates, left, asked, cut>>
  BY DEF AttachSwaps, history
<1>2. PICK id \in Ids, g \in Gates : AttachSwapped(t, id, g)
  BY AttachSwapsFacts
<1>3. /\ id = task[t].id
      /\ task' \in [Tasks -> TaskState] /\ task'[t].at = "swapped" /\ task'[t].id = id
      /\ \A u \in Tasks \ {t} : task'[u] = task[u]
      /\ ses' \in [Ids -> SesState]
      /\ \A i \in Ids : ses'[i].name = ses[i].name /\ ses'[i].proc = ses[i].proc
      /\ sess' \in [Ids -> SessState] /\ \A i \in Ids : sess'[i].serial = sess[i].serial
  BY <1>2 DEF AttachSwapped, SinkMoved
<1>4. Typed'
  BY <1>1, <1>3 DEF Typed
<1>5. Counted'
  BY <1>1, <1>3, CountedKept DEF Typed, Kinds
<1>6. Locked'
  <2>1. \A u \in Tasks : task'[u].at \in {"spawning", "registered"} <=> opening' = u
    BY <1>1, <1>3 DEF Locked
  <2>2. ASSUME NEW i \in Ids, sess'[i].serial # NoTask
        PROVE  task'[sess'[i].serial].at \in {"gated", "swapped"} /\ task'[sess'[i].serial].id = i
    <3>1. sess'[i].serial = sess[i].serial /\ sess[i].serial \in Tasks
      BY <1>3, <2>2 DEF Typed, SessState
    <3>2. task[sess[i].serial].at \in {"gated", "swapped"} /\ task[sess[i].serial].id = i
      BY <2>2, <3>1 DEF Locked
    <3>3. QED
      BY <1>3, <3>1, <3>2
  <2>3. ASSUME NEW u \in Tasks, task'[u].at \in {"gated", "swapped"} PROVE sess'[task'[u].id].serial = u
    <3>1. task[u].at \in {"gated", "swapped"} /\ task'[u].id = task[u].id
      BY <1>1, <1>3, <2>3
    <3>2. task[u].id \in Ids /\ sess[task[u].id].serial = u
      BY <3>1, TaskKinds DEF Locked, Typed, Attaching
    <3>3. QED
      BY <1>3, <3>1, <3>2
  <2>4. QED
    BY <2>1, <2>2, <2>3 DEF Locked
<1>7. LifeOrder'
  BY <1>1, <1>3, OrderKept
<1>8. UNCHANGED Life!lifeVars
  BY <1>1, <1>3, LifeStutters
<1>9. QED
  BY <1>4, <1>5, <1>6, <1>7, <1>8 DEF Simulated

\* The attach's gate is the session's route, answered, and told if the session has ended.
AttachAnswered(t, id, g) ==
  /\ id = task[t].id /\ g = task[t].gate /\ TaskMoved(t, Idle)
  /\ sess' \in [Ids -> SessState] /\ \A i \in Ids \ {id} : sess'[i] = sess[i]
  /\ sess'[id].serial = NoTask /\ sess'[id].gate = sess[id].gate /\ sess'[id].route = g
  /\ gates' \in Seq(Gate) /\ Len(gates') = Len(gates)
  /\ \A h \in 1 .. Len(gates) : h # g => gates'[h] = gates[h]
  /\ g \in 1 .. Len(gates) =>
       /\ gates'[g].id = gates[g].id /\ gates'[g].retired = gates[g].retired
       /\ gates'[g].answered
       /\ sess[id].ended => gates'[g].told

\* AttachAnswers sets the route and tells an end that came before.
LEMMA AttachAnswersFacts ==
  ASSUME TypeInv, NEW t \in Tasks, AttachAnswers(t)
  PROVE  \E id \in Ids, g \in Gates : AttachAnswered(t, id, g)
<1> USE DEF TypeInv
<1>1. task[t].at = "swapped"
  BY DEF AttachAnswers
<1>2. task[t] \in Attaching
  BY <1>1, TaskKinds DEF Typed
<1>3. PICK id \in Ids, g \in Gates : id = task[t].id /\ g = task[t].gate
  BY <1>2 DEF Attaching
<1>4. PICK told \in BOOLEAN : told = (sess[id].ended \/ (sess[id].maybeLost /\ id \in held /\ ~Alive(id)))
  OBVIOUS
<1>5. /\ sess' = [sess EXCEPT ![id].route = g, ![id].serial = NoTask]
      /\ gates' = [gates EXCEPT ![g].answered = TRUE, ![g].told = told]
      /\ task' = [task EXCEPT ![t] = Idle]
  BY <1>3, <1>4 DEF AttachAnswers
<1>6. TaskMoved(t, Idle)
  BY <1>5, TaskRests
<1>7. /\ sess' \in [Ids -> SessState] /\ \A i \in Ids \ {id} : sess'[i] = sess[i]
      /\ sess'[id].serial = NoTask /\ sess'[id].gate = sess[id].gate /\ sess'[id].route = g
  <2>1. sess[id] \in SessState
    BY DEF Typed
  <2>2. PICK r \in SessState : r = [sess[id] EXCEPT !.route = g, !.serial = NoTask]
    BY <2>1 DEF SessState
  <2>3. sess' = [sess EXCEPT ![id] = r]
    BY <1>5, <2>2 DEF Typed
  <2>4. sess' \in [Ids -> SessState] /\ sess'[id] = r /\ \A i \in Ids \ {id} : sess'[i] = sess[i]
    BY <2>3, SessBecomes
  <2>5. r.serial = NoTask /\ r.gate = sess[id].gate /\ r.route = g
    BY <2>1, <2>2 DEF SessState
  <2>6. QED
    BY <2>4, <2>5
<1>8. /\ gates' \in Seq(Gate) /\ Len(gates') = Len(gates)
      /\ \A h \in 1 .. Len(gates) : h # g => gates'[h] = gates[h]
      /\ g \in 1 .. Len(gates) =>
           /\ gates'[g].id = gates[g].id /\ gates'[g].retired = gates[g].retired
           /\ gates'[g].answered
           /\ sess[id].ended => gates'[g].told
  <2>1. gates \in Seq(Gate) /\ DOMAIN gates = 1 .. Len(gates)
    BY DEF Typed
  <2>2. CASE g \in 1 .. Len(gates)
    <3>1. gates[g] \in Gate
      BY <2>1, <2>2
    <3>2. PICK r \in Gate : r = [gates[g] EXCEPT !.answered = TRUE, !.told = told]
      BY <3>1 DEF Gate
    <3>3. gates' = [gates EXCEPT ![g] = r]
      BY <1>5, <2>1, <2>2, <3>2
    <3>4. /\ gates' \in Seq(Gate) /\ Len(gates') = Len(gates) /\ gates'[g] = r
          /\ \A h \in 1 .. Len(gates) : h # g => gates'[h] = gates[h]
      BY <2>1, <2>2, <3>3, GateBecomes
    <3>5. r.id = gates[g].id /\ r.retired = gates[g].retired /\ r.answered /\ r.told = told
      BY <3>1, <3>2 DEF Gate
    <3>6. QED
      BY <1>4, <3>4, <3>5
  <2>3. CASE g \notin 1 .. Len(gates)
    <3>1. gates' = gates
      BY <1>5, <2>1, <2>3
    <3>2. QED
      BY <2>1, <2>3, <3>1
  <2>4. QED
    BY <2>2, <2>3
<1>9. AttachAnswered(t, id, g)
  BY <1>3, <1>6, <1>7, <1>8 DEF AttachAnswered
<1>10. QED
  BY <1>9

\* AttachAnswers keeps the invariant, and is a step of SessionLife or none.
LEMMA AttachAnswersInv ==
  ASSUME TableInv, NEW t \in Tasks, AttachAnswers(t)
  PROVE  TableInv' /\ Simulated
<1> USE DEF TableInv, TypeInv
<1>1. /\ task[t].at = "swapped"
      /\ UNCHANGED <<held, nextId, down, ses, table, marked, opening, reaper, closing, left, asked, cut>>
  BY DEF AttachAnswers, history
<1>2. PICK id \in Ids, g \in Gates : AttachAnswered(t, id, g)
  BY AttachAnswersFacts
<1>3. /\ id = task[t].id
      /\ task' \in [Tasks -> TaskState] /\ task'[t] = Idle /\ \A u \in Tasks \ {t} : task'[u] = task[u]
      /\ sess' \in [Ids -> SessState] /\ \A i \in Ids \ {id} : sess'[i] = sess[i]
      /\ sess'[id].serial = NoTask
      /\ gates' \in Seq(Gate) /\ Len(gates') = Len(gates)
  BY <1>2 DEF AttachAnswered, TaskMoved
<1>4. Typed'
  BY <1>1, <1>3 DEF Typed
<1>5. Counted'
  BY <1>1, <1>3, CountedKept DEF Typed, Kinds, Idle
<1>6. Locked'
  BY <1>1, <1>3, LockDropped
<1>7. LifeOrder'
  BY <1>1, <1>3, OrderKept DEF Idle
<1>8. UNCHANGED Life!lifeVars
  BY <1>1, <1>3, LifeStutters DEF Idle
<1>9. QED
  BY <1>4, <1>5, <1>6, <1>7, <1>8 DEF Simulated

\* The session's receiver is gone: its gate is retired, its sink parked if it is held.
SessionParked(id) ==
  /\ sess' \in [Ids -> SessState] /\ \A i \in Ids \ {id} : sess'[i] = sess[i]
  /\ sess'[id].serial = sess[id].serial /\ sess'[id].route = NoGate /\ sess'[id].gate = NoGate
  /\ gates' = Retired({id}) /\ gates' \in Seq(Gate) /\ Len(gates') = Len(gates)
  /\ ses' \in [Ids -> SesState] /\ \A i \in Ids \ {id} : ses'[i] = ses[i]
  /\ ses'[id].name = ses[id].name /\ ses'[id].proc = ses[id].proc /\ ses'[id].pumped = ses[id].pumped
  /\ ses'[id].sink \in {ses[id].sink, Parked}

\* A session that is parked has no route and no gate, and its sink is parked.
LEMMA Parks ==
  ASSUME Typed, NEW id \in Ids, NEW r \in SessState, sess' = [sess EXCEPT ![id] = r],
         r.serial = sess[id].serial, r.route = NoGate, r.gate = NoGate,
         gates' = Retired({id}),
         ses' = IF id \in held THEN [ses EXCEPT ![id].sink = Parked] ELSE ses
  PROVE  SessionParked(id)
<1>1. sess' \in [Ids -> SessState] /\ sess'[id] = r /\ \A i \in Ids \ {id} : sess'[i] = sess[i]
  BY SessBecomes
<1>2. gates' \in Seq(Gate) /\ Len(gates') = Len(gates)
  BY RetiredFacts DEF Typed
<1>3. /\ ses' \in [Ids -> SesState] /\ \A i \in Ids \ {id} : ses'[i] = ses[i]
      /\ ses'[id].name = ses[id].name /\ ses'[id].proc = ses[id].proc /\ ses'[id].pumped = ses[id].pumped
      /\ ses'[id].sink \in {ses[id].sink, Parked}
  <2>1. CASE id \in held
    <3>1. PICK s \in Gates \cup {Parked, NoSink} : s = Parked
      OBVIOUS
    <3>2. ses' = [ses EXCEPT ![id].sink = s]
      BY <2>1, <3>1
    <3>3. QED
      BY <3>1, <3>2, SinkMoves DEF SinkMoved
  <2>2. CASE id \notin held
    BY <2>2 DEF Typed
  <2>3. QED
    BY <2>1, <2>2
<1>4. QED
  BY <1>1, <1>2, <1>3 DEF SessionParked

\* A park parks one session.
LEMMA ParkFacts ==
  ASSUME TypeInv, NEW id \in Ids, Park(id)
  PROVE  SessionParked(id)
<1> USE DEF TypeInv
<1>1. /\ gates' = Retired({id})
      /\ ses' = IF id \in held THEN [ses EXCEPT ![id].sink = Parked] ELSE ses
      /\ sess' = [sess EXCEPT ![id].route = NoGate, ![id].gate = NoGate,
                              ![id].ended = @ \/ (id \in held /\ ses[id].pumped)]
  BY DEF Park
<1>2. sess[id] \in SessState
  BY DEF Typed
<1>3. PICK ended \in BOOLEAN : ended = (sess[id].ended \/ (id \in held /\ ses[id].pumped))
  OBVIOUS
<1>4. PICK r \in SessState : r = [sess[id] EXCEPT !.route = NoGate, !.gate = NoGate, !.ended = ended]
  BY <1>2 DEF SessState
<1>5. sess' = [sess EXCEPT ![id] = r]
  <2>1. sess' = [sess EXCEPT ![id].route = NoGate, ![id].gate = NoGate, ![id].ended = ended]
    BY <1>1, <1>2, <1>3 DEF Typed, SessState
  <2>2. QED
    BY <1>2, <1>4, <2>1 DEF Typed
<1>6. r.serial = sess[id].serial /\ r.route = NoGate /\ r.gate = NoGate
  BY <1>2, <1>4 DEF SessState
<1>7. QED
  BY <1>1, <1>5, <1>6, Parks

\* Park keeps the invariant, and is a step of SessionLife or none.
LEMMA ParkInv ==
  ASSUME TableInv, NEW id \in Ids, Park(id)
  PROVE  TableInv' /\ Simulated
<1> USE DEF TableInv, TypeInv
<1>1. /\ Spend("park")
      /\ UNCHANGED <<held, nextId, down, table, marked, opening, task, reaper, closing, asked, cut>>
  BY DEF Park
<1>2. /\ left' \in [Kinds -> Nat] /\ left'["open"] = left["open"] /\ left'["attach"] = left["attach"]
      /\ left["attach"] \in Nat /\ left["open"] \in Nat
  BY <1>1, SpendFacts DEF Kinds, Typed
<1>3. /\ sess' \in [Ids -> SessState] /\ \A i \in Ids : sess'[i].serial = sess[i].serial
      /\ gates' \in Seq(Gate) /\ Len(gates') = Len(gates)
      /\ ses' \in [Ids -> SesState]
      /\ \A i \in Ids : ses'[i].name = ses[i].name /\ ses'[i].proc = ses[i].proc
  BY ParkFacts DEF SessionParked
<1>4. Typed'
  BY <1>1, <1>2, <1>3 DEF Typed
<1>5. Counted'
  BY <1>1, <1>2, <1>3, CountedKept
<1>6. Locked'
  BY <1>1, <1>3, LockedKept
<1>7. LifeOrder'
  BY <1>1, <1>3, OrderKept
<1>8. UNCHANGED Life!lifeVars
  BY <1>1, <1>3, LifeStutters
<1>9. QED
  BY <1>4, <1>5, <1>6, <1>7, <1>8 DEF Simulated

\* A close: the manager's half of it, and the host's.
LEMMA CloseKillsInv ==
  ASSUME TableInv, NEW t \in Tasks, NEW id \in Ids, CloseKills(t, id)
  PROVE  TableInv' /\ Simulated
<1> USE DEF TableInv, TypeInv
<1>1. /\ Asked(t, "close") /\ Release({id}) /\ asked' = asked \cup ({id} \cap held)
      /\ task' = [task EXCEPT ![t] = [at |-> "killed", id |-> id]]
      /\ UNCHANGED <<nextId, down, table, sess, marked, opening, reaper, closing, gates, cut>>
  BY DEF CloseKills
<1>2. /\ task[t].at = "idle" /\ left' \in [Kinds -> Nat]
      /\ left'["attach"] = left["attach"] /\ left'["open"] = left["open"]
      /\ left["attach"] \in Nat /\ left["open"] \in Nat
  BY <1>1, AskedElse
<1>3. /\ task' \in [Tasks -> TaskState] /\ task'[t] = [at |-> "killed", id |-> id]
      /\ \A u \in Tasks \ {t} : task'[u] = task[u]
  <2>1. [at |-> "killed", id |-> id] \in TaskState
    BY DEF TaskState, OnSession
  <2>2. QED
    BY <1>1, <2>1, TaskBecomes
<1>4. /\ held' = held \ {id} /\ ses' \in [Ids -> SesState]
      /\ \A i \in Ids : ses'[i].name = ses[i].name /\ ses'[i].proc = ses[i].proc
  BY <1>1, ReleaseFacts
<1>5. Typed'
  BY <1>1, <1>2, <1>3, <1>4 DEF Typed
<1>6. Counted'
  BY <1>1, <1>2, <1>3, CountedKept
<1>7. Locked'
  BY <1>1, <1>2, <1>3, LockedKept
<1>8. LifeOrder'
  BY <1>1, <1>3, <1>4, OrderKept
<1>9. Simulated
  <2>1. \A i \in Ids : Starting(i)' <=> Starting(i)
    BY <1>2, <1>3 DEF Starting
  <2>2. /\ NamesOf' = NamesOf
        /\ id \notin held => LifeOf' = LifeOf
        /\ id \in held => LifeOf' = [LifeOf EXCEPT ![id] = "closed"]
    BY <1>1, <1>4, <2>1, LifeLetsGo
  <2>3. CASE id \notin held
    <3>1. asked' = asked
      BY <1>1, <2>3
    <3>2. QED
      BY <1>1, <2>2, <2>3, <3>1 DEF Simulated, Life!lifeVars, LifeOf, NamesOf
  <2>4. CASE id \in held
    <3>1. asked' = asked \cup {id} /\ LifeOf[id] # "unborn"
      BY <1>1, <2>4, HeldSeen
    <3>2. Life!CloseAsked(id)
      BY <1>1, <2>2, <2>4, <3>1 DEF Life!CloseAsked, LifeOf, NamesOf
    <3>3. QED
      BY <3>2, LifeSteps
  <2>5. QED
    BY <2>3, <2>4
<1>10. QED
  BY <1>5, <1>6, <1>7, <1>8, <1>9

\* CloseForgets keeps the invariant, and is a step of SessionLife or none.
LEMMA CloseForgetsInv ==
  ASSUME TableInv, NEW t \in Tasks, CloseForgets(t)
  PROVE  TableInv' /\ Simulated
<1> USE DEF TableInv, TypeInv
<1>1. /\ task[t].at = "killed"
      /\ table' = table \ {task[t].id} /\ marked' = marked \ {task[t].id}
      /\ task' = [task EXCEPT ![t] = Idle]
      /\ UNCHANGED <<held, nextId, down, ses, sess, opening, reaper, closing, gates, left, asked, cut>>
  BY DEF CloseForgets, history
<1>2. task' \in [Tasks -> TaskState] /\ task'[t] = Idle /\ \A u \in Tasks \ {t} : task'[u] = task[u]
  BY <1>1, TaskRests DEF TaskMoved
<1>3. Typed'
  BY <1>1, <1>2 DEF Typed
<1>4. Counted'
  BY <1>1, <1>2, CountedKept DEF Typed, Kinds, Idle
<1>5. Locked'
  BY <1>1, <1>2, LockedKept DEF Idle
<1>6. LifeOrder'
  BY <1>1, <1>2, OrderKept DEF Idle
<1>7. UNCHANGED Life!lifeVars
  BY <1>1, <1>2, LifeStutters DEF Idle
<1>8. QED
  BY <1>3, <1>4, <1>5, <1>6, <1>7 DEF Simulated

\* An adoption: the sessions of other pages are re-tagged, and nothing feeds their gates.
SessionsTagged(others) ==
  /\ ses' \in [Ids -> SesState] /\ \A i \in Ids \ others : ses'[i] = ses[i]
  /\ \A i \in Ids : ses'[i].name = ses[i].name /\ ses'[i].proc = ses[i].proc
                    /\ ses'[i].pumped = ses[i].pumped
  /\ cut' \in SUBSET Gates /\ cut \subseteq cut'
  /\ \A i \in others : ses[i].sink \in Gates => ses[i].sink \in cut'

\* AdoptTags tags what other pages own, and picks what was superseded.
LEMMA AdoptTagsFacts ==
  ASSUME TypeInv, NEW t \in Tasks, NEW page \in Pages, AdoptTags(t, page)
  PROVE  \E others \in SUBSET held :
           /\ SessionsTagged(others)
           /\ task' = [task EXCEPT ![t] = [at |-> "tagged", old |-> SupersededIn(others),
                                           adopted |-> others \ SupersededIn(others)]]
<1> USE DEF TypeInv
<1>1. PICK others \in SUBSET held : others = {id \in held : ses[id].owner # page}
  OBVIOUS
<1>2. /\ ses' = [id \in Ids |-> IF id \in others
                                 THEN [ses[id] EXCEPT !.owner = page, !.sink = NoSink] ELSE ses[id]]
      /\ cut' = cut \cup ({ses[id].sink : id \in others} \cap Gates)
      /\ task' = [task EXCEPT ![t] = [at |-> "tagged", old |-> SupersededIn(others),
                                      adopted |-> others \ SupersededIn(others)]]
  BY <1>1 DEF AdoptTags
<1>3. \A x \in SesState : /\ [x EXCEPT !.owner = page, !.sink = NoSink] \in SesState
                          /\ [x EXCEPT !.owner = page, !.sink = NoSink].name = x.name
                          /\ [x EXCEPT !.owner = page, !.sink = NoSink].proc = x.proc
                          /\ [x EXCEPT !.owner = page, !.sink = NoSink].pumped = x.pumped
  BY DEF SesState
<1>4. ses \in [Ids -> SesState]
  BY DEF Typed
<1>5. /\ ses' \in [Ids -> SesState] /\ \A i \in Ids \ others : ses'[i] = ses[i]
      /\ \A i \in Ids : ses'[i].name = ses[i].name /\ ses'[i].proc = ses[i].proc
                        /\ ses'[i].pumped = ses[i].pumped
  BY <1>2, <1>3, <1>4
<1>6. /\ cut' \in SUBSET Gates /\ cut \subseteq cut'
      /\ \A i \in others : ses[i].sink \in Gates => ses[i].sink \in cut'
  BY <1>2 DEF Typed
<1>7. QED
  BY <1>2, <1>5, <1>6 DEF SessionsTagged

\* AdoptTags keeps the invariant, and is a step of SessionLife or none.
LEMMA AdoptTagsInv ==
  ASSUME TableInv, NEW t \in Tasks, NEW page \in Pages, AdoptTags(t, page)
  PROVE  TableInv' /\ Simulated
<1> USE DEF TableInv, TypeInv
<1>1. /\ Asked(t, "adopt")
      /\ UNCHANGED <<held, nextId, down, table, sess, marked, opening, reaper, closing, gates, asked>>
  BY DEF AdoptTags
<1>2. /\ task[t].at = "idle" /\ left' \in [Kinds -> Nat]
      /\ left'["attach"] = left["attach"] /\ left'["open"] = left["open"]
      /\ left["attach"] \in Nat /\ left["open"] \in Nat
  BY <1>1, AskedElse
<1>3. PICK others \in SUBSET held :
        /\ SessionsTagged(others)
        /\ task' = [task EXCEPT ![t] = [at |-> "tagged", old |-> SupersededIn(others),
                                        adopted |-> others \ SupersededIn(others)]]
  BY AdoptTagsFacts
<1>4. \A id \in held : id \in Ids /\ id <= nextId
  BY Minted
<1>5. \A id \in SupersededIn(others) : id \in others /\ id \in Ids /\ id <= nextId /\ Replaced(id)
  BY <1>4 DEF SupersededIn, Replaced
<1>6. PICK r \in TaskState : r = [at |-> "tagged", old |-> SupersededIn(others),
                                  adopted |-> others \ SupersededIn(others)]
  <2>1. SupersededIn(others) \in SUBSET Ids /\ others \ SupersededIn(others) \in SUBSET Ids
    BY <1>4, <1>5
  <2>2. QED
    BY <2>1 DEF TaskState, Tagged
<1>7. /\ task' \in [Tasks -> TaskState] /\ task'[t].at = "tagged" /\ task'[t].old = SupersededIn(others)
      /\ \A u \in Tasks \ {t} : task'[u] = task[u]
  <2>1. task' = [task EXCEPT ![t] = r]
    BY <1>3, <1>6
  <2>2. QED
    BY <1>6, <2>1, TaskBecomes
<1>8. /\ ses' \in [Ids -> SesState] /\ cut' \in SUBSET Gates
      /\ \A i \in Ids : ses'[i].name = ses[i].name /\ ses'[i].proc = ses[i].proc
  BY <1>3 DEF SessionsTagged
<1>9. Typed'
  BY <1>1, <1>2, <1>7, <1>8 DEF Typed
<1>10. Counted'
  BY <1>1, <1>2, <1>7, CountedKept
<1>11. Locked'
  BY <1>1, <1>2, <1>7, LockedKept
<1>12. LifeOrder'
  BY <1>1, <1>5, <1>7, <1>8, OrderKept
<1>13. UNCHANGED Life!lifeVars
  BY <1>1, <1>2, <1>7, <1>8, LifeStutters
<1>14. QED
  BY <1>9, <1>10, <1>11, <1>12, <1>13 DEF Simulated

\* AdoptCloses keeps the invariant, and is a step of SessionLife or none.
LEMMA AdoptClosesInv ==
  ASSUME TableInv, NEW t \in Tasks, AdoptCloses(t)
  PROVE  TableInv' /\ Simulated
<1> USE DEF TableInv, TypeInv
<1>1. /\ task[t].at = "tagged" /\ task[t].old # {} /\ task[t] \in Tagged
      /\ UNCHANGED <<nextId, down, table, sess, marked, opening, reaper, closing, gates, left, asked, cut>>
  BY TaskKinds DEF AdoptCloses, history, Typed
<1>2. PICK old \in SUBSET Ids : old = task[t].old /\ old # {}
  BY <1>1 DEF Tagged
<1>3. PICK id \in Ids : id = Min(old) /\ id \in old
  BY <1>2, MinFacts
<1>4. Release({id}) /\ task' = [task EXCEPT ![t].old = old \ {id}]
  BY <1>2, <1>3 DEF AdoptCloses, Typed
<1>5. /\ held' = held \ {id} /\ ses' \in [Ids -> SesState]
      /\ \A i \in Ids : ses'[i].name = ses[i].name /\ ses'[i].proc = ses[i].proc
  BY <1>4, ReleaseFacts
<1>6. /\ task' \in [Tasks -> TaskState] /\ task'[t].at = "tagged" /\ task'[t].old = old \ {id}
      /\ \A u \in Tasks \ {t} : task'[u] = task[u]
  <2>1. PICK r \in TaskState : r = [task[t] EXCEPT !.old = old \ {id}]
    BY <1>1 DEF TaskState, Tagged
  <2>2. task' = [task EXCEPT ![t] = r]
    BY <1>4, <2>1
  <2>3. r.at = "tagged" /\ r.old = old \ {id}
    BY <1>1, <2>1 DEF Tagged
  <2>4. QED
    BY <2>2, <2>3, TaskBecomes
<1>7. \A i \in old : i <= nextId /\ Replaced(i)
  BY <1>1, <1>2 DEF LifeOrder
<1>8. Typed'
  BY <1>1, <1>5, <1>6 DEF Typed
<1>9. Counted'
  BY <1>1, <1>6, CountedKept DEF Typed, Kinds
<1>10. Locked'
  BY <1>1, <1>6, LockedKept
<1>11. LifeOrder'
  BY <1>1, <1>2, <1>5, <1>6, <1>7, OrderKept
<1>12. Simulated
  <2>1. \A i \in Ids : Starting(i)' <=> Starting(i)
    BY <1>1, <1>6 DEF Starting
  <2>2. QED
    BY <1>1, <1>3, <1>5, <1>7, <2>1, LifeCloses
<1>13. QED
  BY <1>8, <1>9, <1>10, <1>11, <1>12

\* AdoptLists keeps the invariant, and is a step of SessionLife or none.
LEMMA AdoptListsInv ==
  ASSUME TableInv, NEW t \in Tasks, AdoptLists(t)
  PROVE  TableInv' /\ Simulated
<1> USE DEF TableInv, TypeInv
<1>1. /\ task[t].at = "tagged" /\ task[t] \in Tagged
      /\ task' = [task EXCEPT ![t] = [at |-> "listed", live |-> held, adopted |-> task[t].adopted]]
      /\ UNCHANGED <<held, nextId, down, ses, table, sess, marked, opening, reaper, closing, gates, left,
                     asked, cut>>
  BY TaskKinds DEF AdoptLists, history, Typed
<1>2. held \in SUBSET Ids
  BY Minted
<1>3. /\ task' \in [Tasks -> TaskState] /\ task'[t].at = "listed"
      /\ \A u \in Tasks \ {t} : task'[u] = task[u]
  <2>1. PICK r \in TaskState : r = [at |-> "listed", live |-> held, adopted |-> task[t].adopted]
    BY <1>1, <1>2 DEF TaskState, Tagged, Listed
  <2>2. task' = [task EXCEPT ![t] = r]
    BY <1>1, <2>1
  <2>3. QED
    BY <2>1, <2>2, TaskBecomes
<1>4. Typed'
  BY <1>1, <1>3 DEF Typed
<1>5. Counted'
  BY <1>1, <1>3, CountedKept DEF Typed, Kinds
<1>6. Locked'
  BY <1>1, <1>3, LockedKept
<1>7. LifeOrder'
  BY <1>1, <1>3, OrderKept
<1>8. UNCHANGED Life!lifeVars
  BY <1>1, <1>3, LifeStutters
<1>9. QED
  BY <1>4, <1>5, <1>6, <1>7, <1>8 DEF Simulated

\* A task parks the sessions that are left to park, or rests.
LEMMA ParksOn ==
  ASSUME Typed, NEW t \in Tasks, NEW S \in SUBSET Ids, task' = [task EXCEPT ![t] = Parking(S)]
  PROVE  /\ task' \in [Tasks -> TaskState] /\ task'[t].at \in {"idle", "parking"}
         /\ \A u \in Tasks \ {t} : task'[u] = task[u]
<1>1. PICK r \in TaskState : r = Parking(S)
  <2>1. Idle \in TaskState
    BY DEF Idle, TaskState, Resting
  <2>2. [at |-> "parking", adopted |-> S] \in TaskState
    BY DEF TaskState, ParkingSome
  <2>3. Parking(S) \in TaskState
    BY <2>1, <2>2 DEF Parking
  <2>4. QED
    BY <2>3
<1>2. task' = [task EXCEPT ![t] = r]
  BY <1>1
<1>3. r.at \in {"idle", "parking"}
  BY <1>1 DEF Parking, Idle
<1>4. QED
  BY <1>2, <1>3, TaskBecomes

\* The sessions of `gone` leave the table: their gates are retired.
SessionsDropped(gone) ==
  /\ sess' \in [Ids -> SessState] /\ \A i \in Ids \ gone : sess'[i] = sess[i]
  /\ \A i \in gone : /\ sess'[i].serial = sess[i].serial /\ sess'[i].route = sess[i].route
                     /\ sess'[i].ended = sess[i].ended
                     /\ sess'[i].gate = NoGate
  /\ gates' = Retired(gone) /\ gates' \in Seq(Gate) /\ Len(gates') = Len(gates)

\* Sessions dropped from the host's table lose their gate and nothing else.
LEMMA Drops ==
  ASSUME Typed, NEW gone \in SUBSET Ids, gates' = Retired(gone),
         sess' = [id \in Ids |-> IF id \in gone THEN [sess[id] EXCEPT !.gate = NoGate] ELSE sess[id]]
  PROVE  SessionsDropped(gone)
<1>1. \A x \in SessState : /\ [x EXCEPT !.gate = NoGate] \in SessState
                           /\ [x EXCEPT !.gate = NoGate].serial = x.serial
                           /\ [x EXCEPT !.gate = NoGate].route = x.route
                           /\ [x EXCEPT !.gate = NoGate].ended = x.ended
                           /\ [x EXCEPT !.gate = NoGate].gate = NoGate
  BY DEF SessState
<1>2. sess \in [Ids -> SessState]
  BY DEF Typed
<1>3. gates' \in Seq(Gate) /\ Len(gates') = Len(gates)
  BY RetiredFacts DEF Typed
<1>4. QED
  BY <1>1, <1>2, <1>3 DEF SessionsDropped

\* AdoptRetains drops what is not listed and lets their gates go.
LEMMA AdoptRetainsFacts ==
  ASSUME TypeInv, NEW t \in Tasks, AdoptRetains(t)
  PROVE  /\ SessionsDropped(table \ task[t].live)
         /\ table' \in SUBSET (1 .. nextId) /\ marked' \in SUBSET Ids
         /\ cut' = cut \cup CurrentGates(table \ task[t].live) /\ cut' \in SUBSET Gates
         /\ task' \in [Tasks -> TaskState] /\ task'[t].at \in {"idle", "parking"}
         /\ \A u \in Tasks \ {t} : task'[u] = task[u]
<1> USE DEF TypeInv
<1>1. task[t].at = "listed" /\ task[t] \in Listed
  BY TaskKinds DEF AdoptRetains, Typed
<1>2. PICK gone \in SUBSET Ids : gone = table \ task[t].live
  BY Minted
<1>3. SessionsDropped(gone)
  <2>1. /\ gates' = Retired(gone)
        /\ sess' = [id \in Ids |-> IF id \in gone THEN [sess[id] EXCEPT !.gate = NoGate] ELSE sess[id]]
    BY <1>2 DEF AdoptRetains
  <2>2. QED
    BY <2>1, Drops
<1>4. cut' = cut \cup CurrentGates(gone) /\ cut' \in SUBSET Gates
  <2>1. \A id \in gone : sess[id].gate \in Gates \cup {NoGate}
    BY DEF Typed, SessState
  <2>2. CurrentGates(gone) \in SUBSET Gates
    BY <2>1 DEF CurrentGates
  <2>3. QED
    BY <1>2, <2>2 DEF AdoptRetains, Typed
<1>5. table' \in SUBSET (1 .. nextId) /\ marked' \in SUBSET Ids
  BY DEF AdoptRetains, Typed
<1>6. /\ task' \in [Tasks -> TaskState] /\ task'[t].at \in {"idle", "parking"}
      /\ \A u \in Tasks \ {t} : task'[u] = task[u]
  <2>1. PICK S \in SUBSET Ids : S = task[t].adopted
    BY <1>1 DEF Listed
  <2>2. task' = [task EXCEPT ![t] = Parking(S)]
    BY <2>1 DEF AdoptRetains
  <2>3. QED
    BY <2>2, ParksOn
<1>7. QED
  BY <1>2, <1>3, <1>4, <1>5, <1>6

\* AdoptRetains keeps the invariant, and is a step of SessionLife or none.
LEMMA AdoptRetainsInv ==
  ASSUME TableInv, NEW t \in Tasks, AdoptRetains(t)
  PROVE  TableInv' /\ Simulated
<1> USE DEF TableInv, TypeInv
<1>1. /\ task[t].at = "listed"
      /\ UNCHANGED <<held, nextId, down, ses, opening, reaper, closing, left, asked>>
  BY DEF AdoptRetains
<1>2. /\ sess' \in [Ids -> SessState] /\ \A i \in Ids : sess'[i].serial = sess[i].serial
      /\ gates' \in Seq(Gate) /\ Len(gates') = Len(gates)
      /\ table' \in SUBSET (1 .. nextId) /\ marked' \in SUBSET Ids /\ cut' \in SUBSET Gates
      /\ task' \in [Tasks -> TaskState] /\ task'[t].at \in {"idle", "parking"}
      /\ \A u \in Tasks \ {t} : task'[u] = task[u]
  BY AdoptRetainsFacts DEF SessionsDropped
<1>3. Typed'
  BY <1>1, <1>2 DEF Typed
<1>4. Counted'
  BY <1>1, <1>2, CountedKept DEF Typed, Kinds
<1>5. Locked'
  BY <1>1, <1>2, LockedKept
<1>6. LifeOrder'
  BY <1>1, <1>2, OrderKept
<1>7. UNCHANGED Life!lifeVars
  BY <1>1, <1>2, LifeStutters
<1>8. QED
  BY <1>3, <1>4, <1>5, <1>6, <1>7 DEF Simulated

\* The next adopted session is parked, unless it left the table.
LEMMA AdoptParksFacts ==
  ASSUME TypeInv, NEW t \in Tasks, AdoptParks(t)
  PROVE  /\ \/ UNCHANGED <<ses, sess, gates>>
            \/ \E id \in Ids : SessionParked(id) /\ sess[id].serial = NoTask /\ id <= nextId
         /\ task' \in [Tasks -> TaskState] /\ task'[t].at \in {"idle", "parking"}
         /\ \A u \in Tasks \ {t} : task'[u] = task[u]
<1> USE DEF TypeInv
<1>1. task[t].at = "parking" /\ task[t] \in ParkingSome
  BY TaskKinds DEF AdoptParks, Typed
<1>2. PICK id : id = Min(task[t].adopted)
  OBVIOUS
<1>3. \/ UNCHANGED <<ses, sess, gates>>
      \/ \E i \in Ids : SessionParked(i) /\ sess[i].serial = NoTask /\ i <= nextId
  <2>1. CASE id \notin table
    BY <1>2, <2>1 DEF AdoptParks
  <2>2. CASE id \in table
    <3>1. id \in Ids /\ id <= nextId
      BY <2>2, Minted DEF Typed
    <3>2. /\ gates' = Retired({id}) /\ sess[id].serial = NoTask
          /\ ses' = IF id \in held THEN [ses EXCEPT ![id].sink = Parked] ELSE ses
          /\ sess' = [sess EXCEPT ![id].route = NoGate, ![id].gate = NoGate, ![id].maybeLost = TRUE,
                                  ![id].ended = @ \/ (id \in held /\ ses[id].pumped)]
      BY <1>2, <2>2 DEF AdoptParks
    <3>3. sess[id] \in SessState
      BY <3>1 DEF Typed
    <3>4. PICK ended \in BOOLEAN : ended = (sess[id].ended \/ (id \in held /\ ses[id].pumped))
      OBVIOUS
    <3>5. PICK r \in SessState :
            r = [sess[id] EXCEPT !.route = NoGate, !.gate = NoGate, !.maybeLost = TRUE, !.ended = ended]
      BY <3>3 DEF SessState
    <3>6. sess' = [sess EXCEPT ![id] = r]
      <4>1. sess' = [sess EXCEPT ![id].route = NoGate, ![id].gate = NoGate, ![id].maybeLost = TRUE,
                                 ![id].ended = ended]
        BY <3>1, <3>2, <3>3, <3>4 DEF Typed, SessState
      <4>2. QED
        BY <3>1, <3>3, <3>5, <4>1 DEF Typed
    <3>7. r.serial = sess[id].serial /\ r.route = NoGate /\ r.gate = NoGate
      BY <3>3, <3>5 DEF SessState
    <3>8. SessionParked(id)
      BY <3>1, <3>2, <3>6, <3>7, Parks
    <3>9. QED
      BY <3>1, <3>2, <3>8
  <2>3. QED
    BY <2>1, <2>2
<1>4. /\ task' \in [Tasks -> TaskState] /\ task'[t].at \in {"idle", "parking"}
      /\ \A u \in Tasks \ {t} : task'[u] = task[u]
  <2>1. PICK S \in SUBSET Ids : S = task[t].adopted \ {id}
    BY <1>1 DEF ParkingSome
  <2>2. task' = [task EXCEPT ![t] = Parking(S)]
    BY <1>2, <2>1 DEF AdoptParks, Typed
  <2>3. QED
    BY <2>2, ParksOn
<1>5. QED
  BY <1>3, <1>4

\* AdoptParks keeps the invariant, and is a step of SessionLife or none.
LEMMA AdoptParksInv ==
  ASSUME TableInv, NEW t \in Tasks, AdoptParks(t)
  PROVE  TableInv' /\ Simulated
<1> USE DEF TableInv, TypeInv
<1>1. /\ task[t].at = "parking"
      /\ UNCHANGED <<held, nextId, down, table, marked, opening, reaper, closing, left, asked, cut>>
  BY DEF AdoptParks, history
<1>2. /\ task' \in [Tasks -> TaskState] /\ task'[t].at \in {"idle", "parking"}
      /\ \A u \in Tasks \ {t} : task'[u] = task[u]
  BY AdoptParksFacts
<1>3. /\ sess' \in [Ids -> SessState] /\ \A i \in Ids : sess'[i].serial = sess[i].serial
      /\ gates' \in Seq(Gate) /\ Len(gates') = Len(gates)
      /\ ses' \in [Ids -> SesState]
      /\ \A i \in Ids : ses'[i].name = ses[i].name /\ ses'[i].proc = ses[i].proc
  <2>1. CASE UNCHANGED <<ses, sess, gates>>
    BY <2>1 DEF Typed
  <2>2. ASSUME NEW id \in Ids, SessionParked(id) PROVE <1>3
    BY <2>2 DEF SessionParked
  <2>3. QED
    BY <2>1, <2>2, AdoptParksFacts
<1>4. Typed'
  BY <1>1, <1>2, <1>3 DEF Typed
<1>5. Counted'
  <2>1. left["open"] \in Nat /\ left["attach"] \in Nat
    BY DEF Typed, Kinds
  <2>2. QED
    BY <1>1, <1>2, <1>3, <2>1, CountedKept
<1>6. Locked'
  BY <1>1, <1>2, <1>3, LockedKept
<1>7. LifeOrder'
  BY <1>1, <1>2, <1>3, OrderKept
<1>8. UNCHANGED Life!lifeVars
  BY <1>1, <1>2, <1>3, LifeStutters
<1>9. QED
  BY <1>4, <1>5, <1>6, <1>7, <1>8 DEF Simulated

\* The reaper lists sessions that are over, and closes only those.
LEMMA ReapListsInv ==
  ASSUME TableInv, ReapLists
  PROVE  TableInv' /\ Simulated
<1> USE DEF TableInv, TypeInv
<1>1. /\ Spend("reap") /\ reaper' = [at |-> "listed", dead |-> {id \in held : ~Alive(id)}]
      /\ UNCHANGED <<held, nextId, down, ses, table, sess, marked, opening, task, closing, gates, asked, cut>>
  BY DEF ReapLists
<1>2. /\ left' \in [Kinds -> Nat] /\ left'["open"] = left["open"] /\ left'["attach"] = left["attach"]
      /\ left["attach"] \in Nat /\ left["open"] \in Nat
  BY <1>1, SpendFacts DEF Kinds, Typed
<1>3. \A id \in held : id \in Ids /\ ses[id].proc \in {"running", "over"}
  BY HeldSeen
<1>4. /\ reaper' \in ReaperState /\ reaper'.at = "listed"
      /\ \A id \in reaper'.dead : id \in Ids /\ ses[id].proc = "over"
  BY <1>1, <1>3 DEF ReaperState, Alive
<1>5. Typed'
  BY <1>1, <1>2, <1>4 DEF Typed
<1>6. Counted'
  BY <1>1, <1>2, CountedKept
<1>7. Locked'
  BY <1>1, LockedKept
<1>8. LifeOrder'
  BY <1>1, <1>4, OrderKept
<1>9. UNCHANGED Life!lifeVars
  BY <1>1, LifeStutters
<1>10. QED
  BY <1>5, <1>6, <1>7, <1>8, <1>9 DEF Simulated

\* What a reaper under way is made of.
LEMMA ReaperKinds ==
  ASSUME Typed
  PROVE  /\ reaper.at = "listed" => reaper.dead \in SUBSET Ids
         /\ reaper.at \in {"closing", "killed"} => reaper.todo \in SUBSET Ids
  BY DEF Typed, ReaperState

\* ReapMarks keeps the invariant, and is a step of SessionLife or none.
LEMMA ReapMarksInv ==
  ASSUME TableInv, NEW expired \in SUBSET Ids, ReapMarks(expired)
  PROVE  TableInv' /\ Simulated
<1> USE DEF TableInv, TypeInv
<1>1. /\ reaper.at = "listed" /\ expired \subseteq reaper.dead /\ marked' \subseteq table
      /\ reaper' = IF expired = {} THEN Idle ELSE [at |-> "closing", todo |-> expired]
      /\ UNCHANGED <<held, nextId, down, ses, table, sess, opening, task, closing, gates, left, asked, cut>>
  BY DEF ReapMarks, history
<1>2. /\ reaper' \in ReaperState /\ reaper'.at \in {"idle", "closing"}
      /\ reaper'.at = "closing" => \A id \in reaper'.todo : id \in Ids /\ ses[id].proc = "over"
  <2>1. \A id \in expired : ses[id].proc = "over"
    BY <1>1 DEF LifeOrder
  <2>2. CASE expired = {}
    BY <1>1, <2>2 DEF ReaperState, Idle
  <2>3. CASE expired # {}
    BY <1>1, <2>1, <2>3 DEF ReaperState
  <2>4. QED
    BY <2>2, <2>3
<1>3. marked' \in SUBSET Ids
  BY <1>1, Minted
<1>4. Typed'
  BY <1>1, <1>2, <1>3 DEF Typed
<1>5. Counted'
  BY <1>1, CountedKept DEF Typed, Kinds
<1>6. Locked'
  BY <1>1, LockedKept
<1>7. LifeOrder'
  BY <1>1, <1>2, OrderKept
<1>8. UNCHANGED Life!lifeVars
  BY <1>1, LifeStutters
<1>9. QED
  BY <1>4, <1>5, <1>6, <1>7, <1>8 DEF Simulated

\* ReapKills keeps the invariant, and is a step of SessionLife or none.
LEMMA ReapKillsInv ==
  ASSUME TableInv, NEW id \in Ids, ReapKills(id)
  PROVE  TableInv' /\ Simulated
<1> USE DEF TableInv, TypeInv
<1>1. /\ reaper.at = "closing" /\ id \in reaper.todo /\ Release({id})
      /\ reaper' = [at |-> "killed", id |-> id, todo |-> reaper.todo \ {id}]
      /\ UNCHANGED <<nextId, down, table, sess, marked, opening, task, closing, gates, left, asked, cut>>
  BY DEF ReapKills, history
<1>2. reaper.todo \in SUBSET Ids /\ \A i \in reaper.todo : ses[i].proc = "over"
  BY <1>1, ReaperKinds DEF LifeOrder
<1>3. /\ reaper' \in ReaperState /\ reaper'.at = "killed" /\ reaper'.todo = reaper.todo \ {id}
  <2>1. reaper.todo \ {id} \in SUBSET Ids
    BY <1>2
  <2>2. QED
    BY <1>1, <2>1 DEF ReaperState
<1>4. /\ held' = held \ {id} /\ ses' \in [Ids -> SesState]
      /\ \A i \in Ids : ses'[i].name = ses[i].name /\ ses'[i].proc = ses[i].proc
  BY <1>1, ReleaseFacts
<1>5. Typed'
  BY <1>1, <1>3, <1>4 DEF Typed
<1>6. Counted'
  BY <1>1, CountedKept DEF Typed, Kinds
<1>7. Locked'
  BY <1>1, LockedKept
<1>8. LifeOrder'
  BY <1>1, <1>2, <1>3, <1>4, OrderKept
<1>9. Simulated
  <2>1. \A i \in Ids : Starting(i)' <=> Starting(i)
    BY <1>1 DEF Starting
  <2>2. QED
    BY <1>1, <1>2, <1>4, <2>1, LifeCloses
<1>10. QED
  BY <1>5, <1>6, <1>7, <1>8, <1>9

\* ReapForgets keeps the invariant, and is a step of SessionLife or none.
LEMMA ReapForgetsInv ==
  ASSUME TableInv, ReapForgets
  PROVE  TableInv' /\ Simulated
<1> USE DEF TableInv, TypeInv
<1>1. /\ reaper.at = "killed" /\ table' \subseteq table /\ marked' \subseteq marked
      /\ reaper' = IF reaper.todo = {} THEN Idle ELSE [at |-> "closing", todo |-> reaper.todo]
      /\ UNCHANGED <<held, nextId, down, ses, sess, opening, task, closing, gates, left, asked, cut>>
  BY DEF ReapForgets, history
<1>2. reaper.todo \in SUBSET Ids /\ \A i \in reaper.todo : ses[i].proc = "over"
  BY <1>1, ReaperKinds DEF LifeOrder
<1>3. /\ reaper' \in ReaperState /\ reaper'.at \in {"idle", "closing"}
      /\ reaper'.at = "closing" => reaper'.todo = reaper.todo
  <2>1. CASE reaper.todo = {}
    BY <1>1, <2>1 DEF ReaperState, Idle
  <2>2. CASE reaper.todo # {}
    BY <1>1, <1>2, <2>2 DEF ReaperState
  <2>3. QED
    BY <2>1, <2>2
<1>4. Typed'
  BY <1>1, <1>3 DEF Typed
<1>5. Counted'
  BY <1>1, CountedKept DEF Typed, Kinds
<1>6. Locked'
  BY <1>1, LockedKept
<1>7. LifeOrder'
  BY <1>1, <1>2, <1>3, OrderKept
<1>8. UNCHANGED Life!lifeVars
  BY <1>1, LifeStutters
<1>9. QED
  BY <1>4, <1>5, <1>6, <1>7, <1>8 DEF Simulated

\* The shutdown: the host's table is emptied, then the manager's map, for good.
LEMMA CloseAllDrainsInv ==
  ASSUME TableInv, CloseAllDrains
  PROVE  TableInv' /\ Simulated
<1> USE DEF TableInv, TypeInv
<1>1. /\ closing' = "drained" /\ table' = {} /\ marked' = {}
      /\ UNCHANGED <<held, nextId, down, ses, opening, task, reaper, left, asked, cut>>
  BY DEF CloseAllDrains, history
<1>2. PICK gone \in SUBSET Ids : gone = table
  BY Minted
<1>3. SessionsDropped(gone)
  BY <1>2, Drops DEF CloseAllDrains
<1>4. /\ sess' \in [Ids -> SessState] /\ \A i \in Ids : sess'[i].serial = sess[i].serial
      /\ gates' \in Seq(Gate) /\ Len(gates') = Len(gates)
  BY <1>3 DEF SessionsDropped
<1>5. Typed'
  BY <1>1, <1>4 DEF Typed
<1>6. Counted'
  BY <1>1, <1>4, CountedKept DEF Typed, Kinds
<1>7. Locked'
  BY <1>1, <1>4, LockedKept
<1>8. LifeOrder'
  BY <1>1, OrderKept
<1>9. UNCHANGED Life!lifeVars
  BY <1>1, LifeStutters
<1>10. QED
  BY <1>5, <1>6, <1>7, <1>8, <1>9 DEF Simulated

\* CloseAllLatches keeps the invariant, and is a step of SessionLife or none.
LEMMA CloseAllLatchesInv ==
  ASSUME TableInv, CloseAllLatches
  PROVE  TableInv' /\ Simulated
<1> USE DEF TableInv, TypeInv
<1>1. /\ closing' = "done" /\ down' = TRUE /\ Release(held)
      /\ UNCHANGED <<nextId, table, sess, marked, opening, task, reaper, gates, left, asked, cut>>
  BY DEF CloseAllLatches, history
<1>2. /\ held' = {} /\ ses' \in [Ids -> SesState]
      /\ \A i \in Ids : ses'[i].name = ses[i].name /\ ses'[i].proc = ses[i].proc
  BY <1>1, ReleaseFacts
<1>3. Typed'
  BY <1>1, <1>2 DEF Typed
<1>4. Counted'
  BY <1>1, CountedKept DEF Typed, Kinds
<1>5. Locked'
  BY <1>1, LockedKept
<1>6. LifeOrder'
  BY <1>1, <1>2, OrderKept
<1>7. Simulated
  <2>1. NamesOf' = NamesOf
    BY <1>2 DEF NamesOf
  <2>2. Life!Held = held
    BY HeldSeen DEF Life!Held, LifeOf
  <2>3. LifeOf' = [i \in Ids |-> IF i \in held THEN "closed" ELSE LifeOf[i]]
    <3>1. \A i \in Ids : LifeOf'[i] = IF i \in held THEN "closed" ELSE LifeOf[i]
      BY <1>1, <1>2, HeldSeen DEF LifeOf
    <3>2. QED
      BY <3>1 DEF LifeOf
  <2>4. Life!ShutDown
    BY <1>1, <2>1, <2>2, <2>3 DEF Life!ShutDown, LifeOf, NamesOf
  <2>5. QED
    BY <2>4 DEF Simulated, Life!LifeNext
<1>8. QED
  BY <1>3, <1>4, <1>5, <1>6, <1>7

\* A step of nothing keeps the invariant.
LEMMA TableStutters ==
  ASSUME TableInv, UNCHANGED allVars
  PROVE  TableInv' /\ Simulated
<1> USE DEF TableInv, TypeInv, allVars, tableVars, history
<1>1. Typed'
  BY DEF Typed
<1>2. Counted'
  BY CountedKept DEF Typed, Kinds
<1>3. Locked'
  BY LockedKept
<1>4. LifeOrder'
  BY OrderKept
<1>5. UNCHANGED Life!lifeVars
  BY LifeStutters
<1>6. QED
  BY <1>1, <1>2, <1>3, <1>4, <1>5 DEF Simulated

\* However requests, adoptions, the reaper and the shutdown interleave, every step keeps the
\* invariant and is one of SessionLife's, or changes nothing there.
LEMMA TableSteps ==
  ASSUME TableInv, [TableNext]_allVars
  PROVE  TableInv' /\ Simulated
<1>1. ASSUME NEW t \in Tasks, Opens(t) PROVE TableInv' /\ Simulated
  BY <1>1, OpenStartsInv, SpawnFailsInv, ReaderFailsInv, InsertsInv, RegistersInv DEF Opens
<1>2. ASSUME NEW t \in Tasks, Attaches(t) PROVE TableInv' /\ Simulated
  BY <1>2, AttachFindsInv, AttachGatesInv, AttachRefusedInv, AttachSwapsInv, AttachAnswersInv DEF Attaches
<1>3. ASSUME NEW t \in Tasks, Closes(t) PROVE TableInv' /\ Simulated
  BY <1>3, CloseKillsInv, CloseForgetsInv DEF Closes
<1>4. ASSUME NEW t \in Tasks, Adopts(t) PROVE TableInv' /\ Simulated
  BY <1>4, AdoptTagsInv, AdoptClosesInv, AdoptListsInv, AdoptRetainsInv, AdoptParksInv DEF Adopts
<1>5. ASSUME Reaps PROVE TableInv' /\ Simulated
  BY <1>5, ReapListsInv, ReapForgetsInv, ReapMarksInv, ReapKillsInv DEF Reaps
<1>6. QED
  BY <1>1, <1>2, <1>3, <1>4, <1>5, ProcessEndsInv, PumpEndsInv, ParkInv, CloseAllDrainsInv,
     CloseAllLatchesInv, TableStutters DEF TableNext

\* The invariant holds at first.
LEMMA TableStarts == TableInit => TableInv
<1> SUFFICES ASSUME TableInit PROVE TableInv
  OBVIOUS
<1> USE TableAssumption DEF TableInit
<1>1. MaxAsked \in [Kinds -> Nat]
  BY DEF Kinds
<1>2. Typed
  <2>1. Unborn \in SesState /\ NewState \in SessState /\ Idle \in TaskState /\ Idle \in ReaperState
    BY DEF Unborn, NewState, Idle, SesState, SessState, TaskState, Resting, ReaperState, Processes
  <2>2. ses \in [Ids -> SesState] /\ sess \in [Ids -> SessState] /\ task \in [Tasks -> TaskState]
    BY <2>1
  <2>3. gates \in Seq(Gate)
    OBVIOUS
  <2>4. nextId \in Nat /\ down \in BOOLEAN /\ closing \in {"no", "drained", "done"} /\ reaper \in ReaperState
    BY <2>1
  <2>5. held \in SUBSET (1 .. nextId) /\ table \in SUBSET (1 .. nextId) /\ marked \in SUBSET Ids
    OBVIOUS
  <2>6. QED
    BY <1>1, <2>2, <2>3, <2>4, <2>5 DEF Typed
<1>3. Found = {} /\ \A t \in Tasks : task[t].at = "idle"
  BY DEF Found, Idle
<1>4. Counted
  BY <1>1, <1>3, FS_EmptySet DEF Counted, Kinds
<1>5. Locked
  BY <1>3 DEF Locked, NewState
<1>6. LifeOrder
  BY <1>3 DEF LifeOrder, Ids, Unborn, Idle
<1>7. QED
  BY <1>2, <1>4, <1>5, <1>6 DEF TableInv, TypeInv

\* The inductive invariant of the host's tables holds of every behaviour.
THEOREM TableKeepsInv == TableSpec => []TableInv
<1>1. TableInit => TableInv
  BY TableStarts
<1>2. TableInv /\ [TableNext]_allVars => TableInv'
  BY TableSteps
<1>3. QED
  BY <1>1, <1>2, PTL DEF TableSpec

\* The types of the state and the locks hold for any number of sessions, requests and pages.
THEOREM TableTyped == TableSpec => []TableTypeOK
<1>1. TableInv => TableTypeOK
  <2> SUFFICES ASSUME TableInv PROVE TableTypeOK
    OBVIOUS
  <2> USE DEF TableInv, TypeInv
  <2>1. nextId \in 0 .. MaxAsked["open"]
    <3>1. nextId \in Nat /\ left["open"] \in Nat /\ MaxAsked["open"] \in Nat
      BY TableAssumption DEF Typed, Kinds
    <3>2. QED
      BY <3>1 DEF Counted
  <2>2. \A id \in Ids : /\ ses[id].proc \in {"unborn", "running", "over"}
                        /\ ses[id].sink \in Gates \cup {Parked, NoSink}
                        /\ sess[id].gate \in Gates \cup {NoGate} /\ sess[id].route \in Gates \cup {NoGate}
    BY DEF Typed, SesState, SessState, Processes
  <2>3. QED
    BY <2>1, <2>2 DEF TableTypeOK, Typed, Locked
<1>2. QED
  BY <1>1, TableKeepsInv, PTL

\* A host keeps SessionLife's promises, for any number of sessions, requests and pages and any
\* max_ptys: the opens that count never exceed it, the adoption closes only what was replaced,
\* the reaper only what is over, and nothing is registered after the shutdown's drain.
THEOREM HostImplementsLife == TableSpec => ImplementsLife
<1>1. TableInit => Life!LifeInit
  BY LifeStarts
<1>2. TableInv /\ [TableNext]_allVars => [Life!LifeNext]_Life!lifeVars
  BY TableSteps DEF Simulated
<1>3. QED
  BY <1>1, <1>2, TableKeepsInv, PTL DEF TableSpec, ImplementsLife, Life!LifeSpec
-----------------------------------------------------------------------------
\* A receiver hears of the end.

\* A step that leaves a session's lock, route, gate and sink alone, and takes nothing back of
\* what its gates are or were told.
Undisturbed(id) ==
  /\ sess'[id].serial = sess[id].serial /\ sess'[id].route = sess[id].route
  /\ sess'[id].gate = sess[id].gate /\ (sess[id].ended => sess'[id].ended)
  /\ ses'[id].sink = ses[id].sink /\ (ses'[id].pumped => ses[id].pumped)
  /\ \A g \in 1 .. Len(gates) :
       gates[g].id = id =>
         /\ g \in 1 .. Len(gates')
         /\ gates'[g].id = id /\ (gates'[g].retired => gates[g].retired)
         /\ (gates[g].answered => gates'[g].answered) /\ (gates[g].told => gates'[g].told)

\* AtRest is kept by a step that leaves the session undisturbed.
LEMMA AtRestKept ==
  ASSUME NEW id, AtRest(id), Undisturbed(id), cut \subseteq cut'
  PROVE  AtRest(id)'
  BY DEF AtRest, Undisturbed, Connected

\* UnderWay is kept by a step that leaves the task and its session undisturbed.
LEMMA UnderWayKept ==
  ASSUME NEW t, UnderWay(t), task'[t] = task[t], cut \subseteq cut',
         task[t].at \in {"gated", "swapped"} => Undisturbed(task[t].id)
  PROVE  UnderWay(t)'
<1>1. CASE task[t].at \notin {"gated", "swapped"}
  BY <1>1 DEF UnderWay
<1>2. CASE task[t].at \in {"gated", "swapped"}
  <2>1. PICK id, g : id = task[t].id /\ g = task[t].gate
    OBVIOUS
  <2>2. g \in 1 .. Len(gates) /\ gates[g].id = id /\ Undisturbed(id)
    BY <1>2, <2>1 DEF UnderWay
  <2>3. /\ g \in 1 .. Len(gates') /\ gates'[g].id = id
        /\ task[t].at = "gated" => sess'[id].route \in cut' \cup {NoGate, task[t].old}
    BY <1>2, <2>1, <2>2 DEF UnderWay, Undisturbed
  <2>4. task[t].at = "gated" /\ g \notin cut' => sess'[id].gate = g /\ ~gates'[g].retired
    BY <2>1, <2>2 DEF UnderWay, Undisturbed
  <2>5. task[t].at = "swapped" /\ g \notin cut' => Connected(id, g)' /\ (ses'[id].pumped => sess'[id].ended)
    BY <2>1, <2>2 DEF UnderWay, Undisturbed, Connected
  <2>6. QED
    BY <2>1, <2>3, <2>4, <2>5 DEF UnderWay
<1>3. QED
  BY <1>1, <1>2

\* A step that disturbs no session, and starts no attach.
LEMMA HearsKept ==
  ASSUME Hears, closing' = "no" => closing = "no", cut \subseteq cut', nextId' = nextId,
         \A id \in Ids : Undisturbed(id),
         \A u \in Tasks : \/ task'[u] = task[u] /\ (task[u].at \in {"gated", "swapped"} => task[u].id \in Ids)
                          \/ task'[u].at \notin {"gated", "swapped"}
  PROVE  Hears'
<1> SUFFICES ASSUME closing' = "no"
             PROVE  /\ \A id \in Ids : AtRest(id)' /\ (id > nextId' => ses'[id].sink = NoSink)
                    /\ \A u \in Tasks : UnderWay(u)'
  BY DEF Hears
<1>1. /\ \A id \in Ids : AtRest(id) /\ (id > nextId => ses[id].sink = NoSink)
      /\ \A u \in Tasks : UnderWay(u)
  BY DEF Hears
<1>2. \A id \in Ids : AtRest(id)'
  BY <1>1, AtRestKept
<1>3. \A id \in Ids : id > nextId' => ses'[id].sink = NoSink
  BY <1>1 DEF Undisturbed
<1>4. ASSUME NEW u \in Tasks PROVE UnderWay(u)'
  <2>1. CASE task'[u] = task[u] /\ (task[u].at \in {"gated", "swapped"} => task[u].id \in Ids)
    BY <1>1, <2>1, UnderWayKept
  <2>2. CASE task'[u].at \notin {"gated", "swapped"}
    BY <2>2 DEF UnderWay
  <2>3. QED
    BY <2>1, <2>2
<1>5. QED
  BY <1>2, <1>3, <1>4

\* An attach is on a session of the host's.
LEMMA AttachesOnIds ==
  ASSUME Typed, NEW u \in Tasks, task[u].at \in {"gated", "swapped"}
  PROVE  task[u] \in Attaching /\ task[u].id \in Ids /\ task[u].gate \in Gates
  BY TaskKinds DEF Typed, Attaching

\* A session keeps all of that when the gates, the host's state and its sink are not touched.
LEMMA LeftAlone ==
  ASSUME NEW id, UNCHANGED <<sess, gates>>, ses'[id].sink = ses[id].sink, ses'[id].pumped = ses[id].pumped
  PROVE  Undisturbed(id)
  BY DEF Undisturbed

\* The steps that are not about gates.
LEMMA OtherStepsHear ==
  ASSUME TableInv, Hears, UNCHANGED <<sess, gates, cut, nextId>>, closing' = "no" => closing = "no",
         \A id \in Ids : ses'[id].sink = ses[id].sink /\ ses'[id].pumped = ses[id].pumped,
         \A u \in Tasks : task'[u] = task[u] \/ task'[u].at \notin {"gated", "swapped"}
  PROVE  Hears'
<1>1. \A id \in Ids : Undisturbed(id)
  BY LeftAlone
<1>2. \A u \in Tasks : task[u].at \in {"gated", "swapped"} => task[u].id \in Ids
  BY AttachesOnIds DEF TableInv, TypeInv
<1>3. QED
  BY <1>1, <1>2, HearsKept

\* Steps that change one task, to a state that is none of an attach under way.
LEMMA OneTaskElse ==
  ASSUME Typed, NEW t \in Tasks, NEW r, r.at \notin {"gated", "swapped"}, task' = [task EXCEPT ![t] = r]
  PROVE  \A u \in Tasks : task'[u] = task[u] \/ task'[u].at \notin {"gated", "swapped"}
  BY DEF Typed

\* The steps of an open keep Hears.
LEMMA OpensHear ==
  ASSUME TableInv, Hears, NEW t \in Tasks, Opens(t)
  PROVE  Hears'
<1> USE DEF TableInv, TypeInv
<1>1. CASE OpenStarts(t)
  <2>1. \A u \in Tasks : task'[u] = task[u] \/ task'[u].at \notin {"gated", "swapped"}
    BY <1>1, OneTaskElse DEF OpenStarts
  <2>2. QED
    BY <1>1, <2>1, OtherStepsHear DEF OpenStarts
<1>2. CASE SpawnFails(t)
  <2>1. \A u \in Tasks : task'[u] = task[u] \/ task'[u].at \notin {"gated", "swapped"}
    BY <1>2, OneTaskElse DEF SpawnFails, OpenOver, Idle
  <2>2. QED
    BY <1>2, <2>1, OtherStepsHear DEF SpawnFails, history
<1>3. CASE ReaderFails(t)
  <2>1. \A u \in Tasks : task'[u] = task[u] \/ task'[u].at \notin {"gated", "swapped"}
    BY <1>3, OneTaskElse DEF ReaderFails, OpenOver, Idle
  <2>2. \A id \in Ids : ses'[id].sink = ses[id].sink /\ ses'[id].pumped = ses[id].pumped
    <3>1. PICK S : Release(S)
      BY <1>3 DEF ReaderFails
    <3>2. QED
      BY <3>1, ReleaseFacts
  <2>3. QED
    BY <1>3, <2>1, <2>2, OtherStepsHear DEF ReaderFails, history
<1>4. CASE Inserts(t)
  <2>1. \A u \in Tasks : task'[u] = task[u] \/ task'[u].at \notin {"gated", "swapped"}
    BY <1>4, OneTaskElse DEF Inserts, OpenOver, Idle
  <2>2. QED
    BY <1>4, <2>1, OtherStepsHear DEF Inserts, history
<1>5. ASSUME NEW page \in Pages, NEW n \in Names, Registers(t, page, n) PROVE Hears'
  <2> SUFFICES ASSUME closing' = "no"
               PROVE  /\ \A i \in Ids : AtRest(i)' /\ (i > nextId' => ses'[i].sink = NoSink)
                      /\ \A u \in Tasks : UnderWay(u)'
    BY DEF Hears
  <2>1. UNCHANGED <<sess, gates, cut, closing>>
    BY <1>5 DEF Registers, history
  <2>2. PICK id \in Int : id = nextId + 1 /\ id > nextId
    BY DEF Typed
  <2>3. /\ nextId' = id /\ \A i \in Ids \ {id} : ses'[i] = ses[i]
    BY <1>5, <2>2 DEF Registers, Typed
  <2>4. \A u \in Tasks : task'[u] = task[u] \/ task'[u].at \notin {"gated", "swapped"}
    <3>1. task' = [task EXCEPT ![t] = [at |-> "registered", id |-> id]]
      BY <1>5, <2>2 DEF Registers
    <3>2. QED
      BY <3>1, OneTaskElse
  <2>5. /\ \A i \in Ids : AtRest(i) /\ (i > nextId => ses[i].sink = NoSink)
        /\ \A u \in Tasks : UnderWay(u)
    BY <2>1 DEF Hears
  <2>6. \A i \in Ids \ {id} : Undisturbed(i)
    BY <2>1, <2>3, LeftAlone
  <2>7. \A g : id \in Ids => ~Connected(id, g)
    BY <2>2, <2>5 DEF Connected, NoSink
  <2>8. ASSUME NEW i \in Ids PROVE AtRest(i)' /\ (i > nextId' => ses'[i].sink = NoSink)
    <3>1. CASE i = id
      BY <2>1, <2>3, <2>5, <2>7, <3>1 DEF AtRest
    <3>2. CASE i # id
      <4>1. AtRest(i)'
        BY <2>1, <2>5, <2>6, <3>2, AtRestKept
      <4>2. i > nextId' => i > nextId
        BY <2>2, <2>3 DEF Typed, Ids
      <4>3. QED
        BY <2>3, <2>5, <3>2, <4>1, <4>2
    <3>3. QED
      BY <3>1, <3>2
  <2>9. ASSUME NEW u \in Tasks PROVE UnderWay(u)'
    <3>1. CASE task'[u].at \notin {"gated", "swapped"}
      BY <3>1 DEF UnderWay
    <3>2. CASE task'[u] = task[u] /\ task[u].at \in {"gated", "swapped"} /\ task[u].id # id
      BY <2>1, <2>5, <2>6, <3>2, AttachesOnIds, UnderWayKept
    <3>3. CASE task'[u] = task[u] /\ task[u].at \in {"gated", "swapped"} /\ task[u].id = id
      BY <2>1, <2>5, <2>7, <3>3, AttachesOnIds DEF UnderWay
    <3>4. QED
      BY <2>4, <3>1, <3>2, <3>3
  <2>10. QED
    BY <2>8, <2>9
<1>6. QED
  BY <1>1, <1>2, <1>3, <1>4, <1>5 DEF Opens

\* Retiring the gates of the sessions of S disturbs nobody else's.
LEMMA RetiringOthers ==
  ASSUME Typed, NEW S
  PROVE  \A h \in 1 .. Len(gates) : gates[h].id \notin S => Retired(S)[h] = gates[h]
  BY RetiredFacts DEF Typed

\* Hears is kept when a session is parked: it has no receiver then.
LEMMA ParkedHear ==
  ASSUME TableInv, Hears, NEW id \in Ids, SessionParked(id), sess[id].serial = NoTask,
         UNCHANGED <<cut, nextId>>, closing' = "no" => closing = "no", ses'[id].sink \in {ses[id].sink, Parked},
         id <= nextId,
         \A u \in Tasks : task'[u] = task[u] \/ task'[u].at \notin {"gated", "swapped"}
  PROVE  Hears'
<1> USE DEF TableInv, TypeInv
<1> SUFFICES ASSUME closing' = "no"
             PROVE  /\ \A i \in Ids : AtRest(i)' /\ (i > nextId' => ses'[i].sink = NoSink)
                    /\ \A u \in Tasks : UnderWay(u)'
  BY DEF Hears
<1>1. /\ \A i \in Ids : AtRest(i) /\ (i > nextId => ses[i].sink = NoSink)
      /\ \A u \in Tasks : UnderWay(u)
  BY DEF Hears
<1>2. ASSUME NEW i \in Ids \ {id} PROVE Undisturbed(i)
  <2>1. \A h \in 1 .. Len(gates) : gates[h].id # id => Retired({id})[h] = gates[h]
    BY RetiringOthers
  <2>2. gates' = Retired({id}) /\ Len(gates') = Len(gates) /\ sess'[i] = sess[i] /\ ses'[i] = ses[i]
    BY DEF SessionParked
  <2>3. \A h \in 1 .. Len(gates) : gates[h].id = i => h \in 1 .. Len(gates') /\ gates'[h] = gates[h]
    BY <2>1, <2>2
  <2>4. QED
    BY <2>2, <2>3 DEF Undisturbed
<1>3. AtRest(id)'
  BY DEF SessionParked, AtRest
<1>4. ASSUME NEW i \in Ids PROVE i > nextId' => ses'[i].sink = NoSink
  <2>1. CASE i = id
    BY <2>1 DEF Typed, Ids
  <2>2. CASE i # id
    BY <1>1, <1>2, <2>2 DEF Undisturbed
  <2>3. QED
    BY <2>1, <2>2
<1>5. ASSUME NEW u \in Tasks PROVE UnderWay(u)'
  <2>1. CASE task'[u].at \notin {"gated", "swapped"}
    BY <2>1 DEF UnderWay
  <2>2. CASE task'[u] = task[u] /\ task[u].at \in {"gated", "swapped"}
    <3>1. task[u].id \in Ids \ {id}
      BY <2>2, AttachesOnIds, TableAssumption DEF Locked
    <3>2. QED
      BY <1>1, <1>2, <2>2, <3>1, UnderWayKept
  <2>3. QED
    BY <2>1, <2>2
<1>6. QED
  BY <1>1, <1>2, <1>3, <1>4, <1>5, AtRestKept

\* The end of a reader tells the gate it feeds.
LEMMA PumpEndsHears ==
  ASSUME TableInv, Hears, NEW id \in Ids, PumpEnds(id)
  PROVE  Hears'
<1> USE DEF TableInv, TypeInv
<1> SUFFICES ASSUME closing' = "no"
             PROVE  /\ \A i \in Ids : AtRest(i)' /\ (i > nextId' => ses'[i].sink = NoSink)
                    /\ \A u \in Tasks : UnderWay(u)'
  BY DEF Hears
<1>0. UNCHANGED <<task, cut, nextId, closing>>
  BY DEF PumpEnds, history
<1>1. /\ \A i \in Ids : AtRest(i) /\ (i > nextId => ses[i].sink = NoSink)
      /\ \A u \in Tasks : UnderWay(u)
  BY <1>0 DEF Hears
<1>2. /\ \A i \in Ids \ {id} : ses'[i] = ses[i]
      /\ ses'[id].sink = ses[id].sink
      /\ \A i \in Ids : /\ sess'[i].route = sess[i].route /\ sess'[i].gate = sess[i].gate
                        /\ sess'[i].serial = sess[i].serial
                        /\ sess[i].ended => sess'[i].ended
      /\ ses[id].sink # NoSink => sess'[id].ended
      /\ Len(gates') = Len(gates)
      /\ \A g \in 1 .. Len(gates) :
           /\ gates'[g].id = gates[g].id /\ gates'[g].retired = gates[g].retired
           /\ gates'[g].answered = gates[g].answered
           /\ gates[g].told => gates'[g].told
           /\ g \in Gates /\ ses[id].sink = g /\ gates[g].answered /\ ~gates[g].retired => gates'[g].told
  BY PumpEndsFacts
<1>3. \A i \in Ids \ {id} : Undisturbed(i)
  BY <1>2 DEF Undisturbed
<1>4. AtRest(id)'
  <2>1. sess[id].route \in Gates \cup {NoGate}
    BY DEF Typed, SessState
  <2>2. PICK g \in Gates \cup {NoGate} : g = sess[id].route
    BY <2>1
  <2>3. CASE sess[id].serial = NoTask /\ g # NoGate /\ g \notin cut
    <3>1. Connected(id, g) /\ gates[g].answered
      BY <1>1, <2>2, <2>3 DEF AtRest
    <3>2. Connected(id, g)' /\ gates'[g].answered /\ gates'[g].told
      BY <1>2, <2>3, <3>1 DEF Connected
    <3>3. QED
      BY <1>2, <2>2, <3>2 DEF AtRest
  <2>4. CASE ~(sess[id].serial = NoTask /\ g # NoGate /\ g \notin cut)
    BY <1>0, <1>2, <2>2, <2>4 DEF AtRest
  <2>5. QED
    BY <2>3, <2>4
<1>5. ASSUME NEW u \in Tasks PROVE UnderWay(u)'
  <2>1. CASE task[u].at \notin {"gated", "swapped"}
    BY <1>0, <2>1 DEF UnderWay
  <2>2. CASE task[u].at \in {"gated", "swapped"} /\ task[u].id # id
    BY <1>0, <1>1, <1>3, <2>2, AttachesOnIds, UnderWayKept
  <2>3. CASE task[u].at \in {"gated", "swapped"} /\ task[u].id = id
    <3>1. PICK g \in Gates : g = task[u].gate
      BY <2>3, AttachesOnIds
    <3>2. g \in 1 .. Len(gates) /\ gates[g].id = id
      BY <1>1, <2>3, <3>1 DEF UnderWay
    <3>3. g \in 1 .. Len(gates') /\ gates'[g].id = id /\ gates'[g].retired = gates[g].retired
      BY <1>2, <3>2
    <3>4. CASE task[u].at = "gated"
      <4>1. /\ sess[id].route \in cut \cup {NoGate, task[u].old}
            /\ g \notin cut => sess[id].gate = g /\ ~gates[g].retired
        BY <1>1, <2>3, <3>1, <3>4 DEF UnderWay
      <4>2. QED
        BY <1>0, <1>2, <2>3, <3>1, <3>3, <3>4, <4>1 DEF UnderWay
    <3>5. CASE task[u].at = "swapped"
      <4>1. g \notin cut => Connected(id, g)
        BY <1>1, <2>3, <3>1, <3>5 DEF UnderWay
      <4>2. g \notin cut => Connected(id, g)' /\ sess'[id].ended
        BY <1>2, <3>3, <4>1 DEF Connected, Gates, NoSink
      <4>3. QED
        BY <1>0, <2>3, <3>1, <3>3, <3>5, <4>2 DEF UnderWay
    <3>6. QED
      BY <2>3, <3>4, <3>5
  <2>4. QED
    BY <2>1, <2>2, <2>3
<1>6. QED
  BY <1>0, <1>1, <1>2, <1>3, <1>4, <1>5, AtRestKept

\* AttachGates keeps Hears.
LEMMA AttachGatesHears ==
  ASSUME TableInv, Hears, NEW t \in Tasks, AttachGates(t)
  PROVE  Hears'
<1> USE DEF TableInv, TypeInv
<1> SUFFICES ASSUME closing' = "no"
             PROVE  /\ \A i \in Ids : AtRest(i)' /\ (i > nextId' => ses'[i].sink = NoSink)
                    /\ \A u \in Tasks : UnderWay(u)'
  BY DEF Hears
<1>0. UNCHANGED <<ses, cut, nextId, closing>>
  BY DEF AttachGates, history
<1>1. /\ \A i \in Ids : AtRest(i) /\ (i > nextId => ses[i].sink = NoSink)
      /\ \A u \in Tasks : UnderWay(u)
  BY <1>0 DEF Hears
<1>2. PICK id \in Ids, g \in Gates : GateMade(t, id, g)
  BY AttachGatesFacts
<1>3. Len(gates') = g /\ g = Len(gates) + 1 /\ Len(gates) \in Nat
  BY <1>2 DEF GateMade, Typed
<1>4. ASSUME NEW i \in Ids \ {id} PROVE Undisturbed(i)
  <2>1. sess'[i] = sess[i] /\ \A h \in 1 .. Len(gates) : gates'[h] = Retired({id})[h]
    BY <1>2 DEF GateMade
  <2>2. \A h \in 1 .. Len(gates) : gates[h].id # id => Retired({id})[h] = gates[h]
    BY RetiringOthers
  <2>3. \A h \in 1 .. Len(gates) : gates[h].id = i => h \in 1 .. Len(gates') /\ gates'[h] = gates[h]
    <3>1. \A h \in 1 .. Len(gates) : h \in 1 .. Len(gates')
      BY <1>3
    <3>2. QED
      BY <2>1, <2>2, <3>1
  <2>4. QED
    BY <1>0, <2>1, <2>3 DEF Undisturbed
<1>5. AtRest(id)'
  BY <1>2, TableAssumption DEF GateMade, AtRest
<1>6. UnderWay(t)'
  <2>1. PICK old : old = sess[id].gate
    OBVIOUS
  <2>2. /\ task'[t] = [at |-> "gated", id |-> id, gate |-> g, old |-> old]
        /\ sess'[id].gate = g /\ sess'[id].route = sess[id].route
        /\ gates'[g] = [id |-> id, retired |-> FALSE, answered |-> FALSE, told |-> FALSE]
    BY <1>2, <2>1 DEF GateMade
  <2>3. sess[id].route \in cut \cup {NoGate, old}
    BY <1>1, <1>2, <2>1 DEF GateMade, AtRest, Connected
  <2>4. g \in 1 .. Len(gates')
    BY <1>3
  <2>5. QED
    BY <1>0, <2>2, <2>3, <2>4 DEF UnderWay
<1>7. ASSUME NEW u \in Tasks \ {t} PROVE UnderWay(u)'
  <2>1. task'[u] = task[u]
    BY <1>2 DEF GateMade
  <2>2. task[u].at \in {"gated", "swapped"} => task[u].id \in Ids \ {id}
    BY <1>2, AttachesOnIds, TableAssumption DEF GateMade, Locked
  <2>3. QED
    BY <1>0, <1>1, <1>4, <2>1, <2>2, UnderWayKept
<1>8. QED
  BY <1>0, <1>1, <1>4, <1>5, <1>6, <1>7, AtRestKept

\* What is true of an attach's session: its lock is the attach's.
LEMMA OwnLock ==
  ASSUME TypeInv, NEW t \in Tasks, task[t].at \in {"gated", "swapped"}
  PROVE  /\ sess[task[t].id].serial = t /\ t # NoTask
         /\ \A u \in Tasks \ {t} : task[u].at \in {"gated", "swapped"} => task[u].id # task[t].id
  BY TableAssumption DEF TypeInv, Locked

\* AttachRefused keeps Hears.
LEMMA AttachRefusedHears ==
  ASSUME TableInv, Hears, NEW t \in Tasks, AttachRefused(t)
  PROVE  Hears'
<1> USE DEF TableInv, TypeInv
<1> SUFFICES ASSUME closing' = "no"
             PROVE  /\ \A i \in Ids : AtRest(i)' /\ (i > nextId' => ses'[i].sink = NoSink)
                    /\ \A u \in Tasks : UnderWay(u)'
  BY DEF Hears
<1>0. task[t].at = "gated" /\ UNCHANGED <<ses, gates, nextId, closing>>
  BY DEF AttachRefused
<1>1. /\ \A i \in Ids : AtRest(i) /\ (i > nextId => ses[i].sink = NoSink)
      /\ \A u \in Tasks : UnderWay(u)
  BY <1>0 DEF Hears
<1>2. PICK id \in Ids : AttachUndone(t, id)
  BY AttachRefusedFacts
<1>3. /\ id = task[t].id /\ task'[t] = Idle /\ \A u \in Tasks \ {t} : task'[u] = task[u]
      /\ \A i \in Ids \ {id} : sess'[i] = sess[i]
      /\ sess'[id].route = sess[id].route
      /\ cut' = cut \cup ({task[t].old} \ {NoGate})
  BY <1>2, AttachRefusedFacts DEF AttachUndone, TaskMoved
<1>4. \A i \in Ids \ {id} : Undisturbed(i)
  BY <1>0, <1>3 DEF Undisturbed
<1>5. AtRest(id)'
  <2>1. sess[id].route \in cut \cup {NoGate, task[t].old}
    BY <1>0, <1>1, <1>3 DEF UnderWay
  <2>2. sess'[id].route \in cut' \cup {NoGate}
    BY <1>3, <2>1
  <2>3. QED
    BY <2>2 DEF AtRest
<1>6. ASSUME NEW u \in Tasks PROVE UnderWay(u)'
  <2>1. CASE u = t
    BY <1>3, <2>1 DEF UnderWay, Idle
  <2>2. CASE u # t
    <3>1. task[u].at \in {"gated", "swapped"} => task[u].id \in Ids \ {id}
      BY <1>0, <1>3, <2>2, OwnLock, AttachesOnIds
    <3>2. QED
      BY <1>1, <1>3, <1>4, <2>2, <3>1, UnderWayKept
  <2>3. QED
    BY <2>1, <2>2
<1>7. QED
  BY <1>0, <1>1, <1>3, <1>4, <1>5, <1>6, AtRestKept

\* AttachSwaps keeps Hears.
LEMMA AttachSwapsHears ==
  ASSUME TableInv, Hears, NEW t \in Tasks, AttachSwaps(t)
  PROVE  Hears'
<1> USE DEF TableInv, TypeInv
<1> SUFFICES ASSUME closing' = "no"
             PROVE  /\ \A i \in Ids : AtRest(i)' /\ (i > nextId' => ses'[i].sink = NoSink)
                    /\ \A u \in Tasks : UnderWay(u)'
  BY DEF Hears
<1>0. task[t].at = "gated" /\ task[t].id \in held /\ UNCHANGED <<gates, cut, nextId, closing>>
  BY DEF AttachSwaps, history
<1>1. /\ \A i \in Ids : AtRest(i) /\ (i > nextId => ses[i].sink = NoSink)
      /\ \A u \in Tasks : UnderWay(u)
  BY <1>0 DEF Hears
<1>2. PICK id \in Ids, g \in Gates : AttachSwapped(t, id, g)
  BY AttachSwapsFacts
<1>3. /\ id = task[t].id /\ g = task[t].gate
      /\ task'[t].at = "swapped" /\ task'[t].id = id /\ task'[t].gate = g
      /\ \A u \in Tasks \ {t} : task'[u] = task[u]
      /\ \A i \in Ids \ {id} : sess'[i] = sess[i] /\ ses'[i] = ses[i]
      /\ ses'[id].sink = g /\ ses'[id].pumped = ses[id].pumped
      /\ sess'[id].serial = sess[id].serial /\ sess'[id].gate = sess[id].gate
      /\ sess'[id].ended = (sess[id].ended \/ ses[id].pumped)
  BY <1>2 DEF AttachSwapped, SinkMoved
<1>4. \A i \in Ids \ {id} : Undisturbed(i)
  BY <1>0, <1>3 DEF Undisturbed
<1>5. AtRest(id)'
  <2>1. sess'[id].serial # NoTask
    BY <1>0, <1>3, OwnLock
  <2>2. QED
    BY <2>1 DEF AtRest
<1>6. UnderWay(t)'
  <2>1. /\ g \in 1 .. Len(gates) /\ gates[g].id = id
        /\ g \notin cut => sess[id].gate = g /\ ~gates[g].retired
    BY <1>0, <1>1, <1>3 DEF UnderWay
  <2>2. g \notin cut' => Connected(id, g)' /\ (ses'[id].pumped => sess'[id].ended)
    BY <1>0, <1>3, <2>1 DEF Connected
  <2>3. QED
    BY <1>0, <1>3, <2>1, <2>2 DEF UnderWay
<1>7. ASSUME NEW u \in Tasks \ {t} PROVE UnderWay(u)'
  <2>1. task[u].at \in {"gated", "swapped"} => task[u].id \in Ids \ {id}
    BY <1>0, <1>3, OwnLock, AttachesOnIds
  <2>2. QED
    BY <1>0, <1>1, <1>3, <1>4, <2>1, UnderWayKept
<1>8. ASSUME NEW i \in Ids PROVE i > nextId' => ses'[i].sink = NoSink
  <2>1. id <= nextId
    BY <1>0, <1>3, Minted
  <2>2. QED
    BY <1>0, <1>1, <1>3, <2>1 DEF Typed, Ids
<1>9. QED
  BY <1>0, <1>1, <1>4, <1>5, <1>6, <1>7, <1>8, AtRestKept

\* AttachAnswers keeps Hears.
LEMMA AttachAnswersHears ==
  ASSUME TableInv, Hears, NEW t \in Tasks, AttachAnswers(t)
  PROVE  Hears'
<1> USE DEF TableInv, TypeInv
<1> SUFFICES ASSUME closing' = "no"
             PROVE  /\ \A i \in Ids : AtRest(i)' /\ (i > nextId' => ses'[i].sink = NoSink)
                    /\ \A u \in Tasks : UnderWay(u)'
  BY DEF Hears
<1>0. task[t].at = "swapped" /\ UNCHANGED <<ses, cut, nextId, closing>>
  BY DEF AttachAnswers, history
<1>1. /\ \A i \in Ids : AtRest(i) /\ (i > nextId => ses[i].sink = NoSink)
      /\ \A u \in Tasks : UnderWay(u)
  BY <1>0 DEF Hears
<1>2. PICK id \in Ids, g \in Gates : AttachAnswered(t, id, g)
  BY AttachAnswersFacts
<1>3. /\ id = task[t].id /\ g = task[t].gate
      /\ task'[t] = Idle /\ \A u \in Tasks \ {t} : task'[u] = task[u]
      /\ \A i \in Ids \ {id} : sess'[i] = sess[i]
      /\ sess'[id].gate = sess[id].gate /\ sess'[id].route = g
      /\ Len(gates') = Len(gates)
      /\ \A h \in 1 .. Len(gates) : h # g => gates'[h] = gates[h]
  BY <1>2 DEF AttachAnswered, TaskMoved
<1>4. /\ g \in 1 .. Len(gates) /\ gates[g].id = id
      /\ g \notin cut => Connected(id, g) /\ (ses[id].pumped => sess[id].ended)
  BY <1>0, <1>1, <1>3 DEF UnderWay
<1>5. /\ gates'[g].id = id /\ gates'[g].retired = gates[g].retired /\ gates'[g].answered
      /\ sess[id].ended => gates'[g].told
  BY <1>2, <1>4 DEF AttachAnswered
<1>6. \A i \in Ids \ {id} : Undisturbed(i)
  BY <1>0, <1>3, <1>4 DEF Undisturbed
<1>7. AtRest(id)'
  <2>1. g \notin cut' => Connected(id, g)' /\ gates'[g].answered /\ (ses'[id].pumped => gates'[g].told)
    BY <1>0, <1>3, <1>4, <1>5 DEF Connected
  <2>2. QED
    BY <1>3, <2>1 DEF AtRest
<1>8. ASSUME NEW u \in Tasks PROVE UnderWay(u)'
  <2>1. CASE u = t
    BY <1>3, <2>1 DEF UnderWay, Idle
  <2>2. CASE u # t
    <3>1. task[u].at \in {"gated", "swapped"} => task[u].id \in Ids \ {id}
      BY <1>0, <1>3, <2>2, OwnLock, AttachesOnIds
    <3>2. QED
      BY <1>0, <1>1, <1>3, <1>6, <2>2, <3>1, UnderWayKept
  <2>3. QED
    BY <2>1, <2>2
<1>9. QED
  BY <1>0, <1>1, <1>6, <1>7, <1>8, AtRestKept

\* The steps of an attach keep Hears.
LEMMA AttachesHear ==
  ASSUME TableInv, Hears, NEW t \in Tasks, Attaches(t)
  PROVE  Hears'
<1>1. ASSUME NEW id \in Ids, AttachFinds(t, id) PROVE Hears'
  <2>1. \A u \in Tasks : task'[u] = task[u] \/ task'[u].at \notin {"gated", "swapped"}
    BY <1>1, OneTaskElse DEF AttachFinds, TableInv, TypeInv
  <2>2. QED
    BY <1>1, <2>1, OtherStepsHear DEF AttachFinds
<1>2. QED
  BY <1>1, AttachGatesHears, AttachRefusedHears, AttachSwapsHears, AttachAnswersHears DEF Attaches

\* AdoptTags keeps Hears.
LEMMA AdoptTagsHears ==
  ASSUME TableInv, Hears, NEW t \in Tasks, NEW page \in Pages, AdoptTags(t, page)
  PROVE  Hears'
<1> USE DEF TableInv, TypeInv
<1> SUFFICES ASSUME closing' = "no"
             PROVE  /\ \A i \in Ids : AtRest(i)' /\ (i > nextId' => ses'[i].sink = NoSink)
                    /\ \A u \in Tasks : UnderWay(u)'
  BY DEF Hears
<1>0. UNCHANGED <<sess, gates, nextId, closing>>
  BY DEF AdoptTags
<1>1. /\ \A i \in Ids : AtRest(i) /\ (i > nextId => ses[i].sink = NoSink)
      /\ \A u \in Tasks : UnderWay(u)
  BY <1>0 DEF Hears
<1>2. PICK others \in SUBSET held :
        /\ SessionsTagged(others)
        /\ task' = [task EXCEPT ![t] = [at |-> "tagged", old |-> SupersededIn(others),
                                        adopted |-> others \ SupersededIn(others)]]
  BY AdoptTagsFacts
<1>3. \A u \in Tasks : task'[u] = task[u] \/ task'[u].at \notin {"gated", "swapped"}
  <2>1. PICK r : r = [at |-> "tagged", old |-> SupersededIn(others),
                      adopted |-> others \ SupersededIn(others)]
    OBVIOUS
  <2>2. r.at \notin {"gated", "swapped"} /\ task' = [task EXCEPT ![t] = r]
    BY <1>2, <2>1
  <2>3. QED
    BY <2>2, OneTaskElse
<1>4. /\ \A i \in Ids \ others : ses'[i] = ses[i]
      /\ cut \subseteq cut'
      /\ \A i \in others : ses[i].sink \in Gates => ses[i].sink \in cut'
  BY <1>2 DEF SessionsTagged
<1>5. others \subseteq Ids /\ \A i \in others : i <= nextId
  BY Minted
<1>6. \A i \in Ids \ others : Undisturbed(i)
  BY <1>0, <1>4, LeftAlone
<1>7. ASSUME NEW i \in others PROVE AtRest(i)'
  <2>1. PICK g \in Gates \cup {NoGate} : g = sess[i].route
    BY <1>5 DEF Typed, SessState
  <2>2. sess[i].serial = NoTask /\ g # NoGate => g \in cut'
    BY <1>1, <1>4, <1>5, <2>1 DEF AtRest, Connected
  <2>3. QED
    BY <1>0, <2>1, <2>2 DEF AtRest
<1>8. ASSUME NEW i \in Ids PROVE i > nextId' => ses'[i].sink = NoSink
  <2>1. CASE i \in others
    BY <1>0, <1>5, <2>1 DEF Typed, Ids
  <2>2. CASE i \notin others
    BY <1>0, <1>1, <1>4, <2>2
  <2>3. QED
    BY <2>1, <2>2
<1>9. ASSUME NEW u \in Tasks PROVE UnderWay(u)'
  <2>1. CASE task'[u].at \notin {"gated", "swapped"}
    BY <2>1 DEF UnderWay
  <2>2. CASE task'[u] = task[u] /\ task[u].at \in {"gated", "swapped"} /\ task[u].id \notin others
    BY <1>1, <1>4, <1>6, <2>2, AttachesOnIds, UnderWayKept
  <2>3. CASE task'[u] = task[u] /\ task[u].at \in {"gated", "swapped"} /\ task[u].id \in others
    <3>1. PICK id \in others, g \in Gates : id = task[u].id /\ g = task[u].gate
      BY <2>3, AttachesOnIds
    <3>2. /\ g \in 1 .. Len(gates) /\ gates[g].id = id
          /\ task[u].at = "gated" => sess[id].route \in cut \cup {NoGate, task[u].old}
          /\ task[u].at = "gated" /\ g \notin cut => sess[id].gate = g /\ ~gates[g].retired
          /\ task[u].at = "swapped" /\ g \notin cut => ses[id].sink = g
      BY <1>1, <2>3, <3>1 DEF UnderWay, Connected
    <3>3. task[u].at = "swapped" => g \in cut'
      BY <1>4, <3>1, <3>2
    <3>4. QED
      BY <1>0, <1>4, <2>3, <3>1, <3>2, <3>3 DEF UnderWay
  <2>4. QED
    BY <1>3, <2>1, <2>2, <2>3
<1>10. QED
  BY <1>1, <1>4, <1>6, <1>7, <1>8, <1>9, AtRestKept

\* AdoptRetains keeps Hears.
LEMMA AdoptRetainsHears ==
  ASSUME TableInv, Hears, NEW t \in Tasks, AdoptRetains(t)
  PROVE  Hears'
<1> USE DEF TableInv, TypeInv
<1> SUFFICES ASSUME closing' = "no"
             PROVE  /\ \A i \in Ids : AtRest(i)' /\ (i > nextId' => ses'[i].sink = NoSink)
                    /\ \A u \in Tasks : UnderWay(u)'
  BY DEF Hears
<1>0. UNCHANGED <<ses, nextId, closing>>
  BY DEF AdoptRetains
<1>1. /\ \A i \in Ids : AtRest(i) /\ (i > nextId => ses[i].sink = NoSink)
      /\ \A u \in Tasks : UnderWay(u)
  BY <1>0 DEF Hears
<1>2. PICK gone \in SUBSET Ids : gone = table \ task[t].live
  BY Minted
<1>3. /\ \A i \in Ids \ gone : sess'[i] = sess[i]
      /\ \A i \in gone : /\ sess'[i].serial = sess[i].serial /\ sess'[i].route = sess[i].route
                         /\ sess'[i].ended = sess[i].ended
      /\ gates' = Retired(gone) /\ Len(gates') = Len(gates)
      /\ cut' = cut \cup CurrentGates(gone)
      /\ \A u \in Tasks : task'[u] = task[u] \/ task'[u].at \notin {"gated", "swapped"}
  BY <1>2, AdoptRetainsFacts DEF SessionsDropped
<1>4. ASSUME NEW i \in Ids \ gone PROVE Undisturbed(i)
  <2>1. \A h \in 1 .. Len(gates) : gates[h].id \notin gone => Retired(gone)[h] = gates[h]
    BY RetiringOthers
  <2>2. \A h \in 1 .. Len(gates) : gates[h].id = i => h \in 1 .. Len(gates') /\ gates'[h] = gates[h]
    BY <1>3, <2>1
  <2>3. QED
    BY <1>0, <1>3, <2>2 DEF Undisturbed
<1>5. \A i \in gone : sess[i].gate # NoGate => sess[i].gate \in cut'
  BY <1>3 DEF CurrentGates
<1>6. ASSUME NEW i \in gone PROVE AtRest(i)'
  <2>1. PICK g : g = sess[i].route
    OBVIOUS
  <2>2. sess[i].serial = NoTask /\ g # NoGate => g \in cut'
    BY <1>1, <1>3, <1>5, <2>1 DEF AtRest, Connected
  <2>3. QED
    BY <1>3, <2>1, <2>2 DEF AtRest
<1>7. ASSUME NEW u \in Tasks PROVE UnderWay(u)'
  <2>1. CASE task'[u].at \notin {"gated", "swapped"}
    BY <2>1 DEF UnderWay
  <2>2. CASE task'[u] = task[u] /\ task[u].at \in {"gated", "swapped"} /\ task[u].id \notin gone
    BY <1>1, <1>3, <1>4, <2>2, AttachesOnIds, UnderWayKept
  <2>3. CASE task'[u] = task[u] /\ task[u].at \in {"gated", "swapped"} /\ task[u].id \in gone
    <3>1. PICK id \in gone, g \in Gates : id = task[u].id /\ g = task[u].gate
      BY <2>3, AttachesOnIds
    <3>2. /\ g \in 1 .. Len(gates) /\ gates[g].id = id
          /\ task[u].at = "gated" => sess[id].route \in cut \cup {NoGate, task[u].old}
          /\ g \notin cut => sess[id].gate = g
      BY <1>1, <2>3, <3>1 DEF UnderWay, Connected
    <3>3. g \in cut'
      BY <1>3, <1>5, <3>1, <3>2 DEF Gates, NoGate
    <3>4. g \in 1 .. Len(gates') /\ gates'[g].id = id
      BY <1>3, <3>2, RetiredFacts DEF Typed
    <3>5. QED
      BY <1>3, <2>3, <3>1, <3>2, <3>3, <3>4 DEF UnderWay
  <2>4. QED
    BY <1>3, <2>1, <2>2, <2>3
<1>8. QED
  BY <1>0, <1>1, <1>3, <1>4, <1>6, <1>7, AtRestKept

\* The steps of an adoption keep Hears.
LEMMA AdoptsHear ==
  ASSUME TableInv, Hears, NEW t \in Tasks, Adopts(t)
  PROVE  Hears'
<1> USE DEF TableInv, TypeInv
<1>1. CASE AdoptCloses(t)
  <2>1. UNCHANGED <<sess, gates, cut, nextId, closing>> /\ task[t] \in Tagged
    BY <1>1, TaskKinds DEF AdoptCloses, history, Typed
  <2>2. \A id \in Ids : ses'[id].sink = ses[id].sink /\ ses'[id].pumped = ses[id].pumped
    <3>1. PICK S : Release(S)
      BY <1>1 DEF AdoptCloses
    <3>2. QED
      BY <3>1, ReleaseFacts
  <2>3. PICK r : r = [task[t] EXCEPT !.old = @ \ {Min(@)}]
    OBVIOUS
  <2>4. r.at = "tagged" /\ task' = [task EXCEPT ![t] = r]
    BY <1>1, <2>1, <2>3 DEF AdoptCloses, Tagged
  <2>5. QED
    BY <2>1, <2>2, <2>4, OneTaskElse, OtherStepsHear
<1>2. CASE AdoptLists(t)
  <2>1. PICK r : r = [at |-> "listed", live |-> held, adopted |-> task[t].adopted]
    OBVIOUS
  <2>2. r.at = "listed" /\ task' = [task EXCEPT ![t] = r]
    BY <1>2, <2>1 DEF AdoptLists
  <2>3. QED
    BY <1>2, <2>2, OneTaskElse, OtherStepsHear DEF AdoptLists, history
<1>3. CASE AdoptParks(t)
  <2>1. UNCHANGED <<cut, nextId, closing>> /\ \A u \in Tasks : task'[u] = task[u] \/ task'[u].at \notin {"gated", "swapped"}
    BY <1>3, AdoptParksFacts DEF AdoptParks, history
  <2>2. CASE UNCHANGED <<ses, sess, gates>>
    BY <2>1, <2>2, OtherStepsHear
  <2>3. ASSUME NEW id \in Ids, SessionParked(id), sess[id].serial = NoTask, id <= nextId PROVE Hears'
    BY <2>1, <2>3, ParkedHear DEF SessionParked
  <2>4. QED
    BY <1>3, <2>2, <2>3, AdoptParksFacts
<1>4. QED
  BY <1>1, <1>2, <1>3, AdoptTagsHears, AdoptRetainsHears DEF Adopts

\* Every step keeps Hears.
LEMMA TableHears ==
  ASSUME TableInv, Hears, [TableNext]_allVars
  PROVE  Hears'
<1> USE DEF TableInv, TypeInv
<1>1. ASSUME NEW t \in Tasks, Closes(t) PROVE Hears'
  <2>1. CASE CloseForgets(t)
    <3>1. \A u \in Tasks : task'[u] = task[u] \/ task'[u].at \notin {"gated", "swapped"}
      BY <2>1, OneTaskElse DEF CloseForgets, Idle
    <3>2. QED
      BY <2>1, <3>1, OtherStepsHear DEF CloseForgets, history
  <2>2. ASSUME NEW id \in Ids, CloseKills(t, id) PROVE Hears'
    <3>1. \A u \in Tasks : task'[u] = task[u] \/ task'[u].at \notin {"gated", "swapped"}
      BY <2>2, OneTaskElse DEF CloseKills
    <3>2. \A i \in Ids : ses'[i].sink = ses[i].sink /\ ses'[i].pumped = ses[i].pumped
      BY <2>2, ReleaseFacts DEF CloseKills
    <3>3. QED
      BY <2>2, <3>1, <3>2, OtherStepsHear DEF CloseKills
  <2>3. QED
    BY <1>1, <2>1, <2>2 DEF Closes
<1>2. ASSUME Reaps PROVE Hears'
  <2>1. UNCHANGED <<sess, gates, cut, nextId, closing, task>>
    BY <1>2 DEF Reaps, ReapLists, ReapForgets, ReapMarks, ReapKills, history
  <2>2. \A i \in Ids : ses'[i].sink = ses[i].sink /\ ses'[i].pumped = ses[i].pumped
    <3>1. CASE UNCHANGED ses
      BY <3>1
    <3>2. ASSUME NEW id \in Ids, ReapKills(id) PROVE <2>2
      BY <3>2, ReleaseFacts DEF ReapKills
    <3>3. QED
      BY <1>2, <3>1, <3>2 DEF Reaps, ReapLists, ReapForgets, ReapMarks
  <2>3. QED
    BY <2>1, <2>2, OtherStepsHear
<1>3. ASSUME NEW id \in Ids, ProcessEnds(id) PROVE Hears'
  <2>1. \A i \in Ids : ses'[i].sink = ses[i].sink /\ ses'[i].pumped = ses[i].pumped
    BY <1>3 DEF ProcessEnds, Typed, SesState
  <2>2. QED
    BY <1>3, <2>1, OtherStepsHear DEF ProcessEnds
<1>4. ASSUME NEW id \in Ids, Park(id) PROVE Hears'
  <2>1. /\ SessionParked(id) /\ sess[id].serial = NoTask /\ id <= nextId
        /\ UNCHANGED <<cut, nextId, closing, task>>
    BY <1>4, ParkFacts, Minted DEF Park
  <2>2. QED
    BY <2>1, ParkedHear DEF SessionParked
<1>5. ASSUME CloseAllDrains \/ CloseAllLatches PROVE Hears'
  BY <1>5 DEF CloseAllDrains, CloseAllLatches, Hears
<1>6. CASE UNCHANGED allVars
  BY <1>6, OtherStepsHear DEF allVars, tableVars, history
<1>7. QED
  BY <1>1, <1>2, <1>3, <1>4, <1>5, <1>6, OpensHear, AttachesHear, AdoptsHear, PumpEndsHears DEF TableNext

\* Hears holds at first.
LEMMA HearsAtFirst == TableInit => Hears
  BY DEF TableInit, Hears, AtRest, UnderWay, NewState, Unborn, Idle

\* What a receiver needs to hear of the end it has, until the shutdown's drain.
THEOREM TableKeepsHears == TableSpec => []Hears
<1>1. TableInit => Hears
  BY HearsAtFirst
<1>2. TableInv /\ Hears /\ [TableNext]_allVars => Hears'
  BY TableHears
<1>3. QED
  BY <1>1, <1>2, TableKeepsInv, PTL DEF TableSpec

\* A session's receiver that was not let go of has heard of its end once its reader is done and
\* no request is at work on it, however attaches, parkings, adoptions and the end interleave.
THEOREM EndIsHeard == TableSpec => []ReceiverHearsTheEnd
<1>1. TableInv /\ Hears => ReceiverHearsTheEnd
  <2> SUFFICES ASSUME TableInv, Hears, NEW id \in Ids, ses[id].pumped, sess[id].route # NoGate,
                      sess[id].route \notin cut, ~Settling(id), closing = "no"
               PROVE  gates[sess[id].route].told
    BY DEF ReceiverHearsTheEnd
  <2>1. sess[id].serial = NoTask
    <3>1. sess[id].serial \in Tasks \cup {NoTask}
      BY DEF TableInv, TypeInv, Typed, SessState
    <3>2. QED
      BY <3>1 DEF TableInv, TypeInv, Locked, Settling
  <2>2. QED
    BY <2>1 DEF Hears, AtRest
<1>2. QED
  BY <1>1, TableKeepsInv, TableKeepsHears, PTL
=============================================================================
