---------------------------- MODULE SessionLife ----------------------------
(***************************************************************************)
(* What santree-host promises of its terminal sessions, whatever requests, *)
(* adoptions, reapers and shutdowns do to each other: ids are given out in *)
(* order and never again, at most MaxPtys sessions are held, each goes     *)
(* from running through over to closed and not back, one that runs is      *)
(* closed only because it was asked for or a newer one has its name, and   *)
(* nothing is held or opened once the host shut down.                      *)
(***************************************************************************)
EXTENDS Naturals, FiniteSets

CONSTANTS
  Ids,      \* session ids, 1 .. n
  Names,    \* (label, agent_kind) pairs
  NoName,   \* an empty label
  MaxPtys   \* Caps::max_ptys

VARIABLES
  life,   \* each id: "unborn", "starting", "running", "over" or "closed"
  named,  \* the name and provider each was opened under, or NoName
  asked,  \* ids somebody asked to close
  down    \* the host shut down

lifeVars == <<life, named, asked, down>>

Held == {id \in Ids : life[id] \in {"starting", "running", "over"}}

LifeInit ==
  /\ life = [id \in Ids |-> "unborn"]
  /\ named = [id \in Ids |-> NoName]
  /\ asked = {}
  /\ down = FALSE

Open(id, n) ==
  /\ ~down
  /\ life[id] = "unborn"
  /\ \A before \in Ids : before < id => life[before] # "unborn"
  /\ Cardinality(Held) < MaxPtys
  /\ life' = [life EXCEPT ![id] = "starting"]
  /\ named' = [named EXCEPT ![id] = n]
  /\ UNCHANGED <<asked, down>>

\* Its open is answered; its process may have ended by then.
Started(id) ==
  /\ life[id] = "starting"
  /\ \E now \in {"running", "over"} : life' = [life EXCEPT ![id] = now]
  /\ UNCHANGED <<named, asked, down>>

Ends(id) ==
  /\ life[id] = "running"
  /\ life' = [life EXCEPT ![id] = "over"]
  /\ UNCHANGED <<named, asked, down>>

CloseAsked(id) ==
  /\ life[id] # "unborn"
  /\ asked' = asked \cup {id}
  /\ life' = [life EXCEPT ![id] = "closed"]
  /\ UNCHANGED <<named, down>>

\* A newer session has, or had, the name.
Superseded(id) ==
  /\ named[id] # NoName
  /\ \E newer \in Ids : newer > id /\ life[newer] # "unborn" /\ named[newer] = named[id]

Close(id) ==
  /\ id \in Held
  /\ \/ life[id] = "over"
     \/ life[id] = "starting"   \* its open fails half-way
     \/ Superseded(id)
  /\ life' = [life EXCEPT ![id] = "closed"]
  /\ UNCHANGED <<named, asked, down>>

ShutDown ==
  /\ down' = TRUE
  /\ life' = [id \in Ids |-> IF id \in Held THEN "closed" ELSE life[id]]
  /\ UNCHANGED <<named, asked>>

LifeNext ==
  \/ \E id \in Ids : Ends(id) \/ CloseAsked(id) \/ Started(id) \/ Close(id)
  \/ \E id \in Ids, n \in Names : Open(id, n)
  \/ ShutDown

LifeSpec == LifeInit /\ [][LifeNext]_lifeVars
=============================================================================
