---------------------------- MODULE ServerProofs ----------------------------
(***************************************************************************)
(* Proofs about ServerEndpoint and ServerLife, for every number of servers,*)
(* sockets and connections and every limit of the accept loop.  The        *)
(* invariant has four parts: whose the lock files are (LocksHeld), which   *)
(* socket a server that was left alone is at (SocketKept), how far a       *)
(* process is when it has connections, opens and sessions (LifeOrder), and *)
(* what has become of the connections a look counted (KnownAreOver).       *)
(***************************************************************************)
EXTENDS ServerLife, TLAPS

EndpointState ==
  [at : {"off", "opens", "locks", "unlinks", "binds", "stats", "accepts", "idle", "looksAtSock", "gone"},
   up : BOOLEAN, fd : Nat, lockId : Nat, sockId : Nat, loop : Nat, made : Nat]

Socket == [by : Servers, live : BOOLEAN]

EndpointTypeOK ==
  /\ locker \in Seq(Servers \cup {Nobody})
  /\ socks \in Seq(Socket)
  /\ lockAt \in 0 .. Len(locker) /\ sockAt \in 0 .. Len(socks)
  /\ ep \in [Servers -> EndpointState]
  /\ removals \in [n : Nat, lock : BOOLEAN]
  /\ closing \subseteq Servers

\* A lock a server recorded is its own; one it opened exists; who has bound or looks at a
\* socket has a lock; and as long as no lock was removed there is one lock file, at its path.
LocksHeld ==
  /\ \A s \in Servers :
       /\ ep[s].lockId # NoFile => ep[s].lockId \in 1 .. Len(locker) /\ locker[ep[s].lockId] = s
       /\ ep[s].at = "locks" => ep[s].fd \in 1 .. Len(locker)
       /\ ep[s].at \in {"unlinks", "binds", "stats", "accepts", "idle", "looksAtSock"} \/ ep[s].up
            => ep[s].lockId # NoFile
  /\ ~removals.lock => lockAt = Len(locker) /\ lockAt <= 1
  /\ removals.lock => removals.n > 0

\* While nothing was removed, the socket at the path is the one the server with the lock
\* made, recorded and accepts on.
SocketKept ==
  removals.n = 0 =>
    \A s \in Servers :
      /\ ep[s].at = "stats" => sockAt = ep[s].made
      /\ ep[s].at = "accepts" => sockAt = ep[s].made /\ sockAt = ep[s].sockId
      /\ ep[s].up => /\ ep[s].at \in {"idle", "looksAtSock"}
                     /\ sockAt = ep[s].sockId
                     /\ s \notin closing => sockAt = ep[s].loop

EndpointInv == EndpointTypeOK /\ LocksHeld /\ SocketKept

MainState ==
  {"off", "starting", "admissions", "sessions", "waits", "retired", "stopped", "closing", "drains",
   "late", "gone"}
ConnState == {"none", "backlog", "queued", "checked", "trusted", "served", "cut", "gone"}
Inside == {"queued", "checked", "trusted", "served", "cut"}

LifeTypeOK ==
  /\ main \in [Servers -> MainState]
  /\ down \subseteq Servers
  /\ conn \in [Conns -> [at : ConnState, sock : Nat]]
  /\ opening \subseteq Conns /\ held \subseteq Conns /\ told \subseteq Conns
  /\ known \in [Servers -> SUBSET Conns]

NotRunning == {"off", "starting", "gone"}   \* `run` has not begun, or is over

\* A server has an accept loop only while it runs; whoever is inside, opens or holds a
\* session dialled one of its sockets; and nothing is held once it closed everything.
LifeOrder ==
  /\ \A s \in Servers :
       /\ main[s] = "off" => ep[s] = Off
       /\ ep[s].up <=> main[s] \notin NotRunning
       /\ ep[s].loop # NoFile => ep[s].up /\ ep[s].loop \in 1 .. Len(socks) /\ socks[ep[s].loop].by = s
       /\ main[s] = "gone" => ep[s].at = "gone"
       /\ ep[s].made # NoFile => ep[s].made \in 1 .. Len(socks) /\ socks[ep[s].made].by = s
       /\ main[s] \in {"drains", "late"} => s \in down
  /\ \A c \in Conns :
       /\ IF conn[c].at = "none" THEN conn[c].sock = NoFile ELSE conn[c].sock \in 1 .. Len(socks)
       /\ conn[c].at \in Inside => main[ServerOf(c)] \notin NotRunning
       /\ c \in opening => conn[c].at # "none" /\ main[ServerOf(c)] \notin NotRunning
       /\ c \in held => /\ conn[c].at # "none"
                        /\ main[ServerOf(c)] \notin NotRunning
                        /\ ServerOf(c) \notin down
  /\ \A s \in down : main[s] \in {"drains", "late", "gone"}

\* The connections a look counted are over by the time it goes on to the sessions; and a
\* server that retires holds no session one of them was told of.
KnownAreOver ==
  \A s \in Servers :
    /\ main[s] \in {"sessions", "retired"} =>
         \A c \in known[s] : conn[c].at = "gone" /\ ServerOf(c) = s
    /\ main[s] = "retired" => known[s] \cap told \cap held = {}

LifeInv == LifeTypeOK /\ LifeOrder /\ KnownAreOver
-----------------------------------------------------------------------------
\* What a step of the server's does to its endpoint, and the removals of others.

StartsUp(s) ==
  /\ ep[s] = Off
  /\ ep' = [ep EXCEPT ![s].at = "opens"]
  /\ UNCHANGED <<lockAt, locker, sockAt, socks, removals, closing>>

StopsAccepting(s) ==
  /\ s \in closing'
  /\ closing' \subseteq Servers /\ closing \subseteq closing'
  /\ socks' = Deafened({ep[s].loop})
  /\ ep' = [ep EXCEPT ![s].loop = NoFile]
  /\ UNCHANGED <<lockAt, locker, sockAt, removals>>

EndpointMove(s) ==
  \/ /\ UNCHANGED closing
     /\ \/ EndpointStep(s) \/ Looks(s) \/ Accepts(s) \/ ProcessEnds(s)
        \/ ep[s].at = "accepts" /\ GivesUp(s)
  \/ StartsUp(s) \/ StopsAccepting(s)

\* Two sequences of the module's, rebuilt: same length, same kind of elements.
LEMMA UnlockedFacts ==
  ASSUME NEW s \in Servers, locker \in Seq(Servers \cup {Nobody})
  PROVE  /\ Unlocked(s) \in Seq(Servers \cup {Nobody})
         /\ Len(Unlocked(s)) = Len(locker)
         /\ \A f \in 1 .. Len(locker) : Unlocked(s)[f] = IF locker[f] = s THEN Nobody ELSE locker[f]
  BY DEF Unlocked

\* Sockets that are closed are the same sockets, and no longer live.
LEMMA DeafenedFacts ==
  ASSUME NEW dead, socks \in Seq(Socket)
  PROVE  /\ Deafened(dead) \in Seq(Socket)
         /\ Len(Deafened(dead)) = Len(socks)
         /\ \A k \in 1 .. Len(socks) : Deafened(dead)[k].by = socks[k].by
<1>1. DOMAIN socks = 1 .. Len(socks) /\ \A k \in 1 .. Len(socks) : socks[k] \in Socket
  OBVIOUS
<1>2. \A sock \in Socket : /\ [sock EXCEPT !.live = FALSE] \in Socket
                           /\ [sock EXCEPT !.live = FALSE].by = sock.by
  BY DEF Socket
<1>3. QED
  BY <1>1, <1>2 DEF Deafened

\* One server's state changes.
LEMMA Becomes ==
  ASSUME NEW s \in Servers, NEW r \in EndpointState,
         ep \in [Servers -> EndpointState], ep' = [ep EXCEPT ![s] = r]
  PROVE  /\ ep' \in [Servers -> EndpointState]
         /\ ep'[s] = r
         /\ \A o \in Servers \ {s} : ep'[o] = ep[o]
  OBVIOUS

\* A process that ends.
LEMMA ProcessEndsInv ==
  ASSUME EndpointInv, NEW s \in Servers, ProcessEnds(s), UNCHANGED closing
  PROVE  EndpointInv'
<1> USE DEF EndpointInv, Nobody, NoFile
<1>1. EndpointTypeOK'
  BY UnlockedFacts, DeafenedFacts DEF EndpointTypeOK, ProcessEnds, EndpointState, Off
<1>0. /\ ep'[s].at = "gone" /\ ep'[s].up = FALSE /\ ep'[s].lockId = NoFile
      /\ \A o \in Servers \ {s} : ep'[o] = ep[o]
  BY DEF EndpointTypeOK, ProcessEnds, Off
<1>2. LocksHeld'
  <2>1. /\ Len(locker') = Len(locker)
        /\ \A f \in 1 .. Len(locker), o \in Servers \ {s} : locker[f] = o => locker'[f] = o
        /\ UNCHANGED <<lockAt, removals>>
    BY UnlockedFacts DEF EndpointTypeOK, ProcessEnds
  <2>2. QED
    BY <1>0, <2>1 DEF LocksHeld
<1>3. SocketKept'
  <2>2. UNCHANGED <<sockAt, removals>>
    BY DEF ProcessEnds
  <2>3. QED
    BY <1>0, <2>2 DEF SocketKept
<1>4. QED
  BY <1>1, <1>2, <1>3

\* A step that failed, at startup or in a look.
LEMMA GivesUpInv ==
  ASSUME EndpointInv, NEW s \in Servers, GivesUp(s), UNCHANGED closing,
         ep[s].at = "locks" => locker[ep[s].fd] # Nobody,
         ep[s].at \in {"locks", "binds", "stats", "accepts"},
         removals.n = 0 => ~ep[s].up
  PROVE  EndpointInv'
<1>1. CASE ~ep[s].up /\ ProcessEnds(s)
  BY <1>1, ProcessEndsInv
<1>2. CASE ep[s].up /\ ~(~ep[s].up /\ ProcessEnds(s))
  <2> USE DEF EndpointInv, Nobody, NoFile
  <2>0. /\ socks' = Deafened({ep[s].made} \ {NoFile})
        /\ ep' = [ep EXCEPT ![s].at = "idle", ![s].fd = NoFile, ![s].made = NoFile]
        /\ UNCHANGED <<lockAt, locker, sockAt, removals, closing>>
    BY <1>2 DEF GivesUp
  <2>1. EndpointTypeOK'
    <3>1. socks \in Seq(Socket) /\ ep \in [Servers -> EndpointState]
      BY DEF EndpointTypeOK
    <3>2. socks' \in Seq(Socket) /\ Len(socks') = Len(socks)
      BY <2>0, <3>1, DeafenedFacts
    <3>3. ep' \in [Servers -> EndpointState]
      <4> DEFINE r == [ep[s] EXCEPT !.at = "idle", !.fd = NoFile, !.made = NoFile]
      <4>1. r \in EndpointState
        BY <3>1 DEF EndpointState
      <4>2. ep' = [ep EXCEPT ![s] = r]
        BY <2>0, <3>1
      <4>3. QED
        BY <4>1, <4>2, <3>1
    <3>4. QED
      BY <2>0, <3>2, <3>3 DEF EndpointTypeOK
  <2>2. LocksHeld'
    BY <2>0, <1>2 DEF LocksHeld, EndpointTypeOK, EndpointState
  <2>3. SocketKept'
    <3>1. /\ ep'[s].at = "idle" /\ ep'[s].up = ep[s].up /\ ep'[s].sockId = ep[s].sockId
          /\ ep'[s].loop = ep[s].loop
          /\ \A o \in Servers \ {s} : ep'[o] = ep[o]
      BY <2>0 DEF EndpointTypeOK, EndpointState
    <3>2. QED
      BY <2>0, <1>2, <3>1 DEF SocketKept
  <2>4. QED
    BY <2>1, <2>2, <2>3
<1>3. QED
  BY <1>1, <1>2 DEF GivesUp
\* While no lock was removed, whoever recorded one has the only lock there is.
LEMMA OneLock ==
  ASSUME EndpointInv, removals.n = 0 \/ ~removals.lock,
         NEW s \in Servers, NEW other \in Servers \ {s}, ep[s].lockId # NoFile
  PROVE  ep[other].lockId = NoFile /\ ep[s].lockId = lockAt
  BY DEF EndpointInv, EndpointTypeOK, LocksHeld, NoFile, EndpointState, Servers

\* take_lock.
LEMMA TakesLockInv ==
  ASSUME EndpointInv, NEW s \in Servers, UNCHANGED closing,
         OpensLock(s) \/ Locks(s) \/ LockRefused(s)
  PROVE  EndpointInv'
<1> USE DEF EndpointInv, Nobody, NoFile
<1>1. CASE OpensLock(s)
  <2> DEFINE r == [ep[s] EXCEPT !.at = "locks", !.fd = lockAt']
  <2>t. locker \in Seq(Servers \cup {Nobody}) /\ ep \in [Servers -> EndpointState]
    BY DEF EndpointTypeOK
  <2>a. /\ locker' \in Seq(Servers \cup {Nobody}) /\ lockAt' \in 1 .. Len(locker')
        /\ \A f \in 1 .. Len(locker) : f \in 1 .. Len(locker') /\ locker'[f] = locker[f]
    <3>1. CASE lockAt # NoFile /\ UNCHANGED <<lockAt, locker>>
      BY <3>1 DEF EndpointTypeOK
    <3>2. CASE lockAt' = Len(locker) + 1 /\ locker' = Append(locker, Nobody)
      BY <3>2, <2>t
    <3>3. QED
      BY <1>1, <3>1, <3>2 DEF OpensLock
  <2>b. lockAt' \in Nat
    BY <2>a
  <2>r. r \in EndpointState
    BY <2>t, <2>b DEF EndpointState
  <2>e. ep' = [ep EXCEPT ![s] = r]
    BY <1>1, <2>t DEF OpensLock
  <2>0. /\ ep' \in [Servers -> EndpointState] /\ \A o \in Servers \ {s} : ep'[o] = ep[o]
        /\ ep'[s].at = "locks" /\ ep'[s].fd = lockAt'
        /\ ep'[s].lockId = ep[s].lockId /\ ep'[s].up = ep[s].up
    BY <2>t, <2>r, <2>e, Becomes DEF EndpointState
  <2>1. EndpointTypeOK'
    BY <1>1, <2>0, <2>a DEF EndpointTypeOK, OpensLock
  <2>2. LocksHeld'
    BY <1>1, <2>0, <2>a DEF LocksHeld, EndpointTypeOK, OpensLock
  <2>3. SocketKept'
    BY <1>1 DEF SocketKept, LocksHeld, EndpointTypeOK, OpensLock, EndpointState
  <2>4. QED
    BY <2>1, <2>2, <2>3
<1>2. CASE Locks(s)
  <2> DEFINE r == [ep[s] EXCEPT !.at = IF ep[s].up THEN "looksAtSock" ELSE "unlinks", !.lockId = ep[s].fd, !.fd = NoFile]
  <2>t. ep \in [Servers -> EndpointState] /\ ep[s] \in EndpointState
    BY DEF EndpointTypeOK
  <2>r. r \in EndpointState /\ ep' = [ep EXCEPT ![s] = r]
    BY <1>2, <2>t DEF Locks, EndpointState
  <2>0. /\ ep' \in [Servers -> EndpointState] /\ \A o \in Servers \ {s} : ep'[o] = ep[o]
        /\ ep'[s].at = IF ep[s].up THEN "looksAtSock" ELSE "unlinks"
        /\ ep'[s].lockId = ep[s].fd
        /\ ep'[s].fd = NoFile
        /\ ep'[s].up = ep[s].up
        /\ ep'[s].sockId = ep[s].sockId
        /\ ep'[s].loop = ep[s].loop
        /\ ep'[s].made = ep[s].made
    BY <2>t, <2>r, Becomes DEF EndpointState
  <2>a. /\ ep[s].fd \in 1 .. Len(locker) /\ Len(locker') = Len(locker)
        /\ locker' \in Seq(Servers \cup {Nobody})
        /\ locker'[ep[s].fd] = s
        /\ \A f \in 1 .. Len(locker), o \in Servers \ {s} : locker[f] = o => locker'[f] = o
    <3>1. /\ ep[s].fd \in 1 .. Len(locker)
          /\ locker' = [Unlocked(s) EXCEPT ![ep[s].fd] = s]
          /\ locker \in Seq(Servers \cup {Nobody})
      BY <1>2 DEF Locks, LocksHeld, EndpointTypeOK
    <3>2. /\ Unlocked(s) \in Seq(Servers \cup {Nobody}) /\ Len(Unlocked(s)) = Len(locker)
          /\ \A f \in 1 .. Len(locker) :
               Unlocked(s)[f] = IF locker[f] = s THEN Nobody ELSE locker[f]
      BY <3>1, UnlockedFacts
    <3>3. PICK T : T = Servers \cup {Nobody}
      OBVIOUS
    <3>4. s \in T /\ Unlocked(s) \in Seq(T)
      BY <3>2, <3>3
    <3>5. locker' \in Seq(T) /\ Len(locker') = Len(locker) /\ locker'[ep[s].fd] = s
      BY <3>1, <3>2, <3>4
    <3>6. \A f \in 1 .. Len(locker) : f # ep[s].fd => locker'[f] = Unlocked(s)[f]
      BY <3>1, <3>2, <3>4
    <3>7. \A f \in 1 .. Len(locker), o \in Servers \ {s} : locker[f] = o => locker'[f] = o
      BY <1>2, <3>2, <3>6 DEF Locks, Servers
    <3>8. QED
      BY <3>1, <3>3, <3>5, <3>7
  <2>1. EndpointTypeOK'
    <3>1. UNCHANGED <<lockAt, sockAt, socks, removals, closing>>
      BY <1>2 DEF Locks
    <3>2. QED
      BY <2>0, <2>a, <3>1 DEF EndpointTypeOK
  <2>2. LocksHeld'
    <3>1. UNCHANGED <<lockAt, removals>>
      BY <1>2 DEF Locks
    <3>2. \A o \in Servers \ {s} : ep[o].lockId # NoFile =>
            ep[o].lockId \in 1 .. Len(locker') /\ locker'[ep[o].lockId] = o
      BY <2>a DEF LocksHeld
    <3>3. QED
      BY <2>0, <2>a, <3>1, <3>2 DEF LocksHeld
  <2>3. SocketKept'
    BY <1>2, <2>0 DEF SocketKept, LocksHeld, EndpointTypeOK, Locks
  <2>4. QED
    BY <2>1, <2>2, <2>3
<1>3. CASE LockRefused(s)
  BY <1>3, GivesUpInv DEF LockRefused, SocketKept
<1>4. QED
  BY <1>1, <1>2, <1>3

\* Endpoint::bind and rebind.
LEMMA BindsSocketInv ==
  ASSUME EndpointInv, NEW s \in Servers, UNCHANGED closing,
         Unlinks(s) \/ Binds(s) \/ Stats(s) \/ Accepts(s)
  PROVE  EndpointInv'
<1> USE DEF EndpointInv, Nobody, NoFile
<1>1. CASE Unlinks(s)
  <2> DEFINE r == [ep[s] EXCEPT !.at = "binds"]
  <2>t. ep \in [Servers -> EndpointState] /\ ep[s] \in EndpointState
    BY DEF EndpointTypeOK
  <2>r. r \in EndpointState /\ ep' = [ep EXCEPT ![s] = r]
    BY <1>1, <2>t DEF Unlinks, EndpointState
  <2>0. /\ ep' \in [Servers -> EndpointState] /\ \A o \in Servers \ {s} : ep'[o] = ep[o]
        /\ ep'[s].at = "binds"
        /\ ep'[s].up = ep[s].up /\ ep'[s].fd = ep[s].fd /\ ep'[s].lockId = ep[s].lockId
        /\ ep'[s].sockId = ep[s].sockId /\ ep'[s].loop = ep[s].loop /\ ep'[s].made = ep[s].made
    BY <2>t, <2>r, Becomes DEF EndpointState
  <2>1. EndpointTypeOK' /\ LocksHeld'
    BY <1>1, <2>0 DEF EndpointTypeOK, LocksHeld, Unlinks
  <2>2. SocketKept'
    BY <1>1, <2>0, OneLock DEF SocketKept, LocksHeld, Unlinks
  <2>3. QED
    BY <2>1, <2>2
<1>2. CASE Binds(s)
  <2>1. CASE sockAt # NoFile /\ GivesUp(s)
    BY <1>2, <2>1, GivesUpInv DEF Binds, SocketKept
  <2>2. CASE ~(sockAt # NoFile /\ GivesUp(s))
    <3>a. /\ ep[s].at = "binds" /\ sockAt = NoFile /\ sockAt' = Len(socks) + 1
          /\ socks' = Append(socks, [by |-> s, live |-> TRUE])
          /\ ep' = [ep EXCEPT ![s].at = "stats", ![s].made = sockAt']
          /\ UNCHANGED <<lockAt, locker, removals>>
      BY <1>2, <2>2 DEF Binds
    <3>b. /\ socks' \in Seq(Socket) /\ Len(socks') = Len(socks) + 1
          /\ sockAt' \in Nat /\ sockAt' \in 0 .. Len(socks')
      <4>1. socks \in Seq(Socket) /\ [by |-> s, live |-> TRUE] \in Socket
        BY DEF EndpointTypeOK, Socket
      <4>2. QED
        BY <3>a, <4>1
    <3> DEFINE r == [ep[s] EXCEPT !.at = "stats", !.made = sockAt']
    <3>t. ep \in [Servers -> EndpointState] /\ ep[s] \in EndpointState
      BY DEF EndpointTypeOK
    <3>r. r \in EndpointState /\ ep' = [ep EXCEPT ![s] = r]
      BY <3>a, <3>b, <3>t DEF Socket, EndpointState
    <3>0. /\ ep' \in [Servers -> EndpointState] /\ \A o \in Servers \ {s} : ep'[o] = ep[o]
          /\ ep'[s].at = "stats" /\ ep'[s].made = sockAt'
          /\ ep'[s].up = ep[s].up /\ ep'[s].fd = ep[s].fd /\ ep'[s].lockId = ep[s].lockId
          /\ ep'[s].sockId = ep[s].sockId /\ ep'[s].loop = ep[s].loop
      BY <3>t, <3>r, Becomes DEF EndpointState
    <3>1. EndpointTypeOK' /\ LocksHeld'
      BY <3>a, <3>b, <3>0 DEF EndpointTypeOK, LocksHeld
    <3>2. SocketKept'
      BY <3>a, <3>0, OneLock DEF SocketKept, LocksHeld
    <3>3. QED
      BY <3>1, <3>2
  <2>3. QED
    BY <2>1, <2>2
<1>3. CASE Stats(s)
  <2>1. CASE sockAt = NoFile /\ GivesUp(s)
    BY <1>3, <2>1, GivesUpInv DEF Stats, SocketKept
  <2>2. CASE ~(sockAt = NoFile /\ GivesUp(s))
    <3>a. sockAt \in Nat
      BY DEF EndpointTypeOK
    <3> DEFINE r == [ep[s] EXCEPT !.at = "accepts", !.sockId = sockAt]
    <3>t. ep \in [Servers -> EndpointState] /\ ep[s] \in EndpointState
      BY DEF EndpointTypeOK
    <3>r. r \in EndpointState /\ ep' = [ep EXCEPT ![s] = r]
      BY <1>3, <2>2, <3>a, <3>t DEF Stats, EndpointState
    <3>0. /\ ep' \in [Servers -> EndpointState] /\ \A o \in Servers \ {s} : ep'[o] = ep[o]
          /\ ep'[s].at = "accepts" /\ ep'[s].sockId = sockAt
          /\ ep'[s].up = ep[s].up /\ ep'[s].fd = ep[s].fd /\ ep'[s].lockId = ep[s].lockId
          /\ ep'[s].loop = ep[s].loop /\ ep'[s].made = ep[s].made
      BY <3>t, <3>r, Becomes DEF EndpointState
    <3>u. /\ ep[s].at = "stats" /\ UNCHANGED <<lockAt, locker, sockAt, socks, removals, closing>>
      BY <1>3, <2>2 DEF Stats
    <3> HIDE DEF r
    <3>1. EndpointTypeOK'
      BY <3>0, <3>u DEF EndpointTypeOK
    <3>2. LocksHeld'
      BY <3>0, <3>u DEF LocksHeld
    <3>3. SocketKept'
      BY <3>0, <3>u DEF SocketKept
    <3>4. QED
      BY <3>1, <3>2, <3>3
  <2>3. QED
    BY <2>1, <2>2
<1>4. CASE Accepts(s)
  <2> DEFINE r == [ep[s] EXCEPT !.at = "idle", !.up = TRUE, !.loop = ep[s].made, !.made = NoFile]
  <2>t. ep \in [Servers -> EndpointState] /\ ep[s] \in EndpointState
    BY DEF EndpointTypeOK
  <2>r. r \in EndpointState /\ ep' = [ep EXCEPT ![s] = r]
    BY <1>4, <2>t DEF Accepts, EndpointState
  <2>0. /\ ep' \in [Servers -> EndpointState] /\ \A o \in Servers \ {s} : ep'[o] = ep[o]
        /\ ep'[s].at = "idle" /\ ep'[s].up = TRUE /\ ep'[s].loop = ep[s].made /\ ep'[s].made = NoFile
        /\ ep'[s].fd = ep[s].fd /\ ep'[s].lockId = ep[s].lockId /\ ep'[s].sockId = ep[s].sockId
    BY <2>t, <2>r, Becomes DEF EndpointState
  <2>1. EndpointTypeOK'
    BY <1>4, <2>0, DeafenedFacts DEF EndpointTypeOK, Accepts
  <2>2. LocksHeld'
    <3>1. ep[s].at = "accepts" /\ UNCHANGED <<locker, lockAt, removals>>
      BY <1>4 DEF Accepts
    <3> HIDE DEF r
    <3>2. QED
      BY <2>0, <3>1 DEF LocksHeld
  <2>3. SocketKept'
    <3>1. ep[s].at = "accepts" /\ UNCHANGED <<sockAt, removals, closing>>
      BY <1>4 DEF Accepts
    <3> HIDE DEF r
    <3>2. QED
      BY <2>0, <3>1 DEF SocketKept
  <2>4. QED
    BY <2>1, <2>2, <2>3
<1>5. QED
  BY <1>1, <1>2, <1>3, <1>4

\* Every step of a server's at its endpoint keeps the invariant.
LEMMA EndpointMoveInv ==
  ASSUME EndpointInv, NEW s \in Servers, EndpointMove(s)
  PROVE  EndpointInv'
<1> USE DEF EndpointInv, Nobody, NoFile
<1>1. CASE LooksAtSock(s) /\ UNCHANGED closing
  <2> DEFINE r == [ep[s] EXCEPT !.at = IF sockAt = ep[s].sockId THEN "idle" ELSE "unlinks"]
  <2>t. ep \in [Servers -> EndpointState] /\ ep[s] \in EndpointState
    BY DEF EndpointTypeOK
  <2>r. r \in EndpointState /\ ep' = [ep EXCEPT ![s] = r]
    BY <1>1, <2>t DEF LooksAtSock, EndpointState
  <2>0. /\ ep' \in [Servers -> EndpointState] /\ \A o \in Servers \ {s} : ep'[o] = ep[o]
        /\ ep'[s].at = IF sockAt = ep[s].sockId THEN "idle" ELSE "unlinks"
        /\ ep'[s].up = ep[s].up /\ ep'[s].fd = ep[s].fd /\ ep'[s].lockId = ep[s].lockId
        /\ ep'[s].sockId = ep[s].sockId /\ ep'[s].loop = ep[s].loop /\ ep'[s].made = ep[s].made
    BY <2>t, <2>r, Becomes DEF EndpointState
  <2>1. EndpointTypeOK' /\ LocksHeld'
    BY <1>1, <2>0 DEF EndpointTypeOK, LocksHeld, LooksAtSock
  <2>2. SocketKept'
    BY <1>1, <2>0 DEF SocketKept, LooksAtSock
  <2>3. QED
    BY <2>1, <2>2
<1>2. CASE Looks(s) /\ UNCHANGED closing
  <2> DEFINE r == [ep[s] EXCEPT !.at = IF lockAt = ep[s].lockId THEN "looksAtSock" ELSE "opens"]
  <2>t. ep \in [Servers -> EndpointState] /\ ep[s] \in EndpointState
    BY DEF EndpointTypeOK
  <2>r. r \in EndpointState /\ ep' = [ep EXCEPT ![s] = r]
    BY <1>2, <2>t DEF Looks, EndpointState
  <2>0. /\ ep' \in [Servers -> EndpointState] /\ \A o \in Servers \ {s} : ep'[o] = ep[o]
        /\ ep'[s].at = IF lockAt = ep[s].lockId THEN "looksAtSock" ELSE "opens"
        /\ ep'[s].up = ep[s].up /\ ep'[s].fd = ep[s].fd /\ ep'[s].lockId = ep[s].lockId
        /\ ep'[s].sockId = ep[s].sockId /\ ep'[s].loop = ep[s].loop /\ ep'[s].made = ep[s].made
    BY <2>t, <2>r, Becomes DEF EndpointState
  <2>1. EndpointTypeOK' /\ LocksHeld'
    BY <1>2, <2>0 DEF EndpointTypeOK, LocksHeld, Looks
  <2>2. SocketKept'
    BY <1>2, <2>0, OneLock DEF LocksHeld, SocketKept, Looks
  <2>3. QED
    BY <2>1, <2>2
<1>3. CASE StartsUp(s)
  <2> DEFINE r == [ep[s] EXCEPT !.at = "opens"]
  <2>t. ep \in [Servers -> EndpointState] /\ ep[s] \in EndpointState
    BY DEF EndpointTypeOK
  <2>r. r \in EndpointState /\ ep' = [ep EXCEPT ![s] = r]
    BY <1>3, <2>t DEF StartsUp, EndpointState
  <2>0. /\ ep' \in [Servers -> EndpointState] /\ \A o \in Servers \ {s} : ep'[o] = ep[o]
        /\ ep'[s].at = "opens"
        /\ ep'[s].up = ep[s].up /\ ep'[s].fd = ep[s].fd /\ ep'[s].lockId = ep[s].lockId
        /\ ep'[s].sockId = ep[s].sockId /\ ep'[s].loop = ep[s].loop /\ ep'[s].made = ep[s].made
    BY <2>t, <2>r, Becomes DEF EndpointState
  <2>1. EndpointTypeOK' /\ LocksHeld' /\ SocketKept'
    BY <1>3, <2>0 DEF EndpointTypeOK, LocksHeld, SocketKept, StartsUp, Off
  <2>2. QED
    BY <2>1
<1>4. CASE StopsAccepting(s)
  <2> DEFINE r == [ep[s] EXCEPT !.loop = NoFile]
  <2>t. ep \in [Servers -> EndpointState] /\ ep[s] \in EndpointState
    BY DEF EndpointTypeOK
  <2>r. r \in EndpointState /\ ep' = [ep EXCEPT ![s] = r]
    BY <1>4, <2>t DEF StopsAccepting, EndpointState
  <2>0. /\ ep' \in [Servers -> EndpointState] /\ \A o \in Servers \ {s} : ep'[o] = ep[o]
        /\ ep'[s].at = ep[s].at /\ ep'[s].up = ep[s].up /\ ep'[s].fd = ep[s].fd
        /\ ep'[s].lockId = ep[s].lockId /\ ep'[s].sockId = ep[s].sockId /\ ep'[s].made = ep[s].made
    BY <2>t, <2>r, Becomes DEF EndpointState
  <2>s. /\ socks' \in Seq(Socket) /\ Len(socks') = Len(socks)
        /\ s \in closing' /\ closing' \subseteq Servers /\ closing \subseteq closing'
        /\ UNCHANGED <<lockAt, locker, sockAt, removals>>
    BY <1>4, DeafenedFacts DEF EndpointTypeOK, StopsAccepting
  <2>1. EndpointTypeOK'
    BY <2>0, <2>s DEF EndpointTypeOK
  <2>2. LocksHeld'
    <3> HIDE DEF r
    <3>1. QED
      BY <2>0, <2>s DEF LocksHeld
  <2>3. SocketKept'
    <3> HIDE DEF r
    <3>1. QED
      BY <2>0, <2>s DEF SocketKept
  <2>4. QED
    BY <2>1, <2>2, <2>3
<1>5. CASE ep[s].at = "accepts" /\ GivesUp(s) /\ UNCHANGED closing
  BY <1>5, GivesUpInv DEF SocketKept
<1>6. QED
  BY <1>1, <1>2, <1>3, <1>4, <1>5, TakesLockInv, BindsSocketInv, ProcessEndsInv
     DEF EndpointMove, EndpointStep

\* A file removed by somebody else.
LEMMA RemovesInv ==
  ASSUME EndpointInv, Removes, UNCHANGED closing
  PROVE  EndpointInv'
<1>1. removals' \in [n : Nat, lock : BOOLEAN] /\ removals'.n > 0 /\ (removals.lock => removals'.lock)
  <2>1. removals \in [n : Nat, lock : BOOLEAN]
    BY DEF EndpointInv, EndpointTypeOK
  <2>2. CASE removals' = [n |-> removals.n + 1, lock |-> TRUE]
    BY <2>1, <2>2
  <2>3. CASE removals' = [removals EXCEPT !.n = @ + 1]
    BY <2>1, <2>3
  <2>4. QED
    BY <2>2, <2>3 DEF Removes
<1>2. EndpointTypeOK'
  BY <1>1 DEF EndpointInv, EndpointTypeOK, Removes, NoFile
<1>3. LocksHeld'
  BY <1>1 DEF EndpointInv, EndpointTypeOK, LocksHeld, Removes, NoFile
<1>4. SocketKept'
  BY <1>1 DEF SocketKept
<1>5. QED
  BY <1>2, <1>3, <1>4 DEF EndpointInv

\* The endpoint's invariant holds at first.
LEMMA EndpointInitInv == ServerInit => EndpointInv
  BY DEF ServerInit, EndpointInit, EndpointInv, EndpointTypeOK, LocksHeld, SocketKept, EndpointState,
     Off, NoFile, Nobody

\* What the invariant says of the servers from outside.
LEMMA EndpointInvMeans == EndpointInv => OneServerPerEndpoint
  BY OneLock DEF EndpointInv, EndpointTypeOK, LocksHeld, SocketKept, OneServerPerEndpoint, NoFile
-----------------------------------------------------------------------------
\* Processes and connections.

ServerInv == EndpointInv /\ LifeInv

SocketsOf(s) == {k \in 1 .. Len(socks) : socks[k].by = s}

\* Sockets are made, and never change hands.
SocksGrow ==
  /\ Len(socks) <= Len(socks')
  /\ \A k \in 1 .. Len(socks) : socks'[k].by = socks[k].by

\* A connection's server is the same after a step that only adds sockets.
LEMMA SameServer ==
  ASSUME EndpointTypeOK, EndpointTypeOK', LifeOrder, SocksGrow, NEW c \in Conns,
         conn'[c].sock = conn[c].sock, conn[c].at # "none"
  PROVE  ServerOf(c)' = ServerOf(c) /\ conn'[c].sock \in 1 .. Len(socks') /\ ServerOf(c) \in Servers
<1>1. conn[c].sock \in 1 .. Len(socks) /\ Len(socks) \in Nat /\ Len(socks') \in Nat
  BY DEF LifeOrder, EndpointTypeOK, SocksGrow
<1>2. socks[conn[c].sock] \in Socket
  BY <1>1 DEF EndpointTypeOK
<1>3. QED
  BY <1>1, <1>2 DEF SocksGrow, ServerOf, NoFile, Socket

\* Connections in the backlog of a socket that closes are gone.
LEMMA ResetFacts ==
  ASSUME LifeTypeOK, NEW dead, Reset(dead)
  PROVE  /\ conn' \in [Conns -> [at : ConnState, sock : Nat]]
         /\ \A c \in Conns : /\ conn'[c].sock = conn[c].sock
                             /\ \/ conn'[c].at = conn[c].at
                                \/ conn[c].at = "backlog" /\ conn'[c].at = "gone"
  BY DEF LifeTypeOK, Reset, ConnState

\* What the steps of the endpoint's own do to a server, seen from `run`.
LEMMA EndpointEffect ==
  ASSUME EndpointInv, NEW s \in Servers, EndpointStep(s)
  PROVE  /\ \A o \in Servers \ {s} : ep'[o] = ep[o]
         /\ SocksGrow
         /\ ep[s].at \notin {"off", "gone"}
         /\ \/ /\ ep'[s].at = "gone" /\ ~ep'[s].up /\ ep'[s].loop = NoFile
               /\ ep'[s].made = NoFile /\ ~ep[s].up
            \/ ep'[s].at # "gone" /\ ep'[s].up = ep[s].up /\ ep'[s].loop = ep[s].loop
         /\ ep'[s].made \in {NoFile, ep[s].made} \cup SocketsOf(s)'
<1> DEFINE Effect ==
      /\ \A o \in Servers \ {s} : ep'[o] = ep[o]
      /\ SocksGrow
      /\ \/ /\ ep'[s].at = "gone" /\ ~ep'[s].up /\ ep'[s].loop = NoFile
            /\ ep'[s].made = NoFile /\ ~ep[s].up
         \/ ep'[s].at # "gone" /\ ep'[s].up = ep[s].up /\ ep'[s].loop = ep[s].loop
      /\ ep'[s].made \in {NoFile, ep[s].made} \cup SocketsOf(s)'
<1>t. ep \in [Servers -> EndpointState] /\ ep[s] \in EndpointState /\ socks \in Seq(Socket)
  BY DEF EndpointInv, EndpointTypeOK
<1>1. ASSUME GivesUp(s) PROVE Effect
  <2>1. CASE ~ep[s].up /\ ProcessEnds(s)
    BY <2>1, <1>t, DeafenedFacts DEF ProcessEnds, SocksGrow, Off, EndpointState
  <2>2. CASE /\ ep[s].up
             /\ socks' = Deafened({ep[s].made} \ {NoFile})
             /\ ep' = [ep EXCEPT ![s].at = "idle", ![s].fd = NoFile, ![s].made = NoFile]
    <3>1. SocksGrow
      BY <2>2, <1>t, DeafenedFacts DEF SocksGrow
    <3>2. /\ \A o \in Servers \ {s} : ep'[o] = ep[o]
          /\ ep'[s].at = "idle" /\ ep'[s].up = ep[s].up /\ ep'[s].loop = ep[s].loop
          /\ ep'[s].made = NoFile
      BY <2>2, <1>t DEF EndpointState
    <3>3. QED
      BY <3>1, <3>2
  <2>3. QED
    BY <1>1, <2>1, <2>2 DEF GivesUp
<1>2. ASSUME NEW sock, socks' = Append(socks, sock) PROVE SocksGrow
  BY <1>2, <1>t DEF SocksGrow
<1>3. ASSUME UNCHANGED socks PROVE SocksGrow
  BY <1>3, <1>t DEF SocksGrow
<1>4. CASE OpensLock(s)
  BY <1>4, <1>3, <1>t DEF OpensLock, EndpointState
<1>5. CASE Locks(s)
  BY <1>5, <1>3, <1>t DEF Locks, EndpointState
<1>6. CASE LockRefused(s)
  BY <1>6, <1>1 DEF LockRefused
<1>7. CASE Unlinks(s)
  BY <1>7, <1>3, <1>t DEF Unlinks, EndpointState
<1>8. CASE Binds(s)
  BY <1>8, <1>1, <1>2, <1>t DEF Binds, EndpointState
<1>9. CASE Stats(s)
  BY <1>9, <1>1, <1>3, <1>t DEF Stats, EndpointState
<1>10. CASE LooksAtSock(s)
  BY <1>10, <1>3, <1>t DEF LooksAtSock, EndpointState
<1>11. QED
  BY <1>4, <1>5, <1>6, <1>7, <1>8, <1>9, <1>10
     DEF EndpointStep, OpensLock, Locks, LockRefused, Unlinks, Binds, Stats, LooksAtSock
\* `run` and `shut_down`, but for the ends of the process and of its accept loop.
LEMMA RunInv ==
  ASSUME LifeInv, NEW s \in Servers,
         \/ CountsAdmissions(s) \/ CountsSessions(s) \/ WindowPasses(s) \/ Wakes(s)
         \/ Stopped(s) \/ DrainEnds(s) \/ ClosesAll(s)
  PROVE  LifeInv'
<1> USE DEF LifeInv, MainState, NotRunning
<1>0. \A c \in Conns : ServerOf(c)' = ServerOf(c)
  BY DEF CountsAdmissions, CountsSessions, WindowPasses, Wakes, Stopped, DrainEnds, ClosesAll,
         endpointVars, ServerOf
<1>1. CASE CountsAdmissions(s)
  <2>1. LifeTypeOK'
    BY <1>1 DEF LifeTypeOK, CountsAdmissions, Busy, Quiet, At, Admitted, Conns, endpointVars, ConnState, tables
  <2>2. LifeOrder'
    <3>1. /\ main[s] \in {"admissions", "sessions"}
          /\ \E x \in {"waits", "sessions", "retired"} : main' = [main EXCEPT ![s] = x]
          /\ UNCHANGED <<ep, socks, down, conn, opening, held>>
      BY <1>1 DEF CountsAdmissions, Busy, Quiet, endpointVars, tables
    <3>2. QED
      BY <3>1, <1>0 DEF LifeOrder, LifeTypeOK
  <2>3. KnownAreOver'
    BY <1>1, <1>0 DEF KnownAreOver, LifeTypeOK, CountsAdmissions, Busy, Quiet, At, Admitted, Conns, endpointVars, ConnState, tables
  <2>4. QED
    BY <2>1, <2>2, <2>3 DEF LifeInv
<1>2. CASE CountsSessions(s)
  <2>1. LifeTypeOK'
    BY <1>2 DEF LifeTypeOK, CountsSessions, Busy, Quiet, Sessions, endpointVars, tables
  <2>2. LifeOrder'
    <3>1. /\ main[s] \in {"admissions", "sessions"}
          /\ \E x \in {"waits", "sessions", "retired"} : main' = [main EXCEPT ![s] = x]
          /\ UNCHANGED <<ep, socks, down, conn, opening, held>>
      BY <1>2 DEF CountsSessions, Busy, Quiet, endpointVars, tables
    <3>2. QED
      BY <3>1, <1>0 DEF LifeOrder, LifeTypeOK
  <2>3. KnownAreOver'
    BY <1>2, <1>0 DEF KnownAreOver, LifeTypeOK, CountsSessions, Busy, Quiet, Sessions, endpointVars, tables
  <2>4. QED
    BY <2>1, <2>2, <2>3 DEF LifeInv
<1>3. CASE WindowPasses(s)
  <2>1. LifeTypeOK'
    BY <1>3 DEF LifeTypeOK, WindowPasses, endpointVars, tables
  <2>2. LifeOrder'
    BY <1>3, <1>0 DEF LifeOrder, LifeTypeOK, WindowPasses, endpointVars, tables
  <2>3. KnownAreOver'
    BY <1>3, <1>0 DEF KnownAreOver, LifeTypeOK, WindowPasses, endpointVars, tables
  <2>4. QED
    BY <2>1, <2>2, <2>3 DEF LifeInv
<1>4. CASE Wakes(s)
  <2>1. LifeTypeOK'
    BY <1>4 DEF LifeTypeOK, Wakes, endpointVars, tables
  <2>2. LifeOrder'
    BY <1>4, <1>0 DEF LifeOrder, LifeTypeOK, Wakes, endpointVars, tables
  <2>3. KnownAreOver'
    BY <1>4, <1>0 DEF KnownAreOver, LifeTypeOK, Wakes, endpointVars, tables
  <2>4. QED
    BY <2>1, <2>2, <2>3 DEF LifeInv
<1>5. CASE Stopped(s)
  <2>1. LifeTypeOK'
    BY <1>5 DEF LifeTypeOK, Stopped, endpointVars, tables
  <2>2. LifeOrder'
    BY <1>5, <1>0 DEF LifeOrder, LifeTypeOK, Stopped, endpointVars, tables
  <2>3. KnownAreOver'
    BY <1>5, <1>0 DEF KnownAreOver, LifeTypeOK, Stopped, endpointVars, tables
  <2>4. QED
    BY <2>1, <2>2, <2>3 DEF LifeInv
<1>6. CASE DrainEnds(s)
  <2>1. LifeTypeOK'
    BY <1>6 DEF LifeTypeOK, DrainEnds, endpointVars, tables
  <2>2. LifeOrder'
    BY <1>6, <1>0 DEF LifeOrder, LifeTypeOK, DrainEnds, endpointVars, tables
  <2>3. KnownAreOver'
    BY <1>6, <1>0 DEF KnownAreOver, LifeTypeOK, DrainEnds, endpointVars, tables
  <2>4. QED
    BY <2>1, <2>2, <2>3 DEF LifeInv
<1>7. CASE ClosesAll(s)
  <2>1. LifeTypeOK'
    BY <1>7 DEF LifeTypeOK, ClosesAll, endpointVars, Sessions
  <2>2. LifeOrder'
    BY <1>7, <1>0 DEF LifeOrder, LifeTypeOK, ClosesAll, endpointVars, Sessions
  <2>3. KnownAreOver'
    BY <1>7, <1>0 DEF KnownAreOver, LifeTypeOK, ClosesAll, endpointVars, Sessions
  <2>4. QED
    BY <2>1, <2>2, <2>3 DEF LifeInv
<1>8. QED
  BY <1>1, <1>2, <1>3, <1>4, <1>5, <1>6, <1>7

\* Opens, their answers, and the sessions that end.
LEMMA TablesInv ==
  ASSUME LifeInv, NEW c \in Conns,
         AsksStop(c) \/ AsksOpen(c) \/ OpenAnswered(c) \/ SessionOver(c)
  PROVE  LifeInv'
<1> USE DEF LifeInv
<1>0. \A d \in Conns : ServerOf(d)' = ServerOf(d)
  BY DEF AsksStop, AsksOpen, OpenAnswered, SessionOver, endpointVars, ServerOf
<1>1. CASE AsksStop(c)
  <2>1. LifeTypeOK'
    BY <1>1 DEF LifeTypeOK, AsksStop, endpointVars, tables
  <2>2. LifeOrder'
    BY <1>1, <1>0 DEF LifeOrder, LifeTypeOK, AsksStop, endpointVars, tables
  <2>3. KnownAreOver'
    BY <1>1, <1>0 DEF KnownAreOver, LifeTypeOK, AsksStop, endpointVars, tables
  <2>4. QED
    BY <2>1, <2>2, <2>3 DEF LifeInv
<1>2. CASE AsksOpen(c)
  <2>1. LifeTypeOK'
    BY <1>2 DEF LifeTypeOK, AsksOpen, endpointVars, lifeOnly, Inside
  <2>2. LifeOrder'
    BY <1>2, <1>0 DEF LifeOrder, LifeTypeOK, AsksOpen, endpointVars, lifeOnly, Inside
  <2>3. KnownAreOver'
    BY <1>2, <1>0 DEF KnownAreOver, LifeTypeOK, AsksOpen, endpointVars, lifeOnly, Inside
  <2>4. QED
    BY <2>1, <2>2, <2>3 DEF LifeInv
<1>3. CASE OpenAnswered(c)
  <2>1. LifeTypeOK'
    BY <1>3 DEF LifeTypeOK, OpenAnswered, endpointVars, lifeOnly
  <2>2. LifeOrder'
    BY <1>3, <1>0 DEF LifeOrder, LifeTypeOK, OpenAnswered, endpointVars, lifeOnly
  <2>3. KnownAreOver'
    BY <1>3, <1>0 DEF KnownAreOver, LifeTypeOK, OpenAnswered, endpointVars, lifeOnly
  <2>4. QED
    BY <2>1, <2>2, <2>3 DEF LifeInv
<1>4. CASE SessionOver(c)
  <2>1. LifeTypeOK'
    BY <1>4 DEF LifeTypeOK, SessionOver, endpointVars, lifeOnly
  <2>2. LifeOrder'
    BY <1>4, <1>0 DEF LifeOrder, LifeTypeOK, SessionOver, endpointVars, lifeOnly
  <2>3. KnownAreOver'
    BY <1>4, <1>0 DEF KnownAreOver, LifeTypeOK, SessionOver, endpointVars, lifeOnly
  <2>4. QED
    BY <2>1, <2>2, <2>3 DEF LifeInv
<1>5. QED
  BY <1>1, <1>2, <1>3, <1>4
\* One connection gets on, `run` standing still: who is inside dialled a server that runs.
LEMMA MoveInv ==
  ASSUME LifeInv, NEW c \in Conns, NEW to \in ConnState \ {"none"},
         Move(c, to), conn[c].at \notin {"none", "gone"},
         to \in Inside => main[ServerOf(c)] \notin NotRunning,
         UNCHANGED <<main, ep, socks, down, opening, held, told, known>>
  PROVE  LifeInv'
<1>1. \A d \in Conns : /\ conn'[d].sock = conn[d].sock /\ (d # c => conn'[d] = conn[d])
                       /\ ServerOf(d)' = ServerOf(d)
  BY DEF LifeInv, LifeTypeOK, Move, ServerOf
<1>2. conn' \in [Conns -> [at : ConnState, sock : Nat]] /\ conn'[c].at = to
  BY DEF LifeInv, LifeTypeOK, Move
<1>3. LifeTypeOK'
  BY <1>2 DEF LifeInv, LifeTypeOK
<1>4. LifeOrder'
  BY <1>1, <1>2 DEF LifeInv, LifeOrder
<1>5. KnownAreOver'
  BY <1>1, <1>2 DEF LifeInv, KnownAreOver, LifeTypeOK
<1>6. QED
  BY <1>3, <1>4, <1>5 DEF LifeInv

\* Connections: dialled, accepted, checked, registered, cut, over.
LEMMA ConnsInv ==
  ASSUME ServerInv,
         \/ \E c \in Conns : \/ Dials(c) \/ AcceptOne(c) \/ CheckBegins(c) \/ Verdict(c)
                             \/ Registers(c) \/ Leaves(c)
         \/ \E s \in Servers : Sweeps(s)
  PROVE  LifeInv'
<1> USE DEF ServerInv
<1>1. ASSUME NEW c \in Conns, Dials(c) PROVE LifeInv'
  <2>0. /\ conn[c].at = "none"
        /\ conn' = [conn EXCEPT ![c] = [at |-> "backlog", sock |-> sockAt]]
        /\ sockAt \in Nat /\ sockAt \in 1 .. Len(socks)
        /\ UNCHANGED <<main, ep, socks, down, opening, held, told, known>>
    BY <1>1 DEF Dials, EndpointInv, EndpointTypeOK, NoFile, endpointVars, lifeOnly, tables
  <2>1. \A d \in Conns : d # c => conn'[d] = conn[d] /\ ServerOf(d)' = ServerOf(d)
    BY <2>0 DEF LifeInv, LifeTypeOK, ServerOf
  <2>2. LifeTypeOK' /\ conn'[c] = [at |-> "backlog", sock |-> sockAt]
    BY <2>0 DEF LifeInv, LifeTypeOK, ConnState
  <2>3. LifeOrder'
    BY <2>0, <2>1, <2>2 DEF LifeInv, LifeOrder, Inside
  <2>4. KnownAreOver'
    BY <2>0, <2>1, <2>2 DEF LifeInv, KnownAreOver, LifeTypeOK
  <2>5. QED
    BY <2>2, <2>3, <2>4 DEF LifeInv
<1>2. ASSUME NEW c \in Conns, AcceptOne(c) PROVE LifeInv'
  <2>1. conn[c].at = "backlog" /\ ep[ServerOf(c)].loop = conn[c].sock
    BY <1>2 DEF AcceptOne
  <2>2. conn[c].sock \in 1 .. Len(socks) /\ ServerOf(c) \in Servers
    <3>1. conn[c].sock \in 1 .. Len(socks)
      BY <2>1 DEF LifeInv, LifeOrder
    <3>2. socks[conn[c].sock] \in Socket
      BY <3>1 DEF EndpointInv, EndpointTypeOK
    <3>3. QED
      BY <3>1, <3>2 DEF ServerOf, NoFile, Socket
  <2>3. main[ServerOf(c)] \notin NotRunning
    BY <2>1, <2>2 DEF LifeInv, LifeOrder, NoFile
  <2>4. /\ \E to \in {"queued", "gone"} : Move(c, to)
        /\ UNCHANGED <<main, ep, socks, down, opening, held, told, known>>
    BY <1>2 DEF AcceptOne, endpointVars, lifeOnly, tables
  <2>5. QED
    BY <2>1, <2>3, <2>4, MoveInv DEF ConnState, Inside
<1>3. ASSUME NEW c \in Conns, CheckBegins(c) \/ Verdict(c) \/ Registers(c) \/ Leaves(c) PROVE LifeInv'
  <2>1. /\ \E to \in {"checked", "trusted", "served", "cut", "gone"} :
             Move(c, to) /\ (to = "gone" \/ conn[c].at \in Inside)
        /\ conn[c].at \notin {"none", "gone"}
        /\ UNCHANGED <<main, ep, socks, down, opening, held, told, known>>
    BY <1>3 DEF CheckBegins, Verdict, Registers, Leaves, endpointVars, lifeOnly, tables, Inside
  <2>2. QED
    BY <2>1, MoveInv DEF ConnState, Inside, LifeInv, LifeOrder
<1>4. ASSUME NEW s \in Servers, Sweeps(s) PROVE LifeInv'
  <2>0. UNCHANGED <<main, ep, socks, down, opening, held, told, known>>
    BY <1>4 DEF Sweeps, endpointVars, lifeOnly, tables
  <2>1. \A c \in Conns : \/ conn'[c] = conn[c]
                         \/ /\ conn[c].at = "served" /\ conn'[c].at = "cut"
                            /\ conn'[c].sock = conn[c].sock
    BY <1>4 DEF Sweeps, Registered, At, LifeInv, LifeTypeOK
  <2>2. \A c \in Conns : ServerOf(c)' = ServerOf(c)
    BY <2>0, <2>1 DEF ServerOf
  <2>3. LifeTypeOK'
    BY <1>4, <2>0 DEF Sweeps, LifeInv, LifeTypeOK, ConnState
  <2>4. LifeOrder'
    BY <2>0, <2>1, <2>2 DEF LifeInv, LifeOrder, Inside
  <2>5. KnownAreOver'
    BY <2>0, <2>1, <2>2 DEF LifeInv, KnownAreOver, LifeTypeOK
  <2>6. QED
    BY <2>3, <2>4, <2>5 DEF LifeInv
<1>5. QED
  BY <1>1, <1>2, <1>3, <1>4

\* A step of the endpoint's: connections keep their servers, and may be reset in the
\* backlog; a server's accept loop is there only while it runs.
LEMMA EndpointLifeInv ==
  ASSUME ServerInv, EndpointTypeOK', SocksGrow, NEW s \in Servers,
         \A o \in Servers \ {s} : ep'[o] = ep[o],
         main' \in [Servers -> MainState],
         \A o \in Servers \ {s} : main'[o] = main[o],
         \/ main'[s] = main[s] \/ main'[s] \notin {"off", "sessions", "retired", "drains", "late"},
         main'[s] = "off" => ep'[s] = Off,
         ep'[s].up <=> main'[s] \notin NotRunning,
         main'[s] \in NotRunning => main[s] \in NotRunning,
         s \in down => main'[s] = main[s],
         ep'[s].loop # NoFile =>
           ep'[s].up /\ ep'[s].loop \in 1 .. Len(socks') /\ socks'[ep'[s].loop].by = s,
         main'[s] = "gone" => ep'[s].at = "gone",
         ep'[s].made \in {NoFile, ep[s].made} \cup SocketsOf(s)',
         \E dead : Reset(dead),
         UNCHANGED <<down, opening, held, told, known>>
  PROVE  LifeInv'
<1> USE DEF ServerInv, LifeInv
<1>1. conn' \in [Conns -> [at : ConnState, sock : Nat]]
  BY ResetFacts
<1>2. \A c \in Conns : /\ conn'[c].sock = conn[c].sock
                       /\ \/ conn'[c].at = conn[c].at
                          \/ conn[c].at = "backlog" /\ conn'[c].at = "gone"
  BY ResetFacts
<1>3. \A c \in Conns : conn[c].at # "none" =>
        ServerOf(c)' = ServerOf(c) /\ conn'[c].sock \in 1 .. Len(socks') /\ ServerOf(c) \in Servers
  BY <1>2, SameServer DEF EndpointInv
<1>4. LifeTypeOK'
  BY <1>1 DEF LifeTypeOK
<1>5. LifeOrder'
  <2>1. ASSUME NEW o \in Servers
        PROVE  /\ main'[o] = "off" => ep'[o] = Off
               /\ ep'[o].up <=> main'[o] \notin NotRunning
               /\ ep'[o].loop # NoFile =>
                    ep'[o].up /\ ep'[o].loop \in 1 .. Len(socks') /\ socks'[ep'[o].loop].by = o
               /\ main'[o] = "gone" => ep'[o].at = "gone"
               /\ ep'[o].made # NoFile =>
                    ep'[o].made \in 1 .. Len(socks') /\ socks'[ep'[o].made].by = o
               /\ main'[o] \in {"drains", "late"} => o \in down'
    <3>1. CASE o = s
      <4>1. Len(socks) \in Nat /\ Len(socks') \in Nat
        BY DEF EndpointInv, EndpointTypeOK
      <4>2. QED
        BY SMTT(30), <3>1, <4>1 DEF LifeOrder, SocksGrow, SocketsOf
    <3>2. CASE o # s
      <4>1. Len(socks) \in Nat /\ Len(socks') \in Nat
        BY DEF EndpointInv, EndpointTypeOK
      <4>2. QED
        BY SMTT(30), <3>2, <4>1 DEF LifeOrder, SocksGrow
    <3>3. QED
      BY <3>1, <3>2
  <2>2. ASSUME NEW c \in Conns
        PROVE  /\ IF conn'[c].at = "none" THEN conn'[c].sock = NoFile
                                         ELSE conn'[c].sock \in 1 .. Len(socks')
               /\ conn'[c].at \in Inside => main'[ServerOf(c)'] \notin NotRunning
               /\ c \in opening => conn'[c].at # "none" /\ main'[ServerOf(c)'] \notin NotRunning
               /\ c \in held => /\ conn'[c].at # "none" /\ main'[ServerOf(c)'] \notin NotRunning
                                /\ ServerOf(c)' \notin down
    BY <1>2, <1>3 DEF LifeOrder, Inside
  <2>3. \A o \in down : main'[o] \in {"drains", "late", "gone"}
    BY DEF LifeOrder, LifeTypeOK
  <2>4. QED
    BY <2>1, <2>2, <2>3 DEF LifeOrder
<1>6. KnownAreOver'
  BY <1>2, <1>3 DEF KnownAreOver, LifeTypeOK
<1>7. QED
  BY <1>4, <1>5, <1>6
\* Every step of a server's own is a move of its endpoint's, or leaves the endpoint alone.
LEMMA StepsMoveEndpoint ==
  ASSUME ServerInv, ServerNext
  PROVE  \/ UNCHANGED <<endpointVars, closing>>
         \/ \E s \in Servers : EndpointMove(s)
         \/ Removes /\ UNCHANGED closing
<1>1. ASSUME NEW s \in Servers, Launches(s) PROVE StartsUp(s)
  BY <1>1 DEF Launches, StartsUp, ServerInv, LifeInv, LifeOrder
<1>2. ASSUME NEW s \in Servers, Serves(s) PROVE EndpointMove(s)
  BY <1>2 DEF Serves, EndpointRuns, LooksAgain, SpawnsLoop, LookDropped, EndpointMove, lifeOnly
<1>3. ASSUME NEW s \in Servers, Runs(s)
      PROVE  UNCHANGED <<endpointVars, closing>> \/ EndpointMove(s)
  <2>1. CASE Closes(s)
    <3>1. StopsAccepting(s)
      BY <2>1 DEF Closes, StopsAccepting, ServerInv, EndpointInv, EndpointTypeOK
    <3>2. QED
      BY <3>1 DEF EndpointMove
  <2>2. CASE Exits(s)
    BY <2>2 DEF Exits, Vanishes, EndpointMove
  <2>3. CASE CountsAdmissions(s) \/ CountsSessions(s) \/ Wakes(s) \/ ClosesAll(s)
    BY <2>3 DEF CountsAdmissions, CountsSessions, Wakes, ClosesAll
  <2>4. QED
    BY <1>3, <2>1, <2>2, <2>3 DEF Runs
<1>4. ASSUME NEW s \in Servers,
             WindowPasses(s) \/ Stopped(s) \/ Sweeps(s) \/ DrainEnds(s) \/ Crashes(s)
      PROVE  UNCHANGED <<endpointVars, closing>> \/ EndpointMove(s)
  BY <1>4 DEF WindowPasses, Stopped, Sweeps, DrainEnds, Crashes, Vanishes, EndpointMove, lifeOnly
<1>5. ASSUME NEW c \in Conns,
             \/ Dials(c) \/ AcceptOne(c) \/ CheckBegins(c) \/ Verdict(c) \/ Registers(c)
             \/ Leaves(c) \/ AsksStop(c) \/ AsksOpen(c) \/ OpenAnswered(c) \/ SessionOver(c)
      PROVE  UNCHANGED <<endpointVars, closing>>
  BY <1>5 DEF Dials, AcceptOne, CheckBegins, Verdict, Registers, Leaves, AsksStop, AsksOpen,
              OpenAnswered, SessionOver, lifeOnly
<1>6. Removed => Removes /\ UNCHANGED closing
  BY DEF Removed, lifeOnly
<1>7. QED
  BY <1>1, <1>2, <1>3, <1>4, <1>5, <1>6 DEF ServerNext, EndpointMove

\* Every step keeps the endpoint's invariant.
LEMMA EndpointNextInv == ServerInv /\ [ServerNext]_allServerVars => EndpointInv'
<1> SUFFICES ASSUME ServerInv, [ServerNext]_allServerVars PROVE EndpointInv'
  OBVIOUS
<1>1. CASE UNCHANGED <<endpointVars, closing>>
  BY <1>1 DEF ServerInv, EndpointInv, EndpointTypeOK, LocksHeld, SocketKept, endpointVars
<1>2. QED
  BY <1>1, StepsMoveEndpoint, EndpointMoveInv, RemovesInv
     DEF ServerInv, allServerVars, serverVars, endpointVars

\* A process launched, its endpoint's steps, and the close of its accept loop.
LEMMA ServesInv ==
  ASSUME ServerInv, EndpointTypeOK', NEW s \in Servers, Launches(s) \/ Serves(s) \/ Closes(s)
  PROVE  LifeInv'
<1> USE DEF ServerInv, LifeInv
<1>0. /\ ep \in [Servers -> EndpointState] /\ socks \in Seq(Socket)
      /\ main \in [Servers -> MainState] /\ LifeTypeOK /\ EndpointInv
      /\ UNCHANGED conn => Reset({})
      /\ UNCHANGED socks => SocksGrow
  BY DEF EndpointInv, EndpointTypeOK, LifeTypeOK, Reset, SocksGrow
<1>a. /\ main[s] = "off" => ep[s] = Off
      /\ main[s] = "gone" => ep[s].at = "gone"
      /\ ep[s].up <=> main[s] \notin NotRunning
      /\ ep[s].loop # NoFile => ep[s].up /\ ep[s].loop \in 1 .. Len(socks) /\ socks[ep[s].loop].by = s
      /\ s \in down => main[s] \in {"drains", "late", "gone"}
  BY DEF LifeOrder
<1>b. Len(socks) \in Nat /\ Len(socks') \in Nat
  BY DEF EndpointInv, EndpointTypeOK
<1>1. CASE Launches(s)
  <2>1. /\ main' = [main EXCEPT ![s] = "starting"] /\ main[s] = "off"
        /\ ep' = [ep EXCEPT ![s].at = "opens"] /\ ep[s] = Off
        /\ UNCHANGED <<socks, conn, down, opening, held, told, known>>
    BY <1>1, <1>a DEF Launches, tables
  <2>2. ~ep'[s].up /\ ep'[s].loop = NoFile /\ ep'[s].made = NoFile /\ \A o \in Servers \ {s} : ep'[o] = ep[o]
    BY <1>0, <2>1 DEF Off, EndpointState
  <2>3. QED
    BY <1>0, <1>a, <2>1, <2>2, EndpointLifeInv DEF MainState, NotRunning
<1>2. CASE EndpointRuns(s)
  <2>1. /\ \A o \in Servers \ {s} : ep'[o] = ep[o]
        /\ SocksGrow
        /\ ep[s].at \notin {"off", "gone"}
        /\ \/ ep'[s].at = "gone" /\ ~ep'[s].up /\ ep'[s].loop = NoFile /\ ~ep[s].up
           \/ ep'[s].at # "gone" /\ ep'[s].up = ep[s].up /\ ep'[s].loop = ep[s].loop
        /\ ep'[s].made \in {NoFile, ep[s].made} \cup SocketsOf(s)'
    BY <1>2, EndpointEffect DEF EndpointRuns
  <2>2. /\ main' = IF ep'[s].at = "gone" THEN [main EXCEPT ![s] = "gone"] ELSE main
        /\ \E dead : Reset(dead)
        /\ UNCHANGED <<down, opening, held, told, known>>
    BY <1>2 DEF EndpointRuns, tables
  <2>3. main[s] # "off"
    BY <1>a, <2>1 DEF Off
  <2>4. ep'[s].loop # NoFile => ep'[s].loop \in 1 .. Len(socks') /\ socks'[ep'[s].loop].by = s
    BY <1>0, <1>a, <2>1, <1>b DEF SocksGrow
  <2>5. QED
    BY <1>0, <1>a, <2>1, <2>2, <2>3, <2>4, EndpointLifeInv DEF MainState, NotRunning<1>3. CASE LooksAgain(s)
  <2>1. /\ ep[s].at = "idle"
        /\ \E at \in {"looksAtSock", "opens"} : ep' = [ep EXCEPT ![s].at = at]
        /\ UNCHANGED <<main, socks, conn, down, opening, held, told, known>>
    BY <1>3 DEF LooksAgain, Looks, lifeOnly, tables
  <2>2. /\ ep'[s].up = ep[s].up /\ ep'[s].loop = ep[s].loop /\ ep'[s].made = ep[s].made
        /\ \A o \in Servers \ {s} : ep'[o] = ep[o]
    BY <1>0, <2>1 DEF EndpointState
  <2>3. main[s] \notin {"off", "gone"}
    BY <1>a, <2>1 DEF Off
  <2>4. QED
    BY <1>0, <1>a, <2>1, <2>2, <2>3, EndpointLifeInv
<1>4. CASE SpawnsLoop(s)
  <2>1. /\ ep[s].at = "accepts"
        /\ socks' = Deafened({ep[s].loop} \ {NoFile})
        /\ ep' = [ep EXCEPT ![s].at = "idle", ![s].up = TRUE, ![s].loop = ep[s].made, ![s].made = NoFile]
        /\ main' = IF main[s] = "starting" THEN [main EXCEPT ![s] = "admissions"] ELSE main
        /\ \E dead : Reset(dead)
        /\ UNCHANGED <<down, opening, held, told, known>>
    BY <1>4 DEF SpawnsLoop, Accepts, tables
  <2>2. /\ ep'[s].up /\ ep'[s].loop = ep[s].made /\ ep'[s].made = NoFile
        /\ \A o \in Servers \ {s} : ep'[o] = ep[o]
    BY <1>0, <2>1 DEF EndpointState
  <2>3. SocksGrow
    BY <1>0, <2>1, DeafenedFacts DEF SocksGrow
  <2>4. ep[s].made # NoFile => ep[s].made \in 1 .. Len(socks) /\ socks[ep[s].made].by = s
    BY <2>1 DEF LifeOrder
  <2>5. main[s] \notin {"off", "gone"}
    BY <1>a, <2>1 DEF LifeOrder, Off
  <2>6. ep'[s].loop # NoFile => ep'[s].loop \in 1 .. Len(socks') /\ socks'[ep'[s].loop].by = s
    BY <1>b, <2>2, <2>3, <2>4 DEF SocksGrow
  <2>7. /\ main' \in [Servers -> MainState] /\ \A o \in Servers \ {s} : main'[o] = main[o]
        /\ main'[s] = main[s] \/ main'[s] = "admissions"
        /\ main'[s] \notin {"off", "starting", "gone"}
        /\ s \in down => main'[s] = main[s]
    BY <1>0, <1>a, <2>1, <2>5 DEF MainState
  <2>8. QED
    BY <1>0, <2>1, <2>2, <2>3, <2>6, <2>7, EndpointLifeInv DEF NotRunning
<1>5. CASE LookDropped(s)
  <2>1. /\ ep[s].at = "accepts" /\ GivesUp(s)
        /\ \E dead : Reset(dead)
        /\ UNCHANGED <<main, down, opening, held, told, known>>
    BY <1>5 DEF LookDropped, lifeOnly, tables
  <2>2. CASE ~ep[s].up /\ ProcessEnds(s)
    <3>1. /\ ~ep'[s].up /\ ep'[s].loop = NoFile /\ ep'[s].made = NoFile /\ ep'[s].at = "gone"
          /\ \A o \in Servers \ {s} : ep'[o] = ep[o]
      BY <1>0, <2>2 DEF ProcessEnds, Off
    <3>2. SocksGrow
      BY <1>0, <2>2, DeafenedFacts DEF ProcessEnds, SocksGrow
    <3>3. main[s] \notin {"off", "gone"}
      BY <1>a, <2>1 DEF Off
    <3>4. QED
      BY <1>0, <1>a, <2>1, <2>2, <3>1, <3>2, <3>3, EndpointLifeInv
  <2>3. CASE /\ ep[s].up
             /\ socks' = Deafened({ep[s].made} \ {NoFile})
             /\ ep' = [ep EXCEPT ![s].at = "idle", ![s].fd = NoFile, ![s].made = NoFile]
    <3>1. /\ ep'[s].up /\ ep'[s].loop = ep[s].loop /\ ep'[s].made = NoFile
          /\ \A o \in Servers \ {s} : ep'[o] = ep[o]
      BY <1>0, <2>3 DEF EndpointState
    <3>2. SocksGrow
      BY <1>0, <2>3, DeafenedFacts DEF SocksGrow
    <3>3. main[s] \notin {"off", "gone"}
      BY <1>a, <2>1 DEF Off
    <3>4. ep'[s].loop # NoFile => ep'[s].loop \in 1 .. Len(socks') /\ socks'[ep'[s].loop].by = s
      BY <1>a, <1>b, <3>1, <3>2 DEF SocksGrow
    <3>5. QED
      BY <1>0, <1>a, <2>1, <2>3, <3>1, <3>2, <3>3, <3>4, EndpointLifeInv
  <2>4. QED
    BY <2>1, <2>2, <2>3 DEF GivesUp
<1>6. CASE Closes(s)
  <2>1. /\ main[s] \in {"retired", "stopped"}
        /\ main' = [main EXCEPT ![s] = "closing"]
        /\ socks' = Deafened({ep[s].loop})
        /\ ep' = [ep EXCEPT ![s].loop = NoFile]
        /\ \E dead : Reset(dead)
        /\ UNCHANGED <<down, opening, held, told, known>>
    BY <1>6 DEF Closes, tables
  <2>2. /\ ep'[s].up = ep[s].up /\ ep'[s].loop = NoFile /\ ep'[s].made = ep[s].made
        /\ \A o \in Servers \ {s} : ep'[o] = ep[o]
    BY <1>0, <2>1 DEF EndpointState, NoFile
  <2>3. SocksGrow
    BY <1>0, <2>1, DeafenedFacts DEF SocksGrow
  <2>4. s \notin down
    BY <1>a, <2>1
  <2>5. QED
    BY <1>0, <1>a, <2>1, <2>2, <2>3, <2>4, EndpointLifeInv DEF MainState, NotRunning
<1>7. QED
  BY <1>1, <1>2, <1>3, <1>4, <1>5, <1>6 DEF Serves

\* A process that is over, by its exit or by a crash: its connections and opens go with it,
\* and it held no session, or its sessions close with it.
LEMMA VanishesInv ==
  ASSUME ServerInv, EndpointTypeOK', NEW s \in Servers, Exits(s) \/ Crashes(s)
  PROVE  LifeInv'
<1> USE DEF ServerInv, LifeInv
<1>0. /\ ep \in [Servers -> EndpointState] /\ socks \in Seq(Socket) /\ LifeTypeOK
      /\ main[s] # "off"
  BY DEF EndpointInv, EndpointTypeOK, Exits, Crashes
<1>1. /\ ep' = [ep EXCEPT ![s] = [Off EXCEPT !.at = "gone"]]
      /\ socks' = Deafened({k \in DOMAIN socks : socks[k].by = s})
      /\ main' = [main EXCEPT ![s] = "gone"]
      /\ conn' = [c \in Conns |-> IF ServerOf(c) = s THEN [conn[c] EXCEPT !.at = "gone"] ELSE conn[c]]
      /\ opening' = {c \in opening : ServerOf(c) # s}
      /\ UNCHANGED <<down, told, known>>
  BY DEF Exits, Crashes, Vanishes, ProcessEnds
<1>2. /\ ~ep'[s].up /\ ep'[s].loop = NoFile /\ ep'[s].made = NoFile /\ ep'[s].at = "gone"
      /\ \A o \in Servers \ {s} : ep'[o] = ep[o]
  BY <1>0, <1>1 DEF Off
<1>3. SocksGrow
  BY <1>0, <1>1, DeafenedFacts DEF SocksGrow
<1>4. \A c \in Conns : /\ conn'[c].sock = conn[c].sock
                       /\ conn'[c].at \in {conn[c].at, "gone"}
                       /\ ServerOf(c) = s => conn'[c].at = "gone"
  BY <1>0, <1>1 DEF LifeTypeOK
<1>5. ASSUME NEW c \in Conns, conn[c].at # "none"
      PROVE  ServerOf(c)' = ServerOf(c) /\ conn'[c].sock \in 1 .. Len(socks') /\ ServerOf(c) \in Servers
  <2>1. EndpointTypeOK /\ LifeOrder
    BY DEF EndpointInv
  <2>3. conn'[c].sock = conn[c].sock
    BY <1>4
  <2>2. QED
    BY <1>3, <1>5, <2>1, <2>3, SameServer
<1>6. \A c \in held' : c \in held /\ ServerOf(c) # s
  <2>1. CASE Crashes(s)
    BY <2>1 DEF Crashes, Sessions
  <2>2. CASE Exits(s)
    <3>1. s \in down /\ held' = held
      BY <2>2 DEF Exits, LifeOrder
    <3>2. QED
      BY <3>1 DEF LifeOrder, LifeTypeOK
  <2>3. QED
    BY <2>1, <2>2
<1>a. \A c \in Conns : conn[c].at = "none" => ServerOf(c) # s
  BY DEF LifeOrder, ServerOf, Servers, NoFile, Nobody
<1>7. LifeTypeOK'
  <2>1. conn' \in [Conns -> [at : ConnState, sock : Nat]]
    BY <1>0, <1>1 DEF LifeTypeOK, ConnState
  <2>2. QED
    BY <1>1, <1>6, <2>1 DEF LifeTypeOK, MainState
<1>8. LifeOrder'
  <2>1. ASSUME NEW o \in Servers
        PROVE  /\ main'[o] = "off" => ep'[o] = Off
               /\ ep'[o].up <=> main'[o] \notin NotRunning
               /\ ep'[o].loop # NoFile =>
                    ep'[o].up /\ ep'[o].loop \in 1 .. Len(socks') /\ socks'[ep'[o].loop].by = o
               /\ main'[o] = "gone" => ep'[o].at = "gone"
               /\ ep'[o].made # NoFile =>
                    ep'[o].made \in 1 .. Len(socks') /\ socks'[ep'[o].made].by = o
               /\ main'[o] \in {"drains", "late"} => o \in down'
    <3>1. CASE o = s
      BY <3>1, <1>1, <1>2 DEF LifeTypeOK, NotRunning
    <3>2. CASE o # s
      <4>1. Len(socks) \in Nat /\ Len(socks') \in Nat
        BY DEF EndpointInv, EndpointTypeOK
      <4>2. QED
        BY <3>2, <4>1, <1>1, <1>2, <1>3 DEF LifeOrder, SocksGrow
    <3>3. QED
      BY <3>1, <3>2
  <2>2. ASSUME NEW c \in Conns
        PROVE  /\ IF conn'[c].at = "none" THEN conn'[c].sock = NoFile
                                         ELSE conn'[c].sock \in 1 .. Len(socks')
               /\ conn'[c].at \in Inside => main'[ServerOf(c)'] \notin NotRunning
               /\ c \in opening' => conn'[c].at # "none" /\ main'[ServerOf(c)'] \notin NotRunning
               /\ c \in held' => /\ conn'[c].at # "none" /\ main'[ServerOf(c)'] \notin NotRunning
                                 /\ ServerOf(c)' \notin down'
    BY <1>1, <1>4, <1>5, <1>6, <1>a DEF LifeOrder, LifeTypeOK, Inside
  <2>3. \A o \in down' : main'[o] \in {"drains", "late", "gone"}
    BY <1>1 DEF LifeOrder, LifeTypeOK
  <2>4. QED
    BY <2>1, <2>2, <2>3 DEF LifeOrder
<1>9. KnownAreOver'
  BY <1>1, <1>4, <1>5, <1>6 DEF KnownAreOver, LifeTypeOK
<1>10. QED
  BY <1>7, <1>8, <1>9
-----------------------------------------------------------------------------

\* The invariant holds at first.
LEMMA ServerInitInv == ServerInit => ServerInv
<1> SUFFICES ASSUME ServerInit PROVE ServerInv
  OBVIOUS
<1>1. EndpointInv
  BY EndpointInitInv
<1>2. LifeTypeOK
  BY DEF ServerInit, LifeTypeOK, MainState, ConnState, NoFile
<1>3. LifeOrder
  BY DEF ServerInit, EndpointInit, LifeOrder, NotRunning, Off, Inside, NoFile
<1>4. KnownAreOver
  BY DEF ServerInit, KnownAreOver
<1>5. QED
  BY <1>1, <1>2, <1>3, <1>4 DEF ServerInv, LifeInv

\* Every step keeps the invariant.
LEMMA ServerNextInv == ServerInv /\ [ServerNext]_allServerVars => ServerInv'
<1> SUFFICES ASSUME ServerInv, [ServerNext]_allServerVars PROVE ServerInv'
  OBVIOUS
<1>1. EndpointInv' /\ EndpointTypeOK' /\ LifeInv
  BY EndpointNextInv DEF ServerInv, EndpointInv
<1>2. CASE UNCHANGED allServerVars
  <2>1. \A c \in Conns : ServerOf(c)' = ServerOf(c)
    BY <1>2 DEF allServerVars, serverVars, endpointVars, ServerOf
  <2>2. LifeTypeOK' /\ LifeOrder'
    BY <1>1, <1>2, <2>1 DEF allServerVars, serverVars, serverHistory, endpointVars, LifeInv,
                            LifeTypeOK, LifeOrder
  <2>3. KnownAreOver'
    BY <1>1, <1>2, <2>1 DEF allServerVars, serverVars, serverHistory, LifeInv, KnownAreOver, LifeTypeOK
  <2>4. QED
    BY <1>1, <2>2, <2>3 DEF ServerInv, LifeInv
<1>3. ASSUME NEW s \in Servers, Launches(s) \/ Serves(s) \/ Closes(s) PROVE LifeInv'
  BY <1>1, <1>3, ServesInv
<1>4. ASSUME NEW s \in Servers, Exits(s) \/ Crashes(s) PROVE LifeInv'
  BY <1>1, <1>4, VanishesInv
<1>5. ASSUME NEW s \in Servers,
             \/ CountsAdmissions(s) \/ CountsSessions(s) \/ WindowPasses(s) \/ Wakes(s)
             \/ Stopped(s) \/ DrainEnds(s) \/ ClosesAll(s)
      PROVE  LifeInv'
  BY <1>1, <1>5, RunInv
<1>6. ASSUME NEW s \in Servers, Sweeps(s) PROVE LifeInv'
  BY <1>6, ConnsInv
<1>7. ASSUME NEW c \in Conns,
             \/ Dials(c) \/ AcceptOne(c) \/ CheckBegins(c) \/ Verdict(c) \/ Registers(c) \/ Leaves(c)
      PROVE  LifeInv'
  BY <1>7, ConnsInv
<1>8. ASSUME NEW c \in Conns, AsksStop(c) \/ AsksOpen(c) \/ OpenAnswered(c) \/ SessionOver(c)
      PROVE  LifeInv'
  BY <1>1, <1>8, TablesInv
<1>9. CASE Removed
  <2>1. UNCHANGED <<main, ep, socks, conn, down, opening, held, told, known>>
    BY <1>9 DEF Removed, Removes, lifeOnly, tables
  <2>2. \A c \in Conns : ServerOf(c)' = ServerOf(c)
    BY <2>1 DEF ServerOf
  <2>3. LifeTypeOK' /\ LifeOrder'
    BY <1>1, <2>1, <2>2 DEF LifeInv, LifeTypeOK, LifeOrder
  <2>4. KnownAreOver'
    BY <1>1, <2>1, <2>2 DEF LifeInv, KnownAreOver, LifeTypeOK
  <2>5. QED
    BY <1>1, <2>3, <2>4 DEF ServerInv, LifeInv
<1>10. QED
  BY <1>1, <1>2, <1>3, <1>4, <1>5, <1>6, <1>7, <1>8, <1>9 DEF ServerNext, Runs, ServerInv

\* The inductive invariant holds of every behaviour of the servers: however launches, looks,
\* removals, connections, exits and crashes interleave (crates/server/src/lib.rs, endpoint.rs).
THEOREM ServerKeepsInv == ServerSpec => []ServerInv
<1>1. ServerInv /\ [ServerNext]_allServerVars => ServerInv'
  BY ServerNextInv
<1>2. ServerInit => ServerInv
  BY ServerInitInv
<1>3. QED
  BY <1>1, <1>2, PTL DEF ServerSpec

\* For any number of servers launched at once or one after the other, as long as nobody
\* removes the lock file one at most is past its lock, and with nothing removed the socket
\* at the path is the one it accepts on (endpoint.rs take_lock, bind).
THEOREM OneServer == ServerSpec => []OneServerPerEndpoint
<1>1. ServerInv => OneServerPerEndpoint
  BY EndpointInvMeans DEF ServerInv
<1>2. QED
  BY <1>1, ServerKeepsInv, PTL

\* A server that retires when idle does so over nobody it had counted: a connection that
\* entered before its last look is over, and a session answered to one is not held (lib.rs
\* `run`: admissions first, then sessions).
THEOREM RetiresClean == ServerSpec => []RetiresOverNobodyKnown
<1>1. ServerInv => RetiresOverNobodyKnown
  BY DEF ServerInv, LifeInv, KnownAreOver, RetiresOverNobodyKnown, Admitted, At
<1>2. QED
  BY <1>1, ServerKeepsInv, PTL

\* No session outlives the server that held it, whenever its open was answered and however
\* the server ended (lib.rs `shut_down`: close_all, then no more insertions).
THEOREM NothingOrphaned == ServerSpec => []NoOrphans
<1>1. ServerInv => NoOrphans
  BY DEF ServerInv, LifeInv, LifeTypeOK, LifeOrder, NoOrphans, Sessions, NotRunning
<1>2. QED
  BY <1>1, ServerKeepsInv, PTL
=============================================================================
