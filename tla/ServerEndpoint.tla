--------------------------- MODULE ServerEndpoint ---------------------------
(***************************************************************************)
(* The endpoint of santree-server: a lock file and a socket, by name, in a *)
(* directory any process of this user may change                           *)
(* (crates/server/src/endpoint.rs).  A server takes the lock and binds the *)
(* socket when it starts, and then looks at both every few seconds: a lock *)
(* removed is taken again, unless another server has it, and a socket gone *)
(* or replaced is bound again.  Each system call is a step, for nothing    *)
(* keeps two servers, or a removal, from coming between two of them.       *)
(***************************************************************************)
EXTENDS Naturals, Sequences, FiniteSets

CONSTANTS
  MaxServers,   \* bound: server processes launched, one after the other or at once
  MaxBinds      \* bound: sockets bound

ASSUME EndpointAssumption == MaxServers \in Nat /\ MaxBinds \in Nat

Servers == 1 .. MaxServers
Nobody == 0     \* no server
NoFile == 0     \* no file at a path; files and sockets are numbered as they are made

VARIABLES
  lockAt,   \* the file at the lock's path
  locker,   \* of each lock file made, the server whose flock is on it
  sockAt,   \* the socket at its path
  socks,    \* each socket made: the server that bound it, and whether it still listens
  ep,       \* each server's Endpoint, and where in endpoint.rs it is
  removals  \* removals so far, and whether a lock was among them

endpointVars == <<lockAt, locker, sockAt, socks, ep, removals>>

\* at: where it is; up: it started; lockId, sockId: Endpoint's; fd: the lock file it
\* opened; loop: the socket its accept loop is on; made: the socket it is binding.
Off == [at |-> "off", up |-> FALSE, fd |-> NoFile, lockId |-> NoFile, sockId |-> NoFile,
        loop |-> NoFile, made |-> NoFile]

EndpointInit ==
  /\ lockAt = NoFile /\ sockAt = NoFile
  /\ locker = <<>> /\ socks = <<>>
  /\ ep = [s \in Servers |-> Off]
  /\ removals = [n |-> 0, lock |-> FALSE]

Unlocked(s) == [f \in DOMAIN locker |-> IF locker[f] = s THEN Nobody ELSE locker[f]]
Deafened(dead) == [k \in DOMAIN socks |-> IF k \in dead THEN [socks[k] EXCEPT !.live = FALSE] ELSE socks[k]]

\* A mutant of ProcessEnds: tidies its lock file away.
ProcessEnds_RemovesTheLock(s) ==
  /\ ep' = [ep EXCEPT ![s] = [Off EXCEPT !.at = "gone"]]
  /\ locker' = Unlocked(s)
  /\ socks' = Deafened({k \in DOMAIN socks : socks[k].by = s})
  /\ lockAt' = IF lockAt = ep[s].lockId THEN NoFile ELSE lockAt
  /\ UNCHANGED <<sockAt, removals>>

\* The process ends, and with it its flocks and its listeners; the files stay.
ProcessEnds(s) ==
  /\ ep' = [ep EXCEPT ![s] = [Off EXCEPT !.at = "gone"]]
  /\ locker' = Unlocked(s)
  /\ socks' = Deafened({k \in DOMAIN socks : socks[k].by = s})
  /\ UNCHANGED <<lockAt, sockAt, removals>>

\* A step that failed: `serve` returns the error, a look only logs it.
GivesUp(s) ==
  \/ ~ep[s].up /\ ProcessEnds(s)
  \/ /\ ep[s].up
     /\ socks' = Deafened({ep[s].made} \ {NoFile})
     /\ ep' = [ep EXCEPT ![s].at = "idle", ![s].fd = NoFile, ![s].made = NoFile]
     /\ UNCHANGED <<lockAt, locker, sockAt, removals>>

----------------------------------------------------------------------------
\* take_lock: open the file at the path, made if need be, then flock that file.

OpensLock(s) ==
  /\ ep[s].at = "opens"
  /\ \/ lockAt # NoFile /\ UNCHANGED <<lockAt, locker>>
     \/ lockAt = NoFile /\ lockAt' = Len(locker) + 1 /\ locker' = Append(locker, Nobody)
  /\ ep' = [ep EXCEPT ![s].at = "locks", ![s].fd = lockAt']
  /\ UNCHANGED <<sockAt, socks, removals>>

\* The lock is held: startup binds, a look goes on to the socket.  Older locks go.
Locks(s) ==
  /\ ep[s].at = "locks" /\ locker[ep[s].fd] = Nobody
  /\ locker' = [Unlocked(s) EXCEPT ![ep[s].fd] = s]
  /\ ep' = [ep EXCEPT ![s].at = IF ep[s].up THEN "looksAtSock" ELSE "unlinks",
                      ![s].lockId = ep[s].fd, ![s].fd = NoFile]
  /\ UNCHANGED <<lockAt, sockAt, socks, removals>>

\* LOCK_PATIENCE runs out with another server's flock on the file.
LockRefused(s) ==
  /\ ep[s].at = "locks" /\ locker[ep[s].fd] # Nobody
  /\ GivesUp(s)

----------------------------------------------------------------------------
\* bind, and what Endpoint::bind and rebind record of it.

Unlinks(s) ==
  /\ ep[s].at = "unlinks"
  /\ sockAt' = NoFile
  /\ ep' = [ep EXCEPT ![s].at = "binds"]
  /\ UNCHANGED <<lockAt, locker, socks, removals>>

Binds(s) ==
  /\ ep[s].at = "binds" /\ Len(socks) < MaxBinds
  /\ \/ sockAt # NoFile /\ GivesUp(s)     \* somebody bound it meanwhile
     \/ /\ sockAt = NoFile
        /\ sockAt' = Len(socks) + 1
        /\ socks' = Append(socks, [by |-> s, live |-> TRUE])
        /\ ep' = [ep EXCEPT ![s].at = "stats", ![s].made = sockAt']
        /\ UNCHANGED <<lockAt, locker, removals>>

\* chmod and symlink_metadata by the path: what is there by then is recorded.
Stats(s) ==
  /\ ep[s].at = "stats"
  /\ \/ sockAt = NoFile /\ GivesUp(s)
     \/ /\ sockAt # NoFile
        /\ ep' = [ep EXCEPT ![s].at = "accepts", ![s].sockId = sockAt]
        /\ UNCHANGED <<lockAt, locker, sockAt, socks, removals>>

\* The accept loop of the new socket; the old loop's socket closes.
Accepts(s) ==
  /\ ep[s].at = "accepts"
  /\ socks' = Deafened({ep[s].loop} \ {NoFile})
  /\ ep' = [ep EXCEPT ![s].at = "idle", ![s].up = TRUE, ![s].loop = ep[s].made, ![s].made = NoFile]
  /\ UNCHANGED <<lockAt, locker, sockAt, removals>>

----------------------------------------------------------------------------
\* Endpoint::check, each ENDPOINT_CHECK: the lock by its path, then the socket.

\* A mutant of Looks: a lock that was lost is not taken again.
Looks_LeavesIt(s) ==
  /\ ep[s].at = "idle"
  /\ ep' = [ep EXCEPT ![s].at = IF lockAt = ep[s].lockId THEN "looksAtSock" ELSE "idle"]
  /\ UNCHANGED <<lockAt, locker, sockAt, socks, removals>>

Looks(s) ==
  /\ ep[s].at = "idle"
  /\ ep' = [ep EXCEPT ![s].at = IF lockAt = ep[s].lockId THEN "looksAtSock" ELSE "opens"]
  /\ UNCHANGED <<lockAt, locker, sockAt, socks, removals>>

LooksAtSock(s) ==
  /\ ep[s].at = "looksAtSock"
  /\ ep' = [ep EXCEPT ![s].at = IF sockAt = ep[s].sockId THEN "idle" ELSE "unlinks"]
  /\ UNCHANGED <<lockAt, locker, sockAt, socks, removals>>

\* What endpoint.rs does for `s`, at startup and at a look under way.
EndpointStep(s) ==
  \/ OpensLock(s) \/ Locks(s) \/ LockRefused(s)
  \/ Unlinks(s) \/ Binds(s) \/ Stats(s) \/ LooksAtSock(s)

\* Anything of this user's: an agent's `rm`, a cleaner of temporary files.
Removes ==
  /\ \/ lockAt # NoFile /\ lockAt' = NoFile /\ removals' = [n |-> removals.n + 1, lock |-> TRUE]
        /\ UNCHANGED sockAt
     \/ sockAt # NoFile /\ sockAt' = NoFile /\ removals' = [removals EXCEPT !.n = @ + 1]
        /\ UNCHANGED lockAt
  /\ UNCHANGED <<locker, socks, ep>>
=============================================================================
