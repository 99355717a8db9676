------------------------------ MODULE HookQueue ------------------------------
(***************************************************************************)
(* santree-host's hook queue (crates/host/src/hooks.rs): hook events get   *)
(* consecutive numbers within a boot of the host, wait until they are      *)
(* acked or pushed out by newer ones, and go to the newest subscriber,     *)
(* after a backlog that is sent in chunks with the queue's lock released   *)
(* in between.                                                             *)
(*                                                                         *)
(* A connection is the lines queued for its peer and the requests on their *)
(* way to the host, each handled by a task of its own.  Hooks differ in    *)
(* their numbers only; the bytes an event costs are the choice of how many *)
(* of the oldest a push evicts.                                            *)
(***************************************************************************)
EXTENDS Integers, FiniteSets, Sequences, SequencesExt

CONSTANTS
  Conns,     \* connections (their number is a bound)
  NoConn,
  QueueCap,  \* Caps::hook_queue_cap
  Backlog,   \* BACKLOG_CHUNK
  OutLimit,  \* Caps::out_queue_bytes, in lines
  MaxHooks,  \* bound: events pushed in one boot
  MaxBoot    \* bound: boots of the host

ASSUME HookAssumption ==
  /\ NoConn \notin Conns
  /\ QueueCap \in Nat \ {0} /\ Backlog \in Nat \ {0} /\ OutLimit \in Nat \ {0}
  /\ MaxHooks \in Nat /\ MaxBoot \in Nat \ {0}

VARIABLES
  boot,        \* Host's boot_id
  items,       \* HookQueue::items, by seq
  lastSeq,     \* HookQueue::last_seq
  unreported,  \* HookQueue::dropped > 0
  subscriber,  \* HookQueue::subscriber
  sub,         \* each connection's subscribe_hooks
  conn,        \* each connection
  evicted,     \* history: <<boot, seq>> of the events pushed out
  strayed      \* history: an ack meant for another boot was applied

queueVars == <<boot, items, lastSeq, unreported, subscriber, sub, conn, evicted, strayed>>

\* What goes over a connection: answers and events one way, requests the other.
HookLine(e) == [t |-> "hook", seq |-> e]
DroppedLine == [t |-> "dropped"]
Subscribed == [t |-> "subscribed"]
Acked(who) == [t |-> "acked", who |-> who]
SubscribeReq(after) == [t |-> "subscribe", after |-> after]
AckReq(upTo, of, who) == [t |-> "ack", upTo |-> upTo, of |-> of, who |-> who]

Idle == [at |-> "idle"]
Looping(after) == [at |-> "loop", after |-> after]
Sending(chunk, report) == [at |-> "sending", chunk |-> chunk, report |-> report]

Unused == [st |-> "unused", boot |-> 0, closing |-> FALSE, q |-> <<>>, asked |-> {}]

QueueInit ==
  /\ boot = 1
  /\ items = {} /\ lastSeq = 0 /\ unreported = FALSE /\ subscriber = NoConn
  /\ sub = [c \in Conns |-> Idle]
  /\ conn = [c \in Conns |-> Unused]
  /\ evicted = {}
  /\ strayed = FALSE

-----------------------------------------------------------------------------
(***************************************************************************)
(* Sending.  A run of sends stops at the first that fails, as every caller *)
(* does.                                                                   *)
(***************************************************************************)

\* A mutant of Room: one line too many.
Room_OneMore(k) == IF k.st \in {"open", "closed"} THEN OutLimit + 1 - Len(k.q) ELSE 0

\* The lines Out::send would still take.
Room(k) == IF k.st \in {"open", "closed"} THEN OutLimit - Len(k.q) ELSE 0

\* Out::send, of each line: the ones there is room for go out; the first there
\* is none for drops the link, unless its writer has ended already.
SendRun(k, lines) ==
  LET ok == Len(lines) <= Room(k)
  IN [ok |-> ok,
      k |-> [k EXCEPT !.q = @ \o SubSeq(lines, 1, IF ok THEN Len(lines) ELSE Room(k)),
                      !.closing = @ \/ (~ok /\ k.st # "gone")]]

SendOne(k, line) == SendRun(k, <<line>>).k

\* A mutant of Notified: a subscriber that could not be sent a line is kept.
Notified_KeepsSubscriber(who, lines) ==
  IF who = NoConn \/ lines = <<>>
  THEN subscriber' = who /\ UNCHANGED conn
  ELSE /\ conn' = [conn EXCEPT ![who] = SendRun(@, lines).k]
       /\ subscriber' = who

\* HookQueue::notify, of each line: a subscriber that cannot be sent it is one
\* no more.
Notified(who, lines) ==
  IF who = NoConn \/ lines = <<>>
  THEN subscriber' = who /\ UNCHANGED conn
  ELSE /\ conn' = [conn EXCEPT ![who] = SendRun(@, lines).k]
       /\ subscriber' = IF SendRun(conn[who], lines).ok THEN who ELSE NoConn

-----------------------------------------------------------------------------
(***************************************************************************)
(* The queue.                                                              *)
(***************************************************************************)

\* The n oldest of a set of events; and a set of events, oldest first.
Oldest(s, n) == {e \in s : Cardinality({d \in s : d <= e}) <= n}
InOrder(s) ==
  {f \in [1..Cardinality(s) -> s] :
     /\ \A i, j \in 1..Cardinality(s) : i < j => f[i] < f[j]
     /\ \A e \in s : \E i \in 1..Cardinality(s) : f[i] = e}

\* A mutant of Push: a report sent instead of the event.
Push_ReportsInstead(n) ==
  /\ lastSeq < MaxHooks
  /\ n \in 0..Cardinality(items)
  /\ Cardinality(items) - n < QueueCap
  /\ LET lost == Oldest(items, n)
         report == (unreported \/ lost # {}) /\ subscriber # NoConn
     IN /\ lastSeq' = lastSeq + 1
        /\ items' = (items \ lost) \cup {lastSeq'}
        /\ evicted' = evicted \cup {<<boot, e>> : e \in lost}
        /\ unreported' = ((unreported \/ lost # {}) /\ ~report)
        /\ Notified(subscriber, IF report THEN <<DroppedLine>> ELSE <<HookLine(lastSeq')>>)
  /\ UNCHANGED <<boot, sub, strayed>>

(***************************************************************************)
(* HookQueue::push: the n oldest give way, at least so many that the new   *)
(* one is within the count, and as many as its bytes ask for; what was     *)
(* lost is reported to the subscriber before the new event.                *)
(***************************************************************************)
Push(n) ==
  /\ lastSeq < MaxHooks
  /\ n \in 0..Cardinality(items)
  /\ Cardinality(items) - n < QueueCap
  /\ LET lost == Oldest(items, n)
         report == (unreported \/ lost # {}) /\ subscriber # NoConn
     IN /\ lastSeq' = lastSeq + 1
        /\ items' = (items \ lost) \cup {lastSeq'}
        /\ evicted' = evicted \cup {<<boot, e>> : e \in lost}
        /\ unreported' = ((unreported \/ lost # {}) /\ ~report)
        /\ Notified(subscriber, (IF report THEN <<DroppedLine>> ELSE <<>>) \o <<HookLine(lastSeq')>>)
  /\ UNCHANGED <<boot, sub, strayed>>

\* HookQueue::ack, and its answer.
HandlesAck(c) ==
  \E r \in conn[c].asked :
    /\ r.t = "ack"
    /\ items' = {e \in items : e > r.upTo}
    /\ strayed' = (strayed \/ r.of # boot)
    /\ conn' = [conn EXCEPT ![c] = SendOne([conn[c] EXCEPT !.asked = @ \ {r}], Acked(r.who))]
    /\ UNCHANGED <<boot, lastSeq, unreported, subscriber, sub, evicted>>

\* subscribe_hooks answers first.
HandlesSubscribe(c) ==
  \E r \in conn[c].asked :
    /\ r.t = "subscribe"
    /\ LET s == SendRun([conn[c] EXCEPT !.asked = @ \ {r}], <<Subscribed>>)
       IN /\ conn' = [conn EXCEPT ![c] = s.k]
          /\ sub' = [sub EXCEPT ![c] = IF s.ok THEN Looping(r.after) ELSE Idle]
    /\ UNCHANGED <<boot, items, lastSeq, unreported, subscriber, evicted, strayed>>

Due(after) == {e \in items : e > after}

\* The lock that finds nothing more to send: c is the subscriber.
BacklogEnds(c) ==
  /\ sub[c].at = "loop"
  /\ Due(sub[c].after) = {}
  /\ sub' = [sub EXCEPT ![c] = Idle]
  /\ unreported' = FALSE
  /\ Notified(c, IF unreported THEN <<DroppedLine>> ELSE <<>>)
  /\ UNCHANGED <<boot, items, lastSeq, evicted, strayed>>

\* ... or the next chunk is copied, and what was lost is now this one's to report.
BacklogTakes(c) ==
  /\ sub[c].at = "loop"
  /\ Due(sub[c].after) # {}
  /\ \E chunk \in InOrder(Oldest(Due(sub[c].after), Backlog)) :
       sub' = [sub EXCEPT ![c] = Sending(chunk, unreported)]
  /\ unreported' = FALSE
  /\ UNCHANGED <<boot, items, lastSeq, subscriber, conn, evicted, strayed>>

\* The chunk is sent, outside the lock.
BacklogSends(c) ==
  /\ sub[c].at = "sending"
  /\ LET chunk == sub[c].chunk
         s == SendRun(conn[c], (IF sub[c].report THEN <<DroppedLine>> ELSE <<>>)
                                 \o [i \in 1..Len(chunk) |-> HookLine(chunk[i])])
     IN /\ conn' = [conn EXCEPT ![c] = s.k]
        /\ sub' = [sub EXCEPT ![c] = IF s.ok THEN Looping(Last(chunk)) ELSE Idle]
  /\ UNCHANGED <<boot, items, lastSeq, unreported, subscriber, evicted, strayed>>

Subscribing(c) == HandlesSubscribe(c) \/ BacklogEnds(c) \/ BacklogTakes(c) \/ BacklogSends(c)

-----------------------------------------------------------------------------
(***************************************************************************)
(* The end of a connection, and of the host.                               *)
(***************************************************************************)

\* serve_conn's read loop ends: requests not yet handled are aborted (one in
\* the middle of subscribe_hooks, which never waits, is not).
HostCloses(c) ==
  /\ conn[c].st = "open"
  /\ conn' = [conn EXCEPT ![c].st = "closed", ![c].asked = {}]
  /\ UNCHANGED <<boot, items, lastSeq, unreported, subscriber, sub, evicted, strayed>>

\* ... and its teardown: unsubscribed, the writer stopped.
TeardownEnds(c) ==
  /\ conn[c].st = "closed"
  /\ conn' = [conn EXCEPT ![c].st = "gone", ![c].q = <<>>]
  /\ subscriber' = IF subscriber = c THEN NoConn ELSE subscriber
  /\ UNCHANGED <<boot, items, lastSeq, unreported, sub, evicted, strayed>>

\* Another boot of the host: nothing of the queue is kept.
HostRestarts ==
  /\ boot < MaxBoot
  /\ boot' = boot + 1
  /\ items' = {} /\ lastSeq' = 0 /\ unreported' = FALSE /\ subscriber' = NoConn
  /\ sub' = [c \in Conns |-> Idle]
  /\ conn' = [c \in Conns |-> IF conn[c].st = "unused" THEN Unused
                              ELSE [Unused EXCEPT !.st = "gone", !.boot = conn[c].boot]]
  /\ UNCHANGED <<evicted, strayed>>
=============================================================================
