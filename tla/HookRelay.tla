------------------------------ MODULE HookRelay ------------------------------
(***************************************************************************)
(* Hooks from a session host to the app (crates/remote/src/host.rs,        *)
(* src-tauri/src/daedalus/host.rs): RemoteHost keeps one link, subscribes  *)
(* after the last acked event, forwards what it has not forwarded yet; the *)
(* app's Relay applies the events in batches, acks each batch, and saves   *)
(* how far it is for its next run.  Links die at either end, the host      *)
(* restarts, and so does the app.                                          *)
(*                                                                         *)
(* A line is taken off the link when RemoteHost's task sees it: the        *)
(* client's own channel in between loses what is in it with the link.      *)
(***************************************************************************)
EXTENDS HookQueue

CONSTANTS MaxAppRuns  \* bound: runs of the app

ASSUME RunsAssumption == MaxAppRuns \in Nat \ {0}

VARIABLES
  task,    \* RemoteHost's run: where it is, and on which connection
  live,    \* Inner::live
  cursor,  \* HookCursor (0: None)
  inbox,   \* the deliveries the Relay has not taken
  relay,   \* Relay::run
  saved,   \* daedalus_connection: boot_id and hook_cursor
  runs,    \* how many times the app started
  done,    \* history: the last event applied in this run of the app
  applied  \* history: <<boot, seq>> of every event applied

relayVars == <<task, live, cursor, inbox, relay, saved, runs, done, applied>>
hookVars == <<queueVars, relayVars>>

\* `after` is what serve took from the cursor for its subscription.
Down == [at |-> "down", conn |-> NoConn, after |-> 0]
On(at, c, after) == [at |-> at, conn |-> c, after |-> after]

\* The relay between batches, in one (`todo` to apply, `acks` for the boots in
\* it), and in an ack: recorded, then sent on a connection.
Waiting == [at |-> "waiting"]
InBatch(todo, acks) == [at |-> "applying", todo |-> todo, acks |-> acks]
Acking(at, acks, c) == [at |-> at, acks |-> acks, conn |-> c]

Nothing == [boot |-> 0, seq |-> 0]

RelayInit ==
  /\ QueueInit
  /\ task = Down
  /\ live = NoConn
  /\ cursor = [boot |-> 0, acked |-> 0, forwarded |-> 0]
  /\ inbox = <<>>
  /\ relay = Waiting
  /\ saved = Nothing
  /\ runs = 1
  /\ done = Nothing
  /\ applied = {}

-----------------------------------------------------------------------------
(***************************************************************************)
(* RemoteHost's link.                                                      *)
(***************************************************************************)

hostSide == <<boot, items, lastSeq, unreported, subscriber, sub, evicted, strayed>>

\* A request goes out (on a link that has ended, nowhere); a line is read.
Asked(k, r) == IF k.st = "open" THEN [k EXCEPT !.asked = @ \cup {r}] ELSE k
LineRead(k) == [k EXCEPT !.q = Tail(@)]
NextIs(c, line) == conn[c].q # <<>> /\ Head(conn[c].q) = line

\* attempt: a link, and hello's answer, which names the boot.
Connects(c) ==
  /\ task = Down
  /\ conn[c].st = "unused"
  /\ conn' = [conn EXCEPT ![c].st = "open", ![c].boot = boot]
  /\ task' = On("greeted", c, 0)
  /\ UNCHANGED <<hostSide, live, cursor, inbox, relay, saved, runs, done, applied>>

\* A mutant of Resumed: what was forwarded taken for acked.
Resumed_AcksForwarded(b) ==
  IF cursor.boot = b THEN [cursor EXCEPT !.acked = cursor.forwarded]
  ELSE [boot |-> b, acked |-> 0, forwarded |-> 0]

\* The cursor for a link to boot b: one of another boot is dropped.
Resumed(b) ==
  IF cursor.boot = b THEN cursor ELSE [boot |-> b, acked |-> 0, forwarded |-> 0]

\* serve: an ack of this boot is sent again before the subscription after it.
ServeBegins(c) ==
  /\ task.at = "greeted" /\ task.conn = c
  /\ cursor' = Resumed(conn[c].boot)
  /\ LET acked == cursor'.acked
     IN IF acked > 0
        THEN /\ conn' = [conn EXCEPT ![c] = Asked(@, AckReq(acked, cursor'.boot, "serve"))]
             /\ task' = On("acking", c, acked)
        ELSE /\ conn' = [conn EXCEPT ![c] = Asked(@, SubscribeReq(0))]
             /\ task' = On("subscribing", c, 0)
  /\ UNCHANGED <<hostSide, live, inbox, relay, saved, runs, done, applied>>

ServeAcked(c) ==
  /\ task.at = "acking" /\ task.conn = c
  /\ NextIs(c, Acked("serve"))
  /\ conn' = [conn EXCEPT ![c] = Asked(LineRead(@), SubscribeReq(task.after))]
  /\ task' = On("subscribing", c, task.after)
  /\ UNCHANGED <<hostSide, live, cursor, inbox, relay, saved, runs, done, applied>>

\* The link is handed out once the subscription is answered.
ServeSubscribed(c) ==
  /\ task.at = "subscribing" /\ task.conn = c
  /\ NextIs(c, Subscribed)
  /\ conn' = [conn EXCEPT ![c] = LineRead(@)]
  /\ task' = On("serving", c, 0)
  /\ live' = c
  /\ UNCHANGED <<hostSide, cursor, inbox, relay, saved, runs, done, applied>>

\* A mutant of Forwards: what the host sends again is forwarded again.
Forwards_Twice(c) ==
  /\ task.at = "serving" /\ task.conn = c
  /\ \E e \in 1..MaxHooks :
       /\ NextIs(c, HookLine(e))
       /\ cursor' = [cursor EXCEPT !.forwarded = e]
       /\ inbox' = Append(inbox, [boot |-> conn[c].boot, seq |-> e])
  /\ conn' = [conn EXCEPT ![c] = LineRead(@)]
  /\ UNCHANGED <<hostSide, task, live, relay, saved, runs, done, applied>>

\* serve's loop: an event already forwarded is not forwarded again.
Forwards(c) ==
  /\ task.at = "serving" /\ task.conn = c
  /\ \E e \in 1..MaxHooks :
       /\ NextIs(c, HookLine(e))
       /\ IF e <= cursor.forwarded
          THEN UNCHANGED <<cursor, inbox>>
          ELSE /\ cursor' = [cursor EXCEPT !.forwarded = e]
               /\ inbox' = Append(inbox, [boot |-> conn[c].boot, seq |-> e])
  /\ conn' = [conn EXCEPT ![c] = LineRead(@)]
  /\ UNCHANGED <<hostSide, task, live, relay, saved, runs, done, applied>>

\* ... and a report of lost events, which the app only logs.
ForwardsDropped(c) ==
  /\ task.at = "serving" /\ task.conn = c
  /\ NextIs(c, DroppedLine)
  /\ conn' = [conn EXCEPT ![c] = LineRead(@)]
  /\ UNCHANGED <<hostSide, relayVars>>

\* RemoteHost lets go of its link, or finds it ended.
LetGo == task' = Down /\ live' = NoConn

LinkEnds ==
  /\ task # Down
  /\ conn[task.conn].st = "gone"
  /\ LetGo
  /\ UNCHANGED <<queueVars, cursor, inbox, relay, saved, runs, done, applied>>

\* The link is lost, or dropped by configure (retry_now).
LinkBreaks ==
  /\ task # Down
  /\ \E c \in Conns : conn[c].st = "unused"  \* bound: the last link stays
  /\ LetGo
  /\ UNCHANGED <<queueVars, cursor, inbox, relay, saved, runs, done, applied>>

-----------------------------------------------------------------------------
(***************************************************************************)
(* The app's relay.                                                        *)
(***************************************************************************)

\* A batch is all that is there (ACK_BATCH is larger than any inbox here).
RelayTakes ==
  /\ relay = Waiting
  /\ inbox # <<>>
  /\ relay' = InBatch(inbox, <<>>)
  /\ inbox' = <<>>
  /\ UNCHANGED <<queueVars, task, live, cursor, saved, runs, done, applied>>

\* Relay::ack's list: the highest seq of each boot.
Merged(acks, d) ==
  IF acks # <<>> /\ Last(acks).boot = d.boot THEN Front(acks) \o <<d>> ELSE Append(acks, d)

\* One event is applied (or refused: either way it is done with).
RelayApplies ==
  /\ relay.at = "applying"
  /\ relay.todo # <<>>
  /\ LET d == Head(relay.todo)
     IN /\ applied' = applied \cup {<<d.boot, d.seq>>}
        /\ done' = d
        /\ relay' = InBatch(Tail(relay.todo), Merged(relay.acks, d))
  /\ UNCHANGED <<queueVars, task, live, cursor, inbox, saved, runs>>

RelayApplied ==
  /\ relay.at = "applying"
  /\ relay.todo = <<>>
  /\ relay' = Acking("record", relay.acks, NoConn)
  /\ UNCHANGED <<queueVars, task, live, cursor, inbox, saved, runs, done, applied>>

\* The next of the batch's acks, or the next batch.
NextAck(acks) == IF Tail(acks) = <<>> THEN Waiting ELSE Acking("record", Tail(acks), NoConn)

\* ack_hooks: refused for a boot the host has left ...
AckRefused ==
  /\ relay.at = "record"
  /\ Head(relay.acks).boot # cursor.boot
  /\ relay' = NextAck(relay.acks)
  /\ UNCHANGED <<queueVars, task, live, cursor, inbox, saved, runs, done, applied>>

\* ... otherwise recorded.
AckRecorded ==
  /\ relay.at = "record"
  /\ Head(relay.acks).boot = cursor.boot
  /\ cursor' = [cursor EXCEPT !.acked = IF Head(relay.acks).seq > @ THEN Head(relay.acks).seq ELSE @]
  /\ relay' = Acking("send", relay.acks, NoConn)
  /\ UNCHANGED <<queueVars, task, live, inbox, saved, runs, done, applied>>

\* The live client is asked for only then, with the cursor's lock released.
AckSent ==
  /\ relay.at = "send"
  /\ IF live = NoConn
     THEN relay' = Acking("save", relay.acks, NoConn) /\ UNCHANGED conn
     ELSE /\ relay' = Acking("sent", relay.acks, live)
          /\ conn' = [conn EXCEPT ![live] =
               Asked(@, AckReq(Head(relay.acks).seq, Head(relay.acks).boot, "relay"))]
  /\ UNCHANGED <<hostSide, task, live, cursor, inbox, saved, runs, done, applied>>

\* Its answer, or the end of its link.
AckAnswered ==
  /\ relay.at = "sent"
  /\ \/ /\ task.conn = relay.conn
        /\ NextIs(relay.conn, Acked("relay"))
        /\ conn' = [conn EXCEPT ![relay.conn] = LineRead(@)]
     \/ task.conn # relay.conn /\ UNCHANGED conn
  /\ relay' = Acking("save", relay.acks, NoConn)
  /\ UNCHANGED <<hostSide, task, live, cursor, inbox, saved, runs, done, applied>>

\* save_cursor.
Saves ==
  /\ relay.at = "save"
  /\ saved' = Head(relay.acks)
  /\ relay' = NextAck(relay.acks)
  /\ UNCHANGED <<queueVars, task, live, cursor, inbox, runs, done, applied>>

\* The app ends, at any point, and starts again from what it saved.
AppRestarts ==
  /\ runs < MaxAppRuns
  /\ runs' = runs + 1
  /\ LetGo
  /\ cursor' = [boot |-> saved.boot, acked |-> saved.seq, forwarded |-> saved.seq]
  /\ inbox' = <<>>
  /\ relay' = Waiting
  /\ done' = Nothing
  /\ UNCHANGED <<queueVars, saved, applied>>

-----------------------------------------------------------------------------
HostSteps == \E c \in Conns : HandlesAck(c) \/ Subscribing(c)

LinkSteps ==
  \E c \in Conns :
    \/ Connects(c) \/ ServeBegins(c) \/ ServeAcked(c) \/ ServeSubscribed(c)
    \/ Forwards(c) \/ ForwardsDropped(c)

RelaySteps ==
  RelayTakes \/ RelayApplies \/ RelayApplied \/ AckRefused \/ AckRecorded \/ AckSent
    \/ AckAnswered \/ Saves

\* A connection the host drops, or its peer has let go of, ends; others need not.
Ends(c) == conn[c].closing \/ task.conn # c

HookNext ==
  \/ /\ \/ \E n \in 0..QueueCap : Push(n)
        \/ HostSteps
        \/ \E c \in Conns : (Ends(c) /\ HostCloses(c)) \/ TeardownEnds(c)
        \/ HostRestarts
     /\ UNCHANGED relayVars
  \/ LinkSteps \/ LinkEnds \/ LinkBreaks
  \/ RelaySteps
  \/ AppRestarts

HookSpec == RelayInit /\ [][HookNext]_hookVars

(***************************************************************************)
(* Every task gets its turn, an ended connection is noticed at both ends,  *)
(* and a link that is down is dialled again (run's loop retries without    *)
(* end).  Nothing is assumed of hooks, of links that break, of restarts.   *)
(***************************************************************************)
HookFairness ==
  /\ \A c \in Conns :
       /\ WF_hookVars(HandlesAck(c) /\ UNCHANGED relayVars)
       /\ WF_hookVars(Subscribing(c) /\ UNCHANGED relayVars)
       /\ WF_hookVars(((Ends(c) /\ HostCloses(c)) \/ TeardownEnds(c)) /\ UNCHANGED relayVars)
  /\ WF_hookVars(LinkSteps)
  /\ WF_hookVars(LinkEnds)
  /\ WF_hookVars(RelaySteps)

FairHookSpec == HookSpec /\ HookFairness
-----------------------------------------------------------------------------
(***************************************************************************)
(* Properties.                                                             *)
(***************************************************************************)

Delivery == [boot : 1..MaxBoot, seq : 1..MaxHooks]

\* Types, and the queue within its count.
HookTypeOK ==
  /\ boot \in 1..MaxBoot
  /\ items \subseteq 1..lastSeq /\ lastSeq \in 0..MaxHooks
  /\ Cardinality(items) <= QueueCap
  /\ {subscriber, live, task.conn} \subseteq Conns \cup {NoConn}
  /\ \A c \in Conns : Len(conn[c].q) <= OutLimit /\ conn[c].boot \in 0..boot
  /\ cursor.boot \in 0..MaxBoot /\ cursor.acked \in 0..MaxHooks /\ cursor.forwarded \in 0..MaxHooks
  /\ \A i \in 1..Len(inbox) : inbox[i] \in Delivery
  /\ saved = Nothing \/ saved \in Delivery
  /\ applied \cup evicted \subseteq (1..MaxBoot) \X (1..MaxHooks)

\* At least once: no event leaves the host's queue but because the app has
\* applied it or newer ones pushed it out, whatever dies in between; unless an
\* ack strayed to another boot (see README).
AckedWasApplied ==
  strayed \/ \A e \in 1..lastSeq : e \in items \/ <<boot, e>> \in applied \cup evicted

\* What was forwarded of a boot and is still to be applied.
InHand == (IF relay.at = "applying" THEN relay.todo ELSE <<>>) \o inbox

\* In order and, within one run of the app, once: what the relay has done and
\* has in hand only ascends, across links and boots.
InOrderOnce ==
  LET all == <<done>> \o InHand
  IN \A i \in 1..Len(all) - 1 :
       \/ all[i].boot < all[i + 1].boot
       \/ all[i].boot = all[i + 1].boot /\ all[i].seq < all[i + 1].seq

\* No gap: of the boot the cursor is in, every event up to the forwarded one
\* was applied, is in hand, or was pushed out of the queue.
ForwardedHasNoGap ==
  strayed \/
    \A e \in 1..cursor.forwarded :
      \/ <<cursor.boot, e>> \in applied \cup evicted
      \/ \E i \in 1..Len(InHand) : InHand[i] = [boot |-> cursor.boot, seq |-> e]

\* The events waiting for the subscriber of a link that lasts are applied in the
\* end, or give way to newer ones.  (MaxHooks ends the pushing.)
SubscriberIsServed ==
  LET waiting == {e \in items : <<boot, e>> \notin applied}
      served == subscriber # NoConn /\ subscriber = task.conn
  IN (served /\ waiting # {}) ~> (~served \/ waiting = {})

\* Violated; see README.  subscribe_hooks: "no event is missed, repeated or
\* reordered": what waits in the queue gets to the app or gives way to newer ones.
EveryHookArrives ==
  \A e \in 1..MaxHooks : (e \in items) ~> (<<boot, e>> \in applied \cup evicted)
=============================================================================
