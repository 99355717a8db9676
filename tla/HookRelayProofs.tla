-------------------------- MODULE HookRelayProofs --------------------------
(***************************************************************************)
(* Proofs about HookRelay, for every number of links, hooks, boots and     *)
(* runs of the app and every limit of the queue.  The invariant has three  *)
(* parts: what everything is (Typed); which links are up, and that what is *)
(* in hand ascends (Linked, Ascending); and, for each place that names an  *)
(* event, what became of the events before it (NothingPassedOver).         *)
(***************************************************************************)
EXTENDS HookRelay, FiniteSetTheorems, WellFoundedInduction, TLAPS

Callers == {"serve", "relay"}
Line ==
  [t : {"hook"}, seq : 1 .. MaxHooks] \cup [t : {"dropped", "subscribed"}]
    \cup [t : {"acked"}, who : Callers]
Request ==
  [t : {"subscribe"}, after : 0 .. MaxHooks]
    \cup [t : {"ack"}, upTo : 0 .. MaxHooks, of : 0 .. MaxBoot, who : Callers]
Link ==
  [st : {"unused", "open", "closed", "gone"}, boot : 0 .. MaxBoot, closing : BOOLEAN,
   q : Seq(Line), asked : SUBSET Request]
Subscription ==
  [at : {"idle"}] \cup [at : {"loop"}, after : 0 .. MaxHooks]
    \cup [at : {"sending"}, chunk : Seq(1 .. MaxHooks), report : BOOLEAN]
TaskState ==
  [at : {"down", "greeted", "acking", "subscribing", "serving"}, conn : Conns \cup {NoConn},
   after : 0 .. MaxHooks]
Cursor == [boot : 0 .. MaxBoot, acked : 0 .. MaxHooks, forwarded : 0 .. MaxHooks]
RelayState ==
  [at : {"waiting"}] \cup [at : {"applying"}, todo : Seq(Delivery), acks : Seq(Delivery)]
    \cup [at : {"record", "send", "sent", "save"}, acks : Seq(Delivery), conn : Conns \cup {NoConn}]

QueueTyped ==
  /\ boot \in 1 .. MaxBoot /\ lastSeq \in 0 .. MaxHooks
  /\ items \in SUBSET (1 .. lastSeq) /\ Cardinality(items) <= QueueCap
  /\ unreported \in BOOLEAN /\ strayed \in BOOLEAN
  /\ subscriber \in Conns \cup {NoConn}
  /\ sub \in [Conns -> Subscription]
  /\ \A c \in Conns : sub[c].at = "sending" => sub[c].chunk # <<>>
  /\ conn \in [Conns -> Link]
  /\ \A c \in Conns : Len(conn[c].q) <= OutLimit
  /\ evicted \in SUBSET ((1 .. MaxBoot) \X (1 .. MaxHooks))
RelayShape ==
  /\ relay \in RelayState
  /\ relay.at = "waiting" => relay = Waiting
  /\ relay.at = "applying" /\ relay.todo = <<>> => relay.acks # <<>>
  /\ relay.at \in {"record", "send", "sent", "save"} => relay.acks # <<>>
  /\ relay.at = "sent" => relay.conn \in Conns
RelayTyped ==
  /\ task \in TaskState /\ (task.at = "down" <=> task.conn = NoConn) /\ (task.at = "down" => task = Down)
  /\ live \in Conns \cup {NoConn}
  /\ cursor \in Cursor
  /\ inbox \in Seq(Delivery) /\ RelayShape
  /\ saved \in Delivery \cup {Nothing} /\ done \in Delivery \cup {Nothing}
  /\ runs \in Nat
  /\ applied \in SUBSET ((1 .. MaxBoot) \X (1 .. MaxHooks))
Typed == QueueTyped /\ RelayTyped

-----------------------------------------------------------------------------
\* What the relay has to ack.
Acks == IF relay.at = "waiting" THEN <<>> ELSE relay.acks

\* A link that was not used carries nothing, one that is up is of the host's boot; no boot is
\* ahead of the host's; and the cursor is of the boot of the link it is served on, or of one
\* before until serve begins.
Linked ==
  /\ \A c \in Conns :
       /\ conn[c].boot <= boot
       /\ conn[c].st = "unused" => conn[c] = Unused /\ sub[c] = Idle /\ subscriber # c /\ task.conn # c
       /\ conn[c].st # "unused" => conn[c].boot >= 1
       /\ conn[c].st = "gone" => conn[c].q = <<>>
       /\ conn[c].st \in {"open", "closed"} => conn[c].boot = boot
  /\ task.at = "greeted" => cursor.boot <= conn[task.conn].boot
  /\ task.at \in {"acking", "subscribing", "serving"} => cursor.boot = conn[task.conn].boot
  /\ cursor.boot <= boot /\ saved.boot <= boot
  /\ \A i \in 1 .. Len(InHand) : InHand[i].boot <= boot
  /\ \A i \in 1 .. Len(Acks) : Acks[i].boot <= boot

\* One event comes before another; and is no later than the cursor.
Before(d, e) == d.boot < e.boot \/ (d.boot = e.boot /\ d.seq < e.seq)
Passed(d) == d.boot < cursor.boot \/ (d.boot = cursor.boot /\ d.seq <= cursor.forwarded)
Ascending ==
  /\ Passed(done)
  /\ \A i \in 1 .. Len(InHand) : Before(done, InHand[i]) /\ Passed(InHand[i])
  /\ \A i, j \in 1 .. Len(InHand) : i < j => Before(InHand[i], InHand[j])

-----------------------------------------------------------------------------
\* The events that have left the queue for good; and those with the app, too.
Settled == applied \cup evicted
Held == {<<InHand[i].boot, InHand[i].seq>> : i \in 1 .. Len(InHand)}
Reached == Settled \cup Held

\* The first n events of boot b are in S.
Upto(S, b, n) == \A e \in 1 .. n : <<b, e>> \in S

\* Among the first n lines of q there is event e.
Carries(q, n, e) == \E i \in 1 .. n : q[i].t = "hook" /\ q[i].seq = e

\* Each event of q comes after those before it, but for the ones in S.
Follows(q, b, S) ==
  \A i \in 1 .. Len(q) : q[i].t = "hook" =>
    \A e \in 1 .. q[i].seq - 1 : <<b, e>> \in S \/ Carries(q, i - 1, e)

\* Whatever is acked, saved, or asked for as acked, has left the queue for good.
AckedIsSettled ==
  /\ Upto(Settled, cursor.boot, cursor.acked)
  /\ Upto(Settled, saved.boot, saved.seq)
  /\ \A i \in 1 .. Len(Acks) : Upto(Settled, Acks[i].boot, Acks[i].seq)
  /\ task.at = "acking" => Upto(Settled, conn[task.conn].boot, task.after)
  /\ \A c \in Conns : \A r \in conn[c].asked :
       /\ r.t = "ack" => Upto(Settled, r.of, r.upTo)
       /\ r.t = "subscribe" => Upto(Settled, conn[c].boot, r.after)

\* What is before an event in hand is settled or in hand before it; what the cursor has
\* passed is reached.
HandFollows ==
  /\ \A i \in 1 .. Len(InHand) : \A e \in 1 .. InHand[i].seq - 1 :
       \/ <<InHand[i].boot, e>> \in Settled
       \/ \E j \in 1 .. i - 1 : InHand[j].boot = InHand[i].boot /\ InHand[j].seq = e
  /\ Upto(Reached, cursor.boot, cursor.forwarded)

QueueKeeps == \A e \in 1 .. lastSeq : e \in items \/ <<boot, e>> \in Settled

\* The first n events have reached the app or are on their way on link c.
Covered(c, n) ==
  \A e \in 1 .. n : <<conn[c].boot, e>> \in Reached \/ Carries(conn[c].q, Len(conn[c].q), e)

\* On the link that is served, what is before an event is reached or comes before it; the
\* subscription knows where it is; and the subscriber gets what comes next.
StreamFollows(c) ==
  /\ Follows(conn[c].q, conn[c].boot, Reached)
  /\ conn[c].st \in {"open", "closed"} =>
       /\ sub[c].at = "loop" => Covered(c, sub[c].after)
       /\ sub[c].at = "sending" =>
            /\ Covered(c, sub[c].chunk[1] - 1)
            /\ \A i \in 2 .. Len(sub[c].chunk) : \A e \in sub[c].chunk[i - 1] + 1 .. sub[c].chunk[i] - 1 :
                 <<boot, e>> \in Settled
       /\ subscriber = c => Covered(c, lastSeq)

NothingPassedOver ==
  ~strayed =>
    /\ AckedIsSettled
    /\ HandFollows
    /\ QueueKeeps
    /\ \A c \in Conns : task.conn = c => StreamFollows(c)
-----------------------------------------------------------------------------
\* The module's operators.

\* What a line, a request, a subscription and an event in hand are made of.
LEMMA LineFacts ==
  /\ \A e \in 1 .. MaxHooks : HookLine(e) \in Line /\ HookLine(e).t = "hook" /\ HookLine(e).seq = e
  /\ DroppedLine \in Line /\ DroppedLine.t = "dropped"
  /\ Subscribed \in Line /\ Subscribed.t = "subscribed"
  /\ \A who \in Callers : Acked(who) \in Line /\ Acked(who).t = "acked"
  /\ \A l \in Line : l.t = "hook" => l.seq \in 1 .. MaxHooks /\ l = HookLine(l.seq)
<1>1. \A l \in Line : l.t = "hook" => l.seq \in 1 .. MaxHooks /\ l = HookLine(l.seq)
  BY DEF Line, HookLine
<1>2. QED
  BY <1>1 DEF Line, HookLine, DroppedLine, Subscribed, Acked

\* What a request is made of.
LEMMA RequestFacts ==
  /\ \A n \in 0 .. MaxHooks : SubscribeReq(n) \in Request /\ SubscribeReq(n).t = "subscribe"
                              /\ SubscribeReq(n).after = n
  /\ \A n \in 0 .. MaxHooks, b \in 0 .. MaxBoot, who \in Callers :
       /\ AckReq(n, b, who) \in Request /\ AckReq(n, b, who).t = "ack"
       /\ AckReq(n, b, who).upTo = n /\ AckReq(n, b, who).of = b
  /\ \A r \in Request : r.t = "ack" => r.upTo \in 0 .. MaxHooks /\ r.of \in 0 .. MaxBoot /\ r.who \in Callers
  /\ \A r \in Request : r.t = "subscribe" => r.after \in 0 .. MaxHooks
<1>1. \A r \in Request : r.t = "ack" => r.upTo \in 0 .. MaxHooks /\ r.of \in 0 .. MaxBoot /\ r.who \in Callers
  BY DEF Request
<1>2. \A r \in Request : r.t = "subscribe" => r.after \in 0 .. MaxHooks
  BY DEF Request
<1>3. QED
  BY <1>1, <1>2 DEF Request, SubscribeReq, AckReq

\* What a subscription under way is made of.
LEMMA SubscriptionFacts ==
  /\ Idle \in Subscription /\ Idle.at = "idle"
  /\ \A n \in 0 .. MaxHooks : Looping(n) \in Subscription /\ Looping(n).at = "loop" /\ Looping(n).after = n
  /\ \A chunk \in Seq(1 .. MaxHooks), r \in BOOLEAN :
       /\ Sending(chunk, r) \in Subscription /\ Sending(chunk, r).at = "sending"
       /\ Sending(chunk, r).chunk = chunk /\ Sending(chunk, r).report = r
  /\ \A s \in Subscription :
       /\ s.at = "loop" => s.after \in 0 .. MaxHooks
       /\ s.at = "sending" => s.chunk \in Seq(1 .. MaxHooks) /\ s.report \in BOOLEAN
<1>1. \A s \in Subscription :
       /\ s.at = "loop" => s.after \in 0 .. MaxHooks
       /\ s.at = "sending" => s.chunk \in Seq(1 .. MaxHooks) /\ s.report \in BOOLEAN
  BY DEF Subscription
<1>2. \A chunk \in Seq(1 .. MaxHooks), r \in BOOLEAN :
       /\ Sending(chunk, r) \in Subscription /\ Sending(chunk, r).at = "sending"
       /\ Sending(chunk, r).chunk = chunk /\ Sending(chunk, r).report = r
  BY DEF Subscription, Sending
<1>3. QED
  BY <1>1, <1>2 DEF Subscription, Idle, Looping

\* What a link is made of.
LEMMA LinkFacts ==
  \A k \in Link :
    /\ k.st \in {"unused", "open", "closed", "gone"} /\ k.boot \in 0 .. MaxBoot
    /\ k.closing \in BOOLEAN /\ k.q \in Seq(Line) /\ k.asked \in SUBSET Request
  BY DEF Link

\* What an event in hand is made of.
LEMMA DeliveryFacts ==
  \A d \in Delivery :
    /\ d.boot \in 1 .. MaxBoot /\ d.seq \in 1 .. MaxHooks /\ d = [boot |-> d.boot, seq |-> d.seq]
  BY DEF Delivery

\* q2 is q with the first m of `lines` behind it.
Grown(q, q2, lines, m) ==
  /\ m \in 0 .. Len(lines) /\ Len(q2) = Len(q) + m
  /\ \A i \in 1 .. Len(q) : q2[i] = q[i]
  /\ \A i \in 1 .. m : q2[Len(q) + i] = lines[i]

\* k2 is k after some of `lines` were sent on it: all of them, if it says so.
Sent(k, k2, lines, ok) ==
  /\ k2 \in Link /\ Len(k2.q) <= OutLimit
  /\ k2.st = k.st /\ k2.boot = k.boot /\ k2.asked = k.asked
  /\ k.st \notin {"open", "closed"} => k2.q = k.q
  /\ \E m \in 0 .. Len(lines) : Grown(k.q, k2.q, lines, m) /\ (ok => m = Len(lines))

\* A sequence over S has its elements in S.
LEMMA SeqFacts ==
  ASSUME NEW S, NEW s \in Seq(S)
  PROVE  Len(s) \in Nat /\ \A i \in 1 .. Len(s) : s[i] \in S
OBVIOUS

\* A sequence's tail is the rest of it.
LEMMA TailFacts ==
  ASSUME NEW S, NEW s \in Seq(S), s # <<>>
  PROVE  /\ Tail(s) \in Seq(S) /\ Len(s) \in Nat /\ Len(s) >= 1 /\ Len(Tail(s)) = Len(s) - 1
         /\ \A i \in 1 .. Len(s) - 1 : Tail(s)[i] = s[i + 1]
         /\ Head(s) = s[1] /\ s[1] \in S
OBVIOUS

\* Two sequences joined have the elements of the one, then those of the other.
LEMMA ConcatFacts ==
  ASSUME NEW S
  PROVE  \A s, t \in Seq(S) : /\ \A i \in 1 .. Len(s) : (s \o t)[i] = s[i]
                              /\ \A i \in 1 .. Len(t) : (s \o t)[Len(s) + i] = t[i]
OBVIOUS

\* The first m elements of a sequence are a sequence of m.
LEMMA PrefixFacts ==
  ASSUME NEW S, NEW s \in Seq(S), NEW m \in 0 .. Len(s)
  PROVE  /\ SubSeq(s, 1, m) \in Seq(S) /\ Len(SubSeq(s, 1, m)) = m
         /\ \A i \in 1 .. m : SubSeq(s, 1, m)[i] = s[i]
OBVIOUS

\* Two sequences joined are as long as both.
LEMMA ConcatLen ==
  ASSUME NEW S, NEW s \in Seq(S), NEW t \in Seq(S)
  PROVE  s \o t \in Seq(S) /\ Len(s \o t) = Len(s) + Len(t)
OBVIOUS

\* Out::send of a run of lines keeps the queue within its limit.
LEMMA RunFacts ==
  ASSUME NEW k \in Link, Len(k.q) <= OutLimit, NEW lines \in Seq(Line)
  PROVE  SendRun(k, lines).ok \in BOOLEAN /\ Sent(k, SendRun(k, lines).k, lines, SendRun(k, lines).ok)
<1> DEFINE ok == Len(lines) <= Room(k)
           m == IF ok THEN Len(lines) ELSE Room(k)
           q2 == k.q \o SubSeq(lines, 1, m)
           k2 == [k EXCEPT !.q = q2, !.closing = @ \/ (~ok /\ k.st # "gone")]
<1>1. k.q \in Seq(Line) /\ Len(k.q) \in Nat /\ Len(lines) \in Nat /\ OutLimit \in Nat
  BY LinkFacts, HookAssumption
<1>2. m \in 0 .. Len(lines) /\ Len(k.q) + m <= OutLimit
  <2>1. Room(k) \in 0 .. OutLimit - Len(k.q)
    BY <1>1 DEF Room
  <2>2. QED
    BY <1>1, <2>1
<1>3. k.st \notin {"open", "closed"} => m = 0
  BY <1>1 DEF Room
<1> HIDE DEF m, ok
<1>4. SubSeq(lines, 1, m) \in Seq(Line) /\ Len(SubSeq(lines, 1, m)) = m
      /\ \A i \in 1 .. m : SubSeq(lines, 1, m)[i] = lines[i]
  BY <1>2, PrefixFacts
<1>5. q2 \in Seq(Line) /\ Grown(k.q, q2, lines, m)
  <2>1. q2 \in Seq(Line) /\ Len(q2) = Len(k.q) + m
    BY <1>1, <1>4, ConcatLen
  <2>2. \A i \in 1 .. Len(k.q) : q2[i] = k.q[i]
    BY <1>1, <1>4, ConcatFacts
  <2>3. \A i \in 1 .. m : q2[Len(k.q) + i] = SubSeq(lines, 1, m)[i]
    BY <1>1, <1>4, ConcatFacts
  <2>4. QED
    BY <1>2, <1>4, <2>1, <2>2, <2>3 DEF Grown
<1>6. m = 0 => q2 = k.q
  BY <1>1, <1>4
<1> HIDE DEF q2
<1>7. /\ k2 \in Link /\ k2.q = q2
      /\ k2.st = k.st /\ k2.boot = k.boot /\ k2.asked = k.asked
  <2>1. k.closing \/ (~ok /\ k.st # "gone") \in BOOLEAN
    BY LinkFacts
  <2>2. QED
    BY <2>1, <1>5 DEF Link
<1>8. Len(q2) = Len(k.q) + m
  BY <1>5 DEF Grown
<1>9. SendRun(k, lines).k = k2 /\ SendRun(k, lines).ok = ok
  BY DEF SendRun, q2, m, ok
<1>10. ok => m = Len(lines)
  BY DEF m
<1>11. ok \in BOOLEAN
  BY DEF ok
<1>12. Sent(k, k2, lines, ok)
  BY <1>2, <1>3, <1>5, <1>6, <1>7, <1>8, <1>10 DEF Sent
<1>13. QED
  BY <1>9, <1>11, <1>12

\* A set of numbers that is not empty has a least one.
LEMMA LeastOf ==
  ASSUME NEW S \in SUBSET Nat, S # {}
  PROVE  \E m \in S : \A y \in S : m <= y
<1>1. PICK m \in S : \A y \in S : ~(<<y, m>> \in OpToRel(<, Nat))
  BY NatLessThanWellFounded, WFMin
<1>2. ASSUME NEW y \in S PROVE m <= y
  <2>0. y \in Nat /\ m \in Nat
    OBVIOUS
  <2>1. <<y, m>> \in Nat \X Nat /\ <<y, m>>[1] = y /\ <<y, m>>[2] = m
    BY <2>0
  <2>2. ~(y < m)
    <3> SUFFICES ASSUME y < m PROVE <<y, m>> \in OpToRel(<, Nat)
      BY <1>1
    <3>1. QED
      BY <2>1 DEF OpToRel
  <2>3. QED
    BY <2>0, <2>2
<1>3. QED
  BY <1>2

\* The n oldest are the first ones, and n if there are so many.
LEMMA OldestFacts ==
  ASSUME NEW s \in SUBSET Nat, IsFiniteSet(s), NEW n \in Nat
  PROVE  /\ Oldest(s, n) \subseteq s
         /\ \A e \in Oldest(s, n), d \in s : d <= e => d \in Oldest(s, n)
         /\ n <= Cardinality(s) => Cardinality(Oldest(s, n)) >= n
         /\ n > 0 /\ s # {} => Oldest(s, n) # {}
<1> DEFINE below(e) == {d \in s : d <= e}
<1>1. \A e \in s : IsFiniteSet(below(e)) /\ Cardinality(below(e)) \in Nat
  BY FS_Subset, FS_CardinalityType
<1>2. \A e, d \in s : d <= e => Cardinality(below(d)) <= Cardinality(below(e))
  <2> SUFFICES ASSUME NEW e \in s, NEW d \in s, d <= e
               PROVE  Cardinality(below(d)) <= Cardinality(below(e))
    OBVIOUS
  <2>1. below(d) \in SUBSET below(e)
    <3> SUFFICES ASSUME NEW x \in s, x <= d PROVE x <= e
      OBVIOUS
    <3>1. x \in Nat /\ d \in Nat /\ e \in Nat
      OBVIOUS
    <3>2. QED
      BY <3>1
  <2>2. QED
    BY <1>1, <2>1, FS_Subset
<1>3. \A e : e \in Oldest(s, n) <=> e \in s /\ Cardinality(below(e)) <= n
  BY DEF Oldest
<1>4. Oldest(s, n) \subseteq s
  BY <1>3
<1>5. IsFiniteSet(Oldest(s, n)) /\ Cardinality(Oldest(s, n)) \in Nat
  BY <1>4, FS_Subset, FS_CardinalityType
<1>6. Cardinality(s) \in Nat
  BY FS_CardinalityType
<1>7. ASSUME s \ Oldest(s, n) # {}
      PROVE  Cardinality(Oldest(s, n)) >= n
  <2>1. PICK m \in s \ Oldest(s, n) : \A y \in s \ Oldest(s, n) : m <= y
    BY <1>7, LeastOf
  <2>2. below(m) \ {m} \in SUBSET Oldest(s, n)
    <3> SUFFICES ASSUME NEW d \in s, d <= m, d # m PROVE d \in Oldest(s, n)
      OBVIOUS
    <3>1. d \in Nat /\ m \in Nat
      BY <2>1
    <3>2. ~(m <= d)
      BY <3>1
    <3>3. QED
      BY <2>1, <3>2
  <2>3. Cardinality(below(m) \ {m}) <= Cardinality(Oldest(s, n))
    BY <2>2, <1>5, FS_Subset
  <2>4. Cardinality(below(m) \ {m}) = Cardinality(below(m)) - 1
    <3>1. m \in below(m) /\ IsFiniteSet(below(m))
      BY <1>1, <2>1
    <3>2. QED
      BY <3>1, FS_RemoveElement
  <2>5. ~(Cardinality(below(m)) <= n)
    BY <1>3, <2>1
  <2>6. Cardinality(below(m)) \in Nat
    BY <1>1, <2>1
  <2> HIDE DEF below
  <2>7. QED
    BY <2>3, <2>4, <2>5, <2>6, <1>5
<1>8. n <= Cardinality(s) => Cardinality(Oldest(s, n)) >= n
  <2>1. CASE s \ Oldest(s, n) # {}
    BY <1>7, <2>1
  <2>2. CASE s \ Oldest(s, n) = {}
    <3>1. Oldest(s, n) = s
      BY <2>2, <1>4
    <3>2. QED
      BY <3>1, <1>6
  <2>3. QED
    BY <2>1, <2>2
<1>9. n > 0 /\ s # {} => Oldest(s, n) # {}
  <2>1. CASE s \ Oldest(s, n) # {}
    <3>1. Cardinality({}) = 0
      BY FS_EmptySet
    <3>2. QED
      BY <3>1, <1>7, <2>1
  <2>2. CASE s \ Oldest(s, n) = {}
    BY <2>2
  <2>3. QED
    BY <2>1, <2>2
<1>10. \A e \in Oldest(s, n), d \in s : d <= e => d \in Oldest(s, n)
  <2> SUFFICES ASSUME NEW e \in Oldest(s, n), NEW d \in s, d <= e PROVE d \in Oldest(s, n)
    OBVIOUS
  <2>1. /\ e \in s /\ Cardinality(below(e)) <= n
        /\ Cardinality(below(d)) <= Cardinality(below(e))
        /\ Cardinality(below(d)) \in Nat /\ Cardinality(below(e)) \in Nat
    BY <1>1, <1>2, <1>3
  <2> HIDE DEF below
  <2>2. QED
    BY <2>1, <1>3
<1>11. QED
  BY <1>4, <1>8, <1>9, <1>10

\* A set in order: all of it, ascending.
LEMMA InOrderFacts ==
  ASSUME NEW s \in SUBSET (1 .. MaxHooks), s # {}, NEW f \in InOrder(s)
  PROVE  /\ f \in Seq(1 .. MaxHooks) /\ f # <<>> /\ Len(f) \in Nat /\ Len(f) >= 1
         /\ \A i \in 1 .. Len(f) : f[i] \in s
         /\ \A i, j \in 1 .. Len(f) : i < j => f[i] < f[j]
         /\ \A e \in s : \E i \in 1 .. Len(f) : f[i] = e
<1>1. IsFiniteSet(s) /\ Cardinality(s) \in Nat
  <2>1. 1 \in Int /\ MaxHooks \in Int
    BY HookAssumption
  <2>2. IsFiniteSet(1 .. MaxHooks)
    BY <2>1, FS_Interval
  <2>3. IsFiniteSet(s)
    BY <2>2, FS_Subset
  <2>4. QED
    BY <2>3, FS_CardinalityType
<1>2. f \in [1 .. Cardinality(s) -> s]
  BY DEF InOrder
<1>3. f \in Seq(s) /\ Len(f) = Cardinality(s)
  BY <1>1, <1>2
<1>4. Cardinality(s) # 0
  BY <1>1, FS_EmptySet
<1>5. /\ \A i \in 1 .. Len(f) : f[i] \in s
      /\ \A i, j \in 1 .. Len(f) : i < j => f[i] < f[j]
      /\ \A e \in s : \E i \in 1 .. Len(f) : f[i] = e
  BY <1>2, <1>3 DEF InOrder
<1>6. f \in Seq(1 .. MaxHooks)
  <2> DEFINE Hooks == 1 .. MaxHooks
  <2>1. s \subseteq Hooks
    OBVIOUS
  <2> HIDE DEF Hooks
  <2>2. f \in [1 .. Cardinality(s) -> Hooks]
    BY <1>2, <2>1
  <2>3. f \in Seq(Hooks)
    BY <1>1, <2>2
  <2>4. QED
    BY <2>3 DEF Hooks
<1>7. QED
  BY <1>1, <1>3, <1>4, <1>5, <1>6

-----------------------------------------------------------------------------
\* What the steps do.

\* Only link c changes, and is still a link; it is where it was, and no request was added.
OnlyLink(c) == conn' \in [Conns -> Link] /\ \A d \in Conns : d # c => conn'[d] = conn[d]

\* Some of `lines` were sent on link c: all of them, if `ok`.
Sends(c, lines, ok) ==
  /\ OnlyLink(c) /\ Len(conn'[c].q) <= OutLimit
  /\ conn'[c].st = conn[c].st /\ conn'[c].boot = conn[c].boot
  /\ conn'[c].asked \subseteq conn[c].asked
  /\ conn[c].st \notin {"open", "closed"} => conn'[c].q = conn[c].q
  /\ \E m \in 0 .. Len(lines) : Grown(conn[c].q, conn'[c].q, lines, m) /\ (ok => m = Len(lines))

\* Replacing one link leaves the others.
LEMMA LinkBecomes ==
  ASSUME QueueTyped, NEW c \in Conns, NEW k \in Link, conn' = [conn EXCEPT ![c] = k]
  PROVE  OnlyLink(c) /\ conn'[c] = k
BY DEF QueueTyped, OnlyLink

\* A run of lines sent on a link adds some of them to its queue, and changes no other.
LEMMA SendsOn ==
  ASSUME QueueTyped, NEW c \in Conns, NEW lines \in Seq(Line), NEW asked \in SUBSET Request,
         asked \subseteq conn[c].asked,
         conn' = [conn EXCEPT ![c] = SendRun([conn[c] EXCEPT !.asked = asked], lines).k]
  PROVE  LET ok == SendRun([conn[c] EXCEPT !.asked = asked], lines).ok
         IN ok \in BOOLEAN /\ Sends(c, lines, ok)
<1>1. conn[c] \in Link /\ Len(conn[c].q) <= OutLimit
  BY DEF QueueTyped
<1>2. PICK old \in Link : old = conn[c]
  BY <1>1
<1>3. PICK k \in Link : k = [old EXCEPT !.asked = asked]
  BY DEF Link
<1>4. k.q = old.q /\ k.st = old.st /\ k.boot = old.boot /\ k.asked = asked
  BY <1>3 DEF Link
<1>5. Len(k.q) <= OutLimit
  BY <1>1, <1>2, <1>4
<1>6. SendRun(k, lines).ok \in BOOLEAN /\ Sent(k, SendRun(k, lines).k, lines, SendRun(k, lines).ok)
  BY <1>5, RunFacts
<1>7. PICK k2 \in Link : k2 = SendRun(k, lines).k
  BY <1>6 DEF Sent
<1>8. Sent(k, k2, lines, SendRun(k, lines).ok)
  BY <1>6, <1>7
<1>9. conn' = [conn EXCEPT ![c] = k2]
  BY <1>2, <1>3, <1>7
<1>10. OnlyLink(c) /\ conn'[c] = k2
  BY <1>9, LinkBecomes
<1>11. Sends(c, lines, SendRun(k, lines).ok)
  BY <1>2, <1>4, <1>8, <1>10 DEF Sends, Sent
<1>12. QED
  BY <1>2, <1>3, <1>6, <1>11

\* notify sends its lines to the subscriber, who stays the subscriber when all of them got through.
LEMMA NotifiedSends ==
  ASSUME QueueTyped, NEW c \in Conns, NEW lines \in Seq(Line), Notified(c, lines)
  PROVE  \E ok \in BOOLEAN : Sends(c, lines, ok) /\ subscriber' = IF ok THEN c ELSE NoConn
<1>1. c # NoConn
  BY HookAssumption
<1>2. conn[c] \in Link /\ Len(conn[c].q) <= OutLimit
  BY DEF QueueTyped
<1>3. CASE lines = <<>>
  <2>1. conn' = conn /\ subscriber' = c
    BY <1>3 DEF Notified
  <2>2. Grown(conn[c].q, conn[c].q, lines, 0) /\ Len(lines) = 0
    BY <1>2, <1>3, LinkFacts DEF Grown
  <2>3. OnlyLink(c)
    BY <2>1 DEF OnlyLink, QueueTyped
  <2>4. Sends(c, lines, TRUE)
    BY <1>2, <2>1, <2>2, <2>3 DEF Sends
  <2>5. QED
    BY <2>1, <2>4
<1>4. CASE lines # <<>>
  <2>1. /\ conn' = [conn EXCEPT ![c] = SendRun(conn[c], lines).k]
        /\ subscriber' = IF SendRun(conn[c], lines).ok THEN c ELSE NoConn
    BY <1>1, <1>4 DEF Notified
  <2>2. PICK asked \in SUBSET Request : asked = conn[c].asked
    BY <1>2, LinkFacts
  <2>3. conn[c] = [conn[c] EXCEPT !.asked = asked]
    BY <1>2, <2>2 DEF Link
  <2>4. conn' = [conn EXCEPT ![c] = SendRun([conn[c] EXCEPT !.asked = asked], lines).k]
    BY <2>1, <2>3
  <2>5. SendRun([conn[c] EXCEPT !.asked = asked], lines).ok \in BOOLEAN
        /\ Sends(c, lines, SendRun([conn[c] EXCEPT !.asked = asked], lines).ok)
    BY <2>2, <2>4, SendsOn
  <2>6. QED
    BY <2>1, <2>3, <2>5
<1>5. QED
  BY <1>3, <1>4

\* The lines of one event are one, or a report of losses and one.
LEMMA ShortRuns ==
  /\ <<>> \in Seq(Line) /\ Len(<<>>) = 0
  /\ \A l \in Line : <<l>> \in Seq(Line) /\ Len(<<l>>) = 1 /\ <<l>>[1] = l /\ <<>> \o <<l>> = <<l>>
  /\ \A k, l \in Line : /\ <<k>> \o <<l>> \in Seq(Line) /\ Len(<<k>> \o <<l>>) = 2
                        /\ (<<k>> \o <<l>>)[1] = k /\ (<<k>> \o <<l>>)[2] = l
<1>1. \A l \in Line : <<l>> \in Seq(Line) /\ Len(<<l>>) = 1 /\ <<l>>[1] = l /\ <<>> \o <<l>> = <<l>>
  OBVIOUS
<1>2. ASSUME NEW k \in Line, NEW l \in Line
      PROVE  /\ <<k>> \o <<l>> \in Seq(Line) /\ Len(<<k>> \o <<l>>) = 2
             /\ (<<k>> \o <<l>>)[1] = k /\ (<<k>> \o <<l>>)[2] = l
  <2>1. PICK s, t \in Seq(Line) : s = <<k>> /\ t = <<l>>
    BY <1>1
  <2>2. Len(s) = 1 /\ Len(t) = 1 /\ s[1] = k /\ t[1] = l
    BY <2>1
  <2>3. s \o t \in Seq(Line) /\ Len(s \o t) = Len(s) + Len(t)
    OBVIOUS
  <2>4. (s \o t)[1] = s[1] /\ (s \o t)[1 + 1] = t[1]
    BY <2>2, ConcatFacts
  <2>5. QED
    BY <2>1, <2>2, <2>3, <2>4
<1>3. QED
  BY <1>1, <1>2

\* What is new to the subscriber: the newest event, after reports at most.
News(lines) ==
  /\ lines \in Seq(Line) /\ Len(lines) \in 1 .. 2
  /\ lines[Len(lines)] = HookLine(lastSeq + 1)
  /\ Len(lines) = 2 => lines[1] = DroppedLine
ToSubscriber ==
  IF subscriber = NoConn THEN subscriber' = NoConn /\ conn' = conn
  ELSE \E lines \in Seq(Line), ok \in BOOLEAN :
         /\ News(lines) /\ Sends(subscriber, lines, ok)
         /\ subscriber' = IF ok THEN subscriber ELSE NoConn

\* HookQueue::push: the new event is held; what is evicted is recorded; the subscriber is told.
LEMMA PushDoes ==
  ASSUME Typed, NEW n \in 0 .. QueueCap, Push(n)
  PROVE  /\ lastSeq' = lastSeq + 1 /\ lastSeq' \in 1 .. MaxHooks
         /\ items' \in SUBSET (1 .. lastSeq') /\ Cardinality(items') <= QueueCap
         /\ lastSeq' \in items' /\ \A e \in items : e \in items' \/ <<boot, e>> \in evicted'
         /\ evicted \subseteq evicted' /\ evicted' \in SUBSET ((1 .. MaxBoot) \X (1 .. MaxHooks))
         /\ unreported' \in BOOLEAN
         /\ ToSubscriber
         /\ UNCHANGED <<boot, sub, strayed>>
<1> DEFINE lost == Oldest(items, n)
           report == (unreported \/ lost # {}) /\ subscriber # NoConn
           lines == (IF report THEN <<DroppedLine>> ELSE <<>>) \o <<HookLine(lastSeq')>>
<1>1. /\ lastSeq < MaxHooks /\ n \in 0 .. Cardinality(items) /\ Cardinality(items) - n < QueueCap
      /\ lastSeq' = lastSeq + 1
      /\ items' = (items \ lost) \cup {lastSeq'}
      /\ evicted' = evicted \cup {<<boot, e>> : e \in lost}
      /\ unreported' = ((unreported \/ lost # {}) /\ ~report)
      /\ Notified(subscriber, lines)
      /\ UNCHANGED <<boot, sub, strayed>>
  BY DEF Push
<1>2. /\ boot \in 1 .. MaxBoot /\ lastSeq \in 0 .. MaxHooks
      /\ items \in SUBSET (1 .. lastSeq) /\ Cardinality(items) <= QueueCap
      /\ evicted \in SUBSET ((1 .. MaxBoot) \X (1 .. MaxHooks))
      /\ subscriber \in Conns \cup {NoConn}
  BY DEF Typed, QueueTyped
<1>3. lastSeq' \in 1 .. MaxHooks
  BY <1>1, <1>2, HookAssumption
<1>4. IsFiniteSet(items) /\ items \in SUBSET Nat
  <2>1. IsFiniteSet(1 .. lastSeq)
    BY <1>2, FS_Interval
  <2>2. items \in SUBSET Nat
    BY <1>2
  <2>3. QED
    BY <1>2, <2>1, <2>2, FS_Subset
<1>5. n \in Nat
  BY HookAssumption
<1>6. lost \subseteq items /\ (n <= Cardinality(items) => Cardinality(lost) >= n)
  BY <1>4, <1>5, OldestFacts
<1>7. Cardinality(items') <= QueueCap
  <2>1. IsFiniteSet(items \ lost) /\ Cardinality(items \ lost) = Cardinality(items) - Cardinality(items \cap lost)
    BY <1>4, FS_Difference
  <2>2. items \cap lost = lost
    BY <1>6
  <2>3. IsFiniteSet(lost) /\ Cardinality(lost) \in Nat /\ Cardinality(items) \in Nat
    BY <1>4, <1>6, FS_Subset, FS_CardinalityType
  <2>4. \A S, x : IsFiniteSet(S) =>
          /\ Cardinality(S) \in Nat /\ Cardinality(S \cup {x}) \in Nat
          /\ Cardinality(S \cup {x}) <= Cardinality(S) + 1
    <3> SUFFICES ASSUME NEW S, NEW x, IsFiniteSet(S)
                 PROVE  /\ Cardinality(S) \in Nat /\ Cardinality(S \cup {x}) \in Nat
                        /\ Cardinality(S \cup {x}) <= Cardinality(S) + 1
      OBVIOUS
    <3>1. Cardinality(S) \in Nat
      BY FS_CardinalityType
    <3>2. Cardinality(S \cup {x}) = IF x \in S THEN Cardinality(S) ELSE Cardinality(S) + 1
      BY FS_AddElement
    <3>3. QED
      BY <3>1, <3>2
  <2>5. /\ Cardinality(items') \in Nat /\ Cardinality(items \ lost) \in Nat
        /\ Cardinality(items') <= Cardinality(items \ lost) + 1
    BY <1>1, <2>1, <2>4
  <2> HIDE DEF lost
  <2>6. Cardinality(items \ lost) = Cardinality(items) - Cardinality(lost)
    BY <2>1, <2>2
  <2>7. n <= Cardinality(items) /\ Cardinality(items) - n < QueueCap
    BY <1>1, <2>3
  <2>8. Cardinality(lost) >= n
    BY <1>6, <2>7
  <2>9. QED
    BY <1>5, <2>3, <2>5, <2>6, <2>7, <2>8, HookAssumption
<1>8. items' \in SUBSET (1 .. lastSeq') /\ lastSeq' \in items'
  <2>1. lastSeq' \in 1 .. lastSeq' /\ \A e \in 1 .. lastSeq : e \in 1 .. lastSeq'
    BY <1>1, <1>2, <1>3
  <2>2. QED
    BY <1>1, <1>2, <1>6, <2>1
<1>9. \A e \in items : e \in items' \/ <<boot, e>> \in evicted'
  BY <1>1
<1>10. evicted' \in SUBSET ((1 .. MaxBoot) \X (1 .. MaxHooks))
  <2>0. \A e \in 1 .. lastSeq : e \in 1 .. MaxHooks
    BY <1>2, HookAssumption
  <2>1. \A e \in lost : <<boot, e>> \in (1 .. MaxBoot) \X (1 .. MaxHooks)
    BY <1>2, <1>6, <2>0
  <2>2. QED
    BY <1>1, <1>2, <2>1
<1>11. unreported' \in BOOLEAN
  BY <1>1
<1> HIDE DEF lost
<1>12. ToSubscriber
  <2>1. News(lines)
    <3>1. DroppedLine \in Line /\ HookLine(lastSeq') \in Line
      BY <1>3, LineFacts
    <3>2. CASE report
      <4>1. lines = <<DroppedLine>> \o <<HookLine(lastSeq')>>
        BY <3>2
      <4> HIDE DEF lines
      <4>2. QED
        BY <1>1, <3>1, <4>1, ShortRuns DEF News
    <3>3. CASE ~report
      <4>1. lines = <<>> \o <<HookLine(lastSeq')>>
        BY <3>3
      <4> HIDE DEF lines
      <4>2. QED
        BY <1>1, <3>1, <4>1, ShortRuns DEF News
    <3>4. QED
      BY <3>2, <3>3
  <2> HIDE DEF lines
  <2>2. CASE subscriber = NoConn
    BY <1>1, <2>2 DEF ToSubscriber, Notified
  <2>3. CASE subscriber # NoConn
    <3>1. PICK ls \in Seq(Line) : ls = lines
      BY <2>1 DEF News
    <3>2. PICK c \in Conns : c = subscriber
      BY <1>2, <2>3
    <3>3. Notified(c, ls)
      BY <1>1, <3>1, <3>2
    <3>4. PICK ok \in BOOLEAN : Sends(c, ls, ok) /\ subscriber' = IF ok THEN c ELSE NoConn
      BY <3>3, NotifiedSends DEF Typed
    <3>5. QED
      BY <2>1, <2>3, <3>1, <3>2, <3>4 DEF ToSubscriber
  <2>4. QED
    BY <2>2, <2>3
<1>13. evicted \subseteq evicted'
  BY <1>1
<1>14. QED
  BY <1>1, <1>3, <1>7, <1>8, <1>9, <1>10, <1>11, <1>12, <1>13

\* HookQueue::ack: what is up to its number leaves the queue, whatever boot it counts in; it is answered.
LEMMA HandlesAckDoes ==
  ASSUME Typed, NEW c \in Conns, HandlesAck(c)
  PROVE  \E r \in conn[c].asked, lines \in Seq(Line), ok \in BOOLEAN :
           /\ r \in Request /\ r.t = "ack"
           /\ items' = {e \in items : e > r.upTo}
           /\ strayed' = (strayed \/ r.of # boot)
           /\ Len(lines) = 1 /\ lines[1].t = "acked" /\ Sends(c, lines, ok)
           /\ UNCHANGED <<boot, lastSeq, unreported, subscriber, sub, evicted>>
<1>1. PICK r \in conn[c].asked :
        /\ r.t = "ack"
        /\ items' = {e \in items : e > r.upTo}
        /\ strayed' = (strayed \/ r.of # boot)
        /\ conn' = [conn EXCEPT ![c] = SendRun([conn[c] EXCEPT !.asked = @ \ {r}], <<Acked(r.who)>>).k]
        /\ UNCHANGED <<boot, lastSeq, unreported, subscriber, sub, evicted>>
  <2>1. PICK r \in conn[c].asked :
          /\ r.t = "ack"
          /\ items' = {e \in items : e > r.upTo}
          /\ strayed' = (strayed \/ r.of # boot)
          /\ conn' = [conn EXCEPT ![c] = SendOne([conn[c] EXCEPT !.asked = @ \ {r}], Acked(r.who))]
          /\ UNCHANGED <<boot, lastSeq, unreported, subscriber, sub, evicted>>
    BY DEF HandlesAck
  <2>2. QED
    BY <2>1 DEF SendOne
<1>2. conn[c] \in Link /\ conn[c].asked \in SUBSET Request
  BY LinkFacts DEF Typed, QueueTyped
<1>3. r \in Request /\ r.who \in Callers
  BY <1>1, <1>2, RequestFacts
<1>4. PICK asked \in SUBSET Request : asked = conn[c].asked \ {r}
  BY <1>2
<1>0. Acked(r.who) \in Line /\ Acked(r.who).t = "acked"
  BY <1>3, LineFacts
<1>5. PICK lines \in Seq(Line) : lines = <<Acked(r.who)>>
  BY <1>0, ShortRuns
<1>6. conn' = [conn EXCEPT ![c] = SendRun([conn[c] EXCEPT !.asked = asked], lines).k]
  BY SMTT(30), <1>1, <1>4, <1>5
<1>7. PICK ok \in BOOLEAN : Sends(c, lines, ok)
  BY <1>4, <1>6, SendsOn DEF Typed
<1>8. Len(lines) = 1 /\ lines[1].t = "acked"
  BY <1>0, <1>5, ShortRuns
<1>9. QED
  BY <1>1, <1>3, <1>7, <1>8

\* subscribe_hooks begins where the client asks, with no one's place taken yet.
LEMMA HandlesSubscribeDoes ==
  ASSUME Typed, NEW c \in Conns, HandlesSubscribe(c)
  PROVE  \E r \in conn[c].asked, lines \in Seq(Line), ok \in BOOLEAN :
           /\ r \in Request /\ r.t = "subscribe" /\ r.after \in 0 .. MaxHooks
           /\ Len(lines) = 1 /\ lines[1].t = "subscribed" /\ Sends(c, lines, ok)
           /\ sub' = [sub EXCEPT ![c] = IF ok THEN Looping(r.after) ELSE Idle]
           /\ UNCHANGED <<boot, items, lastSeq, unreported, subscriber, evicted, strayed>>
<1>1. PICK r \in conn[c].asked :
        /\ r.t = "subscribe"
        /\ LET s == SendRun([conn[c] EXCEPT !.asked = @ \ {r}], <<Subscribed>>)
           IN /\ conn' = [conn EXCEPT ![c] = s.k]
              /\ sub' = [sub EXCEPT ![c] = IF s.ok THEN Looping(r.after) ELSE Idle]
        /\ UNCHANGED <<boot, items, lastSeq, unreported, subscriber, evicted, strayed>>
  BY DEF HandlesSubscribe
<1>2. conn[c] \in Link /\ conn[c].asked \in SUBSET Request
  BY LinkFacts DEF Typed, QueueTyped
<1>3. r \in Request /\ r.after \in 0 .. MaxHooks
  BY <1>1, <1>2, RequestFacts
<1>4. PICK asked \in SUBSET Request : asked = conn[c].asked \ {r}
  BY <1>2
<1>0. Subscribed \in Line /\ Subscribed.t = "subscribed"
  BY LineFacts
<1>5. PICK lines \in Seq(Line) : lines = <<Subscribed>>
  BY <1>0, ShortRuns
<1>6. conn' = [conn EXCEPT ![c] = SendRun([conn[c] EXCEPT !.asked = asked], lines).k]
  BY SMTT(30), <1>1, <1>4, <1>5
<1>7. PICK ok \in BOOLEAN :
        ok = SendRun([conn[c] EXCEPT !.asked = asked], lines).ok /\ Sends(c, lines, ok)
  BY <1>4, <1>6, SendsOn DEF Typed
<1>8. Len(lines) = 1 /\ lines[1].t = "subscribed"
  BY <1>0, <1>5, ShortRuns
<1>9. sub' = [sub EXCEPT ![c] = IF ok THEN Looping(r.after) ELSE Idle]
  BY <1>1, <1>4, <1>5, <1>7
<1>10. Sends(c, lines, ok)
  BY <1>7
<1>11. r.t = "subscribe" /\ UNCHANGED <<boot, items, lastSeq, unreported, subscriber, evicted, strayed>>
  BY <1>1
<1>12. QED
  BY <1>3, <1>8, <1>9, <1>10, <1>11

\* A backlog with nothing left makes its connection the subscriber.
LEMMA BacklogEndsDoes ==
  ASSUME Typed, NEW c \in Conns, BacklogEnds(c)
  PROVE  \E lines \in Seq(Line), ok \in BOOLEAN :
           /\ sub[c].at = "loop" /\ Due(sub[c].after) = {}
           /\ sub' = [sub EXCEPT ![c] = Idle] /\ unreported' = FALSE
           /\ \A i \in 1 .. Len(lines) : lines[i].t = "dropped"
           /\ Sends(c, lines, ok) /\ subscriber' = IF ok THEN c ELSE NoConn
           /\ UNCHANGED <<boot, items, lastSeq, evicted, strayed>>
<1> DEFINE ls == IF unreported THEN <<DroppedLine>> ELSE <<>>
<1>1. /\ sub[c].at = "loop" /\ Due(sub[c].after) = {}
      /\ sub' = [sub EXCEPT ![c] = Idle] /\ unreported' = FALSE
      /\ UNCHANGED <<boot, items, lastSeq, evicted, strayed>>
  BY DEF BacklogEnds
<1>2. Notified(c, ls)
  BY DEF BacklogEnds
<1>3. ls \in Seq(Line) /\ \A i \in 1 .. Len(ls) : ls[i].t = "dropped"
  <2>1. CASE unreported
    BY <2>1, LineFacts, ShortRuns
  <2>2. CASE ~unreported
    BY <2>2, LineFacts, ShortRuns
  <2>3. QED
    BY <2>1, <2>2
<1> HIDE DEF ls
<1>4. PICK lines \in Seq(Line) : lines = ls
  BY <1>3
<1>5. PICK ok \in BOOLEAN : Sends(c, lines, ok) /\ subscriber' = IF ok THEN c ELSE NoConn
  BY <1>2, <1>4, NotifiedSends DEF Typed
<1>6. QED
  BY <1>1, <1>3, <1>4, <1>5

\* A chunk is ascending, due, and what is due before its last event is in it.
Chunk(c, chunk) ==
  /\ chunk \in Seq(1 .. MaxHooks) /\ Len(chunk) \in Nat /\ Len(chunk) >= 1 /\ chunk # <<>>
  /\ \A i \in 1 .. Len(chunk) : chunk[i] \in Due(sub[c].after)
  /\ \A i, j \in 1 .. Len(chunk) : i < j => chunk[i] < chunk[j]
  /\ \A i \in 1 .. Len(chunk), e \in Due(sub[c].after) :
       e <= chunk[i] => \E j \in 1 .. Len(chunk) : chunk[j] = e

\* A backlog takes the oldest held events after where it is, in order.
LEMMA BacklogTakesDoes ==
  ASSUME Typed, NEW c \in Conns, BacklogTakes(c)
  PROVE  \E chunk \in Seq(1 .. MaxHooks) :
           /\ Chunk(c, chunk)
           /\ sub[c].at = "loop" /\ sub' = [sub EXCEPT ![c] = Sending(chunk, unreported)]
           /\ unreported' = FALSE
           /\ UNCHANGED <<boot, items, lastSeq, subscriber, conn, evicted, strayed>>
<1>1. /\ sub[c].at = "loop" /\ Due(sub[c].after) # {} /\ unreported' = FALSE
      /\ UNCHANGED <<boot, items, lastSeq, subscriber, conn, evicted, strayed>>
  BY DEF BacklogTakes
<1>2. PICK f \in InOrder(Oldest(Due(sub[c].after), Backlog)) :
        sub' = [sub EXCEPT ![c] = Sending(f, unreported)]
  BY DEF BacklogTakes
<1>3. PICK due \in SUBSET (1 .. MaxHooks) : due = Due(sub[c].after)
  <2>1. \A e \in 1 .. lastSeq : e \in 1 .. MaxHooks
    BY HookAssumption DEF Typed, QueueTyped
  <2>2. QED
    BY <2>1 DEF Typed, QueueTyped, Due
<1>4. IsFiniteSet(due) /\ due \in SUBSET Nat /\ due # {}
  <2>1. IsFiniteSet(1 .. MaxHooks)
    BY FS_Interval, HookAssumption
  <2>2. due \in SUBSET Nat /\ due # {}
    BY <1>1, <1>3
  <2>3. QED
    BY <2>1, <2>2, FS_Subset
<1>5. Backlog \in Nat /\ Backlog > 0
  BY HookAssumption
<1>6. /\ Oldest(due, Backlog) \subseteq due /\ Oldest(due, Backlog) # {}
      /\ \A e \in Oldest(due, Backlog), d \in due : d <= e => d \in Oldest(due, Backlog)
  BY <1>4, <1>5, OldestFacts
<1>7. PICK s \in SUBSET (1 .. MaxHooks) : s = Oldest(due, Backlog)
  BY <1>6
<1>8. f \in InOrder(s) /\ s # {}
  BY <1>2, <1>3, <1>6, <1>7
<1>9. /\ f \in Seq(1 .. MaxHooks) /\ f # <<>> /\ Len(f) \in Nat /\ Len(f) >= 1
      /\ \A i \in 1 .. Len(f) : f[i] \in s
      /\ \A i, j \in 1 .. Len(f) : i < j => f[i] < f[j]
      /\ \A e \in s : \E i \in 1 .. Len(f) : f[i] = e
  BY <1>8, InOrderFacts
<1>10. \A i \in 1 .. Len(f) : f[i] \in due
  BY <1>6, <1>7, <1>9
<1>11. \A i \in 1 .. Len(f), e \in due : e <= f[i] => \E j \in 1 .. Len(f) : f[j] = e
  <2> SUFFICES ASSUME NEW i \in 1 .. Len(f), NEW e \in due, e <= f[i] PROVE e \in s
    BY <1>9
  <2>1. QED
    BY <1>6, <1>7, <1>9
<1>12. Chunk(c, f)
  BY <1>3, <1>9, <1>10, <1>11 DEF Chunk
<1>13. QED
  BY <1>1, <1>2, <1>9, <1>12

\* The lines of a chunk: a report at most, then its events.
ChunkLines(c, lines, n) ==
  /\ n \in 0 .. 1 /\ Len(lines) = n + Len(sub[c].chunk)
  /\ \A i \in 1 .. Len(sub[c].chunk) : lines[n + i] = HookLine(sub[c].chunk[i])
  /\ n = 1 => lines[1] = DroppedLine

\* A backlog sends what it took and goes on after it, or ends with the link.
LEMMA BacklogSendsDoes ==
  ASSUME Typed, NEW c \in Conns, BacklogSends(c)
  PROVE  \E lines \in Seq(Line), n \in 0 .. 1, ok \in BOOLEAN :
           /\ sub[c].at = "sending" /\ ChunkLines(c, lines, n)
           /\ Sends(c, lines, ok)
           /\ sub' = [sub EXCEPT ![c] = IF ok THEN Looping(sub[c].chunk[Len(sub[c].chunk)]) ELSE Idle]
           /\ UNCHANGED <<boot, items, lastSeq, unreported, subscriber, evicted, strayed>>
<1> DEFINE head == IF sub[c].report THEN <<DroppedLine>> ELSE <<>>
           hooks == [i \in 1 .. Len(sub[c].chunk) |-> HookLine(sub[c].chunk[i])]
           ls == head \o hooks
<1>1. /\ sub[c].at = "sending"
      /\ LET s == SendRun(conn[c], ls)
         IN /\ conn' = [conn EXCEPT ![c] = s.k]
            /\ sub' = [sub EXCEPT ![c] = IF s.ok THEN Looping(Last(sub[c].chunk)) ELSE Idle]
      /\ UNCHANGED <<boot, items, lastSeq, unreported, subscriber, evicted, strayed>>
  BY DEF BacklogSends
<1>2. PICK chunk \in Seq(1 .. MaxHooks) : chunk = sub[c].chunk
  BY <1>1, SubscriptionFacts DEF Typed, QueueTyped
<1>3. Len(chunk) \in Nat /\ \A i \in 1 .. Len(chunk) : HookLine(chunk[i]) \in Line
  <2>1. Len(chunk) \in Nat /\ \A i \in 1 .. Len(chunk) : chunk[i] \in 1 .. MaxHooks
    BY SeqFacts
  <2>2. QED
    BY <2>1, LineFacts
<1>4. /\ hooks \in Seq(Line) /\ Len(hooks) = Len(chunk)
      /\ \A i \in 1 .. Len(chunk) : hooks[i] = HookLine(chunk[i])
  BY <1>2, <1>3
<1>5. PICK n \in 0 .. 1 : n = IF sub[c].report THEN 1 ELSE 0
  OBVIOUS
<1>6. head \in Seq(Line) /\ Len(head) = n /\ (n = 1 => head[1] = DroppedLine)
  <2>1. CASE sub[c].report
    BY <1>5, <2>1, LineFacts, ShortRuns
  <2>2. CASE ~sub[c].report
    BY <1>5, <2>2, ShortRuns
  <2>3. QED
    BY <2>1, <2>2
<1> HIDE DEF head, hooks
<1>7. ls \in Seq(Line) /\ Len(ls) = n + Len(chunk)
  BY <1>4, <1>6
<1>8. /\ \A i \in 1 .. Len(head) : ls[i] = head[i]
      /\ \A i \in 1 .. Len(hooks) : ls[Len(head) + i] = hooks[i]
  BY <1>4, <1>6, ConcatFacts
<1> HIDE DEF ls
<1>9. PICK lines \in Seq(Line) : lines = ls
  BY <1>7
<1>10. ChunkLines(c, lines, n)
  BY <1>2, <1>4, <1>6, <1>7, <1>8, <1>9 DEF ChunkLines
<1>11. conn[c] \in Link
  BY DEF Typed, QueueTyped
<1>12. PICK asked \in SUBSET Request : asked = conn[c].asked
  BY <1>11, LinkFacts
<1>13. conn[c] = [conn[c] EXCEPT !.asked = asked]
  BY <1>11, <1>12 DEF Link
<1>14. conn' = [conn EXCEPT ![c] = SendRun([conn[c] EXCEPT !.asked = asked], lines).k]
  BY <1>1, <1>9, <1>13
<1>15. PICK ok \in BOOLEAN :
         ok = SendRun([conn[c] EXCEPT !.asked = asked], lines).ok /\ Sends(c, lines, ok)
  BY <1>12, <1>14, SendsOn DEF Typed
<1>16. sub' = [sub EXCEPT ![c] = IF ok THEN Looping(sub[c].chunk[Len(sub[c].chunk)]) ELSE Idle]
  BY <1>1, <1>9, <1>13, <1>15 DEF Last
<1>17. Sends(c, lines, ok)
  BY <1>15
<1>18. sub[c].at = "sending" /\ UNCHANGED <<boot, items, lastSeq, unreported, subscriber, evicted, strayed>>
  BY <1>1
<1>19. QED
  BY <1>10, <1>16, <1>17, <1>18

\* A request more on a link changes what is asked there, if it is open, and nothing else.
LEMMA AskedFacts ==
  ASSUME NEW k \in Link, NEW r \in Request
  PROVE  /\ Asked(k, r) \in Link
         /\ Asked(k, r).st = k.st /\ Asked(k, r).boot = k.boot /\ Asked(k, r).q = k.q
         /\ Asked(k, r).asked \subseteq k.asked \cup {r}
         /\ k.st # "open" => Asked(k, r) = k
<1>1. CASE k.st = "open"
  <2>1. PICK asked \in SUBSET Request : asked = k.asked \cup {r}
    BY LinkFacts
  <2>2. Asked(k, r) = [k EXCEPT !.asked = asked]
    BY <1>1, <2>1 DEF Asked
  <2>3. QED
    BY <1>1, <2>1, <2>2 DEF Link
<1>2. CASE k.st # "open"
  BY <1>2 DEF Asked
<1>3. QED
  BY <1>1, <1>2

\* A line read is the first of the queue, and leaves the rest.
LEMMA LineReadFacts ==
  ASSUME NEW k \in Link, k.q # <<>>
  PROVE  /\ LineRead(k) \in Link
         /\ LineRead(k).st = k.st /\ LineRead(k).boot = k.boot /\ LineRead(k).asked = k.asked
         /\ LineRead(k).q = Tail(k.q) /\ Len(Tail(k.q)) < Len(k.q)
<1>1. k.q \in Seq(Line)
  BY LinkFacts
<1>2. PICK q2 \in Seq(Line) : q2 = Tail(k.q) /\ Len(q2) < Len(k.q)
  <2>1. PICK q \in Seq(Line) : q = k.q
    BY <1>1
  <2>2. Tail(q) \in Seq(Line) /\ Len(Tail(q)) < Len(q)
    BY <2>1, TailFacts
  <2>3. QED
    BY <2>1, <2>2
<1>3. LineRead(k) = [k EXCEPT !.q = q2]
  BY <1>2 DEF LineRead
<1>4. QED
  BY <1>2, <1>3 DEF Link

\* Requests were asked on link c (none if it has ended), and a line was read off it or not.
Asks(c, reqs) ==
  /\ OnlyLink(c) /\ Len(conn'[c].q) <= OutLimit
  /\ conn'[c].st = conn[c].st /\ conn'[c].boot = conn[c].boot
  /\ conn'[c].asked \subseteq conn[c].asked \cup reqs
  /\ conn[c].st # "open" => conn'[c].asked = conn[c].asked
  /\ conn[c].st # "open" /\ conn'[c].q = conn[c].q => conn'[c] = conn[c]
Reads(c) == conn[c].q # <<>> /\ conn'[c].q = Tail(conn[c].q)

\* A task that asks adds its request to one link.
LEMMA AsksOn ==
  ASSUME QueueTyped, NEW c \in Conns, NEW r \in Request, conn' = [conn EXCEPT ![c] = Asked(conn[c], r)]
  PROVE  Asks(c, {r}) /\ conn'[c].q = conn[c].q
<1>1. PICK k \in Link : k = conn[c] /\ Len(k.q) <= OutLimit
  BY DEF QueueTyped
<1>2. PICK k2 \in Link : k2 = Asked(k, r)
  BY AskedFacts
<1>3. OnlyLink(c) /\ conn'[c] = k2
  BY <1>1, <1>2, LinkBecomes
<1>4. /\ k2.st = k.st /\ k2.boot = k.boot /\ k2.q = k.q /\ k2.asked \subseteq k.asked \cup {r}
      /\ k.st # "open" => k2 = k
  BY <1>2, AskedFacts
<1>5. QED
  BY <1>1, <1>3, <1>4 DEF Asks

\* A task that reads takes one line off one link.
LEMMA ReadsOff ==
  ASSUME QueueTyped, NEW c \in Conns, conn[c].q # <<>>, conn' = [conn EXCEPT ![c] = LineRead(conn[c])]
  PROVE  Asks(c, {}) /\ Reads(c)
<1>1. PICK k \in Link : k = conn[c] /\ Len(k.q) <= OutLimit
  BY DEF QueueTyped
<1>2. PICK k2 \in Link : k2 = LineRead(k)
  BY <1>1, LineReadFacts
<1>3. OnlyLink(c) /\ conn'[c] = k2
  BY <1>1, <1>2, LinkBecomes
<1>4. /\ k2.st = k.st /\ k2.boot = k.boot /\ k2.asked = k.asked /\ k2.q = Tail(k.q) /\ Len(k2.q) < Len(k.q)
  BY <1>1, <1>2, LineReadFacts
<1>5. Len(k.q) \in Nat /\ Len(k2.q) \in Nat
  BY LinkFacts
<1>6. k2.q # k.q
  <2>1. Len(k2.q) # Len(k.q)
    BY <1>4, <1>5
  <2>2. QED
    BY <2>1
<1>7. Len(k2.q) <= OutLimit
  BY <1>1, <1>4, <1>5, HookAssumption
<1>8. QED
  BY <1>1, <1>3, <1>4, <1>6, <1>7 DEF Asks, Reads

\* A task may do both in one step.
LEMMA ReadsAndAsks ==
  ASSUME QueueTyped, NEW c \in Conns, NEW r \in Request, conn[c].q # <<>>,
         conn' = [conn EXCEPT ![c] = Asked(LineRead(conn[c]), r)]
  PROVE  Asks(c, {r}) /\ Reads(c)
<1>1. PICK k \in Link : k = conn[c] /\ Len(k.q) <= OutLimit
  BY DEF QueueTyped
<1>2. PICK k1 \in Link : k1 = LineRead(k)
  BY <1>1, LineReadFacts
<1>3. PICK k2 \in Link : k2 = Asked(k1, r)
  BY AskedFacts
<1>4. OnlyLink(c) /\ conn'[c] = k2
  BY <1>1, <1>2, <1>3, LinkBecomes
<1>5. /\ k1.st = k.st /\ k1.boot = k.boot /\ k1.asked = k.asked /\ k1.q = Tail(k.q) /\ Len(k1.q) < Len(k.q)
  BY <1>1, <1>2, LineReadFacts
<1>6. /\ k2.st = k1.st /\ k2.boot = k1.boot /\ k2.q = k1.q /\ k2.asked \subseteq k1.asked \cup {r}
      /\ k1.st # "open" => k2 = k1
  BY <1>3, AskedFacts
<1>7. Len(k.q) \in Nat /\ Len(k2.q) \in Nat
  BY LinkFacts
<1>8. k2.q # k.q
  <2>1. Len(k2.q) # Len(k.q)
    BY <1>5, <1>6, <1>7
  <2>2. QED
    BY <2>1
<1>9. Len(k2.q) <= OutLimit
  BY <1>1, <1>5, <1>6, <1>7, HookAssumption
<1>10. QED
  BY <1>1, <1>4, <1>5, <1>6, <1>8, <1>9 DEF Asks, Reads

\* The next line of link c is one of kind `t`.
Next1(c, t) == conn[c].q # <<>> /\ conn[c].q[1].t = t

\* A link's next line, when a task can read one.
LEMMA NextIsFacts ==
  ASSUME QueueTyped, NEW c \in Conns, NEW l \in Line, NextIs(c, l)
  PROVE  Next1(c, l.t) /\ conn[c].q[1] = l
<1>1. PICK q \in Seq(Line) : q = conn[c].q
  BY LinkFacts DEF QueueTyped
<1>2. q # <<>> /\ Head(q) = l
  BY <1>1 DEF NextIs
<1>3. Head(q) = q[1]
  BY <1>2, TailFacts
<1>4. QED
  BY <1>1, <1>2, <1>3 DEF Next1

\* attempt takes a link nobody used, of the host's boot.
LEMMA ConnectsDoes ==
  ASSUME Typed, NEW c \in Conns, Connects(c)
  PROVE  /\ task = Down /\ conn[c].st = "unused" /\ OnlyLink(c)
         /\ conn'[c].st = "open" /\ conn'[c].boot = boot /\ conn'[c].q = conn[c].q
         /\ conn'[c].asked = conn[c].asked
         /\ task' = On("greeted", c, 0)
         /\ UNCHANGED <<hostSide, live, cursor, inbox, relay, saved, runs, done, applied>>
<1>1. /\ task = Down /\ conn[c].st = "unused"
      /\ conn' = [conn EXCEPT ![c].st = "open", ![c].boot = boot]
      /\ task' = On("greeted", c, 0)
      /\ UNCHANGED <<hostSide, live, cursor, inbox, relay, saved, runs, done, applied>>
  BY DEF Connects
<1>2. PICK old \in Link : old = conn[c]
  BY DEF Typed, QueueTyped
<1>3. PICK b \in 0 .. MaxBoot : b = boot
  BY HookAssumption DEF Typed, QueueTyped
<1>4. PICK k \in Link : k = [old EXCEPT !.st = "open", !.boot = b]
  BY DEF Link
<1>5. k.st = "open" /\ k.boot = b /\ k.q = old.q /\ k.asked = old.asked
  BY <1>4 DEF Link
<1>6. conn' = [conn EXCEPT ![c] = k]
  BY <1>1, <1>2, <1>3, <1>4 DEF Typed, QueueTyped
<1>7. OnlyLink(c) /\ conn'[c] = k
  BY <1>6, LinkBecomes DEF Typed
<1>8. QED
  BY <1>1, <1>2, <1>3, <1>5, <1>7

\* The cursor serve resumes from: the one there is for the same boot, an empty one for another.
LEMMA ResumedFacts ==
  ASSUME RelayTyped, NEW b \in 0 .. MaxBoot
  PROVE  /\ Resumed(b) \in Cursor /\ Resumed(b).boot = b
         /\ Resumed(b).acked \in 0 .. MaxHooks /\ Resumed(b).forwarded \in 0 .. MaxHooks
         /\ cursor.boot = b => Resumed(b) = cursor
         /\ cursor.boot # b => Resumed(b).acked = 0 /\ Resumed(b).forwarded = 0
BY HookAssumption DEF RelayTyped, Cursor, Resumed

\* serve takes the cursor of its boot, and asks for an ack or for everything.
LEMMA ServeBeginsDoes ==
  ASSUME Typed, NEW c \in Conns, ServeBegins(c)
  PROVE  /\ task.at = "greeted" /\ task.conn = c
         /\ cursor' = Resumed(conn[c].boot)
         /\ \E r \in Request :
              /\ Asks(c, {r}) /\ conn'[c].q = conn[c].q
              /\ \/ r = AckReq(cursor'.acked, cursor'.boot, "serve") /\ task' = On("acking", c, cursor'.acked)
                 \/ r = SubscribeReq(0) /\ task' = On("subscribing", c, 0)
         /\ UNCHANGED <<hostSide, live, inbox, relay, saved, runs, done, applied>>
<1>1. /\ task.at = "greeted" /\ task.conn = c
      /\ cursor' = Resumed(conn[c].boot)
      /\ UNCHANGED <<hostSide, live, inbox, relay, saved, runs, done, applied>>
  BY DEF ServeBegins
<1>2. PICK b \in 0 .. MaxBoot : b = conn[c].boot
  BY LinkFacts DEF Typed, QueueTyped
<1>3. PICK n \in 0 .. MaxHooks : n = cursor'.acked
  BY <1>1, <1>2, ResumedFacts DEF Typed
<1>4. cursor'.boot = b
  BY <1>1, <1>2, ResumedFacts DEF Typed
<1>5. CASE n > 0
  <2>1. PICK r \in Request : r = AckReq(n, b, "serve")
    BY RequestFacts DEF Callers
  <2>2. conn' = [conn EXCEPT ![c] = Asked(conn[c], r)] /\ task' = On("acking", c, n)
    BY <1>3, <1>4, <1>5, <2>1 DEF ServeBegins
  <2>3. Asks(c, {r}) /\ conn'[c].q = conn[c].q
    BY <2>2, AsksOn DEF Typed
  <2>4. QED
    BY <1>1, <1>3, <1>4, <2>1, <2>2, <2>3
<1>6. CASE ~(n > 0)
  <2>1. PICK r \in Request : r = SubscribeReq(0)
    BY RequestFacts, HookAssumption
  <2>2. conn' = [conn EXCEPT ![c] = Asked(conn[c], r)] /\ task' = On("subscribing", c, 0)
    BY <1>3, <1>6, <2>1 DEF ServeBegins
  <2>3. Asks(c, {r}) /\ conn'[c].q = conn[c].q
    BY <2>2, AsksOn DEF Typed
  <2>4. QED
    BY <1>1, <2>1, <2>2, <2>3
<1>7. QED
  BY <1>5, <1>6

\* serve's ack was answered, and it subscribes.
LEMMA ServeAckedDoes ==
  ASSUME Typed, NEW c \in Conns, ServeAcked(c)
  PROVE  /\ task.at = "acking" /\ task.conn = c /\ Next1(c, "acked")
         /\ \E r \in Request : r = SubscribeReq(task.after) /\ Asks(c, {r}) /\ Reads(c)
         /\ task' = On("subscribing", c, task.after)
         /\ UNCHANGED <<hostSide, live, cursor, inbox, relay, saved, runs, done, applied>>
<1>1. /\ task.at = "acking" /\ task.conn = c
      /\ NextIs(c, Acked("serve"))
      /\ conn' = [conn EXCEPT ![c] = Asked(LineRead(conn[c]), SubscribeReq(task.after))]
      /\ task' = On("subscribing", c, task.after)
      /\ UNCHANGED <<hostSide, live, cursor, inbox, relay, saved, runs, done, applied>>
  BY DEF ServeAcked
<1>2. PICK l \in Line : l = Acked("serve") /\ l.t = "acked"
  BY LineFacts DEF Callers
<1>3. Next1(c, "acked")
  BY <1>1, <1>2, NextIsFacts DEF Typed
<1>4. task.after \in 0 .. MaxHooks
  BY DEF Typed, RelayTyped, TaskState
<1>5. PICK r \in Request : r = SubscribeReq(task.after)
  BY <1>4, RequestFacts
<1>6. conn[c].q # <<>> /\ conn' = [conn EXCEPT ![c] = Asked(LineRead(conn[c]), r)]
  BY <1>1, <1>3, <1>5 DEF Next1
<1>7. Asks(c, {r}) /\ Reads(c)
  BY <1>6, ReadsAndAsks DEF Typed
<1>8. QED
  BY <1>1, <1>3, <1>5, <1>7

\* serve's subscription was answered, and the link is live.
LEMMA ServeSubscribedDoes ==
  ASSUME Typed, NEW c \in Conns, ServeSubscribed(c)
  PROVE  /\ task.at = "subscribing" /\ task.conn = c /\ Next1(c, "subscribed")
         /\ Asks(c, {}) /\ Reads(c)
         /\ task' = On("serving", c, 0) /\ live' = c
         /\ UNCHANGED <<hostSide, cursor, inbox, relay, saved, runs, done, applied>>
<1>1. /\ task.at = "subscribing" /\ task.conn = c
      /\ NextIs(c, Subscribed)
      /\ conn' = [conn EXCEPT ![c] = LineRead(conn[c])]
      /\ task' = On("serving", c, 0) /\ live' = c
      /\ UNCHANGED <<hostSide, cursor, inbox, relay, saved, runs, done, applied>>
  BY DEF ServeSubscribed
<1>2. PICK l \in Line : l = Subscribed /\ l.t = "subscribed"
  BY LineFacts
<1>3. Next1(c, "subscribed")
  BY <1>1, <1>2, NextIsFacts DEF Typed
<1>4. Asks(c, {}) /\ Reads(c)
  BY <1>1, <1>3, ReadsOff DEF Typed, Next1
<1>5. QED
  BY <1>1, <1>3, <1>4

\* A hook line goes to the relay when the cursor has not passed it.
LEMMA ForwardsDoes ==
  ASSUME Typed, NEW c \in Conns, Forwards(c)
  PROVE  /\ task.at = "serving" /\ task.conn = c /\ Next1(c, "hook")
         /\ Asks(c, {}) /\ Reads(c)
         /\ \E e \in 1 .. MaxHooks :
              /\ conn[c].q[1].seq = e
              /\ IF e <= cursor.forwarded
                 THEN UNCHANGED <<cursor, inbox>>
                 ELSE /\ cursor' = [cursor EXCEPT !.forwarded = e]
                      /\ inbox' = Append(inbox, [boot |-> conn[c].boot, seq |-> e])
         /\ UNCHANGED <<hostSide, task, live, relay, saved, runs, done, applied>>
<1>1. PICK e \in 1 .. MaxHooks :
        /\ NextIs(c, HookLine(e))
        /\ IF e <= cursor.forwarded
           THEN UNCHANGED <<cursor, inbox>>
           ELSE /\ cursor' = [cursor EXCEPT !.forwarded = e]
                /\ inbox' = Append(inbox, [boot |-> conn[c].boot, seq |-> e])
  BY DEF Forwards
<1>2. /\ task.at = "serving" /\ task.conn = c
      /\ conn' = [conn EXCEPT ![c] = LineRead(conn[c])]
      /\ UNCHANGED <<hostSide, task, live, relay, saved, runs, done, applied>>
  BY DEF Forwards
<1>3. PICK l \in Line : l = HookLine(e) /\ l.t = "hook" /\ l.seq = e
  BY LineFacts
<1>4. Next1(c, "hook") /\ conn[c].q[1].seq = e
  BY <1>1, <1>3, NextIsFacts DEF Typed
<1>5. Asks(c, {}) /\ Reads(c)
  BY <1>2, <1>4, ReadsOff DEF Typed, Next1
<1>6. QED
  BY <1>1, <1>2, <1>4, <1>5

\* A report of losses is read and nothing else.
LEMMA ForwardsDroppedDoes ==
  ASSUME Typed, NEW c \in Conns, ForwardsDropped(c)
  PROVE  /\ task.at = "serving" /\ task.conn = c /\ Next1(c, "dropped")
         /\ Asks(c, {}) /\ Reads(c)
         /\ UNCHANGED <<hostSide, relayVars>>
<1>1. /\ task.at = "serving" /\ task.conn = c
      /\ NextIs(c, DroppedLine)
      /\ conn' = [conn EXCEPT ![c] = LineRead(conn[c])]
      /\ UNCHANGED <<hostSide, relayVars>>
  BY DEF ForwardsDropped
<1>2. PICK l \in Line : l = DroppedLine /\ l.t = "dropped"
  BY LineFacts
<1>3. Next1(c, "dropped")
  BY <1>1, <1>2, NextIsFacts DEF Typed
<1>4. Asks(c, {}) /\ Reads(c)
  BY <1>1, <1>3, ReadsOff DEF Typed, Next1
<1>5. QED
  BY <1>1, <1>3, <1>4

\* What the relay's record is made of.
LEMMA RelayFacts ==
  ASSUME RelayTyped
  PROVE  /\ relay.at \in {"waiting", "applying", "record", "send", "sent", "save"}
         /\ relay.at = "applying" => relay.todo \in Seq(Delivery) /\ relay.acks \in Seq(Delivery)
         /\ relay.at \in {"record", "send", "sent", "save"} =>
              relay.acks \in Seq(Delivery) /\ relay.acks # <<>>
         /\ Acks \in Seq(Delivery) /\ InHand \in Seq(Delivery)
         /\ inbox \in Seq(Delivery)
<1>1. relay \in RelayState /\ inbox \in Seq(Delivery)
      /\ (relay.at \in {"record", "send", "sent", "save"} => relay.acks # <<>>)
  BY DEF RelayTyped, RelayShape
<1>2. relay.at \in {"waiting", "applying", "record", "send", "sent", "save"}
  BY <1>1 DEF RelayState
<1>3. relay.at = "applying" => relay.todo \in Seq(Delivery) /\ relay.acks \in Seq(Delivery)
  BY <1>1 DEF RelayState
<1>4. relay.at \in {"record", "send", "sent", "save"} => relay.acks \in Seq(Delivery)
  BY <1>1 DEF RelayState
<1>5. <<>> \in Seq(Delivery)
  OBVIOUS
<1>6. Acks \in Seq(Delivery)
  BY <1>2, <1>3, <1>4, <1>5 DEF Acks
<1>7. (IF relay.at = "applying" THEN relay.todo ELSE <<>>) \in Seq(Delivery)
  BY <1>3, <1>5
<1>8. InHand \in Seq(Delivery)
  <2>1. \A s, t \in Seq(Delivery) : s \o t \in Seq(Delivery)
    OBVIOUS
  <2>2. QED
    BY <1>1, <1>7, <2>1 DEF InHand
<1>9. QED
  BY <1>1, <1>2, <1>3, <1>4, <1>6, <1>8

\* The relay's batch is what waits, up to its size.
LEMMA BatchFacts ==
  /\ \A todo, acks \in Seq(Delivery) :
       /\ InBatch(todo, acks) \in RelayState /\ InBatch(todo, acks).at = "applying"
       /\ InBatch(todo, acks).todo = todo /\ InBatch(todo, acks).acks = acks
  /\ \A at \in {"record", "send", "sent", "save"}, acks \in Seq(Delivery), c \in Conns \cup {NoConn} :
       /\ Acking(at, acks, c) \in RelayState /\ Acking(at, acks, c).at = at
       /\ Acking(at, acks, c).acks = acks /\ Acking(at, acks, c).conn = c
  /\ Waiting \in RelayState /\ Waiting.at = "waiting"
<1>1. \A todo, acks \in Seq(Delivery) :
        /\ InBatch(todo, acks) \in RelayState /\ InBatch(todo, acks).at = "applying"
        /\ InBatch(todo, acks).todo = todo /\ InBatch(todo, acks).acks = acks
  BY DEF InBatch, RelayState
<1>2. \A at \in {"record", "send", "sent", "save"}, acks \in Seq(Delivery), c \in Conns \cup {NoConn} :
        /\ Acking(at, acks, c) \in RelayState /\ Acking(at, acks, c).at = at
        /\ Acking(at, acks, c).acks = acks /\ Acking(at, acks, c).conn = c
  BY DEF Acking, RelayState
<1>3. QED
  BY <1>1, <1>2 DEF Waiting, RelayState

\* Relay::ack's list holds what it held, or the event just applied.
LEMMA MergedFacts ==
  ASSUME NEW acks \in Seq(Delivery), NEW d \in Delivery
  PROVE  /\ Merged(acks, d) \in Seq(Delivery) /\ Merged(acks, d) # <<>>
         /\ \A i \in 1 .. Len(Merged(acks, d)) :
              Merged(acks, d)[i] = d \/ \E j \in 1 .. Len(acks) : Merged(acks, d)[i] = acks[j]
<1>1. Len(acks) \in Nat
  OBVIOUS
<1>2. CASE acks # <<>> /\ Last(acks).boot = d.boot
  <2>1. Len(acks) >= 1
    BY <1>2
  <2>2. PICK s \in Seq(Delivery) : s = Front(acks) /\ Len(s) = Len(acks) - 1
                                   /\ \A i \in 1 .. Len(s) : s[i] = acks[i]
    <3>1. PICK n \in Nat : n = Len(acks) - 1 /\ n <= Len(acks)
      <4>1. Len(acks) - 1 \in Nat /\ Len(acks) - 1 <= Len(acks)
        BY <1>1, <2>1
      <4>2. QED
        BY <4>1
    <3>2. SubSeq(acks, 1, n) \in Seq(Delivery) /\ Len(SubSeq(acks, 1, n)) = n
          /\ \A i \in 1 .. n : SubSeq(acks, 1, n)[i] = acks[i]
      BY <1>1, <3>1
    <3>3. Front(acks) = SubSeq(acks, 1, n)
      BY <3>1 DEF Front
    <3>4. QED
      BY <3>1, <3>2, <3>3
  <2>3. Merged(acks, d) = s \o <<d>>
    BY <1>2, <2>2 DEF Merged
  <2>4. /\ s \o <<d>> \in Seq(Delivery) /\ Len(s \o <<d>>) = Len(s) + 1
        /\ \A i \in 1 .. Len(s) : (s \o <<d>>)[i] = s[i]
        /\ (s \o <<d>>)[Len(s) + 1] = d
    <3>1. <<d>> \in Seq(Delivery) /\ Len(<<d>>) = 1 /\ <<d>>[1] = d
      OBVIOUS
    <3>2. PICK t \in Seq(Delivery) : t = <<d>>
      BY <3>1
    <3>3. s \o t \in Seq(Delivery) /\ Len(s \o t) = Len(s) + Len(t)
      OBVIOUS
    <3>4. /\ \A i \in 1 .. Len(s) : (s \o t)[i] = s[i]
          /\ \A i \in 1 .. Len(t) : (s \o t)[Len(s) + i] = t[i]
      BY ConcatFacts
    <3>5. QED
      BY <3>1, <3>2, <3>3, <3>4
  <2>5. \A i \in 1 .. Len(s) + 1 : i \in 1 .. Len(s) \/ i = Len(s) + 1
    OBVIOUS
  <2>6. Merged(acks, d) # <<>>
    <3>1. Len(s \o <<d>>) # 0
      BY <2>4
    <3>2. QED
      BY <2>3, <3>1
  <2>7. \A i \in 1 .. Len(s) : i \in 1 .. Len(acks)
    BY <2>1, <2>2, <1>1
  <2>8. QED
    BY <2>2, <2>3, <2>4, <2>5, <2>6, <2>7
<1>3. CASE ~(acks # <<>> /\ Last(acks).boot = d.boot)
  <2>1. Merged(acks, d) = Append(acks, d)
    BY <1>3 DEF Merged
  <2>2. /\ Append(acks, d) \in Seq(Delivery) /\ Len(Append(acks, d)) = Len(acks) + 1
        /\ \A i \in 1 .. Len(acks) : Append(acks, d)[i] = acks[i]
        /\ Append(acks, d)[Len(acks) + 1] = d
    OBVIOUS
  <2>3. \A i \in 1 .. Len(acks) + 1 : i \in 1 .. Len(acks) \/ i = Len(acks) + 1
    BY <1>1
  <2>4. Merged(acks, d) # <<>>
    <3>1. Len(Append(acks, d)) # 0
      BY <2>2, <1>1
    <3>2. QED
      BY <2>1, <3>1
  <2>5. QED
    BY <2>1, <2>2, <2>3, <2>4
<1>4. QED
  BY <1>2, <1>3

\* The first of what is in hand was applied; or d came behind it.
HandShifts == Len(InHand) >= 1 /\ Len(InHand') = Len(InHand) - 1
              /\ \A i \in 1 .. Len(InHand') : InHand'[i] = InHand[i + 1]
HandGrows(d) == Len(InHand') = Len(InHand) + 1 /\ InHand'[Len(InHand) + 1] = d
                /\ \A i \in 1 .. Len(InHand) : InHand'[i] = InHand[i]
AcksKept == \A i \in 1 .. Len(Acks') : \E j \in 1 .. Len(Acks) : Acks'[i] = Acks[j]

\* The relay takes what waits, at most a batch.
LEMMA RelayTakesDoes ==
  ASSUME Typed, RelayTakes
  PROVE  /\ relay' \in RelayState /\ relay'.at = "applying" /\ relay'.todo # <<>>
         /\ inbox' = <<>> /\ InHand' = InHand /\ Acks' = <<>>
         /\ UNCHANGED <<queueVars, task, live, cursor, saved, runs, done, applied>>
<1>1. /\ relay = Waiting /\ inbox # <<>>
      /\ relay' = InBatch(inbox, <<>>) /\ inbox' = <<>>
      /\ UNCHANGED <<queueVars, task, live, cursor, saved, runs, done, applied>>
  BY DEF RelayTakes
<1>2. PICK s, none \in Seq(Delivery) : s = inbox /\ none = <<>>
  <2>1. <<>> \in Seq(Delivery)
    OBVIOUS
  <2>2. QED
    BY <2>1 DEF Typed, RelayTyped
<1>3. /\ relay' \in RelayState /\ relay'.at = "applying" /\ relay'.todo = s /\ relay'.acks = none
  <2>1. relay' = InBatch(s, none)
    BY <1>1, <1>2
  <2>2. QED
    BY <2>1, BatchFacts
<1>4. relay.at = "waiting"
  BY <1>1, BatchFacts
<1>5. InHand = <<>> \o s /\ InHand' = s \o <<>>
  BY <1>1, <1>2, <1>3, <1>4 DEF InHand
<1>6. <<>> \o s = s /\ s \o <<>> = s
  OBVIOUS
<1>7. QED
  BY <1>1, <1>2, <1>3, <1>5, <1>6 DEF Acks

\* The relay applies an event, in order; it is to be acked then.
LEMMA RelayAppliesDoes ==
  ASSUME Typed, RelayApplies
  PROVE  \E d \in Delivery, acks \in Seq(Delivery) :
           /\ d = InHand[1] /\ HandShifts
           /\ applied' = applied \cup {<<d.boot, d.seq>>} /\ done' = d
           /\ relay' \in RelayState /\ relay'.at = "applying" /\ relay'.acks # <<>>
           /\ acks = Acks /\ Acks' = Merged(acks, d)
           /\ UNCHANGED <<queueVars, task, live, cursor, inbox, saved, runs>>
<1>1. /\ relay.at = "applying" /\ relay.todo # <<>>
      /\ applied' = applied \cup {<<Head(relay.todo).boot, Head(relay.todo).seq>>}
      /\ done' = Head(relay.todo)
      /\ relay' = InBatch(Tail(relay.todo), Merged(relay.acks, Head(relay.todo)))
      /\ UNCHANGED <<queueVars, task, live, cursor, inbox, saved, runs>>
  BY DEF RelayApplies
<1>2. PICK todo, acks, rest \in Seq(Delivery) : todo = relay.todo /\ acks = relay.acks /\ rest = inbox
  BY <1>1, RelayFacts DEF Typed
<1>3. todo # <<>>
  BY <1>1, <1>2
<1>4. /\ Tail(todo) \in Seq(Delivery) /\ Len(todo) \in Nat /\ Len(todo) >= 1 /\ Len(Tail(todo)) = Len(todo) - 1
      /\ \A i \in 1 .. Len(todo) - 1 : Tail(todo)[i] = todo[i + 1]
      /\ Head(todo) = todo[1] /\ todo[1] \in Delivery
  BY <1>3, TailFacts
<1>5. PICK d \in Delivery : d = Head(todo) /\ d = todo[1]
  BY <1>4
<1>6. PICK t \in Seq(Delivery) : t = Tail(todo)
  BY <1>4
<1>7. Merged(acks, d) \in Seq(Delivery) /\ Merged(acks, d) # <<>>
  BY MergedFacts
<1>8. /\ relay' \in RelayState /\ relay'.at = "applying" /\ relay'.todo = t
      /\ relay'.acks = Merged(acks, d)
  <2>1. PICK m \in Seq(Delivery) : m = Merged(acks, d)
    BY <1>7
  <2>2. relay' = InBatch(t, m)
    BY <1>1, <1>2, <1>5, <1>6, <2>1
  <2>3. QED
    BY <2>1, <2>2, BatchFacts
<1>9. InHand = todo \o rest /\ InHand' = t \o rest
  BY <1>1, <1>2, <1>8 DEF InHand
<1>10. /\ Len(todo \o rest) = Len(todo) + Len(rest) /\ Len(t \o rest) = Len(t) + Len(rest)
       /\ Len(rest) \in Nat
  OBVIOUS
<1>11. /\ \A i \in 1 .. Len(todo) : (todo \o rest)[i] = todo[i]
       /\ \A i \in 1 .. Len(rest) : (todo \o rest)[Len(todo) + i] = rest[i]
       /\ \A i \in 1 .. Len(t) : (t \o rest)[i] = t[i]
       /\ \A i \in 1 .. Len(rest) : (t \o rest)[Len(t) + i] = rest[i]
  BY ConcatFacts
<1>12. ASSUME NEW i \in 1 .. Len(t \o rest) PROVE (t \o rest)[i] = (todo \o rest)[i + 1]
  <2>1. CASE i <= Len(t)
    <3>1. i \in 1 .. Len(t) /\ i \in 1 .. Len(todo) - 1 /\ i + 1 \in 1 .. Len(todo)
      BY <1>4, <1>6, <2>1
    <3>2. QED
      BY <1>4, <1>6, <1>11, <3>1
  <2>2. CASE ~(i <= Len(t))
    <3>1. PICK j \in 1 .. Len(rest) : i = Len(t) + j
      <4>1. i - Len(t) \in 1 .. Len(rest) /\ i = Len(t) + (i - Len(t))
        BY <1>4, <1>6, <1>10, <2>2
      <4>2. QED
        BY <4>1
    <3>2. i + 1 = Len(todo) + j
      BY <1>4, <1>6, <3>1
    <3>3. QED
      BY <1>11, <3>1, <3>2
  <2>3. QED
    BY <2>1, <2>2
<1>13. HandShifts
  BY <1>4, <1>6, <1>9, <1>10, <1>12 DEF HandShifts
<1>14. InHand[1] = d
  <2>1. 1 \in 1 .. Len(todo)
    BY <1>4
  <2>2. QED
    BY <1>5, <1>9, <1>11, <2>1
<1>15. Acks = acks /\ Acks' = Merged(acks, d)
  BY <1>1, <1>2, <1>8 DEF Acks
<1>16. applied' = applied \cup {<<d.boot, d.seq>>} /\ done' = d
  BY <1>1, <1>2, <1>5
<1>17. QED
  BY <1>1, <1>7, <1>8, <1>13, <1>14, <1>15, <1>16

\* What is in hand grows by the event forwarded, or stays.
LEMMA ForwardsGrows ==
  ASSUME Typed, NEW d \in Delivery, inbox' = Append(inbox, d), UNCHANGED relay
  PROVE  HandGrows(d) /\ inbox' \in Seq(Delivery) /\ Acks' = Acks
<1>1. PICK rest, rest2 \in Seq(Delivery) :
        /\ rest = inbox /\ rest2 = Append(rest, d) /\ Len(rest2) = Len(rest) + 1
        /\ rest2[Len(rest) + 1] = d /\ \A i \in 1 .. Len(rest) : rest2[i] = rest[i]
  <2>1. PICK rest \in Seq(Delivery) : rest = inbox
    BY DEF Typed, RelayTyped
  <2>2. /\ Append(rest, d) \in Seq(Delivery) /\ Len(Append(rest, d)) = Len(rest) + 1
        /\ Append(rest, d)[Len(rest) + 1] = d
        /\ \A i \in 1 .. Len(rest) : Append(rest, d)[i] = rest[i]
    OBVIOUS
  <2>3. QED
    BY <2>1, <2>2
<1>2. PICK todo \in Seq(Delivery) : todo = IF relay.at = "applying" THEN relay.todo ELSE <<>>
  <2>1. <<>> \in Seq(Delivery)
    OBVIOUS
  <2>2. QED
    BY <2>1, RelayFacts DEF Typed
<1>3. InHand = todo \o rest /\ InHand' = todo \o rest2
  BY <1>1, <1>2 DEF InHand
<1>4. /\ Len(todo \o rest) = Len(todo) + Len(rest) /\ Len(todo \o rest2) = Len(todo) + Len(rest2)
      /\ Len(rest) \in Nat /\ Len(todo) \in Nat
  OBVIOUS
<1>5. /\ \A i \in 1 .. Len(todo) : (todo \o rest)[i] = todo[i]
      /\ \A i \in 1 .. Len(rest) : (todo \o rest)[Len(todo) + i] = rest[i]
      /\ \A i \in 1 .. Len(todo) : (todo \o rest2)[i] = todo[i]
      /\ \A i \in 1 .. Len(rest2) : (todo \o rest2)[Len(todo) + i] = rest2[i]
  BY ConcatFacts
<1>6. ASSUME NEW i \in 1 .. Len(todo \o rest) PROVE (todo \o rest2)[i] = (todo \o rest)[i]
  <2>1. CASE i <= Len(todo)
    BY <1>4, <1>5, <2>1
  <2>2. CASE ~(i <= Len(todo))
    <3>1. PICK j \in 1 .. Len(rest) : i = Len(todo) + j
      <4>1. i - Len(todo) \in 1 .. Len(rest) /\ i = Len(todo) + (i - Len(todo))
        BY <1>4, <2>2
      <4>2. QED
        BY <4>1
    <3>2. j \in 1 .. Len(rest2)
      BY <1>1, <1>4
    <3>3. QED
      BY <1>1, <1>5, <3>1, <3>2
  <2>3. QED
    BY <2>1, <2>2
<1>7. (todo \o rest2)[Len(todo \o rest) + 1] = d
  <2>1. Len(rest) + 1 \in 1 .. Len(rest2) /\ Len(todo \o rest) + 1 = Len(todo) + (Len(rest) + 1)
    BY <1>1, <1>4
  <2>2. QED
    BY <1>1, <1>5, <2>1
<1>8. Len(todo \o rest2) = Len(todo \o rest) + 1
  BY <1>1, <1>4
<1>9. QED
  BY <1>1, <1>3, <1>6, <1>7, <1>8 DEF HandGrows, Acks

\* The relay is not, or no longer, in a batch.
BatchOver == relay.at # "applying" \/ relay.todo = <<>>

\* The relay goes from applying to its first ack.
LEMMA BecomesAcking ==
  ASSUME RelayTyped, BatchOver, inbox' = inbox,
         NEW at \in {"record", "send", "sent", "save"}, NEW acks \in Seq(Delivery), acks # <<>>,
         NEW c \in Conns \cup {NoConn}, at = "sent" => c \in Conns, relay' = Acking(at, acks, c)
  PROVE  RelayShape' /\ InHand' = InHand /\ Acks' = acks
<1>1. relay' \in RelayState /\ relay'.at = at /\ relay'.acks = acks /\ relay'.conn = c
  BY BatchFacts
<1>2. RelayShape'
  BY <1>1 DEF RelayShape
<1>3. QED
  BY <1>1, <1>2 DEF InHand, Acks, BatchOver

\* The relay goes on with the next ack, or waits again.
LEMMA BecomesNextAck ==
  ASSUME RelayTyped, inbox' = inbox, relay.at \in {"record", "send", "sent", "save"},
         relay' = NextAck(relay.acks)
  PROVE  RelayShape' /\ InHand' = InHand /\ AcksKept
<1>1. PICK acks \in Seq(Delivery) : acks = relay.acks /\ acks # <<>>
  BY RelayFacts
<1>2. /\ Tail(acks) \in Seq(Delivery) /\ Len(acks) \in Nat /\ Len(acks) >= 1 /\ Len(Tail(acks)) = Len(acks) - 1
      /\ \A i \in 1 .. Len(acks) - 1 : Tail(acks)[i] = acks[i + 1]
  BY <1>1, TailFacts
<1>3. Acks = acks
  BY <1>1 DEF Acks
<1>4. BatchOver
  BY DEF BatchOver
<1>5. CASE Tail(acks) = <<>>
  <2>1. relay' = Waiting
    BY <1>1, <1>5 DEF NextAck
  <2>2. relay' \in RelayState /\ relay'.at = "waiting"
    BY <2>1, BatchFacts
  <2>3. RelayShape'
    BY <2>1, <2>2 DEF RelayShape
  <2>4. Acks' = <<>> /\ InHand' = InHand
    BY <2>2 DEF Acks, InHand
  <2>5. AcksKept
    BY <2>4 DEF AcksKept
  <2>6. QED
    BY <2>3, <2>4, <2>5
<1>6. CASE Tail(acks) # <<>>
  <2>1. PICK rest \in Seq(Delivery) : rest = Tail(acks) /\ rest # <<>>
    BY <1>2, <1>6
  <2>2. relay' = Acking("record", rest, NoConn)
    BY <1>1, <1>6, <2>1 DEF NextAck
  <2>3. RelayShape' /\ InHand' = InHand /\ Acks' = rest
    BY <1>4, <2>1, <2>2, BecomesAcking
  <2>4. ASSUME NEW i \in 1 .. Len(rest) PROVE \E j \in 1 .. Len(acks) : rest[i] = acks[j]
    <3>1. i \in 1 .. Len(acks) - 1 /\ i + 1 \in 1 .. Len(acks)
      BY <1>2, <2>1
    <3>2. QED
      BY <1>2, <2>1, <3>1
  <2>5. QED
    BY <1>3, <2>3, <2>4 DEF AcksKept
<1>7. QED
  BY <1>5, <1>6

\* The steps of an ack that touch no link.
LEMMA AckStepsDo ==
  ASSUME Typed, RelayApplied \/ AckRefused \/ AckRecorded \/ AckSent \/ AckAnswered \/ Saves
  PROVE  RelayShape' /\ InHand' = InHand /\ AcksKept
<1>1. RelayTyped
  BY DEF Typed
<1>2. PICK acks \in Seq(Delivery) : acks = Acks
  BY <1>1, RelayFacts
<1>3. CASE RelayApplied
  <2>1. /\ relay.at = "applying" /\ relay.todo = <<>> /\ relay' = Acking("record", relay.acks, NoConn)
        /\ inbox' = inbox
    BY <1>3 DEF RelayApplied
  <2>2. acks = relay.acks /\ acks # <<>> /\ BatchOver
    BY <1>1, <1>2, <2>1 DEF Acks, BatchOver, RelayTyped, RelayShape
  <2>3. RelayShape' /\ InHand' = InHand /\ Acks' = acks
    BY <1>1, <2>1, <2>2, BecomesAcking
  <2>4. QED
    BY <1>2, <2>3 DEF AcksKept
<1>4. CASE AckRefused \/ Saves
  <2>1. relay.at \in {"record", "save"} /\ relay' = NextAck(relay.acks) /\ inbox' = inbox
    BY <1>4 DEF AckRefused, Saves
  <2>2. QED
    BY <1>1, <2>1, BecomesNextAck
<1>5. ASSUME relay.at \in {"record", "send", "sent"} PROVE acks = relay.acks /\ acks # <<>> /\ BatchOver
  BY <1>1, <1>2, <1>5, RelayFacts DEF Acks, BatchOver
<1>6. CASE AckRecorded
  <2>1. relay.at = "record" /\ relay' = Acking("send", relay.acks, NoConn) /\ inbox' = inbox
    BY <1>6 DEF AckRecorded
  <2>2. RelayShape' /\ InHand' = InHand /\ Acks' = acks
    BY <1>1, <1>5, <2>1, BecomesAcking
  <2>3. QED
    BY <1>2, <2>2 DEF AcksKept
<1>7. CASE AckSent
  <2>1. relay.at = "send" /\ inbox' = inbox
    BY <1>7 DEF AckSent
  <2>2. CASE live = NoConn
    <3>1. relay' = Acking("save", relay.acks, NoConn)
      BY <1>7, <2>2 DEF AckSent
    <3>2. RelayShape' /\ InHand' = InHand /\ Acks' = acks
      BY <1>1, <1>5, <2>1, <3>1, BecomesAcking
    <3>3. QED
      BY <1>2, <3>2 DEF AcksKept
  <2>3. CASE live # NoConn
    <3>1. PICK c \in Conns : c = live
      BY <1>1, <2>3 DEF RelayTyped
    <3>2. relay' = Acking("sent", relay.acks, c)
      BY <1>7, <2>3, <3>1 DEF AckSent
    <3>3. RelayShape' /\ InHand' = InHand /\ Acks' = acks
      BY <1>1, <1>5, <2>1, <3>2, BecomesAcking
    <3>4. QED
      BY <1>2, <3>3 DEF AcksKept
  <2>4. QED
    BY <2>2, <2>3
<1>8. CASE AckAnswered
  <2>1. relay.at = "sent" /\ relay' = Acking("save", relay.acks, NoConn) /\ inbox' = inbox
    BY <1>8 DEF AckAnswered
  <2>2. RelayShape' /\ InHand' = InHand /\ Acks' = acks
    BY <1>1, <1>5, <2>1, BecomesAcking
  <2>3. QED
    BY <1>2, <2>2 DEF AcksKept
<1>9. QED
  BY <1>3, <1>4, <1>6, <1>7, <1>8

\* What is acked next.
LEMMA HeadAck ==
  ASSUME RelayTyped, relay.at \in {"record", "send", "sent", "save"}
  PROVE  /\ Head(relay.acks) \in Delivery /\ Head(relay.acks) = Acks[1] /\ 1 \in 1 .. Len(Acks)
<1>1. PICK acks \in Seq(Delivery) : acks = relay.acks /\ acks # <<>>
  BY RelayFacts
<1>2. Head(acks) = acks[1] /\ acks[1] \in Delivery /\ Len(acks) >= 1 /\ Len(acks) \in Nat
  BY <1>1, TailFacts
<1>3. Acks = acks
  BY <1>1 DEF Acks
<1>4. QED
  BY <1>1, <1>2, <1>3

\* The ack that is sent is a request on the link that was live.
LEMMA AckSentDoes ==
  ASSUME Typed, AckSent
  PROVE  /\ \/ conn' = conn
            \/ \E c \in Conns, r \in Request :
                 /\ r = AckReq(Acks[1].seq, Acks[1].boot, "relay")
                 /\ Asks(c, {r}) /\ conn'[c].q = conn[c].q
         /\ UNCHANGED <<hostSide, task, live, cursor, inbox, saved, runs, done, applied>>
         /\ relay.at = "send"
<1>1. relay.at = "send" /\ UNCHANGED <<hostSide, task, live, cursor, inbox, saved, runs, done, applied>>
  BY DEF AckSent
<1>2. CASE live = NoConn
  BY <1>1, <1>2 DEF AckSent
<1>3. CASE live # NoConn
  <2>1. PICK c \in Conns : c = live
    BY <1>3 DEF Typed, RelayTyped
  <2>2. PICK d \in Delivery : d = Head(relay.acks) /\ d = Acks[1]
    BY <1>1, HeadAck DEF Typed
  <2>3. d.seq \in 0 .. MaxHooks /\ d.boot \in 0 .. MaxBoot
    BY DeliveryFacts, HookAssumption
  <2>4. PICK r \in Request : r = AckReq(d.seq, d.boot, "relay")
    BY <2>3, RequestFacts DEF Callers
  <2>5. conn' = [conn EXCEPT ![c] = Asked(conn[c], r)]
    BY <1>3, <2>1, <2>2, <2>4 DEF AckSent
  <2>6. Asks(c, {r}) /\ conn'[c].q = conn[c].q
    BY <2>5, AsksOn DEF Typed
  <2>7. QED
    BY <1>1, <2>2, <2>4, <2>6
<1>4. QED
  BY <1>2, <1>3

\* The ack that was answered is a line read.
LEMMA AckAnsweredDoes ==
  ASSUME Typed, AckAnswered
  PROVE  /\ \/ conn' = conn
            \/ \E c \in Conns : Next1(c, "acked") /\ Asks(c, {}) /\ Reads(c)
         /\ UNCHANGED <<hostSide, task, live, cursor, inbox, saved, runs, done, applied>>
<1>1. /\ relay.at = "sent" /\ UNCHANGED <<hostSide, task, live, cursor, inbox, saved, runs, done, applied>>
      /\ \/ /\ NextIs(relay.conn, Acked("relay"))
            /\ conn' = [conn EXCEPT ![relay.conn] = LineRead(conn[relay.conn])]
         \/ UNCHANGED conn
  BY DEF AckAnswered
<1>2. PICK c \in Conns : c = relay.conn
  BY <1>1 DEF Typed, RelayTyped, RelayShape
<1>3. PICK l \in Line : l = Acked("relay") /\ l.t = "acked"
  BY LineFacts DEF Callers
<1>4. ASSUME NextIs(c, l), conn' = [conn EXCEPT ![c] = LineRead(conn[c])]
      PROVE  Next1(c, "acked") /\ Asks(c, {}) /\ Reads(c)
  <2>1. Next1(c, "acked")
    BY <1>3, <1>4, NextIsFacts DEF Typed
  <2>2. QED
    BY <1>4, <2>1, ReadsOff DEF Typed, Next1
<1>5. QED
  BY <1>1, <1>2, <1>3, <1>4

-----------------------------------------------------------------------------
\* Everything stays what it is.

\* Links stay links when one of them is replaced by one.
LEMMA LinksTyped ==
  ASSUME QueueTyped, NEW c \in Conns, OnlyLink(c), Len(conn'[c].q) <= OutLimit
  PROVE  conn' \in [Conns -> Link] /\ \A d \in Conns : Len(conn'[d].q) <= OutLimit
BY DEF QueueTyped, OnlyLink

\* Replacing one subscription leaves the others.
LEMMA SubBecomes ==
  ASSUME QueueTyped, NEW c \in Conns, NEW x \in Subscription, x.at = "sending" => x.chunk # <<>>,
         sub' = [sub EXCEPT ![c] = x]
  PROVE  /\ sub' \in [Conns -> Subscription]
         /\ \A d \in Conns : sub'[d].at = "sending" => sub'[d].chunk # <<>>
         /\ sub'[c] = x /\ \A d \in Conns : d # c => sub'[d] = sub[d]
BY DEF QueueTyped

\* The host's types are kept by a step on one link.
LEMMA QueueTypedOnLink ==
  ASSUME QueueTyped, UNCHANGED hostSide,
         conn' = conn \/ \E c \in Conns : OnlyLink(c) /\ Len(conn'[c].q) <= OutLimit
  PROVE  QueueTyped'
<1>1. conn' \in [Conns -> Link] /\ \A d \in Conns : Len(conn'[d].q) <= OutLimit
  BY LinksTyped DEF QueueTyped
<1>2. QED
  BY <1>1 DEF QueueTyped, hostSide

\* The app's types are kept by a step of the host's.
LEMMA RelayTypedKept ==
  ASSUME RelayTyped, UNCHANGED relayVars
  PROVE  RelayTyped'
BY DEF RelayTyped, RelayShape, relayVars

\* A push keeps the types.
LEMMA PushTyped ==
  ASSUME Typed, NEW n \in 0 .. QueueCap, Push(n)
  PROVE  QueueTyped'
<1>1. QueueTyped
  BY DEF Typed
<1>2. /\ lastSeq' \in 1 .. MaxHooks /\ items' \in SUBSET (1 .. lastSeq') /\ Cardinality(items') <= QueueCap
      /\ evicted' \in SUBSET ((1 .. MaxBoot) \X (1 .. MaxHooks)) /\ unreported' \in BOOLEAN
      /\ ToSubscriber /\ UNCHANGED <<boot, sub, strayed>>
  BY PushDoes
<1>3. /\ conn' \in [Conns -> Link] /\ \A d \in Conns : Len(conn'[d].q) <= OutLimit
      /\ subscriber' \in Conns \cup {NoConn}
  <2>1. CASE subscriber = NoConn
    BY <1>1, <1>2, <2>1 DEF ToSubscriber, QueueTyped
  <2>2. CASE subscriber # NoConn
    <3>1. PICK c \in Conns : c = subscriber
      BY <1>1, <2>2 DEF QueueTyped
    <3>2. OnlyLink(c) /\ Len(conn'[c].q) <= OutLimit /\ subscriber' \in {c, NoConn}
      BY <1>2, <2>2, <3>1 DEF ToSubscriber, Sends
    <3>3. QED
      BY <1>1, <3>2, LinksTyped
  <2>3. QED
    BY <2>1, <2>2
<1>4. lastSeq' \in 0 .. MaxHooks
  BY <1>2
<1>5. QED
  BY <1>1, <1>2, <1>3, <1>4 DEF QueueTyped

\* The host's handlers keep the types.
LEMMA HostStepsTyped ==
  ASSUME Typed, NEW c \in Conns, HandlesAck(c) \/ Subscribing(c)
  PROVE  QueueTyped'
<1>1. QueueTyped
  BY DEF Typed
<1>2. CASE HandlesAck(c)
  <2>1. PICK r \in Request : /\ items' = {e \in items : e > r.upTo}
                             /\ strayed' = (strayed \/ r.of # boot)
                             /\ OnlyLink(c) /\ Len(conn'[c].q) <= OutLimit
                             /\ UNCHANGED <<boot, lastSeq, unreported, subscriber, sub, evicted>>
    BY <1>2, HandlesAckDoes DEF Sends
  <2>2. items' \in SUBSET items /\ strayed' \in BOOLEAN
    BY <1>1, <2>1 DEF QueueTyped
  <2>3. Cardinality(items') <= QueueCap
    <3>1. IsFiniteSet(items)
      <4>1. IsFiniteSet(1 .. lastSeq) /\ items \in SUBSET (1 .. lastSeq)
        BY <1>1, FS_Interval, HookAssumption DEF QueueTyped
      <4>2. QED
        BY <4>1, FS_Subset
    <3>2. \A S, T : IsFiniteSet(S) /\ T \in SUBSET S =>
            Cardinality(T) <= Cardinality(S) /\ Cardinality(T) \in Nat /\ Cardinality(S) \in Nat
      BY FS_Subset, FS_CardinalityType
    <3>3. Cardinality(items') <= Cardinality(items) /\ Cardinality(items') \in Nat /\ Cardinality(items) \in Nat
      BY <2>2, <3>1, <3>2
    <3>4. QED
      BY <1>1, <3>3, HookAssumption DEF QueueTyped
  <2>4. conn' \in [Conns -> Link] /\ \A d \in Conns : Len(conn'[d].q) <= OutLimit
    BY <1>1, <2>1, LinksTyped
  <2>5. QED
    BY <1>1, <2>1, <2>2, <2>3, <2>4 DEF QueueTyped
<1>3. CASE HandlesSubscribe(c)
  <2>1. PICK n \in 0 .. MaxHooks, ok \in BOOLEAN :
          /\ OnlyLink(c) /\ Len(conn'[c].q) <= OutLimit
          /\ sub' = [sub EXCEPT ![c] = IF ok THEN Looping(n) ELSE Idle]
          /\ UNCHANGED <<boot, items, lastSeq, unreported, subscriber, evicted, strayed>>
    BY <1>3, HandlesSubscribeDoes DEF Sends
  <2>2. PICK x \in Subscription : x = (IF ok THEN Looping(n) ELSE Idle) /\ x.at # "sending"
    BY SubscriptionFacts
  <2>3. /\ sub' \in [Conns -> Subscription]
        /\ \A d \in Conns : sub'[d].at = "sending" => sub'[d].chunk # <<>>
    BY <1>1, <2>1, <2>2, SubBecomes
  <2>4. conn' \in [Conns -> Link] /\ \A d \in Conns : Len(conn'[d].q) <= OutLimit
    BY <1>1, <2>1, LinksTyped
  <2>5. QED
    BY <1>1, <2>1, <2>3, <2>4 DEF QueueTyped
<1>4. CASE BacklogEnds(c)
  <2>1. /\ OnlyLink(c) /\ Len(conn'[c].q) <= OutLimit
        /\ sub' = [sub EXCEPT ![c] = Idle] /\ unreported' = FALSE /\ subscriber' \in {c, NoConn}
        /\ UNCHANGED <<boot, items, lastSeq, evicted, strayed>>
    BY <1>4, BacklogEndsDoes DEF Sends
  <2>2. PICK x \in Subscription : x = Idle /\ x.at # "sending"
    BY SubscriptionFacts
  <2>3. /\ sub' \in [Conns -> Subscription]
        /\ \A d \in Conns : sub'[d].at = "sending" => sub'[d].chunk # <<>>
    BY <1>1, <2>1, <2>2, SubBecomes
  <2>4. conn' \in [Conns -> Link] /\ \A d \in Conns : Len(conn'[d].q) <= OutLimit
    BY <1>1, <2>1, LinksTyped
  <2>5. QED
    BY <1>1, <2>1, <2>3, <2>4 DEF QueueTyped
<1>5. CASE BacklogTakes(c)
  <2>1. PICK chunk \in Seq(1 .. MaxHooks) :
          /\ chunk # <<>> /\ sub' = [sub EXCEPT ![c] = Sending(chunk, unreported)]
          /\ unreported' = FALSE
          /\ UNCHANGED <<boot, items, lastSeq, subscriber, conn, evicted, strayed>>
    BY <1>5, BacklogTakesDoes DEF Chunk
  <2>2. PICK x \in Subscription : x = Sending(chunk, unreported) /\ x.chunk # <<>>
    <3>1. PICK r \in BOOLEAN : r = unreported
      BY <1>1 DEF QueueTyped
    <3>2. Sending(chunk, r) \in Subscription /\ Sending(chunk, r).chunk = chunk
      BY SubscriptionFacts
    <3>3. QED
      BY <2>1, <3>1, <3>2
  <2>3. /\ sub' \in [Conns -> Subscription]
        /\ \A d \in Conns : sub'[d].at = "sending" => sub'[d].chunk # <<>>
    BY <1>1, <2>1, <2>2, SubBecomes
  <2>4. QED
    BY <1>1, <2>1, <2>3 DEF QueueTyped
<1>6. CASE BacklogSends(c)
  <2>1. PICK ok \in BOOLEAN :
          /\ sub[c].at = "sending"
          /\ OnlyLink(c) /\ Len(conn'[c].q) <= OutLimit
          /\ sub' = [sub EXCEPT ![c] = IF ok THEN Looping(sub[c].chunk[Len(sub[c].chunk)]) ELSE Idle]
          /\ UNCHANGED <<boot, items, lastSeq, unreported, subscriber, evicted, strayed>>
    BY <1>6, BacklogSendsDoes DEF Sends
  <2>2. PICK chunk \in Seq(1 .. MaxHooks) : chunk = sub[c].chunk /\ chunk # <<>>
    <3>1. sub[c] \in Subscription /\ sub[c].chunk # <<>>
      BY <1>1, <2>1 DEF QueueTyped
    <3>2. QED
      BY <2>1, <3>1, SubscriptionFacts
  <2>3. chunk[Len(chunk)] \in 0 .. MaxHooks
    <3>1. Len(chunk) \in 1 .. Len(chunk)
      BY <2>2
    <3>2. chunk[Len(chunk)] \in 1 .. MaxHooks
      BY <3>1, SeqFacts
    <3>3. QED
      BY <3>2
  <2>4. PICK x \in Subscription : x = (IF ok THEN Looping(chunk[Len(chunk)]) ELSE Idle) /\ x.at # "sending"
    BY <2>3, SubscriptionFacts
  <2>5. /\ sub' \in [Conns -> Subscription]
        /\ \A d \in Conns : sub'[d].at = "sending" => sub'[d].chunk # <<>>
    BY <1>1, <2>1, <2>2, <2>4, SubBecomes
  <2>6. conn' \in [Conns -> Link] /\ \A d \in Conns : Len(conn'[d].q) <= OutLimit
    BY <1>1, <2>1, LinksTyped
  <2>7. QED
    BY <1>1, <2>1, <2>5, <2>6 DEF QueueTyped
<1>7. QED
  BY <1>2, <1>3, <1>4, <1>5, <1>6 DEF Subscribing

\* A connection that is closing closes.
LEMMA HostClosesDoes ==
  ASSUME QueueTyped, NEW c \in Conns, HostCloses(c)
  PROVE  /\ conn[c].st = "open" /\ OnlyLink(c) /\ Len(conn'[c].q) <= OutLimit
         /\ conn'[c].st = "closed" /\ conn'[c].boot = conn[c].boot /\ conn'[c].q = conn[c].q
         /\ conn'[c].asked = {}
         /\ UNCHANGED <<boot, items, lastSeq, unreported, subscriber, sub, evicted, strayed>>
<1>1. PICK old \in Link : old = conn[c] /\ Len(old.q) <= OutLimit
  BY DEF QueueTyped
<1>2. PICK k \in Link : k = [old EXCEPT !.st = "closed", !.asked = {}]
  BY DEF Link
<1>3. conn' = [conn EXCEPT ![c] = k]
  BY <1>1, <1>2 DEF HostCloses, QueueTyped
<1>4. OnlyLink(c) /\ conn'[c] = k
  BY <1>3, LinkBecomes
<1>5. k.st = "closed" /\ k.boot = old.boot /\ k.q = old.q /\ k.asked = {}
  BY <1>2 DEF Link
<1>6. QED
  BY <1>1, <1>4, <1>5 DEF HostCloses

\* A closed connection's teardown takes its place as the subscriber from it.
LEMMA TeardownEndsDoes ==
  ASSUME QueueTyped, NEW c \in Conns, TeardownEnds(c)
  PROVE  /\ conn[c].st = "closed" /\ OnlyLink(c) /\ Len(conn'[c].q) <= OutLimit
         /\ conn'[c].st = "gone" /\ conn'[c].boot = conn[c].boot /\ conn'[c].q = <<>>
         /\ conn'[c].asked = conn[c].asked
         /\ subscriber' = IF subscriber = c THEN NoConn ELSE subscriber
         /\ UNCHANGED <<boot, items, lastSeq, unreported, sub, evicted, strayed>>
<1>1. PICK old \in Link : old = conn[c]
  BY DEF QueueTyped
<1>2. PICK none \in Seq(Line) : none = <<>> /\ Len(none) = 0
  BY ShortRuns
<1>3. PICK k \in Link : k = [old EXCEPT !.st = "gone", !.q = none]
  BY DEF Link
<1>4. conn' = [conn EXCEPT ![c] = k]
  BY <1>1, <1>2, <1>3 DEF TeardownEnds, QueueTyped
<1>5. OnlyLink(c) /\ conn'[c] = k
  BY <1>4, LinkBecomes
<1>6. k.st = "gone" /\ k.boot = old.boot /\ k.q = none /\ k.asked = old.asked
  BY <1>3 DEF Link
<1>7. 0 <= OutLimit
  BY HookAssumption
<1>8. QED
  BY <1>1, <1>2, <1>5, <1>6, <1>7 DEF TeardownEnds

\* A restart leaves the host without links, events or subscriber, in its next boot.
LEMMA HostRestartsDoes ==
  ASSUME QueueTyped, HostRestarts
  PROVE  /\ boot < MaxBoot /\ boot' = boot + 1 /\ items' = {} /\ lastSeq' = 0 /\ unreported' = FALSE
         /\ subscriber' = NoConn /\ sub' = [c \in Conns |-> Idle]
         /\ conn' \in [Conns -> Link]
         /\ \A c \in Conns :
              /\ conn[c].st = "unused" => conn'[c] = Unused
              /\ conn[c].st # "unused" => conn'[c].st = "gone" /\ conn'[c].boot = conn[c].boot
              /\ conn'[c].q = <<>> /\ conn'[c].asked = {}
         /\ UNCHANGED <<evicted, strayed>>
<1>1. /\ conn' = [c \in Conns |-> IF conn[c].st = "unused" THEN Unused
                                  ELSE [Unused EXCEPT !.st = "gone", !.boot = conn[c].boot]]
      /\ boot < MaxBoot /\ boot' = boot + 1 /\ items' = {} /\ lastSeq' = 0 /\ unreported' = FALSE
      /\ subscriber' = NoConn /\ sub' = [c \in Conns |-> Idle] /\ UNCHANGED <<evicted, strayed>>
  BY DEF HostRestarts
<1>2. Unused \in Link /\ Unused.q = <<>> /\ Unused.asked = {}
  BY ShortRuns, HookAssumption DEF Unused, Link
<1>3. \A b \in 0 .. MaxBoot :
        LET k == [Unused EXCEPT !.st = "gone", !.boot = b]
        IN k \in Link /\ k.st = "gone" /\ k.boot = b /\ k.q = <<>> /\ k.asked = {}
  BY ShortRuns DEF Unused, Link
<1>4. ASSUME NEW c \in Conns
      PROVE  /\ conn'[c] \in Link
             /\ conn[c].st = "unused" => conn'[c] = Unused
             /\ conn[c].st # "unused" => conn'[c].st = "gone" /\ conn'[c].boot = conn[c].boot
             /\ conn'[c].q = <<>> /\ conn'[c].asked = {}
  <2>1. PICK b \in 0 .. MaxBoot : b = conn[c].boot
    BY LinkFacts DEF QueueTyped
  <2>2. conn'[c] = IF conn[c].st = "unused" THEN Unused
                   ELSE [Unused EXCEPT !.st = "gone", !.boot = conn[c].boot]
    BY <1>1
  <2>3. CASE conn[c].st = "unused"
    BY <1>2, <2>2, <2>3
  <2>4. CASE conn[c].st # "unused"
    BY <1>3, <2>1, <2>2, <2>4
  <2>5. QED
    BY <2>3, <2>4
<1>5. conn' \in [Conns -> Link]
  <2>1. conn' = [c \in Conns |-> conn'[c]]
    BY <1>1
  <2>2. \A c \in Conns : conn'[c] \in Link
    BY <1>4
  <2>3. QED
    BY <2>1, <2>2
<1>6. QED
  BY <1>1, <1>4, <1>5

\* The ends of connections keep the types.
LEMMA EndsTyped ==
  ASSUME QueueTyped, NEW c \in Conns, HostCloses(c) \/ TeardownEnds(c)
  PROVE  QueueTyped'
<1>1. /\ OnlyLink(c) /\ Len(conn'[c].q) <= OutLimit /\ subscriber' \in {subscriber, NoConn}
      /\ UNCHANGED <<boot, items, lastSeq, unreported, sub, evicted, strayed>>
  BY HostClosesDoes, TeardownEndsDoes
<1>2. conn' \in [Conns -> Link] /\ \A d \in Conns : Len(conn'[d].q) <= OutLimit
  BY <1>1, LinksTyped
<1>3. QED
  BY <1>1, <1>2 DEF QueueTyped

\* A restart keeps the types.
LEMMA RestartTyped ==
  ASSUME QueueTyped, HostRestarts
  PROVE  QueueTyped'
<1>1. /\ boot' \in 1 .. MaxBoot /\ lastSeq' \in 0 .. MaxHooks /\ items' \in SUBSET (1 .. lastSeq')
      /\ unreported' \in BOOLEAN /\ subscriber' \in Conns \cup {NoConn}
  <2>1. /\ boot < MaxBoot /\ boot' = boot + 1 /\ items' = {} /\ lastSeq' = 0 /\ unreported' = FALSE
        /\ subscriber' = NoConn
    BY HostRestartsDoes
  <2>2. boot \in 1 .. MaxBoot /\ MaxBoot \in Nat /\ MaxHooks \in Nat
    BY HookAssumption DEF QueueTyped
  <2>3. boot' \in 1 .. MaxBoot
    BY <2>1, <2>2
  <2>4. items' \in SUBSET (1 .. lastSeq') /\ lastSeq' \in 0 .. MaxHooks
    BY <2>1, <2>2
  <2>5. unreported' \in BOOLEAN
    BY <2>1
  <2>6. QED
    BY <2>1, <2>3, <2>4, <2>5
<1>2. Cardinality(items') <= QueueCap
  <2>1. items' = {}
    BY HostRestartsDoes
  <2>2. Cardinality({}) = 0 /\ 0 <= QueueCap
    BY FS_EmptySet, HookAssumption
  <2>3. QED
    BY <2>1, <2>2
<1>3. /\ sub' \in [Conns -> Subscription]
      /\ \A c \in Conns : sub'[c].at = "sending" => sub'[c].chunk # <<>>
  BY HostRestartsDoes, SubscriptionFacts
<1>4. /\ conn' \in [Conns -> Link] /\ \A c \in Conns : Len(conn'[c].q) <= OutLimit
  BY HostRestartsDoes, ShortRuns, HookAssumption
<1>5. QED
  BY <1>1, <1>2, <1>3, <1>4, HostRestartsDoes DEF QueueTyped

\* A task on a link is a task's state.
LEMMA OnFacts ==
  ASSUME NEW at \in {"greeted", "acking", "subscribing", "serving"}, NEW c \in Conns, NEW n \in 0 .. MaxHooks
  PROVE  /\ On(at, c, n) \in TaskState /\ On(at, c, n).at = at /\ On(at, c, n).conn = c
         /\ On(at, c, n).after = n
BY DEF On, TaskState

\* A task with no link is a task's state.
LEMMA DownFacts == Down \in TaskState /\ Down.at = "down" /\ Down.conn = NoConn
BY HookAssumption DEF Down, TaskState

TaskTyped == task \in TaskState /\ (task.at = "down" <=> task.conn = NoConn) /\ (task.at = "down" => task = Down)

\* The steps of the link's task keep the types.
LEMMA LinkStepsTyped ==
  ASSUME Typed, Linked, NEW c \in Conns,
         Connects(c) \/ ServeBegins(c) \/ ServeAcked(c) \/ ServeSubscribed(c) \/ Forwards(c) \/ ForwardsDropped(c)
  PROVE  Typed'
<1>1. QueueTyped /\ RelayTyped
  BY DEF Typed
<1>2. c # NoConn /\ 0 \in 0 .. MaxHooks
  BY HookAssumption
<1>3. \A at \in {"greeted", "acking", "subscribing", "serving"}, n \in 0 .. MaxHooks :
        task' = On(at, c, n) => TaskTyped'
  BY <1>2, OnFacts DEF TaskTyped
<1>4. CASE Connects(c)
  <2>1. /\ OnlyLink(c) /\ conn'[c].q = conn[c].q /\ task' = On("greeted", c, 0)
        /\ UNCHANGED <<hostSide, live, cursor, inbox, relay, saved, runs, done, applied>>
    BY <1>4, ConnectsDoes
  <2>2. Len(conn'[c].q) <= OutLimit
    BY <1>1, <2>1 DEF QueueTyped
  <2>3. QueueTyped'
    BY <1>1, <2>1, <2>2, QueueTypedOnLink
  <2>4. TaskTyped'
    BY <1>2, <1>3, <2>1
  <2>5. RelayTyped'
    BY <1>1, <2>1, <2>4 DEF RelayTyped, RelayShape, TaskTyped
  <2>6. QED
    BY <2>3, <2>5 DEF Typed
<1>5. CASE ServeBegins(c)
  <2>1. /\ cursor' = Resumed(conn[c].boot) /\ OnlyLink(c) /\ Len(conn'[c].q) <= OutLimit
        /\ UNCHANGED <<hostSide, live, inbox, relay, saved, runs, done, applied>>
    BY <1>5, ServeBeginsDoes DEF Asks
  <2>2. task' = On("acking", c, cursor'.acked) \/ task' = On("subscribing", c, 0)
    BY <1>5, ServeBeginsDoes
  <2>3. QueueTyped'
    BY <1>1, <2>1, QueueTypedOnLink
  <2>4. cursor' \in Cursor /\ cursor'.acked \in 0 .. MaxHooks
    <3>1. PICK b \in 0 .. MaxBoot : b = conn[c].boot
      BY <1>1, LinkFacts DEF QueueTyped
    <3>2. QED
      BY <1>1, <2>1, <3>1, ResumedFacts
  <2>5. TaskTyped'
    BY <1>2, <1>3, <2>2, <2>4
  <2>6. RelayTyped'
    BY <1>1, <2>1, <2>4, <2>5 DEF RelayTyped, RelayShape, TaskTyped
  <2>7. QED
    BY <2>3, <2>6 DEF Typed
<1>6. CASE ServeAcked(c)
  <2>1. /\ OnlyLink(c) /\ Len(conn'[c].q) <= OutLimit /\ task' = On("subscribing", c, task.after)
        /\ UNCHANGED <<hostSide, live, cursor, inbox, relay, saved, runs, done, applied>>
    BY <1>6, ServeAckedDoes DEF Asks
  <2>2. QueueTyped'
    BY <1>1, <2>1, QueueTypedOnLink
  <2>3. task.after \in 0 .. MaxHooks
    BY <1>1 DEF RelayTyped, TaskState
  <2>4. TaskTyped'
    BY <1>3, <2>1, <2>3
  <2>5. RelayTyped'
    BY <1>1, <2>1, <2>4 DEF RelayTyped, RelayShape, TaskTyped
  <2>6. QED
    BY <2>2, <2>5 DEF Typed
<1>7. CASE ServeSubscribed(c)
  <2>1. /\ OnlyLink(c) /\ Len(conn'[c].q) <= OutLimit /\ task' = On("serving", c, 0) /\ live' = c
        /\ UNCHANGED <<hostSide, cursor, inbox, relay, saved, runs, done, applied>>
    BY <1>7, ServeSubscribedDoes DEF Asks
  <2>2. QueueTyped'
    BY <1>1, <2>1, QueueTypedOnLink
  <2>3. TaskTyped'
    BY <1>2, <1>3, <2>1
  <2>4. RelayTyped'
    BY <1>1, <2>1, <2>3 DEF RelayTyped, RelayShape, TaskTyped
  <2>5. QED
    BY <2>2, <2>4 DEF Typed
<1>8. CASE Forwards(c)
  <2>1. /\ task.at = "serving" /\ OnlyLink(c) /\ Len(conn'[c].q) <= OutLimit
        /\ UNCHANGED <<hostSide, task, live, relay, saved, runs, done, applied>>
    BY <1>8, ForwardsDoes DEF Asks
  <2>2. PICK e \in 1 .. MaxHooks :
          IF e <= cursor.forwarded
          THEN UNCHANGED <<cursor, inbox>>
          ELSE /\ cursor' = [cursor EXCEPT !.forwarded = e]
               /\ inbox' = Append(inbox, [boot |-> conn[c].boot, seq |-> e])
    BY <1>8, ForwardsDoes
  <2>3. QueueTyped'
    BY <1>1, <2>1, QueueTypedOnLink
  <2>4. cursor' \in Cursor
    BY <1>1, <2>2 DEF RelayTyped, Cursor
  <2>5. inbox' \in Seq(Delivery)
    <3>1. PICK s \in Seq(Delivery) : s = inbox
      BY <1>1 DEF RelayTyped
    <3>2. PICK b \in 0 .. MaxBoot : b = conn[c].boot
      BY <1>1, LinkFacts DEF QueueTyped
    <3>3. task.conn = c
      BY <1>8, ForwardsDoes
    <3>4. b \in 1 .. MaxBoot
      BY <3>2, <3>3 DEF Linked
    <3>5. PICK d \in Delivery : d = [boot |-> b, seq |-> e]
      BY <3>4 DEF Delivery
    <3>6. Append(s, d) \in Seq(Delivery)
      OBVIOUS
    <3>7. QED
      BY <2>2, <3>1, <3>2, <3>5, <3>6
  <2>6. RelayTyped'
    BY <1>1, <2>1, <2>4, <2>5 DEF RelayTyped, RelayShape
  <2>7. QED
    BY <2>3, <2>6 DEF Typed
<1>9. CASE ForwardsDropped(c)
  <2>1. /\ OnlyLink(c) /\ Len(conn'[c].q) <= OutLimit /\ UNCHANGED <<hostSide, relayVars>>
    BY <1>9, ForwardsDroppedDoes DEF Asks
  <2>2. QED
    BY <1>1, <2>1, QueueTypedOnLink, RelayTypedKept DEF Typed
<1>10. QED
  BY <1>4, <1>5, <1>6, <1>7, <1>8, <1>9

\* The steps of the relay keep the types.
LEMMA RelayStepsTyped ==
  ASSUME Typed, RelaySteps
  PROVE  Typed'
<1>1. QueueTyped /\ RelayTyped
  BY DEF Typed
<1>2. CASE RelayTakes
  <2>1. /\ relay' \in RelayState /\ relay'.at = "applying" /\ relay'.todo # <<>> /\ inbox' = <<>>
        /\ UNCHANGED <<queueVars, task, live, cursor, saved, runs, done, applied>>
    BY <1>2, RelayTakesDoes
  <2>2. RelayShape'
    BY <2>1 DEF RelayShape
  <2>3. inbox' \in Seq(Delivery)
    BY <2>1
  <2>4. RelayTyped'
    BY <1>1, <2>1, <2>2, <2>3 DEF RelayTyped
  <2>5. QueueTyped'
    BY <1>1, <2>1 DEF QueueTyped, queueVars
  <2>6. QED
    BY <2>4, <2>5 DEF Typed
<1>3. CASE RelayApplies
  <2>1. PICK d \in Delivery :
          /\ applied' = applied \cup {<<d.boot, d.seq>>} /\ done' = d
          /\ relay' \in RelayState /\ relay'.at = "applying" /\ relay'.acks # <<>>
          /\ UNCHANGED <<queueVars, task, live, cursor, inbox, saved, runs>>
    BY <1>3, RelayAppliesDoes
  <2>2. RelayShape'
    BY <2>1 DEF RelayShape
  <2>3. applied' \in SUBSET ((1 .. MaxBoot) \X (1 .. MaxHooks))
    BY <1>1, <2>1, DeliveryFacts DEF RelayTyped
  <2>4. RelayTyped'
    BY <1>1, <2>1, <2>2, <2>3 DEF RelayTyped
  <2>5. QueueTyped'
    BY <1>1, <2>1 DEF QueueTyped, queueVars
  <2>6. QED
    BY <2>4, <2>5 DEF Typed
<1>4. CASE RelayApplied \/ AckRefused
  <2>1. RelayShape'
    BY <1>4, AckStepsDo
  <2>2. UNCHANGED <<queueVars, task, live, cursor, inbox, saved, runs, done, applied>>
    BY <1>4 DEF RelayApplied, AckRefused
  <2>3. QED
    BY <1>1, <2>1, <2>2 DEF Typed, RelayTyped, QueueTyped, queueVars
<1>5. CASE AckRecorded
  <2>1. RelayShape'
    BY <1>5, AckStepsDo
  <2>2. /\ relay.at = "record"
        /\ cursor' = [cursor EXCEPT !.acked = IF Head(relay.acks).seq > @ THEN Head(relay.acks).seq ELSE @]
        /\ UNCHANGED <<queueVars, task, live, inbox, saved, runs, done, applied>>
    BY <1>5 DEF AckRecorded
  <2>3. cursor' \in Cursor
    <3>1. PICK d \in Delivery : d = Head(relay.acks)
      BY <1>1, <2>2, HeadAck
    <3>2. d.seq \in 0 .. MaxHooks
      BY DeliveryFacts, HookAssumption
    <3>3. QED
      BY <1>1, <2>2, <3>1, <3>2 DEF RelayTyped, Cursor
  <2>4. RelayTyped'
    BY <1>1, <2>1, <2>2, <2>3 DEF RelayTyped
  <2>5. QueueTyped'
    BY <1>1, <2>2 DEF QueueTyped, queueVars
  <2>6. QED
    BY <2>4, <2>5 DEF Typed
<1>6. CASE AckSent \/ AckAnswered
  <2>1. RelayShape'
    BY <1>6, AckStepsDo
  <2>2. /\ conn' = conn \/ \E c \in Conns : OnlyLink(c) /\ Len(conn'[c].q) <= OutLimit
        /\ UNCHANGED <<hostSide, task, live, cursor, inbox, saved, runs, done, applied>>
    BY <1>6, AckSentDoes, AckAnsweredDoes DEF Asks
  <2>3. QueueTyped'
    BY <1>1, <2>2, QueueTypedOnLink
  <2>4. RelayTyped'
    BY <1>1, <2>1, <2>2 DEF RelayTyped
  <2>5. QED
    BY <2>3, <2>4 DEF Typed
<1>7. CASE Saves
  <2>1. RelayShape'
    BY <1>7, AckStepsDo
  <2>2. /\ relay.at = "save" /\ saved' = Head(relay.acks)
        /\ UNCHANGED <<queueVars, task, live, cursor, inbox, runs, done, applied>>
    BY <1>7 DEF Saves
  <2>3. saved' \in Delivery
    BY <1>1, <2>2, HeadAck
  <2>4. QED
    BY <1>1, <2>1, <2>2, <2>3 DEF Typed, RelayTyped, QueueTyped, queueVars
<1>8. QED
  BY <1>2, <1>3, <1>4, <1>5, <1>6, <1>7 DEF RelaySteps

\* The loss of a link keeps the types.
LEMMA LinkLostTyped ==
  ASSUME Typed, LinkEnds \/ LinkBreaks
  PROVE  Typed'
<1>1. task' = Down /\ live' = NoConn /\ UNCHANGED <<queueVars, cursor, inbox, relay, saved, runs, done, applied>>
  BY DEF LinkEnds, LinkBreaks, LetGo
<1>2. QED
  BY <1>1, DownFacts DEF Typed, RelayTyped, RelayShape, QueueTyped, queueVars

\* A restart of the app keeps the types.
LEMMA AppRestartsTyped ==
  ASSUME Typed, AppRestarts
  PROVE  Typed'
<1>1. /\ task' = Down /\ live' = NoConn /\ runs' = runs + 1
      /\ cursor' = [boot |-> saved.boot, acked |-> saved.seq, forwarded |-> saved.seq]
      /\ inbox' = <<>> /\ relay' = Waiting /\ done' = Nothing
      /\ UNCHANGED <<queueVars, saved, applied>>
  BY DEF AppRestarts, LetGo
<1>2. cursor' \in Cursor
  <2>1. saved.boot \in 0 .. MaxBoot /\ saved.seq \in 0 .. MaxHooks
    BY DeliveryFacts, HookAssumption DEF Typed, RelayTyped, Nothing
  <2>2. QED
    BY <1>1, <2>1 DEF Cursor
<1>3. RelayShape'
  BY <1>1, BatchFacts DEF RelayShape
<1>4. inbox' \in Seq(Delivery) /\ runs' \in Nat
  BY <1>1 DEF Typed, RelayTyped
<1>5. RelayTyped'
  BY <1>1, <1>2, <1>3, <1>4, DownFacts DEF Typed, RelayTyped
<1>6. QueueTyped'
  BY <1>1 DEF Typed, QueueTyped, queueVars
<1>7. QED
  BY <1>5, <1>6 DEF Typed

\* Every step keeps the types.
LEMMA StepTyped ==
  ASSUME Typed, Linked, HookNext
  PROVE  Typed'
<1>1. CASE UNCHANGED relayVars /\ (\/ \E n \in 0 .. QueueCap : Push(n)
                                   \/ \E c \in Conns : HandlesAck(c) \/ Subscribing(c)
                                   \/ \E c \in Conns : HostCloses(c) \/ TeardownEnds(c)
                                   \/ HostRestarts)
  <2>1. QueueTyped'
    BY <1>1, PushTyped, HostStepsTyped, EndsTyped, RestartTyped DEF Typed
  <2>2. RelayTyped'
    BY <1>1, RelayTypedKept DEF Typed
  <2>3. QED
    BY <2>1, <2>2 DEF Typed
<1>2. CASE LinkSteps
  BY <1>2, LinkStepsTyped DEF LinkSteps
<1>3. CASE LinkEnds \/ LinkBreaks
  BY <1>3, LinkLostTyped
<1>4. CASE RelaySteps
  BY <1>4, RelayStepsTyped
<1>5. CASE AppRestarts
  BY <1>5, AppRestartsTyped
<1>6. QED
  BY <1>1, <1>2, <1>3, <1>4, <1>5 DEF HookNext, HostSteps

-----------------------------------------------------------------------------
\* The links that are up, and what is in hand ascends.

\* Linked, of one link.
LinkedOne(c) ==
  /\ conn[c].boot <= boot
  /\ conn[c].st = "unused" => conn[c] = Unused /\ sub[c] = Idle /\ subscriber # c /\ task.conn # c
  /\ conn[c].st # "unused" => conn[c].boot >= 1
  /\ conn[c].st = "gone" => conn[c].q = <<>>
  /\ conn[c].st \in {"open", "closed"} => conn[c].boot = boot
\* ... and of the link served.
LinkedTask ==
  /\ task.at = "greeted" => cursor.boot <= conn[task.conn].boot
  /\ task.at \in {"acking", "subscribing", "serving"} => cursor.boot = conn[task.conn].boot
BootsBehind ==
  /\ cursor.boot <= boot /\ saved.boot <= boot
  /\ \A i \in 1 .. Len(InHand) : InHand[i].boot <= boot
  /\ \A i \in 1 .. Len(Acks) : Acks[i].boot <= boot

\* The parts of Linked: each link's, the task's, and that no boot is ahead.
LEMMA LinkedParts == Linked <=> (\A c \in Conns : LinkedOne(c)) /\ LinkedTask /\ BootsBehind
BY DEF Linked, LinkedOne, LinkedTask, BootsBehind
\* And in the next state.
LEMMA LinkedPartsNext == Linked' <=> (\A c \in Conns : LinkedOne(c)') /\ LinkedTask' /\ BootsBehind'
BY DEF Linked, LinkedOne, LinkedTask, BootsBehind

\* Every link is of the state and boot it was, and one that is not used stays as it is.
LinksKept ==
  /\ boot' = boot
  /\ \A d \in Conns :
       /\ conn'[d].boot = conn[d].boot /\ conn'[d].st = conn[d].st
       /\ conn[d].st = "unused" => conn'[d] = conn[d] /\ sub'[d] = sub[d] /\ subscriber' # d /\ task'.conn # d
       /\ conn[d].st = "gone" => conn'[d].q = <<>>

\* A step that leaves boots, and what is up, alone keeps Linked.
LEMMA KeptIsLinked ==
  ASSUME Linked, LinksKept
  PROVE  \A d \in Conns : LinkedOne(d)'
<1> SUFFICES ASSUME NEW d \in Conns PROVE LinkedOne(d)'
  OBVIOUS
<1>1. LinkedOne(d)
  BY LinkedParts
<1>2. QED
  BY <1>1 DEF LinkedOne, LinksKept

\* No boot gets ahead when the task, the cursor and what is in hand stay.
LEMMA BootsKept ==
  ASSUME Typed, Linked, boot' = boot, UNCHANGED <<task, cursor, saved>>,
         InHand' = InHand, Acks' = Acks, \A d \in Conns : conn'[d].boot = conn[d].boot
  PROVE  LinkedTask' /\ BootsBehind'
<1>1. LinkedTask /\ BootsBehind
  BY LinkedParts
<1>2. BootsBehind'
  BY <1>1 DEF BootsBehind
<1>3. task.at \in {"greeted", "acking", "subscribing", "serving"} => task.conn \in Conns
  BY DEF Typed, RelayTyped, TaskState
<1>4. LinkedTask'
  BY <1>1, <1>3 DEF LinkedTask
<1>5. QED
  BY <1>2, <1>4

\* What the host sends on a link that was used.
LEMMA SendsKeeps ==
  ASSUME Linked, NEW c \in Conns, NEW lines, NEW ok, Sends(c, lines, ok),
         conn[c].st # "unused", boot' = boot, task' = task,
         \A d \in Conns : d # c => sub'[d] = sub[d],
         subscriber' \in {subscriber, c, NoConn}
  PROVE  LinksKept
<1> SUFFICES ASSUME NEW d \in Conns
             PROVE  /\ conn'[d].boot = conn[d].boot /\ conn'[d].st = conn[d].st
                    /\ conn[d].st = "unused" =>
                         conn'[d] = conn[d] /\ sub'[d] = sub[d] /\ subscriber' # d /\ task'.conn # d
                    /\ conn[d].st = "gone" => conn'[d].q = <<>>
  BY DEF LinksKept
<1>1. LinkedOne(d) /\ d # NoConn
  BY LinkedParts, HookAssumption
<1>2. QED
  BY <1>1 DEF Sends, OnlyLink, LinkedOne

\* A step of the host's leaves what the app has alone.
LEMMA HandKept ==
  ASSUME UNCHANGED relayVars
  PROVE  InHand' = InHand /\ Acks' = Acks /\ UNCHANGED <<task, live, cursor, inbox, relay, saved, runs, done, applied>>
BY DEF InHand, Acks, relayVars

\* The host's handlers keep Linked.
LEMMA HostStepsLinked ==
  ASSUME Typed, Linked, UNCHANGED relayVars, NEW c \in Conns, HandlesAck(c) \/ Subscribing(c)
  PROVE  Linked'
<1>1. LinkedOne(c) /\ QueueTyped
  BY LinkedParts DEF Typed
<1>2. InHand' = InHand /\ Acks' = Acks /\ UNCHANGED <<task, cursor, saved>>
  BY HandKept
<1>3. LinksKept
  <2>1. CASE HandlesAck(c)
    <3>1. PICK lines, ok : /\ Sends(c, lines, ok) /\ UNCHANGED <<boot, subscriber, sub>>
                           /\ conn[c].asked # {}
      BY <2>1, HandlesAckDoes
    <3>2. conn[c].st # "unused"
      BY <1>1, <3>1 DEF LinkedOne, Unused
    <3>3. QED
      BY <1>2, <3>1, <3>2, SendsKeeps
  <2>2. CASE HandlesSubscribe(c)
    <3>1. PICK r \in conn[c].asked, lines \in Seq(Line), ok \in BOOLEAN :
            /\ Sends(c, lines, ok) /\ UNCHANGED <<boot, subscriber>>
            /\ sub' = [sub EXCEPT ![c] = IF ok THEN Looping(r.after) ELSE Idle]
      BY <2>2, HandlesSubscribeDoes
    <3>2. conn[c].st # "unused"
      BY <1>1, <3>1 DEF LinkedOne, Unused
    <3>3. \A d \in Conns : d # c => sub'[d] = sub[d]
      BY <1>1, <3>1 DEF QueueTyped
    <3>4. QED
      BY <1>2, <3>1, <3>2, <3>3, SendsKeeps
  <2>3. CASE BacklogEnds(c)
    <3>1. PICK lines \in Seq(Line), ok \in BOOLEAN :
            /\ Sends(c, lines, ok) /\ boot' = boot /\ subscriber' = IF ok THEN c ELSE NoConn
            /\ sub[c].at = "loop" /\ sub' = [sub EXCEPT ![c] = Idle]
      BY <2>3, BacklogEndsDoes
    <3>2. conn[c].st # "unused"
      BY <1>1, <3>1 DEF LinkedOne, Idle
    <3>3. \A d \in Conns : d # c => sub'[d] = sub[d]
      BY <1>1, <3>1 DEF QueueTyped
    <3>4. QED
      BY <1>2, <3>1, <3>2, <3>3, SendsKeeps
  <2>4. CASE BacklogTakes(c)
    <3>1. PICK x : /\ UNCHANGED <<boot, subscriber, conn>>
                   /\ sub[c].at = "loop" /\ sub' = [sub EXCEPT ![c] = x]
      BY <2>4, BacklogTakesDoes
    <3>2. conn[c].st # "unused"
      BY <1>1, <3>1 DEF LinkedOne, Idle
    <3>3. \A d \in Conns : d # c => sub'[d] = sub[d]
      BY <1>1, <3>1 DEF QueueTyped
    <3>4. \A d \in Conns : LinkedOne(d)
      BY LinkedParts
    <3>5. QED
      BY <1>2, <3>1, <3>2, <3>3, <3>4 DEF LinksKept, LinkedOne
  <2>5. CASE BacklogSends(c)
    <3>1. PICK lines, ok, x : /\ Sends(c, lines, ok) /\ UNCHANGED <<boot, subscriber>>
                              /\ sub[c].at = "sending" /\ sub' = [sub EXCEPT ![c] = x]
      BY <2>5, BacklogSendsDoes
    <3>2. conn[c].st # "unused"
      BY <1>1, <3>1 DEF LinkedOne, Idle
    <3>3. \A d \in Conns : d # c => sub'[d] = sub[d]
      BY <1>1, <3>1 DEF QueueTyped
    <3>4. QED
      BY <1>2, <3>1, <3>2, <3>3, SendsKeeps
  <2>6. QED
    BY <2>1, <2>2, <2>3, <2>4, <2>5 DEF Subscribing
<1>4. boot' = boot /\ \A d \in Conns : conn'[d].boot = conn[d].boot
  BY <1>3 DEF LinksKept
<1>5. QED
  BY <1>2, <1>3, <1>4, KeptIsLinked, BootsKept, LinkedPartsNext

\* A push keeps Linked.
LEMMA PushLinked ==
  ASSUME Typed, Linked, UNCHANGED relayVars, NEW n \in 0 .. QueueCap, Push(n)
  PROVE  Linked'
<1>1. InHand' = InHand /\ Acks' = Acks /\ UNCHANGED <<task, cursor, saved>>
  BY HandKept
<1>2. ToSubscriber /\ UNCHANGED <<boot, sub>>
  BY PushDoes
<1>3. \A d \in Conns : LinkedOne(d)
  BY LinkedParts
<1>4. LinksKept
  <2>1. CASE subscriber = NoConn
    BY <1>1, <1>2, <1>3, <2>1, HookAssumption DEF ToSubscriber, LinksKept, LinkedOne
  <2>2. CASE subscriber # NoConn
    <3>1. PICK c \in Conns : c = subscriber
      BY <2>2 DEF Typed, QueueTyped
    <3>2. PICK lines, ok : Sends(c, lines, ok) /\ subscriber' \in {c, NoConn}
      BY <1>2, <2>2, <3>1 DEF ToSubscriber
    <3>3. conn[c].st # "unused"
      BY <1>3, <3>1 DEF LinkedOne
    <3>4. QED
      BY <1>1, <1>2, <3>2, <3>3, SendsKeeps
  <2>3. QED
    BY <2>1, <2>2
<1>5. boot' = boot /\ \A d \in Conns : conn'[d].boot = conn[d].boot
  BY <1>4 DEF LinksKept
<1>6. QED
  BY <1>1, <1>4, <1>5, KeptIsLinked, BootsKept, LinkedPartsNext

\* The ends of connections keep Linked.
LEMMA EndsLinked ==
  ASSUME Typed, Linked, UNCHANGED relayVars, NEW c \in Conns, HostCloses(c) \/ TeardownEnds(c)
  PROVE  Linked'
<1>1. InHand' = InHand /\ Acks' = Acks /\ UNCHANGED <<task, cursor, saved>>
  BY HandKept
<1>2. /\ OnlyLink(c) /\ conn'[c].boot = conn[c].boot /\ conn[c].st # "unused" /\ conn'[c].st # "unused"
      /\ conn[c].st \in {"open", "closed"} /\ conn'[c].st \in {"closed", "gone"}
      /\ conn'[c].st = "gone" => conn'[c].q = <<>>
      /\ boot' = boot /\ subscriber' \in {subscriber, NoConn} /\ sub' = sub
  BY HostClosesDoes, TeardownEndsDoes DEF Typed
<1>3. ASSUME NEW d \in Conns PROVE LinkedOne(d)'
  <2>1. LinkedOne(d) /\ d # NoConn
    BY LinkedParts, HookAssumption
  <2>2. CASE d = c
    BY <1>2, <2>1, <2>2 DEF LinkedOne
  <2>3. CASE d # c
    BY <1>1, <1>2, <2>1, <2>3 DEF LinkedOne, OnlyLink
  <2>4. QED
    BY <2>2, <2>3
<1>4. boot' = boot /\ \A d \in Conns : conn'[d].boot = conn[d].boot
  BY <1>2 DEF OnlyLink
<1>5. QED
  BY <1>1, <1>3, <1>4, BootsKept, LinkedPartsNext

\* A restart of the host keeps Linked.
LEMMA RestartLinked ==
  ASSUME Typed, Linked, UNCHANGED relayVars, HostRestarts
  PROVE  Linked'
<1>1. InHand' = InHand /\ Acks' = Acks /\ UNCHANGED <<task, cursor, saved>>
  BY HandKept
<1>2. /\ boot' = boot + 1 /\ subscriber' = NoConn /\ sub' = [c \in Conns |-> Idle]
      /\ \A c \in Conns :
           /\ conn[c].st = "unused" => conn'[c] = Unused
           /\ conn[c].st # "unused" => conn'[c].st = "gone" /\ conn'[c].boot = conn[c].boot
           /\ conn'[c].q = <<>>
  BY HostRestartsDoes DEF Typed
<1>3. boot \in Nat /\ MaxBoot \in Nat
  BY HookAssumption DEF Typed, QueueTyped
<1>4. ASSUME NEW d \in Conns PROVE LinkedOne(d)'
  <2>1. LinkedOne(d) /\ d # NoConn /\ conn[d].boot \in Nat
    BY LinkedParts, HookAssumption, LinkFacts DEF Typed, QueueTyped
  <2>2. CASE conn[d].st = "unused"
    <3>1. conn'[d] = Unused /\ Unused.st = "unused" /\ Unused.boot = 0
      BY <1>2, <2>2 DEF Unused
    <3>2. QED
      BY <1>1, <1>2, <1>3, <2>1, <2>2, <3>1 DEF LinkedOne
  <2>3. CASE conn[d].st # "unused"
    BY <1>1, <1>2, <1>3, <2>1, <2>3 DEF LinkedOne
  <2>4. QED
    BY <2>2, <2>3
<1>5. ASSUME NEW d \in Conns PROVE conn'[d].boot = conn[d].boot
  <2>1. LinkedOne(d)
    BY LinkedParts
  <2>2. QED
    BY <1>2, <2>1 DEF LinkedOne, Unused
<1>6. LinkedTask'
  <2>1. task.at \in {"greeted", "acking", "subscribing", "serving"} => task.conn \in Conns
    BY DEF Typed, RelayTyped, TaskState
  <2>2. LinkedTask
    BY LinkedParts
  <2>3. QED
    BY <1>1, <1>5, <2>1, <2>2 DEF LinkedTask
<1>7. BootsBehind'
  <2>1. BootsBehind /\ InHand \in Seq(Delivery) /\ Acks \in Seq(Delivery)
    BY LinkedParts, RelayFacts DEF Typed
  <2>2. /\ \A i \in 1 .. Len(InHand) : InHand[i].boot \in Nat
        /\ \A i \in 1 .. Len(Acks) : Acks[i].boot \in Nat
    <3>1. \A s \in Seq(Delivery) : \A i \in 1 .. Len(s) : s[i].boot \in Nat
      <4> SUFFICES ASSUME NEW s \in Seq(Delivery), NEW i \in 1 .. Len(s) PROVE s[i].boot \in Nat
        OBVIOUS
      <4>1. s[i] \in Delivery
        BY SeqFacts
      <4>2. QED
        BY <4>1, DeliveryFacts
    <3>2. QED
      BY <2>1, <3>1
  <2>3. cursor.boot \in Nat /\ saved.boot \in Nat
    BY DeliveryFacts DEF Typed, RelayTyped, Cursor, Nothing
  <2>4. QED
    BY <1>1, <1>2, <1>3, <2>1, <2>2, <2>3 DEF BootsBehind
<1>8. QED
  BY <1>4, <1>6, <1>7, LinkedPartsNext

\* What RemoteHost and the relay do on a link.
LEMMA AsksKeeps ==
  ASSUME Linked, NEW c \in Conns, NEW reqs, Asks(c, reqs), Reads(c) \/ conn'[c].q = conn[c].q,
         UNCHANGED hostSide, task' = task \/ (conn[c].st # "unused" /\ task'.conn = c)
  PROVE  LinksKept
<1> SUFFICES ASSUME NEW d \in Conns
             PROVE  /\ conn'[d].boot = conn[d].boot /\ conn'[d].st = conn[d].st
                    /\ conn[d].st = "unused" =>
                         conn'[d] = conn[d] /\ sub'[d] = sub[d] /\ subscriber' # d /\ task'.conn # d
                    /\ conn[d].st = "gone" => conn'[d].q = <<>>
  BY DEF LinksKept, hostSide
<1>1. LinkedOne(d) /\ LinkedOne(c)
  BY LinkedParts
<1>2. conn[c].st \in {"unused", "gone"} => conn'[c].q = conn[c].q
  BY <1>1 DEF LinkedOne, Unused, Reads
<1>3. conn[c].st = "unused" => conn'[c] = conn[c]
  BY <1>2 DEF Asks
<1>4. UNCHANGED <<sub, subscriber>>
  BY DEF hostSide
<1>5. CASE d = c
  BY <1>1, <1>2, <1>3, <1>4, <1>5 DEF Asks, LinkedOne
<1>6. CASE d # c
  BY <1>1, <1>4, <1>6 DEF Asks, OnlyLink, LinkedOne
<1>7. QED
  BY <1>5, <1>6

\* Linked is kept when links are, the task is on a link of its boot, and no boot gets ahead.
LEMMA LinkedAgain ==
  ASSUME Typed, Linked, LinksKept,
         \/ task' = task /\ cursor'.boot = cursor.boot
         \/ task'.at = "down"
         \/ task'.at # "greeted" /\ task'.conn \in Conns /\ cursor'.boot = conn[task'.conn].boot,
         cursor'.boot <= boot, saved'.boot <= boot,
         \A i \in 1 .. Len(InHand') : InHand'[i].boot <= boot,
         \A i \in 1 .. Len(Acks') : Acks'[i].boot <= boot
  PROVE  Linked'
<1>1. \A d \in Conns : LinkedOne(d)'
  BY KeptIsLinked
<1>2. BootsBehind'
  BY DEF BootsBehind, LinksKept
<1>3. LinkedTask'
  <2>1. task.at \in {"greeted", "acking", "subscribing", "serving"} => task.conn \in Conns
    BY DEF Typed, RelayTyped, TaskState
  <2>2. LinkedTask
    BY LinkedParts
  <2>3. \A d \in Conns : conn'[d].boot = conn[d].boot
    BY DEF LinksKept
  <2>4. CASE task' = task /\ cursor'.boot = cursor.boot
    BY <2>1, <2>2, <2>3, <2>4 DEF LinkedTask
  <2>5. CASE task'.at = "down"
    BY <2>5 DEF LinkedTask
  <2>6. CASE task'.at # "greeted" /\ task'.conn \in Conns /\ cursor'.boot = conn[task'.conn].boot
    BY <2>3, <2>6 DEF LinkedTask
  <2>7. QED
    BY <2>4, <2>5, <2>6
<1>4. QED
  BY <1>1, <1>2, <1>3, LinkedPartsNext

\* A new link keeps Linked.
LEMMA ConnectsLinked ==
  ASSUME Typed, Linked, NEW c \in Conns, Connects(c)
  PROVE  Linked'
<1>1. /\ task = Down /\ conn[c].st = "unused" /\ OnlyLink(c)
      /\ conn'[c].st = "open" /\ conn'[c].boot = boot
      /\ task' = On("greeted", c, 0)
      /\ UNCHANGED <<hostSide, live, cursor, inbox, relay, saved, runs, done, applied>>
  BY ConnectsDoes
<1>2. UNCHANGED <<boot, sub, subscriber>> /\ InHand' = InHand /\ Acks' = Acks
  BY <1>1 DEF hostSide, InHand, Acks
<1>3. task'.at = "greeted" /\ task'.conn = c
  BY <1>1, OnFacts, HookAssumption
<1>4. LinkedTask /\ BootsBehind
  BY LinkedParts
<1>5. ASSUME NEW d \in Conns PROVE LinkedOne(d)'
  <2>1. LinkedOne(d) /\ boot \in 1 .. MaxBoot
    BY LinkedParts DEF Typed, QueueTyped
  <2>2. CASE d = c
    BY <1>1, <1>2, <2>1, <2>2 DEF LinkedOne
  <2>3. CASE d # c
    BY <1>1, <1>2, <1>3, <2>1, <2>3 DEF LinkedOne, OnlyLink
  <2>4. QED
    BY <2>2, <2>3
<1>6. BootsBehind'
  BY <1>1, <1>2, <1>4 DEF BootsBehind
<1>7. LinkedTask'
  BY <1>1, <1>2, <1>3, <1>4 DEF LinkedTask, BootsBehind
<1>8. QED
  BY <1>5, <1>6, <1>7, LinkedPartsNext

\* The steps of the link's task keep Linked.
LEMMA LinkStepsLinked ==
  ASSUME Typed, Linked, NEW c \in Conns,
         ServeBegins(c) \/ ServeAcked(c) \/ ServeSubscribed(c) \/ Forwards(c) \/ ForwardsDropped(c)
  PROVE  Linked'
<1> DEFINE Served ==
      /\ LinksKept /\ task'.at # "greeted" /\ task'.conn = c /\ cursor'.boot = conn[c].boot /\ saved' = saved
      /\ Acks' = Acks
      /\ InHand' = InHand \/ \E d \in Delivery : d.boot = conn[c].boot /\ HandGrows(d)
<1>0. task.conn = c /\ conn[c].st # "unused" /\ conn[c].boot <= boot /\ BootsBehind /\ LinkedTask /\ task.after \in 0 .. MaxHooks
  <2>1. task.conn = c
    BY DEF ServeBegins, ServeAcked, ServeSubscribed, Forwards, ForwardsDropped
  <2>2. LinkedOne(c) /\ task.after \in 0 .. MaxHooks
    BY LinkedParts DEF Typed, RelayTyped, TaskState
  <2>3. QED
    BY <2>1, <2>2, LinkedParts DEF LinkedOne
<1>1. Served => Linked'
  <2> SUFFICES ASSUME Served PROVE Linked'
    OBVIOUS
  <2>1. \A i \in 1 .. Len(InHand') : InHand'[i].boot <= boot
    <3>1. CASE InHand' = InHand
      BY <1>0, <3>1 DEF BootsBehind
    <3>2. CASE \E d \in Delivery : d.boot = conn[c].boot /\ HandGrows(d)
      <4>1. PICK d \in Delivery : d.boot = conn[c].boot /\ HandGrows(d)
        BY <3>2
      <4>2. Len(InHand) \in Nat
        BY RelayFacts DEF Typed
      <4>3. QED
        BY <1>0, <4>1, <4>2 DEF BootsBehind, HandGrows
    <3>3. QED
      BY <3>1, <3>2
  <2>2. QED
    BY <1>0, <2>1, LinkedAgain DEF BootsBehind
<1>2. CASE ServeBegins(c)
  <2>1. /\ cursor' = Resumed(conn[c].boot)
        /\ \E r \in Request :
             /\ Asks(c, {r}) /\ conn'[c].q = conn[c].q
             /\ \/ task' = On("acking", c, cursor'.acked)
                \/ task' = On("subscribing", c, 0)
        /\ UNCHANGED <<hostSide, live, inbox, relay, saved, runs, done, applied>>
    BY <1>2, ServeBeginsDoes
  <2>2. conn[c].boot \in 0 .. MaxBoot
    BY LinkFacts DEF Typed, QueueTyped
  <2>3. cursor'.boot = conn[c].boot /\ cursor'.acked \in 0 .. MaxHooks
    BY <2>1, <2>2, ResumedFacts DEF Typed
  <2>4. task'.at # "greeted" /\ task'.conn = c
    BY <2>1, <2>3, OnFacts, HookAssumption
  <2>5. LinksKept
    BY <1>0, <2>1, <2>4, AsksKeeps
  <2>6. QED
    BY <1>1, <2>1, <2>3, <2>4, <2>5 DEF InHand, Acks
<1>3. CASE ServeAcked(c) \/ ServeSubscribed(c)
  <2>1. /\ task.at \in {"acking", "subscribing"} /\ \E reqs : Asks(c, reqs) /\ Reads(c)
        /\ task' = On("subscribing", c, task.after) \/ task' = On("serving", c, 0)
        /\ UNCHANGED <<hostSide, cursor, inbox, relay, saved, runs, done, applied>>
    BY <1>3, ServeAckedDoes, ServeSubscribedDoes
  <2>2. task'.at # "greeted" /\ task'.conn = c
    BY <1>0, <2>1, OnFacts, HookAssumption
  <2>3. LinksKept
    BY <1>0, <2>1, <2>2, AsksKeeps
  <2>4. cursor'.boot = conn[c].boot
    BY <1>0, <2>1 DEF LinkedTask
  <2>5. QED
    BY <1>1, <2>1, <2>2, <2>3, <2>4 DEF InHand, Acks
<1>4. CASE Forwards(c)
  <2>1. /\ task.at = "serving" /\ task.conn = c /\ Asks(c, {}) /\ Reads(c)
        /\ UNCHANGED <<hostSide, task, live, relay, saved, runs, done, applied>>
    BY <1>4, ForwardsDoes
  <2>2. LinksKept
    BY <1>0, <2>1, AsksKeeps
  <2>3. PICK e \in 1 .. MaxHooks :
          IF e <= cursor.forwarded
          THEN UNCHANGED <<cursor, inbox>>
          ELSE /\ cursor' = [cursor EXCEPT !.forwarded = e]
               /\ inbox' = Append(inbox, [boot |-> conn[c].boot, seq |-> e])
    BY <1>4, ForwardsDoes
  <2>4. cursor.boot = conn[c].boot
    BY <1>0, <2>1 DEF LinkedTask
  <2>5. cursor'.boot = cursor.boot
    BY <2>3 DEF Typed, RelayTyped, Cursor
  <2>6. CASE e <= cursor.forwarded
    BY <1>1, <2>1, <2>2, <2>3, <2>4, <2>5, <2>6 DEF InHand, Acks
  <2>7. CASE ~(e <= cursor.forwarded)
    <3>1. conn[c].boot \in 1 .. MaxBoot
      <4>1. conn[c].boot \in 0 .. MaxBoot /\ LinkedOne(c)
        BY LinkedParts, LinkFacts DEF Typed, QueueTyped
      <4>2. QED
        BY <1>0, <4>1, HookAssumption DEF LinkedOne
    <3>2. PICK d \in Delivery : d = [boot |-> conn[c].boot, seq |-> e]
      BY <3>1 DEF Delivery
    <3>3. inbox' = Append(inbox, d) /\ d.boot = conn[c].boot
      BY <2>3, <2>7, <3>2
    <3>4. HandGrows(d) /\ Acks' = Acks
      BY <2>1, <3>3, ForwardsGrows
    <3>5. QED
      BY <1>1, <2>1, <2>2, <2>4, <2>5, <3>3, <3>4
  <2>8. QED
    BY <2>6, <2>7
<1>5. CASE ForwardsDropped(c)
  <2>1. /\ task.at = "serving" /\ Asks(c, {}) /\ Reads(c) /\ UNCHANGED <<hostSide, relayVars>>
    BY <1>5, ForwardsDroppedDoes
  <2>2. LinksKept
    BY <1>0, <2>1, AsksKeeps DEF relayVars
  <2>3. UNCHANGED <<task, cursor, inbox, relay, saved>>
    BY <2>1 DEF relayVars
  <2>4. QED
    BY <1>0, <1>1, <2>1, <2>2, <2>3 DEF InHand, Acks, LinkedTask
<1>6. QED
  BY <1>2, <1>3, <1>4, <1>5

\* The steps of an ack keep Linked.
LEMMA AckStepsLinked ==
  ASSUME Typed, Linked, RelayApplied \/ AckRefused \/ AckRecorded \/ AckSent \/ AckAnswered \/ Saves
  PROVE  Linked'
<1>1. InHand' = InHand /\ AcksKept /\ BootsBehind
  BY AckStepsDo, LinkedParts
<1>2. \A i \in 1 .. Len(InHand') : InHand'[i].boot <= boot
  BY <1>1 DEF BootsBehind
<1>3. \A i \in 1 .. Len(Acks') : Acks'[i].boot <= boot
  BY <1>1 DEF BootsBehind, AcksKept
<1>4. task' = task /\ cursor'.boot = cursor.boot /\ cursor'.boot <= boot /\ saved'.boot <= boot
  <2>1. CASE RelayApplied \/ AckRefused
    BY <1>1, <2>1 DEF RelayApplied, AckRefused, BootsBehind
  <2>2. CASE AckRecorded
    BY <1>1, <2>2 DEF AckRecorded, BootsBehind, Typed, RelayTyped, Cursor
  <2>3. CASE AckSent \/ AckAnswered
    BY <1>1, <2>3, AckSentDoes, AckAnsweredDoes DEF BootsBehind
  <2>4. CASE Saves
    <3>1. saved' = Acks[1] /\ 1 \in 1 .. Len(Acks)
      BY <2>4, HeadAck DEF Saves, Typed
    <3>2. QED
      BY <1>1, <2>4, <3>1 DEF Saves, BootsBehind
  <2>5. QED
    BY <2>1, <2>2, <2>3, <2>4
<1>5. LinksKept
  <2>1. CASE UNCHANGED <<conn, boot, sub, subscriber>>
    <3>1. \A d \in Conns : LinkedOne(d)
      BY LinkedParts
    <3>2. QED
      BY <1>4, <2>1, <3>1 DEF LinksKept, LinkedOne
  <2>2. CASE AckSent
    <3>1. UNCHANGED hostSide
      BY <2>2, AckSentDoes
    <3>2. CASE conn' = conn
      BY <2>1, <3>1, <3>2 DEF hostSide
    <3>3. CASE conn' # conn
      <4>1. PICK c \in Conns : \E reqs : Asks(c, reqs) /\ conn'[c].q = conn[c].q
        BY <2>2, <3>3, AckSentDoes
      <4>2. PICK reqs : Asks(c, reqs)
        BY <4>1
      <4>3. QED
        BY <1>4, <3>1, <4>1, <4>2, AsksKeeps
    <3>4. QED
      BY <3>2, <3>3
  <2>3. CASE AckAnswered
    <3>1. UNCHANGED hostSide
      BY <2>3, AckAnsweredDoes
    <3>2. CASE conn' = conn
      BY <2>1, <3>1, <3>2 DEF hostSide
    <3>3. CASE conn' # conn
      <4>1. PICK c \in Conns : Asks(c, {}) /\ Reads(c)
        BY <2>3, <3>3, AckAnsweredDoes
      <4>2. QED
        BY <1>4, <3>1, <4>1, AsksKeeps
    <3>4. QED
      BY <3>2, <3>3
  <2>4. CASE RelayApplied \/ AckRefused \/ AckRecorded \/ Saves
    BY <2>1, <2>4 DEF RelayApplied, AckRefused, AckRecorded, Saves, queueVars
  <2>5. QED
    BY <2>2, <2>3, <2>4
<1>6. QED
  BY <1>2, <1>3, <1>4, <1>5, LinkedAgain

\* Links stay linked in a step that leaves the host alone and takes the task to no other link.
LEMMA AloneKeeps ==
  ASSUME Linked, UNCHANGED queueVars, task' = task \/ task'.conn = NoConn
  PROVE  LinksKept
<1>1. UNCHANGED <<conn, boot, sub, subscriber>> /\ \A d \in Conns : LinkedOne(d) /\ d # NoConn
  BY LinkedParts, HookAssumption DEF queueVars
<1>2. QED
  BY <1>1 DEF LinksKept, LinkedOne

\* Taking and applying keep Linked.
LEMMA BatchLinked ==
  ASSUME Typed, Linked, RelayTakes \/ RelayApplies
  PROVE  Linked'
<1>0. InHand \in Seq(Delivery) /\ Acks \in Seq(Delivery) /\ BootsBehind
  BY RelayFacts, LinkedParts DEF Typed
<1>1. UNCHANGED <<queueVars, task, cursor, saved>>
  BY RelayTakesDoes, RelayAppliesDoes
<1>2. LinksKept
  BY <1>1, AloneKeeps
<1>3. CASE RelayTakes
  <2>1. InHand' = InHand /\ Len(Acks') = 0
    BY <1>3, RelayTakesDoes
  <2>2. QED
    BY <1>0, <1>1, <1>2, <2>1, LinkedAgain DEF BootsBehind
<1>4. CASE RelayApplies
  <2>1. PICK d \in Delivery, acks \in Seq(Delivery) :
          /\ d = InHand[1] /\ HandShifts /\ acks = Acks /\ Acks' = Merged(acks, d)
    BY <1>4, RelayAppliesDoes
  <2>2. Len(InHand) \in Nat
    BY <1>0
  <2>3. d.boot <= boot /\ \A i \in 1 .. Len(InHand') : InHand'[i].boot <= boot
    <3>1. \A i \in 1 .. Len(InHand) : InHand[i].boot <= boot
      BY <1>0 DEF BootsBehind
    <3>2. \A i \in 1 .. Len(InHand') : i + 1 \in 1 .. Len(InHand) /\ InHand'[i] = InHand[i + 1]
      BY <2>1, <2>2 DEF HandShifts
    <3>3. 1 \in 1 .. Len(InHand)
      BY <2>1, <2>2 DEF HandShifts
    <3>4. QED
      BY <2>1, <3>1, <3>2, <3>3
  <2>4. \A i \in 1 .. Len(Acks') : Acks'[i].boot <= boot
    <3>1. \A i \in 1 .. Len(Acks') : Acks'[i] = d \/ \E j \in 1 .. Len(acks) : Acks'[i] = acks[j]
      <4>1. \A i \in 1 .. Len(Merged(acks, d)) :
              Merged(acks, d)[i] = d \/ \E j \in 1 .. Len(acks) : Merged(acks, d)[i] = acks[j]
        BY MergedFacts
      <4>2. QED
        BY <2>1, <4>1
    <3>2. QED
      BY <1>0, <2>1, <2>3, <3>1 DEF BootsBehind
  <2>5. QED
    BY <1>0, <1>1, <1>2, <2>3, <2>4, LinkedAgain DEF BootsBehind
<1>5. QED
  BY <1>3, <1>4

\* A lost link, and a restart of the app, keep Linked.
LEMMA LostLinked ==
  ASSUME Typed, Linked, LinkEnds \/ LinkBreaks \/ AppRestarts
  PROVE  Linked'
<1>0. BootsBehind
  BY LinkedParts
<1>1. UNCHANGED <<queueVars, saved>> /\ task' = Down
  BY DEF LinkEnds, LinkBreaks, AppRestarts, LetGo
<1>2. LinksKept
  BY <1>1, DownFacts, AloneKeeps
<1>3. CASE LinkEnds \/ LinkBreaks
  <2>1. UNCHANGED <<cursor, inbox, relay>>
    BY <1>3 DEF LinkEnds, LinkBreaks
  <2>2. InHand' = InHand /\ Acks' = Acks
    BY <2>1 DEF InHand, Acks
  <2>3. QED
    BY <1>0, <1>1, <1>2, <2>1, <2>2, DownFacts, LinkedAgain DEF BootsBehind
<1>4. CASE AppRestarts
  <2>1. cursor'.boot = saved.boot /\ inbox' = <<>> /\ relay' = Waiting
    BY <1>4 DEF AppRestarts
  <2>2. InHand' = <<>> /\ Acks' = <<>>
    BY <2>1 DEF InHand, Acks, Waiting
  <2>3. QED
    BY <1>0, <1>1, <1>2, <2>1, <2>2, DownFacts, LinkedAgain DEF BootsBehind
<1>5. QED
  BY <1>3, <1>4

\* Every step keeps Linked.
LEMMA StepLinked ==
  ASSUME Typed, Linked, HookNext
  PROVE  Linked'
<1>1. CASE UNCHANGED relayVars /\ (\/ \E n \in 0 .. QueueCap : Push(n)
                                   \/ \E c \in Conns : HandlesAck(c) \/ Subscribing(c)
                                   \/ \E c \in Conns : HostCloses(c) \/ TeardownEnds(c)
                                   \/ HostRestarts)
  BY <1>1, PushLinked, HostStepsLinked, EndsLinked, RestartLinked
<1>2. CASE LinkSteps
  BY <1>2, ConnectsLinked, LinkStepsLinked DEF LinkSteps
<1>3. CASE LinkEnds \/ LinkBreaks \/ AppRestarts
  BY <1>3, LostLinked
<1>4. CASE RelaySteps
  BY <1>4, BatchLinked, AckStepsLinked DEF RelaySteps
<1>5. QED
  BY <1>1, <1>2, <1>3, <1>4 DEF HookNext, HostSteps

-----------------------------------------------------------------------------
\* What is in hand ascends.

\* The cursor only moves on.
MovesOn ==
  \/ cursor'.boot > cursor.boot
  \/ cursor'.boot = cursor.boot /\ cursor'.forwarded >= cursor.forwarded

\* Passed, as it is after the step.
PassedNext(d) == d.boot < cursor'.boot \/ (d.boot = cursor'.boot /\ d.seq <= cursor'.forwarded)

\* What is in hand is a sequence of events.
LEMMA HandTyped ==
  ASSUME Typed
  PROVE  /\ InHand \in Seq(Delivery) /\ Len(InHand) \in Nat
         /\ \A i \in 1 .. Len(InHand) : InHand[i].boot \in Nat /\ InHand[i].seq \in Nat
         /\ cursor.boot \in Nat /\ cursor.acked \in Nat /\ cursor.forwarded \in Nat
         /\ done.boot \in Nat /\ done.seq \in Nat /\ saved.boot \in Nat /\ saved.seq \in Nat
<1>1. InHand \in Seq(Delivery)
  BY RelayFacts DEF Typed
<1>2. \A s \in Seq(Delivery) : Len(s) \in Nat /\ \A i \in 1 .. Len(s) : s[i].boot \in Nat /\ s[i].seq \in Nat
  <2> SUFFICES ASSUME NEW s \in Seq(Delivery)
               PROVE  Len(s) \in Nat /\ \A i \in 1 .. Len(s) : s[i].boot \in Nat /\ s[i].seq \in Nat
    OBVIOUS
  <2>1. Len(s) \in Nat /\ \A i \in 1 .. Len(s) : s[i] \in Delivery
    BY SeqFacts
  <2>2. QED
    BY <2>1, DeliveryFacts
<1>3. cursor.boot \in Nat /\ cursor.acked \in Nat /\ cursor.forwarded \in Nat
  BY DEF Typed, RelayTyped, Cursor
<1>4. \A d \in Delivery \cup {Nothing} : d.boot \in Nat /\ d.seq \in Nat
  BY DeliveryFacts DEF Nothing
<1>5. QED
  BY <1>1, <1>2, <1>3, <1>4 DEF Typed, RelayTyped

\* What the cursor has passed it has passed after a step that does not take it back.
LEMMA PassedOn ==
  ASSUME Typed, cursor' \in Cursor, MovesOn, NEW d, d.boot \in Nat, d.seq \in Nat, Passed(d)
  PROVE  PassedNext(d)
<1>1. cursor.boot \in Nat /\ cursor.forwarded \in Nat /\ cursor'.boot \in Nat /\ cursor'.forwarded \in Nat
  BY HandTyped DEF Cursor
<1>2. QED
  BY <1>1 DEF MovesOn, Passed, PassedNext

\* Ascending is kept by what leaves the hand and the cursor alone.
LEMMA AscendingKept ==
  ASSUME Typed, Ascending, cursor' \in Cursor, MovesOn, InHand' = InHand, done' = done
  PROVE  Ascending'
<1>1. PassedNext(done)
  BY HandTyped, PassedOn DEF Ascending
<1>2. \A i \in 1 .. Len(InHand) : PassedNext(InHand[i])
  BY HandTyped, PassedOn DEF Ascending
<1>3. QED
  BY <1>1, <1>2 DEF Ascending, Passed, PassedNext, Before

\* Ascending is kept by an event past the cursor that it passes then.
LEMMA AscendingGrows ==
  ASSUME Typed, Ascending, NEW d \in Delivery, HandGrows(d), done' = done, d.boot = cursor.boot,
         d.seq > cursor.forwarded, cursor'.boot = d.boot, cursor'.forwarded = d.seq
  PROVE  Ascending'
<1>1. d.boot \in Nat /\ d.seq \in Nat
  BY DeliveryFacts
<1>2. \A b, e \in Nat : b < cursor.boot \/ (b = cursor.boot /\ e <= cursor.forwarded) =>
                          b < d.boot \/ (b = d.boot /\ e < d.seq)
  BY <1>1, HandTyped
<1>3. \A i \in 1 .. Len(InHand) : Before(InHand[i], d)
  BY <1>2, HandTyped DEF Ascending, Passed, Before
<1>4. Before(done, d)
  BY <1>2, HandTyped DEF Ascending, Passed, Before
<1>5. PassedNext(d) /\ PassedNext(done)
  BY <1>1, <1>4, HandTyped DEF PassedNext, Before
<1>6. \A i \in 1 .. Len(InHand) : PassedNext(InHand[i])
  <2>1. \A b, e \in Nat : b < d.boot \/ (b = d.boot /\ e < d.seq) =>
                            b < cursor'.boot \/ (b = cursor'.boot /\ e <= cursor'.forwarded)
    BY <1>1
  <2>2. QED
    BY <1>3, <2>1, HandTyped DEF PassedNext, Before
<1>7. Len(InHand) \in Nat /\ Len(InHand') = Len(InHand) + 1
  BY HandTyped DEF HandGrows
<1>8. ASSUME NEW i \in 1 .. Len(InHand') PROVE Before(done, InHand'[i]) /\ PassedNext(InHand'[i])
  <2>1. CASE i \in 1 .. Len(InHand)
    BY <1>6, <2>1 DEF HandGrows, Ascending
  <2>2. CASE i = Len(InHand) + 1
    BY <1>4, <1>5, <2>2 DEF HandGrows
  <2>3. QED
    BY <1>7, <2>1, <2>2
<1>9. ASSUME NEW i \in 1 .. Len(InHand'), NEW j \in 1 .. Len(InHand'), i < j
      PROVE  Before(InHand'[i], InHand'[j])
  <2>0. i \in 1 .. Len(InHand)
    BY <1>7, <1>9
  <2>1. CASE j \in 1 .. Len(InHand)
    BY <1>9, <2>0, <2>1 DEF HandGrows, Ascending
  <2>2. CASE j = Len(InHand) + 1
    BY <1>3, <2>0, <2>2 DEF HandGrows
  <2>3. QED
    BY <1>7, <2>1, <2>2
<1>10. QED
  BY <1>5, <1>8, <1>9 DEF Ascending, Passed, PassedNext, Before

\* Ascending is kept when the first in hand is done.
LEMMA AscendingShifts ==
  ASSUME Typed, Ascending, HandShifts, done' = InHand[1], cursor' = cursor
  PROVE  Ascending'
<1>1. Len(InHand) \in Nat /\ 1 \in 1 .. Len(InHand)
  BY HandTyped DEF HandShifts
<1>2. \A i \in 1 .. Len(InHand') : i + 1 \in 1 .. Len(InHand) /\ 1 < i + 1 /\ InHand'[i] = InHand[i + 1]
  BY <1>1 DEF HandShifts
<1>3. \A i \in 1 .. Len(InHand') : Before(InHand[1], InHand'[i]) /\ Passed(InHand'[i])
  BY <1>1, <1>2 DEF Ascending
<1>4. ASSUME NEW i \in 1 .. Len(InHand'), NEW j \in 1 .. Len(InHand'), i < j
      PROVE  Before(InHand'[i], InHand'[j])
  <2>1. i + 1 < j + 1
    BY <1>1, <1>4 DEF HandShifts
  <2>2. QED
    BY <1>2, <2>1 DEF Ascending
<1>5. Passed(InHand[1])
  BY <1>1 DEF Ascending
<1>6. QED
  BY <1>3, <1>4, <1>5 DEF Ascending, Passed, Before

\* The next line of link c is forwarded as d.
Forwarded(c, d) ==
  /\ d.boot = conn[c].boot /\ d.boot = cursor.boot /\ d.seq = conn[c].q[1].seq
  /\ d.seq > cursor.forwarded /\ HandGrows(d)
  /\ cursor'.boot = d.boot /\ cursor'.forwarded = d.seq /\ cursor'.acked = cursor.acked

\* A forwarded event is the last in hand.
LEMMA ForwardsHand ==
  ASSUME Typed, Linked, NEW c \in Conns, Forwards(c)
  PROVE  \/ InHand' = InHand /\ cursor' = cursor /\ conn[c].q[1].seq \in 1 .. cursor.forwarded
         \/ \E d \in Delivery : Forwarded(c, d)
<1>1. /\ task.at = "serving" /\ task.conn = c /\ UNCHANGED <<task, relay, done>>
  BY ForwardsDoes
<1>2. PICK e \in 1 .. MaxHooks :
        /\ conn[c].q[1].seq = e
        /\ IF e <= cursor.forwarded
           THEN UNCHANGED <<cursor, inbox>>
           ELSE /\ cursor' = [cursor EXCEPT !.forwarded = e]
                /\ inbox' = Append(inbox, [boot |-> conn[c].boot, seq |-> e])
  BY ForwardsDoes
<1>3. cursor.boot = conn[c].boot
  BY <1>1 DEF Linked
<1>4. cursor.forwarded \in Nat /\ cursor \in Cursor
  BY HandTyped DEF Typed, RelayTyped
<1>5. CASE e <= cursor.forwarded
  <2>1. InHand' = InHand /\ cursor' = cursor
    BY <1>1, <1>2, <1>5 DEF InHand
  <2>2. QED
    BY <1>2, <1>4, <1>5, <2>1
<1>6. CASE ~(e <= cursor.forwarded)
  <2>1. conn[c].boot \in 1 .. MaxBoot
    <3>1. conn[c].boot \in 0 .. MaxBoot /\ LinkedOne(c)
      BY LinkedParts, LinkFacts DEF Typed, QueueTyped
    <3>2. QED
      BY <1>1, <3>1, HookAssumption DEF LinkedOne
  <2>2. PICK d \in Delivery : d = [boot |-> conn[c].boot, seq |-> e]
    BY <2>1 DEF Delivery
  <2>3. inbox' = Append(inbox, d) /\ d.boot = conn[c].boot /\ d.seq = e
    BY <1>2, <1>6, <2>2
  <2>4. HandGrows(d)
    BY <1>1, <2>3, ForwardsGrows
  <2>5. cursor'.boot = cursor.boot /\ cursor'.forwarded = e /\ cursor'.acked = cursor.acked
    BY <1>2, <1>4, <1>6 DEF Cursor
  <2>6. d.seq > cursor.forwarded
    BY <1>4, <1>6, <2>3
  <2>7. QED
    BY <1>2, <1>3, <2>3, <2>4, <2>5, <2>6 DEF Forwarded
<1>7. QED
  BY <1>5, <1>6

\* Forwarding keeps Ascending.
LEMMA ForwardsAscend ==
  ASSUME Typed, Typed', Linked, Ascending, NEW c \in Conns, Forwards(c)
  PROVE  Ascending'
<1>1. UNCHANGED done /\ cursor' \in Cursor /\ cursor.forwarded \in Nat
  BY ForwardsDoes, HandTyped DEF Typed, RelayTyped
<1>2. CASE InHand' = InHand /\ cursor' = cursor
  <2>1. MovesOn
    BY <1>1, <1>2 DEF MovesOn
  <2>2. QED
    BY <1>1, <1>2, <2>1, AscendingKept
<1>3. CASE \E d \in Delivery : Forwarded(c, d)
  BY <1>1, <1>3, AscendingGrows DEF Forwarded
<1>4. QED
  BY <1>2, <1>3, ForwardsHand

\* Every step keeps Ascending.
LEMMA StepAscends ==
  ASSUME Typed, Typed', Linked, Ascending, HookNext
  PROVE  Ascending'
<1>0. cursor' \in Cursor /\ cursor.boot \in Nat /\ cursor.forwarded \in Nat
  BY HandTyped DEF Typed, RelayTyped
<1>1. ASSUME InHand' = InHand, done' = done, cursor'.boot = cursor.boot, cursor'.forwarded = cursor.forwarded
      PROVE  Ascending'
  <2>1. MovesOn
    BY <1>0, <1>1 DEF MovesOn
  <2>2. QED
    BY <1>0, <1>1, <2>1, AscendingKept
<1>2. CASE UNCHANGED relayVars
  BY <1>1, <1>2, HandKept
<1>3. CASE LinkSteps
  <2>1. PICK c \in Conns : \/ Connects(c) \/ ServeBegins(c) \/ ServeAcked(c) \/ ServeSubscribed(c)
                           \/ Forwards(c) \/ ForwardsDropped(c)
    BY <1>3 DEF LinkSteps
  <2>2. CASE Connects(c) \/ ServeAcked(c) \/ ServeSubscribed(c)
    <3>1. UNCHANGED <<cursor, inbox, relay, done>>
      BY <2>2 DEF Connects, ServeAcked, ServeSubscribed
    <3>2. QED
      BY <1>1, <3>1 DEF InHand
  <2>3. CASE ServeBegins(c)
    <3>1. task.at = "greeted" /\ task.conn = c /\ cursor' = Resumed(conn[c].boot) /\ UNCHANGED <<inbox, relay, done>>
      BY <2>3, ServeBeginsDoes
    <3>2. cursor.boot <= conn[c].boot /\ conn[c].boot \in 0 .. MaxBoot
      BY <3>1, LinkFacts DEF Linked, Typed, QueueTyped
    <3>3. cursor'.boot = conn[c].boot /\ (cursor.boot = conn[c].boot => cursor' = cursor)
      BY <3>1, <3>2, ResumedFacts DEF Typed
    <3>4. MovesOn
      BY <1>0, <3>2, <3>3 DEF MovesOn
    <3>5. InHand' = InHand
      BY <3>1 DEF InHand
    <3>6. QED
      BY <1>0, <3>1, <3>4, <3>5, AscendingKept
  <2>4. CASE Forwards(c)
    BY <2>4, ForwardsAscend
  <2>5. CASE ForwardsDropped(c)
    BY <1>2, <2>5 DEF ForwardsDropped
  <2>6. QED
    BY <2>1, <2>2, <2>3, <2>4, <2>5
<1>4. CASE LinkEnds \/ LinkBreaks
  <2>1. UNCHANGED <<cursor, inbox, relay, done>>
    BY <1>4 DEF LinkEnds, LinkBreaks
  <2>2. QED
    BY <1>1, <2>1 DEF InHand
<1>5. CASE RelayTakes
  BY <1>1, <1>5, RelayTakesDoes
<1>6. CASE RelayApplies
  BY <1>6, RelayAppliesDoes, AscendingShifts
<1>7. CASE RelayApplied \/ AckRefused \/ AckRecorded \/ AckSent \/ AckAnswered \/ Saves
  <2>1. cursor'.boot = cursor.boot /\ cursor'.forwarded = cursor.forwarded /\ done' = done
    BY <1>7 DEF RelayApplied, AckRefused, AckRecorded, AckSent, AckAnswered, Saves, Typed, RelayTyped, Cursor
  <2>2. QED
    BY <1>1, <1>7, <2>1, AckStepsDo
<1>8. CASE AppRestarts
  <2>1. /\ cursor' = [boot |-> saved.boot, acked |-> saved.seq, forwarded |-> saved.seq]
        /\ inbox' = <<>> /\ relay' = Waiting /\ done' = Nothing
    BY <1>8 DEF AppRestarts
  <2>2. InHand' = <<>> /\ done'.boot = 0 /\ done'.seq = 0
    BY <2>1 DEF InHand, Waiting, Nothing
  <2>3. cursor'.boot \in Nat /\ cursor'.forwarded \in Nat
    BY <2>1, HandTyped
  <2>4. QED
    BY <2>2, <2>3 DEF Ascending, Passed
<1>9. QED
  BY <1>2, <1>3, <1>4, <1>5, <1>6, <1>7, <1>8 DEF HookNext, RelaySteps

-----------------------------------------------------------------------------
\* What is before an event is settled, in hand, or comes before it.

\* The hooks of `lines` may go behind q: the events before each are in T or on their way.
FollowOn(q, lines, b, T) ==
  \A k \in 1 .. Len(lines) : lines[k].t = "hook" =>
    \A e \in 1 .. lines[k].seq - 1 :
      <<b, e>> \in T \/ Carries(q, Len(q), e) \/ Carries(lines, k - 1, e)

\* A queue that grew carries what it carried.
LEMMA GrownCarries ==
  ASSUME NEW q \in Seq(Line), NEW q2 \in Seq(Line), NEW lines \in Seq(Line), NEW m, Grown(q, q2, lines, m)
  PROVE  /\ \A i \in 1 .. Len(q) : \A e : Carries(q, i, e) => Carries(q2, i, e)
         /\ \A k \in 0 .. m : \A e : Carries(lines, k, e) => Carries(q2, Len(q) + k, e)
         /\ \A e : Carries(q, Len(q), e) => Carries(q2, Len(q), e) /\ Carries(q2, Len(q2), e)
<1>1. Len(q) \in Nat /\ Len(q2) \in Nat /\ m \in Nat /\ Len(q2) = Len(q) + m
  BY DEF Grown
<1>2. ASSUME NEW i \in 1 .. Len(q), NEW e, Carries(q, i, e)
      PROVE  Carries(q2, i, e)
  <2>1. PICK j \in 1 .. i : q[j].t = "hook" /\ q[j].seq = e
    BY <1>2 DEF Carries
  <2>2. j \in 1 .. Len(q)
    BY <1>1, <2>1
  <2>3. q2[j] = q[j]
    BY <2>2 DEF Grown
  <2>4. QED
    BY <2>1, <2>3 DEF Carries
<1>3. \A e : Carries(q, Len(q), e) => Carries(q2, Len(q), e) /\ Carries(q2, Len(q2), e)
  <2> SUFFICES ASSUME NEW e, Carries(q, Len(q), e) PROVE Carries(q2, Len(q), e) /\ Carries(q2, Len(q2), e)
    OBVIOUS
  <2>1. PICK i \in 1 .. Len(q) : q[i].t = "hook" /\ q[i].seq = e
    BY DEF Carries
  <2>2. q2[i] = q[i] /\ i \in 1 .. Len(q2)
    BY <1>1, <2>1 DEF Grown
  <2>3. QED
    BY <2>1, <2>2 DEF Carries
<1>4. ASSUME NEW k \in 0 .. m, NEW e, Carries(lines, k, e)
      PROVE  Carries(q2, Len(q) + k, e)
  <2>1. PICK i \in 1 .. k : lines[i].t = "hook" /\ lines[i].seq = e
    BY <1>4 DEF Carries
  <2>2. i \in 1 .. m /\ Len(q) + i \in 1 .. Len(q) + k
    BY <1>1, <2>1
  <2>3. q2[Len(q) + i] = lines[i]
    BY <2>2 DEF Grown
  <2>4. QED
    BY <2>1, <2>2, <2>3 DEF Carries
<1>5. QED
  BY <1>2, <1>3, <1>4

\* A queue that grew by lines that follow is one whose events follow.
LEMMA GrownFollows ==
  ASSUME NEW q \in Seq(Line), NEW q2 \in Seq(Line), NEW lines \in Seq(Line), NEW m, Grown(q, q2, lines, m),
         NEW b, NEW S, NEW T, S \subseteq T, Follows(q, b, S), FollowOn(q, lines, b, T)
  PROVE  Follows(q2, b, T)
<1>1. /\ Len(q) \in Nat /\ m \in 0 .. Len(lines) /\ m \in Nat /\ Len(q2) = Len(q) + m /\ Len(lines) \in Nat
      /\ \A i \in 1 .. Len(q) : q2[i] = q[i]
      /\ \A i \in 1 .. m : q2[Len(q) + i] = lines[i]
  <2>1. Len(q) \in Nat /\ Len(lines) \in Nat
    BY SeqFacts
  <2>2. QED
    BY <2>1 DEF Grown
<1> SUFFICES ASSUME NEW i \in 1 .. Len(q2), q2[i].t = "hook", NEW e \in 1 .. q2[i].seq - 1
             PROVE  <<b, e>> \in T \/ Carries(q2, i - 1, e)
  BY DEF Follows
<1>2. CASE i \in 1 .. Len(q)
  <2>1. q2[i] = q[i]
    BY <1>1, <1>2
  <2>2. <<b, e>> \in S \/ Carries(q, i - 1, e)
    BY <1>2, <2>1 DEF Follows
  <2>3. Carries(q, i - 1, e) => Carries(q2, i - 1, e)
    <3>1. \A j \in 1 .. i - 1 : j \in 1 .. Len(q)
      BY <1>1, <1>2
    <3>2. QED
      BY <1>1, <3>1 DEF Carries
  <2>4. QED
    BY <2>2, <2>3
<1>3. CASE i \notin 1 .. Len(q)
  <2>0. i - Len(q) \in 1 .. m /\ i = Len(q) + (i - Len(q))
    BY <1>1, <1>3
  <2>1. PICK k \in 1 .. m : i = Len(q) + k
    BY <2>0
  <2>2. q2[i] = lines[k] /\ k \in 1 .. Len(lines) /\ k - 1 \in 0 .. m /\ i - 1 = Len(q) + (k - 1)
    BY <1>1, <2>1
  <2>3. <<b, e>> \in T \/ Carries(q, Len(q), e) \/ Carries(lines, k - 1, e)
    BY <2>2 DEF FollowOn
  <2>4. Carries(lines, k - 1, e) => Carries(q2, i - 1, e)
    BY <2>2, GrownCarries
  <2>5. Carries(q, Len(q), e) => Carries(q2, i - 1, e)
    <3> SUFFICES ASSUME Carries(q, Len(q), e) PROVE Carries(q2, i - 1, e)
      OBVIOUS
    <3>1. PICK j \in 1 .. Len(q) : q[j].t = "hook" /\ q[j].seq = e
      BY DEF Carries
    <3>2. j \in 1 .. i - 1 /\ q2[j] = q[j]
      BY <1>1, <2>1, <3>1
    <3>3. QED
      BY <3>1, <3>2 DEF Carries
  <2>6. QED
    BY <2>3, <2>4, <2>5
<1>4. QED
  BY <1>2, <1>3

\* A line that is read was an event in T, or is not one.
LEMMA TailFollows ==
  ASSUME NEW q \in Seq(Line), q # <<>>, NEW b, NEW S, NEW T, S \subseteq T,
         q[1].t = "hook" => <<b, q[1].seq>> \in T
  PROVE  /\ Follows(q, b, S) => Follows(Tail(q), b, T)
         /\ \A e : Carries(q, Len(q), e) => <<b, e>> \in T \/ Carries(Tail(q), Len(Tail(q)), e)
<1>1. /\ Len(q) \in Nat /\ Len(q) >= 1 /\ Len(Tail(q)) = Len(q) - 1
      /\ \A i \in 1 .. Len(q) - 1 : Tail(q)[i] = q[i + 1]
  BY TailFacts
<1>2. ASSUME NEW n \in 1 .. Len(q), NEW e, Carries(q, n, e)
      PROVE  <<b, e>> \in T \/ Carries(Tail(q), n - 1, e)
  <2>1. PICK i \in 1 .. n : q[i].t = "hook" /\ q[i].seq = e
    BY <1>2 DEF Carries
  <2>2. CASE i = 1
    BY <2>1, <2>2
  <2>3. CASE i # 1
    <3>1. i - 1 \in 1 .. n - 1 /\ i - 1 \in 1 .. Len(q) - 1 /\ (i - 1) + 1 = i
      BY <1>1, <2>3
    <3>2. Tail(q)[i - 1] = q[i]
      BY <1>1, <3>1
    <3>3. QED
      BY <2>1, <3>1, <3>2 DEF Carries
  <2>4. QED
    BY <2>2, <2>3
<1>3. ASSUME Follows(q, b, S), NEW i \in 1 .. Len(Tail(q)), Tail(q)[i].t = "hook", NEW e \in 1 .. Tail(q)[i].seq - 1
      PROVE  <<b, e>> \in T \/ Carries(Tail(q), i - 1, e)
  <2>1. Tail(q)[i] = q[i + 1] /\ i + 1 \in 1 .. Len(q) /\ (i + 1) - 1 = i /\ i \in 1 .. Len(q)
    BY <1>1
  <2>2. <<b, e>> \in S \/ Carries(q, i, e)
    BY <1>3, <2>1 DEF Follows
  <2>3. QED
    BY <1>2, <2>1, <2>2
<1>4. Len(q) \in 1 .. Len(q)
  BY <1>1
<1>5. \A e : Carries(q, Len(q), e) => <<b, e>> \in T \/ Carries(Tail(q), Len(Tail(q)), e)
  BY <1>1, <1>2, <1>4
<1>6. QED
  BY <1>3, <1>5 DEF Follows

\* Before event number e of an ascending run there is what comes before its first, an event of
\* it, or a gap.
LEMMA InChunk ==
  ASSUME NEW chunk \in Seq(1 .. MaxHooks), NEW i \in 1 .. Len(chunk), NEW e \in Nat, e < chunk[i]
  PROVE  \/ e <= chunk[1] - 1
         \/ \E j \in 1 .. i - 1 : chunk[j] = e
         \/ \E j \in 2 .. Len(chunk) : e \in chunk[j - 1] + 1 .. chunk[j] - 1
<1>1. Len(chunk) \in Nat /\ \A j \in 1 .. Len(chunk) : chunk[j] \in 1 .. MaxHooks
  BY SeqFacts
<1>2. \A j \in 1 .. Len(chunk) : chunk[j] \in Int
  BY <1>1
<1> DEFINE later == {j \in 1 .. i : chunk[j] > e}
<1>3. later \in SUBSET Nat /\ later # {}
  BY <1>1
<1>4. PICK m \in later : \A y \in later : m <= y
  BY <1>3, LeastOf
<1>5. m \in 1 .. i /\ chunk[m] > e /\ m \in 1 .. Len(chunk)
  BY <1>1, <1>4
<1>6. CASE m = 1
  BY <1>2, <1>5, <1>6
<1>7. CASE m # 1
  <2>1. m - 1 \in 1 .. i /\ m - 1 \in 1 .. i - 1 /\ m - 1 \in 1 .. Len(chunk) /\ m \in 2 .. Len(chunk)
    BY <1>1, <1>5, <1>7
  <2>2. m - 1 \notin later
    <3>1. ~(m <= m - 1)
      BY <1>5
    <3>2. QED
      BY <1>4, <3>1
  <2>3. chunk[m - 1] <= e
    BY <1>2, <2>1, <2>2
  <2>4. CASE chunk[m - 1] = e
    BY <2>1, <2>4
  <2>5. CASE chunk[m - 1] # e
    <3>1. chunk[m - 1] \in Int /\ chunk[m] \in Int /\ e \in Int
      BY <1>2, <1>5, <2>1
    <3>2. \A x, y \in Int : x <= e /\ x # e /\ y > e => e \in x + 1 .. y - 1
      BY <3>1
    <3>3. e \in chunk[m - 1] + 1 .. chunk[m] - 1
      BY <1>5, <2>3, <2>5, <3>1, <3>2
    <3>4. QED
      BY <2>1, <3>3
  <2>6. QED
    BY <2>4, <2>5
<1>8. QED
  BY <1>6, <1>7

\* What is settled stays settled.
LEMMA SettledGrows ==
  ASSUME Typed, HookNext
  PROVE  Settled \subseteq Settled'
<1>1. CASE UNCHANGED relayVars /\ \E n \in 0 .. QueueCap : Push(n)
  <2>1. evicted \subseteq evicted' /\ applied' = applied
    BY <1>1, PushDoes, HandKept
  <2>2. QED
    BY <2>1 DEF Settled
<1>2. CASE RelayApplies
  <2>1. applied \subseteq applied' /\ evicted' = evicted
    BY <1>2, RelayAppliesDoes DEF queueVars
  <2>2. QED
    BY <2>1 DEF Settled
<1>3. CASE UNCHANGED relayVars /\ \E c \in Conns : HandlesAck(c) \/ Subscribing(c) \/ HostCloses(c) \/ TeardownEnds(c)
  BY <1>3 DEF relayVars, HandlesAck, Subscribing, HandlesSubscribe, BacklogEnds, BacklogTakes, BacklogSends,
              HostCloses, TeardownEnds, Settled
<1>4. CASE HostRestarts /\ UNCHANGED relayVars
  <2>1. evicted' = evicted /\ applied' = applied
    BY <1>4, HostRestartsDoes, HandKept DEF Typed
  <2>2. QED
    BY <2>1 DEF Settled
<1>5. CASE LinkSteps
  BY <1>5 DEF LinkSteps, Connects, ServeBegins, ServeAcked, ServeSubscribed, Forwards, ForwardsDropped, hostSide,
              relayVars, Settled
<1>6. CASE LinkEnds \/ LinkBreaks \/ AppRestarts
  BY <1>6 DEF LinkEnds, LinkBreaks, AppRestarts, queueVars, Settled
<1>7. CASE RelayTakes \/ RelayApplied \/ AckRefused \/ AckRecorded \/ AckSent \/ AckAnswered \/ Saves
  BY <1>7 DEF RelayTakes, RelayApplied, AckRefused, AckRecorded, AckSent, AckAnswered, Saves, queueVars, hostSide, Settled
<1>8. QED
  BY <1>1, <1>2, <1>3, <1>4, <1>5, <1>6, <1>7 DEF HookNext, HostSteps, RelaySteps

\* How what is in hand changes.
LEMMA HandSteps ==
  ASSUME Typed, Linked, HookNext
  PROVE  \/ InHand' = InHand
         \/ \E c \in Conns, d \in Delivery : Forwards(c) /\ Forwarded(c, d)
         \/ RelayApplies
         \/ AppRestarts
<1>1. CASE UNCHANGED relayVars
  BY <1>1, HandKept
<1>2. CASE LinkSteps
  <2>1. PICK c \in Conns : \/ Connects(c) \/ ServeBegins(c) \/ ServeAcked(c) \/ ServeSubscribed(c)
                           \/ Forwards(c) \/ ForwardsDropped(c)
    BY <1>2 DEF LinkSteps
  <2>2. CASE Connects(c) \/ ServeBegins(c) \/ ServeAcked(c) \/ ServeSubscribed(c)
    BY <2>2 DEF Connects, ServeBegins, ServeAcked, ServeSubscribed, InHand
  <2>3. CASE Forwards(c)
    BY <2>3, ForwardsHand
  <2>4. CASE ForwardsDropped(c)
    BY <1>1, <2>4 DEF ForwardsDropped
  <2>5. QED
    BY <2>1, <2>2, <2>3, <2>4
<1>3. CASE LinkEnds \/ LinkBreaks
  BY <1>3 DEF LinkEnds, LinkBreaks, InHand
<1>4. CASE RelaySteps
  BY <1>4, RelayTakesDoes, AckStepsDo DEF RelaySteps
<1>5. QED
  BY <1>1, <1>2, <1>3, <1>4 DEF HookNext

\* A hand that grows holds what it held.
LEMMA GrowsHeld ==
  ASSUME Typed, NEW d \in Delivery, HandGrows(d)
  PROVE  Held \subseteq Held' /\ <<d.boot, d.seq>> \in Held'
<1>1. Len(InHand) \in Nat /\ Len(InHand') = Len(InHand) + 1
  BY HandTyped DEF HandGrows
<1>2. Held \subseteq Held'
  <2> SUFFICES ASSUME NEW i \in 1 .. Len(InHand) PROVE <<InHand[i].boot, InHand[i].seq>> \in Held'
    BY DEF Held
  <2>1. i \in 1 .. Len(InHand') /\ InHand'[i] = InHand[i]
    BY <1>1 DEF HandGrows
  <2>2. QED
    BY <2>1 DEF Held
<1>3. Len(InHand) + 1 \in 1 .. Len(InHand') /\ InHand'[Len(InHand) + 1] = d
  BY <1>1 DEF HandGrows
<1>4. QED
  BY <1>2, <1>3 DEF Held

\* What has reached the app stays so, unless the app restarts.
LEMMA ReachedGrows ==
  ASSUME Typed, Linked, HookNext, ~AppRestarts
  PROVE  Reached \subseteq Reached'
<1>0. Settled \subseteq Settled'
  BY SettledGrows
<1>1. CASE InHand' = InHand
  BY <1>0, <1>1 DEF Reached, Held
<1>2. CASE \E c \in Conns, d \in Delivery : Forwarded(c, d)
  BY <1>0, <1>2, GrowsHeld DEF Reached, Forwarded
<1>3. CASE RelayApplies
  <2>1. PICK d \in Delivery : d = InHand[1] /\ HandShifts /\ applied' = applied \cup {<<d.boot, d.seq>>}
    BY <1>3, RelayAppliesDoes
  <2>2. ASSUME NEW i \in 1 .. Len(InHand) PROVE <<InHand[i].boot, InHand[i].seq>> \in Reached'
    <3>1. CASE i = 1
      BY <2>1, <3>1 DEF Reached, Settled
    <3>2. CASE i # 1
      <4>1. i - 1 \in 1 .. Len(InHand') /\ (i - 1) + 1 = i
        BY <2>1, <3>2, HandTyped DEF HandShifts
      <4>2. InHand'[i - 1] = InHand[i]
        BY <2>1, <4>1 DEF HandShifts
      <4>3. QED
        BY <4>1, <4>2 DEF Reached, Held
    <3>3. QED
      BY <3>1, <3>2
  <2>3. QED
    BY <1>0, <2>2 DEF Reached, Held
<1>4. QED
  BY <1>1, <1>2, <1>3, HandSteps

-----------------------------------------------------------------------------
\* What is acked has left the queue for good.

HostActs ==
  \/ \E n \in 0 .. QueueCap : Push(n)
  \/ \E c \in Conns : HandlesAck(c) \/ Subscribing(c)
  \/ \E c \in Conns : HostCloses(c) \/ TeardownEnds(c)
  \/ HostRestarts

\* AckedIsSettled is kept by a step that asks for nothing new to be acked.
LEMMA AckedAgain ==
  ASSUME AckedIsSettled, Settled \subseteq Settled',
         \/ Upto(Settled', cursor'.boot, cursor'.acked)
         \/ cursor'.boot = cursor.boot /\ cursor'.acked = cursor.acked,
         Upto(Settled', saved'.boot, saved'.seq) \/ saved' = saved,
         \A i \in 1 .. Len(Acks') :
           Upto(Settled', Acks'[i].boot, Acks'[i].seq) \/ \E j \in 1 .. Len(Acks) : Acks'[i] = Acks[j],
         task'.at = "acking" =>
           \/ Upto(Settled', conn'[task'.conn].boot, task'.after)
           \/ task' = task /\ conn'[task.conn].boot = conn[task.conn].boot,
         \A c \in Conns : \A r \in conn'[c].asked :
           \/ r \in conn[c].asked /\ conn'[c].boot = conn[c].boot
           \/ r.t = "ack" /\ Upto(Settled', r.of, r.upTo)
           \/ r.t = "subscribe" /\ Upto(Settled', conn'[c].boot, r.after)
  PROVE  AckedIsSettled'
<1>0. \A b, n : Upto(Settled, b, n) => Upto(Settled', b, n)
  BY DEF Upto
<1>1. Upto(Settled', cursor'.boot, cursor'.acked)
  BY <1>0 DEF AckedIsSettled
<1>2. Upto(Settled', saved'.boot, saved'.seq)
  BY <1>0 DEF AckedIsSettled
<1>3. \A i \in 1 .. Len(Acks') : Upto(Settled', Acks'[i].boot, Acks'[i].seq)
  BY <1>0 DEF AckedIsSettled
<1>4. task'.at = "acking" => Upto(Settled', conn'[task'.conn].boot, task'.after)
  BY <1>0 DEF AckedIsSettled
<1>5. ASSUME NEW c \in Conns, NEW r \in conn'[c].asked
      PROVE  /\ r.t = "ack" => Upto(Settled', r.of, r.upTo)
             /\ r.t = "subscribe" => Upto(Settled', conn'[c].boot, r.after)
  <2>1. CASE r \in conn[c].asked /\ conn'[c].boot = conn[c].boot
    <3>1. /\ r.t = "ack" => Upto(Settled, r.of, r.upTo)
          /\ r.t = "subscribe" => Upto(Settled, conn[c].boot, r.after)
      BY <2>1 DEF AckedIsSettled
    <3>2. QED
      BY <1>0, <2>1, <3>1
  <2>2. CASE r.t = "ack" /\ Upto(Settled', r.of, r.upTo)
    BY <2>2
  <2>3. CASE r.t = "subscribe" /\ Upto(Settled', conn'[c].boot, r.after)
    BY <2>3
  <2>4. QED
    BY <2>1, <2>2, <2>3
<1>6. QED
  BY <1>1, <1>2, <1>3, <1>4, <1>5 DEF AckedIsSettled, Upto

\* The host's steps keep AckedIsSettled.
LEMMA HostAcked ==
  ASSUME Typed, Linked, AckedIsSettled, HostActs, UNCHANGED relayVars, Settled \subseteq Settled'
  PROVE  AckedIsSettled'
<1>1. UNCHANGED <<task, cursor, saved>> /\ Acks' = Acks
  BY HandKept
<1>2. ASSUME \A c \in Conns : /\ conn'[c].asked \subseteq conn[c].asked
                              /\ conn'[c].boot = conn[c].boot
      PROVE  AckedIsSettled'
  <2>1. task.at = "acking" => task.conn \in Conns
    BY DEF Typed, RelayTyped, TaskState
  <2>2. QED
    BY <1>1, <1>2, <2>1, AckedAgain
<1>3. CASE \E n \in 0 .. QueueCap : Push(n)
  <2>1. ToSubscriber
    BY <1>3, PushDoes
  <2>2. CASE conn' = conn
    BY <1>2, <2>2
  <2>3. CASE conn' # conn
    <3>1. PICK c \in Conns : \E lines, ok : Sends(c, lines, ok)
      BY <2>1, <2>3 DEF ToSubscriber, Typed, QueueTyped
    <3>2. QED
      BY <1>2, <3>1 DEF Sends, OnlyLink
  <2>4. QED
    BY <2>2, <2>3
<1>4. CASE \E c \in Conns : HandlesAck(c) \/ Subscribing(c)
  <2>1. PICK c \in Conns : HandlesAck(c) \/ HandlesSubscribe(c) \/ BacklogEnds(c) \/ BacklogTakes(c) \/ BacklogSends(c)
    BY <1>4 DEF Subscribing
  <2>2. conn' = conn \/ \E lines, ok : Sends(c, lines, ok)
    <3>1. CASE HandlesAck(c)
      BY <3>1, HandlesAckDoes
    <3>2. CASE HandlesSubscribe(c)
      BY <3>2, HandlesSubscribeDoes
    <3>3. CASE BacklogEnds(c)
      BY <3>3, BacklogEndsDoes
    <3>4. CASE BacklogTakes(c)
      BY <3>4, BacklogTakesDoes
    <3>5. CASE BacklogSends(c)
      BY <3>5, BacklogSendsDoes
    <3>6. QED
      BY <2>1, <3>1, <3>2, <3>3, <3>4, <3>5
  <2>3. QED
    BY <1>2, <2>2 DEF Sends, OnlyLink
<1>5. CASE \E c \in Conns : HostCloses(c) \/ TeardownEnds(c)
  <2>1. PICK c \in Conns : HostCloses(c) \/ TeardownEnds(c)
    BY <1>5
  <2>2. OnlyLink(c) /\ conn'[c].boot = conn[c].boot /\ conn'[c].asked \subseteq conn[c].asked
    BY <2>1, HostClosesDoes, TeardownEndsDoes DEF Typed
  <2>3. QED
    BY <1>2, <2>2 DEF OnlyLink
<1>6. CASE HostRestarts
  <2>1. ASSUME NEW c \in Conns PROVE conn'[c].asked = {} /\ conn'[c].boot = conn[c].boot
    <3>1. LinkedOne(c)
      BY LinkedParts
    <3>2. QED
      BY <1>6, <3>1, HostRestartsDoes DEF Typed, LinkedOne
  <2>2. QED
    BY <1>2, <2>1
<1>7. QED
  BY <1>3, <1>4, <1>5, <1>6 DEF HostActs

\* Where a request was asked, it is of what is settled; elsewhere nothing is new.
LEMMA AckedOnLink ==
  ASSUME Typed, AckedIsSettled, Settled \subseteq Settled', UNCHANGED saved, Acks' = Acks,
         \/ Upto(Settled', cursor'.boot, cursor'.acked)
         \/ cursor'.boot = cursor.boot /\ cursor'.acked = cursor.acked,
         NEW c \in Conns, NEW reqs, Asks(c, reqs),
         \A r \in reqs : \/ r.t = "ack" /\ Upto(Settled', r.of, r.upTo)
                         \/ r.t = "subscribe" /\ Upto(Settled', conn[c].boot, r.after),
         task' = task \/ (task'.at = "acking" => task'.conn = c /\ Upto(Settled', conn[c].boot, task'.after))
  PROVE  AckedIsSettled'
<1>1. conn'[c].boot = conn[c].boot /\ \A d \in Conns : conn'[d].boot = conn[d].boot
  BY DEF Asks, OnlyLink
<1>2. task.at = "acking" => task.conn \in Conns
  BY DEF Typed, RelayTyped, TaskState
<1>3. task'.at = "acking" =>
           \/ Upto(Settled', conn'[task'.conn].boot, task'.after)
           \/ task' = task /\ conn'[task.conn].boot = conn[task.conn].boot
  BY <1>1, <1>2
<1>4. ASSUME NEW d \in Conns, NEW r \in conn'[d].asked
      PROVE  \/ r \in conn[d].asked /\ conn'[d].boot = conn[d].boot
             \/ r.t = "ack" /\ Upto(Settled', r.of, r.upTo)
             \/ r.t = "subscribe" /\ Upto(Settled', conn'[d].boot, r.after)
  <2>1. r \in conn[d].asked \/ (d = c /\ r \in reqs)
    BY DEF Asks, OnlyLink
  <2>2. QED
    BY <1>1, <2>1
<1>5. QED
  BY <1>3, <1>4, AckedAgain

\* The link's task asks for acks of settled events only.
LEMMA LinkAcked ==
  ASSUME Typed, Linked, AckedIsSettled, LinkSteps, Settled \subseteq Settled'
  PROVE  AckedIsSettled'
<1>0. /\ \A b, n : Upto(Settled, b, n) => Upto(Settled', b, n)
      /\ \A b : Upto(Settled', b, 0)
  BY DEF Upto
<1>1. PICK c \in Conns : \/ Connects(c) \/ ServeBegins(c) \/ ServeAcked(c) \/ ServeSubscribed(c)
                         \/ Forwards(c) \/ ForwardsDropped(c)
  BY DEF LinkSteps
<1>2. CASE Connects(c)
  <2>1. /\ conn[c].st = "unused" /\ OnlyLink(c) /\ conn'[c].asked = conn[c].asked
        /\ task' = On("greeted", c, 0) /\ UNCHANGED <<cursor, saved, relay>>
    BY <1>2, ConnectsDoes
  <2>2. conn[c].asked = {} /\ task'.at = "greeted"
    BY <2>1, OnFacts, HookAssumption DEF Linked, Unused
  <2>3. \A d \in Conns : \A r : r \in conn'[d].asked => r \in conn[d].asked /\ conn'[d].boot = conn[d].boot
    BY <2>1, <2>2 DEF OnlyLink
  <2>4. Acks' = Acks
    BY <2>1 DEF Acks
  <2>5. QED
    BY <2>1, <2>2, <2>3, <2>4, AckedAgain
<1>3. CASE ServeBegins(c)
  <2>1. cursor' = Resumed(conn[c].boot) /\ UNCHANGED <<saved, relay>>
    BY <1>3, ServeBeginsDoes
  <2>2. Acks' = Acks
    BY <2>1 DEF Acks
  <2>3. conn[c].boot \in 0 .. MaxBoot
    BY LinkFacts DEF Typed, QueueTyped
  <2>4. /\ cursor'.boot = conn[c].boot /\ cursor'.acked \in 0 .. MaxHooks
        /\ cursor' = cursor \/ cursor'.acked = 0
    BY <2>1, <2>3, ResumedFacts DEF Typed
  <2>5. Upto(Settled', cursor'.boot, cursor'.acked)
    BY <1>0, <2>4 DEF AckedIsSettled
  <2>6. PICK r \in Request :
          /\ Asks(c, {r})
          /\ \/ r = AckReq(cursor'.acked, cursor'.boot, "serve") /\ task' = On("acking", c, cursor'.acked)
             \/ r = SubscribeReq(0) /\ task' = On("subscribing", c, 0)
    BY <1>3, ServeBeginsDoes
  <2>7. CASE r = AckReq(cursor'.acked, cursor'.boot, "serve") /\ task' = On("acking", c, cursor'.acked)
    <3>1. r.t = "ack" /\ r.upTo = cursor'.acked /\ r.of = cursor'.boot
      BY <2>7 DEF AckReq
    <3>2. task'.at = "acking" /\ task'.conn = c /\ task'.after = cursor'.acked
      BY <2>4, <2>7, OnFacts
    <3>3. QED
      BY <2>1, <2>2, <2>4, <2>5, <2>6, <3>1, <3>2, AckedOnLink
  <2>8. CASE r = SubscribeReq(0) /\ task' = On("subscribing", c, 0)
    <3>1. r.t = "subscribe" /\ r.after = 0
      BY <2>8 DEF SubscribeReq
    <3>2. task'.at = "subscribing"
      BY <2>8, OnFacts, HookAssumption
    <3>3. QED
      BY <1>0, <2>1, <2>2, <2>5, <2>6, <3>1, <3>2, AckedOnLink
  <2>9. QED
    BY <2>6, <2>7, <2>8
<1>4. CASE ServeAcked(c)
  <2>1. /\ task.at = "acking" /\ task.conn = c /\ task' = On("subscribing", c, task.after)
        /\ UNCHANGED <<cursor, saved, relay>>
    BY <1>4, ServeAckedDoes
  <2>2. PICK r \in Request : r = SubscribeReq(task.after) /\ Asks(c, {r})
    BY <1>4, ServeAckedDoes
  <2>3. Acks' = Acks
    BY <2>1 DEF Acks
  <2>4. r.t = "subscribe" /\ r.after = task.after
    BY <2>2 DEF SubscribeReq
  <2>5. Upto(Settled', conn[c].boot, task.after)
    BY <1>0, <2>1 DEF AckedIsSettled
  <2>6. task'.at = "subscribing"
    BY <2>1, OnFacts DEF Typed, RelayTyped, TaskState
  <2>7. QED
    BY <2>1, <2>2, <2>3, <2>4, <2>5, <2>6, AckedOnLink
<1>5. CASE ServeSubscribed(c) \/ Forwards(c) \/ ForwardsDropped(c)
  <2>1. Asks(c, {}) /\ UNCHANGED <<saved, relay>>
    BY <1>5, ServeSubscribedDoes, ForwardsDoes, ForwardsDroppedDoes DEF relayVars
  <2>2. cursor'.boot = cursor.boot /\ cursor'.acked = cursor.acked
    <3>1. CASE Forwards(c)
      BY <3>1, ForwardsHand DEF Forwarded
    <3>2. CASE ServeSubscribed(c) \/ ForwardsDropped(c)
      BY <3>2 DEF ServeSubscribed, ForwardsDropped, relayVars
    <3>3. QED
      BY <1>5, <3>1, <3>2
  <2>3. task' = task \/ task'.at = "serving"
    <3>1. CASE ServeSubscribed(c)
      BY <3>1, ServeSubscribedDoes, OnFacts, HookAssumption
    <3>2. CASE Forwards(c) \/ ForwardsDropped(c)
      BY <3>2 DEF Forwards, ForwardsDropped, relayVars
    <3>3. QED
      BY <1>5, <3>1, <3>2
  <2>4. Acks' = Acks
    BY <2>1 DEF Acks
  <2>5. QED
    BY <2>1, <2>2, <2>3, <2>4, AckedOnLink
<1>6. QED
  BY <1>1, <1>2, <1>3, <1>4, <1>5

\* The relay acks settled events only.
LEMMA RelayAcked ==
  ASSUME Typed, Linked, AckedIsSettled, HandFollows, RelaySteps, Settled \subseteq Settled'
  PROVE  AckedIsSettled'
<1>0. \A b, n : Upto(Settled, b, n) => Upto(Settled', b, n)
  BY DEF Upto
<1>1. task' = task /\ (task.at = "acking" => task.conn \in Conns)
  <2>1. task' = task
    BY DEF RelaySteps, RelayTakes, RelayApplies, RelayApplied, AckRefused, AckRecorded, AckSent, AckAnswered, Saves
  <2>2. QED
    BY <2>1 DEF Typed, RelayTyped, TaskState
<1>2. CASE RelayTakes
  <2>1. UNCHANGED <<conn, cursor, saved>> /\ Len(Acks') = 0
    BY <1>2, RelayTakesDoes DEF queueVars
  <2>2. QED
    BY <1>1, <2>1, AckedAgain
<1>3. CASE RelayApplies
  <2>1. PICK d \in Delivery, acks \in Seq(Delivery) :
          /\ d = InHand[1] /\ HandShifts /\ applied' = applied \cup {<<d.boot, d.seq>>}
          /\ acks = Acks /\ Acks' = Merged(acks, d)
          /\ UNCHANGED <<queueVars, cursor, saved>>
    BY <1>3, RelayAppliesDoes
  <2>2. 1 \in 1 .. Len(InHand)
    BY <2>1, HandTyped DEF HandShifts
  <2>3. Upto(Settled', d.boot, d.seq)
    <3>1. <<d.boot, d.seq>> \in Settled'
      BY <2>1 DEF Settled
    <3>2. ASSUME NEW e \in 1 .. d.seq - 1 PROVE <<d.boot, e>> \in Settled
      <4>1. \/ <<InHand[1].boot, e>> \in Settled
            \/ \E j \in 1 .. 1 - 1 : InHand[j].boot = InHand[1].boot /\ InHand[j].seq = e
        BY <2>1, <2>2 DEF HandFollows
      <4>2. QED
        BY <2>1, <4>1
    <3>3. d.seq \in Nat
      BY DeliveryFacts
    <3>4. \A e \in 1 .. d.seq : e = d.seq \/ e \in 1 .. d.seq - 1
      BY <3>3
    <3>5. QED
      BY <3>1, <3>2, <3>4 DEF Upto
  <2>4. \A i \in 1 .. Len(Acks') :
          Upto(Settled', Acks'[i].boot, Acks'[i].seq) \/ \E j \in 1 .. Len(Acks) : Acks'[i] = Acks[j]
    <3>1. \A i \in 1 .. Len(Merged(acks, d)) :
            Merged(acks, d)[i] = d \/ \E j \in 1 .. Len(acks) : Merged(acks, d)[i] = acks[j]
      BY MergedFacts
    <3>2. QED
      BY <2>1, <2>3, <3>1
  <2>5. conn' = conn
    BY <2>1 DEF queueVars
  <2>6. QED
    BY <1>1, <2>1, <2>4, <2>5, AckedAgain
<1>4. CASE RelayApplied \/ AckRefused \/ AckRecorded \/ AckSent \/ AckAnswered \/ Saves
  <2>0. \A i \in 1 .. Len(Acks') : \E j \in 1 .. Len(Acks) : Acks'[i] = Acks[j]
    BY <1>4, AckStepsDo DEF AcksKept
  <2>1. CASE RelayApplied \/ AckRefused
    <3>1. UNCHANGED <<conn, cursor, saved>>
      BY <2>1 DEF RelayApplied, AckRefused, queueVars
    <3>2. QED
      BY <1>1, <2>0, <3>1, AckedAgain
  <2>2. CASE AckRecorded
    <3>1. /\ cursor.boot = Acks[1].boot /\ UNCHANGED <<conn, saved>> /\ 1 \in 1 .. Len(Acks)
          /\ cursor' = [cursor EXCEPT !.acked = IF Acks[1].seq > @ THEN Acks[1].seq ELSE @]
      BY <2>2, HeadAck DEF AckRecorded, Typed, queueVars
    <3>2. cursor'.boot = cursor.boot /\ cursor'.acked \in {cursor.acked, Acks[1].seq}
      BY <3>1 DEF Typed, RelayTyped, Cursor
    <3>3. Upto(Settled', Acks[1].boot, Acks[1].seq) /\ Upto(Settled', cursor.boot, cursor.acked)
      BY <1>0, <3>1 DEF AckedIsSettled
    <3>4. Upto(Settled', cursor'.boot, cursor'.acked)
      BY <3>1, <3>2, <3>3
    <3>5. QED
      BY <1>1, <2>0, <3>1, <3>4, AckedAgain
  <2>3. CASE AckSent
    <3>1. /\ \/ conn' = conn
             \/ \E c \in Conns, r \in Request :
                  /\ r = AckReq(Acks[1].seq, Acks[1].boot, "relay")
                  /\ Asks(c, {r}) /\ conn'[c].q = conn[c].q
          /\ UNCHANGED <<cursor, saved>> /\ 1 \in 1 .. Len(Acks)
      BY <2>3, AckSentDoes, HeadAck DEF Typed
    <3>2. Upto(Settled', Acks[1].boot, Acks[1].seq)
      BY <1>0, <3>1 DEF AckedIsSettled
    <3>3. CASE conn' = conn
      BY <1>1, <2>0, <3>1, <3>3, AckedAgain
    <3>4. CASE conn' # conn
      <4>1. PICK c \in Conns, r \in Request : r = AckReq(Acks[1].seq, Acks[1].boot, "relay") /\ Asks(c, {r})
        BY <3>1, <3>4
      <4>2. r.t = "ack" /\ r.of = Acks[1].boot /\ r.upTo = Acks[1].seq
        BY <4>1 DEF AckReq
      <4>3. ASSUME NEW d \in Conns, NEW x \in conn'[d].asked
            PROVE  /\ conn'[d].boot = conn[d].boot
                   /\ x \in conn[d].asked \/ (x.t = "ack" /\ Upto(Settled', x.of, x.upTo))
        BY <3>2, <4>1, <4>2 DEF Asks, OnlyLink
      <4>4. \A d \in Conns : conn'[d].boot = conn[d].boot
        BY <4>1 DEF Asks, OnlyLink
      <4>5. QED
        BY <1>1, <2>0, <3>1, <4>3, <4>4, AckedAgain
    <3>5. QED
      BY <3>3, <3>4
  <2>4. CASE AckAnswered
    <3>1. /\ conn' = conn \/ \E c \in Conns : Asks(c, {})
          /\ UNCHANGED <<cursor, saved>>
      BY <2>4, AckAnsweredDoes
    <3>2. \A d \in Conns : conn'[d].boot = conn[d].boot /\ conn'[d].asked \subseteq conn[d].asked
      BY <3>1 DEF Asks, OnlyLink
    <3>3. QED
      BY <1>1, <2>0, <3>1, <3>2, AckedAgain
  <2>5. CASE Saves
    <3>1. saved' = Acks[1] /\ 1 \in 1 .. Len(Acks) /\ UNCHANGED <<conn, cursor>>
      BY <2>5, HeadAck DEF Saves, Typed, queueVars
    <3>2. Upto(Settled', saved'.boot, saved'.seq)
      BY <1>0, <3>1 DEF AckedIsSettled
    <3>3. QED
      BY <1>1, <2>0, <3>1, <3>2, AckedAgain
  <2>6. QED
    BY <1>4, <2>1, <2>2, <2>3, <2>4, <2>5
<1>5. QED
  BY <1>2, <1>3, <1>4 DEF RelaySteps

\* Every step keeps AckedIsSettled.
LEMMA StepAcked ==
  ASSUME Typed, Linked, AckedIsSettled, HandFollows, HookNext
  PROVE  AckedIsSettled'
<1>0. Settled \subseteq Settled'
  BY SettledGrows
<1>1. CASE UNCHANGED relayVars /\ HostActs
  BY <1>0, <1>1, HostAcked
<1>2. CASE LinkSteps
  BY <1>0, <1>2, LinkAcked
<1>3. CASE RelaySteps
  BY <1>0, <1>3, RelayAcked
<1>4. CASE LinkEnds \/ LinkBreaks
  <2>1. UNCHANGED <<conn, cursor, saved, relay>> /\ task'.at = "down"
    BY <1>4, DownFacts DEF LinkEnds, LinkBreaks, LetGo, queueVars
  <2>2. Acks' = Acks
    BY <2>1 DEF Acks
  <2>3. QED
    BY <1>0, <2>1, <2>2, AckedAgain
<1>5. CASE AppRestarts
  <2>1. /\ UNCHANGED <<conn, saved>> /\ task'.at = "down" /\ relay' = Waiting
        /\ cursor'.boot = saved.boot /\ cursor'.acked = saved.seq
    BY <1>5, DownFacts DEF AppRestarts, LetGo, queueVars
  <2>2. Len(Acks') = 0
    BY <2>1 DEF Acks, Waiting
  <2>3. Upto(Settled', cursor'.boot, cursor'.acked)
    BY <1>0, <2>1 DEF AckedIsSettled, Upto
  <2>4. QED
    BY <1>0, <2>1, <2>2, <2>3, AckedAgain
<1>6. QED
  BY <1>1, <1>2, <1>3, <1>4, <1>5 DEF HookNext, HostSteps, HostActs

-----------------------------------------------------------------------------
\* What is in hand follows, and the queue keeps what has not left it for good.

\* HandFollows is kept by an event whose predecessors are reached.
LEMMA HandGrowsFollows ==
  ASSUME Typed, HandFollows, Settled \subseteq Settled', Reached \subseteq Reached',
         NEW c \in Conns, NEW d \in Delivery, Forwarded(c, d),
         \A e \in 1 .. d.seq - 1 : <<d.boot, e>> \in Reached
  PROVE  HandFollows'
<1>1. Len(InHand) \in Nat /\ Len(InHand') = Len(InHand) + 1 /\ d.seq \in Nat
  BY HandTyped, DeliveryFacts DEF Forwarded, HandGrows
<1>2. ASSUME NEW i \in 1 .. Len(InHand'), NEW e \in 1 .. InHand'[i].seq - 1
      PROVE  \/ <<InHand'[i].boot, e>> \in Settled'
             \/ \E j \in 1 .. i - 1 : InHand'[j].boot = InHand'[i].boot /\ InHand'[j].seq = e
  <2>1. CASE i \in 1 .. Len(InHand)
    <3>1. InHand'[i] = InHand[i] /\ \A j \in 1 .. i - 1 : InHand'[j] = InHand[j]
      BY <1>1, <2>1 DEF Forwarded, HandGrows
    <3>2. \/ <<InHand[i].boot, e>> \in Settled
          \/ \E j \in 1 .. i - 1 : InHand[j].boot = InHand[i].boot /\ InHand[j].seq = e
      BY <2>1, <3>1 DEF HandFollows
    <3>3. QED
      BY <3>1, <3>2
  <2>2. CASE i = Len(InHand) + 1
    <3>1. InHand'[i] = d /\ \A j \in 1 .. Len(InHand) : InHand'[j] = InHand[j] /\ j \in 1 .. i - 1
      BY <1>1, <2>2 DEF Forwarded, HandGrows
    <3>2. <<d.boot, e>> \in Settled \/ <<d.boot, e>> \in Held
      BY <3>1 DEF Reached
    <3>3. CASE <<d.boot, e>> \in Settled
      BY <3>1, <3>3
    <3>4. CASE <<d.boot, e>> \in Held
      <4>1. PICK j \in 1 .. Len(InHand) : <<d.boot, e>> = <<InHand[j].boot, InHand[j].seq>>
        BY <3>4 DEF Held
      <4>2. QED
        BY <3>1, <4>1
    <3>5. QED
      BY <3>2, <3>3, <3>4
  <2>3. QED
    BY <1>1, <2>1, <2>2
<1>3. Upto(Reached', cursor'.boot, cursor'.forwarded)
  <2>1. <<d.boot, d.seq>> \in Reached'
    BY GrowsHeld DEF Forwarded, Reached
  <2>2. \A e \in 1 .. d.seq : e = d.seq \/ e \in 1 .. d.seq - 1
    BY <1>1
  <2>3. QED
    BY <2>1, <2>2 DEF Upto, Forwarded
<1>4. QED
  BY <1>2, <1>3 DEF HandFollows, Upto

\* HandFollows is kept when the first in hand is applied.
LEMMA HandShiftsFollows ==
  ASSUME Typed, HandFollows, Settled \subseteq Settled', Reached \subseteq Reached', HandShifts,
         <<InHand[1].boot, InHand[1].seq>> \in Settled', cursor' = cursor
  PROVE  HandFollows'
<1>1. Len(InHand) \in Nat
  BY HandTyped
<1>2. ASSUME NEW i \in 1 .. Len(InHand'), NEW e \in 1 .. InHand'[i].seq - 1
      PROVE  \/ <<InHand'[i].boot, e>> \in Settled'
             \/ \E j \in 1 .. i - 1 : InHand'[j].boot = InHand'[i].boot /\ InHand'[j].seq = e
  <2>1. i + 1 \in 1 .. Len(InHand) /\ InHand'[i] = InHand[i + 1] /\ (i + 1) - 1 = i
    BY <1>1 DEF HandShifts
  <2>2. \/ <<InHand[i + 1].boot, e>> \in Settled
        \/ \E j \in 1 .. i : InHand[j].boot = InHand[i + 1].boot /\ InHand[j].seq = e
    <3>1. e \in 1 .. InHand[i + 1].seq - 1
      BY <2>1
    <3>2. QED
      BY <2>1, <3>1 DEF HandFollows
  <2>3. CASE <<InHand[i + 1].boot, e>> \in Settled
    BY <2>1, <2>3
  <2>4. CASE \E j \in 1 .. i : InHand[j].boot = InHand[i + 1].boot /\ InHand[j].seq = e
    <3>1. PICK j \in 1 .. i : InHand[j].boot = InHand[i + 1].boot /\ InHand[j].seq = e
      BY <2>4
    <3>2. CASE j = 1
      BY <2>1, <3>1, <3>2
    <3>3. CASE j # 1
      <4>1. j - 1 \in 1 .. i - 1 /\ j - 1 \in 1 .. Len(InHand') /\ (j - 1) + 1 = j
        BY <1>1, <3>3
      <4>2. InHand'[j - 1] = InHand[j]
        BY <4>1 DEF HandShifts
      <4>3. QED
        BY <2>1, <3>1, <4>1, <4>2
    <3>4. QED
      BY <3>2, <3>3
  <2>5. QED
    BY <2>2, <2>3, <2>4
<1>3. Upto(Reached', cursor'.boot, cursor'.forwarded)
  BY DEF HandFollows, Upto
<1>4. QED
  BY <1>2, <1>3 DEF HandFollows, Upto

\* HandFollows is kept by what leaves the hand and the cursor alone.
LEMMA HandSameFollows ==
  ASSUME HandFollows, Settled \subseteq Settled', Reached \subseteq Reached', InHand' = InHand,
         \/ cursor'.boot = cursor.boot /\ cursor'.forwarded = cursor.forwarded
         \/ cursor'.forwarded = 0
  PROVE  HandFollows'
<1>1. ASSUME NEW i \in 1 .. Len(InHand'), NEW e \in 1 .. InHand'[i].seq - 1
      PROVE  \/ <<InHand'[i].boot, e>> \in Settled'
             \/ \E j \in 1 .. i - 1 : InHand'[j].boot = InHand'[i].boot /\ InHand'[j].seq = e
  BY DEF HandFollows
<1>2. Upto(Reached', cursor'.boot, cursor'.forwarded)
  BY DEF HandFollows, Upto
<1>3. QED
  BY <1>1, <1>2 DEF HandFollows, Upto

\* The cursor, unless an event is forwarded or the app starts again.
LEMMA CursorStays ==
  ASSUME Typed, HookNext
  PROVE  \/ cursor'.boot = cursor.boot /\ cursor'.forwarded = cursor.forwarded
         \/ cursor'.forwarded = 0
         \/ \E c \in Conns : Forwards(c)
         \/ AppRestarts
<1>1. CASE UNCHANGED relayVars
  BY <1>1, HandKept
<1>2. CASE LinkSteps
  <2>1. PICK c \in Conns : \/ Connects(c) \/ ServeBegins(c) \/ ServeAcked(c) \/ ServeSubscribed(c)
                           \/ Forwards(c) \/ ForwardsDropped(c)
    BY <1>2 DEF LinkSteps
  <2>2. CASE ServeBegins(c)
    <3>1. conn[c].boot \in 0 .. MaxBoot
      BY LinkFacts DEF Typed, QueueTyped
    <3>2. QED
      BY <2>2, <3>1, ServeBeginsDoes, ResumedFacts DEF Typed
  <2>3. CASE Connects(c) \/ ServeAcked(c) \/ ServeSubscribed(c) \/ ForwardsDropped(c)
    BY <2>3 DEF Connects, ServeAcked, ServeSubscribed, ForwardsDropped, relayVars
  <2>4. QED
    BY <2>1, <2>2, <2>3
<1>3. CASE LinkEnds \/ LinkBreaks
  BY <1>3 DEF LinkEnds, LinkBreaks
<1>4. CASE RelaySteps
  BY <1>4 DEF RelaySteps, RelayTakes, RelayApplies, RelayApplied, AckRefused, AckRecorded, AckSent, AckAnswered,
              Saves, Typed, RelayTyped, Cursor
<1>5. QED
  BY <1>1, <1>2, <1>3, <1>4 DEF HookNext

\* Every step keeps HandFollows.
LEMMA StepHandFollows ==
  ASSUME Typed, Linked, AckedIsSettled, HandFollows, HookNext,
         \A c \in Conns : task.conn = c => StreamFollows(c)
  PROVE  HandFollows'
<1>0. Settled \subseteq Settled'
  BY SettledGrows
<1>1. CASE AppRestarts
  <2>1. /\ cursor'.boot = saved.boot /\ cursor'.forwarded = saved.seq /\ inbox' = <<>> /\ relay' = Waiting
    BY <1>1 DEF AppRestarts
  <2>2. Len(InHand') = 0
    BY <2>1 DEF InHand, Waiting
  <2>3. Upto(Reached', cursor'.boot, cursor'.forwarded)
    BY <1>0, <2>1 DEF AckedIsSettled, Upto, Reached
  <2>4. QED
    BY <2>2, <2>3 DEF HandFollows, Upto
<1>2. CASE ~AppRestarts
  <2>0. Reached \subseteq Reached'
    BY <1>2, ReachedGrows
  <2>1. CASE RelayApplies
    <3>1. PICK d \in Delivery : /\ d = InHand[1] /\ HandShifts /\ applied' = applied \cup {<<d.boot, d.seq>>}
                                /\ cursor' = cursor
      BY <2>1, RelayAppliesDoes
    <3>2. QED
      BY <1>0, <2>0, <3>1, HandShiftsFollows DEF Settled
  <2>2. CASE \E c \in Conns, d \in Delivery : Forwards(c) /\ Forwarded(c, d)
    <3>1. PICK c \in Conns, d \in Delivery : Forwards(c) /\ Forwarded(c, d)
      BY <2>2
    <3>2. task.conn = c /\ conn[c].q # <<>> /\ conn[c].q[1].t = "hook" /\ StreamFollows(c)
      BY <3>1, ForwardsDoes DEF Next1
    <3>3. PICK q \in Seq(Line) : q = conn[c].q
      BY LinkFacts DEF Typed, QueueTyped
    <3>4. 1 \in 1 .. Len(q)
      BY <3>2, <3>3, TailFacts
    <3>5. ASSUME NEW e \in 1 .. d.seq - 1 PROVE <<d.boot, e>> \in Reached
      <4>1. <<conn[c].boot, e>> \in Reached \/ Carries(q, 1 - 1, e)
        BY <3>1, <3>2, <3>3, <3>4 DEF StreamFollows, Follows, Forwarded
      <4>2. QED
        BY <3>1, <4>1 DEF Forwarded, Carries
    <3>6. QED
      BY <1>0, <2>0, <3>1, <3>5, HandGrowsFollows
  <2>3. CASE InHand' = InHand
    <3>1. CASE \E c \in Conns : Forwards(c)
      <4>1. cursor' = cursor \/ \E d \in Delivery : HandGrows(d)
        BY <3>1, ForwardsHand DEF Forwarded
      <4>2. \A d : ~HandGrows(d)
        BY <2>3, HandTyped DEF HandGrows
      <4>3. QED
        BY <1>0, <2>0, <2>3, <4>1, <4>2, HandSameFollows
    <3>2. CASE ~\E c \in Conns : Forwards(c)
      BY <1>0, <1>2, <2>0, <2>3, <3>2, CursorStays, HandSameFollows
    <3>3. QED
      BY <3>1, <3>2
  <2>4. QED
    BY <1>2, <2>1, <2>2, <2>3, HandSteps
<1>3. QED
  BY <1>1, <1>2

\* The queue changes when something is pushed or acked, and with the boot.
LEMMA StepQueueKeeps ==
  ASSUME Typed, AckedIsSettled, QueueKeeps, HookNext, ~strayed'
  PROVE  QueueKeeps'
<1>0. Settled \subseteq Settled'
  BY SettledGrows
<1>1. ASSUME UNCHANGED <<boot, items, lastSeq>> PROVE QueueKeeps'
  BY <1>0, <1>1 DEF QueueKeeps
<1>2. CASE \E n \in 0 .. QueueCap : Push(n)
  <2>1. /\ lastSeq' = lastSeq + 1 /\ lastSeq' \in items' /\ boot' = boot
        /\ \A e \in items : e \in items' \/ <<boot, e>> \in evicted'
    BY <1>2, PushDoes
  <2>2. \A e \in 1 .. lastSeq + 1 : e = lastSeq + 1 \/ e \in 1 .. lastSeq
    BY DEF Typed, QueueTyped
  <2>3. evicted' \subseteq Settled'
    BY DEF Settled
  <2>4. QED
    BY <1>0, <2>1, <2>2, <2>3 DEF QueueKeeps
<1>3. CASE \E c \in Conns : HandlesAck(c)
  <2>1. PICK c \in Conns : HandlesAck(c)
    BY <1>3
  <2>2. PICK r \in conn[c].asked : /\ r \in Request /\ r.t = "ack" /\ items' = {e \in items : e > r.upTo}
                                   /\ strayed' = (strayed \/ r.of # boot) /\ UNCHANGED <<boot, lastSeq>>
    BY <2>1, HandlesAckDoes
  <2>3. Upto(Settled, boot, r.upTo)
    BY <2>2 DEF AckedIsSettled
  <2>4. r.upTo \in Int /\ \A e \in items : e \in Int /\ e >= 1
    BY <2>2, RequestFacts DEF Typed, QueueTyped
  <2>5. ASSUME NEW e \in items PROVE e \in items' \/ <<boot, e>> \in Settled
    <3>1. e > r.upTo \/ e \in 1 .. r.upTo
      BY <2>4
    <3>2. QED
      BY <2>2, <2>3, <3>1 DEF Upto
  <2>6. QED
    BY <1>0, <2>2, <2>5 DEF QueueKeeps
<1>4. CASE HostRestarts
  BY <1>4, HostRestartsDoes DEF QueueKeeps, Typed
<1>5. CASE \E c \in Conns : Subscribing(c) \/ HostCloses(c) \/ TeardownEnds(c)
  BY <1>1, <1>5 DEF Subscribing, HandlesSubscribe, BacklogEnds, BacklogTakes, BacklogSends, HostCloses, TeardownEnds
<1>6. CASE LinkSteps
  <2>1. PICK c \in Conns : \/ Connects(c) \/ ServeBegins(c) \/ ServeAcked(c) \/ ServeSubscribed(c)
                           \/ Forwards(c) \/ ForwardsDropped(c)
    BY <1>6 DEF LinkSteps
  <2>2. UNCHANGED hostSide
    BY <2>1 DEF Connects, ServeBegins, ServeAcked, ServeSubscribed, Forwards, ForwardsDropped
  <2>3. QED
    BY <1>1, <2>2 DEF hostSide
<1>7. CASE LinkEnds \/ LinkBreaks \/ AppRestarts \/ RelaySteps
  <2>1. UNCHANGED queueVars \/ UNCHANGED hostSide
    BY <1>7 DEF LinkEnds, LinkBreaks, AppRestarts, RelaySteps, RelayTakes, RelayApplies, RelayApplied, AckRefused,
                AckRecorded, AckSent, AckAnswered, Saves
  <2>2. QED
    BY <1>1, <2>1 DEF queueVars, hostSide
<1>8. QED
  BY <1>2, <1>3, <1>4, <1>5, <1>6, <1>7 DEF HookNext, HostSteps

-----------------------------------------------------------------------------
\* The stream of the link that is served.

\* Covered, as it is after the step.
CoveredNext(c, n) ==
  \A e \in 1 .. n : <<conn'[c].boot, e>> \in Reached' \/ Carries(conn'[c].q, Len(conn'[c].q), e)

\* The lines on link c follow after the step, and what was covered is.
StreamGoesOn(c) ==
  /\ Follows(conn'[c].q, conn'[c].boot, Reached')
  /\ \A n : Covered(c, n) => CoveredNext(c, n)

\* StreamFollows of the next state, spelt out.
LEMMA StreamBecomes ==
  ASSUME NEW c \in Conns, Follows(conn'[c].q, conn'[c].boot, Reached'),
         conn'[c].st \in {"open", "closed"} =>
           /\ sub'[c].at = "loop" => CoveredNext(c, sub'[c].after)
           /\ sub'[c].at = "sending" =>
                /\ CoveredNext(c, sub'[c].chunk[1] - 1)
                /\ \A i \in 2 .. Len(sub'[c].chunk) :
                     \A e \in sub'[c].chunk[i - 1] + 1 .. sub'[c].chunk[i] - 1 : <<boot', e>> \in Settled'
           /\ subscriber' = c => CoveredNext(c, lastSeq')
  PROVE  StreamFollows(c)'
BY DEF StreamFollows, Follows, Covered, CoveredNext, Carries

\* StreamFollows is kept by what takes a line away and adds none.
LEMMA StreamStays ==
  ASSUME NEW c \in Conns, StreamFollows(c), StreamGoesOn(c), Settled \subseteq Settled',
         boot' = boot, sub'[c] = sub[c],
         conn'[c].st \in {"open", "closed"} => conn[c].st \in {"open", "closed"},
         subscriber' = c => subscriber = c /\ lastSeq' = lastSeq
  PROVE  StreamFollows(c)'
<1> SUFFICES ASSUME conn'[c].st \in {"open", "closed"}
             PROVE  /\ sub'[c].at = "loop" => CoveredNext(c, sub'[c].after)
                    /\ sub'[c].at = "sending" =>
                         /\ CoveredNext(c, sub'[c].chunk[1] - 1)
                         /\ \A i \in 2 .. Len(sub'[c].chunk) :
                              \A e \in sub'[c].chunk[i - 1] + 1 .. sub'[c].chunk[i] - 1 : <<boot', e>> \in Settled'
                    /\ subscriber' = c => CoveredNext(c, lastSeq')
  BY StreamBecomes DEF StreamGoesOn
<1>1. /\ sub[c].at = "loop" => Covered(c, sub[c].after)
      /\ sub[c].at = "sending" => Covered(c, sub[c].chunk[1] - 1)
      /\ subscriber = c => Covered(c, lastSeq)
      /\ \A n : Covered(c, n) => CoveredNext(c, n)
  BY DEF StreamFollows, StreamGoesOn
<1>2. ASSUME sub[c].at = "sending", NEW i \in 2 .. Len(sub[c].chunk),
             NEW e \in sub[c].chunk[i - 1] + 1 .. sub[c].chunk[i] - 1
      PROVE  <<boot', e>> \in Settled'
  BY <1>2 DEF StreamFollows
<1>3. QED
  BY <1>1, <1>2

\* A link that is left alone goes on as it was.
LEMMA SameGoesOn ==
  ASSUME NEW c \in Conns, StreamFollows(c), Reached \subseteq Reached',
         conn'[c].q = conn[c].q, conn'[c].boot = conn[c].boot
  PROVE  StreamGoesOn(c)
BY DEF StreamFollows, StreamGoesOn, Follows, Covered, CoveredNext

\* A link that is sent lines that follow goes on.
LEMMA SendsGoesOn ==
  ASSUME Typed, NEW c \in Conns, StreamFollows(c), Reached \subseteq Reached',
         NEW lines \in Seq(Line), NEW ok \in BOOLEAN, Sends(c, lines, ok),
         conn[c].st \in {"open", "closed"} => FollowOn(conn[c].q, lines, conn[c].boot, Reached')
  PROVE  StreamGoesOn(c)
<1>1. conn'[c].boot = conn[c].boot /\ conn'[c] \in Link
  BY DEF Sends, OnlyLink
<1>2. CASE conn[c].st \notin {"open", "closed"}
  <2>1. conn'[c].q = conn[c].q
    BY <1>2 DEF Sends
  <2>2. QED
    BY <1>1, <2>1, SameGoesOn
<1>3. CASE conn[c].st \in {"open", "closed"}
  <2>1. PICK q, q2 \in Seq(Line) : q = conn[c].q /\ q2 = conn'[c].q
    BY <1>1, LinkFacts DEF Typed, QueueTyped
  <2>2. PICK m \in 0 .. Len(lines) : Grown(q, q2, lines, m)
    BY <2>1 DEF Sends
  <2>3. PICK b : b = conn[c].boot
    OBVIOUS
  <2>4. PICK S, T : S = Reached /\ T = Reached'
    OBVIOUS
  <2>5. Follows(q, b, S) /\ S \subseteq T /\ FollowOn(q, lines, b, T)
    BY <1>3, <2>1, <2>3, <2>4 DEF StreamFollows
  <2>6. Follows(q2, b, T)
    BY <2>2, <2>5, GrownFollows
  <2>7. \A e : Carries(q, Len(q), e) => Carries(q2, Len(q2), e)
    BY <2>2, GrownCarries
  <2>8. \A n : Covered(c, n) => CoveredNext(c, n)
    BY <1>1, <2>1, <2>7 DEF Covered, CoveredNext
  <2>9. QED
    BY <1>1, <2>1, <2>3, <2>4, <2>6, <2>8 DEF StreamGoesOn
<1>4. QED
  BY <1>2, <1>3

\* A link that is read from goes on, when what was read has reached the app.
LEMMA ReadsGoesOn ==
  ASSUME Typed, NEW c \in Conns, StreamFollows(c), Reached \subseteq Reached', NEW d \in Conns, NEW reqs, Asks(d, reqs),
         \/ conn'[d].q = conn[d].q
         \/ Reads(d) /\ (conn[d].q[1].t = "hook" => d = c /\ <<conn[c].boot, conn[c].q[1].seq>> \in Reached')
  PROVE  StreamGoesOn(c) /\ conn'[c].st = conn[c].st
<1>1. conn'[c].boot = conn[c].boot /\ conn'[c].st = conn[c].st
  BY DEF Asks, OnlyLink
<1>2. CASE conn'[c].q = conn[c].q
  BY <1>1, <1>2, SameGoesOn
<1>3. CASE conn'[c].q # conn[c].q
  <2>1. /\ conn[c].q # <<>> /\ conn'[c].q = Tail(conn[c].q)
        /\ conn[c].q[1].t = "hook" => <<conn[c].boot, conn[c].q[1].seq>> \in Reached'
    BY <1>3 DEF Asks, OnlyLink, Reads
  <2>2. PICK q \in Seq(Line) : q = conn[c].q
    BY LinkFacts DEF Typed, QueueTyped
  <2>3. PICK b : b = conn[c].boot
    OBVIOUS
  <2>4. PICK S, T : S = Reached /\ T = Reached'
    OBVIOUS
  <2>5. q # <<>> /\ S \subseteq T /\ (q[1].t = "hook" => <<b, q[1].seq>> \in T) /\ Follows(q, b, S)
    BY <2>1, <2>2, <2>3, <2>4 DEF StreamFollows
  <2>6. /\ Follows(Tail(q), b, T)
        /\ \A e : Carries(q, Len(q), e) => <<b, e>> \in T \/ Carries(Tail(q), Len(Tail(q)), e)
    BY <2>5, TailFollows
  <2>7. \A n : Covered(c, n) => CoveredNext(c, n)
    BY <1>1, <2>1, <2>2, <2>3, <2>4, <2>6 DEF Covered, CoveredNext
  <2>8. QED
    BY <1>1, <2>1, <2>2, <2>3, <2>4, <2>6, <2>7 DEF StreamGoesOn
<1>4. QED
  BY <1>1, <1>2, <1>3

\* A run that was sent whole is in the queue.
LEMMA AllSent ==
  ASSUME Typed, NEW c \in Conns, NEW lines \in Seq(Line), NEW ok \in BOOLEAN, ok, Sends(c, lines, ok)
  PROVE  \A k \in 1 .. Len(lines) : lines[k].t = "hook" => Carries(conn'[c].q, Len(conn'[c].q), lines[k].seq)
<1> SUFFICES ASSUME NEW k \in 1 .. Len(lines), lines[k].t = "hook"
             PROVE  Carries(conn'[c].q, Len(conn'[c].q), lines[k].seq)
  OBVIOUS
<1>1. PICK q, q2 \in Seq(Line) : q = conn[c].q /\ q2 = conn'[c].q
  BY LinkFacts DEF Typed, QueueTyped, Sends, OnlyLink
<1>2. Grown(q, q2, lines, Len(lines))
  BY <1>1 DEF Sends
<1>3. q2[Len(q) + k] = lines[k] /\ Len(q) + k \in 1 .. Len(q2)
  <2>1. Len(q) \in Nat /\ Len(lines) \in Nat
    BY SeqFacts
  <2>2. QED
    BY <1>2, <2>1 DEF Grown
<1>4. QED
  BY <1>1, <1>3 DEF Carries

\* A link on which nothing happens.
LEMMA ElsewhereStays ==
  ASSUME NEW c \in Conns, StreamFollows(c), Settled \subseteq Settled', Reached \subseteq Reached',
         boot' = boot, conn'[c] = conn[c], sub'[c] = sub[c],
         subscriber' = c => subscriber = c /\ lastSeq' = lastSeq
  PROVE  StreamFollows(c)'
<1>1. StreamGoesOn(c)
  BY SameGoesOn
<1>2. QED
  BY <1>1, StreamStays

\* A push keeps StreamFollows: the subscriber is sent the event, or its link closes.
LEMMA PushStream ==
  ASSUME Typed, Linked, NEW c \in Conns, StreamFollows(c), Settled \subseteq Settled', Reached \subseteq Reached',
         NEW n \in 0 .. QueueCap, Push(n)
  PROVE  StreamFollows(c)'
<1>0. c # NoConn
  BY HookAssumption
<1>1. ToSubscriber /\ UNCHANGED <<boot, sub>> /\ lastSeq' = lastSeq + 1 /\ lastSeq \in Nat
  BY PushDoes DEF Typed, QueueTyped
<1>2. CASE subscriber # c
  <2>1. conn'[c] = conn[c] /\ subscriber' # c
    <3>1. CASE subscriber = NoConn
      BY <1>0, <1>1, <3>1 DEF ToSubscriber
    <3>2. CASE subscriber # NoConn
      <4>1. PICK lines, ok : Sends(subscriber, lines, ok) /\ subscriber' \in {subscriber, NoConn}
        BY <1>1, <3>2 DEF ToSubscriber
      <4>2. QED
        BY <1>0, <1>2, <4>1 DEF Sends, OnlyLink
    <3>3. QED
      BY <3>1, <3>2
  <2>2. QED
    BY <1>1, <2>1, ElsewhereStays
<1>3. CASE subscriber = c
  <2>1. PICK lines \in Seq(Line), ok \in BOOLEAN :
          News(lines) /\ Sends(c, lines, ok) /\ subscriber' = IF ok THEN c ELSE NoConn
    BY <1>0, <1>1, <1>3 DEF ToSubscriber
  <2>2. /\ \A k \in 1 .. Len(lines) : lines[k].t = "hook" => lines[k].seq = lastSeq + 1
        /\ lines[Len(lines)].t = "hook" /\ lines[Len(lines)].seq = lastSeq + 1 /\ Len(lines) \in 1 .. Len(lines)
    <3>1. Len(lines) \in 1 .. 2 /\ lines[Len(lines)] = HookLine(lastSeq + 1)
          /\ (Len(lines) = 2 => lines[1] = DroppedLine)
      BY <2>1 DEF News
    <3>2. HookLine(lastSeq + 1).t = "hook" /\ HookLine(lastSeq + 1).seq = lastSeq + 1 /\ DroppedLine.t = "dropped"
      BY DEF HookLine, DroppedLine
    <3>3. \A k \in 1 .. Len(lines) : k = Len(lines) \/ (k = 1 /\ Len(lines) = 2)
      BY <3>1
    <3>4. \A k \in 1 .. Len(lines) : lines[k].t = "hook" => k = Len(lines)
      BY <3>1, <3>2, <3>3
    <3>5. Len(lines) \in 1 .. Len(lines)
      BY <3>1
    <3>6. lines[Len(lines)].t = "hook" /\ lines[Len(lines)].seq = lastSeq + 1
      BY <3>1, <3>2
    <3>7. QED
      BY <3>4, <3>5, <3>6
  <2>3. conn[c].st \in {"open", "closed"} => Covered(c, lastSeq)
    BY <1>3 DEF StreamFollows
  <2>4. conn[c].st \in {"open", "closed"} => FollowOn(conn[c].q, lines, conn[c].boot, Reached')
    BY <1>1, <2>2, <2>3 DEF FollowOn, Covered
  <2>5. StreamGoesOn(c)
    BY <2>1, <2>4, SendsGoesOn
  <2>6. conn'[c].st = conn[c].st
    BY <2>1 DEF Sends
  <2>7. CASE ok
    <3>1. Carries(conn'[c].q, Len(conn'[c].q), lastSeq + 1)
      BY <2>1, <2>2, <2>7, AllSent
    <3>2. ASSUME conn'[c].st \in {"open", "closed"} PROVE CoveredNext(c, lastSeq')
      <4>1. CoveredNext(c, lastSeq)
        BY <2>3, <2>5, <2>6, <3>2 DEF StreamGoesOn
      <4>2. \A e \in 1 .. lastSeq' : e \in 1 .. lastSeq \/ e = lastSeq + 1
        BY <1>1
      <4>3. QED
        BY <3>1, <4>1, <4>2 DEF CoveredNext
    <3>3. /\ sub[c].at = "loop" /\ conn[c].st \in {"open", "closed"} => CoveredNext(c, sub[c].after)
          /\ sub[c].at = "sending" /\ conn[c].st \in {"open", "closed"} => CoveredNext(c, sub[c].chunk[1] - 1)
      BY <2>5 DEF StreamFollows, StreamGoesOn
    <3>4. ASSUME sub[c].at = "sending", conn[c].st \in {"open", "closed"}, NEW i \in 2 .. Len(sub[c].chunk),
                 NEW e \in sub[c].chunk[i - 1] + 1 .. sub[c].chunk[i] - 1
          PROVE  <<boot', e>> \in Settled'
      BY <1>1, <3>4 DEF StreamFollows
    <3>5. QED
      BY <1>1, <2>5, <2>6, <3>2, <3>3, <3>4, StreamBecomes DEF StreamGoesOn
  <2>8. CASE ~ok
    <3>1. subscriber' # c
      BY <1>0, <2>1, <2>8
    <3>2. QED
      BY <1>1, <2>5, <2>6, <3>1, StreamStays
  <2>9. QED
    BY <2>7, <2>8
<1>4. QED
  BY <1>2, <1>3

\* Answers and reports are no events.
LEMMA PlainFollowOn ==
  ASSUME NEW lines, \A k \in 1 .. Len(lines) : lines[k].t # "hook"
  PROVE  \A q, b, T : FollowOn(q, lines, b, T)
BY DEF FollowOn

\* An answer is no hook.
LEMMA AnswersStream ==
  ASSUME Typed, Linked, AckedIsSettled, NEW c \in Conns, StreamFollows(c),
         Settled \subseteq Settled', Reached \subseteq Reached', HandlesAck(c) \/ HandlesSubscribe(c)
  PROVE  StreamFollows(c)'
<1>1. CASE HandlesAck(c)
  <2>1. PICK lines \in Seq(Line), ok \in BOOLEAN :
          /\ Len(lines) = 1 /\ lines[1].t = "acked" /\ Sends(c, lines, ok)
          /\ UNCHANGED <<boot, lastSeq, subscriber, sub>>
    BY <1>1, HandlesAckDoes
  <2>2. \A k \in 1 .. Len(lines) : lines[k].t # "hook"
    BY <2>1
  <2>3. StreamGoesOn(c)
    BY <2>1, <2>2, PlainFollowOn, SendsGoesOn
  <2>4. QED
    BY <2>1, <2>3, StreamStays DEF Sends
<1>2. CASE HandlesSubscribe(c)
  <2>1. PICK r \in conn[c].asked, lines \in Seq(Line), ok \in BOOLEAN :
          /\ r.t = "subscribe" /\ r.after \in 0 .. MaxHooks
          /\ Len(lines) = 1 /\ lines[1].t = "subscribed" /\ Sends(c, lines, ok)
          /\ sub' = [sub EXCEPT ![c] = IF ok THEN Looping(r.after) ELSE Idle]
          /\ UNCHANGED <<boot, lastSeq, subscriber>>
    BY <1>2, HandlesSubscribeDoes
  <2>2. \A k \in 1 .. Len(lines) : lines[k].t # "hook"
    BY <2>1
  <2>3. StreamGoesOn(c) /\ conn'[c].st = conn[c].st
    BY <2>1, <2>2, PlainFollowOn, SendsGoesOn DEF Sends
  <2>4. sub'[c] = IF ok THEN Looping(r.after) ELSE Idle
    BY <2>1 DEF Typed, QueueTyped
  <2>5. sub'[c].at # "sending" /\ (sub'[c].at = "loop" => sub'[c].after = r.after)
    BY <2>4 DEF Looping, Idle
  <2>6. CoveredNext(c, r.after)
    <3>1. Covered(c, r.after)
      BY <2>1 DEF AckedIsSettled, Covered, Upto, Reached
    <3>2. QED
      BY <2>3, <3>1 DEF StreamGoesOn
  <2>7. subscriber' = c /\ conn'[c].st \in {"open", "closed"} => CoveredNext(c, lastSeq')
    BY <2>1, <2>3 DEF StreamFollows, StreamGoesOn
  <2>8. QED
    BY <2>3, <2>5, <2>6, <2>7, StreamBecomes DEF StreamGoesOn
<1>3. QED
  BY <1>1, <1>2

\* Nothing is due: c is the subscriber, and what comes is all there is to come.
LEMMA BacklogEndsStream ==
  ASSUME Typed, Linked, QueueKeeps, NEW c \in Conns, StreamFollows(c),
         Settled \subseteq Settled', Reached \subseteq Reached', BacklogEnds(c)
  PROVE  StreamFollows(c)'
<1>1. PICK lines \in Seq(Line), ok \in BOOLEAN :
        /\ sub[c].at = "loop" /\ Due(sub[c].after) = {} /\ sub' = [sub EXCEPT ![c] = Idle]
        /\ \A i \in 1 .. Len(lines) : lines[i].t = "dropped"
        /\ Sends(c, lines, ok) /\ UNCHANGED <<boot, lastSeq>>
  BY BacklogEndsDoes
<1>2. \A k \in 1 .. Len(lines) : lines[k].t # "hook"
  BY <1>1
<1>3. StreamGoesOn(c) /\ conn'[c].st = conn[c].st
  BY <1>1, <1>2, PlainFollowOn, SendsGoesOn DEF Sends
<1>4. sub'[c] = Idle /\ Idle.at = "idle"
  BY <1>1 DEF Typed, QueueTyped, Idle
<1>5. ASSUME conn'[c].st \in {"open", "closed"} PROVE CoveredNext(c, lastSeq')
  <2>1. conn[c].boot = boot /\ Covered(c, sub[c].after)
    BY <1>1, <1>3, <1>5 DEF Linked, StreamFollows
  <2>2. sub[c].after \in Nat
    BY <1>1, SubscriptionFacts DEF Typed, QueueTyped
  <2>3. ASSUME NEW e \in 1 .. lastSeq PROVE e \in 1 .. sub[c].after \/ <<boot, e>> \in Settled
    <3>1. e \in 1 .. sub[c].after \/ e > sub[c].after
      BY <2>2
    <3>2. e \in items \/ <<boot, e>> \in Settled
      BY DEF QueueKeeps
    <3>3. QED
      BY <1>1, <3>1, <3>2 DEF Due
  <2>4. Covered(c, lastSeq)
    BY <2>1, <2>3 DEF Covered, Reached
  <2>5. QED
    BY <1>1, <1>3, <2>4 DEF StreamGoesOn
<1>6. QED
  BY <1>3, <1>4, <1>5, StreamBecomes DEF StreamGoesOn

\* The next chunk: between the events copied there are none left.
LEMMA BacklogTakesStream ==
  ASSUME Typed, Linked, QueueKeeps, NEW c \in Conns, StreamFollows(c),
         Settled \subseteq Settled', Reached \subseteq Reached', BacklogTakes(c)
  PROVE  StreamFollows(c)'
<1>1. PICK chunk \in Seq(1 .. MaxHooks) :
        /\ Chunk(c, chunk)
        /\ sub[c].at = "loop" /\ sub' = [sub EXCEPT ![c] = Sending(chunk, unreported)]
        /\ UNCHANGED <<boot, lastSeq, subscriber, conn>>
  BY BacklogTakesDoes
<1>2. /\ sub'[c].at = "sending" /\ sub'[c].chunk = chunk
  BY <1>1 DEF Sending, Typed, QueueTyped
<1>3. StreamGoesOn(c)
  BY <1>1, SameGoesOn
<1>4. /\ Len(chunk) \in Nat /\ Len(chunk) >= 1 /\ 1 \in 1 .. Len(chunk)
      /\ \A i \in 1 .. Len(chunk) : chunk[i] \in items /\ chunk[i] > sub[c].after
      /\ \A i \in 1 .. Len(chunk) : chunk[i] \in 1 .. lastSeq
      /\ \A i, j \in 1 .. Len(chunk) : i < j => chunk[i] < chunk[j]
  <2>1. Len(chunk) \in Nat /\ Len(chunk) >= 1
    BY <1>1 DEF Chunk
  <2>2. \A i \in 1 .. Len(chunk) : chunk[i] \in items /\ chunk[i] > sub[c].after
    BY <1>1 DEF Chunk, Due
  <2>3. items \subseteq 1 .. lastSeq
    BY DEF Typed, QueueTyped
  <2>4. \A i, j \in 1 .. Len(chunk) : i < j => chunk[i] < chunk[j]
    BY <1>1 DEF Chunk
  <2>5. 1 \in 1 .. Len(chunk)
    BY <2>1
  <2>6. \A i \in 1 .. Len(chunk) : chunk[i] \in 1 .. lastSeq
    BY <2>2, <2>3
  <2>7. QED
    BY <2>1, <2>2, <2>4, <2>5, <2>6
<1>5. sub[c].after \in Nat /\ lastSeq \in Nat
  <2>1. sub[c] \in Subscription /\ lastSeq \in Nat
    BY DEF Typed, QueueTyped
  <2>2. QED
    BY <1>1, <2>1, SubscriptionFacts, HookAssumption
<1>a. Len(chunk) \in Nat
  BY <1>4
<1>b. \A i \in 1 .. Len(chunk) : chunk[i] \in Nat /\ chunk[i] > sub[c].after
  BY <1>4
<1>c. \A i, j \in 1 .. Len(chunk) : i < j => chunk[i] < chunk[j]
  BY <1>4
<1>6. ASSUME NEW e \in Nat, e > sub[c].after, NEW i \in 1 .. Len(chunk), e < chunk[i],
             \A j \in 1 .. Len(chunk) : chunk[j] # e
      PROVE  <<boot, e>> \in Settled'
  <2>1. e \in 1 .. lastSeq
    BY <1>4, <1>5, <1>6
  <2>2. e \notin items
    <3>1. e <= chunk[i]
      BY <1>4, <1>6
    <3>2. QED
      BY <1>1, <1>6, <3>1 DEF Chunk, Due
  <2>3. QED
    BY <2>1, <2>2 DEF QueueKeeps
<1>7. ASSUME conn'[c].st \in {"open", "closed"} PROVE CoveredNext(c, chunk[1] - 1)
  <2>1. conn[c].boot = boot /\ Covered(c, sub[c].after) /\ CoveredNext(c, sub[c].after) /\ conn'[c].boot = boot
    BY <1>1, <1>3, <1>7 DEF Linked, StreamFollows, StreamGoesOn
  <2>2. chunk[1] \in Nat
    BY <1>4
  <2>3. \A j \in 1 .. Len(chunk) : chunk[1] <= chunk[j]
    BY <1>4
  <2>4. ASSUME NEW e \in 1 .. chunk[1] - 1 PROVE e \in 1 .. sub[c].after \/ <<boot, e>> \in Settled'
    <3>1. e \in Nat /\ e < chunk[1]
      BY <2>2
    <3>2. e \in 1 .. sub[c].after \/ e > sub[c].after
      BY <1>5, <3>1
    <3>3. \A j \in 1 .. Len(chunk) : chunk[j] # e
      BY <1>4, <2>2, <2>3, <3>1
    <3>4. QED
      BY <1>4, <1>6, <3>1, <3>2, <3>3
  <2>5. Settled' \subseteq Reached'
    BY DEF Reached
  <2>6. QED
    BY <2>1, <2>4, <2>5 DEF CoveredNext
<1>8. ASSUME NEW i \in 2 .. Len(chunk), NEW e \in chunk[i - 1] + 1 .. chunk[i] - 1
      PROVE  <<boot', e>> \in Settled'
  <2>1. i \in 1 .. Len(chunk) /\ i - 1 \in 1 .. Len(chunk)
    BY <1>a
  <2>2. chunk[i] \in Nat /\ chunk[i - 1] \in Nat /\ chunk[i - 1] > sub[c].after
    BY <1>b, <2>1
  <2>3. e \in Nat /\ e > chunk[i - 1] /\ e < chunk[i] /\ e > sub[c].after
    <3>1. \A a, b \in Nat : \A x \in a + 1 .. b - 1 : x \in Nat /\ x > a /\ x < b
      OBVIOUS
    <3>2. e \in Nat /\ e > chunk[i - 1] /\ e < chunk[i]
      BY <2>2, <3>1
    <3>3. \A x, y, z \in Nat : x > y /\ y > z => x > z
      OBVIOUS
    <3>4. QED
      BY <1>5, <2>2, <3>2, <3>3
  <2>4. ASSUME NEW j \in 1 .. Len(chunk) PROVE chunk[j] # e
    <3>1. j < i - 1 \/ j = i - 1 \/ j = i \/ i < j
      BY <2>1
    <3>2. j < i - 1 => chunk[j] < chunk[i - 1]
      BY <1>c, <2>1
    <3>3. i < j => chunk[i] < chunk[j]
      BY <1>c, <2>1
    <3>4. chunk[j] \in Nat
      BY <1>b
    <3>5. j < i - 1 => chunk[j] # e
      BY <2>2, <2>3, <3>2, <3>4
    <3>6. i < j => chunk[j] # e
      BY <2>2, <2>3, <3>3, <3>4
    <3>7. j = i - 1 \/ j = i => chunk[j] # e
      BY <2>2, <2>3
    <3>8. QED
      BY <3>1, <3>5, <3>6, <3>7
  <2>5. QED
    BY <1>1, <1>6, <2>1, <2>3, <2>4
<1>9. conn'[c].st \in {"open", "closed"} /\ subscriber' = c => CoveredNext(c, lastSeq')
  BY <1>1, <1>3 DEF StreamFollows, StreamGoesOn
<1>10. QED
  BY <1>2, <1>3, <1>7, <1>8, <1>9, StreamBecomes DEF StreamGoesOn

\* The chunk goes out, and the subscription is behind its last event.
LEMMA BacklogSendsStream ==
  ASSUME Typed, Linked, NEW c \in Conns, StreamFollows(c),
         Settled \subseteq Settled', Reached \subseteq Reached', BacklogSends(c)
  PROVE  StreamFollows(c)'
<1>1. PICK lines \in Seq(Line), n \in 0 .. 1, ok \in BOOLEAN :
        /\ sub[c].at = "sending" /\ ChunkLines(c, lines, n) /\ Sends(c, lines, ok)
        /\ sub' = [sub EXCEPT ![c] = IF ok THEN Looping(sub[c].chunk[Len(sub[c].chunk)]) ELSE Idle]
        /\ UNCHANGED <<boot, lastSeq, subscriber>>
  BY BacklogSendsDoes
<1>2. PICK chunk \in Seq(1 .. MaxHooks) : chunk = sub[c].chunk
  BY <1>1, SubscriptionFacts DEF Typed, QueueTyped
<1>3. chunk # <<>> /\ Len(chunk) \in Nat /\ Len(chunk) >= 1 /\ \A i \in 1 .. Len(chunk) : chunk[i] \in 1 .. MaxHooks
  <2>1. chunk # <<>>
    BY <1>1, <1>2 DEF Typed, QueueTyped
  <2>2. Len(chunk) \in Nat /\ \A i \in 1 .. Len(chunk) : chunk[i] \in 1 .. MaxHooks
    BY SeqFacts
  <2>3. Len(chunk) >= 1
    BY <2>1
  <2>4. QED
    BY <2>1, <2>2, <2>3
<1>4. /\ Len(lines) = n + Len(chunk)
      /\ \A i \in 1 .. Len(chunk) : lines[n + i].t = "hook" /\ lines[n + i].seq = chunk[i]
      /\ n = 1 => lines[1].t = "dropped"
  <2>1. /\ Len(lines) = n + Len(chunk)
        /\ \A i \in 1 .. Len(chunk) : lines[n + i] = HookLine(chunk[i])
        /\ n = 1 => lines[1] = DroppedLine
    BY <1>1, <1>2 DEF ChunkLines
  <2>2. /\ \A e : HookLine(e).t = "hook" /\ HookLine(e).seq = e
        /\ DroppedLine.t = "dropped"
    BY DEF HookLine, DroppedLine
  <2>3. QED
    BY <2>1, <2>2
<1>a. Len(chunk) \in Nat /\ n \in 0 .. 1
  BY <1>3
<1>5. CASE conn[c].st \in {"open", "closed"}
  <2>1. /\ conn[c].boot = boot /\ Covered(c, chunk[1] - 1)
        /\ \A i \in 2 .. Len(chunk) : \A e \in chunk[i - 1] + 1 .. chunk[i] - 1 : <<conn[c].boot, e>> \in Reached'
    BY <1>1, <1>2, <1>5 DEF Linked, StreamFollows, Reached
  <2>2. ASSUME NEW i \in 1 .. Len(chunk), NEW e \in 1 .. chunk[i] - 1
        PROVE  \/ e \in 1 .. chunk[1] - 1
               \/ \E j \in 1 .. i - 1 : chunk[j] = e
               \/ <<conn[c].boot, e>> \in Reached'
    <3>1. e \in Nat /\ e >= 1 /\ e < chunk[i] /\ chunk[1] \in Nat
      BY <1>3
    <3>2. \/ e <= chunk[1] - 1
          \/ \E j \in 1 .. i - 1 : chunk[j] = e
          \/ \E j \in 2 .. Len(chunk) : e \in chunk[j - 1] + 1 .. chunk[j] - 1
      BY <3>1, InChunk
    <3>3. e <= chunk[1] - 1 => e \in 1 .. chunk[1] - 1
      BY <3>1
    <3>4. QED
      BY <2>1, <3>2, <3>3
  <2>3. FollowOn(conn[c].q, lines, conn[c].boot, Reached')
    <3> SUFFICES ASSUME NEW k \in 1 .. Len(lines), lines[k].t = "hook", NEW e \in 1 .. lines[k].seq - 1
                 PROVE  \/ <<conn[c].boot, e>> \in Reached' \/ Carries(conn[c].q, Len(conn[c].q), e)
                        \/ Carries(lines, k - 1, e)
      BY DEF FollowOn
    <3>1. k - n \in 1 .. Len(chunk) /\ k = n + (k - n)
      <4>1. ~(n = 1 /\ k = 1)
        BY <1>4
      <4>2. QED
        BY <1>3, <1>4, <4>1
    <3>2. PICK i \in 1 .. Len(chunk) : k = n + i
      BY <3>1
    <3>3. lines[k].seq = chunk[i]
      BY <1>4, <3>2
    <3>4. \/ e \in 1 .. chunk[1] - 1
          \/ \E j \in 1 .. i - 1 : chunk[j] = e
          \/ <<conn[c].boot, e>> \in Reached'
      BY <2>2, <3>3
    <3>5. CASE e \in 1 .. chunk[1] - 1
      BY <2>1, <3>5 DEF Covered
    <3>6. CASE \E j \in 1 .. i - 1 : chunk[j] = e
      <4>1. PICK j \in 1 .. i - 1 : chunk[j] = e
        BY <3>6
      <4>2. j \in 1 .. Len(chunk) /\ n + j \in 1 .. k - 1
        BY <1>a, <3>2
      <4>3. QED
        BY <1>4, <4>1, <4>2 DEF Carries
    <3>7. QED
      BY <3>4, <3>5, <3>6
  <2>4. StreamGoesOn(c) /\ conn'[c].st = conn[c].st /\ conn'[c].boot = conn[c].boot
    BY <1>1, <2>3, SendsGoesOn DEF Sends
  <2>5. Len(chunk) \in 1 .. Len(chunk) /\ chunk[Len(chunk)] \in Nat
    BY <1>3
  <2>6. ASSUME ok PROVE CoveredNext(c, chunk[Len(chunk)])
    <3>1. \A j \in 1 .. Len(chunk) : Carries(conn'[c].q, Len(conn'[c].q), chunk[j])
      <4>1. \A k \in 1 .. Len(lines) : lines[k].t = "hook" => Carries(conn'[c].q, Len(conn'[c].q), lines[k].seq)
        BY <1>1, <2>6, AllSent
      <4>2. \A j \in 1 .. Len(chunk) : n + j \in 1 .. Len(lines)
        BY <1>3, <1>4
      <4>3. QED
        BY <1>4, <4>1, <4>2
    <3>2. CoveredNext(c, chunk[1] - 1)
      BY <2>1, <2>4 DEF StreamGoesOn
    <3>3. ASSUME NEW e \in 1 .. chunk[Len(chunk)]
          PROVE  <<conn'[c].boot, e>> \in Reached' \/ Carries(conn'[c].q, Len(conn'[c].q), e)
      <4>1. CASE e = chunk[Len(chunk)]
        BY <2>5, <3>1, <4>1
      <4>2. CASE e # chunk[Len(chunk)]
        <5>1. e \in 1 .. chunk[Len(chunk)] - 1
          BY <2>5, <4>2
        <5>2. \/ e \in 1 .. chunk[1] - 1
              \/ \E j \in 1 .. Len(chunk) - 1 : chunk[j] = e
              \/ <<conn[c].boot, e>> \in Reached'
          BY <2>2, <2>5, <5>1
        <5>3. CASE \E j \in 1 .. Len(chunk) - 1 : chunk[j] = e
          <6>1. \A j \in 1 .. Len(chunk) - 1 : j \in 1 .. Len(chunk)
            BY <1>3
          <6>2. QED
            BY <3>1, <5>3, <6>1
        <5>4. QED
          BY <2>4, <3>2, <5>2, <5>3 DEF CoveredNext
      <4>3. QED
        BY <4>1, <4>2
    <3>4. QED
      BY <3>3 DEF CoveredNext
  <2>7. sub'[c].at # "sending" /\ (sub'[c].at = "loop" => ok /\ sub'[c].after = chunk[Len(chunk)])
    <3>1. sub'[c] = IF ok THEN Looping(chunk[Len(chunk)]) ELSE Idle
      BY <1>1, <1>2 DEF Typed, QueueTyped
    <3>2. QED
      BY <3>1 DEF Looping, Idle
  <2>8. subscriber' = c => CoveredNext(c, lastSeq')
    BY <1>1, <1>5, <2>4 DEF StreamFollows, StreamGoesOn
  <2>9. QED
    BY <2>4, <2>6, <2>7, <2>8, StreamBecomes DEF StreamGoesOn
<1>6. CASE conn[c].st \notin {"open", "closed"}
  <2>1. StreamGoesOn(c) /\ conn'[c].st = conn[c].st
    BY <1>1, <1>6, SendsGoesOn DEF Sends
  <2>2. QED
    BY <1>6, <2>1, StreamBecomes DEF StreamGoesOn
<1>7. QED
  BY <1>5, <1>6

\* The host's steps keep StreamFollows of the link that is served.
LEMMA HostStream ==
  ASSUME Typed, Linked, AckedIsSettled, QueueKeeps, NEW c \in Conns, task.conn = c, StreamFollows(c),
         Settled \subseteq Settled', Reached \subseteq Reached', HostActs
  PROVE  StreamFollows(c)'
<1>0. c # NoConn
  BY HookAssumption
<1>1. CASE \E n \in 0 .. QueueCap : Push(n)
  BY <1>1, PushStream
<1>2. CASE \E d \in Conns : HandlesAck(d) \/ Subscribing(d)
  <2>1. PICK d \in Conns : \/ HandlesAck(d) \/ HandlesSubscribe(d) \/ BacklogEnds(d) \/ BacklogTakes(d)
                           \/ BacklogSends(d)
    BY <1>2 DEF Subscribing
  <2>2. CASE d = c
    BY <2>1, <2>2, AnswersStream, BacklogEndsStream, BacklogTakesStream, BacklogSendsStream
  <2>3. CASE d # c
    <3>1. ASSUME sub' = sub \/ (\E x : sub' = [sub EXCEPT ![d] = x]),
                 conn' = conn \/ (\E lines, ok : Sends(d, lines, ok)),
                 UNCHANGED <<boot, lastSeq>>, subscriber' \in {subscriber, d, NoConn}
          PROVE  StreamFollows(c)'
      <4>1. sub'[c] = sub[c]
        BY <2>3, <3>1 DEF Typed, QueueTyped
      <4>2. conn'[c] = conn[c]
        BY <2>3, <3>1 DEF Sends, OnlyLink
      <4>3. QED
        BY <1>0, <2>3, <3>1, <4>1, <4>2, ElsewhereStays
    <3>2. CASE HandlesAck(d)
      <4>1. PICK lines \in Seq(Line), ok \in BOOLEAN :
              Sends(d, lines, ok) /\ UNCHANGED <<boot, lastSeq, subscriber, sub>>
        BY <3>2, HandlesAckDoes
      <4>2. QED
        BY <3>1, <4>1
    <3>3. CASE HandlesSubscribe(d)
      <4>1. PICK r \in conn[d].asked, lines \in Seq(Line), ok \in BOOLEAN :
              /\ Sends(d, lines, ok) /\ UNCHANGED <<boot, lastSeq, subscriber>>
              /\ sub' = [sub EXCEPT ![d] = IF ok THEN Looping(r.after) ELSE Idle]
        BY <3>3, HandlesSubscribeDoes
      <4>2. QED
        BY <3>1, <4>1
    <3>4. CASE BacklogEnds(d)
      <4>1. PICK lines \in Seq(Line), ok \in BOOLEAN :
              /\ sub[d].at = "loop" /\ Due(sub[d].after) = {}
              /\ sub' = [sub EXCEPT ![d] = Idle] /\ unreported' = FALSE
              /\ \A i \in 1 .. Len(lines) : lines[i].t = "dropped"
              /\ Sends(d, lines, ok) /\ subscriber' = IF ok THEN d ELSE NoConn
              /\ UNCHANGED <<boot, items, lastSeq, evicted, strayed>>
        BY <3>4, BacklogEndsDoes
      <4>2. UNCHANGED <<boot, lastSeq>> /\ sub' = [sub EXCEPT ![d] = Idle]
        BY <3>4 DEF BacklogEnds
      <4>3. QED
        BY <3>1, <4>1, <4>2
    <3>5. CASE BacklogTakes(d)
      <4>1. PICK chunk \in Seq(1 .. MaxHooks) :
              /\ sub' = [sub EXCEPT ![d] = Sending(chunk, unreported)]
              /\ UNCHANGED <<boot, lastSeq, subscriber, conn>>
        BY <3>5, BacklogTakesDoes
      <4>2. QED
        BY <3>1, <4>1
    <3>6. CASE BacklogSends(d)
      <4>1. PICK lines \in Seq(Line), ok \in BOOLEAN :
              /\ Sends(d, lines, ok) /\ UNCHANGED <<boot, lastSeq, subscriber>>
              /\ sub' = [sub EXCEPT ![d] = IF ok THEN Looping(sub[d].chunk[Len(sub[d].chunk)]) ELSE Idle]
        BY <3>6, BacklogSendsDoes
      <4>2. QED
        BY <3>1, <4>1
    <3>7. QED
      BY <2>1, <3>2, <3>3, <3>4, <3>5, <3>6
  <2>4. QED
    BY <2>2, <2>3
<1>3. CASE \E d \in Conns : HostCloses(d) \/ TeardownEnds(d)
  <2>1. PICK d \in Conns : HostCloses(d) \/ TeardownEnds(d)
    BY <1>3
  <2>2. OnlyLink(d) /\ UNCHANGED <<boot, lastSeq, sub>> /\ (subscriber' = c => subscriber = c)
    BY <1>0, <2>1, HostClosesDoes, TeardownEndsDoes DEF Typed
  <2>3. CASE d # c
    BY <2>2, <2>3, ElsewhereStays DEF OnlyLink
  <2>4. CASE d = c /\ HostCloses(d)
    <3>1. conn[c].st = "open" /\ conn'[c].boot = conn[c].boot /\ conn'[c].q = conn[c].q
      BY <2>4, HostClosesDoes DEF Typed
    <3>2. StreamGoesOn(c)
      BY <3>1, SameGoesOn
    <3>3. QED
      BY <2>2, <3>1, <3>2, StreamStays
  <2>5. CASE d = c /\ TeardownEnds(d)
    <3>1. conn'[c].st = "gone" /\ conn'[c].q = <<>>
      BY <2>5, TeardownEndsDoes DEF Typed
    <3>2. Follows(conn'[c].q, conn'[c].boot, Reached')
      BY <3>1 DEF Follows
    <3>3. QED
      BY <3>1, <3>2, StreamBecomes
  <2>6. QED
    BY <2>1, <2>3, <2>4, <2>5
<1>4. CASE HostRestarts
  <2>1. conn[c].st # "unused"
    BY DEF Linked
  <2>2. conn'[c].st = "gone" /\ conn'[c].q = <<>>
    BY <1>4, <2>1, HostRestartsDoes DEF Typed
  <2>3. Follows(conn'[c].q, conn'[c].boot, Reached')
    BY <2>2 DEF Follows
  <2>4. QED
    BY <2>2, <2>3, StreamBecomes
<1>5. QED
  BY <1>1, <1>2, <1>3, <1>4 DEF HostActs

\* The link's task keeps StreamFollows.
LEMMA LinkStream ==
  ASSUME Typed, Linked, HandFollows, \A d \in Conns : task.conn = d => StreamFollows(d),
         Settled \subseteq Settled', Reached \subseteq Reached', LinkSteps, NEW c \in Conns, task'.conn = c
  PROVE  StreamFollows(c)'
<1>1. PICK d \in Conns : \/ Connects(d) \/ ServeBegins(d) \/ ServeAcked(d) \/ ServeSubscribed(d)
                         \/ Forwards(d) \/ ForwardsDropped(d)
  BY DEF LinkSteps
<1>2. CASE Connects(d)
  <2>1. /\ conn[d].st = "unused" /\ conn'[d].q = conn[d].q /\ task' = On("greeted", d, 0)
        /\ UNCHANGED <<sub, subscriber>>
    BY <1>2, ConnectsDoes DEF hostSide
  <2>2. d = c
    BY <2>1, OnFacts, HookAssumption
  <2>3. conn'[c].q = <<>> /\ sub'[c].at = "idle" /\ subscriber' # c
    BY <2>1, <2>2 DEF Linked, Unused, Idle
  <2>4. Follows(conn'[c].q, conn'[c].boot, Reached')
    BY <2>3 DEF Follows
  <2>5. QED
    BY <2>3, <2>4, StreamBecomes
<1>3. CASE ServeBegins(d) \/ ServeAcked(d) \/ ServeSubscribed(d) \/ Forwards(d) \/ ForwardsDropped(d)
  <2>1. task.conn = d /\ UNCHANGED hostSide
    BY <1>3 DEF ServeBegins, ServeAcked, ServeSubscribed, Forwards, ForwardsDropped
  <2>2. d = c /\ StreamFollows(c)
    <3>1. task'.conn = d
      <4>1. CASE ServeBegins(d)
        <5>1. conn[d].boot \in 0 .. MaxBoot
          BY LinkFacts DEF Typed, QueueTyped
        <5>2. cursor'.acked \in 0 .. MaxHooks
          BY <4>1, <5>1, ServeBeginsDoes, ResumedFacts DEF Typed
        <5>3. task' = On("acking", d, cursor'.acked) \/ task' = On("subscribing", d, 0)
          BY <4>1, ServeBeginsDoes
        <5>4. QED
          BY <5>2, <5>3, OnFacts, HookAssumption
      <4>2. CASE ServeAcked(d)
        BY <4>2, ServeAckedDoes, OnFacts DEF Typed, RelayTyped, TaskState
      <4>3. CASE ServeSubscribed(d)
        BY <4>3, ServeSubscribedDoes, OnFacts, HookAssumption
      <4>4. CASE Forwards(d) \/ ForwardsDropped(d)
        BY <2>1, <4>4 DEF Forwards, ForwardsDropped, relayVars
      <4>5. QED
        BY <1>3, <4>1, <4>2, <4>3, <4>4
    <3>2. QED
      BY <2>1, <3>1
  <2>3. StreamGoesOn(c) /\ conn'[c].st = conn[c].st
    <3>1. CASE ServeBegins(c)
      BY <2>2, <3>1, ServeBeginsDoes, ReadsGoesOn
    <3>2. CASE ServeAcked(c) \/ ServeSubscribed(c) \/ ForwardsDropped(c)
      <4>1. PICK reqs : Asks(c, reqs) /\ Reads(c) /\ conn[c].q[1].t # "hook"
        BY <3>2, ServeAckedDoes, ServeSubscribedDoes, ForwardsDroppedDoes DEF Next1
      <4>2. QED
        BY <2>2, <4>1, ReadsGoesOn
    <3>3. CASE Forwards(c)
      <4>1. task.at = "serving" /\ Asks(c, {}) /\ Reads(c)
        BY <3>3, ForwardsDoes
      <4>2. cursor.boot = conn[c].boot
        BY <2>1, <2>2, <4>1 DEF Linked
      <4>3. <<conn[c].boot, conn[c].q[1].seq>> \in Reached'
        <5>1. CASE conn[c].q[1].seq \in 1 .. cursor.forwarded
          BY <4>2, <5>1 DEF HandFollows, Upto
        <5>2. CASE \E x \in Delivery : Forwarded(c, x)
          <6>1. PICK x \in Delivery : x.boot = conn[c].boot /\ x.seq = conn[c].q[1].seq /\ HandGrows(x)
            BY <5>2 DEF Forwarded
          <6>2. <<x.boot, x.seq>> \in Held'
            BY <6>1, GrowsHeld
          <6>3. QED
            BY <6>1, <6>2 DEF Reached
        <5>3. QED
          BY <3>3, <5>1, <5>2, ForwardsHand
      <4>4. QED
        BY <2>2, <4>1, <4>3, ReadsGoesOn
    <3>4. QED
      BY <1>3, <2>2, <3>1, <3>2, <3>3
  <2>4. UNCHANGED <<boot, sub, subscriber, lastSeq>>
    BY <2>1 DEF hostSide
  <2>5. QED
    BY <2>2, <2>3, <2>4, StreamStays
<1>4. QED
  BY <1>1, <1>2, <1>3

\* The relay keeps StreamFollows.
LEMMA RelayStream ==
  ASSUME Typed, Linked, NEW c \in Conns, StreamFollows(c),
         Settled \subseteq Settled', Reached \subseteq Reached', RelaySteps
  PROVE  StreamFollows(c)'
<1>1. CASE UNCHANGED <<conn, hostSide>>
  BY <1>1, ElsewhereStays DEF hostSide
<1>2. CASE RelayTakes \/ RelayApplies \/ RelayApplied \/ AckRefused \/ AckRecorded \/ Saves
  BY <1>1, <1>2 DEF RelayTakes, RelayApplies, RelayApplied, AckRefused, AckRecorded, Saves, queueVars, hostSide
<1>3. CASE AckSent \/ AckAnswered
  <2>1. UNCHANGED hostSide /\ UNCHANGED <<boot, sub, subscriber, lastSeq>>
    BY <1>3, AckSentDoes, AckAnsweredDoes DEF hostSide
  <2>2. CASE conn' = conn
    BY <1>1, <2>1, <2>2
  <2>3. CASE conn' # conn
    <3>1. StreamGoesOn(c) /\ conn'[c].st = conn[c].st
      <4>1. CASE AckSent
        <5>1. PICK d \in Conns : \E reqs : Asks(d, reqs) /\ conn'[d].q = conn[d].q
          BY <2>3, <4>1, AckSentDoes
        <5>2. PICK reqs : Asks(d, reqs)
          BY <5>1
        <5>3. QED
          BY <5>1, <5>2, ReadsGoesOn
      <4>2. CASE AckAnswered
        <5>1. PICK d \in Conns : Asks(d, {}) /\ Reads(d) /\ conn[d].q[1].t # "hook"
          BY <2>3, <4>2, AckAnsweredDoes DEF Next1
        <5>2. QED
          BY <5>1, ReadsGoesOn
      <4>3. QED
        BY <1>3, <4>1, <4>2
    <3>2. QED
      BY <2>1, <3>1, StreamStays
  <2>4. QED
    BY <2>2, <2>3
<1>4. QED
  BY <1>2, <1>3 DEF RelaySteps

\* Every step keeps StreamFollows.
LEMMA StepStreams ==
  ASSUME Typed, Linked, AckedIsSettled, HandFollows, QueueKeeps, HookNext,
         \A d \in Conns : task.conn = d => StreamFollows(d),
         NEW c \in Conns, task'.conn = c
  PROVE  StreamFollows(c)'
<1>0. c # NoConn /\ Down.conn = NoConn
  BY HookAssumption DEF Down
<1>1. CASE AppRestarts \/ LinkEnds \/ LinkBreaks
  BY <1>0, <1>1 DEF AppRestarts, LinkEnds, LinkBreaks, LetGo
<1>2. CASE ~AppRestarts
  <2>0. Settled \subseteq Settled' /\ Reached \subseteq Reached'
    BY <1>2, SettledGrows, ReachedGrows
  <2>1. CASE HostActs /\ UNCHANGED relayVars
    <3>1. task.conn = c /\ StreamFollows(c)
      BY <2>1, HandKept
    <3>2. QED
      BY <2>0, <2>1, <3>1, HostStream
  <2>2. CASE LinkSteps
    BY <2>0, <2>2, LinkStream
  <2>3. CASE RelaySteps
    <3>1. task' = task
      BY <2>3 DEF RelaySteps, RelayTakes, RelayApplies, RelayApplied, AckRefused, AckRecorded, AckSent, AckAnswered, Saves
    <3>2. QED
      BY <2>0, <2>3, <3>1, RelayStream
  <2>4. QED
    BY <1>1, <1>2, <2>1, <2>2, <2>3 DEF HookNext, HostSteps, HostActs
<1>3. QED
  BY <1>1, <1>2

-----------------------------------------------------------------------------
\* The invariant.

HookInv == Typed /\ Linked /\ Ascending /\ NothingPassedOver

\* A stray ack is not forgotten.
LEMMA StrayedStays ==
  ASSUME Typed, HookNext, ~strayed'
  PROVE  ~strayed
<1>1. CASE \E c \in Conns : HandlesAck(c)
  BY <1>1 DEF HandlesAck
<1>2. CASE \E c \in Conns : Subscribing(c) \/ HostCloses(c) \/ TeardownEnds(c)
  BY <1>2 DEF Subscribing, HandlesSubscribe, BacklogEnds, BacklogTakes, BacklogSends, HostCloses, TeardownEnds
<1>3. CASE (\E n \in 0 .. QueueCap : Push(n)) \/ HostRestarts
  BY <1>3, PushDoes, HostRestartsDoes DEF Typed
<1>4. CASE LinkSteps
  <2>1. PICK c \in Conns : \/ Connects(c) \/ ServeBegins(c) \/ ServeAcked(c) \/ ServeSubscribed(c)
                           \/ Forwards(c) \/ ForwardsDropped(c)
    BY <1>4 DEF LinkSteps
  <2>2. UNCHANGED hostSide
    BY <2>1 DEF Connects, ServeBegins, ServeAcked, ServeSubscribed, Forwards, ForwardsDropped
  <2>3. QED
    BY <2>2 DEF hostSide
<1>5. CASE LinkEnds \/ LinkBreaks \/ AppRestarts \/ RelaySteps
  <2>1. UNCHANGED queueVars \/ UNCHANGED hostSide
    BY <1>5 DEF LinkEnds, LinkBreaks, AppRestarts, RelaySteps, RelayTakes, RelayApplies, RelayApplied, AckRefused,
                AckRecorded, AckSent, AckAnswered, Saves
  <2>2. QED
    BY <2>1 DEF queueVars, hostSide
<1>6. QED
  BY <1>1, <1>2, <1>3, <1>4, <1>5 DEF HookNext, HostSteps

\* The invariant holds at first.
LEMMA InitHolds ==
  ASSUME RelayInit
  PROVE  HookInv
<1>1. /\ boot = 1 /\ items = {} /\ lastSeq = 0 /\ unreported = FALSE /\ subscriber = NoConn
      /\ sub = [c \in Conns |-> Idle] /\ conn = [c \in Conns |-> Unused]
      /\ evicted = {} /\ strayed = FALSE /\ task = Down /\ live = NoConn
      /\ cursor = [boot |-> 0, acked |-> 0, forwarded |-> 0]
      /\ inbox = <<>> /\ relay = Waiting /\ saved = Nothing /\ runs = 1 /\ done = Nothing /\ applied = {}
  BY DEF RelayInit, QueueInit
<1>2. Unused \in Link /\ Unused.q = <<>> /\ Unused.boot = 0 /\ Unused.st = "unused" /\ Unused.asked = {}
  <2>1. <<>> \in Seq(Line) /\ 0 \in 0 .. MaxBoot
    BY ShortRuns, HookAssumption
  <2>2. QED
    BY <2>1 DEF Unused, Link
<1>3. Idle \in Subscription /\ Idle.at = "idle"
  BY SubscriptionFacts
<1>4. QueueTyped
  <2>1. Cardinality({}) = 0 /\ Len(<<>>) = 0
    BY FS_EmptySet
  <2>2. \A c \in Conns : conn[c] = Unused /\ sub[c] = Idle
    BY <1>1
  <2>3. conn \in [Conns -> Link] /\ sub \in [Conns -> Subscription]
    BY <1>1, <1>2, <1>3
  <2>4. boot \in 1 .. MaxBoot /\ lastSeq \in 0 .. MaxHooks /\ items \in SUBSET (1 .. lastSeq)
        /\ Cardinality(items) <= QueueCap /\ 0 <= OutLimit
    BY <1>1, <2>1, HookAssumption
  <2>5. QED
    BY <1>1, <1>2, <1>3, <2>1, <2>2, <2>3, <2>4 DEF QueueTyped
<1>5. RelayTyped
  <2>1. cursor \in Cursor
    BY <1>1, HookAssumption DEF Cursor
  <2>2. RelayShape /\ inbox \in Seq(Delivery) /\ runs \in Nat
    BY <1>1, BatchFacts DEF RelayShape
  <2>3. QED
    BY <1>1, <2>1, <2>2, DownFacts DEF RelayTyped
<1>6. Len(InHand) = 0 /\ Len(Acks) = 0 /\ task.conn = NoConn /\ task.at = "down"
  BY <1>1, DownFacts DEF InHand, Acks, Waiting
<1>7. cursor.boot = 0 /\ cursor.acked = 0 /\ cursor.forwarded = 0 /\ saved.boot = 0 /\ saved.seq = 0 /\ done.boot = 0 /\ done.seq = 0
  BY <1>1 DEF Nothing
<1>8. Linked
  <2>1. \A c \in Conns : conn[c] = Unused /\ sub[c] = Idle /\ c # NoConn
    BY <1>1, HookAssumption
  <2>2. QED
    BY <1>1, <1>2, <1>6, <1>7, <2>1 DEF Linked
<1>9. Ascending
  BY <1>6, <1>7 DEF Ascending, Passed
<1>10. NothingPassedOver
  <2>1. \A c \in Conns : conn[c].asked = {} /\ task.conn # c
    BY <1>1, <1>2, <1>6, HookAssumption
  <2>2. AckedIsSettled
    BY <1>6, <1>7, <2>1 DEF AckedIsSettled, Upto
  <2>3. HandFollows /\ QueueKeeps
    BY <1>1, <1>6, <1>7 DEF HandFollows, QueueKeeps, Upto
  <2>4. QED
    BY <2>1, <2>2, <2>3 DEF NothingPassedOver
<1>11. QED
  BY <1>4, <1>5, <1>8, <1>9, <1>10 DEF HookInv, Typed

\* Every step keeps the invariant.
LEMMA StepHolds ==
  ASSUME HookInv, HookNext
  PROVE  HookInv'
<1>1. Typed /\ Linked /\ Ascending /\ NothingPassedOver
  BY DEF HookInv
<1>2. Typed' /\ Linked'
  BY <1>1, StepTyped, StepLinked
<1>3. Ascending'
  BY <1>1, <1>2, StepAscends
<1>4. ASSUME ~strayed'
      PROVE  AckedIsSettled' /\ HandFollows' /\ QueueKeeps' /\ \A c \in Conns : task'.conn = c => StreamFollows(c)'
  <2>1. ~strayed
    BY <1>1, <1>4, StrayedStays
  <2>2. AckedIsSettled /\ HandFollows /\ QueueKeeps /\ \A c \in Conns : task.conn = c => StreamFollows(c)
    BY <1>1, <2>1 DEF NothingPassedOver
  <2>3. AckedIsSettled'
    BY <1>1, <2>2, StepAcked
  <2>4. HandFollows'
    BY <1>1, <2>2, StepHandFollows
  <2>5. QueueKeeps'
    BY <1>1, <1>4, <2>2, StepQueueKeeps
  <2>6. \A c \in Conns : task'.conn = c => StreamFollows(c)'
    BY <1>1, <2>2, StepStreams
  <2>7. QED
    BY <2>3, <2>4, <2>5, <2>6
<1>5. NothingPassedOver'
  BY <1>4 DEF NothingPassedOver
<1>6. QED
  BY <1>2, <1>3, <1>5 DEF HookInv

\* And a step of nothing does.
LEMMA StutterHolds ==
  ASSUME HookInv, UNCHANGED hookVars
  PROVE  HookInv'
<1>0. UNCHANGED <<boot, items, lastSeq, unreported, subscriber, sub, conn, evicted, strayed>>
      /\ UNCHANGED <<task, live, cursor, inbox, relay, saved, runs, done, applied>>
  BY DEF hookVars, queueVars, relayVars
<1>1. InHand' = InHand /\ Acks' = Acks
  BY <1>0 DEF InHand, Acks
<1>2. Settled' = Settled /\ Held' = Held
  BY <1>0, <1>1 DEF Settled, Held
<1>3. Typed'
  BY <1>0 DEF HookInv, Typed, QueueTyped, RelayTyped, RelayShape
<1>4. Linked'
  BY <1>0, <1>1 DEF HookInv, Linked
<1>5. Ascending'
  BY <1>0, <1>1 DEF HookInv, Ascending, Passed, Before
<1>6. NothingPassedOver'
  <2>1. Reached' = Reached
    BY <1>2 DEF Reached
  <2>2. \A c \in Conns : StreamFollows(c)' <=> StreamFollows(c)
    BY <1>0, <1>2, <2>1 DEF StreamFollows, Follows, Covered, Carries
  <2>3. AckedIsSettled' <=> AckedIsSettled
    BY <1>0, <1>1, <1>2 DEF AckedIsSettled, Upto
  <2>4. HandFollows' <=> HandFollows
    BY <1>0, <1>1, <1>2, <2>1 DEF HandFollows, Upto
  <2>5. QueueKeeps' <=> QueueKeeps
    BY <1>0, <1>2 DEF QueueKeeps
  <2>6. QED
    BY <1>0, <2>2, <2>3, <2>4, <2>5 DEF HookInv, NothingPassedOver
<1>7. QED
  BY <1>3, <1>4, <1>5, <1>6 DEF HookInv

\* The four parts hold through every interleaving of the host, its links, and the app, their
\* restarts and the ends of links included.
THEOREM HookKeepsInv == HookSpec => []HookInv
<1>1. HookInv /\ [HookNext]_hookVars => HookInv'
  BY StepHolds, StutterHolds
<1>2. QED
  BY <1>1, InitHolds, PTL DEF HookSpec

\* Types, and a queue within its count whatever was pushed, acked or pushed out of it
\* (HookQueue::push, Out::send).
THEOREM HookTyped == HookSpec => []HookTypeOK
<1>1. HookInv => HookTypeOK
  <2> SUFFICES ASSUME HookInv PROVE HookTypeOK
    OBVIOUS
  <2>1. QueueTyped /\ RelayTyped /\ Linked
    BY DEF HookInv, Typed
  <2>2. /\ boot \in 1 .. MaxBoot /\ items \subseteq 1 .. lastSeq /\ lastSeq \in 0 .. MaxHooks
        /\ Cardinality(items) <= QueueCap
    BY <2>1 DEF QueueTyped
  <2>3. {subscriber, live, task.conn} \subseteq Conns \cup {NoConn}
    BY <2>1 DEF QueueTyped, RelayTyped, TaskState
  <2>4. ASSUME NEW c \in Conns PROVE Len(conn[c].q) <= OutLimit /\ conn[c].boot \in 0 .. boot
    <3>1. conn[c].boot \in 0 .. MaxBoot /\ conn[c].boot <= boot /\ boot \in 1 .. MaxBoot
      BY <2>1, LinkFacts DEF QueueTyped, Linked
    <3>2. QED
      BY <2>1, <3>1, HookAssumption DEF QueueTyped
  <2>5. cursor.boot \in 0 .. MaxBoot /\ cursor.acked \in 0 .. MaxHooks /\ cursor.forwarded \in 0 .. MaxHooks
    BY <2>1 DEF RelayTyped, Cursor
  <2>6. \A i \in 1 .. Len(inbox) : inbox[i] \in Delivery
    BY <2>1, SeqFacts DEF RelayTyped
  <2>7. saved = Nothing \/ saved \in Delivery
    BY <2>1 DEF RelayTyped
  <2>8. applied \cup evicted \subseteq (1 .. MaxBoot) \X (1 .. MaxHooks)
    BY <2>1 DEF QueueTyped, RelayTyped
  <2>9. QED
    BY <2>2, <2>3, <2>4, <2>5, <2>6, <2>7, <2>8 DEF HookTypeOK
<1>2. QED
  BY <1>1, HookKeepsInv, PTL

\* At least once: what leaves the host's queue was applied by the app or pushed out by newer
\* events, whatever link, host or app died in between, unless an ack strayed to another boot.
THEOREM AckedOnlyApplied == HookSpec => []AckedWasApplied
<1>1. HookInv => AckedWasApplied
  BY DEF HookInv, NothingPassedOver, QueueKeeps, AckedWasApplied, Settled
<1>2. QED
  BY <1>1, HookKeepsInv, PTL

\* In order, and within a run of the app once: serve's cursor keeps what the host sends again
\* from the relay, across links and boots.
THEOREM OnceInOrder == HookSpec => []InOrderOnce
<1>1. HookInv => InOrderOnce
  <2> SUFFICES ASSUME HookInv PROVE InOrderOnce
    OBVIOUS
  <2>1. Typed /\ Ascending
    BY DEF HookInv
  <2>2. PICK hand \in Seq(Delivery) : hand = InHand
    BY <2>1, HandTyped
  <2>3. PICK d \in Delivery \cup {Nothing} : d = done
    BY <2>1 DEF Typed, RelayTyped
  <2>4. /\ Len(<<d>> \o hand) = Len(hand) + 1 /\ Len(hand) \in Nat
        /\ (<<d>> \o hand)[1] = d /\ \A i \in 1 .. Len(hand) : (<<d>> \o hand)[i + 1] = hand[i]
    <3>0. PICK T : T = Delivery \cup {Nothing}
      OBVIOUS
    <3>1. PICK s \in Seq(T) : s = <<d>>
      <4>1. d \in T
        BY <3>0
      <4>2. HIDE <3>0
      <4>3. <<d>> \in Seq(T)
        BY <4>1
      <4>4. QED
        BY <4>3
    <3>2. hand \in Seq(T)
      <4>1. Delivery \subseteq T
        BY <3>0
      <4>2. HIDE <3>0
      <4>3. QED
        BY <4>1, SeqFacts
    <3>3. Len(s) = 1 /\ s[1] = d /\ Len(hand) \in Nat
      BY <3>1
    <3>4. Len(s \o hand) = Len(s) + Len(hand)
      BY <3>2
    <3>5. /\ \A i \in 1 .. Len(s) : (s \o hand)[i] = s[i]
          /\ \A i \in 1 .. Len(hand) : (s \o hand)[Len(s) + i] = hand[i]
      BY <3>2, ConcatFacts
    <3>6. \A i \in 1 .. Len(hand) : 1 + i = i + 1
      BY <3>3
    <3>7. QED
      BY <3>1, <3>3, <3>4, <3>5, <3>6
  <2>5. ASSUME NEW i \in 1 .. Len(<<d>> \o hand) - 1
        PROVE  Before((<<d>> \o hand)[i], (<<d>> \o hand)[i + 1])
    <3>1. i \in 1 .. Len(hand) /\ (<<d>> \o hand)[i + 1] = hand[i]
      BY <2>4
    <3>2. CASE i = 1
      BY <2>1, <2>2, <2>3, <2>4, <3>1, <3>2 DEF Ascending
    <3>3. CASE i # 1
      <4>1. i - 1 \in 1 .. Len(hand) /\ i - 1 < i /\ (i - 1) + 1 = i
        BY <2>4, <3>1, <3>3
      <4>2. (<<d>> \o hand)[i] = hand[i - 1]
        BY <2>4, <4>1
      <4>3. QED
        BY <2>1, <2>2, <3>1, <4>1, <4>2 DEF Ascending
    <3>4. QED
      BY <3>2, <3>3
  <2>6. QED
    BY <2>2, <2>3, <2>5 DEF InOrderOnce, Before
<1>2. QED
  BY <1>1, HookKeepsInv, PTL

\* No gap: serve passes over no event of the boot it follows that the queue did not have to
\* give up, though links end between any two lines and each starts again from what was acked.
THEOREM NoGapForwarded == HookSpec => []ForwardedHasNoGap
<1>1. HookInv => ForwardedHasNoGap
  <2> SUFFICES ASSUME HookInv, ~strayed, NEW e \in 1 .. cursor.forwarded
               PROVE  \/ <<cursor.boot, e>> \in applied \cup evicted
                      \/ \E i \in 1 .. Len(InHand) : InHand[i] = [boot |-> cursor.boot, seq |-> e]
    BY DEF ForwardedHasNoGap
  <2>1. <<cursor.boot, e>> \in Settled \/ <<cursor.boot, e>> \in Held
    BY DEF HookInv, NothingPassedOver, HandFollows, Upto, Reached
  <2>2. CASE <<cursor.boot, e>> \in Settled
    BY <2>2 DEF Settled
  <2>3. CASE <<cursor.boot, e>> \in Held
    <3>1. PICK i \in 1 .. Len(InHand) : <<cursor.boot, e>> = <<InHand[i].boot, InHand[i].seq>>
      BY <2>3 DEF Held
    <3>2. PICK hand \in Seq(Delivery) : hand = InHand
      BY HandTyped DEF HookInv
    <3>3. InHand[i] \in Delivery
      BY <3>2, SeqFacts
    <3>4. InHand[i] = [boot |-> InHand[i].boot, seq |-> InHand[i].seq]
      BY <3>3, DeliveryFacts
    <3>5. InHand[i].boot = cursor.boot /\ InHand[i].seq = e
      BY <3>1
    <3>6. QED
      BY <3>4, <3>5
  <2>4. QED
    BY <2>1, <2>2, <2>3
<1>2. QED
  BY <1>1, HookKeepsInv, PTL
=============================================================================
