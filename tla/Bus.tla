--------------------------------- MODULE Bus ---------------------------------
(***************************************************************************)
(* Nexus-IPC: the live bus (bus/mod.rs).  Publishers broadcast deltas;     *)
(* every subscription owns a bounded tokio mpsc channel, here a queue, that *)
(* its gRPC stream drains.  broadcast() takes the locks of the channel     *)
(* table, the recent list and the subscription table one after the other,  *)
(* keeps clones of the senders it found, and sends on them without a lock: *)
(* meanwhile subscribers come, go and replace their subscriptions.         *)
(* Left out: the gauges channels_total and subscriptions_total.            *)
(***************************************************************************)
EXTENDS Integers, Sequences, SequencesExt, FiniteSets

CONSTANTS
    Pub,          \* publish requests served concurrently
    Sub,          \* subscriber ids
    Queue,        \* mpsc channels, numbered as they are made
    Channel,      \* channel names, as sequences of name parts
    Filter,       \* filters subscribers ask for
    Asked,        \* queue capacities they ask for (0: the default)
    DefaultQueue, \* DEFAULT_SUBSCRIPTION_QUEUE (1024 in the code)
    MaxQueue,     \* largest capacity granted (8192 in the code)
    RecentCap,    \* length of the recent list (256 in the code)
    MaxPub,       \* bound on the deltas of one publisher
    Cancels,      \* whether clients may drop a request that is waiting
    None

ASSUME QueueAssumption == Queue = 1..Cardinality(Queue)
ASSUME CapacityAssumption ==
    /\ Asked \subseteq Nat
    /\ {DefaultQueue, MaxQueue, RecentCap} \subseteq Nat \ {0}
    /\ MaxPub \in Nat /\ Cancels \in BOOLEAN

Delta == [pub : Pub, n : 1..MaxPub, chan : Channel, durable : BOOLEAN]

Target == [sub : Sub, queue : Queue]

Subscription == [queue : Queue, filter : Filter, dropped : Nat]

ChannelState == [latest : Delta \cup {None}, durable : Nat, ephemeral : Nat, publishers : SUBSET Pub]

Counter == {"deltas", "durable", "ephemeral", "dropped"}

ASSUME PubAssumption == IsFiniteSet(Pub)
ASSUME NoneAssumption ==
    None \notin Delta /\ None \notin Target /\ None \notin Subscription /\ None \notin Queue

VARIABLES
    subs,      \* table subscriptions: subscriber id -> queue, filter, dropped_count
    queue,     \* the messages in each mpsc channel
    cap,       \* its capacity; 0 before it is made
    open,      \* its receiver has not been dropped
    waiters,   \* the senders waiting for a place in it, first come first served
    chans,     \* table channels: latest delta, counts, publishers
    recent,    \* recent_deltas
    metrics,   \* deltas_total, durable_, ephemeral_ and dropped_ephemeral_total
    pc, cur,   \* where each broadcast is; its delta
    todo, at,  \* targets it has not sent to yet; the one it is busy with
    got,       \* history: what each receiver has taken
    aim,       \* history: the targets the last broadcast found
    newest     \* history: the queue each subscriber made last

tables == <<chans, recent, metrics>>
mpsc   == <<queue, cap, open, waiters, got>>
local  == <<pc, cur, todo, at, aim>>
vars   == <<subs, newest, tables, mpsc, local>>

-----------------------------------------------------------------------------
\* channel_pattern_matches: a pattern ending in a star matches by prefix.
ChannelPatternMatches(pattern, channel) ==
    IF pattern.star THEN IsPrefix(pattern.text, channel) ELSE pattern.text = channel

\* filter_matches; the tags of a filter are not looked at.
FilterMatches(filter, channel, durable) ==
    /\ filter.durableOnly => durable
    /\ \E pattern \in filter.patterns : ChannelPatternMatches(pattern, channel)

\* Mutant: the size that is asked for is not clamped.
GrantedUnclamped(asked) == IF asked = 0 THEN DefaultQueue ELSE asked

\* NexusService::subscribe and Bus::subscribe: 0 asks for the default, and
\* the result is clamped.
Granted(asked) ==
    LET n == IF asked = 0 THEN DefaultQueue ELSE asked
    IN  IF n > MaxQueue THEN MaxQueue ELSE n

\* A sender gets a place at once only if nobody waits for one.
HasRoom(q) == Len(queue[q]) + Len(waiters[q]) < cap[q]

\* Free places go to those who wait in the order in which they came.
HasPlace(q, i) == Len(queue[q]) + i <= cap[q]

\* The places in the line for q at which p waits.
PlacesOf(p, q) == {i \in 1..Len(waiters[q]) : waiters[q][i] = p}

\* Whoever waits for q at place i leaves the line.
LeaveLine(q, i) == waiters' = [waiters EXCEPT ![q] = RemoveAt(@, i)]

Enqueue(q, m) == queue' = [queue EXCEPT ![q] = Append(@, m)]

\* The given counters go up by one.
Count(counters) ==
    metrics' = [c \in Counter |-> IF c \in counters THEN metrics[c] + 1 ELSE metrics[c]]

Goto(p, label) == pc' = [pc EXCEPT ![p] = label]

\* On to the next target.
NextTarget(p) == Goto(p, "send") /\ at' = [at EXCEPT ![p] = None]

\* p is busy with target t, at the given place.
BusyWith(p, t, label) == Goto(p, label) /\ at' = [at EXCEPT ![p] = t]

-----------------------------------------------------------------------------
Init ==
    /\ subs = [s \in Sub |-> None]
    /\ queue = [q \in Queue |-> <<>>]
    /\ cap = [q \in Queue |-> 0]
    /\ open = [q \in Queue |-> FALSE]
    /\ waiters = [q \in Queue |-> <<>>]
    /\ chans = [c \in Channel |-> [latest |-> None, durable |-> 0, ephemeral |-> 0,
                                   publishers |-> {}]]
    /\ recent = <<>>
    /\ metrics = [c \in Counter |-> 0]
    /\ pc = [p \in Pub |-> "idle"]
    /\ cur = [p \in Pub |-> None]
    /\ todo = [p \in Pub |-> {}]
    /\ at = [p \in Pub |-> None]
    /\ got = [q \in Queue |-> <<>>]
    /\ aim = [p \in Pub |-> {}]
    /\ newest = [s \in Sub |-> None]

\* Bus::subscribe: a new channel, whose sender replaces the one the
\* subscriber id had.
Subscribe(s) ==
    \E filter \in Filter, asked \in Asked, q \in Queue :
        /\ cap[q] = 0 /\ \A r \in Queue : r < q => cap[r] # 0
        /\ cap' = [cap EXCEPT ![q] = Granted(asked)]
        /\ open' = [open EXCEPT ![q] = TRUE]
        /\ subs' = [subs EXCEPT ![s] = [queue |-> q, filter |-> filter, dropped |-> 0]]
        /\ newest' = [newest EXCEPT ![s] = q]
        /\ UNCHANGED <<tables, queue, waiters, got, local>>

\* The subscriber's stream takes the next message.
Receive(q) ==
    /\ open[q] /\ queue[q] # <<>>
    /\ got' = [got EXCEPT ![q] = Append(@, Head(queue[q]))]
    /\ queue' = [queue EXCEPT ![q] = Tail(@)]
    /\ UNCHANGED <<subs, newest, tables, cap, open, waiters, local>>

\* The subscriber goes away: the stream, and with it the receiver, is dropped.
Close(q) ==
    /\ open[q]
    /\ open' = [open EXCEPT ![q] = FALSE]
    /\ UNCHANGED <<subs, newest, tables, queue, cap, waiters, got, local>>

\* Mutant: the first delta of a channel stays its latest.
UpdateChannelOnce(p) ==
    \E chan \in Channel, durable \in BOOLEAN :
        LET n == IF cur[p] = None THEN 1 ELSE cur[p].n + 1
            delta == [pub |-> p, n |-> n, chan |-> chan, durable |-> durable]
            state == chans[chan]
        IN  /\ pc[p] = "idle" /\ n <= MaxPub
            /\ cur' = [cur EXCEPT ![p] = delta]
            /\ chans' = [chans EXCEPT ![chan] =
                   [latest     |-> IF state.latest = None THEN delta ELSE state.latest,
                    durable    |-> state.durable + (IF durable THEN 1 ELSE 0),
                    ephemeral  |-> state.ephemeral + (IF durable THEN 0 ELSE 1),
                    publishers |-> state.publishers \cup {p}]]
            /\ aim' = [aim EXCEPT ![p] = {}]
            /\ Goto(p, "recent")
            /\ UNCHANGED <<subs, newest, recent, metrics, mpsc, todo, at>>

\* broadcast() begins: update_channel.
UpdateChannel(p) ==
    \E chan \in Channel, durable \in BOOLEAN :
        LET n == IF cur[p] = None THEN 1 ELSE cur[p].n + 1
            delta == [pub |-> p, n |-> n, chan |-> chan, durable |-> durable]
            state == chans[chan]
        IN  /\ pc[p] = "idle" /\ n <= MaxPub
            /\ cur' = [cur EXCEPT ![p] = delta]
            /\ chans' = [chans EXCEPT ![chan] =
                   [latest     |-> delta,
                    durable    |-> state.durable + (IF durable THEN 1 ELSE 0),
                    ephemeral  |-> state.ephemeral + (IF durable THEN 0 ELSE 1),
                    publishers |-> state.publishers \cup {p}]]
            /\ aim' = [aim EXCEPT ![p] = {}]
            /\ Goto(p, "recent")
            /\ UNCHANGED <<subs, newest, recent, metrics, mpsc, todo, at>>

\* push_recent: the list is full, so the oldest entry goes.
PushRecent(p) ==
    /\ pc[p] = "recent"
    /\ recent' = Append(IF Len(recent) = RecentCap THEN Tail(recent) ELSE recent, cur[p])
    /\ Goto(p, "targets")
    /\ UNCHANGED <<subs, newest, chans, metrics, mpsc, cur, todo, at, aim>>

\* The matching subscriptions, with clones of their senders.
FindTargets(p) ==
    LET matching == {s \in Sub : subs[s] # None
                        /\ FilterMatches(subs[s].filter, cur[p].chan, cur[p].durable)}
    IN  /\ pc[p] = "targets"
        /\ todo' = [todo EXCEPT ![p] = {[sub |-> s, queue |-> subs[s].queue] : s \in matching}]
        /\ aim' = [aim EXCEPT ![p] = todo'[p]]
        /\ Goto(p, "send")
        /\ UNCHANGED <<subs, newest, tables, mpsc, cur, at>>

\* Mutant: a target it waited for is tried again.
TrySendAgain(p) ==
    \E t \in todo[p] :
        /\ pc[p] = "send" /\ open[t.queue]
        /\ \/ /\ HasRoom(t.queue)
              /\ todo' = [todo EXCEPT ![p] = @ \ {t}]
              /\ Enqueue(t.queue, cur[p])
              /\ UNCHANGED <<pc, at, waiters>>
           \/ /\ ~HasRoom(t.queue)
              /\ waiters' = [waiters EXCEPT ![t.queue] = Append(@, p)]
              /\ BusyWith(p, t, "wait")
              /\ UNCHANGED <<queue, todo>>
        /\ UNCHANGED <<subs, newest, tables, cap, open, got, cur, aim>>

\* Mutant: durable notices are dropped under pressure like ephemeral ones.
TrySendDropping(p) ==
    \E t \in todo[p] :
        /\ pc[p] = "send"
        /\ todo' = [todo EXCEPT ![p] = @ \ {t}]
        /\ IF HasRoom(t.queue)
           THEN Enqueue(t.queue, cur[p]) /\ UNCHANGED <<pc, at>>
           ELSE BusyWith(p, t, "drop") /\ UNCHANGED queue
        /\ UNCHANGED <<subs, newest, tables, waiters, cap, open, got, cur, aim>>

\* try_send to the next target (a hash map gives them in any order).
TrySend(p) ==
    \E t \in todo[p] :
        /\ pc[p] = "send"
        /\ todo' = [todo EXCEPT ![p] = @ \ {t}]
        /\ \/ /\ open[t.queue] /\ HasRoom(t.queue)
              /\ Enqueue(t.queue, cur[p])
              /\ UNCHANGED <<pc, at, waiters>>
           \/ /\ open[t.queue] /\ ~HasRoom(t.queue) /\ cur[p].durable
              /\ waiters' = [waiters EXCEPT ![t.queue] = Append(@, p)]
              /\ BusyWith(p, t, "wait")
              /\ UNCHANGED queue
           \/ /\ open[t.queue] /\ ~HasRoom(t.queue) /\ ~cur[p].durable
              /\ BusyWith(p, t, "drop")
              /\ UNCHANGED <<queue, waiters>>
           \/ /\ ~open[t.queue]
              /\ BusyWith(p, t, "remove")
              /\ UNCHANGED <<queue, waiters>>
        /\ UNCHANGED <<subs, newest, tables, cap, open, got, cur, aim>>

\* Mutant: a waiting sender is not woken when the receiver goes away.
AwaitForever(p) ==
    LET q == at[p].queue
    IN  /\ pc[p] = "wait"
        /\ \E i \in PlacesOf(p, q) :
             /\ open[q] /\ HasPlace(q, i)
             /\ Enqueue(q, cur[p])
             /\ LeaveLine(q, i)
        /\ NextTarget(p)
        /\ UNCHANGED <<subs, newest, tables, cap, open, got, cur, todo, aim>>

\* sender.send(message).await gets its place, or the receiver is gone.
Await(p) ==
    LET q == at[p].queue
    IN  /\ pc[p] = "wait"
        /\ \E i \in PlacesOf(p, q) :
             /\ \/ /\ open[q] /\ HasPlace(q, i)
                   /\ Enqueue(q, cur[p])
                \/ /\ ~open[q]
                   /\ UNCHANGED queue
             /\ LeaveLine(q, i)
        /\ NextTarget(p)
        /\ UNCHANGED <<subs, newest, tables, cap, open, got, cur, todo, aim>>

\* record_drop: charged to whatever subscription the id has now.
RecordDrop(p) ==
    LET s == at[p].sub
    IN  /\ pc[p] = "drop"
        /\ subs' = [subs EXCEPT ![s] = IF @ = None THEN None
                                       ELSE [queue |-> @.queue, filter |-> @.filter,
                                             dropped |-> @.dropped + 1]]
        /\ Count({"dropped"})
        /\ NextTarget(p)
        /\ UNCHANGED <<newest, chans, recent, mpsc, cur, todo, aim>>

\* The receiver was gone: remove the subscription, by its id.
Unregister(p) ==
    /\ pc[p] = "remove"
    /\ subs' = [subs EXCEPT ![at[p].sub] = None]
    /\ NextTarget(p)
    /\ UNCHANGED <<newest, tables, mpsc, cur, todo, aim>>

\* Mutant: only durable deltas are counted.
FinishDurable(p) ==
    /\ pc[p] = "send" /\ todo[p] = {}
    /\ IF cur[p].durable THEN Count({"deltas", "durable"}) ELSE UNCHANGED metrics
    /\ Goto(p, "idle")
    /\ UNCHANGED <<subs, newest, chans, recent, mpsc, cur, todo, at, aim>>

\* broadcast() ends.
Finish(p) ==
    /\ pc[p] = "send" /\ todo[p] = {}
    /\ Count({"deltas", IF cur[p].durable THEN "durable" ELSE "ephemeral"})
    /\ Goto(p, "idle")
    /\ UNCHANGED <<subs, newest, chans, recent, mpsc, cur, todo, at, aim>>

\* The publishing client disconnects or times out while its request waits:
\* the server drops the request, and with it the rest of the broadcast.
Cancel(p) ==
    LET q == at[p].queue
    IN  /\ Cancels
        /\ pc[p] = "wait"
        /\ \E i \in PlacesOf(p, q) : LeaveLine(q, i)
        /\ todo' = [todo EXCEPT ![p] = {}]
        /\ BusyWith(p, None, "idle")
        /\ UNCHANGED <<subs, newest, tables, queue, cap, open, got, cur, aim>>

Broadcasting(p) ==
    PushRecent(p) \/ FindTargets(p) \/ TrySend(p) \/ Await(p) \/ RecordDrop(p)
    \/ Unregister(p) \/ Finish(p)

Next ==
    \/ \E s \in Sub : Subscribe(s)
    \/ \E q \in Queue : Receive(q) \/ Close(q)
    \/ \E p \in Pub : UpdateChannel(p) \/ Broadcasting(p) \/ Cancel(p)

Spec == Init /\ [][Next]_vars

\* A started broadcast is polled until it is done, and every subscriber that
\* stays goes on reading.  Nobody has to publish, subscribe, leave or cancel.
FairSpec ==
    /\ Spec
    /\ \A p \in Pub : WF_vars(Broadcasting(p))
    /\ \A q \in Queue : WF_vars(Receive(q))

-----------------------------------------------------------------------------
(* Properties                                                              *)

\* Everything that went through queue q so far.
Sent(q) == got[q] \o queue[q]

Label == {"idle", "recent", "targets", "send", "wait", "drop", "remove"}

\* The values every variable ranges over; no queue holds more than its
\* capacity, no list of recent deltas more than RecentCap.
TypeOK ==
    /\ subs \in [Sub -> Subscription \cup {None}]
    /\ newest \in [Sub -> Queue \cup {None}]
    /\ queue \in [Queue -> Seq(Delta)] /\ got \in [Queue -> Seq(Delta)]
    /\ cap \in [Queue -> 0..MaxQueue]
    /\ \A q \in Queue : Len(queue[q]) <= cap[q]
    /\ waiters \in [Queue -> Seq(Pub)]
    /\ open \in [Queue -> BOOLEAN]
    /\ chans \in [Channel -> ChannelState]
    /\ recent \in Seq(Delta) /\ Len(recent) <= RecentCap
    /\ metrics \in [Counter -> Nat]
    /\ pc \in [Pub -> Label]
    /\ cur \in [Pub -> Delta \cup {None}]
    /\ todo \in [Pub -> SUBSET Target] /\ aim \in [Pub -> SUBSET Target]
    /\ at \in [Pub -> Target \cup {None}]

\* A subscriber gets the deltas of one publisher in the order in which they
\* were published and none of them twice, although broadcasts wait, are
\* cancelled and overlap with other publishers'.
PublisherOrder ==
    \A q \in Queue : \A i, j \in 1..Len(Sent(q)) :
        (i < j /\ Sent(q)[i].pub = Sent(q)[j].pub) => Sent(q)[i].n < Sent(q)[j].n

\* The places of the deltas of channel c that are listed after its latest.
ListedAfterLatest(c) ==
    {i \in 1..Len(recent) : /\ recent[i].chan = c
                            /\ \A j \in i..Len(recent) : recent[j] # chans[c].latest}

\* The table of channels and the recent list are updated under two locks, so
\* overlapping broadcasts may pass each other.  They drift no further than
\* there are broadcasts: with none under way, what a snapshot shows of a
\* channel is one of the last Cardinality(Pub) deltas listed for it.
LatestNearEnd ==
    (\A p \in Pub : pc[p] = "idle") =>
        \A c \in Channel :
            chans[c].latest # None => Cardinality(ListedAfterLatest(c)) < Cardinality(Pub)

\* "durable commit notices are sent through": when the broadcast of a
\* durable delta is over, every subscription it found has the notice, unless
\* its subscriber left.
DurableSentThrough ==
    \A p \in Pub : (pc[p] = "idle" /\ cur[p] # None /\ cur[p].durable) =>
        \A t \in aim[p] : open[t.queue] => \E i \in 1..Len(Sent(t.queue)) : Sent(t.queue)[i] = cur[p]

\* What the channels count of durable or of ephemeral deltas: a pair for each.
Counted(kind) == UNION {{c} \X (1..chans[c][kind]) : c \in Channel}

\* With no broadcast under way, and none cancelled, the metrics count what
\* the channels count.
CountsAgree ==
    (\A p \in Pub : pc[p] = "idle") =>
        /\ \A kind \in {"durable", "ephemeral"} : metrics[kind] = Cardinality(Counted(kind))
        /\ metrics["deltas"] = metrics["durable"] + metrics["ephemeral"]

\* Every broadcast ends, so every durable publish is answered, as long as
\* the subscribers that stay keep reading.
BroadcastEnds ==
    \A p \in Pub : (pc[p] # "idle") ~> (pc[p] = "idle")

\* "broadcasts matching updates to subscribers": a subscriber that has not
\* left stays registered with the queue it made last.
OpenStaysRegistered ==
    \A s \in Sub : (newest[s] # None /\ open[newest[s]]) =>
        subs[s] # None /\ subs[s].queue = newest[s]
=============================================================================
