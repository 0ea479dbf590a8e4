------------------------------ MODULE BusProofs ------------------------------
(***************************************************************************)
(* Proofs about Bus for every number of publishers, subscribers, queues,   *)
(* channels and deltas.                                                    *)
(***************************************************************************)
EXTENDS Bus, SequenceTheorems, FiniteSetTheorems, TLAPS

-----------------------------------------------------------------------------
(* Sequences                                                               *)

\* Leaving a line leaves a line.
LEMMA RemoveAtType ==
    ASSUME NEW S, NEW s \in Seq(S), NEW i \in 1..Len(s)
    PROVE  RemoveAt(s, i) \in Seq(S)
<1>1. SubSeq(s, 1, i - 1) \in Seq(S) /\ SubSeq(s, i + 1, Len(s)) \in Seq(S)
  BY SubSeqProperties, ElementOfSeq, LenProperties
<1> QED
  BY <1>1, ConcatProperties DEF RemoveAt

\* Where the head of t is moved to the end of s, their concatenation stays.
LEMMA MoveHead ==
    ASSUME NEW S, NEW s \in Seq(S), NEW t \in Seq(S), t # <<>>
    PROVE  Append(s, Head(t)) \o Tail(t) = s \o t
<1>1. Head(t) \in S /\ Tail(t) \in Seq(S) /\ <<Head(t)>> \in Seq(S)
  BY HeadTailProperties
<1>2. t = <<Head(t)>> \o Tail(t)
  BY <1>1, HeadTailProperties, ConcatProperties, LenProperties, SeqEqual
<1>3. Append(s, Head(t)) = s \o <<Head(t)>>
  BY <1>1, AppendIsConcat
<1>4. (s \o <<Head(t)>>) \o Tail(t) = s \o (<<Head(t)>> \o Tail(t))
  BY <1>1, ConcatAssociative
<1> QED
  BY <1>2, <1>3, <1>4

\* What is appended to t is appended to s \o t.
LEMMA ConcatAppend ==
    ASSUME NEW S, NEW s \in Seq(S), NEW t \in Seq(S), NEW m \in S
    PROVE  s \o Append(t, m) = Append(s \o t, m)
<1>1. Append(t, m) = t \o <<m>> /\ <<m>> \in Seq(S)
  BY AppendIsConcat
<1>2. Append(s \o t, m) = (s \o t) \o <<m>>
  BY AppendIsConcat, ConcatProperties
<1> QED
  BY <1>1, <1>2, ConcatAssociative

\* A subscriber is granted a queue that holds something, and not too much.
LEMMA GrantedRange == \A asked \in Asked : Granted(asked) \in 1..MaxQueue
BY CapacityAssumption DEF Granted

-----------------------------------------------------------------------------
(* Types                                                                   *)

\* A broadcast under way has its delta, and the target it is busy with.
BusyInv ==
    \A p \in Pub : /\ pc[p] # "idle" => cur[p] \in Delta
                   /\ pc[p] \in {"wait", "drop", "remove"} => at[p] \in Target

\* The initial state is well typed.
LEMMA TypeInit == Init => TypeOK
<1> SUFFICES ASSUME Init PROVE TypeOK
  OBVIOUS
<1>1. <<>> \in Seq(Delta) /\ <<>> \in Seq(Pub) /\ Len(<<>>) = 0
  OBVIOUS
<1>2. 0 \in 0..MaxQueue /\ RecentCap \in Nat
  BY CapacityAssumption
<1>3. [latest |-> None, durable |-> 0, ephemeral |-> 0, publishers |-> {}] \in ChannelState
  BY DEF ChannelState
<1> QED
  BY <1>1, <1>2, <1>3 DEF Init, TypeOK, Label

\* The delta a publisher starts with: its next, and now its channel's latest.
LEMMA UpdateEffect ==
    ASSUME TypeOK, NEW p \in Pub, UpdateChannel(p)
    PROVE  \E delta \in Delta, state \in ChannelState :
               /\ delta.pub = p /\ state.latest = delta
               /\ cur[p] # None => cur[p].n < delta.n
               /\ cur' = [cur EXCEPT ![p] = delta]
               /\ chans' = [chans EXCEPT ![delta.chan] = state]
<1> DEFINE n == IF cur[p] = None THEN 1 ELSE cur[p].n + 1
<1>1. PICK chan \in Channel, durable \in BOOLEAN :
        LET delta == [pub |-> p, n |-> n, chan |-> chan, durable |-> durable]
            state == chans[chan]
        IN  /\ n <= MaxPub
            /\ cur' = [cur EXCEPT ![p] = delta]
            /\ chans' = [chans EXCEPT ![chan] =
                   [latest     |-> delta,
                    durable    |-> state.durable + (IF durable THEN 1 ELSE 0),
                    ephemeral  |-> state.ephemeral + (IF durable THEN 0 ELSE 1),
                    publishers |-> state.publishers \cup {p}]]
  BY DEF UpdateChannel
<1>2. n \in 1..MaxPub /\ (cur[p] # None => cur[p].n < n)
  BY <1>1, CapacityAssumption DEF TypeOK, Delta
<1> HIDE DEF n
<1> DEFINE delta == [pub |-> p, n |-> n, chan |-> chan, durable |-> durable]
           state == [latest     |-> delta,
                     durable    |-> chans[chan].durable + (IF durable THEN 1 ELSE 0),
                     ephemeral  |-> chans[chan].ephemeral + (IF durable THEN 0 ELSE 1),
                     publishers |-> chans[chan].publishers \cup {p}]
<1>3. delta \in Delta /\ delta.pub = p /\ delta.n = n /\ delta.chan = chan
  BY <1>2 DEF Delta
<1>4. state \in ChannelState /\ state.latest = delta
  BY <1>3 DEF ChannelState, TypeOK
<1>5. cur' = [cur EXCEPT ![p] = delta] /\ chans' = [chans EXCEPT ![chan] = state]
  BY <1>1
<1> HIDE DEF delta, state
<1> QED
  BY <1>2, <1>3, <1>4, <1>5

\* Every step keeps the types.
LEMMA TypeStep == TypeOK /\ BusyInv /\ [Next]_vars => TypeOK'
<1> SUFFICES ASSUME TypeOK, BusyInv, [Next]_vars PROVE TypeOK'
  OBVIOUS
<1> USE DEF tables, mpsc, local, Goto, NextTarget, BusyWith, Label
<1>1. ASSUME NEW s \in Sub, Subscribe(s) PROVE TypeOK'
  <2>1. PICK filter \in Filter, asked \in Asked, q \in Queue :
          /\ cap[q] = 0
          /\ cap' = [cap EXCEPT ![q] = Granted(asked)]
          /\ open' = [open EXCEPT ![q] = TRUE]
          /\ subs' = [subs EXCEPT ![s] = [queue |-> q, filter |-> filter, dropped |-> 0]]
          /\ newest' = [newest EXCEPT ![s] = q]
          /\ UNCHANGED <<tables, queue, waiters, got, local>>
    BY <1>1 DEF Subscribe
  <2>2. [queue |-> q, filter |-> filter, dropped |-> 0] \in Subscription
    BY DEF Subscription
  <2>3. Granted(asked) \in 0..MaxQueue /\ Granted(asked) >= 0
    BY GrantedRange, CapacityAssumption
  <2>4. subs' \in [Sub -> Subscription \cup {None}] /\ newest' \in [Sub -> Queue \cup {None}]
    BY <2>1, <2>2 DEF TypeOK
  <2>5. cap' \in [Queue -> 0..MaxQueue] /\ \A r \in Queue : Len(queue'[r]) <= cap'[r]
    BY <2>1, <2>3 DEF TypeOK
  <2>6. open' \in [Queue -> BOOLEAN]
    BY <2>1, Zenon DEF TypeOK
  <2> QED
    BY <2>1, <2>4, <2>5, <2>6 DEF TypeOK
<1>2. ASSUME NEW q \in Queue, Receive(q) PROVE TypeOK'
  <2>1. /\ queue[q] # <<>>
        /\ got' = [got EXCEPT ![q] = Append(@, Head(queue[q]))]
        /\ queue' = [queue EXCEPT ![q] = Tail(@)]
        /\ UNCHANGED <<subs, newest, tables, cap, open, waiters, local>>
    BY <1>2 DEF Receive
  <2>2. queue[q] \in Seq(Delta) /\ got[q] \in Seq(Delta) /\ Len(queue[q]) <= cap[q] /\ cap[q] \in Nat
    BY DEF TypeOK
  <2>3. /\ Tail(queue[q]) \in Seq(Delta) /\ Append(got[q], Head(queue[q])) \in Seq(Delta)
        /\ Len(Tail(queue[q])) <= cap[q]
    BY <2>1, <2>2
  <2> QED
    BY <2>1, <2>3 DEF TypeOK
<1>3. ASSUME NEW q \in Queue, Close(q) PROVE TypeOK'
  <2>1. open' \in [Queue -> BOOLEAN]
    BY <1>3, Zenon DEF Close, TypeOK
  <2> QED
    BY <1>3, <2>1 DEF Close, TypeOK
<1>4. ASSUME NEW p \in Pub, UpdateChannel(p) PROVE TypeOK'
  <2>1. PICK delta \in Delta, state \in ChannelState :
          /\ cur' = [cur EXCEPT ![p] = delta]
          /\ chans' = [chans EXCEPT ![delta.chan] = state]
    BY <1>4, UpdateEffect
  <2>2. /\ pc' = [pc EXCEPT ![p] = "recent"] /\ aim' = [aim EXCEPT ![p] = {}]
        /\ UNCHANGED <<subs, newest, recent, metrics, mpsc, todo, at>>
    BY <1>4 DEF UpdateChannel
  <2> QED
    BY <2>1, <2>2 DEF TypeOK
<1>5. ASSUME NEW p \in Pub, PushRecent(p) PROVE TypeOK'
  <2>1. cur[p] \in Delta
    BY <1>5 DEF PushRecent, BusyInv
  <2>2. recent' \in Seq(Delta) /\ Len(recent') <= RecentCap
    <3>1. recent \in Seq(Delta) /\ Len(recent) <= RecentCap /\ RecentCap \in Nat \ {0}
      BY CapacityAssumption DEF TypeOK
    <3> DEFINE kept == IF Len(recent) = RecentCap THEN Tail(recent) ELSE recent
    <3>2. kept \in Seq(Delta) /\ Len(kept) < RecentCap
      <4>1. CASE Len(recent) = RecentCap
        <5>1. recent # <<>>
          BY <3>1, <4>1
        <5> QED
          BY <3>1, <4>1, <5>1
      <4>2. CASE Len(recent) # RecentCap
        BY <3>1, <4>2
      <4> QED
        BY <4>1, <4>2
    <3>3. recent' = Append(kept, cur[p])
      BY <1>5 DEF PushRecent
    <3> HIDE DEF kept
    <3> QED
      BY <2>1, <3>1, <3>2, <3>3
  <2> QED
    BY <1>5, <2>2 DEF PushRecent, TypeOK
<1>6. ASSUME NEW p \in Pub, FindTargets(p) PROVE TypeOK'
  <2> DEFINE matching == {s \in Sub : subs[s] # None
                            /\ FilterMatches(subs[s].filter, cur[p].chan, cur[p].durable)}
             found == {[sub |-> s, queue |-> subs[s].queue] : s \in matching}
  <2>1. /\ todo' = [todo EXCEPT ![p] = found] /\ aim' = [aim EXCEPT ![p] = todo'[p]]
        /\ pc' = [pc EXCEPT ![p] = "send"]
        /\ UNCHANGED <<subs, newest, tables, mpsc, cur, at>>
    BY <1>6 DEF FindTargets
  <2>2. found \subseteq Target
    BY DEF Target, TypeOK, Subscription
  <2> HIDE DEF found
  <2>3. todo' \in [Pub -> SUBSET Target] /\ aim' \in [Pub -> SUBSET Target]
    BY <2>1, <2>2 DEF TypeOK
  <2> QED
    BY <2>1, <2>3 DEF TypeOK
<1>7. ASSUME NEW p \in Pub, TrySend(p) PROVE TypeOK'
  <2>1. PICK t \in todo[p] :
        /\ todo' = [todo EXCEPT ![p] = @ \ {t}]
        /\ \/ /\ HasRoom(t.queue)
              /\ Enqueue(t.queue, cur[p])
              /\ UNCHANGED <<pc, at, waiters>>
           \/ /\ waiters' = [waiters EXCEPT ![t.queue] = Append(@, p)]
              /\ BusyWith(p, t, "wait")
              /\ UNCHANGED queue
           \/ /\ BusyWith(p, t, "drop") \/ BusyWith(p, t, "remove")
              /\ UNCHANGED <<queue, waiters>>
        /\ UNCHANGED <<subs, newest, tables, cap, open, got, cur, aim>>
    BY <1>7 DEF TrySend
  <2>2. t \in Target /\ t.queue \in Queue /\ cur[p] \in Delta
    BY <1>7 DEF TrySend, BusyInv, TypeOK, Target
  <2>3. todo' \in [Pub -> SUBSET Target]
    BY <2>1 DEF TypeOK
  <2>4. pc' \in [Pub -> Label] /\ at' \in [Pub -> Target \cup {None}]
    <3>1. ASSUME NEW label \in Label, BusyWith(p, t, label)
          PROVE  pc' \in [Pub -> Label] /\ at' \in [Pub -> Target \cup {None}]
      BY <2>2, <3>1 DEF TypeOK
    <3>2. CASE UNCHANGED <<pc, at>>
      BY <3>2 DEF TypeOK
    <3> QED
      BY <2>1, <3>1, <3>2
  <2>5. /\ queue' \in [Queue -> Seq(Delta)] /\ \A q \in Queue : Len(queue'[q]) <= cap'[q]
        /\ waiters' \in [Queue -> Seq(Pub)]
    <3>1. CASE HasRoom(t.queue) /\ Enqueue(t.queue, cur[p]) /\ UNCHANGED waiters
      <4>1. Len(queue[t.queue]) < cap[t.queue]
        BY <2>2, <3>1 DEF HasRoom, TypeOK
      <4>2. Append(queue[t.queue], cur[p]) \in Seq(Delta) /\ Len(Append(queue[t.queue], cur[p])) <= cap[t.queue]
        BY <2>2, <4>1 DEF TypeOK
      <4> QED
        BY <2>1, <2>2, <3>1, <4>2 DEF TypeOK, Enqueue
    <3>2. CASE waiters' = [waiters EXCEPT ![t.queue] = Append(@, p)] /\ UNCHANGED queue
      <4>1. Append(waiters[t.queue], p) \in Seq(Pub)
        BY <2>2 DEF TypeOK
      <4> QED
        BY <2>1, <2>2, <3>2, <4>1 DEF TypeOK
    <3>3. CASE UNCHANGED <<queue, waiters>>
      BY <2>1, <3>3 DEF TypeOK
    <3> QED
      BY <2>1, <3>1, <3>2, <3>3
  <2> QED
    BY <2>1, <2>3, <2>4, <2>5 DEF TypeOK
<1>8. ASSUME NEW p \in Pub, Await(p) PROVE TypeOK'
  <2> DEFINE q == at[p].queue
  <2>1. PICK i \in PlacesOf(p, q) :
          /\ \/ HasPlace(q, i) /\ Enqueue(q, cur[p])
             \/ UNCHANGED queue
          /\ LeaveLine(q, i)
    BY <1>8 DEF Await
  <2>2. /\ pc' = [pc EXCEPT ![p] = "send"] /\ at' = [at EXCEPT ![p] = None]
        /\ UNCHANGED <<subs, newest, tables, cap, open, got, cur, todo, aim>>
    BY <1>8 DEF Await
  <2>3. q \in Queue /\ cur[p] \in Delta
    BY <1>8 DEF Await, BusyInv, Target
  <2> HIDE DEF q
  <2>4. waiters[q] \in Seq(Pub) /\ i \in 1..Len(waiters[q])
    BY <2>1, <2>3 DEF TypeOK, PlacesOf
  <2>5. waiters' \in [Queue -> Seq(Pub)]
    BY <2>1, <2>4, RemoveAtType DEF TypeOK, LeaveLine
  <2>6. queue' \in [Queue -> Seq(Delta)] /\ \A r \in Queue : Len(queue'[r]) <= cap'[r]
    <3>1. CASE HasPlace(q, i) /\ Enqueue(q, cur[p])
      <4>1. /\ Append(queue[q], cur[p]) \in Seq(Delta)
            /\ Len(Append(queue[q], cur[p])) <= cap[q]
        BY <2>3, <2>4, <3>1 DEF HasPlace, TypeOK
      <4> QED
        BY <2>2, <2>3, <3>1, <4>1 DEF Enqueue, TypeOK
    <3>2. CASE UNCHANGED queue
      BY <2>2, <3>2 DEF TypeOK
    <3> QED
      BY <2>1, <3>1, <3>2
  <2> QED
    BY <2>2, <2>5, <2>6 DEF TypeOK
<1>9. ASSUME NEW p \in Pub, RecordDrop(p) PROVE TypeOK'
  <2>1. at[p].sub \in Sub
    BY <1>9 DEF RecordDrop, BusyInv, Target
  <2> DEFINE s == at[p].sub
             charged == IF subs[s] = None THEN None ELSE [queue |-> subs[s].queue, filter |-> subs[s].filter,
                                                            dropped |-> subs[s].dropped + 1]
  <2>2. subs' = [subs EXCEPT ![s] = charged]
    BY <1>9, <2>1 DEF RecordDrop, TypeOK
  <2>3. charged \in Subscription \cup {None}
    BY <2>1 DEF TypeOK, Subscription
  <2> HIDE DEF charged, s
  <2>4. subs' \in [Sub -> Subscription \cup {None}]
    BY <2>2, <2>3 DEF TypeOK
  <2>5. metrics' \in [Counter -> Nat]
    BY <1>9 DEF RecordDrop, TypeOK, Count, Counter
  <2> QED
    BY <1>9, <2>4, <2>5 DEF RecordDrop, TypeOK
<1>10. ASSUME NEW p \in Pub, Unregister(p) PROVE TypeOK'
  BY <1>10 DEF Unregister, TypeOK
<1>11. ASSUME NEW p \in Pub, Finish(p) PROVE TypeOK'
  <2>1. metrics' \in [Counter -> Nat]
    BY <1>11 DEF Finish, TypeOK, Count, Counter
  <2> QED
    BY <1>11, <2>1 DEF Finish, TypeOK
<1>12. ASSUME NEW p \in Pub, Cancel(p) PROVE TypeOK'
  <2> DEFINE q == at[p].queue
  <2>1. PICK i \in PlacesOf(p, q) : LeaveLine(q, i)
    BY <1>12 DEF Cancel
  <2>2. q \in Queue
    BY <1>12 DEF Cancel, BusyInv, Target
  <2> HIDE DEF q
  <2>3. waiters[q] \in Seq(Pub) /\ i \in 1..Len(waiters[q])
    BY <2>1, <2>2 DEF TypeOK, PlacesOf
  <2>4. waiters' \in [Queue -> Seq(Pub)]
    BY <2>1, <2>3, RemoveAtType DEF TypeOK, LeaveLine
  <2> QED
    BY <1>12, <2>4 DEF Cancel, TypeOK
<1>13. CASE UNCHANGED vars
  BY <1>13 DEF vars, TypeOK
<1> QED
  BY <1>1, <1>2, <1>3, <1>4, <1>5, <1>6, <1>7, <1>8, <1>9, <1>10, <1>11, <1>12, <1>13
     DEF Next, Broadcasting

\* Every step keeps what a broadcast under way holds.
LEMMA BusyStep == TypeOK /\ BusyInv /\ [Next]_vars => BusyInv'
<1> SUFFICES ASSUME TypeOK, BusyInv, TypeOK', [Next]_vars PROVE BusyInv'
  BY TypeStep
<1> USE DEF tables, mpsc, local, Goto, NextTarget, BusyWith, Label
<1>1. ASSUME UNCHANGED local PROVE BusyInv'
  BY <1>1 DEF BusyInv
<1>2. ASSUME NEW p \in Pub, UpdateChannel(p) PROVE BusyInv'
  <2>1. pc' = [pc EXCEPT ![p] = "recent"] /\ at' = at
    BY <1>2 DEF UpdateChannel
  <2>3. \E delta \in Delta : cur' = [cur EXCEPT ![p] = delta]
    BY <1>2, UpdateEffect
  <2> QED
    BY <2>1, <2>3 DEF BusyInv, TypeOK
<1>3. ASSUME NEW p \in Pub, PushRecent(p) \/ FindTargets(p) \/ Await(p) \/ RecordDrop(p)
                             \/ Unregister(p) \/ Finish(p) \/ Cancel(p)
      PROVE  BusyInv'
  <2>1. PICK label \in {"targets", "send", "idle"} : pc' = [pc EXCEPT ![p] = label]
    BY <1>3 DEF PushRecent, FindTargets, Await, RecordDrop, Unregister, Finish, Cancel
  <2>2. pc[p] # "idle" /\ cur' = cur
    BY <1>3 DEF PushRecent, FindTargets, Await, RecordDrop, Unregister, Finish, Cancel
  <2>3. at' = at \/ at' = [at EXCEPT ![p] = None]
    BY <1>3 DEF PushRecent, FindTargets, Await, RecordDrop, Unregister, Finish, Cancel
  <2> QED
    BY <2>1, <2>2, <2>3 DEF BusyInv, TypeOK
<1>4. ASSUME NEW p \in Pub, TrySend(p) PROVE BusyInv'
  <2>1. PICK t \in todo[p], label \in {"wait", "drop", "remove"} :
          \/ UNCHANGED <<pc, at>>
          \/ BusyWith(p, t, label)
    BY <1>4 DEF TrySend
  <2>2. t \in Target /\ pc[p] = "send" /\ cur' = cur
    BY <1>4 DEF TrySend, TypeOK
  <2> QED
    BY <2>1, <2>2 DEF BusyInv, TypeOK
<1> QED
  BY <1>1, <1>2, <1>3, <1>4 DEF Next, Broadcasting, Subscribe, Receive, Close, vars

-----------------------------------------------------------------------------
(* Targets                                                                 *)

\* Subscriptions have queues of their own, which were made; a broadcast's
\* targets too, and the one it is busy with is not among those to come.
TargetInv ==
    /\ \A s \in Sub : subs[s] # None => cap[subs[s].queue] # 0
    /\ \A s, u \in Sub : (subs[s] # None /\ subs[u] # None /\ subs[s].queue = subs[u].queue) => s = u
    /\ \A p \in Pub :
          /\ \A t, u \in aim[p] : t.queue = u.queue => t = u
          /\ \A t \in aim[p] : cap[t.queue] # 0
          /\ todo[p] \subseteq aim[p]
          /\ pc[p] \in {"idle", "recent", "targets"} => todo[p] = {}
          /\ pc[p] \in {"wait", "drop", "remove"} => at[p] \in aim[p] \ todo[p]

\* Every step keeps the targets apart.
LEMMA TargetStep == TypeOK /\ BusyInv /\ TargetInv /\ [Next]_vars => TargetInv'
<1> SUFFICES ASSUME TypeOK, BusyInv, TargetInv, [Next]_vars PROVE TargetInv'
  OBVIOUS
<1> USE DEF tables, mpsc, local, Goto, NextTarget, BusyWith, Label
<1>1. ASSUME NEW s \in Sub, Subscribe(s) PROVE TargetInv'
  <2>1. PICK filter \in Filter, asked \in Asked, q \in Queue :
          /\ cap[q] = 0
          /\ cap' = [cap EXCEPT ![q] = Granted(asked)]
          /\ subs' = [subs EXCEPT ![s] = [queue |-> q, filter |-> filter, dropped |-> 0]]
          /\ UNCHANGED local
    BY <1>1 DEF Subscribe
  <2>2. Granted(asked) # 0
    BY GrantedRange, CapacityAssumption
  <2>3. \A r \in Queue : cap[r] # 0 => cap'[r] # 0 /\ r # q
    BY <2>1 DEF TypeOK
  <2>4. cap'[q] # 0
    BY <2>1, <2>2 DEF TypeOK
  <2>5. \A u \in Sub : u # s => subs'[u] = subs[u]
    BY <2>1 DEF TypeOK
  <2>6. subs'[s] # None /\ subs'[s].queue = q
    <3>1. [queue |-> q, filter |-> filter, dropped |-> 0] \in Subscription
      BY DEF Subscription
    <3> QED
      BY <2>1, <3>1, NoneAssumption DEF TypeOK
  <2>7. \A u \in Sub : subs[u] # None => subs[u].queue \in Queue
    BY DEF TypeOK, Subscription
  <2>8. \A p \in Pub : \A t \in aim[p] : t.queue \in Queue
    BY DEF TypeOK, Target
  <2> QED
    BY <2>1, <2>3, <2>4, <2>5, <2>6, <2>7, <2>8 DEF TargetInv
<1>2. ASSUME UNCHANGED <<subs, cap, local>> PROVE TargetInv'
  BY <1>2 DEF TargetInv
<1>3. ASSUME NEW p \in Pub, UpdateChannel(p) PROVE TargetInv'
  <2>1. /\ pc[p] = "idle" /\ pc' = [pc EXCEPT ![p] = "recent"] /\ aim' = [aim EXCEPT ![p] = {}]
        /\ UNCHANGED <<subs, cap, todo, at>>
    BY <1>3 DEF UpdateChannel
  <2> QED
    BY <2>1 DEF TargetInv, TypeOK
<1>4. ASSUME NEW p \in Pub, PushRecent(p) \/ Finish(p) \/ Cancel(p) PROVE TargetInv'
  <2>1. PICK label \in {"targets", "idle"} : pc' = [pc EXCEPT ![p] = label]
    BY <1>4 DEF PushRecent, Finish, Cancel
  <2>2. /\ todo' = [todo EXCEPT ![p] = {}]
        /\ \A r \in Pub : r # p => at'[r] = at[r]
        /\ UNCHANGED <<subs, cap, aim>>
    BY <1>4 DEF PushRecent, Finish, Cancel, TypeOK, TargetInv
  <2> QED
    BY <2>1, <2>2 DEF TargetInv, TypeOK
<1>5. ASSUME NEW p \in Pub, FindTargets(p) PROVE TargetInv'
  <2> DEFINE matching == {s \in Sub : subs[s] # None
                            /\ FilterMatches(subs[s].filter, cur[p].chan, cur[p].durable)}
             found == {[sub |-> s, queue |-> subs[s].queue] : s \in matching}
  <2>1. /\ todo' = [todo EXCEPT ![p] = found] /\ aim' = [aim EXCEPT ![p] = todo'[p]]
        /\ pc' = [pc EXCEPT ![p] = "send"]
        /\ UNCHANGED <<subs, cap, at>>
    BY <1>5 DEF FindTargets
  <2>2. \A t \in found : cap[t.queue] # 0
    BY DEF TargetInv
  <2>3. \A t, u \in found : t.queue = u.queue => t = u
    BY DEF TargetInv
  <2> HIDE DEF found
  <2>4. aim' = [aim EXCEPT ![p] = found]
    BY <2>1 DEF TypeOK
  <2> QED
    BY <2>1, <2>2, <2>3, <2>4 DEF TargetInv, TypeOK
<1>6. ASSUME NEW p \in Pub, TrySend(p) PROVE TargetInv'
  <2>1. PICK t \in todo[p] : /\ todo' = [todo EXCEPT ![p] = @ \ {t}]
                             /\ \/ UNCHANGED <<pc, at>>
                                \/ \E label \in {"wait", "drop", "remove"} : BusyWith(p, t, label)
                             /\ pc[p] = "send" /\ UNCHANGED <<subs, cap, aim>>
    BY <1>6 DEF TrySend
  <2>2. CASE UNCHANGED <<pc, at>>
    BY <2>1, <2>2 DEF TargetInv, TypeOK
  <2>3. ASSUME NEW label \in {"wait", "drop", "remove"}, BusyWith(p, t, label) PROVE TargetInv'
    BY <2>1, <2>3 DEF TargetInv, TypeOK
  <2> QED
    BY <2>1, <2>2, <2>3
<1>7. ASSUME NEW p \in Pub, Await(p) PROVE TargetInv'
  <2>1. pc' = [pc EXCEPT ![p] = "send"] /\ at' = [at EXCEPT ![p] = None]
        /\ UNCHANGED <<subs, cap, aim, todo>> /\ pc[p] = "wait"
    BY <1>7 DEF Await
  <2> QED
    BY <2>1 DEF TargetInv, TypeOK
<1>8. ASSUME NEW p \in Pub, RecordDrop(p) \/ Unregister(p) PROVE TargetInv'
  <2>1. pc' = [pc EXCEPT ![p] = "send"] /\ at' = [at EXCEPT ![p] = None]
        /\ UNCHANGED <<cap, aim, todo>> /\ pc[p] \in {"drop", "remove"}
    BY <1>8 DEF RecordDrop, Unregister
  <2>2. \A s \in Sub : subs'[s] # None => subs[s] # None /\ subs'[s].queue = subs[s].queue
    <3>1. at[p].sub \in Sub
      BY <2>1 DEF BusyInv, Target
    <3>2. CASE RecordDrop(p)
      <4> DEFINE s == at[p].sub
                 charged == IF subs[s] = None THEN None
                            ELSE [queue |-> subs[s].queue, filter |-> subs[s].filter,
                                  dropped |-> subs[s].dropped + 1]
      <4>1. subs' = [subs EXCEPT ![s] = charged]
        BY <3>1, <3>2 DEF RecordDrop, TypeOK
      <4>2. charged # None => subs[s] # None /\ charged.queue = subs[s].queue
        OBVIOUS
      <4> HIDE DEF s, charged
      <4> QED
        BY <4>1, <4>2 DEF TypeOK
    <3>3. CASE Unregister(p)
      BY <3>1, <3>3 DEF Unregister, TypeOK
    <3> QED
      BY <1>8, <3>2, <3>3
  <2>3. /\ \A s \in Sub : subs'[s] # None => cap'[subs'[s].queue] # 0
        /\ \A s, u \in Sub : (subs'[s] # None /\ subs'[u] # None /\ subs'[s].queue = subs'[u].queue) => s = u
    BY <2>1, <2>2 DEF TargetInv
  <2>4. \A r \in Pub : r # p => pc'[r] = pc[r] /\ at'[r] = at[r]
    BY <2>1 DEF TypeOK
  <2>5. pc'[p] = "send"
    BY <2>1 DEF TypeOK
  <2> QED
    BY <2>1, <2>3, <2>4, <2>5 DEF TargetInv
<1> QED
  BY <1>1, <1>2, <1>3, <1>4, <1>5, <1>6, <1>7, <1>8 DEF Next, Broadcasting, Receive, Close, vars

-----------------------------------------------------------------------------
(* What went through the queues                                            *)

\* It is a sequence of deltas.
LEMMA SentType == TypeOK => \A q \in Queue : Sent(q) \in Seq(Delta)
BY DEF TypeOK, Sent

\* Taking a message does not change it.
LEMMA SentReceive ==
    ASSUME TypeOK, NEW q \in Queue, Receive(q)
    PROVE  \A r \in Queue : Sent(r)' = Sent(r)
<1>1. /\ queue[q] # <<>>
      /\ got' = [got EXCEPT ![q] = Append(@, Head(queue[q]))]
      /\ queue' = [queue EXCEPT ![q] = Tail(@)]
  BY DEF Receive
<1>2. queue[q] \in Seq(Delta) /\ got[q] \in Seq(Delta)
  BY DEF TypeOK
<1>3. Append(got[q], Head(queue[q])) \o Tail(queue[q]) = got[q] \o queue[q]
  BY <1>1, <1>2, MoveHead
<1>4. Sent(q)' = Sent(q)
  BY <1>1, <1>3 DEF Sent, TypeOK
<1> QED
  BY <1>1, <1>4 DEF Sent, TypeOK

\* Putting one in adds it.
LEMMA SentEnqueue ==
    ASSUME TypeOK, NEW q \in Queue, NEW m \in Delta, Enqueue(q, m), got' = got
    PROVE  /\ Sent(q)' = Append(Sent(q), m)
           /\ \A r \in Queue : r # q => Sent(r)' = Sent(r)
<1>1. queue' = [queue EXCEPT ![q] = Append(queue[q], m)]
  BY DEF Enqueue
<1>2. queue[q] \in Seq(Delta) /\ got[q] \in Seq(Delta)
  BY DEF TypeOK
<1>3. got[q] \o Append(queue[q], m) = Append(got[q] \o queue[q], m)
  <2> DEFINE a == got[q]
             b == queue[q]
  <2>1. a \in Seq(Delta) /\ b \in Seq(Delta)
    BY <1>2
  <2> HIDE DEF a, b
  <2>2. a \o Append(b, m) = Append(a \o b, m)
    BY <2>1, ConcatAppend
  <2> QED
    BY <2>2 DEF a, b
<1> QED
  BY <1>1, <1>3 DEF Sent, TypeOK

\* Only TrySend and Await put something in.
LEMMA SentKept ==
    ASSUME TypeOK, [Next]_vars, \A p \in Pub : ~TrySend(p) /\ ~Await(p)
    PROVE  \A r \in Queue : Sent(r)' = Sent(r)
<1>1. ASSUME UNCHANGED <<queue, got>> PROVE \A r \in Queue : Sent(r)' = Sent(r)
  BY <1>1 DEF Sent
<1>2. \/ \E q \in Queue : Receive(q)
      \/ UNCHANGED <<queue, got>>
  <2> USE DEF vars, mpsc, tables, local
  <2>1. ASSUME NEW s \in Sub, Subscribe(s) PROVE UNCHANGED <<queue, got>>
    BY <2>1 DEF Subscribe
  <2>2. ASSUME NEW q \in Queue, Close(q) PROVE UNCHANGED <<queue, got>>
    BY <2>2 DEF Close
  <2>3. ASSUME NEW p \in Pub, UpdateChannel(p) PROVE UNCHANGED <<queue, got>>
    BY <2>3 DEF UpdateChannel
  <2>4. ASSUME NEW p \in Pub, PushRecent(p) \/ FindTargets(p) \/ RecordDrop(p) \/ Unregister(p)
                               \/ Finish(p) \/ Cancel(p)
        PROVE  UNCHANGED <<queue, got>>
    BY <2>4 DEF PushRecent, FindTargets, RecordDrop, Unregister, Finish, Cancel
  <2>5. CASE UNCHANGED vars
    BY <2>5
  <2> QED
    BY <2>1, <2>2, <2>3, <2>4, <2>5, Zenon DEF Next, Broadcasting
<1> QED
  BY <1>1, <1>2, SentReceive

-----------------------------------------------------------------------------
(* Order                                                                   *)

\* Publisher p may still put its delta into queue q.
Pending(p, q) ==
    \/ pc[p] \in {"recent", "targets"}
    \/ \E t \in todo[p] : t.queue = q
    \/ pc[p] = "wait" /\ at[p].queue = q

\* What went through a queue is no newer than its publisher's last delta,
\* and older if that one may still come.
OrderInv ==
    /\ PublisherOrder
    /\ \A q \in Queue, p \in Pub : \A i \in 1..Len(Sent(q)) : Sent(q)[i].pub = p =>
          /\ cur[p] # None /\ Sent(q)[i].n <= cur[p].n
          /\ Pending(p, q) => Sent(q)[i].n < cur[p].n

\* A step that puts nothing into a queue and starts nothing keeps the order.
LEMMA OrderKept ==
    ASSUME OrderInv, \A q \in Queue : Sent(q)' = Sent(q), cur' = cur,
           \A p \in Pub, q \in Queue : Pending(p, q)' => Pending(p, q)
    PROVE  OrderInv'
BY DEF OrderInv, PublisherOrder

\* A publisher that puts its delta into a queue puts it after its older ones.
LEMMA OrderEnqueue ==
    ASSUME TypeOK, OrderInv, NEW p \in Pub, NEW q \in Queue, cur[p] \in Delta, cur[p].pub = p,
           Pending(p, q), Enqueue(q, cur[p]), got' = got, cur' = cur, ~Pending(p, q)',
           \A r \in Pub, s \in Queue : Pending(r, s)' => Pending(r, s)
    PROVE  OrderInv'
<1> DEFINE m == cur[p]
           S  == Sent(q)
           T  == Append(S, m)
<1>1. S \in Seq(Delta) /\ Sent(q)' = T /\ \A r \in Queue : r # q => Sent(r)' = Sent(r)
  BY SentEnqueue, SentType
<1>2. m \in Delta /\ m.n \in Int /\ m.pub = p
  BY DEF Delta
<1>3. \A i \in 1..Len(S) : S[i] \in Delta /\ S[i].n \in Int
  <2>1. \A i \in 1..Len(S) : S[i] \in Delta
    BY <1>1, ElementOfSeq
  <2>2. \A d \in Delta : d.n \in Int
    BY DEF Delta
  <2> QED
    BY <2>1, <2>2
<1>4. \A i \in 1..Len(S) : S[i].pub = p => S[i].n < m.n
  BY DEF OrderInv
<1>5. /\ Len(T) = Len(S) + 1 /\ Len(S) \in Nat
      /\ T[Len(S) + 1] = m
      /\ \A i \in 1..Len(S) : T[i] = S[i]
  BY <1>1, <1>2, AppendProperties, LenProperties
<1>6. \A i, j \in 1..Len(S) : (i < j /\ S[i].pub = S[j].pub) => S[i].n < S[j].n
  BY DEF OrderInv, PublisherOrder
<1>7. \A r \in Pub : \A i \in 1..Len(S) : S[i].pub = r =>
         cur[r] # None /\ S[i].n <= cur[r].n /\ (Pending(r, q) => S[i].n < cur[r].n)
  BY DEF OrderInv
<1>8. m = cur[p] /\ cur[p] # None
  BY NoneAssumption
<1> HIDE DEF m, S, T
<1>9. ASSUME NEW i \in 1..Len(T), NEW j \in 1..Len(T), i < j, T[i].pub = T[j].pub
      PROVE  T[i].n < T[j].n
  <2>1. i \in 1..Len(S) /\ T[i] = S[i]
    BY <1>5, <1>9
  <2>2. CASE j \in 1..Len(S)
    BY <1>5, <1>6, <1>9, <2>1, <2>2
  <2>3. CASE j = Len(S) + 1
    <3>1. T[j] = m /\ S[i].pub = p
      BY <1>2, <1>5, <1>9, <2>1, <2>3
    <3> QED
      BY <1>4, <2>1, <3>1
  <2> QED
    BY <1>5, <2>2, <2>3
<1>10. ASSUME NEW r \in Pub, NEW i \in 1..Len(T), T[i].pub = r
       PROVE  cur[r] # None /\ T[i].n <= cur[r].n /\ (Pending(r, q)' => T[i].n < cur[r].n)
  <2>1. CASE i \in 1..Len(S)
    BY <1>5, <1>7, <1>10, <2>1
  <2>2. CASE i = Len(S) + 1
    BY <1>2, <1>5, <1>8, <1>10, <2>2
  <2> QED
    BY <1>5, <2>1, <2>2
<1>11. PublisherOrder'
  BY <1>1, <1>9 DEF OrderInv, PublisherOrder
<1> QED
  BY <1>1, <1>10, <1>11 DEF OrderInv

\* A publisher that starts takes a number none of its deltas had.
LEMMA OrderUpdate ==
    ASSUME TypeOK, OrderInv, NEW p \in Pub, UpdateChannel(p)
    PROVE  OrderInv'
<1> USE DEF tables, mpsc, local, Goto
<1>1. PICK delta \in Delta : /\ cur[p] # None => cur[p].n < delta.n
                             /\ cur' = [cur EXCEPT ![p] = delta]
  BY UpdateEffect
<1>2. /\ pc' = [pc EXCEPT ![p] = "recent"]
      /\ UNCHANGED <<queue, got, todo, at>>
  BY DEF UpdateChannel
<1>3. \A q \in Queue : Sent(q)' = Sent(q)
  BY <1>2 DEF Sent
<1>4. PublisherOrder'
  BY <1>3 DEF OrderInv, PublisherOrder
<1>5. \A q \in Queue : \A i \in 1..Len(Sent(q)) : Sent(q)[i].n \in Int
  <2>1. \A q \in Queue : \A i \in 1..Len(Sent(q)) : Sent(q)[i] \in Delta
    BY SentType, ElementOfSeq
  <2>2. \A d \in Delta : d.n \in Int
    BY DEF Delta
  <2> QED
    BY <2>1, <2>2
<1>6. \A r \in Pub, q \in Queue : r # p => cur'[r] = cur[r] /\ Pending(r, q)' = Pending(r, q)
  BY <1>1, <1>2 DEF Pending, TypeOK
<1>7. cur'[p] = delta /\ delta # None /\ delta.n \in Int /\ (cur[p] # None => cur[p].n \in Int)
  BY <1>1, NoneAssumption DEF TypeOK, Delta
<1>8. ASSUME NEW q \in Queue, NEW i \in 1..Len(Sent(q)), Sent(q)[i].pub = p
      PROVE  Sent(q)[i].n < delta.n
  BY <1>1, <1>5, <1>7, <1>8 DEF OrderInv
<1>9. ASSUME NEW q \in Queue, NEW r \in Pub, NEW i \in 1..Len(Sent(q)), Sent(q)[i].pub = r
      PROVE  cur'[r] # None /\ Sent(q)[i].n <= cur'[r].n /\ (Pending(r, q)' => Sent(q)[i].n < cur'[r].n)
  <2>1. CASE r = p
    BY <1>5, <1>7, <1>8, <1>9, <2>1
  <2>2. CASE r # p
    BY <1>6, <1>9, <2>2, SMTT(30) DEF OrderInv
  <2> QED
    BY <2>1, <2>2
<1> QED
  BY <1>3, <1>4, <1>9 DEF OrderInv

\* A publisher publishes its own deltas.
OwnInv == \A p \in Pub : cur[p] # None => cur[p].pub = p

LEMMA OwnStep == TypeOK /\ OwnInv /\ [Next]_vars => OwnInv'
<1> SUFFICES ASSUME TypeOK, OwnInv, [Next]_vars PROVE OwnInv'
  OBVIOUS
<1>1. ASSUME NEW p \in Pub, UpdateChannel(p) PROVE OwnInv'
  <2>1. PICK delta \in Delta : delta.pub = p /\ cur' = [cur EXCEPT ![p] = delta]
    BY <1>1, UpdateEffect
  <2> QED
    BY <2>1 DEF OwnInv, TypeOK
<1>2. CASE UNCHANGED cur
  BY <1>2 DEF OwnInv
<1> QED
  BY <1>1, <1>2 DEF Next, Broadcasting, Subscribe, Receive, Close, PushRecent, FindTargets, TrySend,
     Await, RecordDrop, Unregister, Finish, Cancel, vars, tables, mpsc, local

\* Every step keeps the order.
LEMMA OrderStep ==
    TypeOK /\ BusyInv /\ TargetInv /\ OwnInv /\ OrderInv /\ [Next]_vars => OrderInv'
<1> SUFFICES ASSUME TypeOK, BusyInv, TargetInv, OwnInv, OrderInv, [Next]_vars PROVE OrderInv'
  OBVIOUS
<1> USE DEF tables, mpsc, local, Goto, NextTarget, BusyWith, Label
<1>1. ASSUME NEW p \in Pub, UpdateChannel(p) PROVE OrderInv'
  BY <1>1, OrderUpdate
<1>2. ASSUME NEW p \in Pub, TrySend(p) PROVE OrderInv'
  <2>1. PICK t \in todo[p] :
          /\ pc[p] = "send" /\ todo' = [todo EXCEPT ![p] = @ \ {t}]
          /\ \/ Enqueue(t.queue, cur[p]) /\ UNCHANGED <<pc, at>>
             \/ UNCHANGED queue /\ \E label \in {"wait", "drop", "remove"} : BusyWith(p, t, label)
          /\ UNCHANGED <<got, cur>>
    BY <1>2 DEF TrySend
  <2>2. t.queue \in Queue /\ cur[p] \in Delta /\ cur[p].pub = p
    BY <2>1, NoneAssumption DEF TypeOK, Target, BusyInv, OwnInv
  <2>3. \A u \in todo[p] \ {t} : u.queue # t.queue
    BY DEF TargetInv
  <2>4. Pending(p, t.queue)
    BY DEF Pending
  <2>5. CASE Enqueue(t.queue, cur[p]) /\ UNCHANGED <<pc, at>>
    <3>1. ~Pending(p, t.queue)'
      BY <2>1, <2>3, <2>5 DEF Pending, TypeOK
    <3>2. \A r \in Pub, s \in Queue : Pending(r, s)' => Pending(r, s)
      BY <2>1, <2>5 DEF Pending, TypeOK
    <3> QED
      BY <2>1, <2>2, <2>4, <2>5, <3>1, <3>2, OrderEnqueue
  <2>6. ASSUME UNCHANGED queue, NEW label \in {"wait", "drop", "remove"}, BusyWith(p, t, label)
        PROVE  OrderInv'
    <3>1. \A r \in Pub, s \in Queue : Pending(r, s)' => Pending(r, s)
      BY <2>1, <2>6 DEF Pending, TypeOK
    <3>2. \A q \in Queue : Sent(q)' = Sent(q)
      BY <2>1, <2>6 DEF Sent
    <3> QED
      BY <2>1, <3>1, <3>2, OrderKept
  <2> QED
    BY <2>1, <2>5, <2>6
<1>3. ASSUME NEW p \in Pub, Await(p) PROVE OrderInv'
  <2>1. PICK q \in Queue : q = at[p].queue
    BY <1>3 DEF Await, BusyInv, Target
  <2>2. /\ pc[p] = "wait" /\ pc' = [pc EXCEPT ![p] = "send"] /\ at' = [at EXCEPT ![p] = None]
        /\ Enqueue(q, cur[p]) \/ UNCHANGED queue
        /\ UNCHANGED <<got, cur, todo>>
    BY <1>3, <2>1 DEF Await
  <2>3. cur[p] \in Delta /\ cur[p].pub = p
    BY <2>2, NoneAssumption DEF BusyInv, OwnInv
  <2>4. Pending(p, q)
    BY <2>1, <2>2 DEF Pending
  <2>5. \A u \in todo[p] : u.queue # q
    BY <2>1, <2>2 DEF TargetInv
  <2>6. ~Pending(p, q)' /\ \A r \in Pub, s \in Queue : Pending(r, s)' => Pending(r, s)
    <3>1. \A r \in Pub : pc'[r] = IF r = p THEN "send" ELSE pc[r]
      BY <2>2 DEF TypeOK
    <3>2. \A r \in Pub : r # p => at'[r] = at[r]
      BY <2>2 DEF TypeOK
    <3> QED
      BY <2>2, <2>5, <3>1, <3>2 DEF Pending
  <2>7. CASE Enqueue(q, cur[p])
    <3>1. got' = got /\ cur' = cur
      BY <2>2
    <3> QED
      BY <2>3, <2>4, <2>6, <2>7, <3>1, OrderEnqueue
  <2>8. CASE UNCHANGED queue
    <3>1. cur' = cur /\ \A r \in Queue : Sent(r)' = Sent(r)
      BY <2>2, <2>8 DEF Sent
    <3> QED
      BY <2>6, <3>1, OrderKept
  <2> QED
    BY <2>2, <2>7, <2>8
<1>4. ASSUME \A p \in Pub : ~UpdateChannel(p) /\ ~TrySend(p) /\ ~Await(p) PROVE OrderInv'
  <2>1. \A q \in Queue : Sent(q)' = Sent(q)
    BY <1>4, SentKept
  <2>2. cur' = cur /\ \A p \in Pub, q \in Queue : Pending(p, q)' => Pending(p, q)
    <3>1. ASSUME NEW p \in Pub, PushRecent(p) \/ Finish(p) \/ Cancel(p)
          PROVE  cur' = cur /\ \A r \in Pub, q \in Queue : Pending(r, q)' => Pending(r, q)
      <4>1. PICK label \in {"targets", "idle"} : /\ pc' = [pc EXCEPT ![p] = label]
                                                 /\ label = "targets" => pc[p] = "recent"
        BY <3>1 DEF PushRecent, Finish, Cancel
      <4>2. /\ cur' = cur /\ \A r \in Pub : todo'[r] \subseteq todo[r]
            /\ \A r \in Pub : r # p => at'[r] = at[r]
        BY <3>1 DEF PushRecent, Finish, Cancel, TypeOK
      <4> QED
        BY <4>1, <4>2 DEF Pending, TypeOK
    <3>2. ASSUME NEW p \in Pub, FindTargets(p)
          PROVE  cur' = cur /\ \A r \in Pub, q \in Queue : Pending(r, q)' => Pending(r, q)
      <4>1. /\ pc[p] = "targets" /\ pc' = [pc EXCEPT ![p] = "send"] /\ cur' = cur /\ at' = at
            /\ \A r \in Pub : r # p => todo'[r] = todo[r]
        BY <3>2 DEF FindTargets, TypeOK
      <4> QED
        BY <4>1 DEF Pending, TypeOK
    <3>3. ASSUME NEW p \in Pub, RecordDrop(p) \/ Unregister(p)
          PROVE  cur' = cur /\ \A r \in Pub, q \in Queue : Pending(r, q)' => Pending(r, q)
      <4>1. /\ pc' = [pc EXCEPT ![p] = "send"] /\ cur' = cur /\ todo' = todo
            /\ at' = [at EXCEPT ![p] = None]
        BY <3>3 DEF RecordDrop, Unregister
      <4> QED
        BY <4>1 DEF Pending, TypeOK
    <3>4. ASSUME UNCHANGED local
          PROVE  cur' = cur /\ \A r \in Pub, q \in Queue : Pending(r, q)' => Pending(r, q)
      BY <3>4 DEF Pending
    <3>5. \/ UNCHANGED local
          \/ \E p \in Pub : PushRecent(p) \/ Finish(p) \/ Cancel(p) \/ FindTargets(p)
                            \/ RecordDrop(p) \/ Unregister(p)
      BY <1>4 DEF Next, Broadcasting, Subscribe, Receive, Close, vars
    <3> QED
      BY <3>1, <3>2, <3>3, <3>4, <3>5
  <2> QED
    BY <2>1, <2>2, OrderKept
<1> QED
  BY <1>1, <1>2, <1>3, <1>4
-----------------------------------------------------------------------------
(* Durable notices                                                         *)

\* Delta d went through queue q.
Through(q, d) == \E i \in 1..Len(Sent(q)) : Sent(q)[i] = d

\* A durable delta of publisher p does not pass by a target: each it found is
\* still to come, is waited for, has it, or is gone.
DurableOf(p) ==
    (cur[p] # None /\ cur[p].durable /\ pc[p] \notin {"recent", "targets"}) =>
        /\ pc[p] # "drop"
        /\ \A t \in aim[p] : \/ t \in todo[p]
                             \/ pc[p] = "wait" /\ t = at[p]
                             \/ open[t.queue] => Through(t.queue, cur[p])

DurableInv == \A p \in Pub : DurableOf(p)

\* What is put into a queue goes through it, after all that went before.
LEMMA ThroughEnqueue ==
    ASSUME TypeOK, NEW q \in Queue, NEW m \in Delta, Enqueue(q, m), got' = got
    PROVE  /\ Through(q, m)'
           /\ \A r \in Queue, d \in Delta : Through(r, d) => Through(r, d)'
<1>1. Sent(q)' = Append(Sent(q), m) /\ \A r \in Queue : r # q => Sent(r)' = Sent(r)
  BY SentEnqueue
<1> DEFINE S == Sent(q)
           T == Append(S, m)
<1>2. S \in Seq(Delta)
  BY SentType
<1>3. /\ Len(T) = Len(S) + 1 /\ Len(S) \in Nat /\ T[Len(S) + 1] = m
      /\ \A i \in 1..Len(S) : T[i] = S[i]
  BY <1>2, AppendProperties, LenProperties
<1> HIDE DEF T
<1>4. Sent(q)' = T
  BY <1>1 DEF T
<1> HIDE DEF S
<1>5. \E i \in 1..Len(T) : T[i] = m
  BY <1>3
<1>6. \A d : (\E i \in 1..Len(S) : S[i] = d) => \E i \in 1..Len(T) : T[i] = d
  BY <1>3
<1>7. \A d : Through(q, d) => Through(q, d)'
  BY <1>4, <1>6 DEF Through, S
<1>8. Through(q, m)'
  BY <1>4, <1>5 DEF Through
<1>9. ASSUME NEW r \in Queue, NEW d \in Delta, Through(r, d) PROVE Through(r, d)'
  <2>1. CASE r = q
    BY <1>7, <1>9, <2>1
  <2>2. CASE r # q
    BY <1>1, <1>9, <2>2 DEF Through
  <2> QED
    BY <2>1, <2>2
<1> QED
  BY <1>8, <1>9

\* A receiver that is gone stays so, if its queue was made.
LEMMA ClosedStays ==
    ASSUME TypeOK, [Next]_vars, NEW q \in Queue, cap[q] # 0, open'[q]
    PROVE  open[q]
<1> USE DEF vars, tables, mpsc, local
<1>1. ASSUME NEW s \in Sub, Subscribe(s) PROVE open[q]
  <2>1. PICK r \in Queue : cap[r] = 0 /\ open' = [open EXCEPT ![r] = TRUE]
    BY <1>1 DEF Subscribe
  <2> QED
    BY <2>1 DEF TypeOK
<1>2. ASSUME NEW r \in Queue, Close(r) PROVE open[q]
  BY <1>2 DEF Close, TypeOK
<1>3. CASE open' = open
  BY <1>3
<1>4. ASSUME NEW p \in Pub, UpdateChannel(p) \/ Broadcasting(p) \/ Cancel(p) PROVE open' = open
  <2>1. ASSUME UpdateChannel(p) PROVE open' = open
    BY <2>1 DEF UpdateChannel
  <2>2. ASSUME TrySend(p) PROVE open' = open
    BY <2>2 DEF TrySend
  <2>3. ASSUME Await(p) \/ Cancel(p) PROVE open' = open
    BY <2>3 DEF Await, Cancel
  <2>4. ASSUME PushRecent(p) \/ FindTargets(p) \/ RecordDrop(p) \/ Unregister(p) \/ Finish(p)
        PROVE  open' = open
    BY <2>4 DEF PushRecent, FindTargets, RecordDrop, Unregister, Finish
  <2> QED
    BY <1>4, <2>1, <2>2, <2>3, <2>4 DEF Broadcasting
<1>5. ASSUME NEW r \in Queue, Receive(r) PROVE open' = open
  BY <1>5 DEF Receive
<1> QED
  BY <1>1, <1>2, <1>3, <1>4, <1>5 DEF Next

\* What went through a queue went through it for good.
LEMMA ThroughStays ==
    ASSUME TypeOK, BusyInv, [Next]_vars
    PROVE  \A q \in Queue, d \in Delta : Through(q, d) => Through(q, d)'
<1>1. ASSUME NEW p \in Pub, NEW q \in Queue, Enqueue(q, cur[p]), got' = got, cur[p] \in Delta
      PROVE  \A r \in Queue, d \in Delta : Through(r, d) => Through(r, d)'
  BY <1>1, ThroughEnqueue
<1>2. ASSUME \A r \in Queue : Sent(r)' = Sent(r)
      PROVE  \A r \in Queue, d \in Delta : Through(r, d) => Through(r, d)'
  BY <1>2 DEF Through
<1>3. CASE UNCHANGED <<queue, got>>
  BY <1>2, <1>3 DEF Sent
<1>4. ASSUME NEW p \in Pub, TrySend(p)
      PROVE  UNCHANGED <<queue, got>>
             \/ (got' = got /\ cur[p] \in Delta /\ \E q \in Queue : Enqueue(q, cur[p]))
  BY <1>4 DEF TrySend, BusyInv, TypeOK, Target
<1>5. ASSUME NEW p \in Pub, Await(p)
      PROVE  UNCHANGED <<queue, got>>
             \/ (got' = got /\ cur[p] \in Delta /\ \E q \in Queue : Enqueue(q, cur[p]))
  BY <1>5 DEF Await, BusyInv, Target
<1>6. CASE \A p \in Pub : ~TrySend(p) /\ ~Await(p)
  BY <1>2, <1>6, SentKept
<1> QED
  BY <1>1, <1>3, <1>4, <1>5, <1>6

\* While publisher p stays where it is, no target of its is passed by.
LEMMA DurableKept ==
    ASSUME TypeOK, BusyInv, TargetInv, [Next]_vars, NEW p \in Pub, DurableOf(p),
           pc'[p] = pc[p], cur'[p] = cur[p], todo'[p] = todo[p], at'[p] = at[p], aim'[p] = aim[p]
    PROVE  DurableOf(p)'
<1> SUFFICES ASSUME cur[p] # None, cur[p].durable, pc[p] \notin {"recent", "targets"},
                    NEW t \in aim[p], t \notin todo[p], ~(pc[p] = "wait" /\ t = at[p]), open'[t.queue]
             PROVE  Through(t.queue, cur[p])'
  BY DEF DurableOf, Through, Sent
<1>1. t.queue \in Queue /\ cap[t.queue] # 0 /\ cur[p] \in Delta
  BY DEF TypeOK, TargetInv, Target
<1>2. open[t.queue]
  BY <1>1, ClosedStays
<1>3. Through(t.queue, cur[p])
  BY <1>2 DEF DurableOf
<1> QED
  BY <1>1, <1>3, ThroughStays

\* Every step takes durable deltas through, if no request is dropped.
LEMMA DurableStep ==
    ~Cancels /\ TypeOK /\ BusyInv /\ TargetInv /\ DurableInv /\ [Next]_vars => DurableInv'
<1> SUFFICES ASSUME ~Cancels, TypeOK, BusyInv, TargetInv, DurableInv, [Next]_vars
             PROVE  DurableInv'
  OBVIOUS
<1> USE DEF tables, mpsc, local, Goto, NextTarget, BusyWith, Label
<1>1. ASSUME UNCHANGED local PROVE DurableInv'
  BY <1>1, DurableKept DEF DurableInv
<1>2. ASSUME NEW p \in Pub, DurableOf(p)',
             \A r \in Pub : r # p => /\ pc'[r] = pc[r] /\ cur'[r] = cur[r] /\ todo'[r] = todo[r]
                                     /\ at'[r] = at[r] /\ aim'[r] = aim[r]
      PROVE  DurableInv'
  <2>1. ASSUME NEW r \in Pub, r # p PROVE DurableOf(r)'
    BY <1>2, <2>1, DurableKept DEF DurableInv
  <2> QED
    BY <1>2, <2>1 DEF DurableInv
<1>3. ASSUME NEW p \in Pub, UpdateChannel(p) PROVE DurableInv'
  <2>1. PICK delta \in Delta : cur' = [cur EXCEPT ![p] = delta]
    BY <1>3, UpdateEffect
  <2>2. /\ pc' = [pc EXCEPT ![p] = "recent"] /\ aim' = [aim EXCEPT ![p] = {}]
        /\ UNCHANGED <<todo, at>>
    BY <1>3 DEF UpdateChannel
  <2>3. DurableOf(p)'
    BY <2>2 DEF DurableOf, TypeOK
  <2> QED
    BY <1>2, <2>1, <2>2, <2>3 DEF TypeOK
<1>4. ASSUME NEW p \in Pub, PushRecent(p) PROVE DurableInv'
  <2>1. pc' = [pc EXCEPT ![p] = "targets"] /\ UNCHANGED <<cur, todo, at, aim>>
    BY <1>4 DEF PushRecent
  <2>2. DurableOf(p)'
    BY <2>1 DEF DurableOf, TypeOK
  <2> QED
    BY <1>2, <2>1, <2>2 DEF TypeOK
<1>5. ASSUME NEW p \in Pub, FindTargets(p) PROVE DurableInv'
  <2>1. PICK found : /\ todo' = [todo EXCEPT ![p] = found] /\ aim' = [aim EXCEPT ![p] = todo'[p]]
                     /\ pc' = [pc EXCEPT ![p] = "send"] /\ UNCHANGED <<cur, at>>
    BY <1>5 DEF FindTargets
  <2>2. aim'[p] = todo'[p] /\ pc'[p] = "send"
    BY <2>1 DEF TypeOK
  <2>3. DurableOf(p)'
    BY <2>2 DEF DurableOf
  <2> QED
    BY <1>2, <2>1, <2>3 DEF TypeOK
<1>6. ASSUME NEW p \in Pub, TrySend(p) PROVE DurableInv'
  <2>1. PICK t \in todo[p] :
          /\ pc[p] = "send" /\ todo' = [todo EXCEPT ![p] = @ \ {t}]
          /\ \/ Enqueue(t.queue, cur[p]) /\ UNCHANGED <<pc, at>>
             \/ BusyWith(p, t, "wait")
             \/ ~cur[p].durable /\ BusyWith(p, t, "drop")
             \/ ~open[t.queue] /\ BusyWith(p, t, "remove")
          /\ UNCHANGED <<open, got, cur, aim>>
    BY <1>6 DEF TrySend
  <2>2. t.queue \in Queue /\ cur[p] \in Delta /\ aim[p] \subseteq Target
    BY <2>1 DEF TypeOK, Target, BusyInv
  <2>3. todo'[p] = todo[p] \ {t} /\ cur'[p] = cur[p] /\ aim'[p] = aim[p]
    BY <2>1 DEF TypeOK
  <2>4. \A u \in aim[p] : u.queue \in Queue
    BY <2>2 DEF Target
  <2>5. cur[p].durable => \A u \in aim[p] : u \in todo[p] \/ (open[u.queue] => Through(u.queue, cur[p]))
    BY <2>1, <2>2, NoneAssumption DEF DurableInv, DurableOf
  <2>6. cur[p].durable => \A u \in aim[p] : u \in todo[p] \/ (open'[u.queue] => Through(u.queue, cur[p])')
    <3>1. \A q \in Queue : Through(q, cur[p]) => \E i \in 1..Len(Sent(q)') : Sent(q)'[i] = cur[p]
      BY <2>2, ThroughStays DEF Through
    <3>2. \A q \in Queue : Through(q, cur[p]) => Through(q, cur[p])'
      BY <2>1, <3>1 DEF Through
    <3> QED
      BY <2>1, <2>4, <2>5, <3>2
  <2>7. CASE Enqueue(t.queue, cur[p]) /\ UNCHANGED <<pc, at>>
    <3>1. Through(t.queue, cur[p])'
      <4>1. \E i \in 1..Len(Sent(t.queue)') : Sent(t.queue)'[i] = cur[p]
        BY <2>1, <2>2, <2>7, ThroughEnqueue DEF Through
      <4> QED
        BY <2>1, <4>1 DEF Through
    <3> QED
      BY <1>2, <2>1, <2>3, <2>6, <2>7, <3>1 DEF DurableOf, TypeOK
  <2>8. CASE BusyWith(p, t, "wait")
    <3>1. pc'[p] = "wait" /\ at'[p] = t
      BY <2>8 DEF TypeOK
    <3>2. DurableOf(p)'
      BY <2>3, <2>6, <3>1 DEF DurableOf
    <3> QED
      BY <1>2, <2>1, <2>8, <3>2 DEF TypeOK
  <2>9. CASE ~cur[p].durable /\ BusyWith(p, t, "drop")
    <3>1. DurableOf(p)'
      BY <2>3, <2>9 DEF DurableOf
    <3> QED
      BY <1>2, <2>1, <2>9, <3>1 DEF TypeOK
  <2>10. CASE ~open[t.queue] /\ BusyWith(p, t, "remove")
    <3>1. pc'[p] = "remove" /\ ~open'[t.queue]
      BY <2>1, <2>10 DEF TypeOK
    <3>2. DurableOf(p)'
      BY <2>3, <2>6, <3>1 DEF DurableOf
    <3> QED
      BY <1>2, <2>1, <2>10, <3>2 DEF TypeOK
  <2> QED
    BY <2>1, <2>7, <2>8, <2>9, <2>10
<1>7. ASSUME NEW p \in Pub, Await(p) PROVE DurableInv'
  <2>1. PICK t \in Target : t = at[p]
    BY <1>7 DEF Await, BusyInv
  <2>2. /\ pc[p] = "wait" /\ pc' = [pc EXCEPT ![p] = "send"] /\ at' = [at EXCEPT ![p] = None]
        /\ \/ Enqueue(t.queue, cur[p])
           \/ ~open[t.queue]
        /\ UNCHANGED <<open, got, cur, todo, aim>>
    BY <1>7, <2>1 DEF Await
  <2>3. t.queue \in Queue /\ cur[p] \in Delta /\ aim[p] \subseteq Target
    BY <2>2 DEF TypeOK, Target, BusyInv
  <2>4. open'[t.queue] => Through(t.queue, cur[p])'
    <3>1. Enqueue(t.queue, cur[p]) => \E i \in 1..Len(Sent(t.queue)') : Sent(t.queue)'[i] = cur[p]
      BY <2>2, <2>3, ThroughEnqueue DEF Through
    <3> QED
      BY <2>2, <3>1 DEF Through
  <2>5. \A q \in Queue : Through(q, cur[p]) => Through(q, cur[p])'
    <3>1. \A q \in Queue : Through(q, cur[p]) => \E i \in 1..Len(Sent(q)') : Sent(q)'[i] = cur[p]
      BY <2>3, ThroughStays DEF Through
    <3> QED
      BY <2>2, <3>1 DEF Through
  <2>6. \A u \in aim[p] : u.queue \in Queue
    BY <2>3 DEF Target
  <2>7. cur[p].durable => \A u \in aim[p] : u \in todo[p] \/ u = t \/ (open[u.queue] => Through(u.queue, cur[p]))
    BY <2>1, <2>2, <2>3, NoneAssumption DEF DurableInv, DurableOf
  <2>8. pc'[p] = "send"
    BY <2>2 DEF TypeOK
  <2>9. DurableOf(p)'
    BY <2>2, <2>4, <2>5, <2>6, <2>7, <2>8 DEF DurableOf
  <2> QED
    BY <1>2, <2>2, <2>9 DEF TypeOK
<1>8. ASSUME NEW p \in Pub, RecordDrop(p) \/ Unregister(p) \/ Finish(p) PROVE DurableInv'
  <2>1. PICK label \in {"send", "idle"} : pc' = [pc EXCEPT ![p] = label]
    BY <1>8 DEF RecordDrop, Unregister, Finish
  <2>2. /\ pc[p] \in {"drop", "remove", "send"} /\ UNCHANGED <<open, queue, got, cur, todo, aim>>
        /\ \A r \in Pub : r # p => at'[r] = at[r]
    BY <1>8 DEF RecordDrop, Unregister, Finish, TypeOK
  <2>3. pc'[p] = label
    BY <2>1 DEF TypeOK
  <2>4. \A q \in Queue : Through(q, cur[p])' = Through(q, cur[p])
    BY <2>2 DEF Through, Sent
  <2>5. \A u \in aim[p] : u.queue \in Queue
    BY DEF Target, TypeOK
  <2>6. DurableOf(p)
    BY DEF DurableInv
  <2>7. DurableOf(p)'
    BY <2>2, <2>3, <2>4, <2>5, <2>6 DEF DurableOf
  <2> QED
    BY <1>2, <2>1, <2>2, <2>7 DEF TypeOK
<1>9. \A p \in Pub : ~Cancel(p)
  BY DEF Cancel
<1> QED
  BY <1>1, <1>3, <1>4, <1>5, <1>6, <1>7, <1>8, <1>9
     DEF Next, Broadcasting, Subscribe, Receive, Close, vars
-----------------------------------------------------------------------------
(* The latest delta of a channel                                           *)

\* Publisher p has entered its delta in the table, as the latest of channel
\* c, but not yet in the list.
Unlisted(p, c) == pc[p] = "recent" /\ cur[p].chan = c

\* The latest delta of channel c either is on its way to the list, or what is
\* listed after it is one delta each of publishers that overtook its own.
LatestOf(c) ==
    LET d == chans[c].latest
        L == ListedAfterLatest(c)
    IN  d # None =>
          /\ d.chan = c
          /\ Unlisted(d.pub, c) => cur[d.pub] = d
          /\ \/ pc[d.pub] = "recent" /\ cur[d.pub] = d
             \/ /\ \A i \in L : recent[i].pub # d.pub /\ ~Unlisted(recent[i].pub, c)
                /\ \A i, j \in L : recent[i].pub = recent[j].pub => i = j

LatestInv == \A c \in Channel : LatestOf(c)

\* Listing a delta moves what was listed by one place, or not at all.
LEMMA PushEffect ==
    ASSUME TypeOK, BusyInv, NEW p \in Pub, PushRecent(p)
    PROVE  \E k \in {0, 1} :
               /\ Len(recent) - k \in Nat /\ Len(recent') = Len(recent) - k + 1
               /\ \A i \in 1..(Len(recent) - k) : recent'[i] = recent[i + k]
               /\ recent'[Len(recent')] = cur[p]
<1> DEFINE kept == IF Len(recent) = RecentCap THEN Tail(recent) ELSE recent
<1>1. recent \in Seq(Delta) /\ RecentCap \in Nat \ {0} /\ cur[p] \in Delta /\ Len(recent) \in Nat
  BY CapacityAssumption DEF TypeOK, BusyInv, PushRecent
<1>2. \E k \in {0, 1} : /\ Len(recent) - k \in Nat /\ kept \in Seq(Delta) /\ Len(kept) = Len(recent) - k
                        /\ \A i \in 1..(Len(recent) - k) : kept[i] = recent[i + k]
  <2>1. CASE Len(recent) = RecentCap
    <3>1. recent # <<>> /\ kept = Tail(recent)
      BY <1>1, <2>1
    <3>2. /\ Tail(recent) \in Seq(Delta) /\ Len(Tail(recent)) = Len(recent) - 1
          /\ \A i \in 1..Len(Tail(recent)) : Tail(recent)[i] = recent[i + 1]
      BY <1>1, <3>1, HeadTailProperties
    <3> HIDE DEF kept
    <3> QED
      BY <1>1, <2>1, <3>1, <3>2
  <2>2. CASE Len(recent) # RecentCap
    <3>1. kept = recent
      BY <2>2
    <3> HIDE DEF kept
    <3> QED
      BY <1>1, <3>1
  <2> QED
    BY <2>1, <2>2
<1>3. recent' = Append(kept, cur[p])
  BY DEF PushRecent
<1> HIDE DEF kept
<1>4. PICK k \in {0, 1} : /\ Len(recent) - k \in Nat /\ kept \in Seq(Delta) /\ Len(kept) = Len(recent) - k
                          /\ \A i \in 1..(Len(recent) - k) : kept[i] = recent[i + k]
  BY <1>2
<1>5. /\ Len(recent') = Len(kept) + 1 /\ recent'[Len(kept) + 1] = cur[p]
      /\ \A i \in 1..Len(kept) : recent'[i] = kept[i]
  BY <1>1, <1>3, <1>4, AppendProperties
<1> QED
  BY <1>4, <1>5

\* What is listed after the latest delta was so before, or was listed now.
LEMMA PushListed ==
    ASSUME TypeOK, BusyInv, NEW p \in Pub, PushRecent(p), NEW c \in Channel
    PROVE  \E k \in {0, 1} :
             \A i \in ListedAfterLatest(c)' :
               /\ i \in Int /\ cur[p] # chans[c].latest
               /\ \/ i = Len(recent') /\ recent'[i] = cur[p] /\ cur[p].chan = c
                  \/ i + k \in ListedAfterLatest(c) /\ recent'[i] = recent[i + k]
<1>1. PICK k \in {0, 1} :
         /\ Len(recent) - k \in Nat /\ Len(recent') = Len(recent) - k + 1
         /\ \A i \in 1..(Len(recent) - k) : recent'[i] = recent[i + k]
         /\ recent'[Len(recent')] = cur[p]
  BY PushEffect
<1>2. Len(recent) \in Nat /\ Len(recent') \in Nat /\ chans' = chans
  BY <1>1 DEF PushRecent, TypeOK
<1>3. SUFFICES ASSUME NEW i \in ListedAfterLatest(c)'
               PROVE  /\ i \in Int /\ cur[p] # chans[c].latest
                      /\ \/ i = Len(recent') /\ recent'[i] = cur[p] /\ cur[p].chan = c
                         \/ i + k \in ListedAfterLatest(c) /\ recent'[i] = recent[i + k]
  OBVIOUS
<1>4. /\ i \in 1..Len(recent') /\ recent'[i].chan = c
      /\ \A j \in i..Len(recent') : recent'[j] # chans[c].latest
  BY <1>2, <1>3 DEF ListedAfterLatest
<1>5. cur[p] # chans[c].latest
  <2>1. Len(recent') \in i..Len(recent')
    BY <1>2, <1>4
  <2> QED
    BY <1>1, <1>4, <2>1
<1>6. CASE i = Len(recent')
  BY <1>1, <1>4, <1>5, <1>6
<1>7. CASE i # Len(recent')
  <2>1. i \in 1..(Len(recent) - k) /\ recent'[i] = recent[i + k] /\ i + k \in 1..Len(recent)
    BY <1>1, <1>2, <1>4, <1>7
  <2>2. ASSUME NEW j \in (i + k)..Len(recent) PROVE recent[j] # chans[c].latest
    <3>1. k \in Int /\ i \in Nat \ {0} /\ j \in Int /\ i + k <= j /\ j <= Len(recent)
      BY <1>2, <2>1
    <3>2. j - k \in i..Len(recent') /\ j - k \in 1..(Len(recent) - k) /\ (j - k) + k = j
      BY <1>1, <1>2, <3>1
    <3>3. recent'[j - k] = recent[j]
      BY <1>1, <3>2
    <3> QED
      BY <1>4, <3>2, <3>3
  <2>3. i + k \in ListedAfterLatest(c)
    BY <1>4, <2>1, <2>2 DEF ListedAfterLatest
  <2> QED
    BY <1>4, <1>5, <2>1, <2>3
<1> QED
  BY <1>6, <1>7

\* Listing keeps the latest delta of every channel near the end of the list.
LEMMA LatestPush ==
    ASSUME TypeOK, BusyInv, OwnInv, LatestInv, NEW p \in Pub, PushRecent(p)
    PROVE  LatestInv'
<1>1. /\ pc[p] = "recent" /\ pc' = [pc EXCEPT ![p] = "targets"]
      /\ UNCHANGED <<chans, cur>>
  BY DEF PushRecent, Goto
<1>2. SUFFICES ASSUME NEW c \in Channel, chans[c].latest # None PROVE LatestOf(c)'
  BY <1>1 DEF LatestInv, LatestOf
<1> DEFINE d == chans[c].latest
           L == ListedAfterLatest(c)
<1>3. cur[p] \in Delta /\ cur[p].pub = p
  BY <1>1, NoneAssumption DEF BusyInv, OwnInv
<1>4. /\ d.chan = c
      /\ Unlisted(d.pub, c) => cur[d.pub] = d
      /\ \/ pc[d.pub] = "recent" /\ cur[d.pub] = d
         \/ /\ \A i \in L : recent[i].pub # d.pub /\ ~Unlisted(recent[i].pub, c)
            /\ \A i, j \in L : recent[i].pub = recent[j].pub => i = j
  BY <1>2 DEF LatestInv, LatestOf
<1>5. PICK k \in {0, 1} :
         \A i \in ListedAfterLatest(c)' :
           /\ i \in Int /\ cur[p] # d
           /\ \/ i = Len(recent') /\ recent'[i] = cur[p] /\ cur[p].chan = c
              \/ i + k \in L /\ recent'[i] = recent[i + k]
  BY PushListed
<1>6. d \in Delta /\ d.pub \in Pub /\ \A r \in Pub : pc'[r] = IF r = p THEN "targets" ELSE pc[r]
  BY <1>1, <1>2 DEF TypeOK, ChannelState, Delta
<1>7. \A r \in Pub : r # p => Unlisted(r, c)' = Unlisted(r, c)
  BY <1>1, <1>6 DEF Unlisted
<1>8. ~Unlisted(p, c)'
  BY <1>6 DEF Unlisted
<1>9. \A i \in L : recent[i] \in Delta /\ recent[i].pub \in Pub
  <2>1. \A i \in L : recent[i] \in Delta
    BY ElementOfSeq DEF ListedAfterLatest, TypeOK
  <2>2. \A e \in Delta : e.pub \in Pub
    BY DEF Delta
  <2> QED
    BY <2>1, <2>2
<1>10. d' = d /\ cur' = cur
  BY <1>1
<1> DEFINE M == ListedAfterLatest(c)'
<1> HIDE DEF d, L, M
<1>11. Unlisted(d.pub, c)' => cur[d.pub] = d
  BY <1>4, <1>6, <1>7, <1>8, <1>10, Zenon DEF Unlisted
<1>12. CASE pc[d.pub] = "recent" /\ cur[d.pub] = d /\ d.pub # p
  <2>1. pc'[d.pub] = "recent"
    BY <1>6, <1>12
  <2> QED
    BY <1>4, <1>10, <1>11, <1>12, <2>1 DEF LatestOf, Unlisted, d
<1>13. CASE cur[p] = d
  <2>1. M = {}
    BY <1>5, <1>13 DEF M
  <2> QED
    BY <1>4, <1>10, <1>11, <2>1 DEF LatestOf, d, M
<1>14. CASE cur[p] # d /\ ~(pc[d.pub] = "recent" /\ cur[d.pub] = d /\ d.pub # p)
  <2>1. /\ \A i \in L : recent[i].pub # d.pub /\ ~Unlisted(recent[i].pub, c)
        /\ \A i, j \in L : recent[i].pub = recent[j].pub => i = j
    BY <1>4, <1>14
  <2>2. cur[p].chan = c => d.pub # p /\ Unlisted(p, c)
    BY <1>1, <1>4, <1>14 DEF Unlisted
  <2>3. ASSUME NEW i \in M
        PROVE  \/ i = Len(recent') /\ recent'[i].pub = p /\ cur[p].chan = c
               \/ i + k \in L /\ recent'[i].pub = recent[i + k].pub
    BY <1>3, <1>5 DEF M
  <2>4. ASSUME NEW i \in M
        PROVE  /\ recent'[i].pub # d.pub
               /\ ~(pc'[recent'[i].pub] = "recent" /\ cur'[recent'[i].pub].chan = c)
    <3>1. CASE recent'[i].pub = p /\ cur[p].chan = c
      <4>1. pc'[p] # "recent"
        BY <1>6
      <4> QED
        BY <2>2, <3>1, <4>1
    <3>2. CASE i + k \in L /\ recent'[i].pub = recent[i + k].pub
      <4>1. PICK r \in Pub : r = recent[i + k].pub
        BY <1>9, <3>2
      <4>2. r # d.pub /\ ~Unlisted(r, c)
        BY <2>1, <3>2, <4>1
      <4>3. ~(pc'[r] = "recent" /\ cur'[r].chan = c)
        BY <1>7, <1>8, <4>2 DEF Unlisted
      <4>4. recent'[i].pub = r
        BY <3>2, <4>1
      <4> QED
        BY <4>2, <4>3, <4>4
    <3> QED
      BY <2>3, <3>1, <3>2
  <2>5. ASSUME NEW i \in M, NEW j \in M, recent'[i].pub = recent'[j].pub PROVE i = j
    <3>1. i \in Int /\ j \in Int /\ k \in Int
      BY <1>5 DEF M
    <3>2. CASE i + k \in L /\ j + k \in L /\ recent'[i].pub = recent[i + k].pub
                /\ recent'[j].pub = recent[j + k].pub
      <4>1. i + k = j + k
        BY <2>1, <2>5, <3>2
      <4> QED
        BY <3>1, <4>1
    <3>3. ASSUME NEW e \in L, recent[e].pub = p, cur[p].chan = c PROVE FALSE
      BY <2>1, <2>2, <3>3
    <3> QED
      BY <2>3, <2>5, <3>2, <3>3
  <2> QED
    BY <1>4, <1>10, <1>11, <2>4, <2>5 DEF LatestOf, Unlisted, d, M
<1> QED
  BY <1>12, <1>13, <1>14

\* A broadcast that begins enters its delta as the latest of its channel, and
\* leaves the other channels as they are.
LEMMA LatestUpdate ==
    ASSUME TypeOK, OwnInv, LatestInv, NEW p \in Pub, UpdateChannel(p)
    PROVE  LatestInv'
<1>1. PICK delta \in Delta, state \in ChannelState :
        /\ delta.pub = p /\ state.latest = delta
        /\ cur' = [cur EXCEPT ![p] = delta]
        /\ chans' = [chans EXCEPT ![delta.chan] = state]
  BY UpdateEffect
<1>2. pc[p] = "idle" /\ pc' = [pc EXCEPT ![p] = "recent"] /\ recent' = recent
  BY DEF UpdateChannel, Goto
<1>3. /\ cur'[p] = delta /\ pc'[p] = "recent" /\ delta.chan \in Channel
      /\ \A r \in Pub : r # p => cur'[r] = cur[r] /\ pc'[r] = pc[r]
  BY <1>1, <1>2 DEF TypeOK, Delta
<1>4. LatestOf(delta.chan)'
  <2>1. chans'[delta.chan].latest = delta
    BY <1>1, <1>3 DEF TypeOK
  <2> QED
    BY <1>1, <1>3, <2>1 DEF LatestOf
<1>5. ASSUME NEW c \in Channel, c # delta.chan, chans[c].latest # None PROVE LatestOf(c)'
  <2> DEFINE d == chans[c].latest
             L == ListedAfterLatest(c)
  <2>1. chans'[c] = chans[c] /\ L' = L /\ d' = d
    BY <1>1, <1>2, <1>5 DEF TypeOK, ListedAfterLatest
  <2>2. d \in Delta /\ d.pub \in Pub
    BY <1>5 DEF TypeOK, ChannelState, Delta
  <2>3. \A i \in L : recent[i].pub \in Pub
    <3>1. \A i \in L : recent[i] \in Delta
      BY ElementOfSeq DEF ListedAfterLatest, TypeOK
    <3>2. \A e \in Delta : e.pub \in Pub
      BY DEF Delta
    <3> QED
      BY <3>1, <3>2
  <2>4. /\ d.chan = c
        /\ Unlisted(d.pub, c) => cur[d.pub] = d
        /\ \/ pc[d.pub] = "recent" /\ cur[d.pub] = d
           \/ /\ \A i \in L : recent[i].pub # d.pub /\ ~Unlisted(recent[i].pub, c)
              /\ \A i, j \in L : recent[i].pub = recent[j].pub => i = j
    BY <1>5 DEF LatestInv, LatestOf
  <2>5. \A r \in Pub : Unlisted(r, c)' => r # p /\ Unlisted(r, c)
    BY <1>3, <1>5 DEF Unlisted
  <2> HIDE DEF d, L
  <2>6. Unlisted(d.pub, c)' => cur'[d.pub] = d
    <3>1. PICK r \in Pub : r = d.pub
      BY <2>2
    <3>2. Unlisted(r, c)' => cur'[r] = d
      BY <1>3, <2>4, <2>5, <3>1
    <3> QED
      BY <2>1, <3>1, <3>2 DEF Unlisted
  <2>7. CASE pc[d.pub] = "recent" /\ cur[d.pub] = d
    <3>1. pc'[d.pub] = "recent" /\ cur'[d.pub] = d
      BY <1>2, <1>3, <2>2, <2>7
    <3> QED
      BY <2>1, <2>4, <2>6, <3>1 DEF LatestOf, Unlisted, d
  <2>8. CASE /\ \A i \in L : recent[i].pub # d.pub /\ ~Unlisted(recent[i].pub, c)
             /\ \A i, j \in L : recent[i].pub = recent[j].pub => i = j
    <3>1. ASSUME NEW i \in L PROVE ~(pc'[recent[i].pub] = "recent" /\ cur'[recent[i].pub].chan = c)
      <4>1. PICK r \in Pub : r = recent[i].pub
        BY <2>3
      <4>2. ~Unlisted(r, c)'
        BY <2>5, <2>8, <4>1
      <4> QED
        BY <4>1, <4>2 DEF Unlisted
    <3> QED
      BY <1>2, <2>1, <2>4, <2>6, <2>8, <3>1 DEF LatestOf, Unlisted, d, L
  <2> QED
    BY <2>4, <2>7, <2>8
<1>6. \A c \in Channel : c # delta.chan => chans'[c] = chans[c]
  BY <1>1 DEF TypeOK
<1>7. \A c \in Channel : (c # delta.chan /\ chans[c].latest = None) => LatestOf(c)'
  BY <1>6 DEF LatestOf
<1> QED
  BY <1>4, <1>5, <1>7 DEF LatestInv

\* Every step keeps the latest delta of every channel near the end.
LEMMA LatestStep ==
    TypeOK /\ BusyInv /\ OwnInv /\ LatestInv /\ [Next]_vars => LatestInv'
<1> SUFFICES ASSUME TypeOK, BusyInv, OwnInv, LatestInv, [Next]_vars PROVE LatestInv'
  OBVIOUS
<1> USE DEF tables, mpsc, local, Goto, NextTarget, BusyWith, Label
<1>1. ASSUME UNCHANGED <<chans, recent, cur>>, NEW p \in Pub, pc[p] # "recent",
             NEW label \in Label \ {"recent"}, pc' = [pc EXCEPT ![p] = label]
      PROVE  LatestInv'
  <2>1. \A r : (pc'[r] = "recent") <=> (pc[r] = "recent")
    BY <1>1 DEF TypeOK
  <2> QED
    BY <1>1, <2>1 DEF LatestInv, LatestOf, Unlisted, ListedAfterLatest
<1>2. ASSUME UNCHANGED <<chans, recent, cur, pc>> PROVE LatestInv'
  BY <1>2 DEF LatestInv, LatestOf, Unlisted, ListedAfterLatest
<1>3. ASSUME NEW p \in Pub, TrySend(p) PROVE LatestInv'
  BY <1>1, <1>2, <1>3 DEF TrySend
<1>4. ASSUME NEW p \in Pub, FindTargets(p) \/ Await(p) \/ RecordDrop(p) \/ Unregister(p)
                             \/ Finish(p) \/ Cancel(p)
      PROVE  LatestInv'
  <2>1. pc[p] # "recent" /\ UNCHANGED <<chans, recent, cur>>
    BY <1>4 DEF FindTargets, Await, RecordDrop, Unregister, Finish, Cancel
  <2>2. \E label \in {"send", "idle"} : pc' = [pc EXCEPT ![p] = label]
    BY <1>4 DEF FindTargets, Await, RecordDrop, Unregister, Finish, Cancel
  <2> QED
    BY <1>1, <2>1, <2>2
<1> QED
  BY <1>2, <1>3, <1>4, LatestPush, LatestUpdate
     DEF Next, Broadcasting, Subscribe, Receive, Close, vars

\* With no broadcast under way, what is listed after a channel's latest delta
\* is of different publishers, none of them its own.
LEMMA LatestBound ==
    ASSUME TypeOK, LatestInv, \A p \in Pub : pc[p] = "idle", NEW c \in Channel, chans[c].latest # None
    PROVE  Cardinality(ListedAfterLatest(c)) < Cardinality(Pub)
<1> DEFINE d == chans[c].latest
           L == ListedAfterLatest(c)
           f == [i \in L |-> recent[i].pub]
<1>1. d \in Delta /\ d.pub \in Pub
  BY DEF TypeOK, ChannelState, Delta
<1>2. \A i \in L : recent[i].pub \in Pub
  <2>1. \A i \in L : recent[i] \in Delta
    BY ElementOfSeq DEF ListedAfterLatest, TypeOK
  <2>2. \A e \in Delta : e.pub \in Pub
    BY DEF Delta
  <2> QED
    BY <2>1, <2>2
<1>3. /\ \A i \in L : recent[i].pub # d.pub
      /\ \A i, j \in L : recent[i].pub = recent[j].pub => i = j
  BY <1>1 DEF LatestInv, LatestOf
<1>4. f \in Injection(L, Pub \ {d.pub})
  BY <1>2, <1>3 DEF Injection, IsInjective
<1>5. IsFiniteSet(Pub \ {d.pub}) /\ Cardinality(Pub \ {d.pub}) = Cardinality(Pub) - 1
  BY <1>1, PubAssumption, FS_RemoveElement
<1>6. Cardinality(Pub) \in Nat
  BY PubAssumption, FS_CardinalityType
<1> HIDE DEF d, L, f
<1>7. IsFiniteSet(L) /\ Cardinality(L) <= Cardinality(Pub \ {d.pub})
  BY <1>4, <1>5, FS_Injection
<1>8. Cardinality(L) \in Nat
  BY <1>7, FS_CardinalityType
<1> QED
  BY <1>5, <1>6, <1>7, <1>8 DEF L

-----------------------------------------------------------------------------
(* Counts                                                                  *)

\* How a delta is counted.
KindOf(delta) == IF delta.durable THEN "durable" ELSE "ephemeral"

\* The broadcasts of that kind which the channels count and the metrics do not
\* count yet.
UnderWay(kind) == {p \in Pub : pc[p] # "idle" /\ KindOf(cur[p]) = kind}

CountInv ==
    /\ metrics["deltas"] = metrics["durable"] + metrics["ephemeral"]
    /\ \A kind \in {"durable", "ephemeral"} :
         /\ IsFiniteSet(Counted(kind))
         /\ Cardinality(Counted(kind)) = metrics[kind] + Cardinality(UnderWay(kind))

\* The pairs that are counted, one by one.
LEMMA CountedPairs ==
    ASSUME NEW kind, NEW x
    PROVE  x \in Counted(kind) <=> \E c \in Channel : \E i \in 1..chans[c][kind] : x = <<c, i>>
BY DEF Counted

\* A broadcast that begins adds one pair to what is counted of its kind, and
\* is one more under way.
LEMMA CountBegin ==
    ASSUME TypeOK, NEW p \in Pub, UpdateChannel(p)
    PROVE  \E kind \in {"durable", "ephemeral"} : \E x :
               /\ x \notin Counted(kind) /\ Counted(kind)' = Counted(kind) \cup {x}
               /\ p \notin UnderWay(kind) /\ UnderWay(kind)' = UnderWay(kind) \cup {p}
               /\ \A other \in {"durable", "ephemeral"} \ {kind} :
                    Counted(other)' = Counted(other) /\ UnderWay(other)' = UnderWay(other)
<1> DEFINE n == IF cur[p] = None THEN 1 ELSE cur[p].n + 1
<1>1. PICK chan \in Channel, durable \in BOOLEAN :
        LET delta == [pub |-> p, n |-> n, chan |-> chan, durable |-> durable]
            state == chans[chan]
        IN  /\ cur' = [cur EXCEPT ![p] = delta]
            /\ chans' = [chans EXCEPT ![chan] =
                   [latest     |-> delta,
                    durable    |-> state.durable + (IF durable THEN 1 ELSE 0),
                    ephemeral  |-> state.ephemeral + (IF durable THEN 0 ELSE 1),
                    publishers |-> state.publishers \cup {p}]]
  BY ZenonT(60) DEF UpdateChannel
<1> HIDE DEF n
<1>2. pc[p] = "idle" /\ pc' = [pc EXCEPT ![p] = "recent"]
  BY DEF UpdateChannel, Goto
<1> DEFINE kind == IF durable THEN "durable" ELSE "ephemeral"
           k == chans[chan][kind] + 1
           Kinds == {"durable", "ephemeral"}
<1>3. \A c \in Channel : \A m \in Kinds : chans[c][m] \in Nat
  BY DEF TypeOK, ChannelState
<1>4. kind \in Kinds /\ k \in Nat
  BY <1>3
<1>5. /\ chans'[chan][kind] = k
      /\ \A m \in Kinds \ {kind} : chans'[chan][m] = chans[chan][m]
      /\ \A c \in Channel \ {chan} : chans'[c] = chans[c]
  BY <1>1, <1>3 DEF TypeOK
<1>6. KindOf(cur'[p]) = kind /\ pc'[p] # "idle"
  BY <1>1, <1>2 DEF TypeOK, KindOf
<1>7. \A r \in Pub \ {p} : cur'[r] = cur[r] /\ pc'[r] = pc[r]
  BY <1>1, <1>2 DEF TypeOK
<1> HIDE DEF kind, k
<1>8. <<chan, k>> \notin Counted(kind)
  BY <1>3, <1>4, CountedPairs DEF k
<1>9. Counted(kind)' = Counted(kind) \cup {<<chan, k>>}
  <2>1. ASSUME NEW x PROVE x \in Counted(kind)' <=> x \in Counted(kind) \cup {<<chan, k>>}
    <3>1. x \in Counted(kind)' <=> \E c \in Channel : \E i \in 1..chans'[c][kind] : x = <<c, i>>
      BY DEF Counted
    <3>2. x \in Counted(kind) <=> \E c \in Channel : \E i \in 1..chans[c][kind] : x = <<c, i>>
      BY CountedPairs
    <3>3. \A i \in Int : i \in 1..k <=> i \in 1..chans[chan][kind] \/ i = k
      BY <1>3, <1>4 DEF k
    <3> QED
      BY <1>3, <1>4, <1>5, <3>1, <3>2, <3>3
  <2> QED
    BY <2>1
<1>10. ASSUME NEW m \in Kinds \ {kind} PROVE Counted(m)' = Counted(m)
  BY <1>5 DEF Counted
<1>11. p \notin UnderWay(kind) /\ UnderWay(kind)' = UnderWay(kind) \cup {p}
  BY <1>2, <1>6, <1>7 DEF UnderWay
<1>12. ASSUME NEW m \in Kinds \ {kind} PROVE UnderWay(m)' = UnderWay(m)
  BY <1>2, <1>6, <1>7 DEF UnderWay
<1> QED
  BY <1>4, <1>8, <1>9, <1>10, <1>11, <1>12

\* Every step keeps the counts together, if no request is dropped.
LEMMA CountStep ==
    ~Cancels /\ TypeOK /\ CountInv /\ [Next]_vars => CountInv'
<1> SUFFICES ASSUME ~Cancels, TypeOK, CountInv, [Next]_vars PROVE CountInv'
  OBVIOUS
<1> DEFINE Kinds == {"durable", "ephemeral"}
<1> USE DEF tables, mpsc, local, Goto, NextTarget, BusyWith, Label
<1>1. \A kind \in Kinds : IsFiniteSet(UnderWay(kind)) /\ Cardinality(UnderWay(kind)) \in Nat
  BY PubAssumption, FS_Subset, FS_CardinalityType DEF UnderWay
<1>2. ASSUME UNCHANGED <<chans, cur>>, NEW p \in Pub, pc[p] # "idle",
             NEW label \in Label \ {"idle"}, pc' = [pc EXCEPT ![p] = label],
             \A m \in Counter \ {"dropped"} : metrics'[m] = metrics[m]
      PROVE  CountInv'
  <2>1. \A r \in Pub : (pc'[r] = "idle") <=> (pc[r] = "idle")
    BY <1>2 DEF TypeOK
  <2>2. \A kind \in Kinds : UnderWay(kind)' = UnderWay(kind) /\ Counted(kind)' = Counted(kind)
    BY <1>2, <2>1 DEF UnderWay, Counted
  <2> QED
    BY <1>2, <2>2 DEF CountInv, Counter
<1>3. ASSUME UNCHANGED <<chans, cur, pc, metrics>> PROVE CountInv'
  BY <1>3 DEF CountInv, UnderWay, Counted
<1>4. ASSUME NEW p \in Pub, UpdateChannel(p) PROVE CountInv'
  <2>1. PICK kind \in Kinds : \E x :
               /\ x \notin Counted(kind) /\ Counted(kind)' = Counted(kind) \cup {x}
               /\ p \notin UnderWay(kind) /\ UnderWay(kind)' = UnderWay(kind) \cup {p}
               /\ \A other \in Kinds \ {kind} :
                    Counted(other)' = Counted(other) /\ UnderWay(other)' = UnderWay(other)
    BY <1>4, CountBegin
  <2>2. metrics' = metrics
    BY <1>4 DEF UpdateChannel
  <2>3. /\ IsFiniteSet(Counted(kind)')
        /\ Cardinality(Counted(kind)') = Cardinality(Counted(kind)) + 1
    BY <2>1, FS_AddElement DEF CountInv
  <2>4. Cardinality(UnderWay(kind)') = Cardinality(UnderWay(kind)) + 1
    BY <1>1, <2>1, FS_AddElement
  <2>5. metrics[kind] \in Nat
    BY DEF TypeOK, Counter
  <2>6. /\ IsFiniteSet(Counted(kind)')
        /\ Cardinality(Counted(kind)') = metrics'[kind] + Cardinality(UnderWay(kind)')
    BY <1>1, <2>2, <2>3, <2>4, <2>5 DEF CountInv
  <2> QED
    BY <2>1, <2>2, <2>6 DEF CountInv
<1>5. ASSUME NEW p \in Pub, Finish(p) PROVE CountInv'
  <2>1. PICK kind : kind = KindOf(cur[p])
    OBVIOUS
  <2>2. kind \in Kinds
    BY <2>1 DEF KindOf
  <2>3. /\ pc[p] = "send" /\ pc' = [pc EXCEPT ![p] = "idle"] /\ chans' = chans /\ cur' = cur
        /\ Count({"deltas", kind})
    BY <1>5, <2>1 DEF Finish, KindOf
  <2>4. p \in UnderWay(kind) /\ UnderWay(kind)' = UnderWay(kind) \ {p}
    BY <2>1, <2>3 DEF UnderWay, TypeOK
  <2>5. \A m \in Kinds \ {kind} : UnderWay(m)' = UnderWay(m)
    BY <2>1, <2>3 DEF UnderWay, TypeOK
  <2>6. \A m \in Kinds : Counted(m)' = Counted(m)
    BY <2>3 DEF Counted
  <2>7. Cardinality(UnderWay(kind)') = Cardinality(UnderWay(kind)) - 1
    BY <1>1, <2>2, <2>4, FS_RemoveElement
  <2>8. /\ metrics'["deltas"] = metrics["deltas"] + 1 /\ metrics'[kind] = metrics[kind] + 1
        /\ \A m \in Kinds \ {kind} : metrics'[m] = metrics[m]
        /\ \A m \in Counter : metrics[m] \in Nat
    BY <2>2, <2>3 DEF Count, Counter, TypeOK
  <2>9. metrics'["deltas"] = metrics'["durable"] + metrics'["ephemeral"]
    BY <2>2, <2>8 DEF CountInv, Counter
  <2>10. Cardinality(Counted(kind)') = metrics'[kind] + Cardinality(UnderWay(kind)')
    BY <1>1, <2>2, <2>6, <2>7, <2>8 DEF CountInv, Counter
  <2> QED
    BY <2>5, <2>6, <2>8, <2>9, <2>10 DEF CountInv
<1>6. ASSUME NEW p \in Pub, TrySend(p) PROVE CountInv'
  BY <1>2, <1>3, <1>6 DEF TrySend, Counter
<1>7. ASSUME NEW p \in Pub, PushRecent(p) \/ FindTargets(p) \/ Await(p) \/ RecordDrop(p)
                              \/ Unregister(p)
      PROVE  CountInv'
  <2>1. pc[p] # "idle" /\ UNCHANGED <<chans, cur>>
    BY <1>7 DEF PushRecent, FindTargets, Await, RecordDrop, Unregister
  <2>2. \E label \in {"targets", "send"} : pc' = [pc EXCEPT ![p] = label]
    BY <1>7 DEF PushRecent, FindTargets, Await, RecordDrop, Unregister
  <2>3. \A m \in Counter \ {"dropped"} : metrics'[m] = metrics[m]
    BY <1>7 DEF PushRecent, FindTargets, Await, RecordDrop, Unregister, Count, Counter
  <2> QED
    BY <1>2, <2>1, <2>2, <2>3
<1> QED
  BY <1>3, <1>4, <1>5, <1>6, <1>7
     DEF Next, Broadcasting, Subscribe, Receive, Close, Cancel, vars

\* Nothing is counted in the beginning.
LEMMA CountInit == Init => CountInv
<1> SUFFICES ASSUME Init PROVE CountInv
  OBVIOUS
<1>1. ASSUME NEW kind \in {"durable", "ephemeral"}
      PROVE  Counted(kind) = {} /\ UnderWay(kind) = {}
  <2>1. \A c \in Channel : chans[c][kind] = 0
    BY DEF Init
  <2> QED
    BY <2>1 DEF Init, Counted, UnderWay
<1>2. IsFiniteSet({}) /\ Cardinality({}) = 0
  BY FS_EmptySet
<1>3. \A m \in Counter : metrics[m] = 0
  BY DEF Init
<1> QED
  BY <1>1, <1>2, <1>3 DEF CountInv, Counter

-----------------------------------------------------------------------------
(* Theorems                                                                *)

\* What holds in every reachable state, whether or not requests are dropped.
BusInv == TypeOK /\ BusyInv /\ TargetInv /\ OwnInv /\ OrderInv /\ LatestInv

\* It holds in the beginning.
LEMMA InitInv == Init => BusInv /\ DurableInv
<1> SUFFICES ASSUME Init PROVE BusInv /\ DurableInv
  OBVIOUS
<1>1. TypeOK
  BY TypeInit
<1>2. BusyInv /\ TargetInv /\ OwnInv
  BY NoneAssumption DEF Init, BusyInv, TargetInv, OwnInv
<1>3. \A q \in Queue : Len(Sent(q)) = 0
  BY DEF Init, Sent
<1>4. OrderInv
  BY <1>3 DEF OrderInv, PublisherOrder
<1>5. LatestInv
  BY DEF Init, LatestInv, LatestOf
<1>6. DurableInv
  BY DEF Init, DurableInv, DurableOf
<1> QED
  BY <1>1, <1>2, <1>4, <1>5, <1>6 DEF BusInv

\* It always holds.
LEMMA Invariance == Spec => []BusInv
<1>1. BusInv /\ [Next]_vars => BusInv'
  BY TypeStep, BusyStep, TargetStep, OwnStep, OrderStep, LatestStep DEF BusInv
<1> QED
  BY InitInv, <1>1, PTL DEF Spec

\* Every variable keeps to its values: no queue ever holds more than the
\* capacity its subscriber was granted, nor the recent list more than its own.
THEOREM BusTypes == Spec => []TypeOK
<1>1. BusInv => TypeOK
  BY DEF BusInv
<1> QED
  BY Invariance, <1>1, PTL

\* Per-subscriber queues (bus/mod.rs, broadcast): each gets the deltas of one
\* publisher in their order and none twice, however broadcasts overlap, wait
\* or are dropped half way.
THEOREM BusOrder == Spec => []PublisherOrder
<1>1. BusInv => PublisherOrder
  BY DEF BusInv, OrderInv
<1> QED
  BY Invariance, <1>1, PTL

\* Two locks for the channel table and the recent list (update_channel,
\* push_recent): between broadcasts they differ by less than one delta per
\* publisher.
THEOREM BusLatest == Spec => []LatestNearEnd
<1>1. BusInv => LatestNearEnd
  BY LatestBound DEF BusInv, LatestNearEnd
<1> QED
  BY Invariance, <1>1, PTL

\* "durable commit notices are sent through" (broadcast): unless the request
\* itself is dropped, every target it found and that stayed has the notice
\* when it returns.
THEOREM BusDurable == ~Cancels => (Spec => []DurableSentThrough)
<1> SUFFICES ASSUME ~Cancels PROVE Spec => []DurableSentThrough
  OBVIOUS
<1>1. BusInv /\ DurableInv /\ [Next]_vars => DurableInv'
  BY DurableStep DEF BusInv
<1>2. BusInv /\ DurableInv => DurableSentThrough
  BY DEF BusInv, TargetInv, DurableInv, DurableOf, DurableSentThrough, Through
<1> QED
  BY InitInv, Invariance, <1>1, <1>2, PTL DEF Spec

\* The metrics are counted after a broadcast, the channels before it: between
\* broadcasts they agree, if no request is dropped.
THEOREM BusCounts == ~Cancels => (Spec => []CountsAgree)
<1> SUFFICES ASSUME ~Cancels PROVE Spec => []CountsAgree
  OBVIOUS
<1>1. BusInv /\ CountInv /\ [Next]_vars => CountInv'
  BY CountStep DEF BusInv
<1>2. BusInv /\ CountInv => CountsAgree
  <2> SUFFICES ASSUME TypeOK, CountInv, \A p \in Pub : pc[p] = "idle",
                      NEW kind \in {"durable", "ephemeral"}
               PROVE  metrics[kind] = Cardinality(Counted(kind))
    BY DEF BusInv, CountInv, CountsAgree
  <2>1. UnderWay(kind) = {}
    BY DEF UnderWay
  <2>2. Cardinality(UnderWay(kind)) = 0
    BY <2>1, FS_EmptySet
  <2> QED
    BY <2>2 DEF CountInv, TypeOK, Counter
<1> QED
  BY InitInv, Invariance, CountInit, <1>1, <1>2, PTL DEF Spec
=============================================================================
