---------------------------- MODULE PollingProofs ----------------------------
(***************************************************************************)
(* Proofs about Polling: what the clients that poll the recent list show,  *)
(* for any length of the list and any pushes, restarts and repeated ids.   *)
(***************************************************************************)
EXTENDS Polling, FiniteSetTheorems, SequenceTheorems, TLAPS

-----------------------------------------------------------------------------
(* The inductive invariant                                                 *)

PollTypes ==
    /\ recent \in Seq(DeltaInfo) /\ pushes \in 0..MaxPushes
    /\ reader \in {"none", "sdk", "cli"}
    /\ left \in Seq(DeltaInfo) /\ seen \subseteq DeltaId /\ count \in Nat
    /\ shown \in Seq(DeltaInfo) /\ offered \subseteq DeltaInfo /\ lost \in BOOLEAN

\* The list is in order.  A client before its first poll knows nothing.
ListInv ==
    /\ InOrder(recent) /\ \A u \in Range(recent) : u.at <= pushes
    /\ reader = "none" =>
          left = <<>> /\ seen = {} /\ count = 0 /\ shown = <<>> /\ offered = {}

\* What an answer did not have was pushed after all it had.
OfferedInv ==
    /\ \A u \in offered : u.at <= pushes /\ u.channel = Watched
    /\ \A u \in Matching \ offered, v \in offered : v.at < u.at

ShownInv ==
    /\ InOrder(left) /\ Range(left) \subseteq offered
    /\ InOrder(shown) /\ Range(shown) \subseteq offered

\* What an SDK has still to look at has been shown by its id, or is later
\* than all it has shown.
SdkInv ==
    reader = "sdk" =>
        /\ seen = Ids(Range(shown)) /\ Ids(offered) = seen \cup Ids(Range(left))
        /\ \A u \in Range(left) : u.id \in seen \/ \A v \in Range(shown) : v.at < u.at
        /\ \A i, j \in DOMAIN shown : shown[i].id = shown[j].id => i = j

\* The command line counts at least what is left in the list of what it was
\* answered; and exactly that, as long as nothing has left the list.
CliInv ==
    reader = "cli" =>
        /\ \A u \in Range(left), v \in Range(shown) : v.at < u.at
        /\ IsFiniteSet(Matching \cap offered) /\ Cardinality(Matching \cap offered) <= count
        /\ ~lost => /\ offered \subseteq Matching /\ count = Cardinality(offered)
                    /\ Range(shown) \cup Range(left) = offered

PollInv == PollTypes /\ ListInv /\ OfferedInv /\ ShownInv /\ SdkInv /\ CliInv

-----------------------------------------------------------------------------
(* Sequences of entries                                                    *)

\* The places and the elements of a sequence.
LEMMA Places ==
    ASSUME NEW S, NEW s \in Seq(S)
    PROVE  /\ Len(s) \in Nat /\ DOMAIN s = 1..Len(s)
           /\ \A i \in 1..Len(s) : s[i] \in S /\ s[i] \in Range(s)
           /\ \A x \in Range(s) : x \in S /\ \E i \in 1..Len(s) : s[i] = x
           /\ s \in [1..Len(s) -> Range(s)]
<1>1. Len(s) \in Nat /\ DOMAIN s = 1..Len(s) /\ \A i \in 1..Len(s) : s[i] \in S
  OBVIOUS
<1>2. \A i \in 1..Len(s) : s[i] \in Range(s)
  BY <1>1 DEF Range
<1>3. \A x \in Range(s) : \E i \in 1..Len(s) : s[i] = x
  BY <1>1 DEF Range
<1>4. s = [i \in 1..Len(s) |-> s[i]]
  BY <1>1
<1> QED
  BY <1>1, <1>2, <1>3, <1>4

\* A sequence in order stays so when something later is added at its end.
LEMMA OrderAppend ==
    ASSUME NEW s \in Seq(DeltaInfo), InOrder(s), NEW e \in DeltaInfo, \A v \in Range(s) : v.at < e.at,
           NEW t, t = Append(s, e)
    PROVE  t \in Seq(DeltaInfo) /\ InOrder(t) /\ Range(t) = Range(s) \cup {e}
<1>1. /\ t \in Seq(DeltaInfo) /\ Len(t) = Len(s) + 1
      /\ \A i \in 1..Len(s) : t[i] = s[i]
      /\ t[Len(s) + 1] = e /\ Len(s) \in Nat
  OBVIOUS
<1>2. DOMAIN s = 1..Len(s) /\ DOMAIN t = 1..(Len(s) + 1)
      /\ 1..(Len(s) + 1) = 1..Len(s) \cup {Len(s) + 1}
  BY <1>1
<1>3. Range(t) = Range(s) \cup {e}
  BY <1>1, <1>2 DEF Range
<1>4. ASSUME NEW i \in DOMAIN t, NEW j \in DOMAIN t, i < j PROVE t[i].at < t[j].at
  <2>1. i \in 1..Len(s)
    BY <1>1, <1>2, <1>4
  <2>2. CASE j \in 1..Len(s)
    BY <1>1, <1>2, <1>4, <2>1, <2>2 DEF InOrder
  <2>3. CASE j = Len(s) + 1
    BY <1>1, <1>2, <2>1, <2>3 DEF Range
  <2> QED
    BY <1>2, <2>2, <2>3
<1> QED
  BY <1>1, <1>3, <1>4 DEF InOrder

\* The head of a sequence in order is before its tail, which is in order.
LEMMA OrderTail ==
    ASSUME NEW s \in Seq(DeltaInfo), s # <<>>, InOrder(s)
    PROVE  /\ Head(s) \in DeltaInfo /\ Tail(s) \in Seq(DeltaInfo) /\ InOrder(Tail(s))
           /\ Range(s) = {Head(s)} \cup Range(Tail(s))
           /\ \A v \in Range(Tail(s)) : Head(s).at < v.at
<1>1. /\ Len(s) \in Nat \ {0} /\ Head(s) = s[1] /\ Head(s) \in DeltaInfo /\ Tail(s) \in Seq(DeltaInfo)
      /\ Len(Tail(s)) = Len(s) - 1
      /\ \A i \in 1..(Len(s) - 1) : Tail(s)[i] = s[i + 1]
  OBVIOUS
<1>2. DOMAIN s = 1..Len(s) /\ DOMAIN Tail(s) = 1..(Len(s) - 1)
  BY <1>1
<1>3. InOrder(Tail(s))
  <2>1. ASSUME NEW i \in DOMAIN Tail(s), NEW j \in DOMAIN Tail(s), i < j
        PROVE  Tail(s)[i].at < Tail(s)[j].at
    <3>1. i + 1 \in DOMAIN s /\ j + 1 \in DOMAIN s /\ i + 1 < j + 1
      BY <1>1, <1>2, <2>1
    <3> QED
      BY <1>1, <1>2, <3>1 DEF InOrder
  <2> QED
    BY <2>1 DEF InOrder
<1>4. ASSUME NEW v \in Range(Tail(s)) PROVE v \in Range(s) /\ Head(s).at < v.at
  <2>1. PICK i \in 1..(Len(s) - 1) : Tail(s)[i] = v
    BY <1>2 DEF Range
  <2>2. i + 1 \in DOMAIN s /\ 1 \in DOMAIN s /\ 1 < i + 1 /\ v = s[i + 1]
    BY <1>1, <1>2, <2>1
  <2> QED
    BY <1>1, <2>2 DEF InOrder, Range
<1>5. ASSUME NEW x \in Range(s) PROVE x \in {Head(s)} \cup Range(Tail(s))
  <2>1. PICK i \in 1..Len(s) : s[i] = x
    BY <1>2 DEF Range
  <2>2. i = 1 \/ (i - 1 \in 1..(Len(s) - 1) /\ Tail(s)[i - 1] = x)
    BY <1>1, <2>1
  <2> QED
    BY <1>1, <1>2, <2>1, <2>2 DEF Range
<1>6. Head(s) \in Range(s)
  BY <1>1, <1>2 DEF Range
<1> QED
  BY <1>1, <1>3, <1>4, <1>5, <1>6

\* So are the elements beyond the k-th.
LEMMA OrderSkip ==
    ASSUME NEW s \in Seq(DeltaInfo), InOrder(s), NEW k \in Nat,
           NEW t, t = SubSeq(s, k + 1, Len(s))
    PROVE  /\ t \in Seq(DeltaInfo) /\ InOrder(t)
           /\ Range(t) = {s[j] : j \in (k + 1)..Len(s)}
<1>1. Len(s) \in Nat /\ DOMAIN s = 1..Len(s) /\ \A i \in 1..Len(s) : s[i] \in DeltaInfo
  OBVIOUS
<1>2. \A i \in (k + 1)..Len(s) : s[i] \in DeltaInfo
  BY <1>1
<1>3. /\ t \in Seq(DeltaInfo)
      /\ Len(t) = IF k + 1 <= Len(s) THEN Len(s) - (k + 1) + 1 ELSE 0
      /\ \A i \in 1..(Len(s) - (k + 1) + 1) : t[i] = s[k + 1 + i - 1]
  BY <1>1, <1>2, SubSeqProperties
<1>4. DOMAIN t = 1..Len(t) /\ Len(t) \in Nat
  BY <1>3
<1>5. ASSUME NEW i \in DOMAIN t PROVE t[i] = s[k + i] /\ k + i \in (k + 1)..Len(s)
  <2> DEFINE n == Len(s)
  <2>0. i \in Nat /\ i >= 1 /\ i <= Len(t)
    BY <1>4
  <2>a. n \in Nat /\ Len(t) = IF k + 1 <= n THEN n - (k + 1) + 1 ELSE 0
    BY <1>1, <1>3
  <2>1. i \in 1..(Len(s) - (k + 1) + 1) /\ k + 1 + i - 1 = k + i
    <3> HIDE DEF n
    <3>1. i \in 1..(n - (k + 1) + 1) /\ k + 1 + i - 1 = k + i
      BY <2>0, <2>a
    <3> QED
      BY <3>1 DEF n
  <2>2. k + i \in (k + 1)..Len(s)
    BY <1>1, <2>1
  <2> QED
    BY <1>3, <2>1, <2>2
<1>6. ASSUME NEW i \in DOMAIN t, NEW j \in DOMAIN t, i < j PROVE t[i].at < t[j].at
  <2>1. k + i \in 1..Len(s) /\ k + j \in 1..Len(s) /\ k + i < k + j
    <3>1. k + i \in (k + 1)..Len(s) /\ k + j \in (k + 1)..Len(s)
      BY <1>5
    <3>2. i \in Nat /\ j \in Nat
      BY <1>4
    <3> QED
      BY <1>1, <1>6, <3>1, <3>2
  <2> QED
    BY <1>1, <1>5, <2>1 DEF InOrder
<1>7. ASSUME NEW j \in (k + 1)..Len(s) PROVE s[j] \in Range(t)
  <2>1. j - k \in 1..(Len(s) - (k + 1) + 1) /\ k + 1 <= Len(s)
    BY <1>1
  <2>2. j - k \in DOMAIN t /\ k + (j - k) = j
    BY <1>1, <1>3, <1>4, <2>1
  <2>3. t[j - k] = s[j]
    BY <1>5, <2>2
  <2> QED
    BY <2>2, <2>3 DEF Range
<1>8. Range(t) \subseteq {s[j] : j \in (k + 1)..Len(s)}
  BY <1>5 DEF Range
<1> QED
  BY <1>3, <1>6, <1>7, <1>8 DEF InOrder

\* The elements of a sequence are finitely many, no more than its places.
LEMMA FiniteRange ==
    ASSUME NEW S, NEW s \in Seq(S)
    PROVE  IsFiniteSet(Range(s)) /\ Cardinality(Range(s)) <= Len(s)
<1>1. Len(s) \in Nat /\ s \in [1..Len(s) -> Range(s)]
      /\ \A x \in Range(s) : \E i \in 1..Len(s) : s[i] = x
  BY Places
<1>2. s \in Surjection(1..Len(s), Range(s))
  BY <1>1 DEF Surjection
<1>3. IsFiniteSet(1..Len(s)) /\ Cardinality(1..Len(s)) = Len(s)
  <2>1. 1 \in Int /\ Len(s) \in Int /\ (1 > Len(s) <=> Len(s) = 0) /\ Len(s) - 1 + 1 = Len(s)
    BY <1>1
  <2> HIDE <1>1
  <2> QED
    BY <2>1, FS_Interval
<1> QED
  BY <1>2, <1>3, FS_Surjection

\* An answer has the entries of the channel, in order.
LEMMA AnswerFacts ==
    ASSUME PollTypes
    PROVE  /\ IsFiniteSet(Matching) /\ Matching \subseteq DeltaInfo
           /\ \A items \in RecentDeltas :
                 /\ items \in Seq(DeltaInfo) /\ InOrder(items) /\ Range(items) = Matching
                 /\ Len(items) = Cardinality(Matching)
<1>1. IsFiniteSet(Range(recent)) /\ Range(recent) \subseteq DeltaInfo
  BY FiniteRange, Places DEF PollTypes
<1>2. IsFiniteSet(Matching) /\ Matching \subseteq DeltaInfo
  BY <1>1, FS_Subset DEF Matching
<1>3. ASSUME NEW items \in RecentDeltas
      PROVE  /\ items \in Seq(DeltaInfo) /\ InOrder(items) /\ Range(items) = Matching
             /\ Len(items) = Cardinality(Matching)
  <2>1. Cardinality(Matching) \in Nat
    BY <1>2, FS_CardinalityType
  <2>2. items \in [1..Cardinality(Matching) -> DeltaInfo] /\ Range(items) = Matching /\ InOrder(items)
    BY <1>2 DEF RecentDeltas
  <2> QED
    BY <2>1, <2>2
<1> QED
  BY <1>2, <1>3

-----------------------------------------------------------------------------
(* The invariant is inductive                                              *)

LEMMA PollStart == PollInit => PollInv
<1> SUFFICES ASSUME PollInit PROVE PollInv
  OBVIOUS
<1> USE DEF PollInit
<1>1. Range(<<>>) = {} /\ InOrder(<<>>) /\ Ids({}) = {} /\ DOMAIN <<>> = {}
  BY DEF Range, InOrder, Ids
<1>2. PollTypes
  <2>1. <<>> \in Seq(DeltaInfo) /\ 0 \in 0..MaxPushes /\ 0 \in Nat
    BY PollingAssumption
  <2> QED
    BY <2>1 DEF PollTypes
<1>3. ListInv
  BY <1>1 DEF ListInv
<1>4. OfferedInv /\ ShownInv
  BY <1>1 DEF OfferedInv, ShownInv, Matching
<1>5. SdkInv /\ CliInv
  BY DEF SdkInv, CliInv
<1> QED
  BY <1>2, <1>3, <1>4, <1>5 DEF PollInv

\* What a client knows is not touched when the list gains an entry later than
\* all, loses some, or is emptied.
LEMMA ListChanges ==
    ASSUME PollInv, UNCHANGED client,
           PollTypes', InOrder(recent'), pushes <= pushes',
           \A u \in Range(recent') : u.at <= pushes',
           \A u \in Range(recent') : u \in Range(recent) \/ pushes < u.at,
           lost' \/ (~lost /\ Matching \subseteq Matching')
    PROVE  PollInv'
<1> USE DEF client
<1>1. pushes \in Int /\ pushes' \in Int /\ offered \subseteq DeltaInfo
  BY PollingAssumption DEF PollInv, PollTypes
<1>2. ListInv'
  BY DEF PollInv, ListInv
<1>3. OfferedInv'
  <2>1. ASSUME NEW u \in offered PROVE u.at <= pushes' /\ u.channel = Watched
    <3>1. u.at <= pushes /\ u.channel = Watched /\ u.at \in Int
      BY <1>1, <2>1 DEF PollInv, OfferedInv, DeltaInfo
    <3> QED
      BY <1>1, <3>1
  <2>2. ASSUME NEW u \in Matching' \ offered, NEW v \in offered PROVE v.at < u.at
    <3>1. v.at <= pushes /\ v.at \in Int
      BY <1>1 DEF PollInv, OfferedInv, DeltaInfo
    <3>2. CASE u \in Range(recent)
      BY <2>2, <3>2 DEF PollInv, OfferedInv, Matching
    <3>3. CASE pushes < u.at
      <4>1. PICK list : list = recent'
        OBVIOUS
      <4>2. list \in Seq(DeltaInfo) /\ u \in Range(list)
        BY <4>1 DEF PollTypes, Matching
      <4>3. u \in DeltaInfo
        BY <4>2, Places
      <4>4. u.at \in Int
        BY <4>3 DEF DeltaInfo
      <4> QED
        BY <1>1, <3>1, <3>3, <4>4
    <3> QED
      BY <3>2, <3>3 DEF Matching
  <2> QED
    BY <2>1, <2>2 DEF OfferedInv
<1>4. ShownInv' /\ SdkInv'
  BY DEF PollInv, ShownInv, SdkInv
<1>5. CliInv'
  <2> SUFFICES ASSUME reader = "cli" PROVE CliInv'
    BY DEF CliInv
  <2>1. Matching' \cap offered \subseteq Matching \cap offered
    <3>1. ASSUME NEW u \in Matching' \cap offered PROVE u \in Matching
      <4>1. u.at <= pushes /\ u.at \in Int /\ u.channel = Watched
        BY <1>1 DEF PollInv, OfferedInv, DeltaInfo
      <4>2. u \in Range(recent)
        BY <1>1, <4>1 DEF Matching
      <4> QED
        BY <4>1, <4>2 DEF Matching
    <3> QED
      BY <3>1
  <2>2. /\ IsFiniteSet(Matching \cap offered) /\ Cardinality(Matching \cap offered) <= count
        /\ count \in Nat
    BY DEF PollInv, CliInv, PollTypes
  <2>3. /\ IsFiniteSet(Matching' \cap offered)
        /\ Cardinality(Matching' \cap offered) <= Cardinality(Matching \cap offered)
    BY <2>1, <2>2, FS_Subset
  <2>4. /\ Cardinality(Matching' \cap offered) \in Int /\ Cardinality(Matching \cap offered) \in Int
    BY <2>2, <2>3, FS_CardinalityType
  <2>5. Cardinality(Matching' \cap offered) <= count
    BY <2>2, <2>3, <2>4
  <2> QED
    BY <2>3, <2>5 DEF PollInv, CliInv
<1> QED
  BY <1>2, <1>3, <1>4, <1>5 DEF PollInv

\* The list without its first entry, if it is full.
LEMMA Room ==
    ASSUME PollInv, NEW s, s = IF Len(recent) = Cap THEN Tail(recent) ELSE recent
    PROVE  /\ s \in Seq(DeltaInfo) /\ InOrder(s) /\ Range(s) \subseteq Range(recent)
           /\ Len(recent) = Cap => Range(recent) = {Head(recent)} \cup Range(s)
           /\ Len(recent) # Cap => s = recent
<1>1. recent \in Seq(DeltaInfo) /\ InOrder(recent)
  BY DEF PollInv, PollTypes, ListInv
<1>2. CASE Len(recent) = Cap
  <2>1. recent # <<>>
    BY <1>2, PollingAssumption
  <2>2. s = Tail(recent)
    BY <1>2
  <2> QED
    BY <1>1, <1>2, <2>1, <2>2, OrderTail
<1>3. CASE Len(recent) # Cap
  BY <1>1, <1>3
<1> QED
  BY <1>2, <1>3

LEMMA PushKeeps == ASSUME PollInv, NEW c \in Topic, NEW id \in DeltaId, Push(c, id) PROVE PollInv'
<1>1. PICK e : e = [at |-> pushes + 1, id |-> id, channel |-> c]
  OBVIOUS
<1>2. PICK s : s = IF Len(recent) = Cap THEN Tail(recent) ELSE recent
  OBVIOUS
<1>3. /\ pushes < MaxPushes /\ recent' = Append(s, e) /\ pushes' = pushes + 1
      /\ lost' = (lost \/ (Len(recent) = Cap /\ Head(recent).channel = Watched))
      /\ UNCHANGED client
  BY <1>1, <1>2 DEF Push
<1>4. pushes \in Nat /\ MaxPushes \in Nat /\ recent \in Seq(DeltaInfo)
  BY PollingAssumption DEF PollInv, PollTypes
<1>5. e \in DeltaInfo /\ e.at = pushes + 1
  BY <1>1, <1>3, <1>4 DEF DeltaInfo
<1>6. /\ s \in Seq(DeltaInfo) /\ InOrder(s) /\ Range(s) \subseteq Range(recent)
      /\ Len(recent) = Cap => Range(recent) = {Head(recent)} \cup Range(s)
      /\ Len(recent) # Cap => s = recent
  BY <1>2, Room
<1>7. \A v \in Range(recent) : v \in DeltaInfo /\ v.at \in Nat /\ v.at <= pushes
  <2>1. ASSUME NEW v \in Range(recent) PROVE v \in DeltaInfo
    BY <1>4, Places
  <2> QED
    BY <2>1 DEF PollInv, ListInv, DeltaInfo
<1>8. \A v \in Range(s) : v.at < e.at
  BY <1>4, <1>5, <1>6, <1>7
<1>9. PICK t : t = Append(s, e)
  OBVIOUS
<1>10. t \in Seq(DeltaInfo) /\ InOrder(t) /\ Range(t) = Range(s) \cup {e}
  BY <1>5, <1>6, <1>8, <1>9, OrderAppend
<1>11. recent' \in Seq(DeltaInfo) /\ InOrder(recent') /\ Range(recent') = Range(s) \cup {e}
  BY <1>3, <1>9, <1>10
<1>12. PollTypes'
  BY <1>3, <1>4, <1>11, PollingAssumption DEF PollInv, PollTypes, client
<1>13. \A u \in Range(recent') : u.at <= pushes' /\ (u \in Range(recent) \/ pushes < u.at)
  BY <1>3, <1>4, <1>5, <1>6, <1>7, <1>11
<1>14. lost' \/ (~lost /\ Matching \subseteq Matching')
  <2> SUFFICES ASSUME ~lost' PROVE ~lost /\ Matching \subseteq Matching'
    OBVIOUS
  <2>1. ~lost /\ (Len(recent) = Cap => Head(recent).channel # Watched)
    BY <1>3
  <2>2. ASSUME NEW u \in Matching PROVE u \in Range(s)
    BY <1>6, <2>1, <2>2 DEF Matching
  <2> QED
    BY <1>11, <2>1, <2>2 DEF Matching
<1> QED
  <2>1. pushes <= pushes'
    BY <1>3, <1>4
  <2> QED
    BY <1>3, <1>11, <1>12, <1>13, <1>14, <2>1, ListChanges

LEMMA ForgetKeeps == ASSUME PollInv, Forget PROVE PollInv'
<1>1. /\ recent' = <<>> /\ lost' = (lost \/ Matching # {}) /\ pushes' = pushes
      /\ UNCHANGED client
  BY DEF Forget
<1>2. Range(recent') = {} /\ InOrder(recent')
  BY <1>1 DEF Range, InOrder
<1>3. PollTypes'
  BY <1>1 DEF PollInv, PollTypes, client
<1>4. pushes <= pushes'
  BY <1>1, PollingAssumption DEF PollInv, PollTypes
<1>5. lost' \/ (~lost /\ Matching \subseteq Matching')
  BY <1>1 DEF PollInv, PollTypes
<1> QED
  BY <1>1, <1>2, <1>3, <1>4, <1>5, ListChanges

LEMMA SubscribeKeeps == ASSUME PollInv, NEW k \in {"sdk", "cli"}, Subscribe(k) PROVE PollInv'
<1>1. /\ reader = "none" /\ reader' = k
      /\ UNCHANGED <<recent, pushes, left, seen, count, shown, offered, lost>>
  BY DEF Subscribe
<1>2. left = <<>> /\ seen = {} /\ count = 0 /\ shown = <<>> /\ offered = {}
  BY <1>1 DEF PollInv, ListInv
<1>3. Range(<<>>) = {} /\ DOMAIN <<>> = {} /\ Ids({}) = {}
  BY DEF Range, Ids
<1>4. PollTypes' /\ ListInv' /\ Matching' = Matching
  BY <1>1 DEF PollInv, PollTypes, ListInv, Matching
<1>5. OfferedInv' /\ ShownInv'
  BY <1>1, <1>4 DEF PollInv, OfferedInv, ShownInv
<1>6. SdkInv'
  BY <1>1, <1>2, <1>3 DEF SdkInv
<1>7. CliInv'
  <2>1. Matching \cap offered = {} /\ IsFiniteSet({}) /\ Cardinality({}) = 0 /\ offered \subseteq Matching
    BY <1>2, FS_EmptySet
  <2> QED
    BY <1>1, <1>2, <1>3, <1>4, <2>1 DEF CliInv
<1> QED
  BY <1>4, <1>5, <1>6, <1>7 DEF PollInv

\* An answer keeps what is said of all that was offered, and what it has of
\* new is later than what was shown.
LEMMA AnswerKeeps ==
    ASSUME PollInv, NEW items \in RecentDeltas, Answered(items), left = <<>>,
           UNCHANGED <<recent, pushes>>
    PROVE  /\ OfferedInv' /\ offered' \subseteq DeltaInfo /\ offered' = offered \cup Matching
           /\ Matching' = Matching
           /\ \A u \in Range(items) : u \in offered \/ \A v \in Range(shown) : v.at < u.at
<1>1. offered' = offered \cup Matching /\ Matching' = Matching /\ pushes' = pushes
  BY DEF Answered, Matching
<1>2. Range(items) = Matching /\ Matching \subseteq DeltaInfo
  BY AnswerFacts DEF PollInv
<1>3. OfferedInv'
  <2>1. \A u \in Matching : u.at <= pushes /\ u.channel = Watched
    BY DEF PollInv, ListInv, Matching
  <2> QED
    BY <1>1, <2>1 DEF PollInv, OfferedInv
<1>4. offered' \subseteq DeltaInfo
  BY <1>1, <1>2 DEF PollInv, PollTypes
<1>5. \A u \in Range(items) : u \in offered \/ \A v \in Range(shown) : v.at < u.at
  BY <1>2 DEF PollInv, OfferedInv, ShownInv
<1> QED
  BY <1>1, <1>3, <1>4, <1>5

LEMMA SdkPollKeeps == ASSUME PollInv, SdkPoll PROVE PollInv'
<1>1. PICK items : items = left'
  OBVIOUS
<1>2. /\ reader = "sdk" /\ left = <<>> /\ items \in RecentDeltas /\ Answered(items)
      /\ UNCHANGED <<recent, pushes, reader, seen, count, shown, lost>>
  BY <1>1 DEF SdkPoll, Answered
<1>3. /\ OfferedInv' /\ offered' \subseteq DeltaInfo /\ offered' = offered \cup Matching
      /\ \A u \in Range(items) : u \in offered \/ \A v \in Range(shown) : v.at < u.at
  BY <1>2, AnswerKeeps
<1>4. items \in Seq(DeltaInfo) /\ InOrder(items) /\ Range(items) = Matching
  BY <1>2, AnswerFacts DEF PollInv
<1>5. PollTypes' /\ ListInv'
  BY <1>1, <1>2, <1>3, <1>4 DEF PollInv, PollTypes, ListInv
<1>6. ShownInv'
  BY <1>1, <1>2, <1>3, <1>4 DEF PollInv, ShownInv
<1>7. SdkInv'
  <2>1. Range(left) = {} /\ Ids({}) = {}
    BY <1>2 DEF Range, Ids
  <2>2. seen = Ids(Range(shown)) /\ Ids(offered) = seen
    BY <1>2, <2>1 DEF PollInv, SdkInv
  <2>3. Ids(offered') = seen \cup Ids(Range(items))
    BY <1>3, <1>4, <2>2 DEF Ids
  <2>4. \A u \in offered : u.id \in seen
    BY <2>2 DEF Ids
  <2>5. \A u \in Range(items) : u.id \in seen \/ \A v \in Range(shown) : v.at < u.at
    BY <1>3, <2>4
  <2> QED
    BY <1>1, <1>2, <2>2, <2>3, <2>5 DEF PollInv, SdkInv
<1>8. CliInv'
  BY <1>2 DEF CliInv
<1> QED
  BY <1>3, <1>5, <1>6, <1>7, <1>8 DEF PollInv

LEMMA SdkShowKeeps == ASSUME PollInv, SdkShow PROVE PollInv'
<1>1. PICK u : u = Head(left)
  OBVIOUS
<1>2. PICK rest : rest = Tail(left)
  OBVIOUS
<1>3. /\ reader = "sdk" /\ left # <<>> /\ left' = rest
      /\ u.id \in seen => UNCHANGED <<seen, shown>>
      /\ u.id \notin seen => seen' = seen \cup {u.id} /\ shown' = Append(shown, u)
      /\ UNCHANGED <<recent, pushes, reader, count, offered, lost>>
  BY <1>1, <1>2 DEF SdkShow
<1>4. /\ left \in Seq(DeltaInfo) /\ InOrder(left) /\ Range(left) \subseteq offered
      /\ shown \in Seq(DeltaInfo) /\ InOrder(shown) /\ Range(shown) \subseteq offered
  BY DEF PollInv, PollTypes, ShownInv
<1>5. /\ u \in DeltaInfo /\ rest \in Seq(DeltaInfo) /\ InOrder(rest)
      /\ Range(left) = {u} \cup Range(rest) /\ \A w \in Range(rest) : u.at < w.at
  BY <1>1, <1>2, <1>3, <1>4, OrderTail
<1>6. /\ seen = Ids(Range(shown)) /\ Ids(offered) = seen \cup Ids(Range(left))
      /\ \A w \in Range(left) : w.id \in seen \/ \A v \in Range(shown) : v.at < w.at
      /\ \A i, j \in DOMAIN shown : shown[i].id = shown[j].id => i = j
  BY <1>3 DEF PollInv, SdkInv
<1>7. Matching' = Matching /\ OfferedInv' /\ ListInv'
  BY <1>3 DEF PollInv, OfferedInv, ListInv, Matching
<1>8. Ids(Range(left)) = {u.id} \cup Ids(Range(rest))
  BY <1>5 DEF Ids
<1>9. CliInv'
  BY <1>3 DEF CliInv
<1>10. CASE u.id \in seen
  <2>1. PollTypes' /\ ShownInv'
    BY <1>3, <1>4, <1>5, <1>10 DEF PollInv, PollTypes, ShownInv
  <2>2. SdkInv'
    BY <1>3, <1>5, <1>6, <1>8, <1>10 DEF SdkInv
  <2> QED
    BY <1>7, <1>9, <2>1, <2>2 DEF PollInv
<1>11. CASE u.id \notin seen
  <2>1. \A v \in Range(shown) : v.at < u.at
    BY <1>5, <1>6, <1>11
  <2>2. PICK t : t = Append(shown, u)
    OBVIOUS
  <2>3. /\ t \in Seq(DeltaInfo) /\ InOrder(t) /\ Range(t) = Range(shown) \cup {u}
        /\ Len(t) = Len(shown) + 1 /\ t[Len(shown) + 1] = u
        /\ \A i \in 1..Len(shown) : t[i] = shown[i]
    <3>1. u \in DeltaInfo /\ shown \in Seq(DeltaInfo) /\ InOrder(shown)
      BY <1>4, <1>5
    <3>2. t \in Seq(DeltaInfo) /\ InOrder(t) /\ Range(t) = Range(shown) \cup {u}
      BY <2>1, <2>2, <3>1, OrderAppend
    <3>3. /\ Len(t) = Len(shown) + 1 /\ t[Len(shown) + 1] = u
          /\ \A i \in 1..Len(shown) : t[i] = shown[i]
      BY <2>2, <3>1
    <3> QED
      BY <3>2, <3>3
  <2>4. shown' = t /\ seen' = seen \cup {u.id}
    BY <1>3, <1>11, <2>2
  <2>5. PollTypes'
    <3>1. u.id \in DeltaId
      BY <1>5 DEF DeltaInfo
    <3> QED
      BY <1>3, <1>5, <2>3, <2>4, <3>1 DEF PollInv, PollTypes
  <2>6. ShownInv'
    BY <1>3, <1>4, <1>5, <2>3, <2>4 DEF ShownInv
  <2>7. SdkInv'
    <3>1. seen' = Ids(Range(t)) /\ Ids(offered) = seen' \cup Ids(Range(rest))
      <4>1. Ids(Range(t)) = Ids(Range(shown)) \cup {u.id}
        BY <2>3 DEF Ids
      <4> QED
        BY <1>6, <1>8, <2>4, <4>1
    <3>2. ASSUME NEW w \in Range(rest), w.id \notin seen', NEW v \in Range(t) PROVE v.at < w.at
      BY <1>5, <1>6, <2>3, <2>4, <3>2
    <3>3. ASSUME NEW i \in DOMAIN t, NEW j \in DOMAIN t, t[i].id = t[j].id PROVE i = j
      <4>1. /\ DOMAIN shown = 1..Len(shown) /\ Len(shown) \in Nat
            /\ \A x \in 1..Len(shown) : shown[x] \in Range(shown)
        BY <1>4, Places
      <4>2. DOMAIN t = 1..Len(shown) \cup {Len(shown) + 1}
        BY <2>3, <4>1
      <4>3. \A x \in 1..Len(shown) : shown[x].id \in seen
        BY <1>6, <4>1 DEF Ids
      <4>4. \A x \in 1..Len(shown) : t[x].id # u.id
        BY <1>11, <2>3, <4>3
      <4>5. CASE i \in 1..Len(shown) /\ j \in 1..Len(shown)
        BY <1>6, <2>3, <3>3, <4>1, <4>5
      <4> QED
        BY <2>3, <3>3, <4>2, <4>4, <4>5
    <3> QED
      BY <1>3, <2>4, <3>1, <3>2, <3>3 DEF SdkInv
  <2> QED
    BY <1>7, <1>9, <2>5, <2>6, <2>7 DEF PollInv
<1> QED
  BY <1>10, <1>11

\* The number of items there were last time tells the new ones: what is beyond
\* it was never answered, and, if nothing has left the list, the rest was.
LEMMA CountSkips ==
    ASSUME PollInv, reader = "cli", left = <<>>, NEW items \in RecentDeltas
    PROVE  /\ \A j \in 1..Len(items) : j > count => items[j] \notin offered
           /\ ~lost => \A j \in 1..Len(items) : j <= count => items[j] \in offered
<1> DEFINE old == Matching \cap offered
<1>1. /\ items \in Seq(DeltaInfo) /\ InOrder(items) /\ Range(items) = Matching
      /\ Len(items) \in Nat /\ DOMAIN items = 1..Len(items)
      /\ \A i \in 1..Len(items) : items[i] \in Matching /\ items[i].at \in Int
      /\ \A x \in Matching : \E i \in 1..Len(items) : items[i] = x
  <2>1. items \in Seq(DeltaInfo) /\ InOrder(items) /\ Range(items) = Matching
    BY AnswerFacts DEF PollInv
  <2>2. /\ Len(items) \in Nat /\ DOMAIN items = 1..Len(items)
        /\ \A i \in 1..Len(items) : items[i] \in DeltaInfo /\ items[i] \in Matching
        /\ \A x \in Matching : \E i \in 1..Len(items) : items[i] = x
    BY <2>1, Places
  <2> QED
    BY <2>1, <2>2 DEF DeltaInfo
<1>2. /\ IsFiniteSet(old) /\ Cardinality(old) <= count /\ count \in Nat
      /\ Cardinality(old) \in Nat
      /\ ~lost => offered \subseteq Matching /\ count = Cardinality(offered)
  BY FS_CardinalityType DEF PollInv, CliInv, PollTypes
<1>3. \A i, j \in 1..Len(items) : i < j => items[i].at < items[j].at
  BY <1>1 DEF InOrder
<1>4. ASSUME NEW i \in 1..Len(items), NEW j \in 1..Len(items), i < j, items[j] \in offered
      PROVE  items[i] \in offered
  <2>1. items[i] \notin offered => items[j].at < items[i].at
    BY <1>1, <1>4 DEF PollInv, OfferedInv
  <2>2. items[i].at < items[j].at /\ items[i].at \in Int /\ items[j].at \in Int
    BY <1>1, <1>3, <1>4
  <2> QED
    BY <2>1, <2>2
<1>5. ASSUME NEW j \in 1..Len(items), j > count, items[j] \in offered PROVE FALSE
  <2> DEFINE f == [i \in 1..j |-> items[i]]
  <2>1. j \in Nat /\ \A i \in 1..j : i \in 1..Len(items)
    BY <1>1
  <2>2. \A i \in 1..j : items[i] \in old
    <3>1. \A i \in 1..j : i < j \/ i = j
      BY <2>1
    <3>2. \A i \in 1..j : items[i] \in offered
      BY <1>4, <1>5, <2>1, <3>1
    <3> QED
      BY <1>1, <2>1, <3>2
  <2>3. f \in Injection(1..j, old)
    <3>1. ASSUME NEW a \in 1..j, NEW b \in 1..j, f[a] = f[b] PROVE a = b
      <4>1. items[a] = items[b] /\ items[a].at \in Int
        BY <1>1, <2>1, <3>1
      <4>2. ~(a < b) /\ ~(b < a)
        BY <1>3, <2>1, <4>1
      <4> QED
        BY <2>1, <4>2
    <3>2. f \in [1..j -> old]
      BY <2>2
    <3> QED
      BY <3>1, <3>2 DEF Injection, IsInjective
  <2>4. Cardinality(1..j) = j
    BY <2>1, FS_Interval
  <2>5. Cardinality(1..j) <= Cardinality(old)
    BY <1>2, <2>3, FS_Injection
  <2> QED
    BY <1>2, <1>5, <2>1, <2>4, <2>5
<1>6. ASSUME ~lost, NEW j \in 1..Len(items), j <= count, items[j] \notin offered PROVE FALSE
  <2> DEFINE T == {items[i] : i \in 1..(j - 1)}
             f == [i \in 1..(j - 1) |-> items[i]]
  <2>1. j - 1 \in Nat /\ j \in Nat /\ \A i \in 1..(j - 1) : i \in 1..Len(items)
    BY <1>1
  <2>2. f \in Surjection(1..(j - 1), T)
    BY DEF Surjection
  <2>3. IsFiniteSet(1..(j - 1)) /\ Cardinality(1..(j - 1)) = j - 1
    <3>1. 1 \in Int /\ j - 1 \in Int /\ (1 > j - 1 => j - 1 = 0) /\ j - 1 - 1 + 1 = j - 1
      BY <2>1
    <3> QED
      BY <3>1, FS_Interval
  <2>4. IsFiniteSet(T) /\ Cardinality(T) <= j - 1
    BY <2>2, <2>3, FS_Surjection
  <2>5. ASSUME NEW v \in offered PROVE v \in T
    <3>1. PICK k \in 1..Len(items) : items[k] = v
      BY <1>1, <1>2, <1>6
    <3>2. ~(j < k) /\ k # j
      BY <1>4, <1>6, <3>1
    <3>3. k \in 1..(j - 1)
      BY <1>1, <2>1, <3>2
    <3> QED
      BY <3>1, <3>3
  <2>6. Cardinality(offered) <= Cardinality(T) /\ IsFiniteSet(offered)
    BY <2>4, <2>5, FS_Subset
  <2>7. Cardinality(offered) \in Nat /\ Cardinality(T) \in Nat
    BY <2>4, <2>6, FS_CardinalityType
  <2> QED
    BY <1>2, <1>6, <2>1, <2>4, <2>6, <2>7
<1> QED
  BY <1>5, <1>6

LEMMA CliPollKeeps == ASSUME PollInv, CliPoll PROVE PollInv'
<1>1. PICK items \in RecentDeltas :
        /\ reader = "cli" /\ left = <<>> /\ Answered(items)
        /\ left' = SubSeq(items, count + 1, Len(items)) /\ count' = Len(items)
        /\ UNCHANGED <<recent, pushes, reader, seen, shown, lost>>
  BY DEF CliPoll
<1>2. /\ OfferedInv' /\ offered' \subseteq DeltaInfo /\ offered' = offered \cup Matching
      /\ Matching' = Matching
      /\ \A u \in Range(items) : u \in offered \/ \A v \in Range(shown) : v.at < u.at
  BY <1>1, AnswerKeeps
<1>3. /\ items \in Seq(DeltaInfo) /\ InOrder(items) /\ Range(items) = Matching
      /\ Len(items) = Cardinality(Matching) /\ IsFiniteSet(Matching)
  BY AnswerFacts DEF PollInv
<1>4. /\ Len(items) \in Nat /\ \A i \in 1..Len(items) : items[i] \in Matching
      /\ \A x \in Matching : \E i \in 1..Len(items) : items[i] = x
  BY <1>3, Places
<1>5. /\ \A j \in 1..Len(items) : j > count => items[j] \notin offered
      /\ ~lost => \A j \in 1..Len(items) : j <= count => items[j] \in offered
  BY <1>1, CountSkips
<1>6. PICK new : new = SubSeq(items, count + 1, Len(items))
  OBVIOUS
<1>7. count \in Nat
  BY DEF PollInv, PollTypes
<1>8. new \in Seq(DeltaInfo) /\ InOrder(new) /\ Range(new) = {items[j] : j \in (count + 1)..Len(items)}
  BY <1>3, <1>6, <1>7, OrderSkip
<1>9. \A j \in (count + 1)..Len(items) : j \in 1..Len(items) /\ j > count
  BY <1>4, <1>7
<1>10. Range(new) \subseteq Matching /\ \A u \in Range(new) : u \notin offered
  BY <1>4, <1>5, <1>8, <1>9
<1>11. PollTypes' /\ ListInv'
  BY <1>1, <1>2, <1>4, <1>6, <1>8 DEF PollInv, PollTypes, ListInv
<1>12. ShownInv'
  BY <1>1, <1>2, <1>6, <1>8, <1>10 DEF PollInv, ShownInv
<1>13. SdkInv'
  BY <1>1 DEF SdkInv
<1>14. CliInv'
  <2>1. \A u \in Range(new), v \in Range(shown) : v.at < u.at
    BY <1>2, <1>3, <1>10
  <2>2. Matching \cap offered' = Matching
    BY <1>2
  <2>3. Cardinality(Matching) <= Len(items)
    BY <1>3, <1>4
  <2>4. ASSUME ~lost
        PROVE  /\ offered' = Matching /\ Len(items) = Cardinality(offered')
               /\ Range(shown) \cup Range(new) = offered'
    <3>1. offered \subseteq Matching /\ Range(shown) \cup Range(left) = offered
      BY <1>1, <2>4 DEF PollInv, CliInv
    <3>2. Range(left) = {}
      BY <1>1 DEF Range
    <3>3. offered' = Matching
      BY <1>2, <3>1
    <3>4. ASSUME NEW x \in Matching PROVE x \in offered \/ x \in Range(new)
      <4>1. PICK j \in 1..Len(items) : items[j] = x
        BY <1>4
      <4>2. j <= count \/ j \in (count + 1)..Len(items)
        BY <1>4, <1>7
      <4> QED
        BY <1>5, <1>8, <2>4, <4>1, <4>2
    <3> QED
      BY <1>3, <1>10, <3>1, <3>2, <3>3, <3>4
  <2> QED
    BY <1>1, <1>2, <1>3, <1>6, <2>1, <2>2, <2>3, <2>4 DEF CliInv
<1> QED
  BY <1>2, <1>11, <1>12, <1>13, <1>14 DEF PollInv

LEMMA CliPrintKeeps == ASSUME PollInv, CliPrint PROVE PollInv'
<1>1. PICK u : u = Head(left)
  OBVIOUS
<1>2. PICK rest : rest = Tail(left)
  OBVIOUS
<1>3. PICK t : t = Append(shown, u)
  OBVIOUS
<1>4. /\ reader = "cli" /\ left # <<>> /\ left' = rest /\ shown' = t
      /\ UNCHANGED <<recent, pushes, reader, seen, count, offered, lost>>
  BY <1>1, <1>2, <1>3 DEF CliPrint
<1>5. /\ left \in Seq(DeltaInfo) /\ InOrder(left) /\ Range(left) \subseteq offered
      /\ shown \in Seq(DeltaInfo) /\ InOrder(shown) /\ Range(shown) \subseteq offered
  BY DEF PollInv, PollTypes, ShownInv
<1>6. /\ u \in DeltaInfo /\ rest \in Seq(DeltaInfo) /\ InOrder(rest)
      /\ Range(left) = {u} \cup Range(rest) /\ \A w \in Range(rest) : u.at < w.at
  BY <1>1, <1>2, <1>4, <1>5, OrderTail
<1>7. \A w \in Range(left), v \in Range(shown) : v.at < w.at
  BY <1>4 DEF PollInv, CliInv
<1>8. t \in Seq(DeltaInfo) /\ InOrder(t) /\ Range(t) = Range(shown) \cup {u}
  <2>1. \A v \in Range(shown) : v.at < u.at
    BY <1>6, <1>7
  <2> QED
    BY <1>3, <1>5, <1>6, <2>1, OrderAppend
<1>9. PollTypes' /\ ListInv' /\ OfferedInv' /\ Matching' = Matching
  BY <1>4, <1>6, <1>8 DEF PollInv, PollTypes, ListInv, OfferedInv, Matching
<1>10. ShownInv'
  BY <1>4, <1>5, <1>6, <1>8 DEF ShownInv
<1>11. SdkInv'
  BY <1>4 DEF SdkInv
<1>12. CliInv'
  <2>1. \A w \in Range(rest), v \in Range(t) : v.at < w.at
    BY <1>6, <1>7, <1>8
  <2>2. Range(t) \cup Range(rest) = Range(shown) \cup Range(left)
    BY <1>6, <1>8
  <2> QED
    BY <1>4, <1>9, <2>1, <2>2 DEF PollInv, CliInv
<1> QED
  BY <1>9, <1>10, <1>11, <1>12 DEF PollInv

LEMMA PollStep == PollInv /\ [PollNext]_pollVars => PollInv'
<1> SUFFICES ASSUME PollInv, [PollNext]_pollVars PROVE PollInv'
  OBVIOUS
<1>1. CASE UNCHANGED pollVars
  BY <1>1 DEF pollVars, client, PollInv, PollTypes, ListInv, OfferedInv, ShownInv, SdkInv,
              CliInv, Matching
<1>2. CASE \E c \in Topic, id \in DeltaId : Push(c, id)
  BY <1>2, PushKeeps
<1>3. CASE Forget
  BY <1>3, ForgetKeeps
<1>4. CASE \E k \in {"sdk", "cli"} : Subscribe(k)
  BY <1>4, SubscribeKeeps
<1>5. CASE SdkPoll
  BY <1>5, SdkPollKeeps
<1>6. CASE SdkShow
  BY <1>6, SdkShowKeeps
<1>7. CASE CliPoll
  BY <1>7, CliPollKeeps
<1>8. CASE CliPrint
  BY <1>8, CliPrintKeeps
<1> QED
  BY <1>1, <1>2, <1>3, <1>4, <1>5, <1>6, <1>7, <1>8 DEF PollNext

-----------------------------------------------------------------------------
(* Theorem                                                                 *)

\* subscribe of the SDKs and of nexus: everything in order and once; nothing
\* an answer had is missed by the SDKs, nor by the command line while no
\* entry of the channel has left the list.
THEOREM PollersShow == PollSpec => []PollsShow
<1>1. PollInv => PollsShow
  <2> SUFFICES ASSUME PollInv PROVE PollsShow
    OBVIOUS
  <2>1. left = <<>> => Range(left) = {} /\ Ids(Range(left)) = {}
    BY DEF Range, Ids
  <2> QED
    BY <2>1 DEF PollInv, ShownInv, SdkInv, CliInv, PollsShow
<1>2. PollInit => PollInv
  BY PollStart
<1>3. PollInv /\ [PollNext]_pollVars => PollInv'
  BY PollStep
<1> QED
  BY <1>1, <1>2, <1>3, PTL DEF PollSpec
=============================================================================
