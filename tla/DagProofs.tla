----------------------------- MODULE DagProofs -----------------------------
(***************************************************************************)
(* Proofs about DagIndex: what a closed set is for, what appending does to *)
(* ancestry, and the invariants of the two walks, for every set of ids and *)
(* every index that append() can have built.                               *)
(***************************************************************************)
EXTENDS DagIndex, SequenceTheorems, WellFoundedInduction, TLAPS

-----------------------------------------------------------------------------
(* Sequences                                                               *)

\* A sequence that is not empty, its front and its last element.
LEMMA FrontLast ==
    ASSUME NEW S, NEW s \in Seq(S), s # <<>>
    PROVE  /\ Len(s) \in Nat /\ Len(s) >= 1
           /\ Last(s) = s[Len(s)] /\ Last(s) \in S
           /\ Front(s) \in Seq(S) /\ Len(Front(s)) = Len(s) - 1
           /\ \A i \in 1..(Len(s) - 1) : Front(s)[i] = s[i]
           /\ Range(s) = Range(Front(s)) \cup {Last(s)}
<1>1. Len(s) \in Nat /\ Len(s) >= 1
  OBVIOUS
<1>2. Last(s) = s[Len(s)] /\ Last(s) \in S
  BY <1>1 DEF Last
<1>3. Front(s) \in Seq(S) /\ Len(Front(s)) = Len(s) - 1
      /\ \A i \in 1..(Len(s) - 1) : Front(s)[i] = s[i]
  <2> DEFINE n == Len(s) - 1
  <2>1. n \in Int /\ n >= 0 /\ \A i \in 1..n : s[i] \in S
    BY <1>1
  <2>2. /\ SubSeq(s, 1, n) \in Seq(S)
        /\ Len(SubSeq(s, 1, n)) = IF 1 <= n THEN n - 1 + 1 ELSE 0
        /\ \A i \in 1..(n - 1 + 1) : SubSeq(s, 1, n)[i] = s[1 + i - 1]
    BY <2>1, SubSeqProperties
  <2> HIDE DEF n
  <2>3. Len(SubSeq(s, 1, n)) = n /\ \A i \in 1..n : SubSeq(s, 1, n)[i] = s[i]
    BY <2>1, <2>2
  <2> QED
    BY <2>2, <2>3 DEF Front, n
<1>4. DOMAIN s = 1..Len(s) /\ DOMAIN Front(s) = 1..(Len(s) - 1)
  BY <1>3
<1>5. 1..Len(s) = 1..(Len(s) - 1) \cup {Len(s)}
  BY <1>1
<1>6. Range(s) = Range(Front(s)) \cup {Last(s)}
  BY <1>2, <1>3, <1>4, <1>5 DEF Range
<1> QED
  BY <1>1, <1>2, <1>3, <1>6

\* What a sequence with one more element has.
LEMMA AppendFacts ==
    ASSUME NEW S, NEW s \in Seq(S), NEW e \in S
    PROVE  /\ Append(s, e) \in Seq(S) /\ Append(s, e) # <<>>
           /\ Len(Append(s, e)) = Len(s) + 1
           /\ \A i \in 1..Len(s) : Append(s, e)[i] = s[i]
           /\ Append(s, e)[Len(s) + 1] = e
           /\ Range(Append(s, e)) = Range(s) \cup {e}
<1>1. /\ Append(s, e) \in Seq(S) /\ Len(Append(s, e)) = Len(s) + 1
      /\ \A i \in 1..Len(s) : Append(s, e)[i] = s[i]
      /\ Append(s, e)[Len(s) + 1] = e
  OBVIOUS
<1>2. Append(s, e) # <<>>
  BY <1>1
<1>3. /\ DOMAIN Append(s, e) = 1..(Len(s) + 1) /\ DOMAIN s = 1..Len(s)
      /\ 1..(Len(s) + 1) = 1..Len(s) \cup {Len(s) + 1}
  BY <1>1
<1>4. Range(Append(s, e)) = Range(s) \cup {e}
  BY <1>1, <1>3 DEF Range
<1> QED
  BY <1>1, <1>2, <1>4

\* The head and the tail have what the sequence has.
LEMMA HeadTail ==
    ASSUME NEW S, NEW s \in Seq(S), s # <<>>
    PROVE  /\ Head(s) \in S /\ Tail(s) \in Seq(S)
           /\ Range(s) = {Head(s)} \cup Range(Tail(s))
<1>1. /\ Len(s) \in Nat \ {0} /\ Head(s) = s[1] /\ Head(s) \in S /\ Tail(s) \in Seq(S)
      /\ Len(Tail(s)) = Len(s) - 1
      /\ \A i \in 1..(Len(s) - 1) : Tail(s)[i] = s[i + 1]
  OBVIOUS
<1>2. DOMAIN s = 1..Len(s) /\ DOMAIN Tail(s) = 1..(Len(s) - 1)
  BY <1>1
<1>3. ASSUME NEW x \in Range(s) PROVE x \in {Head(s)} \cup Range(Tail(s))
  <2>1. PICK i \in 1..Len(s) : s[i] = x
    BY <1>2 DEF Range
  <2>2. i = 1 \/ (i - 1 \in 1..(Len(s) - 1) /\ Tail(s)[i - 1] = x)
    BY <1>1, <2>1
  <2> QED
    BY <1>1, <1>2, <2>1, <2>2 DEF Range
<1>4. ASSUME NEW x \in {Head(s)} \cup Range(Tail(s)) PROVE x \in Range(s)
  <2>1. CASE x = Head(s)
    BY <1>1, <1>2, <2>1 DEF Range
  <2>2. CASE x \in Range(Tail(s))
    <3>1. PICK i \in 1..(Len(s) - 1) : Tail(s)[i] = x
      BY <1>2, <2>2 DEF Range
    <3>2. i + 1 \in 1..Len(s) /\ s[i + 1] = x
      BY <1>1, <3>1
    <3> QED
      BY <1>2, <3>2 DEF Range
  <2> QED
    BY <1>4, <2>1, <2>2
<1> QED
  BY <1>1, <1>3, <1>4

\* A concatenation has what its parts have.
LEMMA RangeConcat ==
    ASSUME NEW S, NEW s \in Seq(S), NEW t \in Seq(S)
    PROVE  s \o t \in Seq(S) /\ Range(s \o t) = Range(s) \cup Range(t)
<1>1. /\ s \o t \in Seq(S) /\ Len(s \o t) = Len(s) + Len(t)
      /\ \A i \in 1..(Len(s) + Len(t)) :
            (s \o t)[i] = IF i <= Len(s) THEN s[i] ELSE t[i - Len(s)]
      /\ Len(s) \in Nat /\ Len(t) \in Nat
  OBVIOUS
<1>2. /\ DOMAIN s = 1..Len(s) /\ DOMAIN t = 1..Len(t)
      /\ DOMAIN (s \o t) = 1..(Len(s) + Len(t))
  BY <1>1
<1>3. ASSUME NEW x \in Range(s) PROVE x \in Range(s \o t)
  <2>1. PICK i \in 1..Len(s) : s[i] = x
    BY <1>2 DEF Range
  <2>2. i \in 1..(Len(s) + Len(t)) /\ (s \o t)[i] = x
    BY <1>1, <2>1
  <2> QED
    BY <1>2, <2>2 DEF Range
<1>4. ASSUME NEW x \in Range(t) PROVE x \in Range(s \o t)
  <2>1. PICK i \in 1..Len(t) : t[i] = x
    BY <1>2 DEF Range
  <2>2. /\ Len(s) + i \in 1..(Len(s) + Len(t)) /\ ~(Len(s) + i <= Len(s))
        /\ (Len(s) + i) - Len(s) = i
    BY <1>1
  <2>3. (s \o t)[Len(s) + i] = x
    BY <1>1, <2>1, <2>2
  <2> QED
    BY <1>2, <2>2, <2>3 DEF Range
<1>5. ASSUME NEW x \in Range(s \o t) PROVE x \in Range(s) \cup Range(t)
  <2>1. PICK i \in 1..(Len(s) + Len(t)) : (s \o t)[i] = x
    BY <1>2 DEF Range
  <2>2. \/ i \in 1..Len(s) /\ s[i] = x
        \/ i - Len(s) \in 1..Len(t) /\ t[i - Len(s)] = x
    BY <1>1, <2>1
  <2> QED
    BY <1>2, <2>2 DEF Range
<1> QED
  BY <1>1, <1>3, <1>4, <1>5

\* An empty sequence has nothing.
LEMMA EmptyRange == Range(<<>>) = {}
<1>1. DOMAIN <<>> = {}
  OBVIOUS
<1> QED
  BY <1>1 DEF Range

\* What an element of the range is: the value at some place.
LEMMA RangeAt ==
    ASSUME NEW S, NEW s \in Seq(S)
    PROVE  /\ Range(s) \subseteq S
           /\ \A x : x \in Range(s) <=> \E i \in 1..Len(s) : s[i] = x
<1>1. DOMAIN s = 1..Len(s)
  OBVIOUS
<1> QED
  BY <1>1 DEF Range

-----------------------------------------------------------------------------
(* Ancestry                                                                *)

IndexTyped == index \in [Id -> Seq(Id) \cup {None}]

\* Parents are ids, of an entry that is there.
ParentFacts ==
    \A c \in Id : /\ ParentsOf(c) \in Seq(Id)
                  /\ Range(ParentsOf(c)) \subseteq Id
                  /\ index[c] = None => Range(ParentsOf(c)) = {}

\* They follow from the type of the index.
LEMMA ParentsTyped == IndexTyped => ParentFacts
<1> SUFFICES ASSUME IndexTyped, NEW c \in Id
             PROVE  /\ ParentsOf(c) \in Seq(Id)
                    /\ Range(ParentsOf(c)) \subseteq Id
                    /\ index[c] = None => Range(ParentsOf(c)) = {}
  BY DEF ParentFacts
<1>1. ParentsOf(c) \in Seq(Id)
  BY DEF IndexTyped, ParentsOf
<1>2. Range(ParentsOf(c)) \subseteq Id
  BY <1>1, RangeAt
<1>3. ASSUME index[c] = None PROVE Range(ParentsOf(c)) = {}
  <2>1. ParentsOf(c) = <<>>
    BY <1>3 DEF ParentsOf
  <2> QED
    BY <2>1, EmptyRange
<1> QED
  BY <1>1, <1>2, <1>3

\* The ancestors of c are the least closed set with c.
AncestorFacts ==
    \A c \in Id :
        /\ Ancestors(c) \subseteq Id /\ c \in Ancestors(c) /\ Closed(Ancestors(c))
        /\ \A S \in SUBSET Id : c \in S /\ Closed(S) => Ancestors(c) \subseteq S
        /\ \A x \in Ancestors(c) : Ancestors(x) \subseteq Ancestors(c)
        /\ \A q \in Range(ParentsOf(c)) : q \in Id /\ Ancestors(q) \subseteq Ancestors(c)

\* So they are in every index.
LEMMA LeastClosed == IndexTyped => AncestorFacts
<1> SUFFICES ASSUME IndexTyped, NEW c \in Id
             PROVE  /\ Ancestors(c) \subseteq Id /\ c \in Ancestors(c) /\ Closed(Ancestors(c))
                    /\ \A S \in SUBSET Id : c \in S /\ Closed(S) => Ancestors(c) \subseteq S
                    /\ \A x \in Ancestors(c) : Ancestors(x) \subseteq Ancestors(c)
                    /\ \A q \in Range(ParentsOf(c)) : q \in Id /\ Ancestors(q) \subseteq Ancestors(c)
  BY DEF AncestorFacts
<1>1. Ancestors(c) \subseteq Id /\ c \in Ancestors(c)
  BY DEF Ancestors
<1>2. Closed(Ancestors(c))
  <2> SUFFICES ASSUME NEW x \in Ancestors(c), NEW q \in Range(ParentsOf(x)) PROVE q \in Ancestors(c)
    BY DEF Closed
  <2>1. x \in Id /\ q \in Id
    BY <1>1, ParentsTyped DEF ParentFacts
  <2>2. ASSUME NEW S \in SUBSET Id, c \in S, Closed(S) PROVE q \in S
    <3>1. x \in S
      BY <2>2 DEF Ancestors
    <3> QED
      BY <2>2, <3>1 DEF Closed
  <2> QED
    BY <2>1, <2>2 DEF Ancestors
<1>3. \A S \in SUBSET Id : c \in S /\ Closed(S) => Ancestors(c) \subseteq S
  BY DEF Ancestors
<1>4. ASSUME NEW x \in Ancestors(c) PROVE Ancestors(x) \subseteq Ancestors(c)
  BY <1>1, <1>2 DEF Ancestors
<1>5. ASSUME NEW q \in Range(ParentsOf(c)) PROVE q \in Id /\ q \in Ancestors(c)
  BY <1>1, <1>2, ParentsTyped DEF ParentFacts, Closed
<1> QED
  BY <1>1, <1>2, <1>3, <1>4, <1>5

\* Parents are indexed before their children, and nothing is above itself.
IndexInv ==
    /\ IndexTyped
    /\ Closed(Indexed)
    /\ \A c \in Id : \A q \in Range(ParentsOf(c)) : c \notin Ancestors(q)

\* What is above an indexed commit is indexed; above another is nothing.
LEMMA AboveIndexed ==
    IndexInv => \A c \in Id : IF c \in Indexed THEN Ancestors(c) \subseteq Indexed
                              ELSE Ancestors(c) = {c}
<1> SUFFICES ASSUME IndexInv, NEW c \in Id
             PROVE  IF c \in Indexed THEN Ancestors(c) \subseteq Indexed ELSE Ancestors(c) = {c}
  OBVIOUS
<1>0. IndexTyped /\ Closed(Indexed) /\ Indexed \subseteq Id
  BY DEF IndexInv, Indexed
<1>1. CASE c \in Indexed
  BY <1>0, <1>1, LeastClosed DEF AncestorFacts
<1>2. CASE c \notin Indexed
  <2>1. Range(ParentsOf(c)) = {}
    BY <1>0, <1>2, ParentsTyped DEF ParentFacts, Indexed
  <2>2. Closed({c})
    BY <2>1 DEF Closed
  <2>3. Ancestors(c) \subseteq {c} /\ c \in Ancestors(c)
    BY <1>0, <2>2, LeastClosed DEF AncestorFacts
  <2> QED
    BY <1>2, <2>3
<1> QED
  BY <1>1, <1>2

\* append() finds no cycle for a new id: a commit is refused for a parent
\* that is not indexed, or for being its own, and for nothing else.
THEOREM NewIsNoAncestor ==
    IndexInv => \A c \in Id \ Indexed : \A parents :
        Accepts(c, parents) <=> c \notin Range(parents) /\ Range(parents) \subseteq Indexed
BY AboveIndexed DEF Accepts, Indexed

\* The same facts after a step.
LEMMA FactsNext == IndexTyped' => ParentFacts' /\ AncestorFacts'
BY ParentsTyped, LeastClosed, PTL

\* An index that stays as it is.
LEMMA SameIndex ==
    ASSUME index' = index
    PROVE  /\ Indexed' = Indexed
           /\ \A x : ParentsOf(x)' = ParentsOf(x)
           /\ \A x : Ancestors(x)' = Ancestors(x)
           /\ IndexInv => IndexInv'
<1>1. Indexed' = Indexed
  BY DEF Indexed
<1>2. \A x : ParentsOf(x)' = ParentsOf(x)
  BY DEF ParentsOf
<1>3. \A S : Closed(S)' = Closed(S)
  BY <1>2 DEF Closed
<1>4. \A x : Ancestors(x)' = Ancestors(x)
  BY <1>3 DEF Ancestors
<1>5. Closed(Indexed)' <=> Closed(Indexed)
  BY <1>1, <1>2 DEF Closed
<1> QED
  BY <1>1, <1>2, <1>4, <1>5 DEF IndexInv, IndexTyped

\* What append() does: the new commit has its parents, the ancestry of every
\* other id stays as it was, and there is still no cycle.
LEMMA Growth ==
    ASSUME IndexInv, NEW c \in Id, c \notin Indexed, NEW parents \in Seq(Id),
           Accepts(c, parents), Insert(c, parents)
    PROVE  /\ IndexInv'
           /\ Indexed' = Indexed \cup {c}
           /\ ParentsOf(c)' = parents
           /\ \A x \in Id \ {c} : ParentsOf(x)' = ParentsOf(x) /\ Ancestors(x)' = Ancestors(x)
<1>0. /\ IndexTyped /\ Closed(Indexed) /\ Indexed \subseteq Id
      /\ index' = [index EXCEPT ![c] = parents] /\ parents # None
      /\ c \notin Range(parents) /\ Range(parents) \subseteq Indexed
  BY IdAssumption DEF IndexInv, Indexed, Insert, Accepts
<1>1. IndexTyped'
  BY <1>0 DEF IndexTyped
<1>2. ParentsOf(c)' = parents
  BY <1>0 DEF IndexTyped, ParentsOf
<1>3. \A x \in Id \ {c} : ParentsOf(x)' = ParentsOf(x)
  BY <1>0 DEF IndexTyped, ParentsOf
<1>4. Indexed' = Indexed \cup {c}
  BY <1>0 DEF IndexTyped, Indexed
<1>5. Closed(Indexed)'
  <2> SUFFICES ASSUME NEW x \in Indexed' PROVE Range(ParentsOf(x)') \subseteq Indexed'
    BY DEF Closed
  <2>1. CASE x = c
    BY <1>0, <1>2, <1>4, <2>1
  <2>2. CASE x # c
    BY <1>0, <1>3, <1>4, <2>2 DEF Closed
  <2> QED
    BY <2>1, <2>2
<1>6. ASSUME NEW S \in SUBSET Id, c \notin S PROVE Closed(S)' <=> Closed(S)
  BY <1>3, <1>6 DEF Closed
<1>7. ASSUME NEW S \in SUBSET Id PROVE Closed(S)' => Closed(S)
  <2>1. Range(ParentsOf(c)) = {}
    BY <1>0, ParentsTyped DEF ParentFacts, Indexed
  <2> QED
    BY <1>3, <2>1 DEF Closed
<1>8. ASSUME NEW x \in Id \ {c} PROVE Ancestors(x)' = Ancestors(x)
  <2>1. /\ Ancestors(x) \in SUBSET Id /\ x \in Ancestors(x) /\ Closed(Ancestors(x))
        /\ c \notin Ancestors(x)
    BY <1>0, <1>8, LeastClosed, AboveIndexed DEF AncestorFacts
  <2>2. /\ Ancestors(x)' \in SUBSET Id /\ x \in Ancestors(x)' /\ Closed(Ancestors(x)')
    <3>1. /\ Ancestors(x)' \subseteq Id /\ x \in Ancestors(x)' /\ Closed(Ancestors(x))'
      BY <1>1, <1>8, FactsNext DEF AncestorFacts
    <3>2. PICK S : S = Ancestors(x)'
      OBVIOUS
    <3>3. Closed(S)'
      BY <3>1, <3>2 DEF Closed
    <3> QED
      BY <1>7, <3>1, <3>2, <3>3
  <2>3. Ancestors(x) \subseteq Ancestors(x)'
    BY <1>0, <2>2, LeastClosed DEF AncestorFacts
  <2>4. Ancestors(x)' \subseteq Ancestors(x)
    <3>1. PICK S : S = Ancestors(x)
      OBVIOUS
    <3>2. S \in SUBSET Id /\ x \in S /\ Closed(S)'
      BY <1>6, <2>1, <3>1
    <3>3. Ancestors(x)' \subseteq S
      BY <1>1, <3>2, FactsNext DEF AncestorFacts
    <3> QED
      BY <3>1, <3>3
  <2> QED
    BY <2>3, <2>4
<1>9. ASSUME NEW x \in Id, NEW q \in Range(ParentsOf(x)') PROVE x \notin Ancestors(q)'
  <2>1. CASE x = c
    <3>1. q \in Indexed /\ q \in Id \ {c}
      BY <1>0, <1>2, <1>9, <2>1
    <3>2. Ancestors(q) \subseteq Indexed
      BY <1>0, <3>1, AboveIndexed
    <3> QED
      BY <1>8, <2>1, <3>1, <3>2
  <2>2. CASE x # c
    <3>1. q \in Range(ParentsOf(x)) /\ x \notin Ancestors(q)
      BY <1>3, <1>9, <2>2 DEF IndexInv
    <3>2. x \in Indexed
      BY <1>0, <3>1, ParentsTyped DEF ParentFacts, Indexed
    <3>3. q \in Indexed
      BY <1>0, <3>1, <3>2 DEF Closed
    <3> QED
      BY <1>0, <1>8, <3>1, <3>3
  <2> QED
    BY <2>1, <2>2
<1> QED
  BY <1>1, <1>2, <1>3, <1>4, <1>5, <1>8, <1>9 DEF IndexInv

-----------------------------------------------------------------------------
(* The invariants of the walks                                             *)

AskedTwo == call.a \in Id /\ call.c \in Id

\* reachable_locked: everything above the commit that is not above what is on
\* the stack has been seen, and is not what is looked for.
ReachInv ==
    pc = "reach" =>
        /\ call.op = "is_ancestor" /\ AskedTwo /\ stack \in Seq(Id)
        /\ Range(stack) \subseteq Ancestors(call.c) /\ seen \subseteq Ancestors(call.c)
        /\ call.a \notin seen
        /\ call.c \in seen \cup Range(stack)
        /\ \A x \in seen : Range(ParentsOf(x)) \subseteq seen \cup Range(stack)

Frame == [id : Id, todo : Seq(Id)]

\* Where the walk under way started.
Root == IF call.op = "nearest" /\ ofA = None THEN call.a ELSE call.c

\* What is in the set and where: put out, or in a call under way.
SeenInv ==
    /\ call.op \in {"ancestry", "nearest"} /\ AskedTwo
    /\ frames \in Seq(Frame) /\ out \in Seq(Id)
    /\ seen = Range(out) \cup {frames[i].id : i \in 1..Len(frames)}
    /\ seen \subseteq Ancestors(Root) /\ Root \in seen
    /\ \A i \in 1..Len(frames) : frames[i].id \notin Range(out)

\* Each call under way is above the ones it is called from.
PathOf(f) ==
    \A i, j \in 1..Len(f) : i < j =>
        \E q \in Range(ParentsOf(f[i].id)) : f[j].id \in Ancestors(q)

\* The parents a call does not have before it are put out or being visited.
TodoOf(f, o) ==
    \A i \in 1..Len(f) :
        /\ Range(f[i].todo) \subseteq Range(ParentsOf(f[i].id))
        /\ \A q \in Range(ParentsOf(f[i].id)) :
              \/ q \in Range(f[i].todo) \/ q \in Range(o)
              \/ i < Len(f) /\ q = f[i + 1].id

\* What is put out is there once, after its parents.
DoneOf(o) ==
    /\ \A j, k \in 1..Len(o) : o[j] = o[k] => j = k
    /\ \A j \in 1..Len(o) : \A q \in Range(ParentsOf(o[j])) : \E k \in 1..(j - 1) : o[k] = q

PathInv == PathOf(frames)
TodoInv == TodoOf(frames, out)
DoneInv == DoneOf(out)

\* collect_ancestry.
VisitInv == pc = "visit" => SeenInv /\ PathInv /\ TodoInv /\ DoneInv

\* The ancestry of a is its ancestry still, or was taken before a arrived.
NearInv ==
    /\ pc = "idle" => ofA = None
    /\ pc = "visit" /\ call.op = "ancestry" => ofA = None
    /\ pc = "between" => ofA # None
    /\ pc \in {"between", "visit"} /\ ofA # None =>
          /\ call.op = "nearest" /\ AskedTwo /\ ofA \subseteq Id
          /\ ofA = Ancestors(call.a) \/ (ofA = {call.a} /\ Ancestors(call.a) # {call.a})

WalkInv ==
    /\ ReachInv /\ VisitInv /\ NearInv
    /\ AncestryIsTopological /\ IsAncestorDecides /\ NcaIsCommon

\* What a turn of reachable_locked's loop keeps.
LEMMA ReachStep == IndexInv /\ ReachInv /\ Reach => ReachInv' /\ IsAncestorDecides'
<1> SUFFICES ASSUME IndexInv, ReachInv, Reach PROVE ReachInv' /\ IsAncestorDecides'
  OBVIOUS
<1>0. /\ IndexTyped /\ pc = "reach" /\ index' = index /\ call' = call
      /\ call.op = "is_ancestor" /\ AskedTwo /\ stack \in Seq(Id)
      /\ Range(stack) \subseteq Ancestors(call.c) /\ seen \subseteq Ancestors(call.c)
      /\ call.a \notin seen /\ call.c \in seen \cup Range(stack)
      /\ \A x \in seen : Range(ParentsOf(x)) \subseteq seen \cup Range(stack)
      /\ Ancestors(call.c) \subseteq Id
  BY LeastClosed DEF IndexInv, ReachInv, Reach, AskedTwo, AncestorFacts
<1>1. /\ \A x : ParentsOf(x)' = ParentsOf(x)
      /\ \A x : Ancestors(x)' = Ancestors(x)
  BY <1>0, SameIndex
<1>2. Ancestors(call.c)' = Ancestors(call.c)
  <2>1. PICK c : c = call.c
    OBVIOUS
  <2>2. Ancestors(call.c)' = Ancestors(c)'
    BY <1>0, <2>1 DEF Ancestors
  <2> QED
    BY <1>1, <2>1, <2>2
<1>3. CASE stack = <<>> /\ Answer(FALSE)
  <2>1. Range(stack) = {}
    BY <1>3, EmptyRange
  <2>2. Closed(seen)
    BY <1>0, <2>1 DEF Closed
  <2>3. Ancestors(call.c) \subseteq seen
    BY <1>0, <2>1, <2>2, LeastClosed DEF AncestorFacts, AskedTwo
  <2> QED
    BY <1>0, <1>2, <1>3, <2>3 DEF ReachInv, IsAncestorDecides, Answer
<1>4. CASE stack # <<>> /\ Last(stack) = call.a /\ Answer(TRUE)
  <2>1. call.a \in Range(stack)
    BY <1>0, <1>4, FrontLast
  <2> QED
    BY <1>0, <1>2, <1>4, <2>1 DEF ReachInv, IsAncestorDecides, Answer
<1>5. CASE /\ stack # <<>> /\ Last(stack) # call.a
           /\ stack' = IF Last(stack) \in seen THEN Front(stack)
                       ELSE Front(stack) \o ParentsOf(Last(stack))
           /\ seen' = seen \cup {Last(stack)} /\ pc' = pc
  <2> DEFINE x == Last(stack)
             next == IF x \in seen THEN <<>> ELSE ParentsOf(x)
  <2>1. /\ Front(stack) \in Seq(Id) /\ x \in Id
        /\ Range(stack) = Range(Front(stack)) \cup {x}
    BY <1>0, <1>5, FrontLast
  <2>2. ParentsOf(x) \in Seq(Id) /\ Range(ParentsOf(x)) \subseteq Ancestors(call.c)
    <3>1. x \in Ancestors(call.c) /\ Closed(Ancestors(call.c))
      BY <1>0, <2>1, LeastClosed DEF AncestorFacts, AskedTwo
    <3> QED
      BY <1>0, <2>1, <3>1, ParentsTyped DEF ParentFacts, Closed
  <2>3. /\ stack' \in Seq(Id)
        /\ Range(stack') = Range(Front(stack)) \cup (IF x \in seen THEN {} ELSE Range(ParentsOf(x)))
    BY <1>5, <2>1, <2>2, RangeConcat
  <2>4. /\ Range(stack') \subseteq Ancestors(call.c) /\ seen' \subseteq Ancestors(call.c)
        /\ call.a \notin seen' /\ call.c \in seen' \cup Range(stack')
    BY <1>0, <1>5, <2>1, <2>2, <2>3
  <2>5. \A y \in seen' : Range(ParentsOf(y)) \subseteq seen' \cup Range(stack')
    BY <1>0, <1>5, <2>1, <2>3
  <2>6. \A y \in seen' : Range(ParentsOf(y)') \subseteq seen' \cup Range(stack')
    BY <1>1, <2>5
  <2> QED
    BY <1>0, <1>2, <1>5, <2>3, <2>4, <2>6 DEF ReachInv, AskedTwo, IsAncestorDecides, Answered
<1> QED
  BY <1>3, <1>4, <1>5 DEF Reach

\* The walks are judged by the index, which stays as it is.
LEMMA SameVisit ==
    ASSUME index' = index
    PROVE  /\ PathInv' <=> PathOf(frames')
           /\ TodoInv' <=> TodoOf(frames', out')
           /\ DoneInv' <=> DoneOf(out')
<1>1. PathInv' <=> PathOf(frames')
  BY DEF PathInv, PathOf, ParentsOf, Ancestors, Closed
<1>2. TodoInv' <=> TodoOf(frames', out')
  BY DEF TodoInv, TodoOf, ParentsOf
<1>3. DoneInv' <=> DoneOf(out')
  BY DEF DoneInv, DoneOf, ParentsOf
<1> QED
  BY <1>1, <1>2, <1>3

\* A walk that starts is as it should be.
LEMMA EnterStep ==
    ASSUME IndexInv, index' = index, NEW c \in Id, Enter(c), Root' = c,
           call'.op \in {"ancestry", "nearest"}, AskedTwo'
    PROVE  VisitInv'
<1>0. IndexTyped /\ ParentsOf(c) \in Seq(Id) /\ c \in Ancestors(c)
  BY ParentsTyped, LeastClosed DEF IndexInv, ParentFacts, AncestorFacts
<1>1. /\ \A x : ParentsOf(x)' = ParentsOf(x)
      /\ \A x : Ancestors(x)' = Ancestors(x)
  BY SameIndex
<1>2. /\ frames' = <<[id |-> c, todo |-> ParentsOf(c)]>> /\ seen' = {c} /\ out' = <<>>
  BY DEF Enter
<1>3. /\ frames' \in Seq(Frame) /\ Len(frames') = 1
      /\ frames'[1].id = c /\ frames'[1].todo = ParentsOf(c)
  BY <1>0, <1>2 DEF Frame
<1>4. out' \in Seq(Id) /\ Len(out') = 0 /\ Range(out') = {}
  BY <1>2, EmptyRange
<1>5. {frames'[i].id : i \in 1..Len(frames')} = {c}
  BY <1>3
<1>6. Ancestors(Root)' = Ancestors(c)
  <2>1. Ancestors(Root)' = Ancestors(c)'
    BY DEF Ancestors
  <2> QED
    BY <1>1, <2>1
<1>7. SeenInv'
  BY <1>0, <1>2, <1>3, <1>4, <1>5, <1>6 DEF SeenInv
<1>8. PathOf(frames') /\ DoneOf(out') /\ TodoOf(frames', out')
  BY <1>3, <1>4 DEF PathOf, DoneOf, TodoOf
<1> QED
  BY <1>7, <1>8, SameVisit DEF VisitInv

\* A parent of the innermost call that was seen has been put out: were its
\* call still under way, it would be above itself.
LEMMA SeenIsOut ==
    ASSUME IndexInv, SeenInv, PathInv, frames # <<>>,
           NEW q \in Range(ParentsOf(Last(frames).id)), q \in seen
    PROVE  q \in Range(out)
<1> DEFINE n == Len(frames)
           t == frames[n].id
<1>0. frames \in Seq(Frame) /\ IndexTyped
  BY DEF SeenInv, IndexInv
<1>1. /\ n \in Nat /\ n >= 1 /\ Last(frames) = frames[n] /\ frames[n] \in Frame
      /\ t \in Id /\ q \in Range(ParentsOf(t))
  <2>1. /\ n \in Nat /\ n >= 1 /\ Last(frames) = frames[n] /\ Last(frames) \in Frame
    BY <1>0, FrontLast
  <2> QED
    BY <2>1 DEF Frame
<1>2. SUFFICES ASSUME NEW i \in 1..n, frames[i].id = q PROVE FALSE
  BY DEF SeenInv
<1>3. q \in Id /\ q \in Ancestors(q) /\ q \in Ancestors(t)
  BY <1>0, <1>1, LeastClosed DEF AncestorFacts
<1>4. CASE i = n
  BY <1>1, <1>2, <1>3, <1>4 DEF IndexInv
<1>5. CASE i # n
  <2>1. PICK p \in Range(ParentsOf(q)) : t \in Ancestors(p)
    BY <1>1, <1>2, <1>5 DEF PathInv, PathOf
  <2>2. p \in Id
    BY <1>0, <1>3, <2>1, LeastClosed DEF AncestorFacts
  <2>3. q \in Ancestors(p)
    BY <1>0, <1>1, <1>3, <2>1, <2>2, LeastClosed DEF AncestorFacts
  <2> QED
    BY <1>3, <2>1, <2>3 DEF IndexInv
<1> QED
  BY <1>4, <1>5

\* A call that takes its next parent and calls itself for it.
LEMMA TodoPush ==
    ASSUME NEW f \in Seq(Frame), f # <<>>, NEW o, TodoOf(f, o), Last(f).todo # <<>>,
           NEW inner \in Frame, inner.id = Head(Last(f).todo), inner.todo = ParentsOf(inner.id),
           NEW less \in Frame, less.id = Last(f).id, less.todo = Tail(Last(f).todo)
    PROVE  /\ Append(Append(Front(f), less), inner) \in Seq(Frame)
           /\ TodoOf(Append(Append(Front(f), less), inner), o)
<1> DEFINE n == Len(f)
           rest == Append(Front(f), less)
           g == Append(rest, inner)
           q == inner.id
<1>1. /\ n \in Nat /\ n >= 1 /\ Last(f) = f[n] /\ f[n] \in Frame
      /\ Front(f) \in Seq(Frame) /\ Len(Front(f)) = n - 1
      /\ \A i \in 1..(n - 1) : Front(f)[i] = f[i]
  BY FrontLast
<1>2. Range(f[n].todo) = {q} \cup Range(less.todo)
  BY <1>1, HeadTail DEF Frame
<1>3. /\ rest \in Seq(Frame) /\ Len(rest) = n /\ rest[n] = less
      /\ \A i \in 1..(n - 1) : rest[i] = f[i]
  BY <1>1, AppendFacts
<1> HIDE DEF rest
<1>4. /\ g \in Seq(Frame) /\ Len(g) = n + 1 /\ g[n + 1] = inner
      /\ \A i \in 1..n : g[i] = rest[i]
  BY <1>3, AppendFacts
<1> HIDE DEF g
<1>5. \A i \in 1..n :
        /\ Range(f[i].todo) \subseteq Range(ParentsOf(f[i].id))
        /\ \A p \in Range(ParentsOf(f[i].id)) :
              p \in Range(f[i].todo) \/ p \in Range(o) \/ (i < n /\ p = f[i + 1].id)
  BY DEF TodoOf
<1>6. SUFFICES ASSUME NEW i \in 1..(n + 1)
               PROVE  /\ Range(g[i].todo) \subseteq Range(ParentsOf(g[i].id))
                      /\ \A p \in Range(ParentsOf(g[i].id)) :
                            \/ p \in Range(g[i].todo) \/ p \in Range(o)
                            \/ i < n + 1 /\ p = g[i + 1].id
  BY <1>4 DEF TodoOf, g, rest
<1>7. CASE i = n + 1
  BY <1>4, <1>7
<1>8. CASE i = n
  <2>1. g[i] = less /\ g[i + 1] = inner /\ i < n + 1 /\ n \in 1..n /\ ~(n < n)
    BY <1>1, <1>3, <1>4, <1>8
  <2>2. /\ Range(f[n].todo) \subseteq Range(ParentsOf(less.id))
        /\ \A p \in Range(ParentsOf(less.id)) : p \in Range(f[n].todo) \/ p \in Range(o)
    BY <1>1, <1>5, <2>1
  <2> QED
    BY <1>2, <2>1, <2>2
<1>9. CASE i < n
  <2>1. i \in 1..(n - 1) /\ i \in 1..n /\ i + 1 \in 1..n /\ i < n + 1
    BY <1>1, <1>9
  <2>2. g[i] = f[i] /\ g[i + 1].id = f[i + 1].id
    <3>1. g[i] = f[i] /\ g[i + 1] = rest[i + 1]
      BY <1>3, <1>4, <2>1
    <3>2. i + 1 = n \/ i + 1 \in 1..(n - 1)
      BY <1>1, <2>1
    <3> QED
      BY <1>1, <1>3, <3>1, <3>2
  <2> QED
    BY <1>5, <2>1, <2>2
<1> QED
  BY <1>1, <1>7, <1>8, <1>9

\* A call that returns, with its commit put out.
LEMMA TodoPop ==
    ASSUME NEW f \in Seq(Frame), f # <<>>, NEW o, NEW u, TodoOf(f, o),
           Range(o) \cup {Last(f).id} \subseteq Range(u)
    PROVE  Front(f) \in Seq(Frame) /\ TodoOf(Front(f), u)
<1> DEFINE n == Len(f)
<1>1. /\ n \in Nat /\ n >= 1 /\ Last(f) = f[n]
      /\ Front(f) \in Seq(Frame) /\ Len(Front(f)) = n - 1
      /\ \A i \in 1..(n - 1) : Front(f)[i] = f[i]
  BY FrontLast
<1>2. SUFFICES ASSUME NEW i \in 1..(n - 1)
               PROVE  /\ Range(f[i].todo) \subseteq Range(ParentsOf(f[i].id))
                      /\ \A p \in Range(ParentsOf(f[i].id)) :
                            \/ p \in Range(f[i].todo) \/ p \in Range(u)
                            \/ i < n - 1 /\ p = Front(f)[i + 1].id
  BY <1>1 DEF TodoOf
<1>3. /\ Range(f[i].todo) \subseteq Range(ParentsOf(f[i].id))
      /\ \A p \in Range(ParentsOf(f[i].id)) :
            p \in Range(f[i].todo) \/ p \in Range(o) \/ p = f[i + 1].id
  <2>1. i \in 1..Len(f)
    BY <1>1
  <2> QED
    BY <2>1 DEF TodoOf
<1>4. i + 1 = n \/ (i < n - 1 /\ Front(f)[i + 1] = f[i + 1])
  BY <1>1
<1> QED
  BY <1>1, <1>3, <1>4

\* The parents of the innermost call are put out when it has none left.
LEMMA TodoEmpty ==
    ASSUME NEW f \in Seq(Frame), f # <<>>, NEW o, TodoOf(f, o), Last(f).todo = <<>>
    PROVE  Range(ParentsOf(Last(f).id)) \subseteq Range(o)
<1>1. Len(f) \in Nat /\ Len(f) >= 1 /\ Last(f) = f[Len(f)]
  BY FrontLast
<1>2. Len(f) \in 1..Len(f) /\ ~(Len(f) < Len(f))
  BY <1>1
<1>3. Range(f[Len(f)].todo) = {}
  BY <1>1, EmptyRange
<1> QED
  BY <1>1, <1>2, <1>3 DEF TodoOf

\* A commit put out after its parents.
LEMMA DoneAppend ==
    ASSUME NEW o \in Seq(Id), DoneOf(o), NEW x \in Id \ Range(o),
           Range(ParentsOf(x)) \subseteq Range(o)
    PROVE  DoneOf(Append(o, x))
<1> DEFINE m == Len(o)
           u == Append(o, x)
<1>0. m \in Nat
  OBVIOUS
<1>1. /\ u \in Seq(Id) /\ Len(u) = m + 1 /\ u[m + 1] = x
      /\ \A i \in 1..m : u[i] = o[i]
  BY AppendFacts
<1> HIDE DEF u
<1>2. /\ \A j, k \in 1..m : o[j] = o[k] => j = k
      /\ \A j \in 1..m : \A q \in Range(ParentsOf(o[j])) : \E k \in 1..(j - 1) : o[k] = q
  BY DEF DoneOf
<1>3. \A y : y \in Range(o) <=> \E k \in 1..m : o[k] = y
  BY RangeAt
<1>4. \A j \in 1..(m + 1) : j = m + 1 \/ j \in 1..m
  BY <1>0
<1>5. \A j, k \in 1..(m + 1) : u[j] = u[k] => j = k
  BY <1>1, <1>2, <1>3, <1>4
<1>6. ASSUME NEW j \in 1..(m + 1), NEW q \in Range(ParentsOf(u[j]))
      PROVE  \E k \in 1..(j - 1) : u[k] = q
  <2>1. CASE j = m + 1
    <3>1. PICK k \in 1..m : o[k] = q
      BY <1>1, <1>3, <1>6, <2>1
    <3> QED
      BY <1>0, <1>1, <2>1, <3>1
  <2>2. CASE j \in 1..m
    <3>1. PICK k \in 1..(j - 1) : o[k] = q
      BY <1>1, <1>2, <1>6, <2>2
    <3>2. k \in 1..m
      BY <1>0, <2>2
    <3> QED
      BY <1>1, <3>1, <3>2
  <2> QED
    BY <1>4, <2>1, <2>2
<1> QED
  BY <1>1, <1>5, <1>6 DEF DoneOf, u

\* Taking the next parent.
LEMMA DescendStep == IndexInv /\ VisitInv /\ Descend => VisitInv'
<1> SUFFICES ASSUME IndexInv, VisitInv, Descend PROVE VisitInv'
  OBVIOUS
<1> DEFINE n == Len(frames)
           top == frames[n]
           q == Head(top.todo)
           less == [top EXCEPT !.todo = Tail(@)]
           rest == Append(Front(frames), less)
           inner == [id |-> q, todo |-> ParentsOf(q)]
<1>0. /\ IndexTyped /\ SeenInv /\ PathInv /\ TodoInv /\ DoneInv /\ frames # <<>>
      /\ index' = index /\ UNCHANGED <<pc, call, out, ofA>> /\ frames \in Seq(Frame)
  BY DEF Descend, IndexInv, VisitInv, SeenInv
<1>1. /\ n \in Nat /\ n >= 1 /\ Last(frames) = top /\ top \in Frame
      /\ Front(frames) \in Seq(Frame) /\ Len(Front(frames)) = n - 1
      /\ \A i \in 1..(n - 1) : Front(frames)[i] = frames[i]
  BY <1>0, FrontLast
<1>2. /\ frames' = IF q \in seen THEN rest ELSE Append(rest, inner)
      /\ seen' = seen \cup {q} /\ top.todo # <<>>
  BY <1>1 DEF Descend
<1>3. /\ top.id \in Id /\ top.todo \in Seq(Id) /\ q \in Id /\ Tail(top.todo) \in Seq(Id)
      /\ Range(top.todo) = {q} \cup Range(Tail(top.todo))
  BY <1>1, <1>2, HeadTail DEF Frame
<1>4. less \in Frame /\ less.id = top.id /\ less.todo = Tail(top.todo)
  BY <1>1, <1>3 DEF Frame
<1> HIDE DEF less
<1>5. /\ rest \in Seq(Frame) /\ Len(rest) = n /\ rest[n] = less
      /\ \A i \in 1..(n - 1) : rest[i] = frames[i]
  BY <1>1, <1>4, AppendFacts
<1> HIDE DEF rest
<1>6. \A i \in 1..n : rest[i].id = frames[i].id
  BY <1>1, <1>4, <1>5
<1>7. /\ q \in Range(ParentsOf(top.id))
      /\ \A p \in Range(ParentsOf(top.id)) :
            p = q \/ p \in Range(less.todo) \/ p \in Range(out)
      /\ Range(less.todo) \subseteq Range(ParentsOf(top.id))
  <2>1. /\ Range(top.todo) \subseteq Range(ParentsOf(top.id))
        /\ \A p \in Range(ParentsOf(top.id)) : p \in Range(top.todo) \/ p \in Range(out)
    <3>1. n \in 1..Len(frames) /\ ~(n < Len(frames))
      BY <1>1
    <3> QED
      BY <1>0, <3>1 DEF TodoInv, TodoOf
  <2>2. Range(top.todo) = {q} \cup Range(less.todo)
    BY <1>3, <1>4
  <2> HIDE DEF q, top
  <2> QED
    BY <2>1, <2>2
<1>8. /\ \A x : ParentsOf(x)' = ParentsOf(x)
      /\ \A x : Ancestors(x)' = Ancestors(x)
  BY <1>0, SameIndex
<1>9. DoneOf(out')
  BY <1>0 DEF DoneInv
<1>10. Ancestors(Root)' = Ancestors(Root) /\ Root' = Root /\ Root \in Id
  <2>1. Root' = Root /\ Root \in Id
    BY <1>0 DEF Root, SeenInv, AskedTwo
  <2>2. PICK r : r = Root
    OBVIOUS
  <2>3. Ancestors(Root)' = Ancestors(r)'
    BY <2>1, <2>2 DEF Ancestors
  <2> QED
    BY <1>8, <2>1, <2>2, <2>3
<1>11. q \in Ancestors(top.id) /\ q \in Ancestors(Root) /\ q \in Ancestors(q)
  <2>1. top.id \in seen
    BY <1>0, <1>1 DEF SeenInv
  <2> QED
    BY <1>0, <1>3, <1>7, <1>10, <2>1, LeastClosed DEF SeenInv, AncestorFacts
<1>12. CASE q \in seen
  <2>1. q \in Range(out)
    BY <1>0, <1>1, <1>7, <1>12, SeenIsOut
  <2>2. frames' = rest /\ seen' = seen
    BY <1>2, <1>12
  <2>3. SeenInv'
    <3>1. {frames'[i].id : i \in 1..Len(frames')} = {frames[i].id : i \in 1..Len(frames)}
      BY <1>5, <1>6, <2>2
    <3> QED
      BY <1>0, <1>5, <1>6, <1>10, <2>2, <3>1 DEF SeenInv, AskedTwo
  <2>4. PathOf(frames')
    BY <1>0, <1>5, <1>6, <2>2 DEF PathInv, PathOf
  <2>5. TodoOf(frames', out')
    <3> SUFFICES ASSUME NEW i \in 1..n
                 PROVE  /\ Range(rest[i].todo) \subseteq Range(ParentsOf(frames[i].id))
                        /\ \A p \in Range(ParentsOf(frames[i].id)) :
                              \/ p \in Range(rest[i].todo) \/ p \in Range(out)
                              \/ i < n /\ p = rest[i + 1].id
      BY <1>0, <1>5, <1>6, <2>2 DEF TodoOf
    <3>1. CASE i = n
      BY <1>4, <1>5, <1>7, <2>1, <3>1
    <3>2. CASE i # n
      <4>1. /\ rest[i].todo = frames[i].todo /\ i < n /\ i + 1 \in 1..n
            /\ rest[i + 1].id = frames[i + 1].id
        BY <1>1, <1>5, <1>6, <3>2
      <4> QED
        BY <1>0, <4>1 DEF TodoInv, TodoOf
    <3> QED
      BY <3>1, <3>2
  <2> QED
    BY <1>0, <1>9, <2>3, <2>4, <2>5, SameVisit DEF VisitInv
<1>13. CASE q \notin seen
  <2>1. inner \in Frame /\ inner.id = q /\ inner.todo = ParentsOf(q)
    BY <1>0, <1>3, ParentsTyped DEF Frame, ParentFacts
  <2> HIDE DEF inner
  <2>2. /\ frames' = Append(rest, inner) /\ seen' = seen \cup {q}
        /\ frames' \in Seq(Frame) /\ Len(frames') = n + 1 /\ frames'[n + 1] = inner
        /\ \A i \in 1..n : frames'[i] = rest[i]
    BY <1>2, <1>5, <1>13, <2>1, AppendFacts
  <2>3. SeenInv'
    <3>1. \A i \in 1..(n + 1) : frames'[i].id = IF i = n + 1 THEN q ELSE frames[i].id
      BY <1>1, <1>6, <2>1, <2>2
    <3>2. {frames'[i].id : i \in 1..(n + 1)} = {frames[i].id : i \in 1..n} \cup {q}
      <4>1. 1..(n + 1) = 1..n \cup {n + 1} /\ n + 1 \notin 1..n
        BY <1>1
      <4> QED
        BY <3>1, <4>1
    <3>3. /\ q \notin Range(out) /\ out \in Seq(Id)
          /\ seen = Range(out) \cup {frames[i].id : i \in 1..n}
          /\ seen \subseteq Ancestors(Root) /\ Root \in seen
          /\ \A i \in 1..n : frames[i].id \notin Range(out)
          /\ call.op \in {"ancestry", "nearest"} /\ AskedTwo
      BY <1>0, <1>13 DEF SeenInv
    <3>4. /\ seen' = Range(out) \cup {frames'[i].id : i \in 1..(n + 1)}
          /\ seen' \subseteq Ancestors(Root) /\ Root \in seen'
      BY <1>11, <2>2, <3>2, <3>3
    <3>5. \A i \in 1..(n + 1) : frames'[i].id \notin Range(out)
      <4> SUFFICES ASSUME NEW i \in 1..(n + 1) PROVE frames'[i].id \notin Range(out)
        OBVIOUS
      <4>1. i = n + 1 \/ i \in 1..n
        BY <1>1
      <4> QED
        BY <1>1, <3>1, <3>3, <4>1
    <3>6. AskedTwo' /\ call' = call /\ out' = out
      BY <1>0, <3>3 DEF AskedTwo
    <3> QED
      BY <1>10, <2>2, <3>3, <3>4, <3>5, <3>6 DEF SeenInv
  <2>4. PathOf(frames')
    <3> SUFFICES ASSUME NEW i \in 1..(n + 1), NEW j \in 1..(n + 1), i < j
                 PROVE  \E p \in Range(ParentsOf(frames'[i].id)) : frames'[j].id \in Ancestors(p)
      BY <2>2 DEF PathOf
    <3>1. i \in 1..n /\ frames'[i].id = frames[i].id
      BY <1>1, <1>6, <2>2
    <3>2. CASE j = n + 1
      <4>1. CASE i = n
        BY <1>7, <1>11, <2>1, <2>2, <3>1, <3>2, <4>1
      <4>2. CASE i # n
        <5>1. PICK p \in Range(ParentsOf(frames[i].id)) : top.id \in Ancestors(p)
          BY <1>0, <1>1, <3>1, <4>2 DEF PathInv, PathOf
        <5>2. frames[i].id \in Id
          <6>1. frames[i] \in Frame
            BY <1>0, <3>1
          <6> QED
            BY <6>1 DEF Frame
        <5>3. p \in Id
          BY <1>0, <5>1, <5>2, LeastClosed DEF AncestorFacts
        <5>4. q \in Ancestors(p)
          BY <1>0, <1>11, <5>1, <5>3, LeastClosed DEF AncestorFacts
        <5> QED
          BY <2>1, <2>2, <3>1, <3>2, <5>1, <5>4
      <4> QED
        BY <4>1, <4>2
    <3>3. CASE j # n + 1
      <4>1. j \in 1..n /\ frames'[j].id = frames[j].id
        BY <1>1, <1>6, <2>2, <3>3
      <4> QED
        BY <1>0, <3>1, <4>1 DEF PathInv, PathOf
    <3> QED
      BY <3>2, <3>3
  <2>5. TodoOf(frames', out')
    <3>1. frames' = Append(Append(Front(frames), less), inner)
      BY <2>2 DEF rest
    <3> QED
      BY <1>0, <1>1, <1>2, <1>4, <2>1, <3>1, TodoPush DEF TodoInv
  <2> QED
    BY <1>0, <1>9, <2>3, <2>4, <2>5, SameVisit DEF VisitInv
<1> QED
  BY <1>12, <1>13

\* Putting a commit out, whose parents all are.
LEMMA FinishStep == IndexInv /\ VisitInv /\ Finish => VisitInv'
<1> SUFFICES ASSUME IndexInv, VisitInv, Finish PROVE VisitInv'
  OBVIOUS
<1> DEFINE n == Len(frames)
           m == Len(out)
           top == frames[n]
<1>0. /\ IndexTyped /\ SeenInv /\ PathInv /\ TodoInv /\ DoneInv /\ frames # <<>>
      /\ index' = index /\ UNCHANGED <<pc, call, seen, ofA>>
      /\ frames \in Seq(Frame) /\ out \in Seq(Id) /\ m \in Nat
  BY DEF Finish, IndexInv, VisitInv, SeenInv
<1>1. /\ n \in Nat /\ n >= 1 /\ Last(frames) = top /\ top \in Frame
      /\ Front(frames) \in Seq(Frame) /\ Len(Front(frames)) = n - 1
      /\ \A i \in 1..(n - 1) : Front(frames)[i] = frames[i]
  BY <1>0, FrontLast
<1>2. /\ frames' = Front(frames) /\ out' = Append(out, top.id) /\ top.todo = <<>> /\ top.id \in Id
  BY <1>1 DEF Finish, Frame
<1>3. /\ out' \in Seq(Id) /\ Len(out') = m + 1 /\ out'[m + 1] = top.id
      /\ \A i \in 1..m : out'[i] = out[i]
      /\ Range(out') = Range(out) \cup {top.id}
  BY <1>0, <1>2, AppendFacts
<1>4. Range(ParentsOf(top.id)) \subseteq Range(out)
  BY <1>0, <1>1, <1>2, TodoEmpty DEF TodoInv
<1>5. top.id \notin Range(out)
  BY <1>0, <1>1 DEF SeenInv
<1>6. \A i \in 1..(n - 1) : i \in 1..n /\ i + 1 \in 1..n /\ i < n /\ frames'[i] = frames[i]
  BY <1>1, <1>2
<1>7. PathOf(frames')
  BY <1>0, <1>1, <1>2, <1>6 DEF PathInv, PathOf
<1>8. TodoOf(frames', out')
  BY <1>0, <1>1, <1>2, <1>3, TodoPop DEF TodoInv
<1>9. DoneOf(out')
  BY <1>0, <1>2, <1>4, <1>5, DoneAppend DEF DoneInv
<1>10. Ancestors(Root)' = Ancestors(Root) /\ Root' = Root
  <2>1. Root' = Root
    BY <1>0 DEF Root
  <2> QED
    BY <1>0, <2>1 DEF Ancestors, Closed, ParentsOf
<1>11. SeenInv'
  <2>1. /\ seen = Range(out) \cup {frames[i].id : i \in 1..n}
        /\ \A i \in 1..n : frames[i].id \notin Range(out)
        /\ call.op \in {"ancestry", "nearest"} /\ AskedTwo
        /\ seen \subseteq Ancestors(Root) /\ Root \in seen
    BY <1>0 DEF SeenInv
  <2>2. 1..n = 1..(n - 1) \cup {n}
    BY <1>1
  <2>3. {frames'[i].id : i \in 1..(n - 1)} \cup {top.id} = {frames[i].id : i \in 1..n}
    <3>1. {frames'[i].id : i \in 1..(n - 1)} = {frames[i].id : i \in 1..(n - 1)}
      BY <1>6
    <3>2. {frames[i].id : i \in 1..n} = {frames[i].id : i \in 1..(n - 1)} \cup {frames[n].id}
      BY <2>2, Zenon
    <3> QED
      BY <3>1, <3>2
  <2>4. seen' = Range(out') \cup {frames'[i].id : i \in 1..(n - 1)}
    BY <1>0, <1>3, <2>1, <2>3
  <2>5. ASSUME NEW i \in 1..(n - 1) PROVE frames'[i].id \notin Range(out')
    <3>1. frames[i].id # top.id
      <4>1. PICK q \in Range(ParentsOf(frames[i].id)) : top.id \in Ancestors(q)
        <5>1. i \in 1..Len(frames) /\ n \in 1..Len(frames) /\ i < n
          BY <1>1, <1>6
        <5> QED
          BY <1>0, <5>1 DEF PathInv, PathOf
      <4>2. frames[i] \in Frame
        BY <1>0, <1>6
      <4> QED
        BY <4>1, <4>2 DEF IndexInv, Frame
    <3> QED
      BY <1>3, <1>6, <2>1, <3>1
  <2>6. AskedTwo' /\ Len(frames') = n - 1 /\ frames' \in Seq(Frame)
    BY <1>0, <1>1, <1>2, <2>1 DEF AskedTwo
  <2> HIDE DEF n, top
  <2> QED
    BY <1>0, <1>3, <1>10, <2>1, <2>4, <2>5, <2>6 DEF SeenInv
<1> QED
  BY <1>0, <1>7, <1>8, <1>9, <1>11, SameVisit DEF VisitInv

\* What a walk that is over has put out.
LEMMA WalkOver ==
    ASSUME IndexInv, SeenInv, DoneInv, frames = <<>>
    PROVE  Range(out) = Ancestors(Root) /\ IsInjective(out) /\ ParentsFirst(out)
<1>0. /\ IndexTyped /\ out \in Seq(Id) /\ Root \in Id /\ DOMAIN out = 1..Len(out) /\ Len(out) \in Nat
      /\ seen \subseteq Ancestors(Root) /\ Root \in seen
  BY DEF IndexInv, SeenInv, Root, AskedTwo
<1>1. seen = Range(out)
  <2>1. {frames[i].id : i \in 1..Len(frames)} = {}
    OBVIOUS
  <2> QED
    BY <2>1 DEF SeenInv
<1>2. \A x : x \in Range(out) <=> \E i \in 1..Len(out) : out[i] = x
  BY <1>0, RangeAt
<1>3. Closed(Range(out))
  <2> SUFFICES ASSUME NEW x \in Range(out), NEW q \in Range(ParentsOf(x)) PROVE q \in Range(out)
    BY DEF Closed
  <2>1. PICK j \in 1..Len(out) : out[j] = x
    BY <1>2
  <2>2. PICK k \in 1..(j - 1) : out[k] = q
    BY <2>1 DEF DoneInv, DoneOf
  <2>3. k \in 1..Len(out)
    BY <1>0
  <2> QED
    BY <1>2, <2>2, <2>3
<1>4. Range(out) = Ancestors(Root)
  <2>1. Range(out) \in SUBSET Id
    BY <1>0, RangeAt
  <2>2. Ancestors(Root) \subseteq Range(out)
    BY <1>0, <1>1, <1>3, <2>1, LeastClosed DEF AncestorFacts
  <2> QED
    BY <1>0, <1>1, <2>2
<1>5. IsInjective(out)
  BY <1>0 DEF DoneInv, DoneOf, IsInjective
<1>6. ParentsFirst(out)
  <2> SUFFICES ASSUME NEW i \in 1..Len(out), NEW j \in 1..Len(out), out[i] \in Range(ParentsOf(out[j]))
               PROVE  i < j
    BY <1>0 DEF ParentsFirst
  <2>1. PICK k \in 1..(j - 1) : out[k] = out[i]
    BY DEF DoneInv, DoneOf
  <2>2. k \in 1..Len(out) /\ k < j
    BY <1>0
  <2>3. k = i
    BY <2>1, <2>2 DEF DoneInv, DoneOf
  <2> QED
    BY <2>2, <2>3
<1> QED
  BY <1>4, <1>5, <1>6

\* Nothing is asked of the walk that is not under way.
LEMMA Elsewhere ==
    /\ pc' # "reach" => ReachInv'
    /\ pc' # "visit" => VisitInv'
    /\ pc' \notin {"idle", "between", "visit"} => NearInv'
    /\ pc' # "answer" => AncestryIsTopological' /\ IsAncestorDecides' /\ NcaIsCommon'
    /\ call'.op # "ancestry" => AncestryIsTopological'
    /\ call'.op # "is_ancestor" => IsAncestorDecides'
    /\ call'.op # "nearest" => NcaIsCommon'
BY DEF ReachInv, VisitInv, NearInv, AncestryIsTopological, IsAncestorDecides, NcaIsCommon, Answered

\* The first of a list in a set, if there is one.
LEMMA FirstFound ==
    ASSUME NEW list \in Seq(Id), NEW S
    PROVE  IF FirstOf(list, S) # None THEN FirstOf(list, S) \in Range(list) \cap S
           ELSE Range(list) \cap S = {}
<1> DEFINE hits == {i \in DOMAIN list : list[i] \in S}
<1>0. DOMAIN list = 1..Len(list) /\ Len(list) \in Nat
      /\ \A x : x \in Range(list) <=> \E i \in 1..Len(list) : list[i] = x
  BY RangeAt
<1>1. CASE hits = {}
  <2>1. FirstOf(list, S) = None
    BY <1>1 DEF FirstOf
  <2>2. \A x : x \notin Range(list) \cap S
    BY <1>0, <1>1
  <2> QED
    BY <2>1, <2>2
<1>2. CASE hits # {}
  <2>1. hits \subseteq Nat
    BY <1>0
  <2>2. \E i \in hits : \A j \in hits : i <= j
    <3>1. PICK i \in hits : \A j \in hits : <<j, i>> \notin OpToRel(<, Nat)
      BY <1>2, <2>1, WFMin, NatLessThanWellFounded, Zenon
    <3> HIDE DEF hits
    <3>2. \A j \in hits : ~(j < i)
      BY <2>1, <3>1 DEF OpToRel
    <3>3. \A j \in hits : i <= j
      BY <2>1, <3>2
    <3> QED
      BY <3>3
  <2> DEFINE i == CHOOSE i \in hits : \A j \in hits : i <= j
  <2>3. i \in hits
    BY <2>2
  <2>4. FirstOf(list, S) = list[i]
    BY <1>2 DEF FirstOf
  <2> HIDE DEF i
  <2>5. list[i] \in Id /\ list[i] \in Range(list) \cap S
    BY <1>0, <2>3
  <2>6. list[i] # None
    BY <2>5, IdAssumption
  <2> QED
    BY <2>4, <2>5, <2>6
<1> QED
  BY <1>1, <1>2

\* What the two ancestries say of a and b.
LEMMA WalkedStep == IndexInv /\ WalkInv /\ Walked => WalkInv'
<1> SUFFICES ASSUME IndexInv, WalkInv, Walked PROVE WalkInv'
  OBVIOUS
<1>0. /\ SeenInv /\ DoneInv /\ NearInv /\ frames = <<>> /\ AskedTwo
      /\ index' = index /\ call' = call /\ pc = "visit" /\ out \in Seq(Id)
  BY DEF Walked, WalkInv, VisitInv, SeenInv
<1>1. Range(out) = Ancestors(Root) /\ IsInjective(out) /\ ParentsFirst(out)
  BY <1>0, WalkOver
<1>2. /\ Ancestors(call.a)' = Ancestors(call.a) /\ Ancestors(call.c)' = Ancestors(call.c)
      /\ Range(out) \subseteq Id
  <2>1. PICK a, c : a = call.a /\ c = call.c
    OBVIOUS
  <2>2. Ancestors(call.a)' = Ancestors(a)' /\ Ancestors(call.c)' = Ancestors(c)'
    BY <1>0, <2>1 DEF Ancestors
  <2> QED
    BY <1>0, <2>1, <2>2, SameIndex, RangeAt
<1>3. CASE call.op = "ancestry" /\ Answer(out)
  <2>1. Root = call.c
    BY <1>3 DEF Root
  <2>2. answer' = out /\ pc' = "answer"
    BY <1>3 DEF Answer
  <2>3. PICK list : list = out
    OBVIOUS
  <2>4. ParentsFirst(list)' <=> ParentsFirst(list)
    BY <1>0 DEF ParentsFirst, ParentsOf
  <2>5. AncestryIsTopological'
    <3>1. ParentsFirst(answer)' <=> ParentsFirst(list)'
      BY <2>2, <2>3 DEF ParentsFirst
    <3> QED
      BY <1>1, <1>2, <2>1, <2>2, <2>3, <2>4, <3>1 DEF AncestryIsTopological
  <2> QED
    BY <1>0, <1>3, <2>2, <2>5, Elsewhere DEF WalkInv
<1>4. CASE call.op = "nearest" /\ ofA = None /\ ofA' = Range(out) /\ pc' = "between"
  <2>1. Root = call.a
    BY <1>4 DEF Root
  <2>2. ofA' # None
    BY <1>2, <1>4, IdAssumption
  <2>3. NearInv'
    BY <1>0, <1>1, <1>2, <1>4, <2>1, <2>2 DEF NearInv, AskedTwo
  <2> QED
    BY <1>4, <2>3, Elsewhere DEF WalkInv
<1>5. CASE call.op = "nearest" /\ ofA # None /\ Answer(FirstOf(out, ofA)) /\ ofA' = ofA
  <2>1. Root = call.c
    BY <1>5 DEF Root
  <2>2. /\ ofA \subseteq Ancestors(call.a)
        /\ ofA = Ancestors(call.a) \/ (ofA = {call.a} /\ Ancestors(call.a) # {call.a})
    <3>1. ofA = Ancestors(call.a) \/ (ofA = {call.a} /\ Ancestors(call.a) # {call.a})
      BY <1>0, <1>5 DEF NearInv
    <3>2. call.a \in Ancestors(call.a)
      BY <1>0, LeastClosed DEF IndexInv, AncestorFacts, AskedTwo
    <3> QED
      BY <3>1, <3>2
  <2>3. answer' = FirstOf(out, ofA) /\ pc' = "answer"
    BY <1>5 DEF Answer
  <2>4. IF answer' # None THEN answer' \in Range(out) \cap ofA ELSE Range(out) \cap ofA = {}
    BY <1>0, <2>3, FirstFound
  <2>5. IF answer' # None THEN answer' \in Ancestors(call.a) \cap Ancestors(call.c)
        ELSE \/ Ancestors(call.a) \cap Ancestors(call.c) = {}
             \/ ofA = {call.a} /\ Ancestors(call.a) # {call.a}
    BY <1>1, <2>1, <2>2, <2>4
  <2>6. NcaIsCommon'
    BY <1>0, <1>2, <1>5, <2>5 DEF NcaIsCommon
  <2> QED
    BY <1>0, <1>5, <2>3, <2>6, Elsewhere DEF WalkInv
<1> QED
  BY <1>3, <1>4, <1>5 DEF Walked

\* The ancestry of a does not change within a walk.
LEMMA NearKept ==
    ASSUME NearInv, index' = index, call' = call, ofA' = ofA, pc = "visit", pc' = "visit"
    PROVE  NearInv'
<1>1. Ancestors(call.a)' = Ancestors(call.a)
  BY DEF Ancestors, Closed, ParentsOf
<1> QED
  BY <1>1 DEF NearInv, AskedTwo

\* Every step of a walk keeps the invariant.
LEMMA WalkStep == IndexInv /\ WalkInv /\ Walk => IndexInv' /\ WalkInv'
<1> SUFFICES ASSUME IndexInv, WalkInv, Walk PROVE IndexInv' /\ WalkInv'
  OBVIOUS
<1>0. index' = index
  BY DEF Walk, AskIsAncestor, AskNearest, AskAncestry, Reach, Descend, Finish, Walked, WalkAgain, Return
<1>1. IndexInv'
  BY <1>0, SameIndex
<1>2. ASSUME NEW a \in Id, NEW c \in Id, AskIsAncestor(a, c) PROVE WalkInv'
  <2>1. call' = [op |-> "is_ancestor", a |-> a, c |-> c] /\ AskedTwo'
    BY <1>2 DEF AskIsAncestor, AskedTwo
  <2>2. Ancestors(call.c)' = Ancestors(c)
    BY <1>0, <2>1 DEF Ancestors, Closed, ParentsOf
  <2>3. c \in Ancestors(c)
    BY LeastClosed DEF IndexInv, AncestorFacts
  <2>4. CASE a = c
    <3>1. answer' = TRUE /\ pc' = "answer"
      BY <1>2, <2>4 DEF AskIsAncestor, Answer
    <3>2. IsAncestorDecides'
      BY <2>1, <2>2, <2>3, <2>4, <3>1 DEF IsAncestorDecides
    <3> QED
      BY <2>1, <3>1, <3>2, Elsewhere DEF WalkInv
  <2>5. CASE a # c
    <3>1. pc' = "reach" /\ stack' = <<c>> /\ seen' = {}
      BY <1>2, <2>5 DEF AskIsAncestor
    <3>2. stack' \in Seq(Id) /\ Range(stack') = {c}
      <4>1. stack' \in Seq(Id) /\ Len(stack') = 1 /\ stack'[1] = c
        BY <3>1
      <4>2. \A x : x \in Range(stack') <=> x = c
        BY <4>1, RangeAt
      <4> QED
        BY <4>1, <4>2
    <3>3. ReachInv'
      BY <2>1, <2>2, <2>3, <3>1, <3>2 DEF ReachInv
    <3> QED
      BY <3>1, <3>3, Elsewhere DEF WalkInv
  <2> QED
    BY <2>4, <2>5
<1>3. ASSUME NEW c \in Id, AskAncestry(c) PROVE WalkInv'
  <2>1. /\ call' = [op |-> "ancestry", a |-> c, c |-> c] /\ AskedTwo' /\ Root' = c
        /\ pc' = "visit" /\ Enter(c) /\ ofA' = None
    BY <1>3 DEF AskAncestry, AskedTwo, Enter, Root, WalkInv, NearInv
  <2>2. VisitInv' /\ NearInv'
    BY <1>0, <2>1, EnterStep DEF NearInv
  <2> QED
    BY <2>1, <2>2, Elsewhere DEF WalkInv
<1>4. ASSUME NEW a \in Id, NEW c \in Id, AskNearest(a, c) PROVE WalkInv'
  <2>1. /\ call' = [op |-> "nearest", a |-> a, c |-> c] /\ AskedTwo' /\ Root' = a
        /\ pc' = "visit" /\ Enter(a) /\ ofA' = None
    BY <1>4 DEF AskNearest, AskedTwo, Enter, Root, WalkInv, NearInv
  <2>2. VisitInv' /\ NearInv'
    BY <1>0, <2>1, EnterStep DEF NearInv
  <2> QED
    BY <2>1, <2>2, Elsewhere DEF WalkInv
<1>5. ASSUME Reach PROVE WalkInv'
  <2>1. call'.op = "is_ancestor" /\ pc' \in {"reach", "answer"}
    BY <1>5 DEF Reach, Answer, WalkInv, ReachInv
  <2> QED
    BY <1>5, <2>1, ReachStep, Elsewhere DEF WalkInv
<1>6. ASSUME Descend \/ Finish PROVE WalkInv'
  <2>1. pc = "visit" /\ pc' = "visit" /\ call' = call /\ ofA' = ofA
    BY <1>6 DEF Descend, Finish
  <2>2. VisitInv' /\ NearInv'
    BY <1>0, <1>6, <2>1, DescendStep, FinishStep, NearKept DEF WalkInv
  <2> QED
    BY <2>1, <2>2, Elsewhere DEF WalkInv
<1>7. ASSUME Walked PROVE WalkInv'
  BY <1>7, WalkedStep
<1>8. ASSUME WalkAgain PROVE WalkInv'
  <2>1. /\ pc = "between" /\ call.op = "nearest" /\ AskedTwo /\ ofA # None
        /\ ofA \subseteq Id
        /\ ofA = Ancestors(call.a) \/ (ofA = {call.a} /\ Ancestors(call.a) # {call.a})
    BY <1>8 DEF WalkAgain, WalkInv, NearInv
  <2>2. /\ call' = call /\ ofA' = ofA /\ pc' = "visit" /\ Enter(call.c)
    BY <1>8 DEF WalkAgain, Enter
  <2>3. AskedTwo' /\ Root' = call.c
    BY <2>1, <2>2 DEF AskedTwo, Root
  <2>4. VisitInv'
    <3>1. PICK c \in Id : c = call.c
      BY <2>1 DEF AskedTwo
    <3>2. Enter(c)
      BY <2>2, <3>1
    <3> QED
      BY <1>0, <2>1, <2>2, <2>3, <3>1, <3>2, EnterStep
  <2>5. Ancestors(call.a)' = Ancestors(call.a)
    BY <1>0, <2>2 DEF Ancestors, Closed, ParentsOf
  <2>6. NearInv'
    BY <2>1, <2>2, <2>3, <2>5 DEF NearInv
  <2> QED
    BY <2>2, <2>4, <2>6, Elsewhere DEF WalkInv
<1>9. ASSUME Return PROVE WalkInv'
  <2>1. pc' = "idle" /\ ofA' = None
    BY <1>9 DEF Return
  <2> QED
    BY <2>1, Elsewhere DEF WalkInv, NearInv
<1> QED
  BY <1>1, <1>2, <1>3, <1>4, <1>5, <1>6, <1>7, <1>8, <1>9 DEF Walk

\* A commit that arrives between two walks disturbs neither: what is known of
\* the ancestry of a is as true as before, or a is what arrived.
LEMMA GrowthStep ==
    ASSUME IndexInv, WalkInv, pc \notin {"reach", "visit", "answer"},
           NEW c \in Id, c \notin Indexed, NEW parents \in Seq(Id),
           Accepts(c, parents), Insert(c, parents), UNCHANGED <<pc, call, ofA>>
    PROVE  IndexInv' /\ WalkInv'
<1>1. /\ IndexInv'
      /\ \A x \in Id \ {c} : Ancestors(x)' = Ancestors(x)
  BY Growth
<1>2. NearInv'
  <2>1. CASE pc = "between"
    <3>1. PICK a \in Id : a = call.a
      BY <2>1 DEF WalkInv, NearInv, AskedTwo
    <3>2. Ancestors(call.a)' = Ancestors(a)' /\ Ancestors(call.a) = Ancestors(a)
      BY <3>1 DEF Ancestors
    <3>3. /\ ofA # None /\ call.op = "nearest" /\ AskedTwo /\ ofA \subseteq Id
          /\ ofA = Ancestors(a) \/ (ofA = {a} /\ Ancestors(a) # {a})
      BY <2>1, <3>1 DEF WalkInv, NearInv
    <3>4. CASE a = c
      <4>1. Ancestors(a) = {a}
        BY <3>4, AboveIndexed
      <4>2. ofA = {a}
        BY <3>3, <4>1
      <4> QED
        BY <2>1, <3>1, <3>2, <3>3, <4>2 DEF NearInv, AskedTwo
    <3>5. CASE a # c
      <4>1. Ancestors(a)' = Ancestors(a)
        BY <1>1, <3>5
      <4> QED
        BY <2>1, <3>1, <3>2, <3>3, <4>1 DEF NearInv, AskedTwo
    <3> QED
      BY <3>4, <3>5
  <2>2. CASE pc # "between"
    BY <2>2 DEF WalkInv, NearInv
  <2> QED
    BY <2>1, <2>2
<1> QED
  BY <1>1, <1>2, Elsewhere DEF WalkInv

\* The empty index, and nothing asked.
LEMMA DagStart == DagInit => IndexInv /\ WalkInv
<1> SUFFICES ASSUME DagInit PROVE IndexInv /\ WalkInv
  OBVIOUS
<1>1. IndexTyped /\ Indexed = {}
  BY DEF DagInit, IndexTyped, Indexed
<1>2. \A c \in Id : Range(ParentsOf(c)) = {}
  BY <1>1, ParentsTyped DEF DagInit, ParentFacts
<1>3. IndexInv
  BY <1>1, <1>2 DEF IndexInv, Closed
<1> QED
  BY <1>3 DEF DagInit, WalkInv, ReachInv, VisitInv, NearInv, AncestryIsTopological,
              IsAncestorDecides, NcaIsCommon, Answered

=============================================================================
