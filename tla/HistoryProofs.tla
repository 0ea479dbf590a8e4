---------------------------- MODULE HistoryProofs ----------------------------
(***************************************************************************)
(* Proofs about History: the walks of DagIndex while commits arrive, the   *)
(* order in which replay() applies them and the rebuilding of the index,   *)
(* for every set of ids, every history and every assignment of clocks.     *)
(***************************************************************************)
EXTENDS History, DagProofs, FiniteSetTheorems

-----------------------------------------------------------------------------
(* The inductive invariant                                                 *)

\* A commit in the table has its parents there, and is not one of them.
TableInv ==
    /\ commits \in [Id -> Commit \cup {None}]
    /\ \A c \in Known : Range(commits[c].parents) \subseteq Known \ {c}
    /\ IsFiniteSet(Known)

\* The index of a daemon that has started is that of the table.
LiveInv ==
    pc \notin {"rebuild", "failed"} =>
        \A c \in Id : index[c] = IF c \in Known THEN commits[c].parents ELSE None

\* A call starts with nothing put out.
IdleInv == pc = "idle" => out = <<>>

\* Where replay() is: what it has put out and what it is called for is above
\* the commit it was asked for, and nothing between them is missing.
CollectInv ==
    pc = "collect" =>
        /\ call.op = "replay" /\ call.c \in Known
        /\ frames \in Seq(Frame) /\ out \in Seq(Id)
        /\ \A e \in Range(frames) : e.id \in Ancestors(call.c)
        /\ Range(out) \subseteq Ancestors(call.c)
        /\ call.c \in Range(out) \/ \E e \in Range(frames) : e.id = call.c
        /\ TodoInv /\ DoneInv

\* Every commit x is listed after its parents.
AfterParents(x) == \A q \in Range(commits[x].parents) : ListedBefore(q, x)

\* Where from_commits is: the index has what came before the listing that is
\* left, and all of that after its parents.
RebuildInv ==
    pc = "rebuild" =>
        /\ call.op = "rebuild" /\ listing \in Seq(Id)
        /\ Indexed \cup Range(listing) = Known /\ Indexed \cap Range(listing) = {}
        /\ \A i, j \in 1..Len(listing) : i < j => ListedBefore(listing[i], listing[j])
        /\ \A x \in Indexed : /\ index[x] = commits[x].parents /\ AfterParents(x)
                              /\ \A y \in Range(listing) : ListedBefore(x, y)

HistInv ==
    /\ IndexInv /\ WalkInv
    /\ TableInv /\ LiveInv /\ IdleInv /\ CollectInv /\ RebuildInv
    /\ ReplayIsComplete /\ ReplayRespectsOrder /\ RebuildDecided

\* What the index of a daemon that runs says of the table.
LEMMA Live ==
    IndexInv /\ TableInv /\ LiveInv /\ pc \notin {"rebuild", "failed"} =>
        /\ Known = Indexed /\ Known \subseteq Id
        /\ \A x \in Known : /\ ParentsOf(x) = commits[x].parents
                            /\ commits[x].parents \in Seq(Id)
                            /\ commits[x] \in Commit
<1> SUFFICES ASSUME IndexInv, TableInv, LiveInv, pc \notin {"rebuild", "failed"}
             PROVE  /\ Known = Indexed /\ Known \subseteq Id
                    /\ \A x \in Known : /\ ParentsOf(x) = commits[x].parents
                                        /\ commits[x].parents \in Seq(Id)
                                        /\ commits[x] \in Commit
  OBVIOUS
<1>1. \A c \in Id : index[c] = IF c \in Known THEN commits[c].parents ELSE None
  BY DEF LiveInv
<1>2. ASSUME NEW x \in Known
      PROVE  x \in Id /\ commits[x] \in Commit /\ commits[x].parents \in Seq(Id)
  BY DEF Known, TableInv, Commit
<1>3. ASSUME NEW x \in Known PROVE commits[x].parents # None
  BY <1>2, IdAssumption
<1>4. ASSUME NEW x \in Known PROVE ParentsOf(x) = commits[x].parents
  BY <1>1, <1>2, <1>3 DEF ParentsOf
<1>5. Known = Indexed
  BY <1>1, <1>2, <1>3 DEF Indexed, Known
<1> QED
  BY <1>2, <1>4, <1>5

\* Neither key puts a commit before itself, and the listing's never puts two
\* before each other.
LEMMA Keys ==
    TableInv => \A x, y \in Known : /\ ~SortsBefore(x, x)
                                    /\ ListedBefore(x, y) => ~ListedBefore(y, x)
<1> SUFFICES ASSUME TableInv, NEW x \in Known, NEW y \in Known
             PROVE  ~SortsBefore(x, x) /\ (ListedBefore(x, y) => ~ListedBefore(y, x))
  OBVIOUS
<1>1. /\ x \in Nat /\ y \in Nat /\ Half \in Nat
      /\ commits[x].clock \in 0..(2 * Half - 1) /\ commits[x].wall \in Int
      /\ commits[y].clock \in 0..(2 * Half - 1) /\ commits[y].wall \in Int
  BY HistoryAssumption DEF TableInv, Known, Commit
<1>2. commits[x].clock \in Int /\ commits[y].clock \in Int
  BY <1>1
<1>3. AsI64(commits[x].clock) \in Int /\ AsI64(commits[y].clock) \in Int
  BY <1>1, <1>2 DEF AsI64
<1>4. ~SortsBefore(x, x)
  BY <1>1, <1>2 DEF SortsBefore
<1>5. ListedBefore(x, y) => ~ListedBefore(y, x)
  BY <1>1, <1>3 DEF ListedBefore
<1> QED
  BY <1>4, <1>5

\* Nothing is asked of the call that is not under way.
LEMMA Aside ==
    /\ pc' # "collect" => CollectInv'
    /\ pc' # "rebuild" => RebuildInv'
    /\ ~(pc' = "answer" /\ call'.op = "replay") => ReplayIsComplete' /\ ReplayRespectsOrder'
    /\ pc' # "failed" /\ ~(pc' = "answer" /\ call'.op = "rebuild") => RebuildDecided'
BY DEF CollectInv, RebuildInv, ReplayIsComplete, ReplayRespectsOrder, RebuildDecided, Answered

\* A table that stays as it is.
LEMMA SameTable ==
    ASSUME commits' = commits
    PROVE  /\ Known' = Known
           /\ TableInv => TableInv'
           /\ LiveInv /\ index' = index /\ pc \notin {"rebuild", "failed"} => LiveInv'
<1>1. Known' = Known
  BY DEF Known
<1> QED
  BY <1>1 DEF TableInv, LiveInv

\* The empty table.
LEMMA HistoryStart == Init => HistInv
<1> SUFFICES ASSUME Init PROVE HistInv
  OBVIOUS
<1>1. IndexInv /\ WalkInv
  BY DagStart DEF Init
<1>2. Known = {} /\ pc = "idle" /\ \A c \in Id : index[c] = None
  BY DEF Init, Known, DagInit
<1>3. TableInv
  BY <1>2, FS_EmptySet DEF Init, TableInv
<1>4. LiveInv
  BY <1>2 DEF LiveInv
<1> QED
  BY <1>1, <1>2, <1>3, <1>4 DEF HistInv, Init, DagInit, IdleInv, CollectInv, RebuildInv, ReplayIsComplete,
                                ReplayRespectsOrder, RebuildDecided, Answered

\* The walks of the index answer nothing but what they were asked.
LEMMA WalksElsewhere ==
    WalkInv /\ Walk =>
        /\ index' = index
        /\ pc \notin {"collect", "rebuild", "failed"} /\ pc' \notin {"collect", "rebuild", "failed"}
        /\ pc' = "answer" => call'.op \in {"is_ancestor", "ancestry", "nearest"}
        /\ IdleInv'
<1> SUFFICES ASSUME WalkInv, Walk
             PROVE  /\ index' = index
                    /\ pc \notin {"collect", "rebuild", "failed"}
                    /\ pc' \notin {"collect", "rebuild", "failed"}
                    /\ pc' = "answer" => call'.op \in {"is_ancestor", "ancestry", "nearest"}
                    /\ IdleInv'
  OBVIOUS
<1>1. CASE \E a, c \in Id : AskIsAncestor(a, c) \/ AskNearest(a, c)
  BY <1>1 DEF AskIsAncestor, AskNearest, Enter, Answer, IdleInv
<1>2. CASE \E c \in Id : AskAncestry(c)
  BY <1>2 DEF AskAncestry, Enter, IdleInv
<1>3. CASE Reach
  BY <1>3 DEF Reach, Answer, WalkInv, ReachInv, IdleInv
<1>4. CASE Descend \/ Finish
  BY <1>4 DEF Descend, Finish, IdleInv
<1>5. CASE Walked
  BY <1>5 DEF Walked, Answer, IdleInv
<1>6. CASE WalkAgain \/ Return
  BY <1>6 DEF WalkAgain, Enter, Return, IdleInv
<1> QED
  BY <1>1, <1>2, <1>3, <1>4, <1>5, <1>6 DEF Walk

\* So a step of a walk keeps the invariant.
LEMMA WalksKeep == HistInv /\ Walk /\ UNCHANGED <<commits, listing>> => HistInv'
<1> SUFFICES ASSUME HistInv, Walk, commits' = commits PROVE HistInv'
  OBVIOUS
<1>1. IndexInv' /\ WalkInv'
  BY WalkStep DEF HistInv
<1>2. /\ index' = index
      /\ pc \notin {"collect", "rebuild", "failed"} /\ pc' \notin {"collect", "rebuild", "failed"}
      /\ pc' = "answer" => call'.op \in {"is_ancestor", "ancestry", "nearest"}
      /\ IdleInv'
  BY WalksElsewhere DEF HistInv
<1>3. TableInv' /\ LiveInv'
  BY <1>2, SameTable DEF HistInv
<1> QED
  BY <1>1, <1>2, <1>3, Aside DEF HistInv

-----------------------------------------------------------------------------
(* Commits arrive                                                          *)

\* What arrives: a commit that is new to the index too, with its parents.
LEMMA Arrival ==
    ASSUME HistInv, NEW c \in Id, Append1(c)
    PROVE  \E parents \in Seq(Id) :
              /\ pc \in {"idle", "between", "collect"}
              /\ UNCHANGED <<pc, call, locals, answer, listing>>
              /\ Known = Indexed /\ c \notin Indexed /\ Range(parents) \subseteq Known \ {c}
              /\ Accepts(c, parents) /\ Insert(c, parents)
              /\ \E new \in Commit : new.parents = parents /\ commits' = [commits EXCEPT ![c] = new]
<1>1. /\ pc \in {"idle", "between", "collect"} /\ commits[c] = None
      /\ UNCHANGED <<pc, call, locals, answer, listing>>
  BY DEF Append1, Unlocked
<1>2. Known = Indexed /\ Known \subseteq Id
  BY <1>1, Live DEF HistInv
<1>3. PICK parents \in SeqOf(Known, MaxParents) :
         /\ Accepts(c, parents) /\ Insert(c, parents)
         /\ \E stamp \in Stamps, effect \in Effects :
               commits' = [commits EXCEPT ![c] = [parents |-> parents, clock |-> stamp[1],
                                                  wall |-> stamp[2], effect |-> effect]]
  BY DEF Append1
<1>4. parents \in Seq(Id)
  <2>1. PICK m \in 0..MaxParents : parents \in [1..m -> Known]
    BY <1>3 DEF SeqOf
  <2>2. m \in Nat
    BY HistoryAssumption
  <2>3. parents \in [1..m -> Id]
    BY <1>2, <2>1
  <2> QED
    BY <2>2, <2>3
<1>5. PICK stamp \in Stamps, effect \in Effects :
         commits' = [commits EXCEPT ![c] = [parents |-> parents, clock |-> stamp[1],
                                            wall |-> stamp[2], effect |-> effect]]
  BY <1>3
<1> DEFINE new == [parents |-> parents, clock |-> stamp[1], wall |-> stamp[2], effect |-> effect]
<1>6. new \in Commit /\ new.parents = parents
  <2>1. stamp[1] \in 0..(2 * Half - 1) /\ stamp[2] \in Int /\ effect \in BOOLEAN
    BY HistoryAssumption
  <2> QED
    BY <1>4, <2>1 DEF Commit
<1>7. c \notin Indexed
  BY <1>1, <1>2 DEF Known
<1>8. Range(parents) \subseteq Known \ {c}
  BY <1>2, <1>3 DEF Accepts
<1> HIDE DEF new
<1>9. commits' = [commits EXCEPT ![c] = new]
  BY <1>5 DEF new
<1> QED
  BY <1>1, <1>2, <1>3, <1>4, <1>6, <1>7, <1>8, <1>9

\* The table with the new commit.
LEMMA TableGrowth ==
    ASSUME TableInv, NEW c \in Id, c \notin Known, NEW new \in Commit,
           Range(new.parents) \subseteq Known \ {c}, commits' = [commits EXCEPT ![c] = new]
    PROVE  /\ TableInv' /\ Known' = Known \cup {c} /\ commits'[c] = new
           /\ \A x \in Id \ {c} : commits'[x] = commits[x]
<1>1. /\ commits' \in [Id -> Commit \cup {None}] /\ commits'[c] = new /\ new # None
      /\ \A x \in Id \ {c} : commits'[x] = commits[x]
  BY CommitAssumption DEF TableInv
<1>2. Known' = Known \cup {c}
  BY <1>1 DEF Known
<1>3. IsFiniteSet(Known)'
  BY <1>2, FS_AddElement DEF TableInv
<1>4. ASSUME NEW x \in Known' PROVE Range(commits'[x].parents) \subseteq Known' \ {x}
  <2>1. CASE x = c
    BY <1>1, <1>2, <2>1
  <2>2. CASE x # c
    <3>1. x \in Known /\ x \in Id
      BY <1>2, <2>2 DEF Known
    <3>2. commits'[x] = commits[x]
      BY <1>1, <2>2, <3>1
    <3> QED
      BY <1>2, <3>1, <3>2 DEF TableInv
  <2> QED
    BY <2>1, <2>2
<1> QED
  BY <1>1, <1>2, <1>3, <1>4 DEF TableInv

\* What replay() has put out and has still to visit is as it was: a new
\* commit is above nothing that was there.
LEMMA CollectGrowth ==
    ASSUME IndexInv, CollectInv, pc = "collect", Known \subseteq Indexed,
           NEW c \in Id, c \notin Indexed, NEW parents \in Seq(Id),
           Accepts(c, parents), Insert(c, parents),
           UNCHANGED <<pc, call, locals>>, Known' = Known \cup {c}
    PROVE  CollectInv'
<1>1. \A x \in Id \ {c} : ParentsOf(x)' = ParentsOf(x) /\ Ancestors(x)' = Ancestors(x)
  BY Growth
<1>2. /\ call.op = "replay" /\ call.c \in Known /\ frames \in Seq(Frame) /\ out \in Seq(Id)
      /\ \A e \in Range(frames) : e.id \in Ancestors(call.c)
      /\ Range(out) \subseteq Ancestors(call.c)
      /\ call.c \in Range(out) \/ \E e \in Range(frames) : e.id = call.c
      /\ TodoOf(frames, out) /\ DoneOf(out)
  BY DEF CollectInv, TodoInv, DoneInv
<1>3. PICK a \in Id : a = call.c /\ a \in Indexed
  BY <1>2 DEF Indexed
<1>4. Ancestors(call.c)' = Ancestors(call.c)
  <2>1. Ancestors(call.c)' = Ancestors(a)' /\ Ancestors(call.c) = Ancestors(a)
    BY <1>3 DEF Ancestors
  <2> QED
    BY <1>1, <1>3, <2>1
<1>5. Ancestors(call.c) \subseteq Indexed
  BY <1>3, AboveIndexed
<1>6. /\ frames' = frames /\ out' = out
      /\ \A i \in 1..Len(frames) : frames[i].id \in Id \ {c}
      /\ \A i \in 1..Len(out) : out[i] \in Id \ {c}
  <2>1. /\ \A i \in 1..Len(frames) : frames[i] \in Range(frames)
        /\ \A i \in 1..Len(out) : out[i] \in Range(out)
    BY <1>2, RangeAt
  <2> QED
    BY <1>2, <1>5, <2>1 DEF locals, Indexed
<1>7. TodoInv'
  BY <1>1, <1>2, <1>6 DEF TodoInv, TodoOf
<1>8. DoneInv'
  <2>1. PICK o : o = out
    OBVIOUS
  <2>2. \A j \in 1..Len(o) : ParentsOf(o[j])' = ParentsOf(o[j])
    BY <1>1, <1>6, <2>1
  <2>3. DoneOf(o)'
    <3>1. DoneOf(o)
      BY <1>2, <2>1
    <3>2. \A j \in 1..Len(o) : \A q \in Range(ParentsOf(o[j])') : \E k \in 1..(j - 1) : o[k] = q
      BY <2>2, <3>1 DEF DoneOf
    <3> QED
      BY <3>1, <3>2 DEF DoneOf
  <2> QED
    BY <1>6, <2>1, <2>3 DEF DoneInv, DoneOf
<1> QED
  BY <1>2, <1>4, <1>6, <1>7, <1>8 DEF CollectInv

LEMMA ArrivalKeeps == ASSUME HistInv, NEW c \in Id, Append1(c) PROVE HistInv'
<1>1. PICK parents \in Seq(Id) :
         /\ pc \in {"idle", "between", "collect"}
         /\ UNCHANGED <<pc, call, locals, answer, listing>>
         /\ Known = Indexed /\ c \notin Indexed /\ Range(parents) \subseteq Known \ {c}
         /\ Accepts(c, parents) /\ Insert(c, parents)
         /\ \E new \in Commit : new.parents = parents /\ commits' = [commits EXCEPT ![c] = new]
  BY Arrival
<1>2. PICK new \in Commit : new.parents = parents /\ commits' = [commits EXCEPT ![c] = new]
  BY <1>1
<1>3. /\ TableInv' /\ Known' = Known \cup {c} /\ commits'[c] = new
      /\ \A x \in Id \ {c} : commits'[x] = commits[x]
  BY <1>1, <1>2, TableGrowth DEF HistInv
<1>4. IndexInv' /\ WalkInv'
  BY <1>1, GrowthStep DEF HistInv, locals
<1>5. LiveInv'
  <2>1. index \in [Id -> Seq(Id) \cup {None}] /\ index' = [index EXCEPT ![c] = parents]
    BY <1>1 DEF HistInv, IndexInv, IndexTyped, Insert
  <2>2. \A x \in Id : index[x] = IF x \in Known THEN commits[x].parents ELSE None
    BY <1>1 DEF HistInv, LiveInv
  <2>3. ASSUME NEW x \in Id PROVE index'[x] = IF x \in Known' THEN commits'[x].parents ELSE None
    <3>1. CASE x = c
      BY <1>2, <1>3, <2>1, <3>1
    <3>2. CASE x # c
      BY <1>3, <2>1, <2>2, <3>2
    <3> QED
      BY <3>1, <3>2
  <2> QED
    BY <2>3 DEF LiveInv
<1>6. CollectInv'
  <2>1. CASE pc = "collect"
    BY <1>1, <1>3, <2>1, CollectGrowth DEF HistInv
  <2>2. CASE pc # "collect"
    BY <1>1, <2>2, Aside
  <2> QED
    BY <2>1, <2>2
<1> QED
  BY <1>1, <1>3, <1>4, <1>5, <1>6, Aside DEF HistInv, IdleInv, locals

-----------------------------------------------------------------------------
(* replay()                                                                *)

\* replay() starts: what is to visit is the commit itself.
LEMMA AskReplayKeeps == ASSUME HistInv, NEW c \in Id, AskReplay(c) PROVE HistInv'
<1>0. /\ pc = "idle" /\ call' = [op |-> "replay", a |-> c, c |-> c] /\ index' = index
      /\ UNCHANGED <<index, stack, seen, out, ofA, commits, listing>>
  BY DEF AskReplay
<1>1. TableInv' /\ LiveInv' /\ Known' = Known /\ IndexInv'
  BY <1>0, SameTable, SameIndex DEF HistInv
<1>2. Ancestors(call.c)' = Ancestors(c)
  BY <1>0 DEF Ancestors, Closed, ParentsOf
<1>3. CASE commits[c] = None /\ Answer(None)
  <2>1. pc' = "answer" /\ answer' = None /\ c \notin Known
    BY <1>3 DEF Answer, Known
  <2>2. ReplayIsComplete' /\ ReplayRespectsOrder'
    BY <1>0, <1>1, <2>1 DEF ReplayIsComplete, ReplayRespectsOrder
  <2>3. WalkInv'
    BY <1>0, <2>1, Elsewhere DEF WalkInv
  <2> QED
    BY <1>0, <1>1, <2>1, <2>2, <2>3, Aside DEF HistInv, IdleInv
<1>4. CASE commits[c] # None /\ pc' = "collect" /\ frames' = Fetched(c, <<>>)
  <2>1. c \in Known /\ pc \notin {"rebuild", "failed"}
    BY <1>0, <1>4 DEF Known
  <2>2. commits[c].parents = ParentsOf(c) /\ ParentsOf(c) \in Seq(Id)
    BY <2>1, Live DEF HistInv
  <2> DEFINE frame == [id |-> c, todo |-> ParentsOf(c)]
  <2>3. frame \in Frame /\ frame.id = c /\ frame.todo = ParentsOf(c)
    BY <2>2 DEF Frame
  <2>4. frames' = Append(<<>>, frame)
    BY <1>4, <2>2 DEF Fetched
  <2> HIDE DEF frame
  <2>5. /\ frames' \in Seq(Frame) /\ Len(frames') = 1 /\ frames'[1] = frame
        /\ Range(frames') = {frame}
    <3>1. PICK s : s = <<>>
      OBVIOUS
    <3>2. s \in Seq(Frame) /\ Len(s) = 0 /\ Range(s) = {}
      BY <3>1, EmptyRange
    <3>3. frames' = Append(s, frame)
      BY <2>4, <3>1
    <3>4. s \in Seq(Frame) /\ frame \in Frame
      BY <2>3, <3>2
    <3>5. frames' \in Seq(Frame)
      BY <3>3, <3>4
    <3>6. Len(frames') = 1 /\ frames'[1] = frame
      BY <3>1, <3>3
    <3>7. \A x : x \in Range(frames') <=> x = frame
      BY <3>5, <3>6, RangeAt
    <3> QED
      BY <3>5, <3>6, <3>7
  <2>6. TodoOf(frames', out')
    BY <2>3, <2>5 DEF TodoOf
  <2>7. c \in Ancestors(c)
    BY LeastClosed DEF HistInv, IndexInv, AncestorFacts
  <2>8. out' = <<>> /\ Len(out') = 0
    BY <1>0 DEF HistInv, IdleInv
  <2>9. TodoInv' /\ DoneInv'
    <3>1. DoneOf(out')
      BY <2>8 DEF DoneOf
    <3> QED
      BY <1>0, <2>6, <3>1, SameVisit
  <2>10. CollectInv'
    <3>1. /\ call'.op = "replay" /\ call'.c = c /\ out' \in Seq(Id) /\ Range(out') = {}
          /\ \A e \in Range(frames') : e.id = c
          /\ \E e \in Range(frames') : e.id = c
      BY <1>0, <2>3, <2>5, <2>8, EmptyRange
    <3> QED
      BY <1>1, <1>2, <2>1, <2>5, <2>7, <2>9, <3>1 DEF CollectInv
  <2>11. WalkInv'
    BY <1>0, <1>4, Elsewhere DEF WalkInv
  <2> QED
    BY <1>1, <1>4, <2>10, <2>11, Aside DEF HistInv, IdleInv
<1> QED
  BY <1>3, <1>4 DEF AskReplay

\* The next parent is there, and is visited next.
LEMMA CollectParentKeeps == ASSUME HistInv, CollectParent PROVE HistInv'
<1> DEFINE top == Last(frames)
           q == Head(top.todo)
           less == [top EXCEPT !.todo = Tail(@)]
           inner == [id |-> q, todo |-> ParentsOf(q)]
<1>0. /\ pc = "collect" /\ frames # <<>> /\ top.todo # <<>>
      /\ UNCHANGED <<index, call, stack, seen, out, ofA, commits, listing>>
      /\ call.op = "replay" /\ call.c \in Known /\ frames \in Seq(Frame) /\ out \in Seq(Id)
      /\ \A e \in Range(frames) : e.id \in Ancestors(call.c)
      /\ Range(out) \subseteq Ancestors(call.c)
      /\ call.c \in Range(out) \/ \E e \in Range(frames) : e.id = call.c
      /\ TodoOf(frames, out) /\ DoneInv
  BY DEF CollectParent, HistInv, CollectInv, TodoInv
<1>1. /\ Known = Indexed /\ Known \subseteq Id
      /\ \A x \in Known : /\ ParentsOf(x) = commits[x].parents
                          /\ commits[x].parents \in Seq(Id)
                          /\ commits[x] \in Commit
  BY <1>0, Live DEF HistInv
<1>2. /\ top \in Frame /\ top.id \in Id /\ top.todo \in Seq(Id)
      /\ Front(frames) \in Seq(Frame) /\ Range(frames) = Range(Front(frames)) \cup {top}
  <2>1. /\ top \in Frame /\ Front(frames) \in Seq(Frame)
        /\ Range(frames) = Range(Front(frames)) \cup {top}
    BY <1>0, FrontLast
  <2> QED
    BY <2>1 DEF Frame
<1>3. /\ q \in Id /\ Tail(top.todo) \in Seq(Id) /\ q \in Range(top.todo)
  BY <1>0, <1>2, HeadTail
<1>4. q \in Range(ParentsOf(top.id))
  <2>1. Len(frames) \in Nat /\ Len(frames) >= 1 /\ top = frames[Len(frames)]
    BY <1>0, FrontLast
  <2>2. Len(frames) \in 1..Len(frames)
    BY <2>1
  <2> QED
    BY <1>0, <1>3, <2>1, <2>2 DEF TodoOf
<1>5. q \in Ancestors(call.c) /\ q \in Known
  <2>1. top.id \in Ancestors(call.c)
    BY <1>0, <1>2
  <2>2. Closed(Ancestors(call.c)) /\ Ancestors(call.c) \subseteq Indexed
    BY <1>0, <1>1, LeastClosed, AboveIndexed DEF HistInv, IndexInv, AncestorFacts
  <2> QED
    BY <1>1, <1>4, <2>1, <2>2 DEF Closed
<1>6. /\ less \in Frame /\ less.id = top.id /\ less.todo = Tail(top.todo)
      /\ inner \in Frame /\ inner.id = q /\ inner.todo = ParentsOf(q)
  BY <1>1, <1>2, <1>3, <1>5 DEF Frame
<1>7. pc' = pc /\ answer' = answer /\ frames' = Append(Append(Front(frames), less), inner)
  <2>1. commits[q] # None /\ commits[q].parents = ParentsOf(q)
    BY <1>1, <1>5 DEF Known
  <2> QED
    BY <2>1 DEF CollectParent, Fetched
<1> HIDE DEF less, inner
<1>8. frames' \in Seq(Frame) /\ TodoOf(frames', out')
  BY <1>0, <1>6, <1>7, TodoPush
<1>9. Range(frames') = Range(Front(frames)) \cup {less, inner}
  <2>0. PICK rest : rest = Append(Front(frames), less)
    OBVIOUS
  <2>1. rest \in Seq(Frame) /\ Range(rest) = Range(Front(frames)) \cup {less}
    BY <1>2, <1>6, <2>0, AppendFacts
  <2>2. frames' = Append(rest, inner)
    BY <1>7, <2>0
  <2>3. Range(frames') = Range(rest) \cup {inner}
    BY <1>6, <2>1, <2>2, AppendFacts
  <2> QED
    BY <2>1, <2>3
<1>10. /\ \A e \in Range(frames') : e.id \in Ancestors(call.c)
       /\ call.c \in Range(out) \/ \E e \in Range(frames') : e.id = call.c
  BY <1>0, <1>2, <1>5, <1>6, <1>9
<1>11. Ancestors(call.c)' = Ancestors(call.c)
  BY <1>0 DEF Ancestors, Closed, ParentsOf
<1>12. TableInv' /\ LiveInv' /\ Known' = Known /\ IndexInv'
  BY <1>0, SameTable, SameIndex DEF HistInv
<1>13. TodoInv' /\ DoneInv'
  BY <1>0, <1>8, SameVisit DEF DoneInv
<1>14. CollectInv'
  BY <1>0, <1>8, <1>10, <1>11, <1>12, <1>13 DEF CollectInv
<1>15. WalkInv'
  BY <1>0, <1>7, Elsewhere DEF WalkInv
<1> QED
  BY <1>0, <1>7, <1>12, <1>14, <1>15, Aside DEF HistInv, IdleInv

\* A commit with nothing left to visit is put out, once.
LEMMA CollectCommitKeeps == ASSUME HistInv, CollectCommit PROVE HistInv'
<1> DEFINE top == Last(frames)
<1>0. /\ pc = "collect" /\ frames # <<>> /\ top.todo = <<>>
      /\ out' = PushNew(out, top.id) /\ frames' = Front(frames)
      /\ UNCHANGED <<index, pc, call, stack, seen, ofA, answer, commits, listing>>
      /\ call.op = "replay" /\ call.c \in Known /\ frames \in Seq(Frame) /\ out \in Seq(Id)
      /\ \A e \in Range(frames) : e.id \in Ancestors(call.c)
      /\ Range(out) \subseteq Ancestors(call.c)
      /\ call.c \in Range(out) \/ \E e \in Range(frames) : e.id = call.c
      /\ TodoOf(frames, out) /\ DoneOf(out)
  BY DEF CollectCommit, HistInv, CollectInv, TodoInv, DoneInv
<1>1. /\ top \in Frame /\ top.id \in Id
      /\ Front(frames) \in Seq(Frame) /\ Range(frames) = Range(Front(frames)) \cup {top}
  <2>1. /\ top \in Frame /\ Front(frames) \in Seq(Frame)
        /\ Range(frames) = Range(Front(frames)) \cup {top}
    BY <1>0, FrontLast
  <2> QED
    BY <2>1 DEF Frame
<1>2. /\ out' \in Seq(Id) /\ Range(out') = Range(out) \cup {top.id} /\ DoneOf(out')
  <2>1. CASE top.id \in Range(out)
    <3>1. out' = out
      BY <1>0, <2>1 DEF PushNew
    <3> QED
      BY <1>0, <2>1, <3>1
  <2>2. CASE top.id \notin Range(out)
    <3>1. out' = Append(out, top.id)
      BY <1>0, <2>2 DEF PushNew
    <3>2. Range(ParentsOf(top.id)) \subseteq Range(out)
      BY <1>0, TodoEmpty
    <3>3. DoneOf(Append(out, top.id))
      BY <1>0, <1>1, <2>2, <3>2, DoneAppend
    <3> QED
      BY <1>0, <1>1, <3>1, <3>3, AppendFacts
  <2> QED
    BY <2>1, <2>2
<1>3. TodoOf(frames', out')
  BY <1>0, <1>2, TodoPop
<1>4. /\ \A e \in Range(frames') : e.id \in Ancestors(call.c)
      /\ Range(out') \subseteq Ancestors(call.c)
      /\ call.c \in Range(out') \/ \E e \in Range(frames') : e.id = call.c
  BY <1>0, <1>1, <1>2
<1>5. Ancestors(call.c)' = Ancestors(call.c)
  BY <1>0 DEF Ancestors, Closed, ParentsOf
<1>6. TableInv' /\ LiveInv' /\ Known' = Known /\ IndexInv'
  BY <1>0, SameTable, SameIndex DEF HistInv
<1>7. TodoInv' /\ DoneInv'
  BY <1>0, <1>2, <1>3, SameVisit
<1>8. CollectInv'
  BY <1>0, <1>1, <1>2, <1>4, <1>5, <1>6, <1>7 DEF CollectInv
<1>9. WalkInv'
  BY <1>0, Elsewhere DEF WalkInv
<1> QED
  BY <1>0, <1>6, <1>8, <1>9, Aside DEF HistInv, IdleInv

\* What replay() has put out when it is done: the ancestry, parents first.
LEMMA Collected ==
    ASSUME HistInv, pc = "collect", frames = <<>>
    PROVE  /\ call.c \in Known /\ out \in Seq(Id) /\ Range(out) = Ancestors(call.c)
           /\ DoneOf(out)
<1>1. /\ call.c \in Known /\ out \in Seq(Id) /\ Range(out) \subseteq Ancestors(call.c)
      /\ call.c \in Range(out) \/ \E e \in Range(frames) : e.id = call.c
      /\ DoneOf(out) /\ IndexTyped
  BY DEF HistInv, CollectInv, DoneInv, IndexInv
<1>2. call.c \in Range(out)
  BY <1>1, EmptyRange
<1>3. Len(out) \in Nat /\ \A x : x \in Range(out) <=> \E i \in 1..Len(out) : out[i] = x
  BY <1>1, RangeAt
<1>4. Closed(Range(out))
  <2> SUFFICES ASSUME NEW x \in Range(out), NEW q \in Range(ParentsOf(x)) PROVE q \in Range(out)
    BY DEF Closed
  <2>1. PICK j \in 1..Len(out) : out[j] = x
    BY <1>3
  <2>2. PICK k \in 1..(j - 1) : out[k] = q
    BY <1>1, <2>1 DEF DoneOf
  <2>3. k \in 1..Len(out)
    BY <1>3
  <2> QED
    BY <1>3, <2>2, <2>3
<1>5. Range(out) \in SUBSET Id /\ call.c \in Id
  BY <1>1, RangeAt DEF Known
<1>6. Ancestors(call.c) \subseteq Range(out)
  BY <1>1, <1>2, <1>4, <1>5, LeastClosed DEF AncestorFacts
<1> QED
  BY <1>1, <1>6

\* Sorted by the key, it has every ancestor once.
LEMMA SortedOnce ==
    ASSUME TableInv, NEW list \in Seq(Id), DoneOf(list), Range(list) \subseteq Known,
           NEW order \in SortByKey(list)
    PROVE  Range(order) = Range(list) /\ IsInjective(order)
<1>1. /\ DOMAIN list = 1..Len(list) /\ Len(list) \in Nat /\ DOMAIN order = 1..Len(list)
      /\ Range(order) = Range(list)
      /\ \A i, j \in 1..Len(list) : i < j =>
            SortsBefore(order[i], order[j]) \/ Tie(list, order[i], order[j])
  BY DEF SortByKey
<1>2. ASSUME NEW i \in 1..Len(list), NEW j \in 1..Len(list), i < j PROVE order[i] # order[j]
  <2>1. order[i] \in Known
    BY <1>1 DEF Range
  <2>2. ~SortsBefore(order[i], order[i])
    BY <2>1, Keys
  <2>3. ~Tie(list, order[i], order[i])
    <3> SUFFICES ASSUME NEW m \in 1..Len(list), NEW n \in 1..Len(list), m < n,
                        list[m] = order[i], list[n] = order[i]
                 PROVE  FALSE
      BY <1>1 DEF Tie
    <3>1. m = n
      BY DEF DoneOf
    <3> QED
      BY <1>1, <3>1
  <2> QED
    BY <1>1, <1>2, <2>2, <2>3
<1>3. \A i, j \in 1..Len(list) : i < j \/ j < i \/ i = j
  BY <1>1
<1>4. \A i, j \in 1..Len(list) : order[i] = order[j] => i = j
  BY <1>2, <1>3
<1> QED
  BY <1>1, <1>4 DEF IsInjective

\* And parents first, where no parent sorts behind its child.
LEMMA SortedOrder ==
    ASSUME IndexInv, NEW list \in Seq(Id), DoneOf(list), NEW order \in SortByKey(list),
           \A x \in Range(list) : \A q \in Range(ParentsOf(x)) : ~SortsBefore(x, q)
    PROVE  ParentsFirst(order)
<1>1. /\ DOMAIN list = 1..Len(list) /\ Len(list) \in Nat /\ DOMAIN order = 1..Len(list)
      /\ Range(order) = Range(list)
      /\ \A i, j \in 1..Len(list) : i < j =>
            SortsBefore(order[i], order[j]) \/ Tie(list, order[i], order[j])
  BY DEF SortByKey
<1> SUFFICES ASSUME NEW i \in 1..Len(list), NEW j \in 1..Len(list),
                    order[i] \in Range(ParentsOf(order[j])), ~(i < j)
             PROVE  FALSE
  BY <1>1 DEF ParentsFirst
<1>2. order[j] \in Range(list) /\ order[j] \in Id /\ order[i] \in Id
  <2>1. order[i] \in Range(order) /\ order[j] \in Range(order)
    BY <1>1 DEF Range
  <2> QED
    BY <1>1, <2>1, RangeAt
<1>3. i # j
  <2>1. order[i] \notin Ancestors(order[i]) \/ i # j
    BY <1>2 DEF IndexInv
  <2> QED
    BY <1>2, <2>1, LeastClosed DEF IndexInv, AncestorFacts
<1>4. j < i
  BY <1>1, <1>3
<1>5. ~SortsBefore(order[j], order[i])
  BY <1>2
<1>6. PICK m \in 1..Len(list), n \in 1..Len(list) : m < n /\ list[m] = order[j] /\ list[n] = order[i]
  BY <1>1, <1>4, <1>5 DEF Tie
<1>7. PICK k \in 1..(m - 1) : list[k] = order[i]
  BY <1>6 DEF DoneOf
<1>8. k \in 1..Len(list) /\ k < n
  BY <1>1, <1>6
<1>9. k = n
  BY <1>6, <1>7, <1>8 DEF DoneOf
<1> QED
  BY <1>1, <1>8, <1>9

\* The answer of replay().
LEMMA ReplayedKeeps == ASSUME HistInv, Replayed PROVE HistInv'
<1>0. /\ pc = "collect" /\ frames = <<>> /\ call' = call /\ pc' = "answer"
      /\ UNCHANGED <<index, call, locals, commits, listing>>
      /\ call.op = "replay"
  BY DEF Replayed, Answer, HistInv, CollectInv
<1>1. PICK order \in SortByKey(out) : answer' = order
  BY DEF Replayed, Answer
<1>2. /\ call.c \in Known /\ out \in Seq(Id) /\ Range(out) = Ancestors(call.c) /\ DoneOf(out)
  BY <1>0, Collected
<1>3. /\ Known = Indexed /\ \A x \in Known : ParentsOf(x) = commits[x].parents
  BY <1>0, Live DEF HistInv
<1>4. Range(out) \subseteq Known
  BY <1>2, <1>3, AboveIndexed DEF HistInv, Known
<1>5. Range(order) = Ancestors(call.c) /\ IsInjective(order)
  BY <1>2, <1>4, SortedOnce DEF HistInv
<1>6. TableInv' /\ LiveInv' /\ Known' = Known /\ IndexInv'
  BY <1>0, SameTable, SameIndex DEF HistInv
<1>7. Ancestors(call.c)' = Ancestors(call.c)
  BY <1>0 DEF Ancestors, Closed, ParentsOf
<1>8. ReplayIsComplete'
  BY <1>0, <1>1, <1>2, <1>5, <1>6, <1>7 DEF ReplayIsComplete
<1>9. ReplayRespectsOrder'
  <2> SUFFICES ASSUME \A x \in Ancestors(call.c)' : \A q \in Range(commits'[x].parents) :
                         ~SortsBefore(x, q)'
               PROVE  ParentsFirst(answer)'
    BY DEF ReplayRespectsOrder
  <2>1. \A x \in Range(out) : \A q \in Range(ParentsOf(x)) : ~SortsBefore(x, q)
    BY <1>0, <1>2, <1>3, <1>4, <1>7 DEF SortsBefore
  <2>2. ParentsFirst(order)
    BY <1>2, <2>1, SortedOrder DEF HistInv
  <2> QED
    BY <1>0, <1>1, <2>2 DEF ParentsFirst, ParentsOf
<1>10. WalkInv'
  BY <1>0, Elsewhere DEF WalkInv
<1> QED
  BY <1>0, <1>6, <1>8, <1>9, <1>10, Aside DEF HistInv, IdleInv

-----------------------------------------------------------------------------
(* Startup                                                                 *)

\* A restart forgets the index and lists the table.
LEMMA RestartKeeps == ASSUME HistInv, Restart PROVE HistInv'
<1>0. /\ index' = [c \in Id |-> None] /\ listing' \in ListAllCommits
      /\ pc' = "rebuild" /\ call' = [op |-> "rebuild", a |-> None, c |-> None]
      /\ commits' = commits
  BY DEF Restart
<1>1. TableInv' /\ Known' = Known
  BY <1>0, SameTable DEF HistInv
<1>2. LiveInv'
  BY <1>0 DEF LiveInv
<1>3. IndexTyped' /\ Indexed' = {}
  BY <1>0 DEF IndexTyped, Indexed
<1>4. IndexInv'
  <2>1. \A c \in Id : Range(ParentsOf(c)') = {}
    BY <1>0, <1>3, FactsNext DEF ParentFacts
  <2> QED
    BY <1>3, <2>1 DEF IndexInv, Closed
<1>5. /\ listing' \in Seq(Id) /\ Range(listing') = Known
      /\ \A i, j \in 1..Len(listing') : i < j => ListedBefore(listing'[i], listing'[j])
  <2>1. Cardinality(Known) \in Nat /\ Known \subseteq Id
    BY FS_CardinalityType DEF HistInv, TableInv, Known
  <2>2. /\ listing' \in [1..Cardinality(Known) -> Known] /\ Range(listing') = Known
        /\ \A i, j \in DOMAIN listing' : i < j => ListedBefore(listing'[i], listing'[j])
    BY <1>0 DEF ListAllCommits
  <2>3. listing' \in [1..Cardinality(Known) -> Id] /\ DOMAIN listing' = 1..Cardinality(Known)
    BY <2>1, <2>2
  <2>4. listing' \in Seq(Id) /\ Len(listing') = Cardinality(Known)
    BY <2>1, <2>3
  <2> QED
    BY <2>2, <2>3, <2>4
<1>6. RebuildInv'
  <2>1. \A i, j \in 1..Len(listing') : i < j => ListedBefore(listing[i], listing[j])'
    BY <1>0, <1>5 DEF ListedBefore
  <2> QED
    BY <1>0, <1>1, <1>3, <1>5, <2>1 DEF RebuildInv
<1>7. WalkInv'
  BY <1>0, Elsewhere DEF WalkInv
<1> QED
  BY <1>0, <1>1, <1>2, <1>4, <1>6, <1>7, Aside DEF HistInv, IdleInv

\* The next of the listing comes after all that is in the index and before
\* what is left of the listing, so it is refused only if it is listed before
\* one of its parents.
LEMMA NextListed ==
    ASSUME HistInv, pc = "rebuild", listing # <<>>
    PROVE  LET c == Head(listing)
               parents == commits[c].parents
           IN  /\ c \in Known \ Indexed /\ parents \in Seq(Id)
               /\ Tail(listing) \in Seq(Id) /\ Range(listing) = {c} \cup Range(Tail(listing))
               /\ c \notin Range(Tail(listing))
               /\ \A y \in Range(Tail(listing)) : ListedBefore(c, y)
               /\ \A i, j \in 1..Len(Tail(listing)) :
                     i < j => ListedBefore(Tail(listing)[i], Tail(listing)[j])
               /\ Accepts(c, parents) <=> AfterParents(c)
<1> DEFINE c == Head(listing)
           parents == commits[c].parents
           rest == Tail(listing)
<1>0. /\ listing \in Seq(Id) /\ TableInv /\ IndexInv
      /\ Indexed \cup Range(listing) = Known /\ Indexed \cap Range(listing) = {}
      /\ \A i, j \in 1..Len(listing) : i < j => ListedBefore(listing[i], listing[j])
      /\ \A x \in Indexed : \A y \in Range(listing) : ListedBefore(x, y)
  BY DEF HistInv, RebuildInv
<1>1. rest \in Seq(Id) /\ Range(listing) = {c} \cup Range(rest)
  BY <1>0, HeadTail
<1>2. /\ Len(listing) \in Nat /\ Len(listing) >= 1 /\ c = listing[1]
      /\ Len(rest) = Len(listing) - 1
      /\ \A i \in 1..(Len(listing) - 1) : rest[i] = listing[i + 1]
  BY <1>0
<1>3. c \in Known \ Indexed /\ c \in Id /\ parents \in Seq(Id) /\ Range(parents) \subseteq Known \ {c}
  BY <1>0, <1>1 DEF TableInv, Known, Commit
<1>4. ASSUME NEW y \in Range(rest) PROVE ListedBefore(c, y)
  <2>1. PICK i \in 1..Len(rest) : rest[i] = y
    BY <1>1, RangeAt
  <2>2. 1 \in 1..Len(listing) /\ i + 1 \in 1..Len(listing) /\ 1 < i + 1 /\ listing[i + 1] = y
    BY <1>2, <2>1
  <2> QED
    BY <1>0, <1>2, <2>2
<1>5. c \notin Range(rest)
  <2>1. ListedBefore(c, c) => ~ListedBefore(c, c)
    BY <1>0, <1>3, Keys
  <2> QED
    BY <1>4, <2>1
<1>6. ASSUME NEW i \in 1..Len(rest), NEW j \in 1..Len(rest), i < j
      PROVE  ListedBefore(rest[i], rest[j])
  <2>1. /\ i + 1 \in 1..Len(listing) /\ j + 1 \in 1..Len(listing) /\ i + 1 < j + 1
        /\ rest[i] = listing[i + 1] /\ rest[j] = listing[j + 1]
    BY <1>2, <1>6
  <2> QED
    BY <1>0, <2>1
<1>7. Accepts(c, parents) <=> Range(parents) \subseteq Indexed
  BY <1>0, <1>3, NewIsNoAncestor
<1>8. ASSUME NEW q \in Range(parents) PROVE q \in Indexed <=> ListedBefore(q, c)
  <2>1. CASE q \in Indexed
    BY <1>0, <1>1, <2>1
  <2>2. CASE q \notin Indexed
    <3>1. q \in Known /\ q \in Range(rest)
      BY <1>0, <1>1, <1>3, <2>2
    <3>2. ListedBefore(c, q)
      BY <1>4, <3>1
    <3> QED
      BY <1>0, <1>3, <2>2, <3>1, <3>2, Keys
  <2> QED
    BY <2>1, <2>2
<1>9. Accepts(c, parents) <=> AfterParents(c)
  BY <1>7, <1>8 DEF AfterParents
<1> HIDE DEF c, parents, rest
<1>10. /\ c \in Known \ Indexed /\ parents \in Seq(Id)
       /\ rest \in Seq(Id) /\ Range(listing) = {c} \cup Range(rest)
       /\ c \notin Range(rest)
       /\ \A y \in Range(rest) : ListedBefore(c, y)
       /\ \A i, j \in 1..Len(rest) : i < j => ListedBefore(rest[i], rest[j])
       /\ Accepts(c, parents) <=> AfterParents(c)
  BY <1>1, <1>3, <1>4, <1>5, <1>6, <1>9
<1> QED
  BY <1>10, Zenon DEF c, parents, rest

\* from_commits takes the next of the listing.
LEMMA RebuildNextKeeps == ASSUME HistInv, RebuildNext PROVE HistInv'
<1>0. /\ pc = "rebuild" /\ listing # <<>> /\ call' = call /\ commits' = commits
      /\ UNCHANGED <<locals, answer>> /\ listing' = Tail(listing) /\ call.op = "rebuild"
  BY DEF RebuildNext, HistInv, RebuildInv
<1>1. PICK c : c = Head(listing)
  OBVIOUS
<1>2. PICK parents : parents = commits[c].parents
  OBVIOUS
<1>3. /\ c \in Known \ Indexed /\ c \in Id /\ parents \in Seq(Id)
      /\ listing' \in Seq(Id) /\ Range(listing) = {c} \cup Range(listing')
      /\ c \notin Range(listing')
      /\ \A y \in Range(listing') : ListedBefore(c, y)
      /\ \A i, j \in 1..Len(listing') : i < j => ListedBefore(listing'[i], listing'[j])
      /\ Accepts(c, parents) <=> AfterParents(c)
  <2>1. LET d == Head(listing)
            theirs == commits[d].parents
        IN  /\ d \in Known \ Indexed /\ theirs \in Seq(Id)
            /\ Tail(listing) \in Seq(Id) /\ Range(listing) = {d} \cup Range(Tail(listing))
            /\ d \notin Range(Tail(listing))
            /\ \A y \in Range(Tail(listing)) : ListedBefore(d, y)
            /\ \A i, j \in 1..Len(Tail(listing)) :
                  i < j => ListedBefore(Tail(listing)[i], Tail(listing)[j])
            /\ Accepts(d, theirs) <=> AfterParents(d)
    BY <1>0, NextListed
  <2> QED
    BY <1>0, <1>1, <1>2, <2>1 DEF Known
<1>4. TableInv' /\ Known' = Known
  BY <1>0, SameTable DEF HistInv
<1>5. CASE Accepts(c, parents) /\ Insert(c, parents) /\ pc' = pc
  <2>1. IndexInv' /\ WalkInv'
    BY <1>0, <1>3, <1>5, GrowthStep DEF HistInv, locals
  <2>2. Indexed' = Indexed \cup {c} /\ index' = [index EXCEPT ![c] = parents]
    BY <1>3, <1>5, Growth DEF HistInv, Insert
  <2>3. /\ Indexed \cup Range(listing) = Known /\ Indexed \cap Range(listing) = {}
        /\ \A x \in Indexed : /\ index[x] = commits[x].parents /\ AfterParents(x)
                              /\ \A y \in Range(listing) : ListedBefore(x, y)
        /\ index \in [Id -> Seq(Id) \cup {None}] /\ Indexed \subseteq Id
    BY <1>0 DEF HistInv, RebuildInv, IndexInv, IndexTyped, Indexed
  <2>4. Indexed' \cup Range(listing') = Known /\ Indexed' \cap Range(listing') = {}
    BY <1>3, <2>2, <2>3
  <2>5. ASSUME NEW x \in Indexed'
        PROVE  /\ index'[x] = commits[x].parents /\ AfterParents(x)
               /\ \A y \in Range(listing') : ListedBefore(x, y)
    <3>1. CASE x = c
      BY <1>2, <1>3, <1>5, <2>2, <2>3, <3>1
    <3>2. CASE x # c
      BY <1>3, <2>2, <2>3, <3>2
    <3> QED
      BY <3>1, <3>2
  <2>6. RebuildInv'
    <3>1. \A i, j \in 1..Len(listing') : i < j => ListedBefore(listing[i], listing[j])'
      BY <1>0, <1>3 DEF ListedBefore
    <3>2. \A x \in Indexed' : /\ index'[x] = commits'[x].parents /\ AfterParents(x)'
                              /\ \A y \in Range(listing') : ListedBefore(x, y)'
      BY <1>0, <2>5 DEF AfterParents, ListedBefore
    <3> QED
      BY <1>0, <1>3, <1>4, <2>4, <3>1, <3>2 DEF RebuildInv
  <2> QED
    BY <1>0, <1>4, <1>5, <2>1, <2>6, Aside DEF HistInv, LiveInv, IdleInv
<1>6. CASE ~Accepts(c, parents) /\ index' = index /\ pc' = "failed"
  <2>1. c \in Known /\ ~AfterParents(c)
    BY <1>3, <1>6
  <2>2. RebuildDecided'
    <3>1. PICK q \in Range(commits[c].parents) : ~ListedBefore(q, c)
      BY <2>1 DEF AfterParents
    <3>2. q \in Range(commits'[c].parents) /\ ~ListedBefore(q, c)' /\ c \in Known'
      BY <1>0, <1>4, <2>1, <3>1 DEF ListedBefore
    <3> QED
      BY <1>6, <3>2 DEF RebuildDecided, Answered
  <2>3. IndexInv'
    BY <1>6, SameIndex DEF HistInv
  <2>4. WalkInv'
    BY <1>0, <1>6, Elsewhere DEF WalkInv
  <2> QED
    BY <1>4, <1>6, <2>2, <2>3, <2>4, Aside DEF HistInv, LiveInv, IdleInv
<1> QED
  BY <1>1, <1>2, <1>5, <1>6 DEF RebuildNext

\* The listing is at its end: the index has the whole table.
LEMMA RebuiltKeeps == ASSUME HistInv, Rebuilt PROVE HistInv'
<1>0. /\ pc = "rebuild" /\ listing = <<>> /\ answer' = TRUE /\ pc' = "answer"
      /\ UNCHANGED <<index, call, locals, commits, listing>>
      /\ call.op = "rebuild" /\ Indexed \cup Range(listing) = Known
      /\ \A x \in Indexed : index[x] = commits[x].parents /\ AfterParents(x)
  BY DEF Rebuilt, Answer, HistInv, RebuildInv
<1>1. Indexed = Known
  BY <1>0, EmptyRange
<1>2. \A c \in Id : index[c] = IF c \in Known THEN commits[c].parents ELSE None
  BY <1>0, <1>1 DEF Indexed
<1>3. TableInv' /\ Known' = Known /\ IndexInv'
  BY <1>0, SameTable, SameIndex DEF HistInv
<1>4. LiveInv'
  BY <1>0, <1>2, <1>3 DEF LiveInv
<1>5. RebuildDecided'
  <2>1. \A c \in Known' : \A q \in Range(commits'[c].parents) : ListedBefore(q, c)'
    BY <1>0, <1>1, <1>3 DEF AfterParents, ListedBefore
  <2> QED
    BY <1>0, <1>2, <1>3, <2>1 DEF RebuildDecided
<1>6. WalkInv'
  BY <1>0, Elsewhere DEF WalkInv
<1> QED
  BY <1>0, <1>3, <1>4, <1>5, <1>6, Aside DEF HistInv, IdleInv

-----------------------------------------------------------------------------
(* The theorems                                                            *)

\* Every step keeps the invariant.
LEMMA HistoryStep == HistInv /\ [Next]_vars => HistInv'
<1> SUFFICES ASSUME HistInv, [Next]_vars PROVE HistInv'
  OBVIOUS
<1>1. CASE Walk /\ UNCHANGED <<commits, listing>>
  BY <1>1, WalksKeep
<1>2. CASE \E c \in Id : Append1(c)
  BY <1>2, ArrivalKeeps
<1>3. CASE Replay
  <2>1. CASE \E c \in Id : AskReplay(c)
    BY <2>1, AskReplayKeeps
  <2>2. CASE CollectParent \/ CollectCommit \/ Replayed
    BY <2>2, CollectParentKeeps, CollectCommitKeeps, ReplayedKeeps
  <2> QED
    BY <1>3, <2>1, <2>2 DEF Replay
<1>4. CASE Restart \/ RebuildNext \/ Rebuilt
  BY <1>4, RestartKeeps, RebuildNextKeeps, RebuiltKeeps
<1>5. CASE UNCHANGED vars
  <2>1. /\ index' = index /\ pc' = pc /\ call' = call /\ UNCHANGED locals /\ answer' = answer
        /\ commits' = commits /\ listing' = listing
    BY <1>5 DEF vars
  <2>2. IndexInv'
    BY <2>1, SameIndex DEF HistInv
  <2>3. ReachInv' /\ NearInv' /\ IsAncestorDecides' /\ NcaIsCommon'
    <3>1. Ancestors(call.a)' = Ancestors(call.a) /\ Ancestors(call.c)' = Ancestors(call.c)
      BY <2>1 DEF Ancestors, Closed, ParentsOf
    <3>2. ReachInv'
      BY <2>1, <3>1 DEF HistInv, WalkInv, ReachInv, AskedTwo, ParentsOf, locals
    <3>3. NearInv' /\ IsAncestorDecides'
      BY <2>1, <3>1 DEF HistInv, WalkInv, NearInv, AskedTwo, IsAncestorDecides, Answered, locals
    <3>4. NcaIsCommon'
      BY <2>1, <3>1 DEF HistInv, WalkInv, NcaIsCommon, Answered, locals
    <3> QED
      BY <3>2, <3>3, <3>4
  <2>4. VisitInv'
    <3>1. SeenInv' <=> SeenInv
      BY <2>1 DEF SeenInv, AskedTwo, Root, Ancestors, Closed, ParentsOf, locals
    <3> QED
      BY <2>1, <3>1, SameVisit DEF HistInv, WalkInv, VisitInv, PathInv, TodoInv, DoneInv, locals
  <2>5. AncestryIsTopological' /\ ReplayIsComplete'
    BY <2>1 DEF HistInv, WalkInv, AncestryIsTopological, ReplayIsComplete, Answered, Known,
                ParentsFirst, Ancestors, Closed, ParentsOf
  <2>6. ReplayRespectsOrder'
    BY <2>1 DEF HistInv, ReplayRespectsOrder, Answered, Known, SortsBefore,
                ParentsFirst, Ancestors, Closed, ParentsOf
  <2>7. TableInv' /\ LiveInv' /\ IdleInv'
    BY <2>1 DEF HistInv, TableInv, LiveInv, IdleInv, Known, locals
  <2>8. CollectInv'
    <3>1. Ancestors(call.c)' = Ancestors(call.c) /\ Known' = Known
      BY <2>1 DEF Ancestors, Closed, ParentsOf, Known
    <3> QED
      BY <2>1, <3>1, SameVisit DEF HistInv, CollectInv, TodoInv, DoneInv, locals
  <2>9. RebuildInv' /\ RebuildDecided'
    BY <2>1 DEF HistInv, RebuildInv, RebuildDecided, Answered, Indexed, Known, AfterParents,
                ListedBefore
  <2> QED
    BY <2>2, <2>3, <2>4, <2>5, <2>6, <2>7, <2>8, <2>9 DEF HistInv, WalkInv
<1> QED
  BY <1>1, <1>2, <1>3, <1>4, <1>5 DEF Next

\* What holds however the calls, the commits that arrive and the restarts
\* follow each other.
THEOREM HistoryInvariant == Spec => []HistInv
<1>1. Init => HistInv
  BY HistoryStart
<1>2. HistInv /\ [Next]_vars => HistInv'
  BY HistoryStep
<1> QED
  BY <1>1, <1>2, PTL DEF Spec

\* ancestry() lists the ancestors of the commit and nothing else, each once
\* and after its parents (collect_ancestry, dag.rs).
THEOREM AncestryListed == Spec => []AncestryIsTopological
<1>1. HistInv => AncestryIsTopological
  BY DEF HistInv, WalkInv
<1> QED
  BY <1>1, HistoryInvariant, PTL

\* is_ancestor() says whether the one is above the other, for ids the index
\* does not have too (reachable_locked, dag.rs).
THEOREM IsAncestorDecided == Spec => []IsAncestorDecides
<1>1. HistInv => IsAncestorDecides
  BY DEF HistInv, WalkInv
<1> QED
  BY <1>1, HistoryInvariant, PTL

\* nearest_common_ancestor() finds a common ancestor when there is one,
\* whatever is appended between its two walks (dag.rs).
THEOREM NearestIsCommon == Spec => []NcaIsCommon
<1>1. HistInv => NcaIsCommon
  BY DEF HistInv, WalkInv
<1> QED
  BY <1>1, HistoryInvariant, PTL

\* replay() applies every ancestor exactly once, though the table grows while
\* it collects them (replay.rs).
THEOREM ReplayedWhole == Spec => []ReplayIsComplete
<1>1. HistInv => ReplayIsComplete
  BY DEF HistInv
<1> QED
  BY <1>1, HistoryInvariant, PTL

\* replay() applies parents before children wherever clocks and times do not
\* run backwards, since its sort is stable (replay.rs).
THEOREM ReplayedInOrder == Spec => []ReplayRespectsOrder
<1>1. HistInv => ReplayRespectsOrder
  BY DEF HistInv
<1> QED
  BY <1>1, HistoryInvariant, PTL

\* from_commits() rebuilds the whole index exactly when the listing has every
\* commit after its parents, and otherwise the daemon does not start
\* (dag.rs, sqlite_store.rs).
THEOREM RebuildIsDecided == Spec => []RebuildDecided
<1>1. HistInv => RebuildDecided
  BY DEF HistInv
<1> QED
  BY <1>1, HistoryInvariant, PTL
=============================================================================
