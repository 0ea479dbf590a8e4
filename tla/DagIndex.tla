------------------------------ MODULE DagIndex ------------------------------
(***************************************************************************)
(* DagIndex (ledger/dag.rs): the parents of every commit, in memory, and   *)
(* the walks over them that answer is_ancestor, ancestry and               *)
(* nearest_common_ancestor, one step of their loops at a time.  A walk     *)
(* holds the read lock, so commits are appended only between walks; walks  *)
(* share nothing, so one is enough.  The map of children is only written.  *)
(***************************************************************************)
EXTENDS Integers, Sequences, SequencesExt, FiniteSets

CONSTANTS
    Id,    \* commit ids
    None

ASSUME IdAssumption == None \notin Id /\ None \notin Seq(Id) /\ \A S \in SUBSET Id : S # None

VARIABLES
    index,   \* DagIndex.parents: id -> list of parents, None without an entry
    pc,      \* where the call is; at "answer" it still holds the lock
    call,    \* what was asked: op, a (ancestor, or a of a, b) and c (the commit, or b)
    stack,   \* reachable_locked: ids to look at
    frames,  \* collect_ancestry: the calls under way, each with the parents left to visit
    seen,    \* of either walk
    out,     \* what collect_ancestry has put out
    ofA,     \* nearest_common_ancestor: a's ancestry, None before it is there
    answer

locals == <<stack, frames, seen, out, ofA>>

Indexed == {c \in Id : index[c] # None}

\* parents.get
ParentsOf(c) == IF index[c] = None THEN <<>> ELSE index[c]

Unlocked == pc \in {"idle", "between"}

DagInit ==
    /\ index = [c \in Id |-> None]
    /\ pc = "idle" /\ call = None /\ answer = None
    /\ stack = <<>> /\ frames = <<>> /\ seen = {} /\ out = <<>> /\ ofA = None

Answer(value) == answer' = value /\ pc' = "answer"

\* The call is over.
Return ==
    /\ pc = "answer"
    /\ pc' = "idle" /\ call' = None /\ answer' = None
    /\ stack' = <<>> /\ frames' = <<>> /\ seen' = {} /\ out' = <<>> /\ ofA' = None
    /\ UNCHANGED index

-----------------------------------------------------------------------------
(* What the walks are about                                                *)

\* S holds the parents of what is in it.
Closed(S) == \A x \in S : Range(ParentsOf(x)) \subseteq S

\* c and everything above it: what every closed set with c has.
Ancestors(c) == {x \in Id : \A S \in SUBSET Id : c \in S /\ Closed(S) => x \in S}

-----------------------------------------------------------------------------
(* append                                                                  *)

\* Mutant: unknown parents are let in.
AcceptsUnknown(c, parents) == c \notin Range(parents)

\* What append() asks of a commit: reachable_locked finds the id from no
\* parent (IsAncestorDecides says what that walk finds).
Accepts(c, parents) ==
    /\ c \notin Range(parents)
    /\ \A q \in Range(parents) : q \in Indexed /\ c \notin Ancestors(q)

\* The entry of an accepted commit.
Insert(c, parents) == index' = [index EXCEPT ![c] = parents]

-----------------------------------------------------------------------------
(* is_ancestor                                                             *)

AskIsAncestor(a, c) ==
    /\ pc = "idle"
    /\ call' = [op |-> "is_ancestor", a |-> a, c |-> c]
    /\ IF a = c THEN Answer(TRUE) /\ UNCHANGED locals
       ELSE /\ pc' = "reach" /\ stack' = <<c>> /\ seen' = {}
            /\ UNCHANGED <<answer, frames, out, ofA>>
    /\ UNCHANGED index

\* Mutant: the parents take the place of what was left to look at.
ReachReplacing ==
    LET current == Last(stack)
    IN  /\ pc = "reach"
        /\ \/ /\ stack = <<>>
              /\ Answer(FALSE) /\ UNCHANGED <<stack, seen>>
           \/ /\ stack # <<>> /\ current = call.a
              /\ Answer(TRUE) /\ UNCHANGED <<stack, seen>>
           \/ /\ stack # <<>> /\ current # call.a
              /\ stack' = IF current \in seen THEN Front(stack) ELSE ParentsOf(current)
              /\ seen' = seen \cup {current}
              /\ UNCHANGED <<pc, answer>>
        /\ UNCHANGED <<index, call, frames, out, ofA>>

\* reachable_locked: one turn of its loop.
Reach ==
    LET current == Last(stack)
        rest == Front(stack)
    IN  /\ pc = "reach"
        /\ \/ /\ stack = <<>>
              /\ Answer(FALSE) /\ UNCHANGED <<stack, seen>>
           \/ /\ stack # <<>> /\ current = call.a
              /\ Answer(TRUE) /\ UNCHANGED <<stack, seen>>
           \/ /\ stack # <<>> /\ current # call.a
              /\ stack' = IF current \in seen THEN rest ELSE rest \o ParentsOf(current)
              /\ seen' = seen \cup {current}
              /\ UNCHANGED <<pc, answer>>
        /\ UNCHANGED <<index, call, frames, out, ofA>>

-----------------------------------------------------------------------------
(* ancestry and nearest_common_ancestor                                    *)

\* collect_ancestry is called for c by ancestry.
Enter(c) ==
    /\ pc' = "visit"
    /\ frames' = <<[id |-> c, todo |-> ParentsOf(c)]>>
    /\ seen' = {c} /\ out' = <<>>

AskAncestry(c) ==
    /\ pc = "idle"
    /\ call' = [op |-> "ancestry", a |-> c, c |-> c]
    /\ Enter(c)
    /\ UNCHANGED <<index, stack, ofA, answer>>

AskNearest(a, b) ==
    /\ pc = "idle"
    /\ call' = [op |-> "nearest", a |-> a, c |-> b]
    /\ Enter(a)
    /\ UNCHANGED <<index, stack, ofA, answer>>

\* The next parent: a call of its own, which returns at once from one seen.
Descend ==
    /\ pc = "visit" /\ frames # <<>> /\ Last(frames).todo # <<>>
    /\ LET top == Last(frames)
           q == Head(top.todo)
           rest == Append(Front(frames), [top EXCEPT !.todo = Tail(@)])
       IN  /\ frames' = IF q \in seen THEN rest
                        ELSE Append(rest, [id |-> q, todo |-> ParentsOf(q)])
           /\ seen' = seen \cup {q}
    /\ UNCHANGED <<index, pc, call, stack, out, ofA, answer>>

\* Mutant: a commit is put out in front of its parents.
FinishInFront ==
    /\ pc = "visit" /\ frames # <<>> /\ Last(frames).todo = <<>>
    /\ out' = <<Last(frames).id>> \o out
    /\ frames' = Front(frames)
    /\ UNCHANGED <<index, pc, call, stack, seen, ofA, answer>>

\* No parents left: the commit is put out and its call returns.
Finish ==
    /\ pc = "visit" /\ frames # <<>> /\ Last(frames).todo = <<>>
    /\ out' = Append(out, Last(frames).id)
    /\ frames' = Front(frames)
    /\ UNCHANGED <<index, pc, call, stack, seen, ofA, answer>>

\* Mutant: the ancestry of a is not consulted.
FirstOfAny(list, S) == list[1]

\* find: the first of the list that is in S.
FirstOf(list, S) ==
    LET hits == {i \in DOMAIN list : list[i] \in S}
    IN  IF hits = {} THEN None ELSE list[CHOOSE i \in hits : \A j \in hits : i <= j]

\* The outermost call has returned: the lock is released, and for the nearest
\* common ancestor taken again for b's ancestry.
Walked ==
    /\ pc = "visit" /\ frames = <<>>
    /\ \/ /\ call.op = "ancestry"
          /\ Answer(out) /\ UNCHANGED ofA
       \/ /\ call.op = "nearest" /\ ofA = None
          /\ ofA' = Range(out)
          /\ pc' = "between" /\ UNCHANGED answer
       \/ /\ call.op = "nearest" /\ ofA # None
          /\ Answer(FirstOf(out, ofA)) /\ UNCHANGED ofA
    /\ UNCHANGED <<index, call, stack, frames, seen, out>>

WalkAgain ==
    /\ pc = "between"
    /\ Enter(call.c)
    /\ UNCHANGED <<index, call, stack, ofA, answer>>

\* Everything but append.
Walk ==
    \/ \E a, c \in Id : AskIsAncestor(a, c) \/ AskNearest(a, c)
    \/ \E c \in Id : AskAncestry(c)
    \/ Reach \/ Descend \/ Finish \/ Walked \/ WalkAgain \/ Return

-----------------------------------------------------------------------------
(* Properties                                                              *)

Answered(op) == pc = "answer" /\ call.op = op

ParentsFirst(list) ==
    \A i, j \in DOMAIN list : list[i] \in Range(ParentsOf(list[j])) => i < j

\* ancestry() lists a commit's ancestors, each once and after its parents.
AncestryIsTopological ==
    Answered("ancestry") =>
        Range(answer) = Ancestors(call.c) /\ IsInjective(answer) /\ ParentsFirst(answer)

\* is_ancestor() decides ancestry, of ids that are not indexed too.
IsAncestorDecides ==
    Answered("is_ancestor") => (answer <=> call.a \in Ancestors(call.c))

\* nearest_common_ancestor() finds a common ancestor whenever there is one,
\* though commits arrive between its two walks; unless a itself, with its
\* parents, is one of these.
NcaIsCommon ==
    Answered("nearest") =>
        LET common == Ancestors(call.a) \cap Ancestors(call.c)
        IN  IF answer # None THEN answer \in common
            ELSE common = {} \/ (ofA = {call.a} /\ Ancestors(call.a) # {call.a})
=============================================================================
