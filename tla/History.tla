------------------------------- MODULE History -------------------------------
(***************************************************************************)
(* The commit graph at work: the table of commits and the index grow while *)
(* calls walk them (DagIndex's own, and replay, ledger/replay.rs, which    *)
(* reads the table without a lock), rollback() warns of what it leaves     *)
(* behind (ledger/rollback.rs), and a restart rebuilds the index from the  *)
(* listing of the table.  How the table and the index come apart is in     *)
(* Ledger; here both get a commit at once.                                 *)
(***************************************************************************)
EXTENDS DagIndex

CONSTANTS
    Stamps,      \* pairs of a logical clock and a wall clock second
    Half,        \* logical_clock ranges over 0..2*Half-1 (2^63 in the code)
    Effects,     \* whether a commit can have an external side effect
    MaxParents   \* bound on the parents of a commit

ASSUME HistoryAssumption ==
    /\ Id \subseteq Nat     \* ordered arbitrarily, like the hashes they are
    /\ Half \in Nat \ {0} /\ Stamps \subseteq (0..(2 * Half - 1)) \X Int
    /\ Effects \subseteq BOOLEAN /\ MaxParents \in Nat

Commit == [parents : Seq(Id), clock : 0..(2 * Half - 1), wall : Int, effect : BOOLEAN]

ASSUME CommitAssumption == None \notin Commit

VARIABLES
    commits,   \* table commits: id -> commit, None where there is none
    listing    \* from_commits: what is left of the listing

vars == <<index, pc, call, locals, answer, commits, listing>>

Known == {c \in Id : commits[c] # None}

Init == DagInit /\ commits = [c \in Id |-> None] /\ listing = <<>>

\* dag.append and append_commit of a new commit.
Append1(c) ==
    /\ Unlocked \/ pc = "collect"
    /\ commits[c] = None
    /\ \E parents \in SeqOf(Known, MaxParents) :
        /\ Accepts(c, parents) /\ Insert(c, parents)
        /\ \E stamp \in Stamps, effect \in Effects :
              commits' = [commits EXCEPT ![c] = [parents |-> parents, clock |-> stamp[1],
                                                 wall |-> stamp[2], effect |-> effect]]
    /\ UNCHANGED <<pc, call, locals, answer, listing>>

-----------------------------------------------------------------------------
(* rollback(): warnings                                                    *)

\* The commits whose side effects are warned of: those before the target in
\* the ancestry of the head.
RollbackWarnings(ancestry, target) ==
    {c \in Id : \E i \in DOMAIN ancestry :
        /\ c = ancestry[i] /\ commits[c] # None /\ commits[c].effect
        /\ \A j \in 1..i : ancestry[j] # target}

-----------------------------------------------------------------------------
(* replay()                                                                *)

\* collect is called for c: get_commit reads the table.
Fetched(c, under) == Append(under, [id |-> c, todo |-> commits[c].parents])

AskReplay(c) ==
    /\ pc = "idle"
    /\ call' = [op |-> "replay", a |-> c, c |-> c]
    /\ IF commits[c] = None THEN Answer(None) /\ UNCHANGED frames
       ELSE pc' = "collect" /\ frames' = Fetched(c, <<>>) /\ UNCHANGED answer
    /\ UNCHANGED <<index, stack, seen, out, ofA, commits, listing>>

\* The next parent, whether it was collected before or not.
CollectParent ==
    /\ pc = "collect" /\ frames # <<>> /\ Last(frames).todo # <<>>
    /\ LET top == Last(frames)
           q == Head(top.todo)
       IN  IF commits[q] = None THEN Answer(None) /\ UNCHANGED frames
           ELSE /\ frames' = Fetched(q, Append(Front(frames), [top EXCEPT !.todo = Tail(@)]))
                /\ UNCHANGED <<pc, answer>>
    /\ UNCHANGED <<index, call, stack, seen, out, ofA, commits, listing>>

\* Mutant: only the commit just taken is compared.
PushUnlessLast(list, c) == IF list # <<>> /\ c = Last(list) THEN list ELSE Append(list, c)

\* The first of each is kept.
PushNew(list, c) == IF c \in Range(list) THEN list ELSE Append(list, c)

CollectCommit ==
    /\ pc = "collect" /\ frames # <<>> /\ Last(frames).todo = <<>>
    /\ out' = PushNew(out, Last(frames).id)
    /\ frames' = Front(frames)
    /\ UNCHANGED <<index, pc, call, stack, seen, ofA, answer, commits, listing>>

\* The key replay() sorts by; logical_clock is unsigned here.
SortsBefore(a, b) ==
    \/ commits[a].clock < commits[b].clock
    \/ commits[a].clock = commits[b].clock /\ commits[a].wall < commits[b].wall

\* Mutant: an unstable sort leaves ties in any order.
TieUnstable(list, a, b) == a # b

\* sort_by_key is stable: ties stay in the order of the list.
Tie(list, a, b) == \E m, n \in DOMAIN list : m < n /\ list[m] = a /\ list[n] = b

\* The list in the order of the key.
SortByKey(list) ==
    {s \in [DOMAIN list -> Range(list)] :
        /\ Range(s) = Range(list)
        /\ \A i, j \in DOMAIN list : i < j =>
              \/ SortsBefore(s[i], s[j])
              \/ ~SortsBefore(s[j], s[i]) /\ Tie(list, s[i], s[j])}

\* The order in which commits are merged into the state and listed as
\* provenance.
Replayed ==
    /\ pc = "collect" /\ frames = <<>>
    /\ \E order \in SortByKey(out) : Answer(order)
    /\ UNCHANGED <<index, call, locals, commits, listing>>

Replay ==
    \/ \E c \in Id : AskReplay(c)
    \/ CollectParent \/ CollectCommit \/ Replayed

-----------------------------------------------------------------------------
(* Startup                                                                 *)

\* SQLite orders logical_clock as the signed integer it is cast to.
AsI64(clock) == IF clock < Half THEN clock ELSE clock - 2 * Half

\* ORDER BY logical_clock ASC, wall_time_seconds ASC, commit_id ASC
ListedBefore(a, b) ==
    LET ca == AsI64(commits[a].clock)
        cb == AsI64(commits[b].clock)
    IN  \/ ca < cb
        \/ ca = cb /\ commits[a].wall < commits[b].wall
        \/ ca = cb /\ commits[a].wall = commits[b].wall /\ a < b

\* list_all_commits
ListAllCommits ==
    {l \in [1..Cardinality(Known) -> Known] :
        /\ Range(l) = Known
        /\ \A i, j \in DOMAIN l : i < j => ListedBefore(l[i], l[j])}

\* The process stops between two calls and starts again.
Restart ==
    /\ pc = "idle"
    /\ index' = [c \in Id |-> None]
    /\ listing' \in ListAllCommits
    /\ pc' = "rebuild" /\ call' = [op |-> "rebuild", a |-> None, c |-> None]
    /\ UNCHANGED <<locals, answer, commits>>

\* from_commits appends the next commit of the listing ...
RebuildNext ==
    /\ pc = "rebuild" /\ listing # <<>>
    /\ LET c == Head(listing)
           parents == commits[c].parents
       IN  IF Accepts(c, parents) THEN Insert(c, parents) /\ pc' = pc
           ELSE pc' = "failed" /\ UNCHANGED index
    /\ listing' = Tail(listing)
    /\ UNCHANGED <<call, locals, answer, commits>>

\* ... until there is none left; with an error the daemon does not start.
Rebuilt ==
    /\ pc = "rebuild" /\ listing = <<>>
    /\ Answer(TRUE)
    /\ UNCHANGED <<index, call, locals, commits, listing>>

Next ==
    \/ Walk /\ UNCHANGED <<commits, listing>>
    \/ \E c \in Id : Append1(c)
    \/ Replay
    \/ Restart \/ RebuildNext \/ Rebuilt

Spec == Init /\ [][Next]_vars

-----------------------------------------------------------------------------
(* Properties                                                              *)

\* replay() applies every ancestor of the commit exactly once, though the
\* table grows meanwhile, and fails only for a commit that is not there.
ReplayIsComplete ==
    Answered("replay") =>
        IF call.c \in Known THEN Range(answer) = Ancestors(call.c) /\ IsInjective(answer)
        ELSE answer = None

\* replay() applies parents first wherever clocks and times do not run
\* backwards along the history, ties included.
ReplayRespectsOrder ==
    Answered("replay") /\ call.c \in Known
    /\ (\A x \in Ancestors(call.c) : \A q \in Range(commits[x].parents) : ~SortsBefore(x, q))
        => ParentsFirst(answer)

\* The index can be rebuilt exactly when every commit comes after its parents
\* in the listing, and then has the whole history.
RebuildDecided ==
    LET inOrder == \A c \in Known : \A q \in Range(commits[c].parents) : ListedBefore(q, c)
    IN  /\ pc = "failed" => ~inOrder
        /\ Answered("rebuild") =>
              inOrder /\ \A c \in Id : index[c] = IF c \in Known THEN commits[c].parents ELSE None

\* "If the rolled-back range contains external side effects, the daemon
\* returns warnings": every commit rolled back over that has one is warned of.
WarningsCoverRange ==
    Answered("ancestry") /\ call.c \in Known =>
        \A target \in Ancestors(call.c) :
            \A c \in Ancestors(call.c) \ Ancestors(target) :
                commits[c].effect => c \in RollbackWarnings(answer, target)
=============================================================================
