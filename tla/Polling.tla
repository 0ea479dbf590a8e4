------------------------------- MODULE Polling -------------------------------
(***************************************************************************)
(* How clients follow a channel without a stream: they ask for the bus's   *)
(* recent deltas (Bus::recent_deltas, bus/mod.rs) again and again and tell *)
(* what is new, the SDKs by the ids they have seen (client.py,             *)
(* asyncIterable.ts), the command line by how many there were (main.rs).   *)
(***************************************************************************)
EXTENDS Integers, Sequences, SequencesExt, FiniteSets

CONSTANTS
    Topic,      \* channels
    Watched,    \* the one that is polled
    DeltaId,    \* delta ids; publishers over gRPC choose theirs
    Cap,        \* length of the recent list (256 in the code)
    MaxPushes   \* bound on the deltas pushed

ASSUME PollingAssumption == Watched \in Topic /\ Cap \in Nat \ {0} /\ MaxPushes \in Nat

VARIABLES
    recent,   \* Bus.recent_deltas
    pushes,   \* how many deltas were pushed
    reader,   \* the client: "none", "sdk" or "cli"
    left,     \* what it has still to look at of the last answer
    seen,     \* sdk: ids
    count,    \* cli: length of the last answer
    shown,    \* what it has yielded or printed
    offered,  \* history: all that its answers had
    lost      \* history: an entry of the channel has left the list

client == <<reader, left, seen, count, shown, offered>>

pollVars == <<recent, pushes, client, lost>>

\* An entry of the list; at tells pushes apart.
DeltaInfo == [at : 1..MaxPushes, id : DeltaId, channel : Topic]

\* s is in the order of pushing.
InOrder(s) == \A i, j \in DOMAIN s : i < j => s[i].at < s[j].at

Matching == {u \in Range(recent) : u.channel = Watched}

PollInit ==
    /\ recent = <<>> /\ pushes = 0
    /\ reader = "none" /\ left = <<>> /\ seen = {} /\ count = 0 /\ shown = <<>>
    /\ offered = {} /\ lost = FALSE

\* push_recent
Push(channel, id) ==
    /\ pushes < MaxPushes
    /\ recent' = Append(IF Len(recent) = Cap THEN Tail(recent) ELSE recent,
                        [at |-> pushes + 1, id |-> id, channel |-> channel])
    /\ lost' = (lost \/ (Len(recent) = Cap /\ Head(recent).channel = Watched))
    /\ pushes' = pushes + 1
    /\ UNCHANGED client

\* The daemon restarts between two polls; at one, the client would give up.
Forget ==
    /\ recent # <<>> /\ recent' = <<>>
    /\ lost' = (lost \/ Matching # {})
    /\ UNCHANGED <<pushes, client>>

Subscribe(k) ==
    /\ reader = "none" /\ reader' = k
    /\ UNCHANGED <<recent, pushes, left, seen, count, shown, offered, lost>>

\* recent_deltas(channel)
RecentDeltas ==
    {s \in [1..Cardinality(Matching) -> Matching] : Range(s) = Matching /\ InOrder(s)}

Answered(items) == items \in RecentDeltas /\ offered' = offered \cup Matching

SdkPoll ==
    /\ reader = "sdk" /\ left = <<>>
    /\ Answered(left')
    /\ UNCHANGED <<recent, pushes, reader, seen, count, shown, lost>>

\* The next of the answer is yielded unless its id was seen.
SdkShow ==
    /\ reader = "sdk" /\ left # <<>> /\ left' = Tail(left)
    /\ IF Head(left).id \in seen THEN UNCHANGED <<seen, shown>>
       ELSE /\ seen' = seen \cup {Head(left).id}
            /\ shown' = Append(shown, Head(left))
    /\ UNCHANGED <<recent, pushes, reader, count, offered, lost>>

\* Mutant: the lengths are added up.
CliPollSum ==
    /\ reader = "cli" /\ left = <<>>
    /\ \E items \in RecentDeltas :
        /\ Answered(items)
        /\ left' = SubSeq(items, count + 1, Len(items))
        /\ count' = count + Len(items)
    /\ UNCHANGED <<recent, pushes, reader, seen, shown, lost>>

\* As many as there were last time are skipped.
CliPoll ==
    /\ reader = "cli" /\ left = <<>>
    /\ \E items \in RecentDeltas :
        /\ Answered(items)
        /\ left' = SubSeq(items, count + 1, Len(items))
        /\ count' = Len(items)
    /\ UNCHANGED <<recent, pushes, reader, seen, shown, lost>>

CliPrint ==
    /\ reader = "cli" /\ left # <<>> /\ left' = Tail(left)
    /\ shown' = Append(shown, Head(left))
    /\ UNCHANGED <<recent, pushes, reader, seen, count, offered, lost>>

PollNext ==
    \/ \E c \in Topic, id \in DeltaId : Push(c, id)
    \/ Forget
    \/ \E k \in {"sdk", "cli"} : Subscribe(k)
    \/ SdkPoll \/ SdkShow \/ CliPoll \/ CliPrint

PollSpec == PollInit /\ [][PollNext]_pollVars

-----------------------------------------------------------------------------
(* Properties                                                              *)

Ids(S) == {u.id : u \in S}

\* A client shows, in the order of pushing and each push once, nothing but
\* what its answers had.  An SDK shows every id its answers had, once.  The
\* command line, which only counts, shows all its answers had as long as no
\* entry of the channel has left the list; then it may miss some, but it
\* repeats none.
PollsShow ==
    /\ InOrder(shown) /\ Range(shown) \subseteq offered
    /\ reader = "sdk" =>
          /\ \A i, j \in DOMAIN shown : shown[i].id = shown[j].id => i = j
          /\ left = <<>> => Ids(Range(shown)) = Ids(offered)
    /\ reader = "cli" /\ ~lost /\ left = <<>> => Range(shown) = offered
=============================================================================
