---------------------------- MODULE DurableLedger ----------------------------
(***************************************************************************)
(* What NexusLedger promises, without requests, locks, index or crashes    *)
(* (docs/architecture.md: "append-only commits in a content-addressed      *)
(* DAG", "Durable deltas become commits before a durable acknowledgement   *)
(* is returned"): commits are only ever added, each after its parents;     *)
(* heads name commits that are there; only those are acknowledged.         *)
(***************************************************************************)
CONSTANTS Id, Key, Commit, None

VARIABLES commits, heads, acked

Present == {c \in Id : commits[c] # None}

Init ==
    /\ commits = [c \in Id |-> None]
    /\ heads = [k \in Key |-> None]
    /\ acked = {}

\* A new commit arrives, any one whose parents are all present.
Append(c) ==
    /\ commits[c] = None
    /\ commits'[c] \in Commit /\ commits'[c].parents \subseteq Present
    /\ commits' = [commits EXCEPT ![c] = commits'[c]]
    /\ UNCHANGED <<heads, acked>>

\* A head is set: to a new commit, by a fork or by a rollback.
Point(k, c) ==
    /\ c \in Present
    /\ heads' = [heads EXCEPT ![k] = c]
    /\ UNCHANGED <<commits, acked>>

\* A client is told that its commit is durable.
Acknowledge(c) ==
    /\ c \in Present
    /\ acked' = acked \cup {c}
    /\ UNCHANGED <<commits, heads>>

Next ==
    \E c \in Id :
        \/ Append(c)
        \/ \E k \in Key : Point(k, c)
        \/ Acknowledge(c)

Spec == Init /\ [][Next]_<<commits, heads, acked>>
=============================================================================
