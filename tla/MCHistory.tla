------------------------------ MODULE MCHistory ------------------------------
(* History on small instances.                                             *)
EXTENDS History, TLC

\* Everything at once.
MCSame == {<<0, 0>>}

\* Earliest, later by the second, and a clock that is negative when signed.
MCStamps == {<<0, 0>>, <<0, 1>>, <<3, 0>>}

\* The ids are in the order of arrival, as good as any other for walks.
Ascending == \A c \in Known : \A q \in Range(commits[c].parents) : q < c

\* All stamps are the same, which only replay and rebuilding tell apart.
OneStamp == \A c, d \in Known : commits[c].clock = commits[d].clock
                                /\ commits[c].wall = commits[d].wall

\* Bound: four commits with one stamp, or three with any; the walks on
\* histories that differ in ids or stamps alone are taken on one of them.
MCBound ==
    /\ Cardinality(Known) <= 3 \/ (OneStamp /\ Ascending)
    /\ pc \in {"idle", "rebuild"} \/ Ascending
    /\ pc \in {"idle", "rebuild", "collect"} \/ OneStamp
=============================================================================
