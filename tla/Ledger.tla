------------------------------- MODULE Ledger -------------------------------
(***************************************************************************)
(* NexusLedger: the durable path of the daemon.  Concurrent requests       *)
(* persist commits (grpc/service.rs), fork runs (ledger/fork.rs) and roll  *)
(* heads back (ledger/rollback.rs) against two pieces of shared state: the *)
(* in-memory index DagIndex (ledger/dag.rs), lost when the process ends,   *)
(* and the SQLite store (ledger/sqlite_store.rs), which survives and from  *)
(* which the index is rebuilt at startup (lib.rs).                         *)
(*                                                                         *)
(* Every lock acquisition of the code is one step here: no lock is held    *)
(* across two of them, so any two requests may interleave between them.    *)
(* The store's transactions either happen or fail, and the process may     *)
(* stop between any two steps.                                             *)
(***************************************************************************)
EXTENDS Integers, FiniteSets

CONSTANTS
    Proc,        \* request handlers that run concurrently
    Id,          \* commit ids (numbers: a hash is ordered arbitrarily)
    Junk,        \* ids a client may name that no commit ever has
    Run, Slot,   \* run ids; a slot is a (thread, agent, channel) triple
    KeysOf,      \* KeysOf[p]: the head keys handler p publishes to
    Delta,       \* deltas as clients send them, their ids included; one may come twice
    Fresh,       \* a delta with an id made by the daemon (util::ids::new_id)
    Clocks,      \* logical clocks clients put on their deltas
    ClockBits,   \* width of logical_clock (64 in the code)
    MaxNow,      \* bound on the wall clock, in seconds
    MaxParents,  \* bound on the explicit parents of one request
    MaxAppends,  \* bound on append_commit calls per run
    MaxMoves,    \* bound on rollbacks and forks
    None

Key == Run \X Slot

Ids == Id \cup Junk

EventType == {"rollback", "fork"}

Commit == [parents : SUBSET Ids, key : Key, clock : Clocks,
           wall : 0..MaxNow, delta : Delta \cup {Fresh}]

Move == [op : EventType, key : Key, to : Id,
         from : Id, force : BOOLEAN]

ASSUME IdAssumption == Id \subseteq Nat /\ Junk \subseteq Nat /\ Id \cap Junk = {}
ASSUME KeysAssumption == KeysOf \in [Proc -> SUBSET Key]
ASSUME DeltaAssumption == Fresh \notin Delta
ASSUME ClockAssumption ==
    /\ ClockBits \in Nat \ {0}
    /\ Clocks \subseteq 0..(2^ClockBits - 1)
    /\ 0 \in Clocks
ASSUME FiniteAssumption == IsFiniteSet(Proc) /\ IsFiniteSet(Ids)
ASSUME BoundsAssumption ==
    {MaxNow, MaxParents, MaxAppends, MaxMoves} \subseteq Nat
ASSUME NoneAssumption ==
    None \notin Id /\ None \notin Commit /\ None \notin Move /\ \A S \in SUBSET Ids : None # S

VARIABLES
    up,       \* the daemon is running
    failed,   \* the last attempt to start it ended in an error
    now,      \* wall clock, whole seconds
    dag,      \* DagIndex.parents: commit id -> parent ids
    store,    \* table commits: commit id -> commit
    heads,    \* table heads: head key -> commit id
    count,    \* table runs: run id -> commit_count
    audit,    \* table audit_events: how many of each type
    marks,    \* table rollback_events: how many
    pc,       \* where each handler is
    cid,      \* the id of the commit a handler persists
    move,     \* the head move a rollback or fork makes
    minted,   \* history: the content behind every commit id computed so far
    born,     \* history: the order in which the ids were first computed
    serial,   \* history: how many were
    acked,    \* history: commits whose client got "persisted"
    moved     \* history: head moves made, of each type

volatile == <<dag, pc, cid, move>>
tables   == <<store, heads, count, audit, marks>>
history  == <<minted, born, serial, acked, moved>>
vars == <<up, failed, now, volatile, tables, history>>

-----------------------------------------------------------------------------
(* The graph.  A parent map d gives None for an id it does not hold.       *)

\* DagIndex::reachable_locked collects exactly the ids in every set that
\* holds a and, with an indexed commit, its parents.
Ancestry(d, a) ==
    {b \in Ids : \A S \in SUBSET Ids :
        (a \in S /\ \A x \in S \cap Id : d[x] # None => d[x] \subseteq S) => b \in S}

\* DagIndex::is_ancestor
IsAncestor(d, ancestor, c) == ancestor = c \/ ancestor \in Ancestry(d, c)

\* Mutant: unknown parents are let in.
AdmissibleUnknown(d, c, parents) == c \notin parents

\* Mutant: an id the index holds already is refused.
AdmissibleOnce(d, c, parents) ==
    /\ c \notin parents /\ d[c] = None
    /\ \A q \in parents : q \in Id /\ d[q] # None

\* The checks DagIndex::append makes under the read lock.
Admissible(d, c, parents) ==
    /\ c \notin parents
    /\ \A q \in parents : q \in Id /\ d[q] # None /\ c \notin Ancestry(d, q)

\* The parent map of what the store holds.
StoredParents == [c \in Id |-> IF store[c] = None THEN None ELSE store[c].parents]

\* Commit ids a client can learn: they are answered, listed and broadcast
\* only once the store has them.
Revealed == {c \in Id : store[c] # None}

-----------------------------------------------------------------------------
(* Content addressing: commit::from_delta hashes the whole commit, so an   *)
(* equal commit has the id it had before and a new one an id of its own.   *)

CommitIds(commit) ==
    LET same == {c \in Id : minted[c] = commit}
    IN  IF commit.delta # Fresh /\ same # {}
        THEN same
        ELSE {c \in Id : minted[c] = None}

\* SQLite orders logical_clock as the signed integer it is cast to.
AsI64(clock) == IF clock < 2^(ClockBits - 1) THEN clock ELSE clock - 2^ClockBits

\* ORDER BY logical_clock ASC, wall_time_seconds ASC, commit_id ASC
ListedBefore(a, b) ==
    LET ca == AsI64(store[a].clock)
        cb == AsI64(store[b].clock)
        wa == store[a].wall
        wb == store[b].wall
    IN  \/ ca < cb
        \/ ca = cb /\ wa < wb
        \/ ca = cb /\ wa = wb /\ a < b

\* DagIndex::from_commits appends the listed commits one by one: it gets to
\* the end when each finds its parents appended before it.
RebuildSucceeds ==
    \A c \in Revealed : \A q \in store[c].parents :
        q \in Revealed /\ ListedBefore(q, c)

-----------------------------------------------------------------------------
Init ==
    /\ up = TRUE
    /\ failed = FALSE
    /\ now = 0
    /\ dag = [c \in Id |-> None]
    /\ store = [c \in Id |-> None]
    /\ heads = [k \in Key |-> None]
    /\ count = [r \in Run |-> 0]
    /\ audit = [t \in EventType |-> 0]
    /\ marks = 0
    /\ pc = [p \in Proc |-> "idle"]
    /\ cid = [p \in Proc |-> None]
    /\ move = [p \in Proc |-> None]
    /\ minted = [c \in Id |-> None]
    /\ born = [c \in Id |-> 0]
    /\ serial = 0
    /\ acked = {}
    /\ moved = [t \in EventType |-> 0]

\* Handler p answers its client, or gives up, and is free again.
Done(p) ==
    /\ pc' = [pc EXCEPT ![p] = "idle"]
    /\ cid' = [cid EXCEPT ![p] = None]
    /\ move' = [move EXCEPT ![p] = None]

Goto(p, label) == pc' = [pc EXCEPT ![p] = label]

\* Mutant: the head of the key is not consulted.
ResolveIgnoringHead(p, k, clock, wall, delta, explicit) ==
    LET commit == [parents |-> explicit, key |-> k, clock |-> clock,
                   wall |-> wall, delta |-> delta]
    IN  /\ up /\ pc[p] = "idle"
        /\ count[k[1]] < MaxAppends
        /\ \E c \in {c \in Id : minted[c] = None} :
             /\ minted' = [minted EXCEPT ![c] = commit]
             /\ serial' = serial + 1
             /\ born' = [born EXCEPT ![c] = serial + 1]
             /\ cid' = [cid EXCEPT ![p] = c]
        /\ Goto(p, "check")
        /\ UNCHANGED <<up, failed, now, dag, move, tables, acked, moved>>

\* Mutant: commits are named by the client instead of by their content.
ResolveClientIds(p, k, clock, wall, delta, explicit) ==
    LET commit == [parents |-> explicit, key |-> k, clock |-> clock,
                   wall |-> wall, delta |-> delta]
    IN  /\ up /\ pc[p] = "idle"
        /\ count[k[1]] < MaxAppends
        /\ \E c \in Id :
             /\ minted' = [minted EXCEPT ![c] = commit]
             /\ cid' = [cid EXCEPT ![p] = c]
        /\ Goto(p, "check")
        /\ UNCHANGED <<up, failed, now, dag, move, tables, acked, moved, born, serial>>

\* resolve_parents and from_delta: explicit parents win, otherwise the head
\* of the delta's key as it is at this moment.
Resolve(p, k, clock, wall, delta, explicit) ==
    LET parents == IF explicit # {} THEN explicit ELSE {heads[k]} \ {None}
        commit  == [parents |-> parents, key |-> k, clock |-> clock,
                    wall |-> wall, delta |-> delta]
    IN  /\ up /\ pc[p] = "idle"
        /\ count[k[1]] < MaxAppends
        /\ \E c \in CommitIds(commit) :
             /\ IF minted[c] = None
                THEN /\ minted' = [minted EXCEPT ![c] = commit]
                     /\ serial' = serial + 1
                     /\ born' = [born EXCEPT ![c] = serial + 1]
                ELSE UNCHANGED <<minted, born, serial>>
             /\ cid' = [cid EXCEPT ![p] = c]
        /\ Goto(p, "check")
        /\ UNCHANGED <<up, failed, now, dag, move, tables, acked, moved>>

\* publish_delta_inner for a durable delta: clock, time and delta id are the
\* client's, or the daemon's own where the client left them out.
Publish(p) ==
    \E k \in KeysOf[p], clock \in Clocks, wall \in 0..MaxNow,
       delta \in Delta \cup {Fresh}, explicit \in SUBSET (Revealed \cup Junk) :
        /\ Cardinality(explicit) <= MaxParents
        /\ Resolve(p, k, clock, wall, delta, explicit)

\* checkpoint_inner: logical clock 0, the current second, a new delta id.
Checkpoint(p) ==
    \E k \in KeysOf[p], explicit \in SUBSET (Revealed \cup Junk) :
        /\ Cardinality(explicit) <= MaxParents
        /\ Resolve(p, k, 0, now, Fresh, explicit)

\* persist_commit, DagIndex::append up to the end of the read lock.
DagCheck(p) ==
    /\ pc[p] = "check"
    /\ IF Admissible(dag, cid[p], minted[cid[p]].parents)
       THEN Goto(p, "insert") /\ UNCHANGED <<cid, move>>
       ELSE Done(p)
    /\ UNCHANGED <<up, failed, now, dag, tables, history>>

\* Mutant: the head is set without the commit having been stored.
DagInsertUnstored(p) ==
    /\ pc[p] = "insert"
    /\ dag' = [dag EXCEPT ![cid[p]] = minted[cid[p]].parents]
    /\ Goto(p, "sethead")
    /\ UNCHANGED <<up, failed, now, cid, move, tables, history>>

\* DagIndex::append, under the write lock.
DagInsert(p) ==
    /\ pc[p] = "insert"
    /\ dag' = [dag EXCEPT ![cid[p]] = minted[cid[p]].parents]
    /\ Goto(p, "append")
    /\ UNCHANGED <<up, failed, now, cid, move, tables, history>>

\* Mutant: a failed append_commit is ignored and the commit acknowledged.
AppendCommitUnchecked(p) ==
    /\ pc[p] = "append"
    /\ Goto(p, "reply")
    /\ UNCHANGED <<up, failed, now, dag, cid, move, tables, history>>

\* SqliteStore::append_commit: one transaction, which ignores a commit that
\* is there already but counts it again.
AppendCommit(p) ==
    LET c == cid[p]
        r == minted[c].key[1]
    IN  /\ pc[p] = "append"
        /\ store' = [store EXCEPT ![c] = IF @ = None THEN minted[c] ELSE @]
        /\ count' = [count EXCEPT ![r] = @ + 1]
        /\ Goto(p, "sethead")
        /\ UNCHANGED <<up, failed, now, dag, cid, move, heads, audit, marks, history>>

\* persist_commit, SqliteStore::set_head.
SetHead(p) ==
    /\ pc[p] = "sethead"
    /\ heads' = [heads EXCEPT ![minted[cid[p]].key] = cid[p]]
    /\ Goto(p, "reply")
    /\ UNCHANGED <<up, failed, now, dag, cid, move, store, count, audit, marks, history>>

\* The response with persisted = true, once the broadcast has been awaited.
Reply(p) ==
    /\ pc[p] = "reply"
    /\ acked' = acked \cup {cid[p]}
    /\ Done(p)
    /\ UNCHANGED <<up, failed, now, dag, tables, minted, born, serial, moved>>

\* The client went away during an await, or the loop warning of the commit
\* could not be stored: the handler ends and the commit stays.
Abandon(p) ==
    /\ pc[p] = "reply"
    /\ Done(p)
    /\ UNCHANGED <<up, failed, now, dag, tables, history>>

\* Mutant: the target is not looked up.
RollbackAnywhere(p) ==
    \E from \in Revealed, to \in Revealed \cup Junk :
        /\ up /\ pc[p] = "idle"
        /\ moved["rollback"] + moved["fork"] < MaxMoves
        /\ move' = [move EXCEPT ![p] = [op |-> "rollback", key |-> store[from].key,
                                        to |-> to, from |-> from, force |-> TRUE]]
        /\ Goto(p, "move")
        /\ UNCHANGED <<up, failed, now, dag, cid, tables, history>>

\* Mutant: the marker is written before the head moves.
RollbackMarkerFirst(p) ==
    \E from \in Revealed, to \in Revealed :
        /\ up /\ pc[p] = "idle"
        /\ moved["rollback"] + moved["fork"] < MaxMoves
        /\ move' = [move EXCEPT ![p] = [op |-> "rollback", key |-> store[from].key,
                                        to |-> to, from |-> from, force |-> TRUE]]
        /\ Goto(p, "audit")
        /\ UNCHANGED <<up, failed, now, dag, cid, tables, history>>

\* rollback() up to its first write: is_ancestor of the head the request
\* names, and both commits present in the store.  It moves the head of the
\* key that the named head commit was published to.
Rollback(p) ==
    \E from \in Revealed, to \in Revealed, force \in BOOLEAN :
        /\ up /\ pc[p] = "idle"
        /\ moved["rollback"] + moved["fork"] < MaxMoves
        /\ force \/ IsAncestor(dag, to, from)
        /\ move' = [move EXCEPT ![p] = [op |-> "rollback", key |-> store[from].key,
                                      to |-> to, from |-> from, force |-> force]]
        /\ Goto(p, "move")
        /\ UNCHANGED <<up, failed, now, dag, cid, tables, history>>

\* fork() up to its first write: the source is present; the run is a new one
\* or any the client names.
Fork(p) ==
    \E source \in Revealed, run \in Run :
        /\ up /\ pc[p] = "idle"
        /\ moved["rollback"] + moved["fork"] < MaxMoves
        /\ move' = [move EXCEPT ![p] = [op |-> "fork", key |-> <<run, store[source].key[2]>>,
                                      to |-> source, from |-> source, force |-> TRUE]]
        /\ Goto(p, "move")
        /\ UNCHANGED <<up, failed, now, dag, cid, tables, history>>

\* set_head in rollback() and fork().
MoveHead(p) ==
    /\ pc[p] = "move"
    /\ heads' = [heads EXCEPT ![move[p].key] = move[p].to]
    /\ moved' = [moved EXCEPT ![move[p].op] = @ + 1]
    /\ Goto(p, "audit")
    /\ UNCHANGED <<up, failed, now, dag, cid, move, store, count, audit, marks,
                   minted, born, serial, acked>>

\* append_event, first statement; a fork has only this one.
AppendEvent(p) ==
    /\ pc[p] = "audit"
    /\ audit' = [audit EXCEPT ![move[p].op] = @ + 1]
    /\ IF move[p].op = "rollback"
       THEN Goto(p, "mark") /\ UNCHANGED <<cid, move>>
       ELSE Done(p)
    /\ UNCHANGED <<up, failed, now, dag, store, heads, count, marks, history>>

\* append_event, second statement, for a rollback.
AppendMarker(p) ==
    /\ pc[p] = "mark"
    /\ marks' = marks + 1
    /\ Done(p)
    /\ UNCHANGED <<up, failed, now, dag, store, heads, count, audit, history>>

\* A statement of the store fails: the handler returns the error with `?`
\* and what it did before stays done.
StoreError(p) ==
    /\ pc[p] \in {"append", "sethead", "move", "audit", "mark"}
    /\ Done(p)
    /\ UNCHANGED <<up, failed, now, dag, tables, history>>

Tick ==
    /\ now < MaxNow
    /\ now' = now + 1
    /\ UNCHANGED <<up, failed, volatile, tables, history>>

\* The process ends, by a crash or by shutdown_signal: requests in flight
\* and everything in memory are gone.
Stop ==
    /\ up
    /\ up' = FALSE
    /\ dag' = [c \in Id |-> None]
    /\ pc' = [p \in Proc |-> "idle"]
    /\ cid' = [p \in Proc |-> None]
    /\ move' = [p \in Proc |-> None]
    /\ UNCHANGED <<failed, now, tables, history>>

\* Mutant: the index is not rebuilt from the store.
StartEmpty ==
    /\ ~up
    /\ up' = TRUE
    /\ UNCHANGED <<failed, now, volatile, tables, history>>

\* run(): list_all_commits and DagIndex::from_commits; an error ends the
\* process before it serves anything.
Start ==
    /\ ~up
    /\ up' = RebuildSucceeds
    /\ failed' = ~RebuildSucceeds
    /\ dag' = IF RebuildSucceeds THEN StoredParents ELSE dag
    /\ UNCHANGED <<now, pc, cid, move, tables, history>>

Handler(p) ==
    \/ Publish(p) \/ Checkpoint(p)
    \/ DagCheck(p) \/ DagInsert(p) \/ AppendCommit(p) \/ SetHead(p)
    \/ Reply(p) \/ Abandon(p)
    \/ Rollback(p) \/ Fork(p)
    \/ MoveHead(p) \/ AppendEvent(p) \/ AppendMarker(p)
    \/ StoreError(p)

Next == Tick \/ Stop \/ Start \/ \E p \in Proc : Handler(p)

Spec == Init /\ [][Next]_vars

-----------------------------------------------------------------------------
(* Properties                                                              *)

Label == {"idle", "check", "insert", "append", "sethead", "reply",
          "move", "audit", "mark"}

\* The values every variable ranges over; a handler between two steps of a
\* persist holds a commit id, one between two steps of a move a Move.
TypeOK ==
    /\ up \in BOOLEAN /\ failed \in BOOLEAN /\ now \in 0..MaxNow
    /\ dag \in [Id -> {None} \cup SUBSET Ids]
    /\ store \in [Id -> Commit \cup {None}]
    /\ heads \in [Key -> Id \cup {None}]
    /\ count \in [Run -> Nat]
    /\ audit \in [EventType -> Nat] /\ marks \in Nat
    /\ pc \in [Proc -> Label]
    /\ cid \in [Proc -> Id \cup {None}] /\ move \in [Proc -> Move \cup {None}]
    /\ \A p \in Proc :
         /\ pc[p] \in {"check", "insert", "append", "sethead", "reply"} => cid[p] \in Id
         /\ pc[p] \in {"move", "audit", "mark"} => move[p] \in Move
    /\ minted \in [Id -> Commit \cup {None}]
    /\ born \in [Id -> Nat] /\ serial \in Nat
    /\ acked \subseteq Id
    /\ moved \in [EventType -> Nat]

\* Every parent of a stored commit is stored, so replay's walk of the store
\* (replay.rs collect) never meets a commit that is not found - although
\* append checks parents against the index, which may hold commits whose
\* append_commit failed.
ParentsStored == \A c \in Revealed : store[c].parents \subseteq Revealed

\* A head always names a stored commit: resolve_parents never hands a new
\* commit a parent the ledger lost.
HeadsStored == \A k \in Key : heads[k] # None => heads[k] \in Revealed

\* A client that got "persisted" finds its commit in the store ever after,
\* through failed statements, crashes and restarts.
AckedStored == acked \subseteq Revealed

\* While the daemon serves, the index has every stored commit with the
\* parents the store has for it.
IndexCoversStore ==
    up => \A c \in Revealed : dag[c] = store[c].parents

\* The index is acyclic, although append checks for a cycle under one lock
\* and inserts under another: every set of indexed commits has one with no
\* parent in the set.
Acyclic ==
    \A S \in SUBSET {c \in Id : dag[c] # None} :
        S # {} => \E c \in S : dag[c] \cap S = {}

\* No rollback marker without its audit event, no event without its move.
EventsFollowMoves ==
    /\ marks <= audit["rollback"]
    /\ \A t \in EventType : audit[t] <= moved[t]

\* Every commit acknowledged for a key is in the history of the key's head:
\* nothing acknowledged is lost sight of.  It needs one writer per key at a
\* time that leaves the choice of parents to the daemon, and no head moves.
HeadCoversAcks ==
    \A c \in acked : heads[store[c].key] # None
                     /\ IsAncestor(StoredParents, c, heads[store[c].key])

\* DagIndex::append turns a commit away only over a parent the store lacks.
\* Neither the entry of a commit whose append_commit failed, nor a resent
\* commit that is there already, nor a cycle through either, nor an index
\* rebuilt after a restart makes it refuse a commit on stored parents.
RefusedOnlyUnknown ==
    [][\A p \in Proc : (pc[p] = "check" /\ pc'[p] = "idle" /\ up') =>
            \E q \in minted[cid[p]].parents : q \notin Revealed]_vars

\* The daemon can be started again on the history it acknowledged (lib.rs,
\* "rebuild DAG index").
StartSucceeds == ~failed

-----------------------------------------------------------------------------
(* The store's tables and the acknowledgements implement DurableLedger.    *)

Durable == INSTANCE DurableLedger WITH commits <- store

\* Whatever the handlers interleave, whatever statement fails and whenever
\* the process stops, the store behaves as the abstract ledger.
ImplementsDurableLedger == Durable!Spec

=============================================================================
