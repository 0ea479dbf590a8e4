----------------------------- MODULE LedgerProofs -----------------------------
(***************************************************************************)
(* Proofs about Ledger for every set of handlers, ids, runs and slots.     *)
(***************************************************************************)
EXTENDS Ledger, FiniteSetTheorems, WellFoundedInduction, TLAPS

Persisting == {"check", "insert", "append", "sethead", "reply"}

\* An id computed for a commit was computed after those of its parents, and
\* the parents it could name were stored by then.
MintedInv ==
    \A c \in Id : minted[c] # None =>
        /\ born[c] <= serial
        /\ \A q \in minted[c].parents \cap Id :
              minted[q] # None /\ store[q] # None /\ born[q] < born[c]

\* Index and store agree with the content behind an id, and hold no commit
\* with an unknown parent.
ContentInv ==
    \A c \in Id :
        /\ store[c] # None => store[c] = minted[c] /\ minted[c].parents \subseteq Id
        /\ dag[c] # None => /\ minted[c] # None
                            /\ dag[c] = minted[c].parents
                            /\ minted[c].parents \subseteq Id

\* What a handler has done so far.
HandlerInv ==
    \A p \in Proc :
        /\ pc[p] # "idle" => up
        /\ pc[p] \in Persisting => minted[cid[p]] # None
        /\ pc[p] \in Persisting \ {"check"} => minted[cid[p]].parents \subseteq Id
        /\ pc[p] \in {"append", "sethead", "reply"} => dag[cid[p]] # None
        /\ pc[p] \in {"sethead", "reply"} => store[cid[p]] # None
        /\ pc[p] = "move" => store[move[p].to] # None

\* The inductive invariant.
LedgerInv ==
    /\ TypeOK
    /\ MintedInv
    /\ ContentInv
    /\ HandlerInv
    /\ HeadsStored
    /\ AckedStored
    /\ IndexCoversStore

-----------------------------------------------------------------------------
(* Types                                                                   *)

\* The initial state is well typed.
LEMMA TypeInit == Init => TypeOK
<1> SUFFICES ASSUME Init PROVE TypeOK
  OBVIOUS
<1>1. up \in BOOLEAN /\ failed \in BOOLEAN
  BY DEF Init
<1>2. now \in 0..MaxNow
  BY BoundsAssumption DEF Init
<1>3. /\ dag \in [Id -> {None} \cup SUBSET Ids]
      /\ store \in [Id -> Commit \cup {None}]
  BY DEF Init
<1>3a.  heads \in [Key -> Id \cup {None}]
  BY DEF Init
<1>4. /\ count \in [Run -> Nat]
      /\ audit \in [EventType -> Nat] /\ marks \in Nat
  BY DEF Init
<1>5. /\ pc \in [Proc -> Label]
      /\ cid \in [Proc -> Id \cup {None}] /\ move \in [Proc -> Move \cup {None}]
      /\ \A p \in Proc : pc[p] = "idle"
  BY DEF Init, Label
<1>6. /\ minted \in [Id -> Commit \cup {None}]
      /\ born \in [Id -> Nat] /\ serial \in Nat
      /\ acked \subseteq Id
  BY DEF Init
<1>7. moved \in [EventType -> Nat]
  BY DEF Init
<1> QED
  BY <1>1, <1>2, <1>3, <1>3a,<1>4, <1>5, <1>6, <1>7 DEF TypeOK


\* Every step keeps the types, of handlers whose commit ids were computed.
LEMMA TypeStep == TypeOK /\ HandlerInv /\ [Next]_vars => TypeOK'
<1> SUFFICES ASSUME TypeOK, HandlerInv, [Next]_vars PROVE TypeOK'
  OBVIOUS
<1> USE DEF tables, history, volatile, Done, Goto, Label
<1>1. ASSUME NEW p \in Proc, NEW k \in KeysOf[p], NEW clock \in Clocks, NEW wall \in 0..MaxNow,
             NEW delta \in Delta \cup {Fresh}, NEW explicit \in SUBSET (Revealed \cup Junk),
             Resolve(p, k, clock, wall, delta, explicit)
      PROVE  TypeOK'
  <2>1. k \in Key
    BY KeysAssumption
  <2>2. DEFINE parents == IF explicit # {} THEN explicit ELSE {heads[k]} \ {None}
               commit == [parents |-> parents, key |-> k, clock |-> clock,
                          wall |-> wall, delta |-> delta]
  <2>3. parents \in SUBSET Ids
    BY <2>1 DEF TypeOK, Revealed, Ids
  <2>4. commit \in Commit
    BY <2>1, <2>3 DEF Commit
  <2>5. PICK c \in Id :
          /\ IF minted[c] = None
                THEN /\ minted' = [minted EXCEPT ![c] = commit]
                     /\ serial' = serial + 1
                     /\ born' = [born EXCEPT ![c] = serial + 1]
                ELSE UNCHANGED <<minted, born, serial>>
          /\ cid' = [cid EXCEPT ![p] = c]
    BY <1>1 DEF Resolve, CommitIds
  <2>6. minted' \in [Id -> Commit \cup {None}]
    <3> HIDE DEF commit
    <3>1. minted \in [Id -> Commit \cup {None}]
      BY DEF TypeOK
    <3> QED
      BY <3>1, <2>4, <2>5
  <2>6a. born' \in [Id -> Nat] /\ serial' \in Nat
    BY <2>5 DEF TypeOK
  <2>7. pc' = [pc EXCEPT ![p] = "check"] /\ UNCHANGED <<up, failed, now, dag, move, tables, acked, moved>>
    BY <1>1 DEF Resolve
  <2> QED
    BY <2>5, <2>6, <2>6a, <2>7 DEF TypeOK
<1>2. ASSUME NEW p \in Proc, DagCheck(p) PROVE TypeOK'
  BY <1>2 DEF TypeOK, DagCheck
<1>c. ASSUME NEW p \in Proc, pc[p] \in Persisting
      PROVE  /\ cid[p] \in Id
             /\ minted[cid[p]] \in Commit
             /\ minted[cid[p]].parents \in SUBSET Ids
             /\ minted[cid[p]].key \in Key
             /\ minted[cid[p]].key[1] \in Run
  <2>1. cid[p] \in Id /\ minted[cid[p]] \in Commit
    BY <1>c DEF TypeOK, HandlerInv, Persisting
  <2> QED
    BY <2>1 DEF Commit, Key
<1>m. ASSUME NEW p \in Proc, pc[p] \in {"move", "audit"}
      PROVE  move[p] \in Move /\ move[p].op \in EventType
             /\ move[p].key \in Key /\ move[p].to \in Id
  BY <1>m DEF TypeOK, Move
<1>3. ASSUME NEW p \in Proc, DagInsert(p) PROVE TypeOK'
  BY <1>3, <1>c DEF TypeOK, DagInsert, Persisting
<1>4. ASSUME NEW p \in Proc, AppendCommit(p) PROVE TypeOK'
  <2>1. minted[cid[p]] \in Commit /\ cid[p] \in Id /\ minted[cid[p]].key[1] \in Run
    BY <1>4, <1>c DEF AppendCommit, Persisting
  <2>2. store' \in [Id -> Commit \cup {None}]
    BY <1>4, <2>1 DEF TypeOK, AppendCommit
  <2>3. count' \in [Run -> Nat]
    BY <1>4, <2>1 DEF TypeOK, AppendCommit
  <2> QED
    BY <1>4, <2>2, <2>3 DEF TypeOK, AppendCommit
<1>5. ASSUME NEW p \in Proc, SetHead(p) PROVE TypeOK'
  BY <1>5, <1>c DEF TypeOK, SetHead, Persisting
<1>6. ASSUME NEW p \in Proc, Reply(p) \/ Abandon(p) PROVE TypeOK'
  BY <1>6 DEF TypeOK, Reply, Abandon
<1>k. ASSUME NEW c \in Revealed
      PROVE  c \in Id /\ store[c].key \in Key /\ store[c].key[2] \in Slot
  <2>1. c \in Id /\ store[c] \in Commit
    BY <1>k DEF Revealed, TypeOK
  <2> QED
    BY <2>1 DEF Commit, Key
<1>7. ASSUME NEW p \in Proc, Rollback(p) PROVE TypeOK'
  <2>1. PICK from \in Revealed, to \in Revealed, force \in BOOLEAN :
          move' = [move EXCEPT ![p] = [op |-> "rollback", key |-> store[from].key,
                                      to |-> to, from |-> from, force |-> force]]
    BY <1>7 DEF Rollback
  <2>2. [op |-> "rollback", key |-> store[from].key,
         to |-> to, from |-> from, force |-> force] \in Move
    BY <1>k DEF Move, EventType
  <2>3. move' \in [Proc -> Move \cup {None}] /\ move'[p] \in Move
    BY <2>1, <2>2 DEF TypeOK
  <2>4. pc' = [pc EXCEPT ![p] = "move"] /\ UNCHANGED <<up, failed, now, dag, cid, tables, history>>
    BY <1>7 DEF Rollback
  <2>5. \A q \in Proc : q # p => move'[q] = move[q]
    BY <2>1 DEF TypeOK
  <2> QED
    BY <2>3, <2>4, <2>5 DEF TypeOK
<1>8. ASSUME NEW p \in Proc, Fork(p) PROVE TypeOK'
  <2>1. PICK source \in Revealed, run \in Run :
          move' = [move EXCEPT ![p] = [op |-> "fork", key |-> <<run, store[source].key[2]>>,
                                      to |-> source, from |-> source, force |-> TRUE]]
    BY <1>8 DEF Fork
  <2>2. [op |-> "fork", key |-> <<run, store[source].key[2]>>,
         to |-> source, from |-> source, force |-> TRUE] \in Move
    BY <1>k DEF Move, EventType, Key
  <2>3. move' \in [Proc -> Move \cup {None}] /\ move'[p] \in Move
    BY <2>1, <2>2 DEF TypeOK
  <2>4. pc' = [pc EXCEPT ![p] = "move"] /\ UNCHANGED <<up, failed, now, dag, cid, tables, history>>
    BY <1>8 DEF Fork
  <2>5. \A q \in Proc : q # p => move'[q] = move[q]
    BY <2>1 DEF TypeOK
  <2> QED
    BY <2>3, <2>4, <2>5 DEF TypeOK
<1>9. ASSUME NEW p \in Proc, MoveHead(p) PROVE TypeOK'
  BY <1>9, <1>m DEF TypeOK, MoveHead
<1>10. ASSUME NEW p \in Proc, AppendEvent(p) PROVE TypeOK'
  <2>1. audit' \in [EventType -> Nat]
    BY <1>10, <1>m DEF TypeOK, AppendEvent
  <2> QED
    BY <1>10, <2>1 DEF TypeOK, AppendEvent
<1>11. ASSUME NEW p \in Proc, AppendMarker(p) PROVE TypeOK'
  BY <1>11 DEF TypeOK, AppendMarker
<1>12. ASSUME NEW p \in Proc, StoreError(p) PROVE TypeOK'
  BY <1>12 DEF TypeOK, StoreError
<1>13. CASE Tick
  BY <1>13, BoundsAssumption DEF TypeOK, Tick
<1>14. CASE Stop
  BY <1>14 DEF TypeOK, Stop
<1>15. CASE Start
  <2>1. RebuildSucceeds \in BOOLEAN
    BY DEF RebuildSucceeds
  <2>2. up' \in BOOLEAN /\ failed' \in BOOLEAN
    BY <1>15, <2>1 DEF Start
  <2>3. StoredParents \in [Id -> {None} \cup SUBSET Ids]
    BY DEF StoredParents, TypeOK, Commit
  <2>4. dag' \in [Id -> {None} \cup SUBSET Ids]
    BY <1>15, <2>3 DEF Start, TypeOK
  <2>5. UNCHANGED <<now, pc, cid, move, tables, history>>
    BY <1>15 DEF Start
  <2> QED
    BY <2>2, <2>4, <2>5 DEF TypeOK
<1>16. CASE UNCHANGED vars
  BY <1>16 DEF TypeOK, vars
<1> QED
  BY <1>1, <1>2, <1>3, <1>4, <1>5, <1>6, <1>7, <1>8, <1>9, <1>10, <1>11, <1>12,
     <1>13, <1>14, <1>15, <1>16, ClockAssumption
  DEF Next, Handler, Publish, Checkpoint, TypeOK


-----------------------------------------------------------------------------
(* The inductive invariant                                                 *)

\* The initial state satisfies the invariant.
LEMMA InvInit == Init => LedgerInv
<1> SUFFICES ASSUME Init PROVE LedgerInv
  OBVIOUS
<1>1. TypeOK
  BY TypeInit
<1>2. MintedInv /\ ContentInv /\ HandlerInv
  BY DEF Init, MintedInv, ContentInv, HandlerInv, Persisting
<1>3. HeadsStored /\ AckedStored /\ IndexCoversStore
  BY DEF Init, HeadsStored, AckedStored, IndexCoversStore, Revealed
<1> QED
  BY <1>1, <1>2, <1>3 DEF LedgerInv

\* Computing the id of a commit keeps the invariant: explicit parents and
\* the head are stored, so they were computed before.
LEMMA InvResolve ==
    ASSUME LedgerInv, NEW p \in Proc, NEW k \in Key, NEW clock \in Clocks,
           NEW wall \in 0..MaxNow, NEW delta \in Delta \cup {Fresh},
           NEW explicit \in SUBSET (Revealed \cup Junk),
           Resolve(p, k, clock, wall, delta, explicit)
    PROVE  MintedInv' /\ ContentInv' /\ HandlerInv'
<1> DEFINE parents == IF explicit # {} THEN explicit ELSE {heads[k]} \ {None}
           commit == [parents |-> parents, key |-> k, clock |-> clock,
                      wall |-> wall, delta |-> delta]
<1>1. PICK c \in Id :
        /\ IF minted[c] = None
              THEN /\ minted' = [minted EXCEPT ![c] = commit]
                   /\ serial' = serial + 1
                   /\ born' = [born EXCEPT ![c] = serial + 1]
              ELSE UNCHANGED <<minted, born, serial>>
        /\ cid' = [cid EXCEPT ![p] = c]
  BY DEF Resolve, CommitIds
<1>2. commit.parents = parents /\ \A q \in parents \cap Id : store[q] # None
  BY IdAssumption DEF LedgerInv, HeadsStored, Revealed
<1>3. /\ pc' = [pc EXCEPT ![p] = "check"] /\ up
      /\ UNCHANGED <<up, dag, move, store>>
  BY DEF Resolve, Goto, tables
<1>4. commit # None
  <2>1. parents \in SUBSET Ids
    BY DEF LedgerInv, TypeOK, Revealed, Ids
  <2>2. commit \in Commit
    BY <2>1 DEF Commit
  <2> QED
    BY <2>2, NoneAssumption
<1> HIDE DEF commit, parents
<1>5. \A q \in Id : store[q] # None => minted[q] # None /\ born[q] <= serial
  BY NoneAssumption DEF LedgerInv, ContentInv, MintedInv
<1>6. MintedInv'
  <2>1. CASE minted[c] # None
    BY <1>1, <1>3, <2>1 DEF LedgerInv, MintedInv
  <2>2. CASE minted[c] = None
    <3>1. /\ minted' = [minted EXCEPT ![c] = commit] /\ serial' = serial + 1
          /\ born' = [born EXCEPT ![c] = serial + 1] /\ store' = store
      BY <1>1, <1>3, <2>2
    <3>2. /\ minted'[c] = commit /\ born'[c] = serial + 1
          /\ \A x \in Id : x # c => minted'[x] = minted[x] /\ born'[x] = born[x]
      BY <3>1 DEF LedgerInv, TypeOK
    <3>3. serial \in Nat /\ \A x \in Id : born[x] \in Nat
      BY DEF LedgerInv, TypeOK
    <3>4. store[c] = None
      BY <1>5, <2>2
    <3>5. ASSUME NEW x \in Id, minted'[x] # None, x # c
          PROVE  /\ born'[x] <= serial'
                 /\ \A q \in minted'[x].parents \cap Id :
                      minted'[q] # None /\ store'[q] # None /\ born'[q] < born'[x]
      BY <3>1, <3>2, <3>3, <3>4, <3>5 DEF LedgerInv, MintedInv
    <3>6. \A q \in commit.parents \cap Id :
            minted'[q] # None /\ store'[q] # None /\ born'[q] < born'[c]
      BY <1>2, <1>5, <3>1, <3>2, <3>3, <3>4
    <3> QED
      BY <3>1, <3>2, <3>3, <3>5, <3>6 DEF MintedInv
  <2> QED
    BY <2>1, <2>2
<1>7. \A x \in Id : minted[x] # None => minted'[x] = minted[x]
  BY <1>1 DEF LedgerInv, TypeOK
<1>8. minted'[c] # None
  BY <1>1, <1>4 DEF LedgerInv, TypeOK
<1>9. ContentInv'
  BY <1>3, <1>5, <1>7 DEF LedgerInv, ContentInv
<1>10. HandlerInv'
  BY <1>1, <1>3, <1>7, <1>8 DEF LedgerInv, HandlerInv, Persisting, TypeOK
<1> QED
  BY <1>6, <1>9, <1>10


\* The invariant without its type part: what the action cases establish.
Rest == MintedInv /\ ContentInv /\ HandlerInv /\ HeadsStored /\ AckedStored /\ IndexCoversStore

\* append_commit keeps the invariant: the parents of an indexed commit are
\* stored, and a commit that is stored already is left as it is.
LEMMA InvAppend ==
    ASSUME LedgerInv, NEW p \in Proc, AppendCommit(p)
    PROVE  Rest'
<1> DEFINE c == cid[p]
<1>1. /\ c \in Id /\ minted[c] # None /\ minted[c].parents \subseteq Id
      /\ dag[c] # None /\ dag[c] = minted[c].parents
  BY DEF LedgerInv, TypeOK, HandlerInv, ContentInv, AppendCommit, Persisting
<1>2. /\ store' = [store EXCEPT ![c] = IF @ = None THEN minted[c] ELSE @]
      /\ pc' = [pc EXCEPT ![p] = "sethead"]
      /\ UNCHANGED <<up, dag, cid, move, heads, minted, born, serial, acked>>
  BY DEF AppendCommit, Goto, history
<1>3. /\ store'[c] = minted[c]
      /\ \A x \in Id : x # c => store'[x] = store[x]
      /\ \A x \in Id : store[x] # None => store'[x] = store[x]
  BY <1>1, <1>2 DEF LedgerInv, TypeOK, ContentInv
<1>4. MintedInv' /\ ContentInv'
  BY <1>1, <1>2, <1>3 DEF LedgerInv, MintedInv, ContentInv
<1>5. HandlerInv'
  <2>1. \A q \in Proc : pc[q] = "move" => move[q].to \in Id
    BY DEF LedgerInv, TypeOK, Move
  <2>2. \A q \in Proc : q # p => pc'[q] = pc[q]
    BY <1>2 DEF LedgerInv, TypeOK
  <2>3. pc'[p] = "sethead" /\ pc[p] = "append"
    BY <1>2 DEF LedgerInv, TypeOK, AppendCommit
  <2>4. \A q \in Proc : pc[q] \in Persisting => cid[q] \in Id
    BY DEF LedgerInv, TypeOK, Persisting
  <2> QED
    BY <1>1, <1>2, <1>3, <2>1, <2>2, <2>3, <2>4 DEF LedgerInv, HandlerInv, Persisting
<1>6. HeadsStored' /\ AckedStored'
  BY <1>2, <1>3 DEF LedgerInv, HeadsStored, AckedStored, Revealed
<1>7. IndexCoversStore'
  BY <1>1, <1>2, <1>3 DEF LedgerInv, IndexCoversStore, Revealed
<1> QED
  BY <1>4, <1>5, <1>6, <1>7 DEF Rest

\* Every step keeps the invariant.
LEMMA InvStep == LedgerInv /\ [Next]_vars => LedgerInv'
<1> SUFFICES ASSUME LedgerInv, [Next]_vars PROVE LedgerInv'
  OBVIOUS
<1> USE DEF tables, history, volatile, Done, Goto, Revealed
<1>0. TypeOK'
  BY TypeStep DEF LedgerInv
<1>a. \A q \in Proc : pc[q] = "move" => move[q] \in Move /\ move[q].to \in Id /\ move[q].key \in Key
  BY DEF LedgerInv, TypeOK, Move
<1>b. \A q \in Proc : pc[q] \in Persisting => cid[q] \in Id
  BY DEF LedgerInv, TypeOK, Persisting
<1>1. ASSUME NEW p \in Proc, NEW k \in KeysOf[p], NEW clock \in Clocks, NEW wall \in 0..MaxNow,
             NEW delta \in Delta \cup {Fresh}, NEW explicit \in SUBSET (Revealed \cup Junk),
             Resolve(p, k, clock, wall, delta, explicit)
      PROVE  Rest'
  <2>1. k \in Key
    BY KeysAssumption
  <2>2. MintedInv' /\ ContentInv' /\ HandlerInv'
    BY <1>1, <2>1, InvResolve
  <2>3. HeadsStored' /\ AckedStored' /\ IndexCoversStore'
    BY <1>1 DEF LedgerInv, Resolve, HeadsStored, AckedStored, IndexCoversStore
  <2> QED
    BY <2>2, <2>3 DEF Rest
<1>2. ASSUME NEW p \in Proc, DagCheck(p) PROVE Rest'
  <2>1. MintedInv' /\ ContentInv' /\ HeadsStored' /\ AckedStored' /\ IndexCoversStore'
    BY <1>2 DEF LedgerInv, DagCheck, MintedInv, ContentInv, HeadsStored, AckedStored, IndexCoversStore
  <2>2. HandlerInv'
    <3>1. pc'[p] \in {"idle", "insert"} /\ \A q \in Proc : q # p => pc'[q] = pc[q] /\ cid'[q] = cid[q] /\ move'[q] = move[q]
      BY <1>2 DEF LedgerInv, TypeOK, DagCheck
    <3>2. pc'[p] = "insert" => cid'[p] = cid[p] /\ minted[cid[p]].parents \subseteq Id
      BY <1>2 DEF LedgerInv, TypeOK, DagCheck, Admissible
    <3> QED
      BY <1>2, <3>1, <3>2 DEF LedgerInv, HandlerInv, DagCheck, Persisting
  <2> QED
    BY <2>1, <2>2 DEF Rest
<1>3. ASSUME NEW p \in Proc, DagInsert(p) PROVE Rest'
  <2>1. /\ cid[p] \in Id /\ minted[cid[p]] # None /\ minted[cid[p]].parents \subseteq Id
        /\ minted[cid[p]].parents # None
    BY <1>3, NoneAssumption DEF LedgerInv, TypeOK, HandlerInv, DagInsert, Persisting, Ids
  <2>2. /\ dag'[cid[p]] = minted[cid[p]].parents
        /\ \A x \in Id : x # cid[p] => dag'[x] = dag[x]
        /\ UNCHANGED <<up, cid, move, store, heads, minted, born, serial, acked>>
        /\ pc[p] = "insert" /\ pc'[p] = "append" /\ \A q \in Proc : q # p => pc'[q] = pc[q]
    BY <1>3, <2>1 DEF LedgerInv, TypeOK, DagInsert
  <2>3. MintedInv' /\ ContentInv' /\ HeadsStored' /\ AckedStored'
    BY <2>1, <2>2 DEF LedgerInv, MintedInv, ContentInv, HeadsStored, AckedStored
  <2>4. IndexCoversStore'
    BY <2>1, <2>2 DEF LedgerInv, IndexCoversStore, ContentInv
  <2>5. HandlerInv'
    BY <1>b, <2>1, <2>2 DEF LedgerInv, HandlerInv, Persisting
  <2> QED
    BY <2>3, <2>4, <2>5 DEF Rest
<1>4. ASSUME NEW p \in Proc, AppendCommit(p) PROVE Rest'
  BY <1>4, InvAppend
<1>5. ASSUME NEW p \in Proc, SetHead(p) PROVE Rest'
  <2>1. cid[p] \in Id /\ store[cid[p]] # None
    BY <1>5, <1>b DEF LedgerInv, HandlerInv, SetHead, Persisting
  <2>2. MintedInv' /\ ContentInv' /\ AckedStored' /\ IndexCoversStore'
    BY <1>5 DEF LedgerInv, SetHead, MintedInv, ContentInv, AckedStored, IndexCoversStore
  <2>3. HeadsStored'
    BY <1>5, <2>1 DEF LedgerInv, TypeOK, SetHead, HeadsStored
  <2>4. HandlerInv'
    BY <1>5, <2>1 DEF LedgerInv, TypeOK, SetHead, HandlerInv, Persisting
  <2> QED
    BY <2>2, <2>3, <2>4 DEF Rest
<1>6. ASSUME NEW p \in Proc, Reply(p) \/ Abandon(p) \/ StoreError(p) PROVE Rest'
  <2>1. MintedInv' /\ ContentInv' /\ HeadsStored' /\ IndexCoversStore'
    BY <1>6 DEF LedgerInv, Reply, Abandon, StoreError, MintedInv, ContentInv, HeadsStored, IndexCoversStore
  <2>2. AckedStored'
    BY <1>6, <1>b DEF LedgerInv, Reply, Abandon, StoreError, AckedStored, HandlerInv, Persisting
  <2>3. HandlerInv'
    BY <1>6 DEF LedgerInv, TypeOK, Reply, Abandon, StoreError, HandlerInv, Persisting
  <2> QED
    BY <2>1, <2>2, <2>3 DEF Rest
<1>7. ASSUME NEW p \in Proc, Rollback(p) \/ Fork(p) PROVE Rest'
  <2>1. PICK to \in Revealed : \E m : m.to = to /\ move' = [move EXCEPT ![p] = m]
    BY <1>7 DEF Rollback, Fork
  <2>2. /\ up /\ pc' = [pc EXCEPT ![p] = "move"]
        /\ UNCHANGED <<up, dag, cid, store, heads, minted, born, serial, acked>>
    BY <1>7 DEF Rollback, Fork
  <2>3. MintedInv' /\ ContentInv' /\ HeadsStored' /\ AckedStored' /\ IndexCoversStore'
    BY <2>2 DEF LedgerInv, MintedInv, ContentInv, HeadsStored, AckedStored, IndexCoversStore
  <2>4. HandlerInv'
    <3>1. move'[p].to = to /\ \A q \in Proc : q # p => move'[q] = move[q]
      BY <2>1 DEF LedgerInv, TypeOK
    <3> QED
      BY <2>2, <3>1 DEF LedgerInv, TypeOK, HandlerInv, Persisting
  <2> QED
    BY <2>3, <2>4 DEF Rest
<1>8. ASSUME NEW p \in Proc, MoveHead(p) PROVE Rest'
  <2>1. MintedInv' /\ ContentInv' /\ AckedStored' /\ IndexCoversStore'
    BY <1>8 DEF LedgerInv, MoveHead, MintedInv, ContentInv, AckedStored, IndexCoversStore
  <2>2. HeadsStored'
    BY <1>8, <1>a DEF LedgerInv, TypeOK, MoveHead, HeadsStored, HandlerInv
  <2>3. HandlerInv'
    BY <1>8 DEF LedgerInv, TypeOK, MoveHead, HandlerInv, Persisting
  <2> QED
    BY <2>1, <2>2, <2>3 DEF Rest
<1>9. ASSUME NEW p \in Proc, AppendEvent(p) \/ AppendMarker(p) PROVE Rest'
  <2>1. /\ pc'[p] \in {"idle", "mark"} /\ pc[p] # "idle"
        /\ \A q \in Proc : q # p => pc'[q] = pc[q] /\ cid'[q] = cid[q] /\ move'[q] = move[q]
        /\ UNCHANGED <<up, dag, store, heads, minted, born, serial, acked>>
    BY <1>9 DEF LedgerInv, TypeOK, AppendEvent, AppendMarker
  <2>2. MintedInv' /\ ContentInv' /\ HeadsStored' /\ AckedStored' /\ IndexCoversStore'
    BY <2>1 DEF LedgerInv, MintedInv, ContentInv, HeadsStored, AckedStored, IndexCoversStore
  <2>3. HandlerInv'
    BY <2>1 DEF LedgerInv, HandlerInv, Persisting
  <2> QED
    BY <2>2, <2>3 DEF Rest
<1>10. ASSUME Tick \/ UNCHANGED vars PROVE Rest'
  <2>1. UNCHANGED <<up, dag, pc, cid, move, store, heads, minted, born, serial, acked>>
    BY <1>10 DEF Tick, vars
  <2> QED
    BY <2>1 DEF LedgerInv, Rest, MintedInv, ContentInv, HandlerInv, HeadsStored, AckedStored,
                IndexCoversStore
<1>11. ASSUME Stop PROVE Rest'
  BY <1>11 DEF LedgerInv, Stop, Rest, MintedInv, ContentInv, HandlerInv, HeadsStored, AckedStored,
               IndexCoversStore, Persisting
<1>12. ASSUME Start PROVE Rest'
  <2>1. \A q \in Proc : pc[q] = "idle"
    BY <1>12 DEF LedgerInv, HandlerInv, Start
  <2>2. \A x \in Id : dag'[x] # None => dag'[x] = dag[x] \/ (store[x] # None /\ dag'[x] = store[x].parents)
    BY <1>12 DEF Start, StoredParents
  <2>3. up' => \A x \in Id : store[x] # None => dag'[x] = store[x].parents
    BY <1>12 DEF Start, StoredParents
  <2>4. UNCHANGED <<pc, cid, move, store, heads, minted, born, serial, acked>>
    BY <1>12 DEF Start
  <2>5. ContentInv'
    BY <2>2, <2>4 DEF LedgerInv, ContentInv
  <2>6. MintedInv' /\ HeadsStored' /\ AckedStored' /\ HandlerInv'
    BY <2>1, <2>4 DEF LedgerInv, MintedInv, HeadsStored, AckedStored, HandlerInv, Persisting
  <2>7. IndexCoversStore'
    BY <2>3, <2>4 DEF IndexCoversStore
  <2> QED
    BY <2>5, <2>6, <2>7 DEF Rest
<1>13. Rest'
  BY <1>1, <1>2, <1>3, <1>4, <1>5, <1>6, <1>7, <1>8, <1>9, <1>10, <1>11, <1>12, ClockAssumption
  DEF Next, Handler, Publish, Checkpoint, LedgerInv, TypeOK
<1> QED
  BY <1>0, <1>13 DEF LedgerInv, Rest


-----------------------------------------------------------------------------
(* Theorems                                                                *)

\* LedgerInv holds in every reachable state.
THEOREM LedgerInvariance == Spec => []LedgerInv
<1>1. Init => LedgerInv
  BY InvInit
<1>2. LedgerInv /\ [Next]_vars => LedgerInv'
  BY InvStep
<1> QED
  BY <1>1, <1>2, PTL DEF Spec

\* Type correctness.
THEOREM LedgerTypes == Spec => []TypeOK
<1>1. LedgerInv => TypeOK
  BY DEF LedgerInv
<1> QED
  BY <1>1, LedgerInvariance, PTL

\* Acknowledged commits are stored, however handlers interleave, statements
\* fail and the process stops.
THEOREM LedgerAcked == Spec => []AckedStored
<1>1. LedgerInv => AckedStored
  BY DEF LedgerInv
<1> QED
  BY <1>1, LedgerInvariance, PTL

\* Heads name stored commits.
THEOREM LedgerHeads == Spec => []HeadsStored
<1>1. LedgerInv => HeadsStored
  BY DEF LedgerInv
<1> QED
  BY <1>1, LedgerInvariance, PTL

\* The stored history is closed under parents: every replay finds every
\* commit it walks to.
THEOREM LedgerParents == Spec => []ParentsStored
<1>1. LedgerInv => ParentsStored
  BY DEF LedgerInv, ParentsStored, ContentInv, MintedInv, Revealed
<1> QED
  BY <1>1, LedgerInvariance, PTL

\* While the daemon serves, its index has all of the store.
THEOREM LedgerIndex == Spec => []IndexCoversStore
<1>1. LedgerInv => IndexCoversStore
  BY DEF LedgerInv
<1> QED
  BY <1>1, LedgerInvariance, PTL

\* An indexed commit is not among the ancestors of a commit whose id was
\* computed before its own.
LEMMA AncestorsBornBefore ==
    ASSUME LedgerInv, NEW q \in Id, dag[q] # None, NEW c \in Id, born[q] < born[c]
    PROVE  c \notin Ancestry(dag, q)
<1> DEFINE S == {x \in Ids : x \in Id => born[x] <= born[q]}
<1>1. S \in SUBSET Ids /\ q \in S
  BY DEF Ids, LedgerInv, TypeOK
<1>2. ASSUME NEW x \in S \cap Id, dag[x] # None PROVE dag[x] \subseteq S
  <2>1. /\ minted[x] # None /\ dag[x] = minted[x].parents /\ minted[x].parents \subseteq Id
        /\ born[x] <= born[q]
    BY <1>2 DEF LedgerInv, ContentInv
  <2>2. \A y \in minted[x].parents : y \in Id /\ born[y] < born[x]
    BY <2>1 DEF LedgerInv, MintedInv
  <2>3. \A y \in Id : born[y] \in Nat
    BY DEF LedgerInv, TypeOK
  <2> QED
    BY <2>1, <2>2, <2>3 DEF Ids
<1>3. c \notin S
  BY DEF LedgerInv, TypeOK
<1> HIDE DEF S
<1> QED
  BY <1>1, <1>2, <1>3 DEF Ancestry

\* Only the check of append ends a handler between computing an id and
\* inserting it into the index, other than with the process.
LEMMA OnlyCheckRefuses ==
    ASSUME LedgerInv, [Next]_vars, NEW p \in Proc, pc[p] = "check", pc'[p] = "idle", up'
    PROVE  DagCheck(p)
<1>1. ASSUME NEW q \in Proc, Handler(q), q # p PROVE FALSE
  <2>1. \E label \in Label : pc' = [pc EXCEPT ![q] = label]
    BY <1>1 DEF Handler, Publish, Checkpoint, Resolve, DagCheck, DagInsert, AppendCommit, SetHead,
                Reply, Abandon, Rollback, Fork, MoveHead, AppendEvent, AppendMarker, StoreError,
                Done, Goto, Label
  <2>2. pc'[p] = pc[p]
    BY <1>1, <2>1 DEF LedgerInv, TypeOK
  <2> QED
    BY <2>2
<1>2. ASSUME Handler(p), ~DagCheck(p) PROVE FALSE
  BY <1>2 DEF Handler, Publish, Checkpoint, Resolve, DagInsert, AppendCommit, SetHead,
              Reply, Abandon, Rollback, Fork, MoveHead, AppendEvent, AppendMarker, StoreError
<1>3. ASSUME Tick \/ Stop \/ Start \/ UNCHANGED vars PROVE FALSE
  <2>1. up
    BY DEF LedgerInv, HandlerInv
  <2> QED
    BY <1>3, <2>1 DEF Tick, Stop, Start, vars, volatile
<1> QED
  BY <1>1, <1>2, <1>3 DEF Next

\* append refuses no commit whose parents the store has: the index covers the
\* store, and a commit was never computed before its own parents.
THEOREM LedgerRefusals == Spec => RefusedOnlyUnknown
<1>1. LedgerInv /\ [Next]_vars =>
        [\A p \in Proc : (pc[p] = "check" /\ pc'[p] = "idle" /\ up') =>
              \E q \in minted[cid[p]].parents : q \notin Revealed]_vars
  <2> SUFFICES ASSUME LedgerInv, [Next]_vars,
                      NEW p \in Proc, pc[p] = "check", pc'[p] = "idle", up',
                      minted[cid[p]].parents \subseteq Revealed
               PROVE  FALSE
    OBVIOUS
  <2>1. DagCheck(p)
    BY OnlyCheckRefuses
  <2> DEFINE c == cid[p]
  <2>2. c \in Id /\ minted[c] # None /\ up
    BY DEF LedgerInv, TypeOK, HandlerInv, Persisting
  <2>3. ASSUME NEW q \in minted[c].parents
        PROVE  q \in Id /\ dag[q] # None /\ born[q] < born[c]
    <3>1. q \in Id /\ store[q] # None
      BY DEF Revealed
    <3>2. store[q] = minted[q] /\ minted[q].parents \subseteq Id /\ dag[q] = minted[q].parents
      BY <2>2, <3>1 DEF LedgerInv, ContentInv, IndexCoversStore, Revealed
    <3>3. dag[q] # None
      BY <3>2, NoneAssumption DEF Ids
    <3> QED
      BY <2>2, <3>1, <3>3 DEF LedgerInv, MintedInv
  <2>4. c \notin minted[c].parents
    <3>1. \A q \in minted[c].parents : born[q] < born[c]
      BY <2>3
    <3> QED
      BY <2>2, <3>1 DEF LedgerInv, TypeOK
  <2>5. Admissible(dag, c, minted[c].parents)
    BY <2>2, <2>3, <2>4, AncestorsBornBefore DEF Admissible
  <2>6. pc'[p] = "insert"
    BY <2>1, <2>5 DEF DagCheck, Goto, LedgerInv, TypeOK
  <2> QED
    BY <2>6
<1> QED
  BY <1>1, LedgerInvariance, PTL DEF Spec, RefusedOnlyUnknown

\* A set of commits that each have a parent in the set would have no first
\* one in the order in which their ids were computed.
LEMMA AcyclicByBirth == LedgerInv => Acyclic
<1> SUFFICES ASSUME LedgerInv,
                    NEW S \in SUBSET {c \in Id : dag[c] # None}, S # {}
             PROVE  \E c \in S : dag[c] \cap S = {}
  BY DEF Acyclic
<1> DEFINE B == {born[c] : c \in S}
<1>1. B \in SUBSET Nat /\ B # {}
  BY DEF LedgerInv, TypeOK
<1>2. PICK n \in B : \A m \in B : ~(<<m, n>> \in OpToRel(<, Nat))
  BY <1>1, NatLessThanWellFounded, WFMin
<1>3. PICK c \in S : born[c] = n
  BY <1>2
<1>4. \A x \in S : ~(born[x] < born[c])
  BY <1>1, <1>2, <1>3 DEF OpToRel
<1>5. \A q \in dag[c] : q \in Id /\ born[q] < born[c]
  BY DEF LedgerInv, ContentInv, MintedInv
<1> QED
  BY <1>4, <1>5

\* The index has no cycle.
THEOREM LedgerAcyclic == Spec => []Acyclic
  BY AcyclicByBirth, LedgerInvariance, PTL


-----------------------------------------------------------------------------
(* Head moves and their events                                             *)

\* The handlers that have moved a head with the given operation, at a step of
\* append_event.
Recording(label, t) == {p \in Proc : pc[p] = label /\ move[p].op = t}

\* Every handler between two of the writes of a move owes the later one.
EventInv ==
    /\ \A p \in Proc : pc[p] = "mark" => move[p].op = "rollback"
    /\ marks + Cardinality(Recording("mark", "rollback")) <= audit["rollback"]
    /\ \A t \in EventType : audit[t] + Cardinality(Recording("audit", t)) <= moved[t]

\* How many handlers are recording changes as they come and go.
LEMMA RecordingSize ==
    ASSUME NEW A \in SUBSET Proc, NEW B \in SUBSET Proc
    PROVE  /\ Cardinality(A) \in Nat
           /\ A \subseteq B => Cardinality(A) <= Cardinality(B)
           /\ \A p \in Proc : A \subseteq B \cup {p} => Cardinality(A) <= Cardinality(B) + 1
           /\ \A p \in B : A \subseteq B \ {p} => Cardinality(A) + 1 <= Cardinality(B)
<1>1. IsFiniteSet(A) /\ IsFiniteSet(B)
  BY FiniteAssumption, FS_Subset
<1>2. Cardinality(A) \in Nat /\ Cardinality(B) \in Nat
  BY <1>1, FS_CardinalityType
<1>3. A \subseteq B => Cardinality(A) <= Cardinality(B)
  BY <1>1, FS_Subset
<1>4. ASSUME NEW p \in Proc, A \subseteq B \cup {p} PROVE Cardinality(A) <= Cardinality(B) + 1
  <2>1. IsFiniteSet(B \cup {p}) /\ Cardinality(B \cup {p}) \in {Cardinality(B), Cardinality(B) + 1}
    BY <1>1, FS_AddElement
  <2>2. Cardinality(A) <= Cardinality(B \cup {p})
    BY <1>4, <2>1, FS_Subset
  <2> QED
    BY <1>2, <2>1, <2>2
<1>5. ASSUME NEW p \in B, A \subseteq B \ {p} PROVE Cardinality(A) + 1 <= Cardinality(B)
  <2>1. IsFiniteSet(B \ {p}) /\ Cardinality(B \ {p}) = Cardinality(B) - 1
    BY <1>1, FS_RemoveElement
  <2>2. Cardinality(A) <= Cardinality(B \ {p})
    BY <1>5, <2>1, FS_Subset
  <2> QED
    BY <1>2, <2>1, <2>2
<1> QED
  BY <1>2, <1>3, <1>4, <1>5

\* Every step pays what it owes before it owes the next.
LEMMA EventStep == LedgerInv /\ EventInv /\ [Next]_vars => EventInv'
<1> SUFFICES ASSUME LedgerInv, TypeOK, EventInv, [Next]_vars PROVE EventInv'
  BY DEF LedgerInv
<1> USE DEF tables, history, volatile, Done, Goto, EventType
<1>1. \A l, t : Recording(l, t) \in SUBSET Proc /\ Recording(l, t)' \in SUBSET Proc
  BY DEF Recording
<1>2. \A l, t : Cardinality(Recording(l, t)) \in Nat /\ Cardinality(Recording(l, t)') \in Nat
  BY <1>1, RecordingSize
<1>3. /\ marks \in Nat /\ audit["rollback"] \in Nat
      /\ \A t \in EventType : audit[t] \in Nat /\ moved[t] \in Nat
  BY DEF TypeOK
<1>4. ASSUME UNCHANGED <<marks, audit, moved>>,
             \A p \in Proc : pc'[p] \in {"audit", "mark"} => pc'[p] = pc[p] /\ move'[p] = move[p]
      PROVE  EventInv'
  <2>1. \A t \in EventType : /\ Recording("mark", t)' \subseteq Recording("mark", t)
                             /\ Recording("audit", t)' \subseteq Recording("audit", t)
    BY <1>4 DEF Recording
  <2>2. \A t \in EventType : /\ Cardinality(Recording("mark", t)') <= Cardinality(Recording("mark", t))
                             /\ Cardinality(Recording("audit", t)') <= Cardinality(Recording("audit", t))
    BY <1>1, <2>1, RecordingSize
  <2>3. \A p \in Proc : pc'[p] = "mark" => move'[p].op = "rollback"
    BY <1>4 DEF EventInv
  <2> QED
    BY <1>2, <1>3, <1>4, <2>2, <2>3 DEF EventInv
<1>5. ASSUME NEW p \in Proc, MoveHead(p) PROVE EventInv'
  <2>0. PICK o \in EventType : o = move[p].op
    BY <1>5 DEF TypeOK, Move, MoveHead
  <2>1. /\ pc' = [pc EXCEPT ![p] = "audit"] /\ moved' = [moved EXCEPT ![o] = @ + 1]
        /\ UNCHANGED <<move, marks, audit>> /\ pc[p] = "move"
    BY <1>5, <2>0 DEF MoveHead
  <2>3. \A q \in Proc : pc'[q] = IF q = p THEN "audit" ELSE pc[q]
    BY <2>1 DEF TypeOK
  <2>4. /\ Recording("mark", "rollback")' \subseteq Recording("mark", "rollback")
        /\ Recording("audit", o)' \subseteq Recording("audit", o) \cup {p}
        /\ \A t : t # o => Recording("audit", t)' \subseteq Recording("audit", t)
    BY <2>0, <2>1, <2>3 DEF Recording
  <2>5. /\ Cardinality(Recording("mark", "rollback")') <= Cardinality(Recording("mark", "rollback"))
        /\ Cardinality(Recording("audit", o)') <= Cardinality(Recording("audit", o)) + 1
        /\ \A t : t # o => Cardinality(Recording("audit", t)') <= Cardinality(Recording("audit", t))
    BY <1>1, <2>4, RecordingSize
  <2>6. moved'[o] = moved[o] + 1 /\ \A t \in EventType : t # o => moved'[t] = moved[t]
    BY <2>1 DEF TypeOK
  <2>7. ASSUME NEW t \in EventType
        PROVE  audit'[t] + Cardinality(Recording("audit", t)') <= moved'[t]
    <3>1. audit[t] + Cardinality(Recording("audit", t)) <= moved[t]
      BY DEF EventInv
    <3>2. CASE t = o
      BY <1>2, <1>3, <2>1, <2>5, <2>6, <3>1, <3>2
    <3>3. CASE t # o
      BY <1>2, <1>3, <2>1, <2>5, <2>6, <3>1, <3>3
    <3> QED
      BY <3>2, <3>3
  <2>8. marks' + Cardinality(Recording("mark", "rollback")') <= audit'["rollback"]
    BY <1>2, <1>3, <2>1, <2>5 DEF EventInv
  <2>9. \A q \in Proc : pc'[q] = "mark" => move'[q].op = "rollback"
    BY <2>1, <2>3 DEF EventInv
  <2> QED
    BY <2>7, <2>8, <2>9 DEF EventInv
<1>6. ASSUME NEW p \in Proc, AppendEvent(p) PROVE EventInv'
  <2>0. PICK o \in EventType : o = move[p].op
    BY <1>6 DEF TypeOK, Move, AppendEvent
  <2>1. /\ pc[p] = "audit" /\ audit' = [audit EXCEPT ![o] = @ + 1]
        /\ \A q \in Proc : q # p => pc'[q] = pc[q] /\ move'[q] = move[q]
        /\ IF o = "rollback" THEN pc'[p] = "mark" /\ move' = move ELSE pc'[p] = "idle"
        /\ UNCHANGED <<marks, moved>>
    BY <1>6, <2>0 DEF AppendEvent, TypeOK
  <2>2. p \in Recording("audit", o)
    BY <2>0, <2>1 DEF Recording
  <2>3. /\ Recording("audit", o)' \subseteq Recording("audit", o) \ {p}
        /\ \A t : Recording("audit", t)' \subseteq Recording("audit", t)
        /\ o = "rollback" => Recording("mark", "rollback")' \subseteq Recording("mark", "rollback") \cup {p}
        /\ o # "rollback" => Recording("mark", "rollback")' \subseteq Recording("mark", "rollback")
    BY <2>0, <2>1 DEF Recording
  <2>4. \A q \in Proc : pc'[q] = "mark" => move'[q].op = "rollback"
    BY <2>0, <2>1 DEF EventInv
  <2>5. audit'[o] = audit[o] + 1 /\ \A t \in EventType : t # o => audit'[t] = audit[t]
    BY <2>1 DEF TypeOK
  <2>6. /\ Cardinality(Recording("audit", o)') + 1 <= Cardinality(Recording("audit", o))
        /\ \A t : Cardinality(Recording("audit", t)') <= Cardinality(Recording("audit", t))
        /\ o = "rollback" => Cardinality(Recording("mark", "rollback")')
                             <= Cardinality(Recording("mark", "rollback")) + 1
        /\ o # "rollback" => Cardinality(Recording("mark", "rollback")')
                             <= Cardinality(Recording("mark", "rollback"))
    BY <1>1, <2>2, <2>3, RecordingSize
  <2>7. ASSUME NEW t \in EventType
        PROVE  audit'[t] + Cardinality(Recording("audit", t)') <= moved'[t]
    <3>1. audit[t] + Cardinality(Recording("audit", t)) <= moved[t]
      BY DEF EventInv
    <3>2. CASE t = o
      BY <1>2, <1>3, <2>1, <2>5, <2>6, <3>1, <3>2
    <3>3. CASE t # o
      BY <1>2, <1>3, <2>1, <2>5, <2>6, <3>1, <3>3
    <3> QED
      BY <3>2, <3>3
  <2>8. marks' + Cardinality(Recording("mark", "rollback")') <= audit'["rollback"]
    BY <1>2, <1>3, <2>1, <2>5, <2>6 DEF EventInv
  <2> QED
    BY <2>4, <2>7, <2>8 DEF EventInv
<1>7. ASSUME NEW p \in Proc, AppendMarker(p) PROVE EventInv'
  <2>1. /\ pc[p] = "mark" /\ marks' = marks + 1 /\ pc'[p] = "idle"
        /\ \A q \in Proc : q # p => pc'[q] = pc[q] /\ move'[q] = move[q]
        /\ UNCHANGED <<audit, moved>>
    BY <1>7 DEF AppendMarker, TypeOK
  <2>2. p \in Recording("mark", "rollback")
    BY <2>1 DEF EventInv, Recording
  <2>3. /\ Recording("mark", "rollback")' \subseteq Recording("mark", "rollback") \ {p}
        /\ \A t : Recording("audit", t)' \subseteq Recording("audit", t)
    BY <2>1 DEF Recording
  <2>4. /\ Cardinality(Recording("mark", "rollback")') + 1 <= Cardinality(Recording("mark", "rollback"))
        /\ \A t : Cardinality(Recording("audit", t)') <= Cardinality(Recording("audit", t))
    BY <1>1, <2>2, <2>3, RecordingSize
  <2>5. \A q \in Proc : pc'[q] = "mark" => move'[q].op = "rollback"
    BY <2>1 DEF EventInv
  <2>6. \A t \in EventType : audit'[t] + Cardinality(Recording("audit", t)') <= moved'[t]
    BY <1>2, <1>3, <2>1, <2>4 DEF EventInv
  <2>7. marks' + Cardinality(Recording("mark", "rollback")') <= audit'["rollback"]
    BY <1>2, <1>3, <2>1, <2>4 DEF EventInv
  <2> QED
    BY <2>5, <2>6, <2>7 DEF EventInv
<1>8. ASSUME NEW p \in Proc, DagCheck(p) \/ DagInsert(p) \/ AppendCommit(p) \/ SetHead(p) \/ Reply(p)
                             \/ Abandon(p) \/ StoreError(p) \/ Rollback(p) \/ Fork(p)
      PROVE  EventInv'
  <2>1. /\ UNCHANGED <<marks, audit, moved>> /\ pc'[p] \notin {"audit", "mark"}
        /\ \A q \in Proc : q # p => pc'[q] = pc[q] /\ move'[q] = move[q]
    BY <1>8 DEF TypeOK, DagCheck, DagInsert, AppendCommit, SetHead, Reply, Abandon, StoreError,
                Rollback, Fork
  <2> QED
    BY <1>4, <2>1
<1>9. ASSUME NEW p \in Proc, Publish(p) \/ Checkpoint(p) PROVE EventInv'
  <2>1. UNCHANGED <<marks, audit, moved, move>> /\ pc' = [pc EXCEPT ![p] = "check"]
    BY <1>9 DEF Publish, Checkpoint, Resolve
  <2> QED
    BY <1>4, <2>1 DEF TypeOK
<1>10. CASE Stop
  BY <1>4, <1>10 DEF Stop
<1>11. CASE Tick \/ Start \/ UNCHANGED vars
  BY <1>4, <1>11 DEF Tick, Start, vars
<1> QED
  BY <1>5, <1>6, <1>7, <1>8, <1>9, <1>10, <1>11 DEF Next, Handler

\* No marker without its event, no event without its move.
THEOREM LedgerEvents == Spec => []EventsFollowMoves
<1>1. Init => EventInv
  <2> SUFFICES ASSUME Init PROVE EventInv
    OBVIOUS
  <2>1. \A p \in Proc : pc[p] = "idle"
    BY DEF Init
  <2>2. Recording("mark", "rollback") = {} /\ \A t : Recording("audit", t) = {}
    BY <2>1 DEF Recording
  <2>3. Cardinality({}) = 0
    BY FS_EmptySet
  <2>4. /\ marks = 0 /\ audit["rollback"] = 0
        /\ \A t \in EventType : audit[t] = 0 /\ moved[t] = 0
    BY DEF Init, EventType
  <2> QED
    BY <2>1, <2>2, <2>3, <2>4 DEF EventInv
<1>2. LedgerInv /\ EventInv /\ [Next]_vars => EventInv'
  BY EventStep
<1>3. LedgerInv /\ EventInv => EventsFollowMoves
  <2> SUFFICES ASSUME TypeOK, EventInv PROVE EventsFollowMoves
    BY DEF LedgerInv
  <2>1. \A l, t : Cardinality(Recording(l, t)) \in Nat
    BY RecordingSize DEF Recording
  <2> QED
    BY <2>1 DEF EventInv, EventsFollowMoves, TypeOK, EventType
<1> QED
  BY <1>1, <1>2, <1>3, LedgerInvariance, PTL DEF Spec

-----------------------------------------------------------------------------
(* The history of a head                                                   *)

\* Every key has one handler that publishes to it, which leaves the choice of
\* parents to the daemon, and nobody moves heads.
SoleWriters ==
    /\ \A p, q \in Proc : p # q => KeysOf[p] \cap KeysOf[q] = {}
    /\ MaxParents = 0 /\ MaxMoves = 0

\* A handler persists a commit of its own key on top of that key's head, and
\* then is its head.
WriterInv ==
    \A p \in Proc :
        LET commit == minted[cid[p]]
        IN  /\ pc[p] \notin {"move", "audit", "mark"}
            /\ pc[p] \in Persisting => commit.key \in KeysOf[p]
            /\ pc[p] \in Persisting \ {"reply"} => commit.parents = {heads[commit.key]} \ {None}
            /\ pc[p] = "reply" => heads[commit.key] = cid[p]

\* More indexed commits make for more ancestors.
LEMMA AncestryGrows ==
    ASSUME NEW d, NEW e, \A x \in Id : d[x] # None => e[x] = d[x], NEW a, NEW b
    PROVE  IsAncestor(d, b, a) => IsAncestor(e, b, a)
BY DEF IsAncestor, Ancestry

\* A commit has its parent, and all ancestors of that.
LEMMA AncestryOfChild ==
    ASSUME NEW d, NEW a \in Id, NEW c \in Id, d[c] = {a}, {a} # None, NEW b
    PROVE  IsAncestor(d, b, a) => IsAncestor(d, b, c)
<1> SUFFICES ASSUME IsAncestor(d, b, a) PROVE b \in Ancestry(d, c)
  BY DEF IsAncestor
<1>1. ASSUME NEW S \in SUBSET Ids, c \in S, \A x \in S \cap Id : d[x] # None => d[x] \subseteq S
      PROVE  a \in S /\ b \in S
  <2>1. a \in S
    BY <1>1
  <2> QED
    BY <1>1, <2>1 DEF IsAncestor, Ancestry
<1>2. b \in Ids
  BY DEF IsAncestor, Ancestry, Ids
<1> QED
  BY <1>1, <1>2 DEF Ancestry

\* With sole writers no explicit parents are named.
LEMMA NoExplicit ==
    ASSUME SoleWriters, LedgerInv, NEW explicit \in SUBSET (Revealed \cup Junk),
           Cardinality(explicit) <= MaxParents
    PROVE  explicit = {}
<1>1. explicit \subseteq Ids
  BY DEF Revealed, Ids
<1>2. IsFiniteSet(explicit) /\ Cardinality(explicit) \in Nat
  BY <1>1, FiniteAssumption, FS_Subset, FS_CardinalityType
<1>3. Cardinality(explicit) = 0
  BY <1>2 DEF SoleWriters
<1> QED
  BY <1>2, <1>3, FS_EmptySet

\* Sole writers build on their own heads.
LEMMA WriterStep ==
    SoleWriters /\ LedgerInv /\ WriterInv /\ [Next]_vars => WriterInv'
<1> SUFFICES ASSUME SoleWriters, LedgerInv, TypeOK, WriterInv, [Next]_vars PROVE WriterInv'
  BY DEF LedgerInv
<1> USE DEF tables, history, volatile, Done, Goto, Persisting
<1>1. \A p \in Proc : pc[p] \in Persisting => cid[p] \in Id /\ minted[cid[p]] # None
  BY DEF LedgerInv, TypeOK, HandlerInv
<1>2. ASSUME NEW p \in Proc, NEW k \in KeysOf[p], NEW clock \in Clocks, NEW wall \in 0..MaxNow,
             NEW delta \in Delta \cup {Fresh}, NEW explicit \in SUBSET (Revealed \cup Junk),
             Cardinality(explicit) <= MaxParents, Resolve(p, k, clock, wall, delta, explicit)
      PROVE  WriterInv'
  <2> DEFINE commit == [parents |-> {heads[k]} \ {None}, key |-> k, clock |-> clock,
                        wall |-> wall, delta |-> delta]
  <2>1. explicit = {}
    BY <1>2, NoExplicit
  <2>2. /\ pc' = [pc EXCEPT ![p] = "check"] /\ heads' = heads
        /\ \E c \in CommitIds(commit) :
             /\ IF minted[c] = None THEN minted' = [minted EXCEPT ![c] = commit] ELSE minted' = minted
             /\ cid' = [cid EXCEPT ![p] = c]
    BY <1>2, <2>1 DEF Resolve
  <2>3. PICK c \in CommitIds(commit) :
          /\ IF minted[c] = None THEN minted' = [minted EXCEPT ![c] = commit] ELSE minted' = minted
          /\ cid' = [cid EXCEPT ![p] = c]
    BY <2>2
  <2>4. c \in Id /\ (minted[c] = None \/ minted[c] = commit)
    BY DEF CommitIds
  <2>5. commit.key = k /\ commit.parents = {heads[k]} \ {None}
    OBVIOUS
  <2> HIDE DEF commit
  <2>6. minted'[c] = commit /\ \A x \in Id : minted[x] # None => minted'[x] = minted[x]
    BY <2>3, <2>4 DEF TypeOK
  <2>7. \A q \in Proc : q # p => pc'[q] = pc[q] /\ cid'[q] = cid[q]
    BY <2>2, <2>3 DEF TypeOK
  <2>8. pc'[p] = "check" /\ cid'[p] = c
    BY <2>2, <2>3 DEF TypeOK
  <2> QED
    BY <1>1, <2>2, <2>5, <2>6, <2>7, <2>8 DEF WriterInv
<1>3. ASSUME NEW p \in Proc, SetHead(p) PROVE WriterInv'
  <2>1. PICK k \in KeysOf[p] : k = minted[cid[p]].key
    BY <1>3 DEF SetHead, WriterInv
  <2>2. k \in Key
    BY KeysAssumption
  <2>3. /\ pc[p] = "sethead" /\ pc' = [pc EXCEPT ![p] = "reply"]
        /\ heads' = [heads EXCEPT ![k] = cid[p]] /\ UNCHANGED <<cid, minted>>
    BY <1>3, <2>1 DEF SetHead
  <2>4. heads'[k] = cid[p] /\ \A j \in Key : j # k => heads'[j] = heads[j]
    BY <2>2, <2>3 DEF TypeOK
  <2>5. ASSUME NEW q \in Proc, q # p, pc[q] \in Persisting
        PROVE  minted[cid[q]].key \in Key /\ minted[cid[q]].key # k
    BY <2>1, <2>5, KeysAssumption DEF WriterInv, SoleWriters
  <2>6. \A q \in Proc : pc'[q] = IF q = p THEN "reply" ELSE pc[q]
    BY <2>3 DEF TypeOK
  <2> QED
    BY <2>1, <2>3, <2>4, <2>5, <2>6 DEF WriterInv
<1>4. ASSUME UNCHANGED <<minted, heads>>,
             \A p \in Proc : \/ pc'[p] = "idle"
                             \/ pc[p] \in Persisting \ {"reply"} /\ pc'[p] \in Persisting \ {"reply"} /\ cid'[p] = cid[p]
                             \/ pc'[p] = pc[p] /\ cid'[p] = cid[p]
      PROVE  WriterInv'
  BY <1>4 DEF WriterInv
<1>5. ASSUME NEW p \in Proc, DagCheck(p) \/ DagInsert(p) \/ AppendCommit(p) \/ Reply(p)
                             \/ Abandon(p) \/ StoreError(p)
      PROVE  WriterInv'
  <2>1. /\ UNCHANGED <<minted, heads>>
        /\ \/ pc'[p] = "idle"
           \/ pc[p] \in Persisting \ {"reply"} /\ pc'[p] \in Persisting \ {"reply"} /\ cid'[p] = cid[p]
        /\ \A q \in Proc : q # p => pc'[q] = pc[q] /\ cid'[q] = cid[q]
    BY <1>5 DEF TypeOK, DagCheck, DagInsert, AppendCommit, Reply, Abandon, StoreError
  <2> QED
    BY <1>4, <2>1
<1>6. ASSUME NEW p \in Proc, Rollback(p) \/ Fork(p) \/ MoveHead(p) \/ AppendEvent(p) \/ AppendMarker(p)
      PROVE  FALSE
  <2>1. moved["rollback"] \in Nat /\ moved["fork"] \in Nat
    BY DEF TypeOK, EventType
  <2> QED
    BY <1>6, <2>1 DEF Rollback, Fork, MoveHead, AppendEvent, AppendMarker, WriterInv, SoleWriters
<1>7. ASSUME Tick \/ Stop \/ Start \/ UNCHANGED vars PROVE WriterInv'
  BY <1>4, <1>7 DEF Tick, Stop, Start, vars
<1>8. ASSUME NEW p \in Proc, Publish(p) \/ Checkpoint(p) PROVE WriterInv'
  <2>1. now \in 0..MaxNow /\ 0 \in Clocks
    BY ClockAssumption DEF TypeOK
  <2> QED
    BY <1>2, <1>8, <2>1 DEF Publish, Checkpoint
<1> QED
  BY <1>3, <1>5, <1>6, <1>7, <1>8 DEF Next, Handler

\* What a head covers it goes on covering.
LEMMA CoverStep ==
    SoleWriters /\ LedgerInv /\ WriterInv /\ HeadCoversAcks /\ [Next]_vars => HeadCoversAcks'
<1> SUFFICES ASSUME SoleWriters, LedgerInv, TypeOK, WriterInv, HeadCoversAcks, [Next]_vars
             PROVE  HeadCoversAcks'
  BY DEF LedgerInv
<1> USE DEF tables, history, volatile, Done, Goto
<1>1. ASSUME UNCHANGED <<store, heads, acked>> PROVE HeadCoversAcks'
  BY <1>1 DEF HeadCoversAcks, StoredParents
<1>2. \A c \in acked : c \in Id /\ store[c] # None
  BY DEF LedgerInv, AckedStored, Revealed
<1>3. ASSUME NEW p \in Proc, AppendCommit(p) PROVE HeadCoversAcks'
  <2>1. UNCHANGED <<heads, acked>> /\ \A x \in Id : store[x] # None => store'[x] = store[x]
    BY <1>3 DEF AppendCommit, TypeOK
  <2>2. \A x \in Id : StoredParents[x] # None => StoredParents'[x] = StoredParents[x]
    BY <2>1, NoneAssumption DEF StoredParents
  <2>3. \A a, b : IsAncestor(StoredParents, b, a) => IsAncestor(StoredParents', b, a)
    BY <2>2, AncestryGrows
  <2> QED
    BY <1>2, <2>1, <2>3 DEF HeadCoversAcks
<1>4. ASSUME NEW p \in Proc, SetHead(p) PROVE HeadCoversAcks'
  <2>1. PICK c \in Id : c = cid[p] /\ minted[c] # None /\ store[c] # None /\ store[c] = minted[c]
    BY <1>4 DEF LedgerInv, TypeOK, HandlerInv, ContentInv, SetHead, Persisting
  <2>2. PICK k \in Key : k = minted[c].key
    BY <1>4, <2>1, KeysAssumption DEF SetHead, WriterInv, Persisting
  <2>3. /\ heads' = [heads EXCEPT ![k] = c] /\ UNCHANGED <<store, acked>>
    BY <1>4, <2>1, <2>2 DEF SetHead
  <2>4. heads'[k] = c /\ \A j \in Key : j # k => heads'[j] = heads[j]
    BY <2>3 DEF TypeOK
  <2>5. store[c].parents = {heads[k]} \ {None}
    BY <1>4, <2>1, <2>2 DEF SetHead, WriterInv, Persisting
  <2>6. ASSUME heads[k] # None, NEW b, IsAncestor(StoredParents, b, heads[k])
        PROVE  IsAncestor(StoredParents, b, c)
    <3>1. heads[k] \in Id
      BY <2>6 DEF TypeOK
    <3>2. StoredParents[c] = {heads[k]} /\ {heads[k]} # None
      BY <2>1, <2>5, <2>6, <3>1, NoneAssumption DEF StoredParents, Ids
    <3> QED
      BY <2>6, <3>1, <3>2, AncestryOfChild
  <2>7. StoredParents' = StoredParents
    BY <2>3 DEF StoredParents
  <2>8. c # None
    BY NoneAssumption
  <2>9. \A e \in acked : store[e].key \in Key
    BY <1>2 DEF TypeOK, Commit
  <2>10. ASSUME NEW e \in acked
         PROVE  heads'[store[e].key] # None /\ IsAncestor(StoredParents, e, heads'[store[e].key])
    <3>1. heads[store[e].key] # None /\ IsAncestor(StoredParents, e, heads[store[e].key])
      BY DEF HeadCoversAcks
    <3>2. CASE store[e].key = k
      BY <2>4, <2>6, <2>8, <3>1, <3>2
    <3>3. CASE store[e].key # k
      BY <2>4, <2>9, <3>1, <3>3
    <3> QED
      BY <3>2, <3>3
  <2> QED
    BY <2>3, <2>7, <2>10 DEF HeadCoversAcks
<1>5. ASSUME NEW p \in Proc, Reply(p) PROVE HeadCoversAcks'
  <2>1. PICK c \in Id : c = cid[p] /\ minted[c] # None /\ store[c] # None /\ store[c] = minted[c]
    BY <1>5 DEF LedgerInv, TypeOK, HandlerInv, ContentInv, Reply, Persisting
  <2>2. heads[store[c].key] = c /\ c # None
    BY <1>5, <2>1, NoneAssumption DEF Reply, WriterInv
  <2>3. acked' = acked \cup {c} /\ UNCHANGED <<store, heads>>
    BY <1>5, <2>1 DEF Reply
  <2> QED
    BY <2>2, <2>3 DEF HeadCoversAcks, StoredParents, IsAncestor
<1>6. ASSUME NEW p \in Proc, DagCheck(p) \/ DagInsert(p) \/ Abandon(p) \/ StoreError(p) \/ Rollback(p)
                             \/ Fork(p) \/ AppendEvent(p) \/ AppendMarker(p)
      PROVE  UNCHANGED <<store, heads, acked>>
  BY <1>6 DEF DagCheck, DagInsert, Abandon, StoreError, Rollback, Fork, AppendEvent, AppendMarker
<1>7. ASSUME NEW p \in Proc, Publish(p) \/ Checkpoint(p) PROVE UNCHANGED <<store, heads, acked>>
  BY <1>7 DEF Publish, Checkpoint, Resolve
<1>8. ASSUME NEW p \in Proc, MoveHead(p) PROVE FALSE
  BY <1>8 DEF MoveHead, WriterInv
<1>9. ASSUME Tick \/ Stop \/ Start \/ UNCHANGED vars PROVE UNCHANGED <<store, heads, acked>>
  BY <1>9 DEF Tick, Stop, Start, vars
<1> QED
  BY <1>1, <1>3, <1>4, <1>5, <1>6, <1>7, <1>8, <1>9 DEF Next, Handler

\* With sole writers, what was acknowledged for a key stays in the history of
\* its head, through failed statements, crashes and restarts.
THEOREM LedgerHistory == SoleWriters => (Spec => []HeadCoversAcks)
<1> SUFFICES ASSUME SoleWriters PROVE Spec => []HeadCoversAcks
  OBVIOUS
<1>1. Init => WriterInv /\ HeadCoversAcks
  BY DEF Init, WriterInv, HeadCoversAcks, Persisting
<1>2. LedgerInv /\ WriterInv /\ HeadCoversAcks /\ [Next]_vars => (WriterInv /\ HeadCoversAcks)'
  BY WriterStep, CoverStep
<1> QED
  BY <1>1, <1>2, LedgerInvariance, PTL DEF Spec

-----------------------------------------------------------------------------
(* Refinement                                                              *)

\* Every step of the ledger is a step of the abstract one, or changes
\* nothing it shows.
LEMMA RefinementStep ==
    LedgerInv /\ [Next]_vars => [Durable!Next]_<<store, heads, acked>>
<1> SUFFICES ASSUME LedgerInv, [Next]_vars,
                    ~UNCHANGED <<store, heads, acked>>
             PROVE  Durable!Next
  OBVIOUS
<1> USE DEF tables, history, volatile, Revealed
<1>1. ASSUME NEW p \in Proc, AppendCommit(p) PROVE Durable!Next
  <2> DEFINE c == cid[p]
  <2>1. c \in Id /\ minted[c] \in Commit /\ minted[c].parents \subseteq Id
    BY <1>1 DEF LedgerInv, TypeOK, HandlerInv, AppendCommit, Persisting
  <2>2. store[c] = None /\ store' = [store EXCEPT ![c] = minted[c]]
    BY <1>1, <2>1 DEF LedgerInv, TypeOK, AppendCommit
  <2>3. minted[c].parents \subseteq Durable!Present
    BY <2>1, NoneAssumption DEF LedgerInv, MintedInv, Durable!Present
  <2>4. store'[c] = minted[c]
    BY <2>1, <2>2 DEF LedgerInv, TypeOK
  <2>5. Durable!Append(c)
    BY <1>1, <2>1, <2>2, <2>3, <2>4 DEF Durable!Append, AppendCommit
  <2> QED
    BY <2>1, <2>5 DEF Durable!Next
<1>2. ASSUME NEW p \in Proc, SetHead(p) PROVE Durable!Next
  <2>1. cid[p] \in Id /\ minted[cid[p]] \in Commit /\ store[cid[p]] # None
    BY <1>2 DEF LedgerInv, TypeOK, HandlerInv, SetHead, Persisting
  <2>2. minted[cid[p]].key \in Key
    BY <2>1 DEF Commit
  <2>3. Durable!Point(minted[cid[p]].key, cid[p])
    BY <1>2, <2>1 DEF Durable!Point, Durable!Present, SetHead
  <2> QED
    BY <2>1, <2>2, <2>3 DEF Durable!Next
<1>3. ASSUME NEW p \in Proc, MoveHead(p) PROVE Durable!Next
  <2>1. move[p].to \in Id /\ move[p].key \in Key /\ store[move[p].to] # None
    BY <1>3 DEF LedgerInv, TypeOK, HandlerInv, MoveHead, Move
  <2>2. Durable!Point(move[p].key, move[p].to)
    BY <1>3, <2>1 DEF Durable!Point, Durable!Present, MoveHead
  <2> QED
    BY <2>1, <2>2 DEF Durable!Next
<1>4. ASSUME NEW p \in Proc, Reply(p) PROVE Durable!Next
  <2>1. cid[p] \in Id /\ store[cid[p]] # None
    BY <1>4 DEF LedgerInv, TypeOK, HandlerInv, Reply, Persisting
  <2>2. Durable!Acknowledge(cid[p])
    BY <1>4, <2>1 DEF Durable!Acknowledge, Durable!Present, Reply
  <2> QED
    BY <2>1, <2>2 DEF Durable!Next
<1>5. ASSUME NEW p \in Proc, DagCheck(p) \/ DagInsert(p) \/ Abandon(p) \/ Rollback(p)
                             \/ Fork(p) \/ AppendEvent(p) \/ AppendMarker(p) \/ StoreError(p)
      PROVE  FALSE
  BY <1>5 DEF DagCheck, DagInsert, Abandon, Rollback, Fork, AppendEvent, AppendMarker, StoreError
<1>6. ASSUME NEW p \in Proc, Publish(p) \/ Checkpoint(p) PROVE FALSE
  BY <1>6 DEF Publish, Checkpoint, Resolve
<1>7. ASSUME Tick \/ Stop \/ Start \/ UNCHANGED vars PROVE FALSE
  BY <1>7 DEF Tick, Stop, Start, vars
<1> QED
  BY <1>1, <1>2, <1>3, <1>4, <1>5, <1>6, <1>7 DEF Next, Handler

\* The daemon's ledger implements DurableLedger.
THEOREM LedgerRefines == Spec => ImplementsDurableLedger
<1>1. Init => Durable!Init
  BY DEF Init, Durable!Init
<1>2. LedgerInv /\ [Next]_vars => [Durable!Next]_<<store, heads, acked>>
  BY RefinementStep
<1> QED
  BY <1>1, <1>2, LedgerInvariance, PTL DEF Spec, ImplementsDurableLedger, Durable!Spec

=============================================================================
