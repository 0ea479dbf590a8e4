------------------------------ MODULE LoopProofs ------------------------------
(***************************************************************************)
(* Proofs about the loop detector of Service: its warnings are about what  *)
(* happened, and what repeats is warned of.                                *)
(***************************************************************************)
EXTENDS ServiceProofs, SequenceTheorems

-----------------------------------------------------------------------------
(* The inductive invariant                                                 *)

\* An announcement whose inspection is over: no window and no warning will
\* have its number again.
Inspected(n) == n \in DOMAIN announced /\ \A h \in Handler : pc[h] = "inspect" => req[h].notice # n

\* A handler about to inspect has an announcement of its own.
AnnounceInv ==
    \A h \in Handler : pc[h] = "inspect" =>
        /\ req[h].notice \in DOMAIN announced /\ announced[req[h].notice] = req[h].commit
        /\ \A g \in Handler : pc[g] = "inspect" /\ req[g].notice = req[h].notice => g = h

\* A window holds announcements of commits that are stored, each once, under
\* the fingerprint each has.  The commits may repeat.
EntryInv ==
    \A k \in Key : \A i \in DOMAIN windows[k] :
        /\ Inspected(windows[k][i].notice)
        /\ announced[windows[k][i].notice] = windows[k][i].commit
        /\ windows[k][i].commit \in Repeats(k, windows[k][i].fingerprint)
        /\ \A j \in DOMAIN windows[k] : windows[k][j].notice = windows[k][i].notice => j = i

\* A warning about to be stored is as true as a stored one, and differs from
\* all others by the announcement that raised it.
WarnInv ==
    /\ IsFiniteSet(warnings)
    /\ metrics \in [artifacts : Nat, commits : Nat, loops : Nat]
    /\ metrics.loops <= Cardinality(warnings)
    /\ \A w \in warnings : RealWarning(w) /\ Inspected(w.id)
    /\ \A h \in Handler : pc[h] = "warn" =>
          /\ RealWarning(req[h]) /\ Inspected(req[h].id)
          /\ \A w \in warnings : w.id # req[h].id
          /\ \A g \in Handler : pc[g] = "warn" /\ req[g].id = req[h].id => g = h

LoopInv == AnnounceInv /\ EntryInv /\ WarnInv /\ RepeatsWarned

-----------------------------------------------------------------------------
(* Counting                                                                *)

\* What maps one to one into a finite set is no larger.
LEMMA CountInto ==
    ASSUME NEW S, NEW T, IsFiniteSet(T), NEW f \in [S -> T],
           \A x, y \in S : f[x] = f[y] => x = y
    PROVE  /\ IsFiniteSet(S)
           /\ Cardinality(S) \in Nat /\ Cardinality(T) \in Nat /\ Cardinality(S) <= Cardinality(T)
<1>1. f \in Injection(S, T)
  BY DEF Injection, IsInjective
<1> QED
  BY <1>1, FS_Injection, FS_CardinalityType

\* A set of numbers up to n has a greatest: otherwise the number below an
\* upper bound is an upper bound too, and as there are finitely many, so is
\* the number above one.
LEMMA MaxIn ==
    ASSUME NEW n \in Nat, NEW S \in SUBSET (1..n), S # {}
    PROVE  Max(S) \in S
<1> SUFFICES ASSUME \A x \in S : \E y \in S : ~(x >= y) PROVE FALSE
  BY DEF Max
<1> DEFINE U == {u \in 1..n : \A x \in S : x <= u}
           below == [u \in U |-> u - 1]
<1>0. PICK s \in S : s \in 1..n
  OBVIOUS
<1>1. ASSUME NEW u \in U PROVE u - 1 \in U
  <2>1. \A x \in S : x \in Int /\ x <= u - 1
    OBVIOUS
  <2>2. u - 1 \in 1..n
    BY <1>0, <2>1
  <2> QED
    BY <2>1, <2>2
<1>2. below \in Injection(U, U)
  <2>1. below \in [U -> U]
    BY <1>1
  <2>2. \A u, v \in U : below[u] = below[v] => u = v
    OBVIOUS
  <2> HIDE DEF below, U
  <2> QED
    BY <2>1, <2>2 DEF Injection, IsInjective
<1>3. IsFiniteSet(U)
  <2>1. IsFiniteSet(1..n)
    BY FS_Interval
  <2>2. U \in SUBSET (1..n)
    OBVIOUS
  <2> HIDE DEF U
  <2> QED
    BY <2>1, <2>2, FS_Subset
<1>4. below \in Surjection(U, U)
  <2> HIDE DEF below, U
  <2> QED
    BY <1>2, <1>3, FS_Injection
<1>5. n \in U
  <2>1. n \in 1..n /\ \A x \in S : x <= n
    BY <1>0
  <2> QED
    BY <2>1
<1>6. \E u \in U : below[u] = n
  <2> HIDE DEF below, U
  <2> QED
    BY <1>4, <1>5 DEF Surjection
<1>7. PICK u \in U : u - 1 = n
  BY <1>6
<1> QED
  BY <1>7

\* The announcements of a fingerprint are finitely many.
LEMMA AnnouncementsFinite ==
    ASSUME BaseInv, NEW k, NEW f
    PROVE  IsFiniteSet(Announcements(k, f)) /\ Cardinality(Announcements(k, f)) \in Nat
<1>1. Len(announced) \in Nat /\ DOMAIN announced = 1..Len(announced)
  BY DEF BaseInv, Typed
<1>2. Announcements(k, f) \in SUBSET (1..Len(announced))
  BY <1>1 DEF Announcements
<1>3. IsFiniteSet(1..Len(announced))
  BY <1>1, FS_Interval
<1> QED
  BY <1>2, <1>3, FS_Subset, FS_CardinalityType

\* The places of a window are numbered, and finitely many.
LEMMA WindowPlaces ==
    ASSUME BaseInv, NEW k \in Key
    PROVE  /\ windows[k] \in Seq([fingerprint : Fingerprints, commit : Commits, notice : Nat])
           /\ Len(windows[k]) \in Nat /\ DOMAIN windows[k] = 1..Len(windows[k])
           /\ \A f : /\ Occurrences(k, f) \in SUBSET (1..Len(windows[k]))
                     /\ IsFiniteSet(Occurrences(k, f)) /\ Cardinality(Occurrences(k, f)) \in Nat
<1>1. windows[k] \in Seq([fingerprint : Fingerprints, commit : Commits, notice : Nat])
  BY DEF BaseInv, WindowInv
<1>2. Len(windows[k]) \in Nat /\ DOMAIN windows[k] = 1..Len(windows[k])
  BY <1>1
<1>3. \A f : Occurrences(k, f) \in SUBSET (1..Len(windows[k]))
  BY <1>2 DEF Occurrences
<1>4. IsFiniteSet(1..Len(windows[k]))
  BY <1>2, FS_Interval
<1> QED
  BY <1>1, <1>2, <1>3, <1>4, FS_Subset, FS_CardinalityType

\* A fingerprint was announced as often as its window holds it, not counting
\* an announcement that is not in the window.
LEMMA OccurrencesAnnounced ==
    ASSUME BaseInv, EntryInv, NEW k \in Key, NEW f, NEW n \in Announcements(k, f),
           \A i \in DOMAIN windows[k] : windows[k][i].notice # n
    PROVE  Cardinality(Occurrences(k, f)) + 1 <= Cardinality(Announcements(k, f))
<1> DEFINE O == Occurrences(k, f)
           A == Announcements(k, f)
           made == [i \in O |-> windows[k][i].notice]
<1>1. IsFiniteSet(A) /\ Cardinality(A) \in Nat
  BY AnnouncementsFinite
<1>2. IsFiniteSet(A \ {n}) /\ Cardinality(A \ {n}) = Cardinality(A) - 1
  BY <1>1, FS_RemoveElement
<1>3. made \in [O -> A \ {n}]
  BY DEF Occurrences, EntryInv, Inspected, Announcements
<1>4. \A i, j \in O : made[i] = made[j] => i = j
  BY DEF Occurrences, EntryInv
<1> HIDE DEF O, A, made
<1>5. Cardinality(O) \in Nat /\ Cardinality(O) <= Cardinality(A \ {n})
  BY <1>2, <1>3, <1>4, CountInto
<1> QED
  BY <1>1, <1>2, <1>5 DEF O, A

-----------------------------------------------------------------------------
(* What stays true                                                         *)

\* Only Announce announces, and lets its handler inspect.
LEMMA InspectKept ==
    ASSUME BaseInv, [Next]_vars, \A h \in Handler : ~Announce(h)
    PROVE  /\ announced' = announced
           /\ \A g \in Handler : pc'[g] = "inspect" => pc[g] = "inspect" /\ req'[g] = req[g]
<1> USE DEF Label, disk, memory, history, Goto, Done
<1>0. pc \in [Handler -> Label] /\ req = [h \in Handler |-> req[h]]
  BY DEF BaseInv, Typed
<1> DEFINE Goal == \A g \in Handler : pc'[g] = "inspect" => pc[g] = "inspect" /\ req'[g] = req[g]
\* Only one handler moves, and not there.
<1>m. ASSUME NEW h \in Handler, NEW label \in Label \ {"inspect"}, NEW r,
             pc' = [pc EXCEPT ![h] = label], req' = [req EXCEPT ![h] = r]
      PROVE  Goal
  BY <1>0, <1>m
<1>n. ASSUME NEW h \in Handler, NEW label \in Label \ {"inspect"},
             pc' = [pc EXCEPT ![h] = label], req' = req
      PROVE  Goal
  BY <1>0, <1>n
<1> HIDE DEF Goal
<1>3. ASSUME NEW h \in Handler, Grant(h) PROVE announced' = announced /\ Goal
  <2>1. PICK r : req' = [req EXCEPT ![h] = r] /\ pc' = [pc EXCEPT ![h] = "online"]
    BY <1>3 DEF Grant
  <2>2. announced' = announced
    BY <1>3 DEF Grant
  <2> QED
    BY <2>1, <2>2, <1>m
<1>4. ASSUME NEW h \in Handler, Appear(h) PROVE announced' = announced /\ Goal
  BY <1>4, <1>n DEF Appear
<1>5. ASSUME NEW h \in Handler, CountAgents(h) PROVE announced' = announced /\ Goal
  <2>1. PICK r : req' = [req EXCEPT ![h] = r] /\ pc' = [pc EXCEPT ![h] = "gauge"]
    BY <1>5 DEF CountAgents
  <2>2. announced' = announced
    BY <1>5 DEF CountAgents
  <2> QED
    BY <2>1, <2>2, <1>m
<1>6. ASSUME NEW h \in Handler, StoreGauge(h) \/ Cancel(h) \/ Notice(h) \/ TellWarning(h) \/ Fail(h)
      PROVE  announced' = announced /\ Goal
  <2>1. /\ pc' = [pc EXCEPT ![h] = "idle"] /\ req' = [req EXCEPT ![h] = None]
        /\ announced' = announced
    BY <1>6 DEF StoreGauge, Cancel, Notice, TellWarning, Fail
  <2> QED
    BY <2>1, <1>m
<1>7. ASSUME NEW h \in Handler, Accept(h) PROVE announced' = announced /\ Goal
  <2>1. PICK r : req' = [req EXCEPT ![h] = r] /\ pc' = [pc EXCEPT ![h] = "prepare"]
    BY <1>7 DEF Accept, Admit
  <2>2. announced' = announced
    BY <1>7 DEF Accept, Admit
  <2> QED
    BY <2>1, <2>2, <1>m
<1>8. ASSUME NEW h \in Handler, PreparePayload(h) PROVE announced' = announced /\ Goal
  <2>1. PICK label \in {"file", "route"} : pc' = [pc EXCEPT ![h] = label]
    BY <1>8 DEF PreparePayload
  <2>2. PICK r : req' = [req EXCEPT ![h] = r]
    BY <1>8 DEF PreparePayload
  <2>3. announced' = announced
    BY <1>8 DEF PreparePayload
  <2> QED
    BY <2>1, <2>2, <2>3, <1>m
<1>9. ASSUME NEW h \in Handler, CreateFile(h) \/ FillFile(h) \/ InsertRow(h) \/ AppendWarning(h)
                                \/ Persist(h) \/ SetHead(h)
      PROVE  announced' = announced /\ Goal
  <2>1. PICK label \in {"fill", "row", "route", "tell", "head", "announce"} :
          pc' = [pc EXCEPT ![h] = label] /\ req' = req
    BY <1>9 DEF CreateFile, FillFile, InsertRow, AppendWarning, Persist, SetHead
  <2>2. announced' = announced
    BY <1>9 DEF CreateFile, FillFile, InsertRow, AppendWarning, Persist, SetHead
  <2> QED
    BY <2>1, <2>2, <1>n
<1>10. ASSUME NEW h \in Handler, Inspect(h) PROVE announced' = announced /\ Goal
  <2>1. PICK label, r : /\ label \in {"idle", "warn"}
                        /\ pc' = [pc EXCEPT ![h] = label] /\ req' = [req EXCEPT ![h] = r]
    BY <1>10, InspectEffect, Zenon
  <2>2. announced' = announced
    BY <1>10, InspectEffect, Zenon
  <2> QED
    BY <2>1, <2>2, <1>m
<1>11. ASSUME NEW h \in Handler, Route(h) PROVE announced' = announced /\ Goal
  <2>1. announced' = announced
    BY <1>11, RouteEffect
  <2>2. CASE pc' = [pc EXCEPT ![h] = "notice"] /\ req' = req
    BY <2>1, <2>2, <1>n
  <2>3. CASE ~(pc' = [pc EXCEPT ![h] = "notice"] /\ req' = req)
    <3>1. PICK r : pc' = [pc EXCEPT ![h] = "persist"] /\ req' = [req EXCEPT ![h] = r]
      BY <1>11, <2>3, RouteEffect
    <3> QED
      BY <2>1, <3>1, <1>m
  <2> QED
    BY <2>2, <2>3
<1>12. ASSUME Restart PROVE announced' = announced /\ Goal
  BY <1>12 DEF Restart, AllIdle, Goal
<1>13. ASSUME UNCHANGED vars PROVE announced' = announced /\ Goal
  BY <1>13 DEF vars, Goal
<1> HIDE DEF Label, disk, memory, history, Goto, Done
<1>14. ASSUME NEW h \in Handler, Register(h) \/ Publish(h) \/ Fail(h)
       PROVE  announced' = announced /\ Goal
  BY <1>3, <1>4, <1>5, <1>6, <1>7, <1>8, <1>9, <1>10, <1>11, <1>14 DEF Register, Publish
<1>15. announced' = announced /\ Goal
  BY <1>12, <1>13, <1>14 DEF Next
<1> QED
  BY <1>15 DEF Goal

\* What Announce does to announcements: they are numbered.
LEMMA AnnounceLast ==
    ASSUME BaseInv, NEW h \in Handler, Announce(h)
    PROVE  /\ DOMAIN announced = 1..Len(announced) /\ Len(announced) \in Nat
           /\ DOMAIN announced' = 1..(Len(announced) + 1)
           /\ \A n \in DOMAIN announced : announced'[n] = announced[n]
           /\ announced'[Len(announced) + 1] = req[h].commit
           /\ pc[h] = "announce" /\ pc'[h] = "inspect"
           /\ req'[h].notice = Len(announced) + 1 /\ req'[h].commit = req[h].commit
           /\ \A g \in Handler \ {h} : pc'[g] = pc[g] /\ req'[g] = req[g]
<1>0. /\ pc \in [Handler -> Label] /\ req = [g \in Handler |-> req[g]]
      /\ announced \in Seq(Commits)
  BY DEF BaseInv, Typed
<1>1. /\ pc[h] = "announce" /\ pc' = [pc EXCEPT ![h] = "inspect"]
      /\ announced' = Append(announced, req[h].commit) /\ req[h] \in Made
  BY AnnounceEffect
<1>2. PICK r : /\ req' = [req EXCEPT ![h] = r] /\ r.notice = Len(announced) + 1
               /\ r.commit = req[h].commit
  BY AnnounceEffect
<1>3. PICK c : c = req[h].commit
  OBVIOUS
<1>4. c \in Commits
  BY <1>1, <1>3 DEF Made
<1>5. /\ Append(announced, c) \in Seq(Commits)
      /\ Len(Append(announced, c)) = Len(announced) + 1 /\ Append(announced, c)[Len(announced) + 1] = c
      /\ \A n \in 1..Len(announced) : Append(announced, c)[n] = announced[n]
  BY <1>0, <1>4, AppendProperties
<1>6. announced' = Append(announced, c)
  BY <1>1, <1>3
<1>7. /\ DOMAIN announced = 1..Len(announced) /\ Len(announced) \in Nat
      /\ DOMAIN announced' = 1..(Len(announced) + 1)
      /\ \A n \in DOMAIN announced : announced'[n] = announced[n]
      /\ announced'[Len(announced) + 1] = req[h].commit
  BY <1>0, <1>3, <1>5, <1>6
<1>8. /\ pc'[h] = "inspect" /\ req'[h] = r
      /\ \A g \in Handler \ {h} : pc'[g] = pc[g] /\ req'[g] = req[g]
  BY <1>0, <1>1, <1>2
<1> QED
  BY <1>1, <1>2, <1>7, <1>8

\* A handler gets a number that no announcement has, so an announcement whose
\* inspection is over stays so.
LEMMA InspectedStays ==
    ASSUME BaseInv, [Next]_vars, NEW n, Inspected(n)
    PROVE  Inspected(n)' /\ announced'[n] = announced[n]
<1>1. CASE \A h \in Handler : ~Announce(h)
  BY <1>1, InspectKept DEF Inspected
<1>2. ASSUME NEW h \in Handler, Announce(h) PROVE Inspected(n)' /\ announced'[n] = announced[n]
  <2>1. n \in 1..Len(announced) /\ n # Len(announced) + 1
    BY <1>2, AnnounceLast DEF Inspected
  <2>2. n \in DOMAIN announced' /\ announced'[n] = announced[n]
    BY <1>2, <2>1, AnnounceLast DEF Inspected
  <2>3. \A g \in Handler : pc'[g] = "inspect" => req'[g].notice # n
    BY <1>2, <2>1, AnnounceLast DEF Inspected
  <2> QED
    BY <2>2, <2>3 DEF Inspected
<1> QED
  BY <1>1, <1>2

\* An announcement keeps its number.
LEMMA AnnouncedStays ==
    ASSUME BaseInv, [Next]_vars
    PROVE  \A n \in DOMAIN announced : n \in DOMAIN announced' /\ announced'[n] = announced[n]
<1>1. CASE \A h \in Handler : ~Announce(h)
  BY <1>1, InspectKept
<1>2. ASSUME NEW h \in Handler, Announce(h)
      PROVE  \A n \in DOMAIN announced : n \in DOMAIN announced' /\ announced'[n] = announced[n]
  BY <1>2, AnnounceLast
<1> QED
  BY <1>1, <1>2

\* Commits are added and never changed, and announcements are only added, so
\* those of a fingerprint only grow in number.
LEMMA RepeatsStay ==
    ASSUME BaseInv, CommitInv, [Next]_vars, NEW k, NEW f
    PROVE  /\ Repeats(k, f) \subseteq Repeats(k, f)'
           /\ \A c \in Stored : c \in Repeats(k, f)' => c \in Repeats(k, f)
           /\ Cardinality(Announcements(k, f)) \in Nat /\ Cardinality(Announcements(k, f)') \in Nat
           /\ Cardinality(Announcements(k, f)) <= Cardinality(Announcements(k, f)')
<1>1. \A c \in Stored : c \in Stored' /\ store'[c] = store[c]
  BY StoreGrows
<1>2. /\ Repeats(k, f) \subseteq Repeats(k, f)'
      /\ \A c \in Stored : c \in Repeats(k, f)' => c \in Repeats(k, f)
  BY <1>1 DEF Repeats, KeyOf, Fingerprint
<1>3. Announcements(k, f) \subseteq Announcements(k, f)'
  BY <1>2, AnnouncedStays DEF Announcements
<1>4. Cardinality(Announcements(k, f)) \in Nat
  BY AnnouncementsFinite
<1>5. IsFiniteSet(Announcements(k, f)') /\ Cardinality(Announcements(k, f)') \in Nat
  <2>1. Len(announced') \in Nat /\ DOMAIN announced' = 1..Len(announced')
    BY BaseStep DEF BaseInv, Typed
  <2>2. Announcements(k, f)' \in SUBSET (1..Len(announced'))
    BY <2>1 DEF Announcements
  <2>3. IsFiniteSet(1..Len(announced'))
    BY <2>1, FS_Interval
  <2> QED
    BY <2>2, <2>3, FS_Subset, FS_CardinalityType
<1> QED
  BY <1>2, <1>3, <1>4, <1>5, FS_Subset

\* A warning that is about what happened stays so.
LEMMA RealStays ==
    ASSUME BaseInv, CommitInv, [Next]_vars, NEW w, RealWarning(w)
    PROVE  RealWarning(w)'
<1>1. PICK k, f : k = w.key /\ f = w.fingerprint
  OBVIOUS
<1>2. /\ \A c \in Stored : c \in Repeats(k, f)' => c \in Repeats(k, f)
      /\ Cardinality(Announcements(k, f)) \in Nat
      /\ Cardinality(Announcements(k, f)') \in Nat
      /\ Cardinality(Announcements(k, f)) <= Cardinality(Announcements(k, f)')
  BY RepeatsStay
<1>3. w.count \in RepeatLimit..Cardinality(Announcements(k, f)')
  BY <1>1, <1>2, LimitsAssumption DEF RealWarning
<1>4. ASSUME w.suggested # None
      PROVE  /\ w.suggested \in Stored' /\ KeyOf(store'[w.suggested]) = k
             /\ w.suggested \notin Repeats(k, f)'
  BY <1>1, <1>2, <1>4, StoreGrows DEF RealWarning
<1> QED
  BY <1>1, <1>3, <1>4 DEF RealWarning

Metric == [artifacts : Nat, commits : Nat, loops : Nat]

\* Of the steps of a running process only Inspect and AppendWarning concern
\* windows and warnings; a warning that failed to be stored is remembered.
LEMMA LoopKept ==
    ASSUME BaseInv, metrics \in Metric, [Next]_vars, ~Restart,
           \A h \in Handler : ~Inspect(h) /\ ~AppendWarning(h)
    PROVE  /\ UNCHANGED <<windows, warnings>>
           /\ metrics' \in Metric /\ metrics'.loops = metrics.loops
           /\ unstored \subseteq unstored'
           /\ \A g \in Handler :
                 /\ pc'[g] = "warn" => pc[g] = "warn" /\ req'[g] = req[g]
                 /\ pc[g] = "warn" => \/ pc'[g] = "warn" /\ req'[g] = req[g]
                                      \/ <<req[g].key, req[g].fingerprint>> \in unstored'
<1> USE DEF Label, disk, memory, history, Goto, Done
<1>0. pc \in [Handler -> Label] /\ req = [h \in Handler |-> req[h]]
  BY DEF BaseInv, Typed
<1> DEFINE Tables == /\ UNCHANGED <<windows, warnings>>
                     /\ metrics' \in Metric /\ metrics'.loops = metrics.loops
                     /\ unstored \subseteq unstored'
           Handlers == \A g \in Handler :
                 /\ pc'[g] = "warn" => pc[g] = "warn" /\ req'[g] = req[g]
                 /\ pc[g] = "warn" => \/ pc'[g] = "warn" /\ req'[g] = req[g]
                                      \/ <<req[g].key, req[g].fingerprint>> \in unstored'
\* Only one handler moves, and one that has a warning keeps it.
<1>m. ASSUME NEW h \in Handler, NEW label \in Label \ {"warn"}, NEW r, pc[h] # "warn",
             pc' = [pc EXCEPT ![h] = label], req' = [req EXCEPT ![h] = r]
      PROVE  Handlers
  BY <1>0, <1>m
<1>n. ASSUME NEW h \in Handler, NEW label \in Label \ {"warn"}, pc[h] # "warn",
             pc' = [pc EXCEPT ![h] = label], req' = req
      PROVE  Handlers
  BY <1>0, <1>n
<1>1. ASSUME NEW h \in Handler, Grant(h) PROVE Tables /\ Handlers
  <2>1. PICK r : req' = [req EXCEPT ![h] = r]
    BY <1>1 DEF Grant
  <2>2. Tables /\ pc[h] # "warn" /\ pc' = [pc EXCEPT ![h] = "online"]
    BY <1>1 DEF Grant
  <2> QED
    BY <2>1, <2>2, <1>m
<1>2. ASSUME NEW h \in Handler, Appear(h) PROVE Tables /\ Handlers
  <2>1. Tables /\ pc[h] # "warn" /\ pc' = [pc EXCEPT ![h] = "count"] /\ req' = req
    BY <1>2 DEF Appear
  <2> QED
    BY <2>1, <1>n
<1>3. ASSUME NEW h \in Handler, CountAgents(h) PROVE Tables /\ Handlers
  <2>1. PICK r : req' = [req EXCEPT ![h] = r]
    BY <1>3 DEF CountAgents
  <2>2. Tables /\ pc[h] # "warn" /\ pc' = [pc EXCEPT ![h] = "gauge"]
    BY <1>3 DEF CountAgents
  <2> QED
    BY <2>1, <2>2, <1>m
<1>4. ASSUME NEW h \in Handler, StoreGauge(h) \/ Cancel(h) \/ Notice(h) \/ TellWarning(h)
      PROVE  Tables /\ Handlers
  <2>1. Tables /\ pc[h] # "warn"
    BY <1>4 DEF StoreGauge, Cancel, Notice, TellWarning
  <2>2. pc' = [pc EXCEPT ![h] = "idle"] /\ req' = [req EXCEPT ![h] = None]
    BY <1>4 DEF StoreGauge, Cancel, Notice, TellWarning
  <2> QED
    BY <2>1, <2>2, <1>m
<1>5. ASSUME NEW h \in Handler, Accept(h) PROVE Tables /\ Handlers
  <2>1. PICK r : req' = [req EXCEPT ![h] = r]
    BY <1>5 DEF Accept, Admit
  <2>2. Tables /\ pc[h] # "warn" /\ pc' = [pc EXCEPT ![h] = "prepare"]
    BY <1>5 DEF Accept, Admit
  <2> QED
    BY <2>1, <2>2, <1>m
<1>6. ASSUME NEW h \in Handler, PreparePayload(h) PROVE Tables /\ Handlers
  <2>1. PICK r : req' = [req EXCEPT ![h] = r]
    BY <1>6 DEF PreparePayload
  <2>2. PICK label \in {"file", "route"} : pc' = [pc EXCEPT ![h] = label]
    BY <1>6 DEF PreparePayload
  <2>3. Tables /\ pc[h] # "warn"
    BY <1>6 DEF PreparePayload
  <2> QED
    BY <2>1, <2>2, <2>3, <1>m
<1>7. ASSUME NEW h \in Handler,
             CreateFile(h) \/ FillFile(h) \/ InsertRow(h) \/ Persist(h) \/ SetHead(h)
      PROVE  Tables /\ Handlers
  <2>1. PICK label \in {"fill", "row", "route", "head", "announce"} :
          pc' = [pc EXCEPT ![h] = label] /\ req' = req /\ pc[h] # "warn"
    BY <1>7 DEF CreateFile, FillFile, InsertRow, Persist, SetHead
  <2>2. Tables
    <3>1. CASE metrics' = metrics
      BY <1>7, <3>1 DEF CreateFile, FillFile, InsertRow, Persist, SetHead
    <3>2. CASE Count("artifacts")
      BY <1>7, <3>2 DEF CreateFile, FillFile, InsertRow, Persist, SetHead, Count, Metric
    <3>3. CASE Count("commits")
      BY <1>7, <3>3 DEF CreateFile, FillFile, InsertRow, Persist, SetHead, Count, Metric
    <3> QED
      BY <1>7, <3>1, <3>2, <3>3 DEF CreateFile, FillFile, InsertRow, Persist, SetHead
  <2> QED
    BY <2>1, <2>2, <1>n
<1>7a. ASSUME NEW h \in Handler, Announce(h) PROVE Tables /\ Handlers
  <2>1. Tables /\ pc[h] # "warn" /\ pc' = [pc EXCEPT ![h] = "inspect"]
    BY <1>7a, AnnounceEffect
  <2>2. PICK r : req' = [req EXCEPT ![h] = r]
    BY <1>7a, AnnounceEffect
  <2> QED
    BY <2>1, <2>2, <1>m
<1>8. ASSUME NEW h \in Handler, Route(h) PROVE Tables /\ Handlers
  <2>1. Tables /\ pc[h] # "warn"
    BY <1>8, RouteEffect
  <2>2. CASE pc' = [pc EXCEPT ![h] = "notice"] /\ req' = req
    BY <2>1, <2>2, <1>n
  <2>3. CASE ~(pc' = [pc EXCEPT ![h] = "notice"] /\ req' = req)
    <3>1. pc' = [pc EXCEPT ![h] = "persist"] /\ \E r : req' = [req EXCEPT ![h] = r]
      BY <1>8, <2>3, RouteEffect
    <3> QED
      BY <2>1, <3>1, <1>m
  <2> QED
    BY <2>2, <2>3
<1>9. ASSUME NEW h \in Handler, Fail(h) PROVE Tables /\ Handlers
  <2>1. /\ pc' = [pc EXCEPT ![h] = "idle"] /\ req' = [req EXCEPT ![h] = None]
        /\ pc[h] = "warn" => <<req[h].key, req[h].fingerprint>> \in unstored'
    BY <1>9 DEF Fail
  <2>2. Tables
    BY <1>9 DEF Fail
  <2> QED
    BY <1>0, <2>1, <2>2
<1>10. CASE UNCHANGED vars
  BY <1>10 DEF vars
<1> QED
  BY <1>1, <1>2, <1>3, <1>4, <1>5, <1>6, <1>7, <1>7a, <1>8, <1>9, <1>10 DEF Next, Register, Publish

-----------------------------------------------------------------------------
(* An inspection                                                           *)

\* The window moves up by one when it is full, and the commit is added.
LEMMA InspectWindow ==
    ASSUME BaseInv, NEW h \in Handler, Inspect(h), NEW k, k = KeyOf(req[h])
    PROVE  /\ pc[h] = "inspect" /\ req[h] \in Made /\ k \in Key
           /\ \A l \in Key \ {k} : windows'[l] = windows[l]
           /\ \E s \in {0, 1} :
                 /\ Len(windows[k]) - s \in Nat
                 /\ DOMAIN windows'[k] = 1..(Len(windows[k]) - s + 1)
                 /\ \A i \in 1..(Len(windows[k]) - s) : windows'[k][i] = windows[k][i + s]
                 /\ windows'[k][Len(windows[k]) - s + 1] =
                       [fingerprint |-> Fingerprint(req[h]), commit |-> req[h].commit,
                        notice |-> req[h].notice]
<1> DEFINE E == [fingerprint : Fingerprints, commit : Commits, notice : Nat]
           w == windows[k]
           e == [fingerprint |-> Fingerprint(req[h]), commit |-> req[h].commit,
                 notice |-> req[h].notice]
           kept == IF Len(w) = WindowSize THEN Tail(w) ELSE w
<1>1. pc[h] = "inspect" /\ windows' = [windows EXCEPT ![k] = Append(kept, e)]
  BY InspectEffect
<1>2. req[h] \in Made
  BY <1>1 DEF BaseInv, RequestInv, Persisting
<1>3. k \in Key /\ e \in E
  BY <1>2 DEF Made, KeyOf, Key, Fingerprint, Fingerprints
<1>4. w \in Seq(E) /\ Len(w) \in Nat /\ WindowSize \in Nat \ {0}
  BY <1>3, WindowPlaces, LimitsAssumption
<1>5. windows'[k] = Append(kept, e) /\ \A l \in Key \ {k} : windows'[l] = windows[l]
  BY <1>1, <1>3 DEF BaseInv, WindowInv
<1> HIDE DEF e, E, w
<1>6. \E s \in {0, 1} : /\ Len(w) - s \in Nat /\ kept \in Seq(E) /\ Len(kept) = Len(w) - s
                        /\ \A i \in 1..(Len(w) - s) : kept[i] = w[i + s]
  <2>1. CASE Len(w) = WindowSize
    <3>1. w # <<>> /\ kept = Tail(w)
      BY <1>4, <2>1
    <3>2. /\ Tail(w) \in Seq(E) /\ Len(Tail(w)) = Len(w) - 1
          /\ \A i \in 1..Len(Tail(w)) : Tail(w)[i] = w[i + 1]
      BY <1>4, <3>1, HeadTailProperties
    <3> HIDE DEF kept
    <3> QED
      BY <1>4, <2>1, <3>1, <3>2
  <2>2. CASE Len(w) # WindowSize
    <3>1. kept = w
      BY <2>2
    <3> HIDE DEF kept
    <3> QED
      BY <1>4, <3>1
  <2> QED
    BY <2>1, <2>2
<1> HIDE DEF kept
<1>7. PICK s \in {0, 1} : /\ Len(w) - s \in Nat /\ kept \in Seq(E) /\ Len(kept) = Len(w) - s
                          /\ \A i \in 1..(Len(w) - s) : kept[i] = w[i + s]
  BY <1>6
<1>8. /\ Append(kept, e) \in Seq(E)
      /\ Len(Append(kept, e)) = Len(kept) + 1 /\ Append(kept, e)[Len(kept) + 1] = e
      /\ \A i \in 1..Len(kept) : Append(kept, e)[i] = kept[i]
  BY <1>3, <1>7, AppendProperties
<1>9. DOMAIN windows'[k] = 1..(Len(w) - s + 1)
  BY <1>5, <1>7, <1>8
<1>10. /\ \A i \in 1..(Len(w) - s) : windows'[k][i] = w[i + s]
       /\ windows'[k][Len(w) - s + 1] = e
  BY <1>5, <1>7, <1>8
<1> QED
  BY <1>1, <1>2, <1>3, <1>5, <1>7, <1>9, <1>10 DEF w, e

\* A fingerprint is in the window at most as often as before, and once more
\* if the commit has it.
LEMMA InspectCount ==
    ASSUME BaseInv, NEW h \in Handler, Inspect(h), NEW k, k = KeyOf(req[h]), NEW f
    PROVE  /\ Cardinality(Occurrences(k, f)) \in Nat /\ Cardinality(Occurrences(k, f)') \in Nat
           /\ Cardinality(Occurrences(k, f)') <= Cardinality(Occurrences(k, f)) + 1
           /\ f # Fingerprint(req[h]) =>
                 Cardinality(Occurrences(k, f)') <= Cardinality(Occurrences(k, f))
<1>1. PICK s \in {0, 1} :
        /\ Len(windows[k]) - s \in Nat
        /\ DOMAIN windows'[k] = 1..(Len(windows[k]) - s + 1)
        /\ \A i \in 1..(Len(windows[k]) - s) : windows'[k][i] = windows[k][i + s]
        /\ windows'[k][Len(windows[k]) - s + 1] =
              [fingerprint |-> Fingerprint(req[h]), commit |-> req[h].commit,
               notice |-> req[h].notice]
  BY InspectWindow
<1>2. k \in Key
  BY InspectWindow
<1>3. /\ Len(windows[k]) \in Nat /\ DOMAIN windows[k] = 1..Len(windows[k])
      /\ IsFiniteSet(Occurrences(k, f)) /\ Cardinality(Occurrences(k, f)) \in Nat
  BY <1>2, WindowPlaces
<1>4. PICK last : last = Len(windows[k]) - s + 1
  OBVIOUS
<1>5. PICK O : O = Occurrences(k, f)'
  OBVIOUS
<1> DEFINE place == [i \in O \ {last} |-> i + s]
<1>6. O = {i \in 1..last : windows'[k][i].fingerprint = f}
  BY <1>1, <1>4, <1>5 DEF Occurrences
<1>7. place \in [O \ {last} -> Occurrences(k, f)]
  <2>1. ASSUME NEW i \in O \ {last} PROVE i + s \in Occurrences(k, f)
    <3>1. i \in 1..(Len(windows[k]) - s) /\ windows'[k][i].fingerprint = f
      BY <1>1, <1>4, <1>6, <2>1
    <3>2. i + s \in 1..Len(windows[k])
      BY <1>1, <1>3, <3>1
    <3> QED
      BY <1>1, <1>3, <3>1, <3>2 DEF Occurrences
  <2> QED
    BY <2>1
<1>8. \A i, j \in O \ {last} : place[i] = place[j] => i = j
  BY <1>1, <1>4, <1>6
<1> HIDE DEF place
<1>9. /\ IsFiniteSet(O \ {last}) /\ Cardinality(O \ {last}) \in Nat
      /\ Cardinality(O \ {last}) <= Cardinality(Occurrences(k, f))
  BY <1>3, <1>7, <1>8, CountInto
<1>10. /\ Cardinality((O \ {last}) \cup {last}) = Cardinality(O \ {last}) + 1
       /\ IsFiniteSet((O \ {last}) \cup {last})
  BY <1>9, FS_AddElement
<1>11. Cardinality(O) \in Nat /\ Cardinality(O) <= Cardinality(Occurrences(k, f)) + 1
  <2>1. CASE last \in O
    <3>1. O = (O \ {last}) \cup {last}
      BY <2>1
    <3>2. Cardinality(O) = Cardinality(O \ {last}) + 1
      BY <1>10, <3>1, Zenon
    <3> QED
      BY <1>3, <1>9, <3>2
  <2>2. CASE last \notin O
    <3>1. O = O \ {last}
      BY <2>2
    <3>2. Cardinality(O) = Cardinality(O \ {last})
      BY <3>1, Zenon
    <3> QED
      BY <1>3, <1>9, <3>2
  <2> QED
    BY <2>1, <2>2
<1>12. ASSUME f # Fingerprint(req[h]) PROVE Cardinality(O) <= Cardinality(Occurrences(k, f))
  <2>1. O = O \ {last}
    BY <1>1, <1>4, <1>6, <1>12
  <2> QED
    BY <1>9, <2>1
<1> QED
  BY <1>3, <1>5, <1>11, <1>12

\* A repetition that reaches the limit makes a warning, which suggests a
\* commit of another fingerprint that the window holds, if there is one.
LEMMA InspectVerdict ==
    ASSUME BaseInv, NEW h \in Handler, Inspect(h), NEW k, k = KeyOf(req[h]),
           NEW f, f = Fingerprint(req[h])
    PROVE  \/ /\ Cardinality(Occurrences(k, f)) + 1 < RepeatLimit
              /\ pc' = [pc EXCEPT ![h] = "idle"]
              /\ req' = [req EXCEPT ![h] = None]
           \/ /\ Cardinality(Occurrences(k, f)) + 1 >= RepeatLimit
              /\ pc' = [pc EXCEPT ![h] = "warn"]
              /\ \E w : /\ req' = [req EXCEPT ![h] = w]
                        /\ w.id = req[h].notice /\ w.key = k /\ w.fingerprint = f
                        /\ w.count = Cardinality(Occurrences(k, f)) + 1
                        /\ \/ w.suggested = None
                           \/ \E i \in DOMAIN windows[k] :
                                 /\ windows[k][i].fingerprint # f
                                 /\ w.suggested = windows[k][i].commit
<1> DEFINE same == Occurrences(k, f)
           others == DOMAIN windows[k] \ same
           suggested == IF others = {} THEN None ELSE windows[k][Max(others)].commit
           n == Cardinality(same) + 1
           w == [id |-> req[h].notice, key |-> k, fingerprint |-> f, count |-> n,
                 severity |-> SeverityForRepetitions(n), suggested |-> suggested]
<1>1. k \in Key
  BY InspectWindow
<1>2. Cardinality(same) \in Nat /\ RepeatLimit \in Nat
  BY <1>1, WindowPlaces, LimitsAssumption
<1>3. IF n < RepeatLimit
      THEN pc' = [pc EXCEPT ![h] = "idle"] /\ req' = [req EXCEPT ![h] = None]
      ELSE pc' = [pc EXCEPT ![h] = "warn"] /\ req' = [req EXCEPT ![h] = w]
  BY Zenon DEF Inspect, InspectIn, Done, Goto
<1>4. \/ suggested = None
      \/ \E i \in DOMAIN windows[k] : /\ windows[k][i].fingerprint # f
                                      /\ suggested = windows[k][i].commit
  <2>1. CASE others = {}
    BY <2>1
  <2>2. CASE others # {}
    <3>1. Len(windows[k]) \in Nat /\ others \in SUBSET (1..Len(windows[k]))
      BY <1>1, WindowPlaces
    <3>2. PICK i : i = Max(others)
      OBVIOUS
    <3>3. i \in others
      <4> HIDE DEF others
      <4> QED
        BY <2>2, <3>1, <3>2, MaxIn
    <3>4. windows[k][i].fingerprint # f /\ i \in DOMAIN windows[k]
      BY <3>3 DEF Occurrences
    <3>5. suggested = windows[k][i].commit
      BY <2>2, <3>2
    <3> HIDE DEF suggested
    <3> QED
      BY <3>4, <3>5
  <2> QED
    BY <2>1, <2>2
<1>5. /\ w.id = req[h].notice /\ w.key = k /\ w.fingerprint = f
      /\ w.count = n /\ w.suggested = suggested
  <2> HIDE DEF n, suggested
  <2> QED
    OBVIOUS
<1>6. CASE n < RepeatLimit
  BY <1>3, <1>6
<1>7. CASE ~(n < RepeatLimit)
  <2>1. n >= RepeatLimit /\ pc' = [pc EXCEPT ![h] = "warn"] /\ req' = [req EXCEPT ![h] = w]
    BY <1>2, <1>3, <1>7
  <2> HIDE DEF w, suggested
  <2> QED
    BY <1>4, <1>5, <2>1
<1> QED
  BY <1>6, <1>7

\* The commit inspected is stored as the request has it, and its inspection
\* is over afterwards.
LEMMA InspectCommit ==
    ASSUME BaseInv, CommitInv, AnnounceInv, NEW h \in Handler, Inspect(h),
           NEW c, c = req[h].commit, NEW n, n = req[h].notice
    PROVE  /\ store' = store /\ announced' = announced
           /\ c \in Repeats(KeyOf(req[h]), Fingerprint(req[h]))
           /\ n \in DOMAIN announced /\ announced[n] = c
           /\ Inspected(n)'
<1>1. /\ pc[h] = "inspect"
      /\ \E label, r : /\ label \in {"idle", "warn"}
                       /\ pc' = [pc EXCEPT ![h] = label] /\ req' = [req EXCEPT ![h] = r]
  BY InspectEffect
<1>2. store' = store /\ announced' = announced
  BY InspectEffect, Zenon DEF disk, history
<1>3. c \in Stored /\ store[c] = CommitOf(req[h])
  BY <1>1 DEF CommitInv, Persisting
<1>4. c \in Repeats(KeyOf(req[h]), Fingerprint(req[h]))
  BY <1>3 DEF Repeats, CommitOf, KeyOf, Fingerprint
<1>5. n \in DOMAIN announced /\ announced[n] = c
  BY <1>1 DEF AnnounceInv
<1>6. ASSUME NEW g \in Handler, pc'[g] = "inspect" PROVE req'[g].notice # n
  <2>1. pc \in [Handler -> Label] /\ req = [x \in Handler |-> req[x]]
    BY DEF BaseInv, Typed
  <2>2. g # h /\ pc[g] = "inspect" /\ req'[g] = req[g]
    BY <1>1, <1>6, <2>1
  <2> QED
    BY <1>1, <2>2 DEF AnnounceInv
<1>7. Inspected(n)'
  BY <1>2, <1>5, <1>6 DEF Inspected
<1> QED
  BY <1>2, <1>4, <1>5, <1>7

-----------------------------------------------------------------------------
(* Steps                                                                   *)

\* Every step keeps the announcements under inspection apart.
LEMMA AnnounceStep == BaseInv /\ AnnounceInv /\ [Next]_vars => AnnounceInv'
<1> SUFFICES ASSUME BaseInv, AnnounceInv, [Next]_vars PROVE AnnounceInv'
  OBVIOUS
<1>1. CASE \A h \in Handler : ~Announce(h)
  BY <1>1, InspectKept DEF AnnounceInv
<1>2. ASSUME NEW h \in Handler, Announce(h) PROVE AnnounceInv'
  <2>1. /\ Len(announced) \in Nat /\ DOMAIN announced = 1..Len(announced)
        /\ DOMAIN announced' = 1..(Len(announced) + 1)
        /\ \A n \in DOMAIN announced : announced'[n] = announced[n]
        /\ announced'[Len(announced) + 1] = req[h].commit
    BY <1>2, AnnounceLast
  <2>2. /\ pc'[h] = "inspect" /\ req'[h].notice = Len(announced) + 1
        /\ req'[h].commit = req[h].commit
        /\ \A g \in Handler \ {h} : pc'[g] = pc[g] /\ req'[g] = req[g]
    BY <1>2, AnnounceLast
  <2>3. \A g \in Handler \ {h} : pc'[g] = "inspect" =>
            /\ req'[g].notice \in 1..Len(announced)
            /\ announced'[req'[g].notice] = req'[g].commit
    BY <2>1, <2>2 DEF AnnounceInv
  <2>4. \A f, g \in Handler \ {h} :
            pc'[f] = "inspect" /\ pc'[g] = "inspect" /\ req'[f].notice = req'[g].notice => f = g
    BY <2>2 DEF AnnounceInv
  <2>5. \A g \in Handler : pc'[g] = "inspect" =>
            /\ req'[g].notice \in DOMAIN announced'
            /\ announced'[req'[g].notice] = req'[g].commit
    BY <2>1, <2>2, <2>3
  <2>6. \A f, g \in Handler :
            pc'[f] = "inspect" /\ pc'[g] = "inspect" /\ req'[f].notice = req'[g].notice => f = g
    BY <2>1, <2>2, <2>3, <2>4
  <2> QED
    BY <2>5, <2>6 DEF AnnounceInv
<1> QED
  BY <1>1, <1>2

\* Every step keeps what the windows hold true.
LEMMA EntryStep == BaseInv /\ CommitInv /\ LoopInv /\ [Next]_vars => EntryInv'
<1> SUFFICES ASSUME BaseInv, CommitInv, LoopInv, [Next]_vars PROVE EntryInv'
  OBVIOUS
<1>0. EntryInv /\ AnnounceInv /\ metrics \in Metric
  BY DEF LoopInv, WarnInv, Metric
<1> DEFINE True(k, e) == /\ Inspected(e.notice) /\ announced[e.notice] = e.commit
                         /\ e.commit \in Repeats(k, e.fingerprint)
\* An entry that was there before stays true.
<1>k. ASSUME NEW k \in Key, NEW i \in DOMAIN windows[k]
      PROVE  /\ Inspected(windows[k][i].notice)
             /\ \A e : e = windows[k][i] => True(k, e)'
  <2>1. PICK e : e = windows[k][i]
    OBVIOUS
  <2>2. PICK c, f, n : c = e.commit /\ f = e.fingerprint /\ n = e.notice
    OBVIOUS
  <2>3. Inspected(n) /\ announced[n] = c /\ c \in Repeats(k, f)
    BY <1>0, <2>1, <2>2 DEF EntryInv
  <2>4. Inspected(n)' /\ announced'[n] = c
    BY <2>3, InspectedStays
  <2>5. c \in Repeats(k, f)'
    BY <2>3, RepeatsStay
  <2> QED
    BY <2>1, <2>2, <2>3, <2>4, <2>5
<1> HIDE DEF True
<1>g. ASSUME \A k \in Key : \A i \in DOMAIN windows'[k] :
                /\ \A e : e = windows'[k][i] => True(k, e)'
                /\ \A j \in DOMAIN windows'[k] : windows'[k][j].notice = windows'[k][i].notice => j = i
      PROVE  EntryInv'
  <2> SUFFICES ASSUME NEW k \in Key, NEW i \in DOMAIN windows'[k]
               PROVE  /\ Inspected(windows[k][i].notice)'
                      /\ announced'[windows'[k][i].notice] = windows'[k][i].commit
                      /\ (windows[k][i].commit \in Repeats(k, windows[k][i].fingerprint))'
                      /\ \A j \in DOMAIN windows'[k] :
                            windows'[k][j].notice = windows'[k][i].notice => j = i
    BY DEF EntryInv
  <2>1. PICK e : e = windows'[k][i]
    OBVIOUS
  <2>2. True(k, e)'
    BY <1>g, <2>1
  <2> QED
    BY <1>g, <2>1, <2>2 DEF True
<1>1. CASE windows' = windows
  <2>1. \A k \in Key : \A i \in DOMAIN windows'[k] : \A e : e = windows'[k][i] => True(k, e)'
    BY <1>1, <1>k
  <2>2. \A k \in Key : \A i, j \in DOMAIN windows'[k] :
            windows'[k][j].notice = windows'[k][i].notice => j = i
    BY <1>0, <1>1 DEF EntryInv
  <2> QED
    BY <2>1, <2>2, <1>g
<1>2. CASE Restart
  <2>1. \A k \in Key : DOMAIN windows'[k] = {}
    BY <1>2 DEF Restart, NoWindows
  <2> QED
    BY <2>1 DEF EntryInv
<1>3. ASSUME NEW h \in Handler, Inspect(h) PROVE EntryInv'
  <2>1. PICK k, f, c, n : /\ k = KeyOf(req[h]) /\ f = Fingerprint(req[h])
                          /\ c = req[h].commit /\ n = req[h].notice
    OBVIOUS
  <2>1a. PICK new : new = [fingerprint |-> f, commit |-> c, notice |-> n]
    OBVIOUS
  <2>2. /\ pc[h] = "inspect" /\ k \in Key
        /\ \A l \in Key \ {k} : windows'[l] = windows[l]
    BY <1>3, <2>1, InspectWindow
  <2>3. PICK s \in {0, 1} :
          /\ Len(windows[k]) - s \in Nat
          /\ DOMAIN windows'[k] = 1..(Len(windows[k]) - s + 1)
          /\ \A i \in 1..(Len(windows[k]) - s) : windows'[k][i] = windows[k][i + s]
          /\ windows'[k][Len(windows[k]) - s + 1] = new
    BY <1>3, <2>1, <2>1a, InspectWindow
  <2>4. PICK last : last = Len(windows[k]) - s + 1
    OBVIOUS
  <2>5. DOMAIN windows[k] = 1..Len(windows[k]) /\ Len(windows[k]) \in Nat
    BY <2>2, WindowPlaces
  <2>6. True(k, new)'
    <3>1. c \in Repeats(k, f) /\ Inspected(n)' /\ announced[n] = c /\ announced' = announced
      BY <1>0, <1>3, <2>1, InspectCommit
    <3>2. c \in Repeats(k, f)'
      BY <3>1, RepeatsStay
    <3>3. new.fingerprint = f /\ new.commit = c /\ new.notice = n
      BY <2>1a
    <3> QED
      BY <3>1, <3>2, <3>3 DEF True
  <2>7. \A i \in DOMAIN windows[k] : windows[k][i].notice # n
    BY <1>k, <2>1, <2>2 DEF Inspected
  <2>8. \A i \in DOMAIN windows'[k] :
          \/ i = last
          \/ i + s \in DOMAIN windows[k] /\ windows'[k][i] = windows[k][i + s]
    <3> SUFFICES ASSUME NEW i \in DOMAIN windows'[k], i # last
                 PROVE  i + s \in DOMAIN windows[k] /\ windows'[k][i] = windows[k][i + s]
      OBVIOUS
    <3>1. i \in 1..(Len(windows[k]) - s)
      BY <2>3, <2>4, <2>5
    <3>2. i + s \in 1..Len(windows[k])
      BY <2>3, <2>5, <3>1
    <3> QED
      BY <2>3, <2>5, <3>1, <3>2
  <2>9. windows'[k][last] = new /\ new.notice = n
    BY <2>1a, <2>3, <2>4
  <2>10. ASSUME NEW l \in Key, NEW i \in DOMAIN windows'[l]
         PROVE  \A e : e = windows'[l][i] => True(l, e)'
    <3>1. CASE l # k
      BY <1>k, <2>2, <3>1
    <3>2. CASE l = k /\ i = last
      BY <2>6, <2>9, <3>2
    <3>3. CASE l = k /\ i # last
      BY <1>k, <2>2, <2>8, <3>3
    <3> QED
      BY <3>1, <3>2, <3>3
  <2>11. ASSUME NEW l \in Key, NEW i \in DOMAIN windows'[l],
                NEW j \in DOMAIN windows'[l], windows'[l][j].notice = windows'[l][i].notice
         PROVE  j = i
    <3>1. CASE l # k
      BY <1>0, <2>2, <2>11, <3>1 DEF EntryInv
    <3>2. CASE l = k
      <4>1. i \in Int /\ j \in Int /\ s \in Int
        BY <2>3, <2>5, <2>11, <3>2
      <4>2. CASE i = last \/ j = last
        BY <2>7, <2>8, <2>9, <2>11, <3>2, <4>2
      <4>3. CASE i # last /\ j # last
        <5>1. /\ i + s \in DOMAIN windows[k] /\ j + s \in DOMAIN windows[k]
              /\ windows[k][i + s].notice = windows[k][j + s].notice
          BY <2>8, <2>11, <3>2, <4>3
        <5>2. i + s = j + s
          BY <1>0, <2>2, <5>1 DEF EntryInv
        <5> QED
          BY <4>1, <5>2
      <4> QED
        BY <4>2, <4>3
    <3> QED
      BY <3>1, <3>2
  <2> QED
    BY <2>10, <2>11, <1>g
<1>4. ASSUME NEW h \in Handler, AppendWarning(h) PROVE windows' = windows
  BY <1>4 DEF AppendWarning, memory
<1>5. ASSUME ~Restart, \A h \in Handler : ~Inspect(h) /\ ~AppendWarning(h) PROVE windows' = windows
  BY <1>0, <1>5, LoopKept
<1> QED
  BY <1>1, <1>2, <1>3, <1>4, <1>5

\* Every step keeps warnings true and apart.
LEMMA WarnStep == BaseInv /\ CommitInv /\ LoopInv /\ [Next]_vars => WarnInv'
<1> SUFFICES ASSUME BaseInv, CommitInv, LoopInv, [Next]_vars PROVE WarnInv'
  OBVIOUS
<1>0. /\ AnnounceInv /\ EntryInv /\ WarnInv /\ metrics \in Metric
      /\ pc \in [Handler -> Label] /\ req = [h \in Handler |-> req[h]]
      /\ Cardinality(warnings) \in Nat
  BY FS_CardinalityType DEF LoopInv, WarnInv, Metric, BaseInv, Typed
<1>k. \A w : RealWarning(w) /\ Inspected(w.id) => RealWarning(w)' /\ Inspected(w.id)'
  <2> SUFFICES ASSUME NEW w, RealWarning(w), Inspected(w.id) PROVE RealWarning(w)' /\ Inspected(w.id)'
    OBVIOUS
  <2> QED
    BY RealStays, InspectedStays
\* Nothing changes here when the tables stay and no handler gets a warning.
<1>m. ASSUME warnings' = warnings, metrics' \in Metric, metrics'.loops = metrics.loops,
             \A g \in Handler : pc'[g] = "warn" => pc[g] = "warn" /\ req'[g] = req[g]
      PROVE  WarnInv'
  <2>1. /\ IsFiniteSet(warnings') /\ metrics'.loops <= Cardinality(warnings')
        /\ metrics' \in [artifacts : Nat, commits : Nat, loops : Nat]
    BY <1>0, <1>m DEF WarnInv, Metric
  <2>2. \A w \in warnings' : RealWarning(w)' /\ Inspected(w.id)'
    BY <1>0, <1>k, <1>m DEF WarnInv
  <2>3. ASSUME NEW h \in Handler, pc'[h] = "warn"
        PROVE  /\ RealWarning(req[h])' /\ Inspected(req[h].id)'
               /\ \A w \in warnings' : w.id # req'[h].id
               /\ \A g \in Handler : pc'[g] = "warn" /\ req'[g].id = req'[h].id => g = h
    <3>1. PICK w : w = req[h]
      OBVIOUS
    <3>2. pc[h] = "warn" /\ req'[h] = w
      BY <1>m, <2>3, <3>1
    <3>3. RealWarning(w)' /\ Inspected(w.id)'
      BY <1>0, <1>k, <3>1, <3>2 DEF WarnInv
    <3> QED
      BY <1>0, <1>m, <3>1, <3>2, <3>3 DEF WarnInv
  <2> QED
    BY <2>1, <2>2, <2>3 DEF WarnInv
<1>1. CASE ~Restart /\ \A h \in Handler : ~Inspect(h) /\ ~AppendWarning(h)
  BY <1>0, <1>1, <1>m, LoopKept
<1>2. CASE Restart
  <2>1. /\ warnings' = warnings /\ metrics' = [artifacts |-> 0, commits |-> 0, loops |-> 0]
        /\ \A g \in Handler : pc'[g] # "warn"
    BY <1>2 DEF Restart, disk, NoMetrics, AllIdle
  <2>2. IsFiniteSet(warnings') /\ metrics'.loops <= Cardinality(warnings')
        /\ metrics' \in [artifacts : Nat, commits : Nat, loops : Nat]
    BY <1>0, <2>1 DEF WarnInv
  <2>3. \A w \in warnings' : RealWarning(w)' /\ Inspected(w.id)'
    BY <1>0, <1>k, <2>1 DEF WarnInv
  <2> QED
    BY <2>1, <2>2, <2>3 DEF WarnInv
<1>3. ASSUME NEW h \in Handler, Inspect(h) PROVE WarnInv'
  <2>1. PICK k, f, c, n : /\ k = KeyOf(req[h]) /\ f = Fingerprint(req[h])
                          /\ c = req[h].commit /\ n = req[h].notice
    OBVIOUS
  <2>2. pc[h] = "inspect" /\ k \in Key
    BY <1>3, <2>1, InspectWindow
  <2>3. n \in Announcements(k, f) /\ Inspected(n)'
    <3>1. /\ c \in Repeats(k, f) /\ n \in DOMAIN announced /\ announced[n] = c
          /\ Inspected(n)'
      BY <1>0, <1>3, <2>1, InspectCommit
    <3> QED
      BY <3>1 DEF Announcements
  <2>4. UNCHANGED <<warnings, metrics>>
    BY <1>3, InspectEffect DEF disk
  <2>5. CASE pc' = [pc EXCEPT ![h] = "idle"] /\ req' = [req EXCEPT ![h] = None]
    BY <1>0, <1>m, <2>4, <2>5
  <2>6. CASE ~(pc' = [pc EXCEPT ![h] = "idle"] /\ req' = [req EXCEPT ![h] = None])
    <3>1. /\ Cardinality(Occurrences(k, f)) + 1 >= RepeatLimit
          /\ pc' = [pc EXCEPT ![h] = "warn"]
          /\ \E w : /\ req' = [req EXCEPT ![h] = w]
                    /\ w.id = n /\ w.key = k /\ w.fingerprint = f
                    /\ w.count = Cardinality(Occurrences(k, f)) + 1
                    /\ \/ w.suggested = None
                       \/ \E i \in DOMAIN windows[k] :
                             /\ windows[k][i].fingerprint # f
                             /\ w.suggested = windows[k][i].commit
      BY <1>3, <2>1, <2>6, InspectVerdict
    <3>2. PICK w : /\ req' = [req EXCEPT ![h] = w]
                   /\ w.id = n /\ w.key = k /\ w.fingerprint = f
                   /\ w.count = Cardinality(Occurrences(k, f)) + 1
                   /\ \/ w.suggested = None
                      \/ \E i \in DOMAIN windows[k] :
                            /\ windows[k][i].fingerprint # f
                            /\ w.suggested = windows[k][i].commit
      BY <3>1
    <3>3. \A i \in DOMAIN windows[k] : windows[k][i].notice # n
      BY <1>0, <2>1, <2>2 DEF EntryInv, Inspected
    <3>4. w.count \in RepeatLimit..Cardinality(Announcements(w.key, w.fingerprint))
      <4>1. Cardinality(Occurrences(k, f)) + 1 <= Cardinality(Announcements(k, f))
        BY <1>0, <2>2, <2>3, <3>3, OccurrencesAnnounced
      <4>2. Cardinality(Occurrences(k, f)) \in Nat /\ Cardinality(Announcements(k, f)) \in Nat
        BY <2>2, WindowPlaces, AnnouncementsFinite
      <4> QED
        BY <3>1, <3>2, <4>1, <4>2, LimitsAssumption
    <3>5. ASSUME w.suggested # None
          PROVE  /\ w.suggested \in Stored /\ KeyOf(store[w.suggested]) = w.key
                 /\ w.suggested \notin Repeats(w.key, w.fingerprint)
      <4>1. PICK i \in DOMAIN windows[k] : /\ windows[k][i].fingerprint # f
                                           /\ w.suggested = windows[k][i].commit
        BY <3>2, <3>5
      <4>2. w.suggested \in Repeats(k, windows[k][i].fingerprint)
        BY <1>0, <2>2, <4>1 DEF EntryInv
      <4> QED
        BY <3>2, <4>1, <4>2 DEF Repeats
    <3>6. RealWarning(w)'
      BY <3>4, <3>5, RealStays DEF RealWarning
    <3>7. pc'[h] = "warn" /\ req'[h] = w
      BY <1>0, <3>1, <3>2
    <3>8. \A g \in Handler \ {h} : pc'[g] = "warn" => pc[g] = "warn" /\ req'[g] = req[g]
      BY <1>0, <3>1, <3>2
    <3>9. \A v \in warnings' : RealWarning(v)' /\ Inspected(v.id)'
      BY <1>0, <1>k, <2>4 DEF WarnInv
    <3>10. \A v \in warnings' : v.id # n
      BY <1>0, <2>1, <2>2, <2>4 DEF WarnInv, Inspected
    <3>11. \A g \in Handler \ {h} : pc'[g] = "warn" =>
              /\ req'[g].id # n
              /\ \E v : v = req'[g] /\ RealWarning(v)' /\ Inspected(v.id)'
              /\ \A v \in warnings' : v.id # req'[g].id
              /\ \A x \in Handler \ {h} : pc'[x] = "warn" /\ req'[x].id = req'[g].id => x = g
      <4> SUFFICES ASSUME NEW g \in Handler \ {h}, pc'[g] = "warn"
                   PROVE  /\ req'[g].id # n
                          /\ \E v : v = req'[g] /\ RealWarning(v)' /\ Inspected(v.id)'
                          /\ \A v \in warnings' : v.id # req'[g].id
                          /\ \A x \in Handler \ {h} : pc'[x] = "warn" /\ req'[x].id = req'[g].id => x = g
        OBVIOUS
      <4>1. PICK v : v = req[g]
        OBVIOUS
      <4>2. pc[g] = "warn" /\ req'[g] = v
        BY <3>8, <4>1
      <4>3. RealWarning(v) /\ Inspected(v.id)
        BY <1>0, <4>1, <4>2 DEF WarnInv
      <4>4. v.id # n
        BY <2>1, <2>2, <4>3 DEF Inspected
      <4> QED
        BY <1>0, <1>k, <2>4, <3>8, <4>1, <4>2, <4>3, <4>4 DEF WarnInv
    <3>12. \A g \in Handler : pc'[g] = "warn" =>
              /\ RealWarning(req[g])' /\ Inspected(req[g].id)'
              /\ \A v \in warnings' : v.id # req'[g].id
              /\ \A x \in Handler : pc'[x] = "warn" /\ req'[x].id = req'[g].id => x = g
      BY <2>3, <3>2, <3>6, <3>7, <3>10, <3>11
    <3> QED
      BY <1>0, <2>4, <3>9, <3>12 DEF WarnInv
  <2> QED
    BY <2>5, <2>6
<1>4. ASSUME NEW h \in Handler, AppendWarning(h) PROVE WarnInv'
  <2>1. PICK w : w = req[h]
    OBVIOUS
  <2>2. /\ pc[h] = "warn" /\ warnings' = warnings \cup {w}
        /\ pc' = [pc EXCEPT ![h] = "tell"] /\ req' = req
        /\ metrics' = [metrics EXCEPT !.loops = @ + 1]
    BY <1>4, <2>1 DEF AppendWarning, Goto, Count
  <2>3. /\ RealWarning(w)' /\ Inspected(w.id)' /\ w \notin warnings
    BY <1>0, <1>k, <2>1, <2>2 DEF WarnInv
  <2>4. IsFiniteSet(warnings') /\ Cardinality(warnings') = Cardinality(warnings) + 1
    BY <1>0, <2>2, <2>3, FS_AddElement DEF WarnInv
  <2>5. /\ metrics' \in [artifacts : Nat, commits : Nat, loops : Nat]
        /\ metrics'.loops = metrics.loops + 1 /\ metrics.loops \in Nat
    BY <1>0, <2>2 DEF Metric
  <2>6. metrics'.loops <= Cardinality(warnings')
    BY <1>0, <2>4, <2>5 DEF WarnInv
  <2>7. \A v \in warnings' : RealWarning(v)' /\ Inspected(v.id)'
    BY <1>0, <1>k, <2>2, <2>3 DEF WarnInv
  <2>8. \A g \in Handler : pc'[g] = "warn" =>
           /\ RealWarning(req[g])' /\ Inspected(req[g].id)'
           /\ \A v \in warnings' : v.id # req'[g].id
           /\ \A x \in Handler : pc'[x] = "warn" /\ req'[x].id = req'[g].id => x = g
    <3> SUFFICES ASSUME NEW g \in Handler, pc'[g] = "warn"
                 PROVE  /\ RealWarning(req[g])' /\ Inspected(req[g].id)'
                        /\ \A v \in warnings' : v.id # req'[g].id
                        /\ \A x \in Handler : pc'[x] = "warn" /\ req'[x].id = req'[g].id => x = g
      OBVIOUS
    <3>1. PICK v : v = req[g]
      OBVIOUS
    <3>2. g # h /\ pc[g] = "warn" /\ req'[g] = v
      BY <1>0, <2>2, <3>1
    <3>3. RealWarning(v)' /\ Inspected(v.id)'
      BY <1>0, <1>k, <3>1, <3>2 DEF WarnInv
    <3>4. v.id # w.id
      BY <1>0, <2>1, <2>2, <3>1, <3>2 DEF WarnInv
    <3>5. \A x \in Handler : pc'[x] = "warn" => pc[x] = "warn" /\ req'[x] = req[x]
      BY <1>0, <2>2
    <3>6. \A x \in Handler : pc'[x] = "warn" /\ req'[x].id = req'[g].id => x = g
      BY <1>0, <3>1, <3>2, <3>5 DEF WarnInv
    <3>7. \A y \in warnings' : y.id # v.id
      BY <1>0, <2>2, <3>1, <3>2, <3>4 DEF WarnInv
    <3> QED
      BY <3>2, <3>3, <3>6, <3>7
  <2> QED
    BY <2>4, <2>5, <2>6, <2>7, <2>8 DEF WarnInv
<1> QED
  BY <1>1, <1>2, <1>3, <1>4

\* Every step leaves what repeats warned of.
LEMMA RepeatsStep == BaseInv /\ CommitInv /\ LoopInv /\ [Next]_vars => RepeatsWarned'
<1> SUFFICES ASSUME BaseInv, CommitInv, LoopInv, [Next]_vars PROVE RepeatsWarned'
  OBVIOUS
<1> DEFINE Warned(k, f) ==
             \/ \E w \in warnings : w.key = k /\ w.fingerprint = f
             \/ \E h \in Handler : pc[h] = "warn" /\ req[h].key = k /\ req[h].fingerprint = f
             \/ <<k, f>> \in unstored
<1>0. /\ metrics \in Metric /\ pc \in [Handler -> Label] /\ req = [h \in Handler |-> req[h]]
      /\ RepeatLimit \in Nat \ {0}
  BY LimitsAssumption DEF LoopInv, WarnInv, Metric, BaseInv, Typed
\* A fingerprint that is often in a window is in it.
<1>k. ASSUME NEW k \in Key, NEW f, Cardinality(Occurrences(k, f)) >= RepeatLimit
      PROVE  Warned(k, f)
  <2>1. IsFiniteSet(Occurrences(k, f))
    BY WindowPlaces
  <2>2. Occurrences(k, f) # {}
    BY <1>0, <1>k, <2>1, FS_EmptySet
  <2>3. PICK i \in DOMAIN windows[k] : windows[k][i].fingerprint = f
    BY <2>2 DEF Occurrences
  <2> QED
    BY <1>k, <2>3 DEF LoopInv, RepeatsWarned
<1>g. SUFFICES ASSUME NEW k \in Key, NEW f, Cardinality(Occurrences(k, f)') >= RepeatLimit,
                      NEW i \in DOMAIN windows'[k], f = windows'[k][i].fingerprint
               PROVE  Warned(k, f)'
  <2> SUFFICES ASSUME NEW k \in Key, NEW i \in DOMAIN windows'[k],
                      Cardinality(Occurrences(k, windows[k][i].fingerprint)') >= RepeatLimit
               PROVE  Warned(k, windows[k][i].fingerprint)'
    BY DEF RepeatsWarned
  <2>1. PICK f : f = windows'[k][i].fingerprint
    OBVIOUS
  <2>2. Cardinality(Occurrences(k, f)') >= RepeatLimit
    BY <2>1
  <2>3. Warned(k, f)'
    BY <1>g, <2>1, <2>2
  <2> QED
    BY <2>1, <2>3
<1>1. ASSUME ~Restart, \A h \in Handler : ~Inspect(h) /\ ~AppendWarning(h) PROVE Warned(k, f)'
  <2>1. /\ UNCHANGED <<windows, warnings>> /\ unstored \subseteq unstored'
        /\ \A g \in Handler :
              pc[g] = "warn" => \/ pc'[g] = "warn" /\ req'[g] = req[g]
                                \/ <<req[g].key, req[g].fingerprint>> \in unstored'
    BY <1>0, <1>1, LoopKept
  <2>2. Occurrences(k, f)' = Occurrences(k, f)
    BY <2>1 DEF Occurrences
  <2>3. Warned(k, f)
    BY <1>g, <1>k, <2>2
  <2> QED
    BY <2>1, <2>3
<1>2. CASE Restart
  <2>1. DOMAIN windows'[k] = {}
    BY <1>2 DEF Restart, NoWindows
  <2> QED
    BY <1>g, <2>1
<1>3. ASSUME NEW h \in Handler, AppendWarning(h) PROVE Warned(k, f)'
  <2>1. /\ UNCHANGED <<windows, unstored, req>> /\ warnings' = warnings \cup {req[h]}
        /\ pc' = [pc EXCEPT ![h] = "tell"]
    BY <1>3 DEF AppendWarning, Goto, memory, history
  <2>2. Occurrences(k, f)' = Occurrences(k, f)
    BY <2>1 DEF Occurrences
  <2>3. Warned(k, f)
    BY <1>g, <1>k, <2>2
  <2> QED
    BY <1>0, <2>1, <2>3
<1>4. ASSUME NEW h \in Handler, Inspect(h) PROVE Warned(k, f)'
  <2>1. PICK kh, fh : kh = KeyOf(req[h]) /\ fh = Fingerprint(req[h])
    OBVIOUS
  <2>2. /\ UNCHANGED <<warnings, unstored>> /\ pc[h] = "inspect"
        /\ \E label, r : /\ label \in {"idle", "warn"}
                         /\ pc' = [pc EXCEPT ![h] = label] /\ req' = [req EXCEPT ![h] = r]
    BY <1>4, InspectEffect, Zenon DEF disk, history
  <2>3. ASSUME Warned(k, f) PROVE Warned(k, f)'
    BY <1>0, <2>2, <2>3
  <2>4. CASE k # kh
    <3>1. \A l \in Key \ {kh} : windows'[l] = windows[l]
      BY <1>4, <2>1, InspectWindow
    <3>2. Occurrences(k, f)' = Occurrences(k, f)
      BY <2>4, <3>1 DEF Occurrences
    <3> QED
      BY <1>g, <1>k, <2>3, <3>2
  <2>5. CASE k = kh /\ f # fh
    <3>1. /\ Cardinality(Occurrences(k, f)) \in Nat /\ Cardinality(Occurrences(k, f)') \in Nat
          /\ Cardinality(Occurrences(k, f)') <= Cardinality(Occurrences(k, f))
      BY <1>4, <2>1, <2>5, InspectCount
    <3>2. Cardinality(Occurrences(k, f)) >= RepeatLimit
      BY <1>0, <1>g, <3>1
    <3> QED
      BY <1>k, <2>3, <3>2
  <2>6. CASE k = kh /\ f = fh
    <3>1. /\ Cardinality(Occurrences(k, f)) \in Nat /\ Cardinality(Occurrences(k, f)') \in Nat
          /\ Cardinality(Occurrences(k, f)') <= Cardinality(Occurrences(k, f)) + 1
      BY <1>4, <2>1, <2>6, InspectCount
    <3>2. ~(Cardinality(Occurrences(k, f)) + 1 < RepeatLimit)
      BY <1>0, <1>g, <3>1
    <3>3. /\ pc' = [pc EXCEPT ![h] = "warn"]
          /\ \E w : req' = [req EXCEPT ![h] = w] /\ w.key = k /\ w.fingerprint = f
      BY <1>4, <2>1, <2>6, <3>2, InspectVerdict
    <3> QED
      BY <1>0, <3>3
  <2> QED
    BY <2>4, <2>5, <2>6
<1> QED
  BY <1>1, <1>2, <1>3, <1>4

-----------------------------------------------------------------------------
(* Theorems                                                                *)

\* The invariant holds for good.
LEMMA LoopInvariant == Spec => []LoopInv
<1>1. Init => LoopInv
  <2> SUFFICES ASSUME Init PROVE LoopInv
    OBVIOUS
  <2>1. /\ windows = [k \in Key |-> <<>>] /\ warnings = {} /\ \A h \in Handler : pc[h] = "idle"
        /\ metrics = [artifacts |-> 0, commits |-> 0, loops |-> 0]
    BY DEF Init, NoWindows, AllIdle, NoMetrics
  <2>2. IsFiniteSet({}) /\ Cardinality({}) = 0
    BY FS_EmptySet
  <2>3. \A k \in Key : DOMAIN windows[k] = {}
    BY <2>1
  <2>4. AnnounceInv /\ EntryInv /\ RepeatsWarned
    BY <2>1, <2>3 DEF AnnounceInv, EntryInv, RepeatsWarned
  <2>5. WarnInv
    BY <2>1, <2>2 DEF WarnInv
  <2> QED
    BY <2>4, <2>5 DEF LoopInv
<1>2. ServiceInv /\ LoopInv /\ [Next]_vars => LoopInv'
  BY AnnounceStep, EntryStep, WarnStep, RepeatsStep DEF ServiceInv, LoopInv
<1> QED
  BY <1>1, <1>2, ServiceInvariant, PTL DEF Spec

\* What a warning of the loop detector counts was announced as often, each
\* time of a commit with its fingerprint that is stored by then, and the
\* commit it suggests to go back to is another one of the same agent and
\* channel, wherever requests interleave, fail or lose the windows to a
\* restart; loop_warnings_total is never too high.  A delta that its client
\* sends again has the commit it had and is announced and counted again, so
\* the commits may be fewer than the count.
THEOREM ServiceWarnings == Spec => []WarningsAreReal
<1>1. LoopInv => WarningsAreReal
  BY DEF LoopInv, WarnInv, WarningsAreReal
<1> QED
  BY <1>1, LoopInvariant, PTL

\* No repetition passes unseen: what LoopDetector::inspect finds in its
\* window as often as makes a warning has one stored, about to be stored, or
\* lost to an error of SQLite.
THEOREM ServiceRepeats == Spec => []RepeatsWarned
<1>1. LoopInv => RepeatsWarned
  BY DEF LoopInv
<1> QED
  BY <1>1, LoopInvariant, PTL
=============================================================================
