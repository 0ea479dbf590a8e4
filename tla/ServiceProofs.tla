---------------------------- MODULE ServiceProofs ----------------------------
(***************************************************************************)
(* Proofs about Service for every number of handlers, agents, contents,    *)
(* requests and faults.                                                    *)
(***************************************************************************)
EXTENDS Service, FiniteSetTheorems, TLAPS

Asked == [agent : Agent, chan : Channel, content : Content, context : Context,
          parents : SUBSET Commits, delta : Delta \cup {None}, durable : BOOLEAN]
Made  == [agent : Agent, chan : Channel, content : Content, context : Context,
          parents : SUBSET Commits, delta : Delta \cup {None}, durable : BOOLEAN,
          form : Form \cup {None}, commit : Commits, notice : Nat]

\* Where a request is after redaction, and where its commit has an id.
Preparing   == {"file", "fill", "row", "route", "notice"}
Persisting  == {"persist", "head", "announce", "inspect"}
Registering == {"online", "count", "gauge"}

Label == {"idle", "online", "count", "gauge", "prepare", "file", "fill", "row", "route", "notice",
          "persist", "head", "announce", "inspect", "warn", "tell"}

-----------------------------------------------------------------------------
(* The inductive invariant                                                 *)

\* What the variables range over.
Typed ==
    /\ store \in [Commits -> Commit \cup {None}]
    /\ heads \in [Key -> Commits \cup {None}]
    /\ files \in [Content -> Form \cup {None, "torn"}]
    /\ rows \in [Content -> Form \cup {None}]
    /\ form \in Form
    /\ presence \subseteq Agent
    /\ minted \in Seq(Commit) /\ Len(minted) <= MaxRequests
    /\ announced \in Seq(Commits)
    /\ pc \in [Handler -> Label]
    /\ req = [h \in Handler |-> req[h]]
    /\ grants = [a \in Agent |-> grants[a]]

\* What a handler holds.
RequestInv ==
    \A h \in Handler :
        /\ pc[h] \in Registering => req[h].agent \in Agent
        /\ pc[h] = "prepare" => req[h] \in Asked
        /\ pc[h] \in Preparing => req[h] \in Asked /\ Clean[req[h].content] = req[h].content
        /\ pc[h] \in Persisting => req[h] \in Made /\ Clean[req[h].content] = req[h].content

\* The windows are no longer than they may be.
WindowInv ==
    /\ windows \in [Key -> Seq([fingerprint : Fingerprints, commit : Commits, notice : Nat])]
    /\ \A k \in Key : Len(windows[k]) <= WindowSize

BaseInv == Typed /\ RequestInv /\ WindowInv

\* An id names one commit for good, stored or not: a handler that is about
\* to store its commit finds the place empty or the same commit there.
CommitInv ==
    /\ \A c \in Stored : c \in DOMAIN minted /\ store[c] = minted[c]
    /\ \A h \in Handler : pc[h] \in Persisting =>
          /\ req[h].commit \in DOMAIN minted
          /\ minted[req[h].commit] = CommitOf(req[h])
          /\ pc[h] # "persist" => req[h].commit \in Stored

\* Heads and parents are stored, and so are the parents a request has.
ParentInv ==
    /\ \A c \in Stored : store[c].parents \subseteq Stored
    /\ \A k \in Key : heads[k] # None => heads[k] \in Stored
    /\ \A h \in Handler : pc[h] \in {"prepare"} \cup Preparing \cup Persisting =>
          req[h].parents \subseteq Stored

\* What is told is true, and a warning about to be told is stored.
NoticeInv ==
    /\ NoticesTrue
    /\ \A h \in Handler : pc[h] = "tell" => req[h] \in warnings

\* The row of an artifact names the form of its file, but for puts under way
\* or cut short.  A handler that has written a file and not its row finds
\* the file as it left it, unless somebody writes it again or failed to.
PutInv ==
    /\ \A c \in Content : rows[c] # None => Readable(c) \/ Putting(c) # {} \/ c \in spoiled
    /\ \A h \in Handler : pc[h] = "row" =>
          \/ files[req[h].content] = form
          \/ req[h].content \in spoiled
          \/ \E g \in Handler : pc[g] = "fill" /\ req[g].content = req[h].content

\* A large content has its row before its commit is made.
RowInv ==
    /\ \A h \in Handler : pc[h] \in {"route", "notice"} \cup Persisting =>
          (req[h].content \in Large => rows[req[h].content] # None)
    /\ \A c \in Stored : store[c].content \in Large => rows[store[c].content] # None

\* Who is shown as online, or about to be, has grants; the counts taken are
\* no higher than the number of agents, and right as long as registrations
\* come one after the other.
Counting == {"count", "gauge"}
PresenceInv ==
    /\ IsFiniteSet(presence) /\ overlap \in BOOLEAN
    /\ \A a \in presence : grants[a] # None
    /\ \A h \in Handler : pc[h] = "online" => grants[req[h].agent] # None
    /\ gauge \in Nat /\ gauge <= Cardinality(presence)
    /\ \A h \in Handler : pc[h] = "gauge" => req[h].count \in Nat /\ req[h].count <= Cardinality(presence)
    /\ ~overlap =>
          /\ \A g, h \in Handler : pc[g] \in Counting /\ pc[h] \in Counting => g = h
          /\ \A h \in Handler : pc[h] = "gauge" => req[h].count = Cardinality(presence)
          /\ (\A h \in Handler : pc[h] \notin Counting) => gauge = Cardinality(presence)

-----------------------------------------------------------------------------
(* Types                                                                   *)

\* What Inspect does, whatever the window says of repetitions.
LEMMA InspectEffect ==
    ASSUME NEW h \in Handler, Inspect(h)
    PROVE  /\ pc[h] = "inspect"
           /\ \E label, r : /\ label \in {"idle", "warn"}
                            /\ pc' = [pc EXCEPT ![h] = label] /\ req' = [req EXCEPT ![h] = r]
           /\ LET k == KeyOf(req[h])
                  window == windows[k]
              IN  windows' = [windows EXCEPT ![k] =
                      Append(IF Len(window) = WindowSize THEN Tail(window) ELSE window,
                             [fingerprint |-> Fingerprint(req[h]), commit |-> req[h].commit,
                              notice |-> req[h].notice])]
           /\ UNCHANGED <<disk, grants, presence, gauge, metrics, form, history>>
BY SMTT(60) DEF Inspect, InspectIn, Done, Goto

\* What Announce does: the request keeps what it has but for the number of
\* the announcement.
LEMMA AnnounceEffect ==
    ASSUME BaseInv, NEW h \in Handler, Announce(h)
    PROVE  /\ pc[h] = "announce" /\ pc' = [pc EXCEPT ![h] = "inspect"]
           /\ told' = told \cup {[kind |-> "delta", commit |-> req[h].commit,
                                  content |-> req[h].content]}
           /\ announced' = Append(announced, req[h].commit)
           /\ UNCHANGED <<disk, memory, minted, spoiled, unstored, overlap>>
           /\ req[h] \in Made
           /\ \E r \in Made :
                 /\ req' = [req EXCEPT ![h] = r]
                 /\ r.notice = Len(announced) + 1 /\ r.commit = req[h].commit
                 /\ r.content = req[h].content /\ r.parents = req[h].parents
                 /\ CommitOf(r) = CommitOf(req[h]) /\ KeyOf(r) = KeyOf(req[h])
<1> DEFINE r == [req[h] EXCEPT !.notice = Len(announced) + 1]
<1>1. /\ pc[h] = "announce" /\ pc' = [pc EXCEPT ![h] = "inspect"]
      /\ told' = told \cup {[kind |-> "delta", commit |-> req[h].commit,
                             content |-> req[h].content]}
      /\ announced' = Append(announced, req[h].commit)
      /\ UNCHANGED <<disk, memory, minted, spoiled, unstored, overlap>>
  BY DEF Announce, AnnounceTo, Goto
<1>2. req[h] \in Made
  BY <1>1 DEF BaseInv, RequestInv, Persisting
<1>3. req' = [req EXCEPT ![h] = r]
  BY DEF Announce, AnnounceTo
<1>4. Len(announced) + 1 \in Nat
  BY DEF BaseInv, Typed
<1>5. /\ r \in Made /\ r.notice = Len(announced) + 1 /\ r.commit = req[h].commit
      /\ r.content = req[h].content /\ r.parents = req[h].parents
  BY <1>2, <1>4 DEF Made
<1>6. CommitOf(r) = CommitOf(req[h]) /\ KeyOf(r) = KeyOf(req[h])
  BY <1>2 DEF Made, CommitOf, KeyOf
<1> HIDE DEF r
<1> QED
  BY <1>1, <1>2, <1>3, <1>5, <1>6

\* What Route does: an id it gives names the request's commit from then on,
\* and keeps naming what it named.
LEMMA RouteEffect ==
    ASSUME BaseInv, NEW h \in Handler, Route(h)
    PROVE  /\ pc[h] = "route" /\ req[h] \in Asked
           /\ UNCHANGED <<disk, memory, told, announced, spoiled, unstored, overlap>>
           /\ minted' \in Seq(Commit) /\ Len(minted') <= MaxRequests
           /\ \A c \in DOMAIN minted : c \in DOMAIN minted' /\ minted'[c] = minted[c]
           /\ \/ pc' = [pc EXCEPT ![h] = "notice"] /\ UNCHANGED <<req, minted>>
              \/ /\ pc' = [pc EXCEPT ![h] = "persist"]
                 /\ \E r \in Made :
                       /\ req' = [req EXCEPT ![h] = r]
                       /\ r.content = req[h].content
                       /\ \/ r.parents = req[h].parents
                          \/ r.parents = {}
                          \/ r.parents = {heads[KeyOf(req[h])]} /\ heads[KeyOf(req[h])] # None
                       /\ r.commit \in DOMAIN minted' /\ minted'[r.commit] = CommitOf(r)
<1>1. /\ pc[h] = "route"
      /\ UNCHANGED <<disk, memory, told, announced, spoiled, unstored, overlap>>
  BY DEF Route
<1>2. /\ req[h] \in Asked
      /\ minted \in Seq(Commit) /\ Len(minted) <= MaxRequests /\ Len(minted) \in Nat
  BY <1>1 DEF BaseInv, RequestInv, Typed, Preparing
<1>3. CASE pc' = [pc EXCEPT ![h] = "notice"] /\ UNCHANGED <<req, minted>>
  BY <1>1, <1>2, <1>3
<1>4. CASE ~(pc' = [pc EXCEPT ![h] = "notice"] /\ UNCHANGED <<req, minted>>)
  <2> DEFINE q == req[h]
             head == heads[KeyOf(q)]
             parents == IF q.parents # {} THEN q.parents ELSE IF head = None THEN {} ELSE {head}
             hashed == IF q.content \in Large THEN form ELSE None
             commit == [agent |-> q.agent, chan |-> q.chan, content |-> q.content,
                        context |-> q.context, parents |-> parents, delta |-> q.delta,
                        form |-> hashed]
             Row(c) == [agent |-> q.agent, chan |-> q.chan, content |-> q.content,
                        context |-> q.context, parents |-> parents, delta |-> q.delta,
                        form |-> hashed, durable |-> q.durable, commit |-> c, notice |-> 0]
  <2>1. PICK c \in Commits :
          /\ IF MadeBefore(commit) # {}
             THEN c \in MadeBefore(commit) /\ UNCHANGED minted
             ELSE c = Len(minted) + 1 /\ minted' = Append(minted, commit)
          /\ req' = [req EXCEPT ![h] = Row(c)]
          /\ pc' = [pc EXCEPT ![h] = "persist"]
    BY <1>4 DEF Route, Goto
  <2>2. KeyOf(q) \in Key
    BY <1>2 DEF Asked, KeyOf, Key
  <2>3. parents \in SUBSET Commits /\ hashed \in Form \cup {None}
    BY <1>2, <2>2 DEF BaseInv, Typed, Asked
  <2>4. \/ parents = q.parents
        \/ parents = {}
        \/ parents = {head} /\ head # None
    OBVIOUS
  <2> HIDE DEF parents, hashed
  <2>5. commit \in Commit
    BY <1>2, <2>3 DEF Asked, Commit
  <2>6. Row(c) \in Made
    BY <1>2, <2>1, <2>3 DEF Asked, Made
  <2>7. /\ CommitOf(Row(c)) = commit /\ Row(c).content = q.content
        /\ Row(c).parents = parents /\ Row(c).commit = c
    BY DEF CommitOf
  <2> HIDE DEF commit, Row
  <2>8. CASE MadeBefore(commit) # {}
    <3>1. c \in DOMAIN minted /\ minted[c] = commit /\ minted' = minted
      BY <2>1, <2>8 DEF MadeBefore
    <3> QED
      BY <1>1, <1>2, <2>1, <2>4, <2>6, <2>7, <3>1
  <2>9. CASE MadeBefore(commit) = {}
    <3>1. c = Len(minted) + 1 /\ minted' = Append(minted, commit)
      BY <2>1, <2>9
    <3>2. /\ Append(minted, commit) \in Seq(Commit)
          /\ Len(Append(minted, commit)) = Len(minted) + 1
          /\ DOMAIN Append(minted, commit) = 1..(Len(minted) + 1)
          /\ Append(minted, commit)[Len(minted) + 1] = commit
          /\ \A d \in 1..Len(minted) : Append(minted, commit)[d] = minted[d]
          /\ DOMAIN minted = 1..Len(minted)
      BY <1>2, <2>5
    <3>3. c \in Nat /\ c <= MaxRequests
      BY <2>1, LimitsAssumption DEF Commits
    <3>4. /\ minted' \in Seq(Commit) /\ Len(minted') <= MaxRequests
          /\ \A d \in DOMAIN minted : d \in DOMAIN minted' /\ minted'[d] = minted[d]
          /\ c \in DOMAIN minted' /\ minted'[c] = commit
      BY <1>2, <3>1, <3>2, <3>3
    <3> QED
      BY <1>1, <1>2, <2>1, <2>4, <2>6, <2>7, <3>4
  <2> QED
    BY <2>8, <2>9
<1> QED
  BY <1>3, <1>4

\* The initial state is well typed.
LEMMA BaseInit == Init => BaseInv
<1> SUFFICES ASSUME Init PROVE BaseInv
  OBVIOUS
<1> USE DEF Label, Init, NoGrants, NoWindows, AllIdle, NoRequest
<1>1. Typed
  BY LimitsAssumption DEF Typed
<1>2. RequestInv
  BY DEF RequestInv, Registering, Preparing, Persisting
<1>3. WindowInv
  <2> DEFINE E == [fingerprint : Fingerprints, commit : Commits, notice : Nat]
  <2>1. <<>> \in Seq(E) /\ Len(<<>>) = 0
    OBVIOUS
  <2> QED
    BY <2>1, LimitsAssumption DEF WindowInv
<1> QED
  BY <1>1, <1>2, <1>3 DEF BaseInv

\* Every step keeps the ranges of the variables.
LEMMA TypedStep == BaseInv /\ [Next]_vars => Typed'
<1> SUFFICES ASSUME BaseInv, [Next]_vars PROVE Typed'
  OBVIOUS
<1> USE DEF Typed, Label, disk, memory, history, Goto, Done
<1>0. Typed /\ RequestInv
  BY DEF BaseInv
<1>1. ASSUME NEW h \in Handler, Grant(h) PROVE Typed'
  <2>1. PICK a \in Agent, requested \in Requested :
          /\ grants' = [grants EXCEPT ![a] = GrantRequested(RequireAuth, requested)]
          /\ req' = [req EXCEPT ![h] = [agent |-> a]]
    BY <1>1 DEF Grant
  <2>2. PICK g : g = GrantRequested(RequireAuth, requested)
    OBVIOUS
  <2>3. grants' = [grants EXCEPT ![a] = g]
    BY <2>1, <2>2
  <2>4. /\ pc' = [pc EXCEPT ![h] = "online"]
        /\ UNCHANGED <<disk, presence, form, minted, announced>>
    BY <1>1 DEF Grant
  <2> QED
    BY <1>0, <2>1, <2>3, <2>4
<1>2. ASSUME NEW h \in Handler, Appear(h) PROVE Typed'
  BY <1>0, <1>2 DEF Appear, RequestInv, Registering
<1>3. ASSUME NEW h \in Handler, CountAgents(h) \/ StoreGauge(h) PROVE Typed'
  BY <1>0, <1>3 DEF CountAgents, StoreGauge
<1>4. ASSUME NEW h \in Handler, Accept(h) PROVE Typed'
  BY <1>0, <1>4 DEF Accept, Admit
<1>5. ASSUME NEW h \in Handler, PreparePayload(h) PROVE Typed'
  BY <1>0, <1>5 DEF PreparePayload
<1>6. ASSUME NEW h \in Handler, CreateFile(h) PROVE Typed'
  BY <1>0, <1>6 DEF CreateFile
<1>6a. ASSUME NEW h \in Handler, FillFile(h) PROVE Typed'
  <2>1. PICK f \in {form, "torn"} : files' = [files EXCEPT ![req[h].content] = f]
    BY <1>6a DEF FillFile
  <2>2. /\ pc' = [pc EXCEPT ![h] = "row"]
        /\ UNCHANGED <<store, heads, rows, warnings, memory, req, history>>
    BY <1>6a DEF FillFile
  <2> QED
    BY <1>0, <2>1, <2>2
<1>7. ASSUME NEW h \in Handler, InsertRow(h) PROVE Typed'
  BY <1>0, <1>7 DEF InsertRow
<1>8. ASSUME NEW h \in Handler, Route(h) PROVE Typed'
  <2>1. PICK label \in {"notice", "persist"} : pc' = [pc EXCEPT ![h] = label]
    BY <1>8, RouteEffect
  <2>2. PICK r : req' = [req EXCEPT ![h] = r]
    <3>1. CASE req' = req
      <4>1. req' = [req EXCEPT ![h] = req[h]]
        BY <1>0, <3>1
      <4> QED
        BY <4>1
    <3> QED
      BY <1>8, <3>1, RouteEffect
  <2>3. /\ UNCHANGED <<disk, memory, told, announced, spoiled, unstored, overlap>>
        /\ minted' \in Seq(Commit) /\ Len(minted') <= MaxRequests
    BY <1>8, RouteEffect
  <2> QED
    BY <1>0, <2>1, <2>2, <2>3
<1>9. ASSUME NEW h \in Handler, Persist(h) PROVE Typed'
  <2>1. req[h] \in Made
    BY <1>0, <1>9 DEF Persist, RequestInv, Persisting
  <2>2. CommitOf(req[h]) \in Commit
    BY <2>1 DEF Made, CommitOf, Commit
  <2> QED
    BY <1>0, <1>9, <2>2 DEF Persist
<1>10. ASSUME NEW h \in Handler, SetHead(h) PROVE Typed'
  <2>1. req[h].commit \in Commits
    BY <1>0, <1>10 DEF SetHead, RequestInv, Persisting, Made
  <2> QED
    BY <1>0, <1>10, <2>1 DEF SetHead
<1>11. ASSUME NEW h \in Handler, Notice(h) \/ Cancel(h) PROVE Typed'
  BY <1>0, <1>11 DEF Notice, Cancel
<1>11a. ASSUME NEW h \in Handler, Announce(h) PROVE Typed'
  <2>1. /\ pc' = [pc EXCEPT ![h] = "inspect"] /\ announced' = Append(announced, req[h].commit)
        /\ UNCHANGED <<disk, memory, minted, spoiled, unstored, overlap>> /\ req[h] \in Made
    BY <1>11a, AnnounceEffect
  <2>2. PICK r : req' = [req EXCEPT ![h] = r]
    BY <1>11a, AnnounceEffect
  <2>3. req[h].commit \in Commits
    BY <2>1 DEF Made
  <2>4. announced' \in Seq(Commits)
    BY <1>0, <2>1, <2>3
  <2> QED
    BY <1>0, <2>1, <2>2, <2>4
<1>12. ASSUME NEW h \in Handler, Inspect(h) PROVE Typed'
  <2>1. PICK label, r : /\ label \in {"idle", "warn"}
                        /\ pc' = [pc EXCEPT ![h] = label] /\ req' = [req EXCEPT ![h] = r]
    BY <1>12, InspectEffect, Zenon
  <2>2. UNCHANGED <<disk, grants, presence, gauge, metrics, form, history>>
    BY <1>12, InspectEffect, Zenon
  <2> QED
    BY <1>0, <2>1, <2>2
<1>13. ASSUME NEW h \in Handler, AppendWarning(h) \/ TellWarning(h) PROVE Typed'
  BY <1>0, <1>13 DEF AppendWarning, TellWarning
<1>14. ASSUME NEW h \in Handler, Fail(h) PROVE Typed'
  BY <1>0, <1>14 DEF Fail
<1>15. CASE Restart
  BY <1>0, <1>15 DEF Restart, NoGrants, AllIdle, NoRequest
<1>16. CASE UNCHANGED vars
  BY <1>0, <1>16 DEF vars
<1> QED
  BY <1>1, <1>2, <1>3, <1>4, <1>5, <1>6, <1>6a, <1>7, <1>8, <1>9, <1>10, <1>11, <1>11a, <1>12, <1>13,
     <1>14, <1>15, <1>16 DEF Next, Register, Publish

\* Every step keeps what a handler at each label holds.
LEMMA RequestStep == BaseInv /\ [Next]_vars => RequestInv'
<1> SUFFICES ASSUME BaseInv, [Next]_vars PROVE RequestInv'
  OBVIOUS
<1> USE DEF RequestInv, Label, Registering, Preparing, Persisting, disk, memory, history, Goto, Done
<1>0. Typed /\ RequestInv
  BY DEF BaseInv
<1>0a. pc \in [Handler -> Label] /\ req = [h \in Handler |-> req[h]]
  BY <1>0 DEF Typed
<1> HIDE DEF RequestInv
\* Only one handler moves, so only what it holds matters.
<1>m. ASSUME NEW h \in Handler, NEW label \in Label, NEW r,
             pc' = [pc EXCEPT ![h] = label], req' = [req EXCEPT ![h] = r],
             label \in Registering => r.agent \in Agent,
             label = "prepare" => r \in Asked,
             label \in Preparing => r \in Asked /\ Clean[r.content] = r.content,
             label \in Persisting => r \in Made /\ Clean[r.content] = r.content
      PROVE  RequestInv'
  BY <1>0, <1>0a, <1>m DEF RequestInv
<1>n. ASSUME NEW h \in Handler, NEW label \in Label,
             pc' = [pc EXCEPT ![h] = label], req' = req,
             label \in Registering => pc[h] \in Registering,
             label # "prepare",
             label \in Preparing => pc[h] \in Preparing,
             label \in Persisting => pc[h] \in Persisting
      PROVE  RequestInv'
  BY <1>0, <1>0a, <1>n DEF RequestInv
<1>1. ASSUME NEW h \in Handler, Grant(h) PROVE RequestInv'
  <2>1. PICK a \in Agent : req' = [req EXCEPT ![h] = [agent |-> a]]
                           /\ pc' = [pc EXCEPT ![h] = "online"]
    BY <1>1 DEF Grant
  <2> QED
    BY <2>1, <1>m
<1>2. ASSUME NEW h \in Handler, Appear(h) PROVE RequestInv'
  BY <1>2, <1>n DEF Appear
<1>3. ASSUME NEW h \in Handler, CountAgents(h) PROVE RequestInv'
  <2>1. req[h].agent \in Agent
    BY <1>0, <1>3 DEF CountAgents, RequestInv
  <2>2. /\ req' = [req EXCEPT ![h] = [agent |-> req[h].agent, count |-> Cardinality(presence)]]
        /\ pc' = [pc EXCEPT ![h] = "gauge"]
    BY <1>0a, <1>3 DEF CountAgents
  <2> QED
    BY <2>1, <2>2, <1>m
<1>4. ASSUME NEW h \in Handler, StoreGauge(h) \/ Cancel(h) \/ Notice(h) \/ TellWarning(h) \/ Fail(h)
      PROVE  RequestInv'
  <2>1. pc' = [pc EXCEPT ![h] = "idle"] /\ req' = [req EXCEPT ![h] = None]
    BY <1>4 DEF StoreGauge, Cancel, Notice, TellWarning, Fail
  <2> QED
    BY <2>1, <1>m
<1>5. ASSUME NEW h \in Handler, Accept(h) PROVE RequestInv'
  <2>1. PICK a \in Agent, chan \in Channel, sent \in Sent, parents \in Parents :
          Admit(h, a, chan, sent, parents)
    BY <1>5, Zenon DEF Accept
  <2>2. DeltaOf(a, chan, sent, parents) \in Asked
    <3>1. sent \in Request /\ parents \in SUBSET Commits
      BY CleanAssumption, ParentsAssumption
    <3> QED
      BY <3>1 DEF Request, Asked, DeltaOf
  <2> QED
    BY <2>1, <2>2, <1>m DEF Admit
<1>6. ASSUME NEW h \in Handler, PreparePayload(h) PROVE RequestInv'
  <2> DEFINE r == [req[h] EXCEPT !.content = Clean[req[h].content]]
             label == IF Clean[req[h].content] \in Large THEN "file" ELSE "route"
  <2>1. req[h] \in Asked
    BY <1>0, <1>6 DEF PreparePayload, RequestInv
  <2>2. r \in Asked /\ Clean[r.content] = r.content
    BY <2>1, CleanAssumption DEF Asked
  <2>3. pc' = [pc EXCEPT ![h] = label]
    BY <1>6 DEF PreparePayload
  <2>4. req' = [req EXCEPT ![h] = r]
    BY <1>0a, <1>6 DEF PreparePayload
  <2>5. label \in {"file", "route"}
    OBVIOUS
  <2> HIDE DEF r, label
  <2> QED
    BY <2>2, <2>3, <2>4, <2>5, <1>m
<1>7. ASSUME NEW h \in Handler, CreateFile(h) \/ FillFile(h) \/ InsertRow(h) PROVE RequestInv'
  <2>1. PICK label \in {"fill", "row", "route"} :
          pc' = [pc EXCEPT ![h] = label] /\ req' = req /\ pc[h] \in Preparing
    BY <1>7 DEF CreateFile, FillFile, InsertRow
  <2> QED
    BY <2>1, <1>n
<1>8. ASSUME NEW h \in Handler, Persist(h) \/ SetHead(h) PROVE RequestInv'
  <2>1. PICK label \in {"head", "announce"} :
          pc' = [pc EXCEPT ![h] = label] /\ req' = req /\ pc[h] \in Persisting
    BY <1>8 DEF Persist, SetHead
  <2> QED
    BY <2>1, <1>n
<1>8a. ASSUME NEW h \in Handler, Announce(h) PROVE RequestInv'
  <2>1. pc' = [pc EXCEPT ![h] = "inspect"] /\ pc[h] = "announce"
    BY <1>8a, AnnounceEffect
  <2>2. PICK r \in Made : req' = [req EXCEPT ![h] = r] /\ r.content = req[h].content
    BY <1>8a, AnnounceEffect
  <2>3. Clean[r.content] = r.content
    BY <1>0, <2>1, <2>2 DEF RequestInv
  <2> QED
    BY <2>1, <2>2, <2>3, <1>m
<1>9. ASSUME NEW h \in Handler, AppendWarning(h) PROVE RequestInv'
  BY <1>9, <1>n DEF AppendWarning
<1>10. ASSUME NEW h \in Handler, Inspect(h) PROVE RequestInv'
  <2>1. PICK label, r : /\ label \in {"idle", "warn"}
                        /\ pc' = [pc EXCEPT ![h] = label] /\ req' = [req EXCEPT ![h] = r]
    BY <1>10, InspectEffect, Zenon
  <2> QED
    BY <2>1, <1>m
<1>11. ASSUME NEW h \in Handler, Route(h) PROVE RequestInv'
  <2>1. pc[h] = "route" /\ Clean[req[h].content] = req[h].content
    BY <1>0, <1>11, RouteEffect DEF RequestInv
  <2>2. CASE pc' = [pc EXCEPT ![h] = "notice"] /\ req' = req
    BY <2>1, <2>2, <1>n
  <2>3. CASE ~(pc' = [pc EXCEPT ![h] = "notice"] /\ req' = req)
    <3>1. PICK r \in Made : /\ req' = [req EXCEPT ![h] = r] /\ r.content = req[h].content
                            /\ pc' = [pc EXCEPT ![h] = "persist"]
      BY <1>11, <2>3, RouteEffect
    <3> QED
      BY <2>1, <3>1, <1>m
  <2> QED
    BY <2>2, <2>3
<1>12. CASE Restart
  BY <1>12 DEF Restart, AllIdle, NoRequest, RequestInv
<1>13. CASE UNCHANGED vars
  BY <1>0, <1>13 DEF vars, RequestInv
<1> QED
  BY <1>1, <1>2, <1>3, <1>4, <1>5, <1>6, <1>7, <1>8, <1>8a, <1>9, <1>10, <1>11, <1>12,
     <1>13 DEF Next, Register, Publish

\* A window is trimmed before it grows.
LEMMA WindowStep == BaseInv /\ [Next]_vars => WindowInv'
<1> SUFFICES ASSUME BaseInv, [Next]_vars PROVE WindowInv'
  OBVIOUS
<1> USE DEF WindowInv, disk, memory, history
<1>0. Typed /\ RequestInv /\ WindowInv
  BY DEF BaseInv
<1>1. ASSUME NEW h \in Handler, Inspect(h) PROVE WindowInv'
  <2> DEFINE E == [fingerprint : Fingerprints, commit : Commits, notice : Nat]
             k == KeyOf(req[h])
             e == [fingerprint |-> Fingerprint(req[h]), commit |-> req[h].commit,
                   notice |-> req[h].notice]
             trimmed == IF Len(windows[k]) = WindowSize THEN Tail(windows[k]) ELSE windows[k]
  <2>1. req[h] \in Made
    BY <1>0, <1>1, InspectEffect DEF RequestInv, Persisting
  <2>2. k \in Key /\ e \in E
    BY <2>1 DEF Made, Fingerprint, Fingerprints, KeyOf, Key
  <2>3. windows' = [windows EXCEPT ![k] = Append(trimmed, e)]
    BY <1>1, InspectEffect, Zenon
  <2>4. WindowSize \in Nat \ {0}
    BY LimitsAssumption
  <2> HIDE DEF e, E, k
  <2>5. windows \in [Key -> Seq(E)] /\ Len(windows[k]) <= WindowSize
    BY <1>0, <2>2 DEF E
  <2>5a. windows[k] \in Seq(E)
    BY <2>2, <2>5
  <2>6. trimmed \in Seq(E) /\ Len(trimmed) < WindowSize /\ Len(trimmed) \in Nat
    BY <2>4, <2>5, <2>5a
  <2> HIDE DEF trimmed
  <2>7. Append(trimmed, e) \in Seq(E) /\ Len(Append(trimmed, e)) <= WindowSize
    BY <2>2, <2>4, <2>6
  <2> QED
    BY <1>0, <2>2, <2>3, <2>7 DEF E
<1>2. CASE Restart
  <2> DEFINE E == [fingerprint : Fingerprints, commit : Commits, notice : Nat]
  <2>1. <<>> \in Seq(E) /\ Len(<<>>) = 0
    OBVIOUS
  <2> QED
    BY <1>2, <2>1, LimitsAssumption DEF Restart, NoWindows
<1>3. ASSUME UNCHANGED windows PROVE WindowInv'
  BY <1>0, <1>3
<1>4. ASSUME NEW h \in Handler, Register(h) \/ Fail(h) PROVE UNCHANGED windows
  BY <1>4 DEF Register, Grant, Appear, CountAgents, StoreGauge, Fail
<1>5. ASSUME NEW h \in Handler, Publish(h), ~Inspect(h), ~Route(h) PROVE UNCHANGED windows
  BY <1>5 DEF Publish, Accept, Admit, PreparePayload, CreateFile, FillFile, InsertRow, Persist,
              SetHead, Notice, Announce, AnnounceTo, Cancel, AppendWarning, TellWarning
<1>5a. ASSUME NEW h \in Handler, Route(h) PROVE UNCHANGED windows
  BY <1>5a, RouteEffect
<1>6. ASSUME UNCHANGED vars PROVE UNCHANGED windows
  BY <1>6 DEF vars
<1> QED
  BY <1>1, <1>2, <1>3, <1>4, <1>5, <1>5a, <1>6 DEF Next

\* Types are an invariant.
LEMMA BaseStep == BaseInv /\ [Next]_vars => BaseInv'
BY TypedStep, RequestStep, WindowStep DEF BaseInv

-----------------------------------------------------------------------------
(* Commits                                                                 *)

\* Every step keeps what an id names.
LEMMA CommitStep == BaseInv /\ CommitInv /\ [Next]_vars => CommitInv'
<1> SUFFICES ASSUME BaseInv, CommitInv, [Next]_vars PROVE CommitInv'
  OBVIOUS
<1> USE DEF Label, Persisting, disk, memory, history, Goto, Done
<1>0. Typed /\ RequestInv
  BY DEF BaseInv
<1>0a. pc \in [Handler -> Label] /\ req = [h \in Handler |-> req[h]]
  BY <1>0 DEF Typed
<1>0b. \A g \in Handler : pc[g] \in Persisting =>
          /\ req[g].commit \in DOMAIN minted /\ minted[req[g].commit] = CommitOf(req[g])
          /\ pc[g] # "persist" => req[g].commit \in Stored
  BY DEF CommitInv
<1>0c. \A c \in Stored : c \in DOMAIN minted /\ store[c] = minted[c]
  BY DEF CommitInv
\* A handler that is not persisting afterwards changes nothing here.
<1>m. ASSUME NEW h \in Handler, NEW label \in Label \ Persisting, NEW r,
             pc' = [pc EXCEPT ![h] = label], req' = [req EXCEPT ![h] = r],
             UNCHANGED <<store, minted>>
      PROVE  CommitInv'
  BY <1>0a, <1>m DEF CommitInv, CommitOf, Stored
<1>n. ASSUME NEW h \in Handler, NEW label \in Label,
             pc' = [pc EXCEPT ![h] = label], UNCHANGED <<req, store, minted>>,
             label \in Persisting => label # "persist" /\ pc[h] \in Persisting \ {"persist"}
      PROVE  CommitInv'
  BY <1>0a, <1>n DEF CommitInv, CommitOf, Stored
<1>1. ASSUME NEW h \in Handler, Persist(h) PROVE CommitInv'
  <2> DEFINE c == req[h].commit
  <2>1. pc[h] = "persist" /\ req[h] \in Made
    BY <1>0, <1>1 DEF Persist, RequestInv
  <2>2. c \in Commits /\ CommitOf(req[h]) \in Commit
    BY <2>1 DEF Made, CommitOf, Commit
  <2>3. c \in DOMAIN minted /\ minted[c] = CommitOf(req[h])
    BY <1>0b, <2>1
  <2>4. CommitOf(req[h]) # None
    BY <2>2, NoneAssumption
  <2>5. /\ store' = [store EXCEPT ![c] = IF store[c] = None THEN CommitOf(req[h]) ELSE store[c]]
        /\ pc' = [pc EXCEPT ![h] = "head"] /\ UNCHANGED <<req, minted>>
    BY <1>0, <1>1 DEF Persist
  <2>6. store'[c] = minted[c] /\ c \in Stored'
    BY <1>0, <1>0c, <2>2, <2>3, <2>4, <2>5 DEF Typed, Stored
  <2>7. \A d \in Commits : d # c => store'[d] = store[d]
    BY <1>0, <2>2, <2>5 DEF Typed
  <2>8. \A d \in Stored' : d \in DOMAIN minted' /\ store'[d] = minted'[d]
    BY <1>0c, <2>3, <2>5, <2>6, <2>7 DEF Stored
  <2>9. ASSUME NEW g \in Handler, pc'[g] \in Persisting
        PROVE  /\ req'[g].commit \in DOMAIN minted' /\ minted'[req'[g].commit] = CommitOf(req[g])
               /\ pc'[g] # "persist" => req'[g].commit \in Stored'
    <3>1. CASE g = h
      BY <2>3, <2>5, <2>6, <3>1
    <3>2. CASE g # h
      <4>1. pc'[g] = pc[g]
        BY <1>0a, <2>5, <3>2
      <4>2. \A d \in Stored : d \in Stored'
        BY <2>6, <2>7 DEF Stored
      <4> QED
        BY <1>0b, <2>5, <2>9, <4>1, <4>2
    <3> QED
      BY <3>1, <3>2
  <2>10. \A g \in Handler : CommitOf(req[g])' = CommitOf(req[g])
    BY <2>5 DEF CommitOf
  <2> HIDE DEF c
  <2> QED
    BY <2>8, <2>9, <2>10 DEF CommitInv
<1>2. ASSUME NEW h \in Handler, Route(h) PROVE CommitInv'
  <2>1. /\ pc[h] = "route" /\ store' = store
        /\ \A c \in DOMAIN minted : c \in DOMAIN minted' /\ minted'[c] = minted[c]
    BY <1>2, RouteEffect
  <2>2. Stored' = Stored /\ \A c \in Stored : c \in DOMAIN minted' /\ store'[c] = minted'[c]
    BY <1>0c, <2>1 DEF Stored
  <2>3. CASE pc' = [pc EXCEPT ![h] = "notice"] /\ UNCHANGED <<req, minted>>
    BY <2>1, <2>3, <1>n
  <2>4. CASE ~(pc' = [pc EXCEPT ![h] = "notice"] /\ UNCHANGED <<req, minted>>)
    <3>1. PICK r : /\ req' = [req EXCEPT ![h] = r] /\ pc' = [pc EXCEPT ![h] = "persist"]
                   /\ r.commit \in DOMAIN minted' /\ minted'[r.commit] = CommitOf(r)
      BY <1>2, <2>4, RouteEffect
    <3>2. ASSUME NEW g \in Handler, pc'[g] \in Persisting
          PROVE  /\ req'[g].commit \in DOMAIN minted'
                 /\ minted'[req'[g].commit] = CommitOf(req'[g])
                 /\ pc'[g] # "persist" => req'[g].commit \in Stored
      <4>1. CASE g = h
        BY <1>0a, <3>1, <4>1
      <4>2. CASE g # h
        <5>1. pc'[g] = pc[g] /\ req'[g] = req[g]
          BY <1>0a, <3>1, <4>2
        <5>2. PICK r2 : r2 = req[g]
          OBVIOUS
        <5> QED
          BY <1>0b, <2>1, <3>2, <5>1, <5>2
      <4> QED
        BY <4>1, <4>2
    <3> QED
      BY <2>2, <3>2 DEF CommitInv, CommitOf
  <2> QED
    BY <2>3, <2>4
<1>3. ASSUME NEW h \in Handler, Grant(h) \/ CountAgents(h) \/ StoreGauge(h) \/ Cancel(h)
                                \/ Notice(h) \/ TellWarning(h) \/ Fail(h)
      PROVE  CommitInv'
  <2>1. PICK label, r :
          /\ label \in {"online", "gauge", "idle"}
          /\ pc' = [pc EXCEPT ![h] = label] /\ req' = [req EXCEPT ![h] = r] /\ UNCHANGED <<store, minted>>
    BY <1>3 DEF Grant, CountAgents, StoreGauge, Cancel, Notice, TellWarning, Fail
  <2> QED
    BY <2>1, <1>m
<1>4. ASSUME NEW h \in Handler, Appear(h) \/ CreateFile(h) \/ FillFile(h) \/ InsertRow(h)
                                \/ AppendWarning(h) \/ SetHead(h)
      PROVE  CommitInv'
  <2>1. PICK label \in {"count", "fill", "row", "route", "tell", "announce"} :
          /\ pc' = [pc EXCEPT ![h] = label] /\ UNCHANGED <<req, store, minted>>
          /\ label = "announce" => pc[h] = "head"
    BY <1>4 DEF Appear, CreateFile, FillFile, InsertRow, AppendWarning, SetHead
  <2> QED
    BY <2>1, <1>n
<1>4a. ASSUME NEW h \in Handler, Announce(h) PROVE CommitInv'
  <2>1. pc[h] = "announce" /\ pc' = [pc EXCEPT ![h] = "inspect"] /\ UNCHANGED <<store, minted>>
    BY <1>4a, AnnounceEffect
  <2>2. PICK r : /\ req' = [req EXCEPT ![h] = r] /\ r.commit = req[h].commit
                 /\ CommitOf(r) = CommitOf(req[h])
    BY <1>4a, AnnounceEffect
  <2>3. ASSUME NEW g \in Handler, pc'[g] \in Persisting
        PROVE  /\ req'[g].commit \in DOMAIN minted /\ minted[req'[g].commit] = CommitOf(req'[g])
               /\ pc'[g] # "persist" => req'[g].commit \in Stored
    <3>1. CASE g = h
      BY <1>0a, <1>0b, <2>1, <2>2, <3>1
    <3>2. CASE g # h
      <4>1. pc'[g] = pc[g] /\ req'[g] = req[g]
        BY <1>0a, <2>1, <2>2, <3>2
      <4> QED
        BY <1>0b, <2>3, <4>1
    <3> QED
      BY <3>1, <3>2
  <2>4. Stored' = Stored
    BY <2>1 DEF Stored
  <2> QED
    BY <1>0c, <2>1, <2>3, <2>4 DEF CommitInv, CommitOf
<1>5. ASSUME NEW h \in Handler, Accept(h) PROVE CommitInv'
  <2>1. PICK a \in Agent, chan \in Channel, sent \in Sent, parents \in Parents :
          Admit(h, a, chan, sent, parents)
    BY <1>5, Zenon DEF Accept
  <2> QED
    BY <2>1, <1>m DEF Admit
<1>6. ASSUME NEW h \in Handler, PreparePayload(h) PROVE CommitInv'
  <2> DEFINE r == [req[h] EXCEPT !.content = Clean[req[h].content]]
             label == IF Clean[req[h].content] \in Large THEN "file" ELSE "route"
  <2>1. pc' = [pc EXCEPT ![h] = label] /\ UNCHANGED <<store, minted>>
    BY <1>6 DEF PreparePayload
  <2>2. req' = [req EXCEPT ![h] = r]
    BY <1>0a, <1>6 DEF PreparePayload
  <2>3. label \in {"file", "route"}
    OBVIOUS
  <2> HIDE DEF r, label
  <2> QED
    BY <2>1, <2>2, <2>3, <1>m
<1>7. ASSUME NEW h \in Handler, Inspect(h) PROVE CommitInv'
  <2>1. PICK label, r : /\ label \in {"idle", "warn"}
                        /\ pc' = [pc EXCEPT ![h] = label] /\ req' = [req EXCEPT ![h] = r]
    BY <1>7, InspectEffect, Zenon
  <2>2. UNCHANGED <<store, minted>>
    BY <1>7, InspectEffect, Zenon
  <2> QED
    BY <2>1, <2>2, <1>m
<1>8. CASE Restart
  BY <1>8 DEF Restart, AllIdle, NoRequest, CommitInv, Stored
<1>9. CASE UNCHANGED vars
  BY <1>9 DEF vars, CommitInv, CommitOf, Stored
<1> QED
  BY <1>1, <1>2, <1>3, <1>4, <1>4a, <1>5, <1>6, <1>7, <1>8, <1>9 DEF Next, Register, Publish

\* Only Persist touches the table of commits.
LEMMA StoreKept ==
    ASSUME [Next]_vars, \A h \in Handler : ~Persist(h)
    PROVE  store' = store
<1> USE DEF disk, memory, history
<1>1. ASSUME NEW h \in Handler, Register(h) \/ Fail(h) PROVE store' = store
  BY <1>1 DEF Register, Grant, Appear, CountAgents, StoreGauge, Fail
<1>2. ASSUME NEW h \in Handler, Publish(h), ~Inspect(h), ~Accept(h), ~Persist(h) PROVE store' = store
  BY <1>2 DEF Publish, PreparePayload, CreateFile, FillFile, InsertRow, Route,
              SetHead, Notice, Announce, AnnounceTo, Cancel, AppendWarning, TellWarning
<1>3. ASSUME NEW h \in Handler, Inspect(h) PROVE store' = store
  BY <1>3, InspectEffect, Zenon
<1>4. ASSUME NEW h \in Handler, Accept(h) PROVE store' = store
  BY <1>4 DEF Accept, Admit
<1>5. CASE Restart \/ UNCHANGED vars
  BY <1>5 DEF Restart, vars
<1> QED
  BY <1>1, <1>2, <1>3, <1>4, <1>5 DEF Next

\* What Persist stores, and where: the place is empty or has the same commit.
LEMMA PersistEffect ==
    ASSUME BaseInv, CommitInv, NEW h \in Handler, Persist(h)
    PROVE  /\ req[h] \in Made /\ req[h].commit \in Commits
           /\ store[req[h].commit] \in {None, CommitOf(req[h])}
           /\ CommitOf(req[h]) \in Commit /\ CommitOf(req[h]) # None
           /\ store' = [store EXCEPT ![req[h].commit] = CommitOf(req[h])]
           /\ pc[h] = "persist" /\ pc' = [pc EXCEPT ![h] = "head"]
           /\ UNCHANGED <<heads, files, rows, warnings, memory, req, history>>
<1>1. req[h] \in Made /\ pc[h] = "persist" /\ store \in [Commits -> Commit \cup {None}]
  BY DEF Persist, BaseInv, RequestInv, Persisting, Typed
<1>2. /\ req[h].commit \in Commits /\ CommitOf(req[h]) \in Commit
      /\ CommitOf(req[h]) # None
  BY <1>1, NoneAssumption DEF Made, CommitOf, Commit
<1>3. store[req[h].commit] \in {None, CommitOf(req[h])}
  BY <1>1, <1>2 DEF CommitInv, Persisting, Stored
<1>4. store' = [store EXCEPT ![req[h].commit] = CommitOf(req[h])]
  BY <1>1, <1>2, <1>3 DEF Persist
<1>5. /\ pc' = [pc EXCEPT ![h] = "head"]
      /\ UNCHANGED <<heads, files, rows, warnings, memory, req, history>>
  BY DEF Persist, Goto
<1> QED
  BY <1>1, <1>2, <1>3, <1>4, <1>5

\* A stored commit stays as it is.
LEMMA StoreGrows ==
    BaseInv /\ CommitInv /\ [Next]_vars => \A c \in Stored : c \in Stored' /\ store'[c] = store[c]
<1> SUFFICES ASSUME BaseInv, CommitInv, [Next]_vars
             PROVE  \A c \in Stored : c \in Stored' /\ store'[c] = store[c]
  OBVIOUS
<1>1. CASE \A h \in Handler : ~Persist(h)
  BY <1>1, StoreKept DEF Stored
<1>2. ASSUME NEW h \in Handler, Persist(h)
      PROVE  \A c \in Stored : c \in Stored' /\ store'[c] = store[c]
  BY <1>2, PersistEffect DEF Stored, BaseInv, Typed
<1> QED
  BY <1>1, <1>2

\* Every step leaves heads and parents stored.
LEMMA ParentStep == BaseInv /\ CommitInv /\ ParentInv /\ [Next]_vars => ParentInv'
<1> SUFFICES ASSUME BaseInv, CommitInv, ParentInv, [Next]_vars PROVE ParentInv'
  OBVIOUS
<1> USE DEF Label, Preparing, Persisting, disk, memory, history, Goto, Done
<1>0. Typed /\ RequestInv
  BY DEF BaseInv
<1>0a. pc \in [Handler -> Label] /\ req = [h \in Handler |-> req[h]]
  BY <1>0 DEF Typed
<1> DEFINE Named == {"prepare"} \cup Preparing \cup Persisting
           Parented == \A h \in Handler : pc[h] \in Named => req[h].parents \subseteq Stored
           HeadsIn == \A k \in Key : heads[k] # None => heads[k] \in Stored
<1>0b. \A c \in Stored : c \in Stored' /\ store'[c] = store[c]
  BY StoreGrows
<1>0c. Parented /\ HeadsIn
  BY DEF ParentInv
<1>a. \A c \in Stored' : store'[c].parents \subseteq Stored'
  <2>1. CASE \A h \in Handler : ~Persist(h)
    BY <2>1, StoreKept DEF ParentInv, Stored
  <2>2. ASSUME NEW h \in Handler, Persist(h)
        PROVE  \A c \in Stored' : store'[c].parents \subseteq Stored'
    <3>1. req[h].parents \subseteq Stored'
      BY <1>0b, <1>0c, <2>2 DEF Persist
    <3>2. ASSUME NEW c \in Stored' PROVE c \in Stored \/ store'[c].parents = req[h].parents
      <4>1. c \in Commits /\ store'[c] # None
        BY DEF Stored
      <4>2. /\ store' = [store EXCEPT ![req[h].commit] = CommitOf(req[h])]
            /\ CommitOf(req[h]).parents = req[h].parents
        BY <2>2, PersistEffect DEF CommitOf
      <4> QED
        BY <1>0, <4>1, <4>2 DEF Stored, Typed
    <3> QED
      BY <1>0b, <3>1, <3>2 DEF ParentInv
  <2> QED
    BY <2>1, <2>2
<1>b. HeadsIn'
  <2>1. CASE heads' = heads
    BY <1>0b, <1>0c, <2>1
  <2>2. ASSUME NEW h \in Handler, SetHead(h) PROVE HeadsIn'
    <3>2. req[h].commit \in Stored
      BY <2>2 DEF SetHead, CommitInv
    <3>3. heads' = [heads EXCEPT ![KeyOf(req[h])] = req[h].commit]
      BY <2>2 DEF SetHead
    <3> QED
      BY <1>0, <1>0b, <1>0c, <3>2, <3>3 DEF Typed
  <2>3. ASSUME NEW h \in Handler, Register(h) \/ Fail(h) PROVE heads' = heads
    BY <2>3 DEF Register, Grant, Appear, CountAgents, StoreGauge, Fail
  <2>4. ASSUME NEW h \in Handler, Publish(h), ~Inspect(h), ~Accept(h), ~SetHead(h) PROVE heads' = heads
    BY <2>4 DEF Publish, PreparePayload, CreateFile, FillFile, InsertRow, Route, Persist,
                Notice, Announce, AnnounceTo, Cancel, AppendWarning, TellWarning
  <2>5. ASSUME NEW h \in Handler, Inspect(h) PROVE heads' = heads
    BY <2>5, InspectEffect, Zenon
  <2>6. ASSUME NEW h \in Handler, Accept(h) PROVE heads' = heads
    BY <2>6 DEF Accept, Admit
  <2>7. ASSUME Restart \/ UNCHANGED vars PROVE heads' = heads
    BY <2>7 DEF Restart, vars
  <2> HIDE DEF HeadsIn
  <2> QED
    BY <2>1, <2>2, <2>3, <2>4, <2>5, <2>6, <2>7 DEF Next
<1>m. ASSUME NEW h \in Handler, NEW label \in Label, NEW r,
             pc' = [pc EXCEPT ![h] = label], req' = [req EXCEPT ![h] = r],
             label \in Named => r.parents \subseteq Stored
      PROVE  Parented'
  BY <1>0a, <1>0b, <1>0c, <1>m
<1>n. ASSUME NEW h \in Handler, NEW label \in Label,
             pc' = [pc EXCEPT ![h] = label], req' = req, label \in Named => pc[h] \in Named
      PROVE  Parented'
  BY <1>0a, <1>0b, <1>0c, <1>n
<1> HIDE DEF Parented
<1>1. ASSUME NEW h \in Handler, Grant(h) \/ CountAgents(h) \/ StoreGauge(h) \/ Cancel(h)
                                \/ Notice(h) \/ TellWarning(h) \/ Fail(h)
      PROVE  Parented'
  <2>1. PICK label, r :
          /\ label \in {"online", "gauge", "idle"}
          /\ pc' = [pc EXCEPT ![h] = label] /\ req' = [req EXCEPT ![h] = r]
    BY <1>1 DEF Grant, CountAgents, StoreGauge, Cancel, Notice, TellWarning, Fail
  <2> QED
    BY <2>1, <1>m
<1>2. ASSUME NEW h \in Handler, Appear(h) \/ CreateFile(h) \/ FillFile(h) \/ InsertRow(h)
                                \/ AppendWarning(h) \/ SetHead(h) \/ Persist(h)
      PROVE  Parented'
  <2>1. PICK label \in Label :
          /\ pc' = [pc EXCEPT ![h] = label] /\ req' = req /\ (label \in Named => pc[h] \in Named)
    BY <1>2 DEF Appear, CreateFile, FillFile, InsertRow, AppendWarning, SetHead, Persist
  <2> QED
    BY <2>1, <1>n
<1>2a. ASSUME NEW h \in Handler, Announce(h) PROVE Parented'
  <2>1. pc[h] = "announce" /\ pc' = [pc EXCEPT ![h] = "inspect"]
    BY <1>2a, AnnounceEffect
  <2>2. PICK r : req' = [req EXCEPT ![h] = r] /\ r.parents = req[h].parents
    BY <1>2a, AnnounceEffect
  <2>3. r.parents \subseteq Stored
    BY <1>0c, <2>1, <2>2 DEF Parented
  <2> QED
    BY <2>1, <2>2, <2>3, <1>m
<1>3. ASSUME NEW h \in Handler, Accept(h) PROVE Parented'
  <2>1. PICK a \in Agent, chan \in Channel, sent \in Sent, parents \in Parents :
          Admit(h, a, chan, sent, parents)
    BY <1>3, Zenon DEF Accept
  <2>2. parents \subseteq Stored
    BY <2>1, ParentsAssumption DEF Admit, Stored
  <2>3. DeltaOf(a, chan, sent, parents).parents = parents
    BY DEF DeltaOf
  <2> QED
    BY <2>1, <2>2, <2>3, <1>m DEF Admit
<1>4. ASSUME NEW h \in Handler, PreparePayload(h) PROVE Parented'
  <2> DEFINE r == [req[h] EXCEPT !.content = Clean[req[h].content]]
             label == IF Clean[req[h].content] \in Large THEN "file" ELSE "route"
  <2>1. pc[h] = "prepare" /\ pc' = [pc EXCEPT ![h] = label]
    BY <1>4 DEF PreparePayload
  <2>2. req' = [req EXCEPT ![h] = r]
    BY <1>0a, <1>4 DEF PreparePayload
  <2>3. label \in {"file", "route"}
    OBVIOUS
  <2>4. req[h] \in Asked
    BY <1>0, <2>1 DEF RequestInv
  <2>5. r.parents = req[h].parents
    BY <2>4 DEF Asked
  <2>6. req[h].parents \subseteq Stored
    BY <1>0c, <2>1 DEF Parented
  <2> HIDE DEF r, label
  <2> QED
    BY <2>1, <2>2, <2>3, <2>5, <2>6, <1>m
<1>5. ASSUME NEW h \in Handler, Route(h) PROVE Parented'
  <2>1. CASE pc' = [pc EXCEPT ![h] = "notice"] /\ req' = req
    BY <1>5, <2>1, <1>n, RouteEffect
  <2>2. CASE ~(pc' = [pc EXCEPT ![h] = "notice"] /\ req' = req)
    <3>1. PICK r : /\ req' = [req EXCEPT ![h] = r] /\ pc' = [pc EXCEPT ![h] = "persist"]
                   /\ \/ r.parents = req[h].parents
                      \/ r.parents = {}
                      \/ r.parents = {heads[KeyOf(req[h])]} /\ heads[KeyOf(req[h])] # None
      BY <1>5, <2>2, RouteEffect
    <3>2. req[h] \in Asked /\ pc[h] = "route"
      BY <1>5, RouteEffect
    <3>3. KeyOf(req[h]) \in Key
      BY <3>2 DEF Asked, KeyOf, Key
    <3>4. r.parents \subseteq Stored
      BY <1>0c, <3>1, <3>2, <3>3 DEF Parented
    <3> QED
      BY <3>1, <3>4, <1>m
  <2> QED
    BY <2>1, <2>2
<1>6. ASSUME NEW h \in Handler, Inspect(h) PROVE Parented'
  <2>1. PICK label, r : /\ label \in {"idle", "warn"}
                        /\ pc' = [pc EXCEPT ![h] = label] /\ req' = [req EXCEPT ![h] = r]
    BY <1>6, InspectEffect, Zenon
  <2> QED
    BY <2>1, <1>m
<1>7. ASSUME Restart PROVE Parented'
  BY <1>7 DEF Restart, AllIdle, NoRequest, Parented
<1>8. ASSUME UNCHANGED vars PROVE Parented'
  BY <1>0b, <1>0c, <1>8 DEF vars, Parented
<1>c. Parented'
  BY <1>1, <1>2, <1>2a, <1>3, <1>4, <1>5, <1>6, <1>7, <1>8 DEF Next, Register, Publish
<1> QED
  BY <1>a, <1>b, <1>c DEF ParentInv, Parented

-----------------------------------------------------------------------------
(* Notices                                                                 *)

\* What is told more after a step, and whether it is true.
LEMMA ToldStep ==
    ASSUME BaseInv, CommitInv, NoticeInv, [Next]_vars
    PROVE  \A n \in told' \ told :
              /\ n.kind = "delta" =>
                    /\ Clean[n.content] = n.content
                    /\ n.commit # None => n.commit \in Stored /\ store[n.commit].content = n.content
              /\ n.kind = "warning" => n.warning \in warnings
<1> DEFINE Right(n) ==
              /\ n.kind = "delta" =>
                    /\ Clean[n.content] = n.content
                    /\ n.commit # None => n.commit \in Stored /\ store[n.commit].content = n.content
              /\ n.kind = "warning" => n.warning \in warnings
<1> USE DEF disk, memory, history
<1>0. RequestInv
  BY DEF BaseInv
<1>1. ASSUME NEW h \in Handler, Notice(h) PROVE \A n \in told' \ told : Right(n)
  <2>1. Clean[req[h].content] = req[h].content
    BY <1>0, <1>1 DEF Notice, RequestInv, Preparing
  <2>2. told' = told \cup {[kind |-> "delta", commit |-> None, content |-> req[h].content]}
    BY <1>1 DEF Notice
  <2> QED
    BY <2>1, <2>2
<1>2. ASSUME NEW h \in Handler, Announce(h) PROVE \A n \in told' \ told : Right(n)
  <2>1. /\ pc[h] = "announce"
        /\ told' = told \cup {[kind |-> "delta", commit |-> req[h].commit,
                               content |-> req[h].content]}
    BY <1>2, AnnounceEffect
  <2>2. Clean[req[h].content] = req[h].content
    BY <1>0, <2>1 DEF RequestInv, Persisting
  <2>3. req[h].commit \in Stored /\ store[req[h].commit] = CommitOf(req[h])
    BY <2>1 DEF CommitInv, Persisting
  <2>4. store[req[h].commit].content = req[h].content
    BY <2>3 DEF CommitOf
  <2> QED
    BY <2>1, <2>2, <2>3, <2>4
<1>3. ASSUME NEW h \in Handler, TellWarning(h) PROVE \A n \in told' \ told : Right(n)
  <2>1. req[h] \in warnings
    BY <1>3 DEF TellWarning, NoticeInv
  <2>2. told' = told \cup {[kind |-> "warning", warning |-> req[h]]}
    BY <1>3 DEF TellWarning
  <2> QED
    BY <2>1, <2>2
<1>4. ASSUME NEW h \in Handler, Register(h) \/ Fail(h) PROVE told' = told
  BY <1>4 DEF Register, Grant, Appear, CountAgents, StoreGauge, Fail
<1>5. ASSUME NEW h \in Handler, Publish(h), ~Inspect(h), ~Accept(h), ~Notice(h), ~Announce(h), ~TellWarning(h)
      PROVE  told' = told
  BY <1>5 DEF Publish, PreparePayload, CreateFile, FillFile, InsertRow, Route, Persist,
              SetHead, Cancel, AppendWarning
<1>6. ASSUME NEW h \in Handler, Inspect(h) PROVE told' = told
  BY <1>6, InspectEffect, Zenon
<1>7. ASSUME NEW h \in Handler, Accept(h) PROVE told' = told
  BY <1>7 DEF Accept, Admit
<1>8. ASSUME Restart \/ UNCHANGED vars PROVE told' = told
  BY <1>8 DEF Restart, vars
<1>9. ASSUME told' = told PROVE \A n \in told' \ told : Right(n)
  BY <1>9
<1> HIDE DEF Right
<1>10. \A n \in told' \ told : Right(n)
  BY <1>1, <1>2, <1>3, <1>4, <1>5, <1>6, <1>7, <1>8, <1>9 DEF Next
<1> QED
  BY <1>10 DEF Right

\* Every step keeps what is told true.
LEMMA NoticeStep == BaseInv /\ CommitInv /\ NoticeInv /\ [Next]_vars => NoticeInv'
<1> SUFFICES ASSUME BaseInv, CommitInv, NoticeInv, [Next]_vars PROVE NoticeInv'
  OBVIOUS
<1> USE DEF Label, disk, memory, history, Goto, Done
<1>0. Typed /\ RequestInv /\ NoticesTrue
  BY DEF BaseInv, NoticeInv
<1>0a. pc \in [Handler -> Label] /\ req = [h \in Handler |-> req[h]]
  BY <1>0 DEF Typed
<1> DEFINE FilesClean == \A c \in Content : files[c] # None => Clean[c] = c
           Telling == \A h \in Handler : pc[h] = "tell" => req[h] \in warnings
           Kept == warnings \subseteq warnings' /\ FilesClean' /\ Telling'
<1>0b. FilesClean /\ Telling
  BY <1>0 DEF NoticesTrue, NoticeInv
<1>m. ASSUME NEW h \in Handler, NEW label \in Label, NEW r, label # "tell",
             pc' = [pc EXCEPT ![h] = label], req' = [req EXCEPT ![h] = r],
             UNCHANGED <<warnings, files>>
      PROVE  Kept
  BY <1>0a, <1>0b, <1>m
<1>n. ASSUME NEW h \in Handler, NEW label \in Label, label # "tell",
             pc' = [pc EXCEPT ![h] = label], req' = req, UNCHANGED warnings,
             \/ files' = files
             \/ \E f : files' = [files EXCEPT ![req[h].content] = f] /\ pc[h] \in Preparing
      PROVE  Kept
  <2>1. Telling' /\ warnings \subseteq warnings'
    BY <1>0a, <1>0b, <1>n
  <2>2. CASE files' = files
    BY <1>0b, <2>1, <2>2
  <2>3. CASE \E f : files' = [files EXCEPT ![req[h].content] = f] /\ pc[h] \in Preparing
    <3>1. Clean[req[h].content] = req[h].content
      BY <1>0, <2>3 DEF RequestInv
    <3> QED
      BY <1>0, <1>0b, <2>1, <2>3, <3>1 DEF Typed
  <2> QED
    BY <1>n, <2>2, <2>3
<1> HIDE DEF Kept
<1>1. ASSUME NEW h \in Handler, Grant(h) \/ CountAgents(h) \/ StoreGauge(h) \/ Cancel(h)
                                \/ Notice(h) \/ TellWarning(h)
      PROVE  Kept
  <2>1. PICK label, r :
          /\ label \in {"online", "gauge", "idle"}
          /\ pc' = [pc EXCEPT ![h] = label] /\ req' = [req EXCEPT ![h] = r]
          /\ UNCHANGED <<warnings, files>>
    BY <1>1 DEF Grant, CountAgents, StoreGauge, Cancel, Notice, TellWarning
  <2> QED
    BY <2>1, <1>m
<1>2. ASSUME NEW h \in Handler, Appear(h) \/ InsertRow(h) \/ SetHead(h) \/ Persist(h)
      PROVE  Kept
  <2>1. PICK label \in Label \ {"tell"} :
          pc' = [pc EXCEPT ![h] = label] /\ req' = req /\ UNCHANGED <<warnings, files>>
    BY <1>2 DEF Appear, InsertRow, SetHead, Persist
  <2> QED
    BY <2>1, <1>n
<1>2a. ASSUME NEW h \in Handler, Announce(h) PROVE Kept
  <2>1. pc' = [pc EXCEPT ![h] = "inspect"] /\ UNCHANGED <<warnings, files>>
    BY <1>2a, AnnounceEffect
  <2>2. PICK r : req' = [req EXCEPT ![h] = r]
    BY <1>2a, AnnounceEffect
  <2> QED
    BY <2>1, <2>2, <1>m
<1>3. ASSUME NEW h \in Handler, CreateFile(h) \/ FillFile(h) PROVE Kept
  <2>1. /\ pc[h] \in {"file", "fill"} /\ req' = req /\ UNCHANGED warnings
        /\ \E label \in {"fill", "row"} : pc' = [pc EXCEPT ![h] = label]
        /\ \E f : files' = [files EXCEPT ![req[h].content] = f]
    BY <1>3 DEF CreateFile, FillFile
  <2> QED
    BY <2>1, <1>n DEF Preparing
<1>4. ASSUME NEW h \in Handler, Accept(h) PROVE Kept
  <2>1. PICK a \in Agent, chan \in Channel, sent \in Sent, parents \in Parents :
          Admit(h, a, chan, sent, parents)
    BY <1>4, Zenon DEF Accept
  <2> QED
    BY <2>1, <1>m DEF Admit
<1>5. ASSUME NEW h \in Handler, PreparePayload(h) PROVE Kept
  <2> DEFINE r == [req[h] EXCEPT !.content = Clean[req[h].content]]
             label == IF Clean[req[h].content] \in Large THEN "file" ELSE "route"
  <2>1. pc' = [pc EXCEPT ![h] = label] /\ UNCHANGED <<warnings, files>>
    BY <1>5 DEF PreparePayload
  <2>2. req' = [req EXCEPT ![h] = r]
    BY <1>0a, <1>5 DEF PreparePayload
  <2>3. label \in {"file", "route"}
    OBVIOUS
  <2> HIDE DEF r, label
  <2> QED
    BY <2>1, <2>2, <2>3, <1>m
<1>6. ASSUME NEW h \in Handler, Route(h) PROVE Kept
  <2>0. UNCHANGED <<warnings, files>>
    BY <1>6, RouteEffect
  <2>1. CASE pc' = [pc EXCEPT ![h] = "notice"] /\ req' = req
    BY <2>0, <2>1, <1>n
  <2>2. CASE ~(pc' = [pc EXCEPT ![h] = "notice"] /\ req' = req)
    <3>1. PICK r : req' = [req EXCEPT ![h] = r] /\ pc' = [pc EXCEPT ![h] = "persist"]
      BY <1>6, <2>2, RouteEffect
    <3> QED
      BY <2>0, <3>1, <1>m
  <2> QED
    BY <2>1, <2>2
<1>7. ASSUME NEW h \in Handler, Inspect(h) PROVE Kept
  <2>1. PICK label, r : /\ label \in {"idle", "warn"}
                        /\ pc' = [pc EXCEPT ![h] = label] /\ req' = [req EXCEPT ![h] = r]
    BY <1>7, InspectEffect, Zenon
  <2>2. UNCHANGED <<warnings, files>>
    BY <1>7, InspectEffect, Zenon
  <2> QED
    BY <2>1, <2>2, <1>m
<1>8. ASSUME NEW h \in Handler, AppendWarning(h) PROVE Kept
  <2>1. /\ warnings' = warnings \cup {req[h]} /\ pc' = [pc EXCEPT ![h] = "tell"]
        /\ req' = req /\ files' = files
    BY <1>8 DEF AppendWarning
  <2> QED
    BY <1>0a, <1>0b, <2>1 DEF Kept
<1>9. ASSUME NEW h \in Handler, Fail(h) PROVE Kept
  <2>1. /\ pc' = [pc EXCEPT ![h] = "idle"] /\ req' = [req EXCEPT ![h] = None] /\ UNCHANGED warnings
        /\ \/ files' = files
           \/ pc[h] = "fill" /\ files' = [files EXCEPT ![req[h].content] = "torn"]
    BY <1>9 DEF Fail
  <2>2. Telling' /\ warnings \subseteq warnings'
    BY <1>0a, <1>0b, <2>1
  <2>3. pc[h] = "fill" => Clean[req[h].content] = req[h].content
    BY <1>0 DEF RequestInv, Preparing
  <2>4. FilesClean'
    BY <1>0, <1>0b, <2>1, <2>3 DEF Typed
  <2> QED
    BY <2>2, <2>4 DEF Kept
<1>10. ASSUME Restart PROVE Kept
  BY <1>0b, <1>10 DEF Restart, AllIdle, NoRequest, Kept
<1>11. ASSUME UNCHANGED vars PROVE Kept
  BY <1>0b, <1>11 DEF vars, Kept
<1>a. Kept
  BY <1>1, <1>2, <1>2a, <1>3, <1>4, <1>5, <1>6, <1>7, <1>8, <1>9, <1>10, <1>11 DEF Next, Register, Publish
<1>b. \A c \in Stored' : Clean[store'[c].content] = store'[c].content
  <2>1. CASE \A h \in Handler : ~Persist(h)
    BY <1>0, <2>1, StoreKept DEF NoticesTrue, Stored
  <2>2. ASSUME NEW h \in Handler, Persist(h)
        PROVE  \A c \in Stored' : Clean[store'[c].content] = store'[c].content
    <3>1. Clean[req[h].content] = req[h].content
      BY <1>0, <2>2 DEF Persist, RequestInv, Persisting
    <3>2. /\ store' = [store EXCEPT ![req[h].commit] = CommitOf(req[h])]
          /\ CommitOf(req[h]).content = req[h].content
      BY <2>2, PersistEffect DEF CommitOf
    <3> QED
      BY <1>0, <3>1, <3>2 DEF Stored, Typed, NoticesTrue
  <2> QED
    BY <2>1, <2>2
<1>c. ASSUME NEW n \in told'
      PROVE  /\ n.kind = "delta" =>
                   /\ Clean[n.content] = n.content
                   /\ n.commit # None => n.commit \in Stored' /\ store'[n.commit].content = n.content
             /\ n.kind = "warning" => n.warning \in warnings'
  <2>1. /\ n.kind = "delta" =>
              /\ Clean[n.content] = n.content
              /\ n.commit # None => n.commit \in Stored /\ store[n.commit].content = n.content
        /\ n.kind = "warning" => n.warning \in warnings
    BY <1>0, ToldStep DEF NoticesTrue
  <2>2. warnings \subseteq warnings'
    BY <1>a DEF Kept
  <2> QED
    BY <2>1, <2>2, StoreGrows
<1>d. FilesClean' /\ Telling'
  BY <1>a DEF Kept
<1>e. NoticesTrue'
  BY <1>b, <1>c, <1>d DEF NoticesTrue
<1> QED
  BY <1>d, <1>e DEF NoticeInv

-----------------------------------------------------------------------------
(* Artifacts                                                               *)

\* Every step leaves a row that names the form of its file, but for puts
\* under way or cut short.
LEMMA PutStep == BaseInv /\ PutInv /\ [Next]_vars => PutInv'
<1> SUFFICES ASSUME BaseInv, PutInv, [Next]_vars PROVE PutInv'
  OBVIOUS
<1> USE DEF Label, disk, memory, history, Goto, Done, Putting, Readable
<1>0. Typed /\ RequestInv
  BY DEF BaseInv
<1>0a. pc \in [Handler -> Label] /\ req = [h \in Handler |-> req[h]]
  BY <1>0 DEF Typed
\* A handler that is not putting before or after changes nothing here.
<1>m. ASSUME NEW h \in Handler, NEW label \in Label \ {"fill", "row"}, NEW r,
             pc[h] \notin {"fill", "row"},
             pc' = [pc EXCEPT ![h] = label], req' = [req EXCEPT ![h] = r],
             UNCHANGED <<rows, files, spoiled, form>>
      PROVE  PutInv'
  <2>1. \A g \in Handler : pc'[g] \in {"fill", "row"} <=> pc[g] \in {"fill", "row"}
    BY <1>0a, <1>m
  <2>2. \A g \in Handler : pc[g] \in {"fill", "row"} => pc'[g] = pc[g] /\ req'[g] = req[g]
    BY <1>0a, <1>m
  <2>3. \A c \in Content : rows'[c] # None => Readable(c)' \/ Putting(c)' # {} \/ c \in spoiled'
    BY <1>m, <2>1, <2>2 DEF PutInv
  <2>4. ASSUME NEW g \in Handler, pc'[g] = "row"
        PROVE  \/ files'[req'[g].content] = form'
               \/ req'[g].content \in spoiled'
               \/ \E f \in Handler : pc'[f] = "fill" /\ req'[f].content = req'[g].content
    BY <1>m, <2>1, <2>2, <2>4 DEF PutInv
  <2> QED
    BY <2>3, <2>4 DEF PutInv
<1>n. ASSUME NEW h \in Handler, NEW label \in Label \ {"fill", "row"},
             pc[h] \notin {"fill", "row"}, pc' = [pc EXCEPT ![h] = label], req' = req,
             UNCHANGED <<rows, files, spoiled, form>>
      PROVE  PutInv'
  <2>1. req' = [req EXCEPT ![h] = req[h]]
    BY <1>0a, <1>n
  <2> QED
    BY <1>n, <2>1, <1>m
<1>1. ASSUME NEW h \in Handler, Grant(h) \/ CountAgents(h) \/ StoreGauge(h) \/ Cancel(h)
                                \/ Notice(h) \/ TellWarning(h)
      PROVE  PutInv'
  <2>1. PICK label, r :
          /\ label \in {"online", "gauge", "idle"}
          /\ pc' = [pc EXCEPT ![h] = label] /\ req' = [req EXCEPT ![h] = r]
          /\ UNCHANGED <<rows, files, spoiled, form>>
    BY <1>1 DEF Grant, CountAgents, StoreGauge, Cancel, Notice, TellWarning
  <2>2. pc[h] \notin {"fill", "row"}
    BY <1>1 DEF Grant, CountAgents, StoreGauge, Cancel, Notice, TellWarning
  <2> QED
    BY <2>1, <2>2, <1>m
<1>2. ASSUME NEW h \in Handler, Appear(h) \/ SetHead(h) \/ Persist(h) \/ AppendWarning(h)
      PROVE  PutInv'
  <2>1. PICK label \in Label \ {"fill", "row"} :
          /\ pc' = [pc EXCEPT ![h] = label] /\ req' = req
          /\ UNCHANGED <<rows, files, spoiled, form>>
    BY <1>2 DEF Appear, SetHead, Persist, AppendWarning
  <2>2. pc[h] \notin {"fill", "row"}
    BY <1>2 DEF Appear, SetHead, Persist, AppendWarning
  <2> QED
    BY <2>1, <2>2, <1>n
<1>2a. ASSUME NEW h \in Handler, Announce(h) PROVE PutInv'
  <2>1. /\ pc[h] = "announce" /\ pc' = [pc EXCEPT ![h] = "inspect"]
        /\ UNCHANGED <<rows, files, spoiled, form>>
    BY <1>2a, AnnounceEffect
  <2>2. PICK r : req' = [req EXCEPT ![h] = r]
    BY <1>2a, AnnounceEffect
  <2> QED
    BY <2>1, <2>2, <1>m
<1>3. ASSUME NEW h \in Handler, Accept(h) PROVE PutInv'
  <2>1. PICK a \in Agent, chan \in Channel, sent \in Sent, parents \in Parents :
          Admit(h, a, chan, sent, parents)
    BY <1>3, Zenon DEF Accept
  <2> QED
    BY <2>1, <1>m DEF Admit
<1>4. ASSUME NEW h \in Handler, PreparePayload(h) PROVE PutInv'
  <2> DEFINE r == [req[h] EXCEPT !.content = Clean[req[h].content]]
             label == IF Clean[req[h].content] \in Large THEN "file" ELSE "route"
  <2>1. /\ pc[h] = "prepare" /\ pc' = [pc EXCEPT ![h] = label]
        /\ UNCHANGED <<rows, files, spoiled, form>>
    BY <1>4 DEF PreparePayload
  <2>2. req' = [req EXCEPT ![h] = r]
    BY <1>0a, <1>4 DEF PreparePayload
  <2>3. label \in {"file", "route"}
    OBVIOUS
  <2> HIDE DEF r, label
  <2> QED
    BY <2>1, <2>2, <2>3, <1>m
<1>5. ASSUME NEW h \in Handler, Route(h) PROVE PutInv'
  <2>1. pc[h] = "route" /\ UNCHANGED <<rows, files, spoiled, form>>
    BY <1>5, RouteEffect
  <2>2. CASE pc' = [pc EXCEPT ![h] = "notice"] /\ req' = req
    BY <2>1, <2>2, <1>n
  <2>3. CASE ~(pc' = [pc EXCEPT ![h] = "notice"] /\ req' = req)
    <3>1. PICK r : req' = [req EXCEPT ![h] = r] /\ pc' = [pc EXCEPT ![h] = "persist"]
      BY <1>5, <2>3, RouteEffect
    <3> QED
      BY <2>1, <3>1, <1>m
  <2> QED
    BY <2>2, <2>3
<1>6. ASSUME NEW h \in Handler, Inspect(h) PROVE PutInv'
  <2>1. PICK label, r : /\ label \in {"idle", "warn"}
                        /\ pc' = [pc EXCEPT ![h] = label] /\ req' = [req EXCEPT ![h] = r]
    BY <1>6, InspectEffect, Zenon
  <2>2. pc[h] = "inspect" /\ UNCHANGED <<rows, files, spoiled, form>>
    BY <1>6, InspectEffect, Zenon
  <2> QED
    BY <2>1, <2>2, <1>m
<1>7. ASSUME NEW h \in Handler, CreateFile(h) PROVE PutInv'
  <2> DEFINE c == req[h].content
  <2>1. /\ pc[h] = "file" /\ pc' = [pc EXCEPT ![h] = "fill"]
        /\ files' = [files EXCEPT ![c] = "torn"] /\ spoiled' = spoiled \ {c}
        /\ UNCHANGED <<req, rows, form>>
    BY <1>7 DEF CreateFile
  <2>2. h \in Putting(c)' /\ pc'[h] = "fill" /\ req'[h].content = c
    BY <1>0a, <2>1
  <2>3. \A g \in Handler : pc[g] \in {"fill", "row"} => pc'[g] = pc[g]
    BY <1>0a, <2>1
  <2>4. ASSUME NEW d \in Content, rows'[d] # None
        PROVE  Readable(d)' \/ Putting(d)' # {} \/ d \in spoiled'
    <3>1. CASE d = c
      BY <2>2, <3>1
    <3>2. CASE d # c
      BY <1>0, <2>1, <2>3, <2>4, <3>2 DEF PutInv, Typed
    <3> QED
      BY <3>1, <3>2
  <2>5. ASSUME NEW g \in Handler, pc'[g] = "row"
        PROVE  \/ files'[req'[g].content] = form'
               \/ req'[g].content \in spoiled'
               \/ \E f \in Handler : pc'[f] = "fill" /\ req'[f].content = req'[g].content
    <3>1. CASE req[g].content = c
      BY <2>1, <2>2, <3>1
    <3>2. CASE req[g].content # c
      <4>1. pc[g] = "row" /\ req[g] \in Asked
        BY <1>0, <1>0a, <2>1, <2>5 DEF RequestInv, Preparing
      <4>2. files'[req[g].content] = files[req[g].content]
        BY <1>0, <2>1, <3>2, <4>1 DEF Typed, Asked
      <4> QED
        BY <2>1, <2>3, <3>2, <4>1, <4>2 DEF PutInv
    <3> QED
      BY <3>1, <3>2
  <2> QED
    BY <2>4, <2>5 DEF PutInv
<1>8. ASSUME NEW h \in Handler, FillFile(h) PROVE PutInv'
  <2> DEFINE c == req[h].content
             others == \E g \in Handler \ {h} : pc[g] = "fill" /\ req[g].content = c
  <2>1. /\ pc[h] = "fill" /\ pc' = [pc EXCEPT ![h] = "row"]
        /\ UNCHANGED <<req, rows, form, spoiled>>
    BY <1>8 DEF FillFile
  <2>2. PICK f : files' = [files EXCEPT ![c] = f] /\ (~others => f = form)
    BY <1>8 DEF FillFile
  <2>3. h \in Putting(c)'
    BY <1>0a, <2>1
  <2>4. \A g \in Handler : g # h => pc'[g] = pc[g]
    BY <1>0a, <2>1
  <2>5. req[h] \in Asked /\ c \in Content
    BY <1>0, <2>1 DEF RequestInv, Preparing, Asked
  <2>6. ASSUME NEW d \in Content, rows'[d] # None
        PROVE  Readable(d)' \/ Putting(d)' # {} \/ d \in spoiled'
    <3>1. CASE d = c
      BY <2>1, <2>3, <3>1
    <3>2. CASE d # c
      <4>1. files'[d] = files[d]
        BY <1>0, <2>2, <3>2 DEF Typed
      <4>2. \A g \in Putting(d) : g \in Putting(d)'
        BY <2>1, <2>4, <3>2
      <4> QED
        BY <2>1, <2>6, <4>1, <4>2 DEF PutInv
    <3> QED
      BY <3>1, <3>2
  <2>7. ASSUME NEW g \in Handler, pc'[g] = "row"
        PROVE  \/ files'[req'[g].content] = form'
               \/ req'[g].content \in spoiled'
               \/ \E e \in Handler : pc'[e] = "fill" /\ req'[e].content = req'[g].content
    <3>1. CASE req[g].content = c
      <4>1. CASE others
        BY <2>1, <2>4, <3>1, <4>1
      <4>2. CASE ~others
        BY <1>0, <2>1, <2>2, <2>5, <3>1, <4>2 DEF Typed
      <4> QED
        BY <4>1, <4>2
    <3>2. CASE req[g].content # c
      <4>1. g # h /\ pc[g] = "row" /\ req[g] \in Asked
        BY <1>0, <2>1, <2>4, <2>7, <3>2 DEF RequestInv, Preparing
      <4>2. files'[req[g].content] = files[req[g].content]
        BY <1>0, <2>2, <3>2, <4>1 DEF Typed, Asked
      <4> QED
        BY <2>1, <2>4, <3>2, <4>1, <4>2 DEF PutInv
    <3> QED
      BY <3>1, <3>2
  <2> QED
    BY <2>6, <2>7 DEF PutInv
<1>9. ASSUME NEW h \in Handler, InsertRow(h) PROVE PutInv'
  <2> DEFINE c == req[h].content
  <2>1. /\ pc[h] = "row" /\ pc' = [pc EXCEPT ![h] = "route"] /\ rows' = [rows EXCEPT ![c] = form]
        /\ UNCHANGED <<req, files, form, spoiled>>
    BY <1>9 DEF InsertRow
  <2>2. req[h] \in Asked /\ c \in Content
    BY <1>0, <2>1 DEF RequestInv, Preparing, Asked
  <2>3. \A g \in Handler : g # h => pc'[g] = pc[g]
    BY <1>0a, <2>1
  <2>4. pc'[h] = "route"
    BY <1>0a, <2>1
  <2>5. ASSUME NEW d \in Content, rows'[d] # None
        PROVE  Readable(d)' \/ Putting(d)' # {} \/ d \in spoiled'
    <3>1. CASE d = c
      <4>1. rows'[c] = form
        BY <1>0, <2>1, <2>2 DEF Typed
      <4>2. \/ files[c] = form \/ c \in spoiled
            \/ \E g \in Handler : pc[g] = "fill" /\ req[g].content = c
        BY <2>1 DEF PutInv
      <4>3. ASSUME NEW g \in Handler, pc[g] = "fill", req[g].content = c PROVE g \in Putting(c)'
        BY <2>1, <2>3, <4>3
      <4> QED
        BY <2>1, <2>5, <3>1, <4>1, <4>2, <4>3
    <3>2. CASE d # c
      <4>1. rows'[d] = rows[d]
        BY <1>0, <2>1, <3>2 DEF Typed
      <4>2. \A g \in Putting(d) : g \in Putting(d)'
        BY <2>1, <2>3, <3>2
      <4> QED
        BY <2>1, <2>5, <4>1, <4>2 DEF PutInv
    <3> QED
      BY <3>1, <3>2
  <2>6. ASSUME NEW g \in Handler, pc'[g] = "row"
        PROVE  \/ files'[req'[g].content] = form'
               \/ req'[g].content \in spoiled'
               \/ \E e \in Handler : pc'[e] = "fill" /\ req'[e].content = req'[g].content
    <3>1. g # h /\ pc[g] = "row"
      BY <2>3, <2>4, <2>6
    <3>2. \A e \in Handler : pc[e] = "fill" => pc'[e] = "fill"
      BY <2>1, <2>3
    <3> QED
      BY <2>1, <3>1, <3>2 DEF PutInv
  <2> QED
    BY <2>5, <2>6 DEF PutInv
<1>10. ASSUME NEW h \in Handler, Fail(h) PROVE PutInv'
  <2> DEFINE c == req[h].content
  <2>1. /\ pc' = [pc EXCEPT ![h] = "idle"] /\ req' = [req EXCEPT ![h] = None]
        /\ UNCHANGED <<rows, form>>
    BY <1>10 DEF Fail
  <2>2. CASE pc[h] \notin {"fill", "row"}
    BY <1>10, <2>1, <2>2, <1>m DEF Fail
  <2>3. CASE pc[h] \in {"fill", "row"}
    <3>1. /\ spoiled' = spoiled \cup {c}
          /\ files' = files \/ files' = [files EXCEPT ![c] = "torn"]
      BY <1>10, <2>3 DEF Fail
    <3>2. \A g \in Handler : g # h => pc'[g] = pc[g] /\ req'[g] = req[g]
      BY <1>0a, <2>1
    <3>3. pc'[h] = "idle"
      BY <1>0a, <2>1
    <3>4. \A d \in Content : d # c => files'[d] = files[d]
      BY <1>0, <3>1 DEF Typed
    <3>5. ASSUME NEW d \in Content, rows'[d] # None
          PROVE  Readable(d)' \/ Putting(d)' # {} \/ d \in spoiled'
      <4>1. CASE d = c
        BY <3>1, <4>1
      <4>2. CASE d # c
        <5>1. \A g \in Putting(d) : g \in Putting(d)'
          BY <3>2, <4>2
        <5> QED
          BY <2>1, <3>1, <3>4, <3>5, <4>2, <5>1 DEF PutInv
      <4> QED
        BY <4>1, <4>2
    <3>6. ASSUME NEW g \in Handler, pc'[g] = "row"
          PROVE  \/ files'[req'[g].content] = form'
                 \/ req'[g].content \in spoiled'
                 \/ \E e \in Handler : pc'[e] = "fill" /\ req'[e].content = req'[g].content
      <4>1. g # h /\ pc[g] = "row" /\ req'[g] = req[g] /\ req[g].content \in Content
        BY <1>0, <3>2, <3>3, <3>6 DEF RequestInv, Preparing, Asked
      <4>2. CASE req[g].content = c
        BY <3>1, <4>1, <4>2
      <4>3. CASE req[g].content # c
        <5>1. \A e \in Handler : pc[e] = "fill" /\ req[e].content = req[g].content =>
                                   pc'[e] = "fill" /\ req'[e] = req[e]
          BY <3>2, <4>3
        <5> QED
          BY <2>1, <3>1, <3>4, <4>1, <4>3, <5>1 DEF PutInv
      <4> QED
        BY <4>2, <4>3
    <3> QED
      BY <3>5, <3>6 DEF PutInv
  <2> QED
    BY <2>2, <2>3
<1>11. CASE Restart
  BY <1>11 DEF Restart, AllIdle, NoRequest, PutInv
<1>12. CASE UNCHANGED vars
  BY <1>12 DEF vars, PutInv
<1> QED
  BY <1>1, <1>2, <1>2a, <1>3, <1>4, <1>5, <1>6, <1>7, <1>8, <1>9, <1>10, <1>11, <1>12
  DEF Next, Register, Publish

\* Every step leaves large contents of commits with their rows.
LEMMA RowStep == BaseInv /\ CommitInv /\ RowInv /\ [Next]_vars => RowInv'
<1> SUFFICES ASSUME BaseInv, CommitInv, RowInv, [Next]_vars PROVE RowInv'
  OBVIOUS
<1> USE DEF Label, Persisting, disk, memory, history, Goto, Done
<1> DEFINE Past == {"route", "notice"} \cup Persisting
           HasRow(c) == c \in Large => rows[c] # None
           Held == \A h \in Handler : pc[h] \in Past => HasRow(req[h].content)
<1>0. Typed /\ RequestInv /\ Held
  BY DEF BaseInv, RowInv
<1>0a. pc \in [Handler -> Label] /\ req = [h \in Handler |-> req[h]]
  BY <1>0 DEF Typed
<1>m. ASSUME NEW h \in Handler, NEW label \in Label, NEW r,
             pc' = [pc EXCEPT ![h] = label], req' = [req EXCEPT ![h] = r],
             rows' = rows, label \in Past => HasRow(r.content)
      PROVE  Held' /\ (\A c \in Content : rows[c] # None => rows'[c] # None)
  BY <1>0, <1>0a, <1>m
<1>n. ASSUME NEW h \in Handler, NEW label \in Label,
             pc' = [pc EXCEPT ![h] = label], req' = req,
             rows' = rows, label \in Past => pc[h] \in Past
      PROVE  Held' /\ (\A c \in Content : rows[c] # None => rows'[c] # None)
  BY <1>0, <1>0a, <1>n
<1> DEFINE Goal == Held' /\ (\A c \in Content : rows[c] # None => rows'[c] # None)
<1>1. ASSUME NEW h \in Handler, Grant(h) \/ CountAgents(h) \/ StoreGauge(h) \/ Cancel(h)
                                \/ Notice(h) \/ TellWarning(h) \/ Fail(h)
      PROVE  Goal
  <2>1. PICK label, r :
          /\ label \in {"online", "gauge", "idle"}
          /\ pc' = [pc EXCEPT ![h] = label] /\ req' = [req EXCEPT ![h] = r] /\ rows' = rows
    BY <1>1 DEF Grant, CountAgents, StoreGauge, Cancel, Notice, TellWarning, Fail
  <2> HIDE DEF Held, HasRow
  <2> QED
    BY <2>1, <1>m
<1>2. ASSUME NEW h \in Handler, Appear(h) \/ SetHead(h) \/ Persist(h)
                                \/ AppendWarning(h) \/ CreateFile(h) \/ FillFile(h)
      PROVE  Goal
  <2>1. PICK label \in Label :
          /\ pc' = [pc EXCEPT ![h] = label] /\ req' = req /\ rows' = rows
          /\ (label \in Past => pc[h] \in Past)
    BY <1>2 DEF Appear, SetHead, Persist, AppendWarning, CreateFile, FillFile
  <2> HIDE DEF Held, HasRow
  <2> QED
    BY <2>1, <1>n
<1>2a. ASSUME NEW h \in Handler, Announce(h) PROVE Goal
  <2>1. pc[h] = "announce" /\ pc' = [pc EXCEPT ![h] = "inspect"] /\ rows' = rows
    BY <1>2a, AnnounceEffect
  <2>2. PICK r : req' = [req EXCEPT ![h] = r] /\ r.content = req[h].content
    BY <1>2a, AnnounceEffect
  <2>3. HasRow(r.content)
    BY <1>0, <2>1, <2>2
  <2> HIDE DEF Held, HasRow
  <2> QED
    BY <2>1, <2>2, <2>3, <1>m
<1>3. ASSUME NEW h \in Handler, Accept(h) PROVE Goal
  <2>1. PICK a \in Agent, chan \in Channel, sent \in Sent, parents \in Parents :
          Admit(h, a, chan, sent, parents)
    BY <1>3, Zenon DEF Accept
  <2> HIDE DEF Held, HasRow
  <2> QED
    BY <2>1, <1>m DEF Admit
<1>4. ASSUME NEW h \in Handler, PreparePayload(h) PROVE Goal
  <2> DEFINE r == [req[h] EXCEPT !.content = Clean[req[h].content]]
             label == IF Clean[req[h].content] \in Large THEN "file" ELSE "route"
  <2>1. pc[h] = "prepare" /\ pc' = [pc EXCEPT ![h] = label] /\ rows' = rows
    BY <1>4 DEF PreparePayload
  <2>2. req' = [req EXCEPT ![h] = r]
    BY <1>0a, <1>4 DEF PreparePayload
  <2>3. req[h] \in Asked
    BY <1>0, <2>1 DEF RequestInv
  <2>4. r.content = Clean[req[h].content]
    BY <2>3 DEF Asked
  <2>5. label \in {"file", "route"} /\ (label = "route" => r.content \notin Large)
    BY <2>4
  <2> HIDE DEF r, label, Held
  <2> QED
    BY <2>1, <2>2, <2>5, <1>m
<1>5. ASSUME NEW h \in Handler, InsertRow(h) PROVE Goal
  <2>1. /\ pc[h] = "row" /\ pc' = [pc EXCEPT ![h] = "route"] /\ req' = req
        /\ rows' = [rows EXCEPT ![req[h].content] = form]
    BY <1>5 DEF InsertRow
  <2>2. form # None /\ req[h].content \in Content
    BY <1>0, <2>1, FormAssumption DEF Typed, RequestInv, Preparing, Asked
  <2>3. \A c \in Content : rows[c] # None => rows'[c] # None
    BY <1>0, <2>1, <2>2 DEF Typed
  <2>4. rows'[req[h].content] # None
    BY <1>0, <2>1, <2>2 DEF Typed
  <2>5. Large \subseteq Content
    BY CleanAssumption
  <2>6. ASSUME NEW g \in Handler, pc'[g] \in Past, req'[g].content \in Large
        PROVE  rows'[req'[g].content] # None
    <3>1. CASE g = h
      BY <2>1, <2>4, <3>1
    <3>2. CASE g # h
      BY <1>0, <1>0a, <2>1, <2>3, <2>5, <2>6, <3>2
    <3> QED
      BY <3>1, <3>2
  <2> QED
    BY <2>3, <2>6
<1>6. ASSUME NEW h \in Handler, Route(h) PROVE Goal
  <2>1. pc[h] = "route" /\ rows' = rows
    BY <1>6, RouteEffect
  <2>2. CASE pc' = [pc EXCEPT ![h] = "notice"] /\ req' = req
    BY <2>1, <2>2, <1>n
  <2>3. CASE ~(pc' = [pc EXCEPT ![h] = "notice"] /\ req' = req)
    <3>1. PICK r : /\ req' = [req EXCEPT ![h] = r] /\ r.content = req[h].content
                      /\ pc' = [pc EXCEPT ![h] = "persist"]
      BY <1>6, <2>3, RouteEffect
    <3>2. HasRow(req[h].content)
      BY <1>0, <2>1
    <3>3. HasRow(r.content)
      BY <3>1, <3>2
    <3> HIDE DEF Held, HasRow
    <3> QED
      BY <2>1, <3>1, <3>3, <1>m
  <2> QED
    BY <2>2, <2>3
<1>7. ASSUME NEW h \in Handler, Inspect(h) PROVE Goal
  <2>1. PICK label, r : /\ label \in {"idle", "warn"}
                        /\ pc' = [pc EXCEPT ![h] = label] /\ req' = [req EXCEPT ![h] = r]
    BY <1>7, InspectEffect, Zenon
  <2>2. rows' = rows
    BY <1>7, InspectEffect, Zenon
  <2> HIDE DEF Held, HasRow
  <2> QED
    BY <2>1, <2>2, <1>m
<1>8. ASSUME Restart PROVE Goal
  BY <1>8 DEF Restart, AllIdle, NoRequest
<1>9. ASSUME UNCHANGED vars PROVE Goal
  BY <1>0, <1>9 DEF vars
<1> HIDE DEF Goal
<1>a. Goal
  BY <1>1, <1>2, <1>2a, <1>3, <1>4, <1>5, <1>6, <1>7, <1>8, <1>9 DEF Next, Register, Publish
<1>b. Held' /\ (\A c \in Content : rows[c] # None => rows'[c] # None)
  BY <1>a DEF Goal
<1>c. \A c \in Stored' : store'[c].content \in Large => rows'[store'[c].content] # None
  <2>0. Large \subseteq Content
    BY CleanAssumption
  <2>1. CASE \A h \in Handler : ~Persist(h)
    BY <1>b, <2>0, <2>1, StoreKept DEF RowInv, Stored
  <2>2. ASSUME NEW h \in Handler, Persist(h), NEW c \in Stored', store'[c].content \in Large
        PROVE  rows'[store'[c].content] # None
    <3>1. HasRow(req[h].content)
      BY <1>0, <2>2 DEF Persist
    <3>2. /\ store' = [store EXCEPT ![req[h].commit] = CommitOf(req[h])]
          /\ CommitOf(req[h]).content = req[h].content
      BY <2>2, PersistEffect DEF CommitOf
    <3>3. c \in Stored \/ store'[c].content = req[h].content
      BY <1>0, <3>2 DEF Stored, Typed
    <3>4. CASE c \in Stored
      <4>1. store'[c] = store[c]
        BY <3>4, StoreGrows
      <4> QED
        BY <1>b, <2>0, <2>2, <3>4, <4>1 DEF RowInv
    <3>5. CASE store'[c].content = req[h].content
      BY <1>b, <2>0, <2>2, <3>1, <3>5
    <3> QED
      BY <3>3, <3>4, <3>5
  <2> QED
    BY <2>1, <2>2
<1> QED
  BY <1>b, <1>c DEF RowInv

-----------------------------------------------------------------------------
(* Presence                                                                *)

\* Nobody but a registration touches presence.
LEMMA PresenceKept ==
    ASSUME BaseInv, NEW h \in Handler, Publish(h) \/ Fail(h)
    PROVE  /\ \A g \in Handler : /\ pc[g] \in Registering => pc'[g] = pc[g] /\ req'[g] = req[g]
                                 /\ pc'[g] \in Registering => pc[g] \in Registering
           /\ UNCHANGED <<presence, grants, gauge, overlap>>
<1> USE DEF Label, Registering, disk, memory, history, Goto, Done
<1>0. pc \in [Handler -> Label] /\ req = [g \in Handler |-> req[g]]
  BY DEF BaseInv, Typed
<1>k. UNCHANGED <<presence, grants, gauge, overlap>>
  <2>1. ASSUME Inspect(h) PROVE UNCHANGED <<presence, grants, gauge, overlap>>
    BY <2>1, InspectEffect, Zenon
  <2>2. ASSUME Route(h) PROVE UNCHANGED <<presence, grants, gauge, overlap>>
    BY <2>2, RouteEffect
  <2> QED
    BY <2>1, <2>2 DEF Publish, Accept, Admit, PreparePayload, CreateFile, FillFile, InsertRow,
                      Persist, SetHead, Notice, Announce, AnnounceTo, Cancel, AppendWarning,
                      TellWarning, Fail
<1> DEFINE Goal == \A g \in Handler : /\ pc[g] \in Registering => pc'[g] = pc[g] /\ req'[g] = req[g]
                                      /\ pc'[g] \in Registering => pc[g] \in Registering
<1>m. ASSUME NEW label \in Label \ Registering, NEW r, pc[h] \notin Registering,
             pc' = [pc EXCEPT ![h] = label], req' = [req EXCEPT ![h] = r]
      PROVE  Goal
  BY <1>0, <1>m
<1>n. ASSUME NEW label \in Label \ Registering, pc[h] \notin Registering,
             pc' = [pc EXCEPT ![h] = label], req' = req
      PROVE  Goal
  BY <1>0, <1>n
<1> HIDE DEF Goal
<1>1. ASSUME Cancel(h) \/ Notice(h) \/ TellWarning(h) \/ Fail(h) PROVE Goal
  <2>1. /\ pc' = [pc EXCEPT ![h] = "idle"] /\ req' = [req EXCEPT ![h] = None]
        /\ pc[h] \notin Registering
    BY <1>1 DEF Cancel, Notice, TellWarning, Fail
  <2> QED
    BY <2>1, <1>m
<1>2. ASSUME CreateFile(h) \/ FillFile(h) \/ InsertRow(h) \/ Persist(h) \/ SetHead(h)
           \/ AppendWarning(h) PROVE Goal
  <2>1. PICK label \in Label \ Registering :
          /\ pc' = [pc EXCEPT ![h] = label] /\ req' = req
          /\ pc[h] \notin Registering
    BY <1>2 DEF CreateFile, FillFile, InsertRow, Persist, SetHead, AppendWarning
  <2> QED
    BY <2>1, <1>n
<1>2a. ASSUME Announce(h) PROVE Goal
  <2>1. pc[h] = "announce" /\ pc' = [pc EXCEPT ![h] = "inspect"]
    BY <1>2a, AnnounceEffect
  <2>2. PICK r : req' = [req EXCEPT ![h] = r]
    BY <1>2a, AnnounceEffect
  <2> QED
    BY <2>1, <2>2, <1>m
<1>3. ASSUME Accept(h) PROVE Goal
  <2>1. PICK a \in Agent, chan \in Channel, sent \in Sent, parents \in Parents :
          Admit(h, a, chan, sent, parents)
    BY <1>3, Zenon DEF Accept
  <2>2. Goal
    BY <2>1, <1>m DEF Admit
  <2> QED
    BY <2>2 DEF Goal
<1>4. ASSUME PreparePayload(h) PROVE Goal
  <2> DEFINE r == [req[h] EXCEPT !.content = Clean[req[h].content]]
             label == IF Clean[req[h].content] \in Large THEN "file" ELSE "route"
  <2>1. /\ pc[h] = "prepare" /\ pc' = [pc EXCEPT ![h] = label]
    BY <1>4 DEF PreparePayload
  <2>2. req' = [req EXCEPT ![h] = r]
    BY <1>0, <1>4 DEF PreparePayload
  <2>3. label \in {"file", "route"}
    OBVIOUS
  <2> HIDE DEF r, label
  <2>4. Goal
    BY <2>1, <2>2, <2>3, <1>m
  <2> QED
    BY <2>4 DEF Goal
<1>5. ASSUME Route(h) PROVE Goal
  <2>1. pc[h] = "route"
    BY <1>5, RouteEffect
  <2>2. CASE pc' = [pc EXCEPT ![h] = "notice"] /\ req' = req
    BY <2>1, <2>2, <1>n DEF Goal
  <2>3. CASE ~(pc' = [pc EXCEPT ![h] = "notice"] /\ req' = req)
    <3>1. PICK r : req' = [req EXCEPT ![h] = r] /\ pc' = [pc EXCEPT ![h] = "persist"]
      BY <1>5, <2>3, RouteEffect
    <3>2. Goal
      BY <2>1, <3>1, <1>m
    <3> QED
      BY <3>2 DEF Goal
  <2> QED
    BY <2>2, <2>3
<1>6. ASSUME Inspect(h) PROVE Goal
  <2>1. PICK label, r : /\ label \in {"idle", "warn"}
                        /\ pc' = [pc EXCEPT ![h] = label] /\ req' = [req EXCEPT ![h] = r]
    BY <1>6, InspectEffect, Zenon
  <2>2. pc[h] = "inspect"
    BY <1>6, InspectEffect, Zenon
  <2>3. Goal
    BY <2>1, <2>2, <1>m
  <2> QED
    BY <2>3 DEF Goal
<1>7. Goal
  BY <1>1, <1>2, <1>2a, <1>3, <1>4, <1>5, <1>6 DEF Publish
<1> QED
  BY <1>7, <1>k DEF Goal

\* Every step keeps grants behind presence and the counts right.
LEMMA PresenceStep == BaseInv /\ PresenceInv /\ [Next]_vars => PresenceInv'
<1> SUFFICES ASSUME BaseInv, PresenceInv, [Next]_vars PROVE PresenceInv'
  OBVIOUS
<1> USE DEF Label, Registering, Counting, disk, memory, history, Goto, Done
<1>0. Typed /\ RequestInv
  BY DEF BaseInv
<1>0a. pc \in [Handler -> Label] /\ req = [h \in Handler |-> req[h]] /\ presence \subseteq Agent
       /\ grants = [a \in Agent |-> grants[a]]
  BY <1>0 DEF Typed
<1>0b. Cardinality(presence) \in Nat
  BY FS_CardinalityType DEF PresenceInv
<1>1. ASSUME NEW h \in Handler, Publish(h) \/ Fail(h) PROVE PresenceInv'
  BY <1>1, PresenceKept DEF PresenceInv
<1>2. ASSUME NEW h \in Handler, Grant(h) PROVE PresenceInv'
  <2>1. PICK a \in Agent, requested \in Requested :
          /\ pc[h] = "idle" /\ pc' = [pc EXCEPT ![h] = "online"]
          /\ grants' = [grants EXCEPT ![a] = GrantRequested(RequireAuth, requested)]
          /\ req' = [req EXCEPT ![h] = [agent |-> a]]
          /\ UNCHANGED <<presence, gauge, overlap>>
    BY <1>2 DEF Grant
  <2>2. GrantRequested(RequireAuth, requested) # None
    BY GrantsAssumption
  <2>3. grants'[a] # None /\ \A b \in Agent : grants[b] # None => grants'[b] # None
    BY <1>0a, <2>1, <2>2
  <2>4. \A g \in Handler : g # h => pc'[g] = pc[g] /\ req'[g] = req[g]
    BY <1>0a, <2>1
  <2>5. pc'[h] = "online" /\ req'[h].agent = a
    BY <1>0a, <2>1
  <2>6. \A g \in Handler : pc'[g] = "online" => grants'[req'[g].agent] # None
    BY <1>0, <2>3, <2>4, <2>5 DEF PresenceInv, RequestInv
  <2>7. \A b \in presence' : grants'[b] # None
    BY <1>0a, <2>1, <2>3 DEF PresenceInv
  <2>8. \A g \in Handler : /\ pc'[g] \in Counting => pc'[g] = pc[g] /\ req'[g] = req[g]
                           /\ pc[g] \in Counting => pc'[g] \in Counting
    BY <2>1, <2>4, <2>5
  <2> QED
    BY <2>1, <2>6, <2>7, <2>8 DEF PresenceInv
<1>3. ASSUME NEW h \in Handler, Appear(h) PROVE PresenceInv'
  <2> DEFINE a == req[h].agent
  <2>1. /\ pc[h] = "online" /\ pc' = [pc EXCEPT ![h] = "count"] /\ presence' = presence \cup {a}
        /\ UNCHANGED <<grants, gauge, req>>
    BY <1>3 DEF Appear
  <2>2. overlap' = (overlap \/ \E g \in Handler : pc[g] \in Counting)
    BY <1>3 DEF Appear
  <2>3. /\ IsFiniteSet(presence') /\ Cardinality(presence') \in Nat
        /\ Cardinality(presence) <= Cardinality(presence')
    <3>1. IsFiniteSet(presence)
      BY DEF PresenceInv
    <3>2. IsFiniteSet(presence \cup {a})
      BY <3>1, FS_AddElement
    <3>3. Cardinality(presence) <= Cardinality(presence \cup {a})
      BY <3>2, FS_Subset
    <3> QED
      BY <2>1, <3>2, <3>3, FS_CardinalityType
  <2>4. overlap' \in BOOLEAN /\ (~overlap' => ~overlap /\ \A g \in Handler : pc[g] \notin Counting)
    BY <2>2, Zenon DEF PresenceInv
  <2>5. pc'[h] = "count" /\ \A g \in Handler : g # h => pc'[g] = pc[g]
    BY <1>0a, <2>1
  <2>6. /\ \A b \in presence' : grants'[b] # None
        /\ \A g \in Handler : pc'[g] = "online" => grants'[req'[g].agent] # None
    BY <2>1, <2>5 DEF PresenceInv
  <2>7. gauge' \in Nat /\ gauge' <= Cardinality(presence')
    BY <1>0b, <2>1, <2>3 DEF PresenceInv
  <2>8. \A g \in Handler : pc'[g] = "gauge" => req'[g].count \in Nat /\ req'[g].count <= Cardinality(presence')
    BY <1>0b, <2>1, <2>3, <2>5 DEF PresenceInv
  <2>9. ~overlap' => \A g \in Handler : pc'[g] \in Counting => g = h
    BY <2>4, <2>5
  <2> QED
    BY <2>3, <2>4, <2>5, <2>6, <2>7, <2>8, <2>9 DEF PresenceInv
<1>4. ASSUME NEW h \in Handler, CountAgents(h) PROVE PresenceInv'
  <2>1. /\ pc[h] = "count" /\ pc' = [pc EXCEPT ![h] = "gauge"]
        /\ req' = [req EXCEPT ![h] = [agent |-> req[h].agent, count |-> Cardinality(presence)]]
        /\ UNCHANGED <<grants, presence, gauge, overlap>>
    BY <1>0a, <1>4 DEF CountAgents
  <2>2. pc'[h] = "gauge" /\ req'[h].count = Cardinality(presence)
    BY <1>0a, <2>1
  <2>3. \A g \in Handler : g # h => pc'[g] = pc[g] /\ req'[g] = req[g]
    BY <1>0a, <2>1
  <2> QED
    BY <1>0b, <2>1, <2>2, <2>3 DEF PresenceInv
<1>5. ASSUME NEW h \in Handler, StoreGauge(h) PROVE PresenceInv'
  <2>1. /\ pc[h] = "gauge" /\ pc' = [pc EXCEPT ![h] = "idle"] /\ gauge' = req[h].count
        /\ req' = [req EXCEPT ![h] = None] /\ UNCHANGED <<grants, presence, overlap>>
    BY <1>5 DEF StoreGauge
  <2>2. pc'[h] = "idle" /\ \A g \in Handler : g # h => pc'[g] = pc[g] /\ req'[g] = req[g]
    BY <1>0a, <2>1
  <2> QED
    BY <1>0b, <2>1, <2>2 DEF PresenceInv
<1>6. CASE Restart
  <2>1. /\ presence' = {} /\ gauge' = 0 /\ overlap' = FALSE
        /\ \A h \in Handler : pc'[h] = "idle"
    BY <1>6 DEF Restart, AllIdle
  <2>2. IsFiniteSet({}) /\ Cardinality({}) = 0
    BY FS_EmptySet
  <2>3. overlap' \in BOOLEAN
    BY <2>1, Zenon
  <2>4. \A h \in Handler : pc'[h] # "online" /\ pc'[h] \notin Counting
    BY <2>1
  <2>5. gauge' \in Nat /\ gauge' = Cardinality(presence') /\ IsFiniteSet(presence')
    BY <2>1, <2>2
  <2>6. \A a \in presence' : grants'[a] # None
    BY <2>1
  <2> QED
    BY <2>3, <2>4, <2>5, <2>6 DEF PresenceInv
<1>7. CASE UNCHANGED vars
  BY <1>7 DEF vars, PresenceInv
<1> QED
  BY <1>1, <1>2, <1>3, <1>4, <1>5, <1>6, <1>7 DEF Next, Register

\* A scope that ends in a star matches what begins with its text.
LEMMA StarMatches ==
    ASSUME NEW S, NEW chan \in Seq(S), NEW x \in S, NEW y \in S
    PROVE  ScopeMatches(Scope(<<x, y>>, TRUE), <<x, y>> \o chan)
<1>1. IsPrefix(<<x, y>>, <<x, y>> \o chan)
  BY DEF IsPrefix
<1> QED
  BY <1>1 DEF ScopeMatches, Scope

\* The default grants let an agent publish and checkpoint on every channel.
LEMMA DefaultAllows ==
    ASSUME NEW chan \in Channel
    PROVE  /\ IsAllowed(RequireAuth, GrantRequested(RequireAuth, {}), ChannelWrite(chan))
           /\ IsAllowed(RequireAuth, GrantRequested(RequireAuth, {}), ChannelCheckpoint(chan))
<1> DEFINE S == STRING \cup {"channel", "write", "checkpoint"}
<1>1. chan \in Seq(S)
  BY ChannelAssumption
<1>2. "channel" \in S /\ "write" \in S /\ "checkpoint" \in S
  OBVIOUS
<1> HIDE DEF S
<1>3. ScopeMatches(Scope(<<"channel", "write">>, TRUE), ChannelWrite(chan))
  BY <1>1, <1>2, StarMatches DEF ChannelWrite
<1>4. ScopeMatches(Scope(<<"channel", "checkpoint">>, TRUE), ChannelCheckpoint(chan))
  BY <1>1, <1>2, StarMatches DEF ChannelCheckpoint
<1>5. CASE ~RequireAuth
  BY <1>5 DEF IsAllowed
<1>6. CASE RequireAuth
  <2>1. /\ Scope(<<"channel", "write">>, TRUE) \in GrantRequested(RequireAuth, {})
        /\ Scope(<<"channel", "checkpoint">>, TRUE) \in GrantRequested(RequireAuth, {})
    BY <1>6, Zenon DEF GrantRequested
  <2> QED
    BY <1>3, <1>4, <2>1, Zenon DEF IsAllowed
<1> QED
  BY <1>5, <1>6

-----------------------------------------------------------------------------
(* The invariant and the theorems                                          *)

ServiceInv ==
    BaseInv /\ CommitInv /\ ParentInv /\ NoticeInv /\ PutInv /\ RowInv /\ PresenceInv

\* The initial state satisfies the invariant.
LEMMA ServiceInit == Init => ServiceInv
<1> SUFFICES ASSUME Init PROVE ServiceInv
  OBVIOUS
<1>1. BaseInv
  BY BaseInit
<1>2. CommitInv /\ ParentInv /\ NoticeInv /\ PutInv /\ RowInv
  BY DEF Init, AllIdle, NoRequest, CommitInv, ParentInv, NoticeInv, NoticesTrue, PutInv, RowInv,
         Stored, Persisting, Preparing
<1>3. PresenceInv
  <2>1. IsFiniteSet({}) /\ Cardinality({}) = 0
    BY FS_EmptySet
  <2>2. overlap \in BOOLEAN
    BY Zenon DEF Init
  <2>3. presence = {} /\ gauge = 0 /\ \A h \in Handler : pc[h] = "idle"
    BY DEF Init, AllIdle
  <2> QED
    BY <2>1, <2>2, <2>3 DEF PresenceInv, Counting
<1> QED
  BY <1>1, <1>2, <1>3 DEF ServiceInv

\* Every step keeps it.
LEMMA ServiceStep == ServiceInv /\ [Next]_vars => ServiceInv'
BY BaseStep, CommitStep, ParentStep, NoticeStep, PutStep, RowStep, PresenceStep DEF ServiceInv

\* The invariant holds for good.
LEMMA ServiceInvariant == Spec => []ServiceInv
BY ServiceInit, ServiceStep, PTL DEF Spec

\* The tables, the files and the counters keep their ranges, heads and
\* parents name stored commits, and no window of the loop detector grows
\* past its size, through every interleaving, failed step and restart.
THEOREM ServiceTypes == Spec => []TypeOK
<1>1. ServiceInv => TypeOK
  <2> SUFFICES ASSUME ServiceInv PROVE TypeOK
    OBVIOUS
  <2>1. heads \in [Key -> Stored \cup {None}]
    BY DEF ServiceInv, BaseInv, Typed, ParentInv
  <2> QED
    BY <2>1 DEF ServiceInv, BaseInv, Typed, WindowInv, ParentInv, TypeOK
<1> QED
  BY <1>1, ServiceInvariant, PTL

\* A subscriber is never told of a commit or of a warning that is not
\* stored, and nothing that redaction would change is told, committed or
\* written to an artifact file, wherever requests interleave, fail or the
\* process stops.
THEOREM ServiceNotices == Spec => []NoticesTrue
<1>1. ServiceInv => NoticesTrue
  BY DEF ServiceInv, NoticeInv
<1> QED
  BY <1>1, ServiceInvariant, PTL

\* A stored commit whose payload was moved into an artifact has its row, and
\* the file the row describes, but for a put of the same content that is
\* under way or was cut short: put_artifact writes the file before the row
\* and the commit follows both.
THEOREM ServiceArtifacts == Spec => []ArtifactsReadable
<1>1. ServiceInv => ArtifactsReadable
  <2> SUFFICES ASSUME ServiceInv, NEW c \in Stored, store[c].content \in Large
               PROVE  /\ rows[store[c].content] # None
                      /\ \/ Readable(store[c].content)
                         \/ Putting(store[c].content) # {}
                         \/ store[c].content \in spoiled
    BY DEF ArtifactsReadable
  <2>1. rows[store[c].content] # None /\ store[c].content \in Content
    BY CleanAssumption DEF ServiceInv, RowInv
  <2> QED
    BY <2>1 DEF ServiceInv, PutInv
<1> QED
  BY <1>1, ServiceInvariant, PTL

\* An agent that register_agent shows as online can publish under the
\* default scopes; the gauge of agents is never too high, and is right when
\* registrations did not overlap.
THEOREM ServicePresence == Spec => []PresenceTrue
<1>1. ServiceInv => PresenceTrue
  <2> SUFFICES ASSUME ServiceInv PROVE PresenceTrue
    OBVIOUS
  <2>1. PresenceInv
    BY DEF ServiceInv
  <2>2. ASSUME NEW a \in presence, grants[a] = GrantRequested(RequireAuth, {}), NEW c \in Channel
        PROVE  MayPublish(a, ChannelWrite(c)) /\ MayPublish(a, ChannelCheckpoint(c))
    <3>1. grants[a] # None
      BY <2>1 DEF PresenceInv
    <3>2. (IF grants[a] = None THEN {} ELSE grants[a]) = GrantRequested(RequireAuth, {})
      BY <2>2, <3>1
    <3> QED
      BY <3>2, DefaultAllows, Zenon DEF MayPublish
  <2>3. \A a \in presence : grants[a] # None
    BY <2>1 DEF PresenceInv
  <2>4. gauge <= Cardinality(presence)
    BY <2>1 DEF PresenceInv
  <2>5. ASSUME \A h \in Handler : pc[h] \notin {"count", "gauge"}
        PROVE  gauge = Cardinality(presence) \/ overlap
    BY <2>1, <2>5, Zenon DEF PresenceInv, Counting
  <2> QED
    BY <2>2, <2>3, <2>4, <2>5, Zenon DEF PresenceTrue
<1> QED
  BY <1>1, ServiceInvariant, PTL

-----------------------------------------------------------------------------
(* Refinement                                                              *)

\* Nothing but Announce tells of another commit.
LEMMA ToldKept ==
    ASSUME BaseInv, [Next]_vars, \A h \in Handler : ~Announce(h)
    PROVE  ToldOf' = ToldOf
<1> USE DEF disk, memory, history
<1>1. ASSUME NEW h \in Handler, Notice(h) PROVE ToldOf' = ToldOf
  <2>1. told' = told \cup {[kind |-> "delta", commit |-> None, content |-> req[h].content]}
    BY <1>1 DEF Notice
  <2> QED
    BY <2>1 DEF ToldOf
<1>2. ASSUME NEW h \in Handler, TellWarning(h) PROVE ToldOf' = ToldOf
  <2>1. told' = told \cup {[kind |-> "warning", warning |-> req[h]]}
    BY <1>2 DEF TellWarning
  <2> QED
    BY <2>1 DEF ToldOf
<1>3. ASSUME NEW h \in Handler, Register(h) \/ Fail(h) PROVE told' = told
  BY <1>3 DEF Register, Grant, Appear, CountAgents, StoreGauge, Fail
<1>4. ASSUME NEW h \in Handler, Publish(h), ~Inspect(h), ~Accept(h), ~Notice(h), ~Announce(h), ~TellWarning(h)
      PROVE  told' = told
  BY <1>4 DEF Publish, PreparePayload, CreateFile, FillFile, InsertRow, Route, Persist,
              SetHead, Cancel, AppendWarning
<1>5. ASSUME NEW h \in Handler, Inspect(h) PROVE told' = told
  BY <1>5, InspectEffect, Zenon
<1>6. ASSUME NEW h \in Handler, Accept(h) PROVE told' = told
  BY <1>6 DEF Accept, Admit
<1>7. ASSUME Restart \/ UNCHANGED vars PROVE told' = told
  BY <1>7 DEF Restart, vars
<1>8. ASSUME told' = told PROVE ToldOf' = ToldOf
  BY <1>8 DEF ToldOf
<1> QED
  BY <1>1, <1>2, <1>3, <1>4, <1>5, <1>6, <1>7, <1>8 DEF Next

\* Only SetHead moves a head.
LEMMA HeadsKept ==
    ASSUME [Next]_vars, \A h \in Handler : ~SetHead(h)
    PROVE  heads' = heads
<1> USE DEF disk, memory, history
<1>1. ASSUME NEW h \in Handler, Register(h) \/ Fail(h) PROVE heads' = heads
  BY <1>1 DEF Register, Grant, Appear, CountAgents, StoreGauge, Fail
<1>2. ASSUME NEW h \in Handler, Publish(h), ~Inspect(h), ~Accept(h), ~SetHead(h) PROVE heads' = heads
  BY <1>2 DEF Publish, PreparePayload, CreateFile, FillFile, InsertRow, Route, Persist,
              Notice, Announce, AnnounceTo, Cancel, AppendWarning, TellWarning
<1>3. ASSUME NEW h \in Handler, Inspect(h) PROVE heads' = heads
  BY <1>3, InspectEffect, Zenon
<1>4. ASSUME NEW h \in Handler, Accept(h) PROVE heads' = heads
  BY <1>4 DEF Accept, Admit
<1>5. CASE Restart \/ UNCHANGED vars
  BY <1>5 DEF Restart, vars
<1> QED
  BY <1>1, <1>2, <1>3, <1>4, <1>5 DEF Next

\* Every step is one of the abstract ledger, or changes nothing it shows:
\* Persist appends, SetHead points, Announce acknowledges.
LEMMA ServiceRefinementStep ==
    ServiceInv /\ [Next]_vars => [Durable!Next]_<<store, heads, ToldOf>>
<1> SUFFICES ASSUME ServiceInv, [Next]_vars, ~UNCHANGED <<store, heads, ToldOf>>
             PROVE  Durable!Next
  OBVIOUS
<1> USE DEF disk, memory, history
<1>0. BaseInv /\ CommitInv /\ ParentInv /\ Typed /\ RequestInv
  BY DEF ServiceInv, BaseInv
<1>1. ASSUME NEW h \in Handler, Persist(h) PROVE Durable!Next
  <2>1. /\ req[h].commit \in Commits /\ store[req[h].commit] \in {None, CommitOf(req[h])}
        /\ CommitOf(req[h]) \in Commit
        /\ store' = [store EXCEPT ![req[h].commit] = CommitOf(req[h])]
        /\ pc[h] = "persist" /\ UNCHANGED <<heads, told>>
    BY <1>0, <1>1, PersistEffect
  <2>2. CommitOf(req[h]).parents \subseteq Durable!Present
    BY <1>0, <1>1 DEF Persist, ParentInv, Persisting, CommitOf, Stored, Durable!Present
  <2>3. ToldOf' = ToldOf
    BY <2>1 DEF ToldOf
  <2>4. store'[req[h].commit] = CommitOf(req[h])
    BY <1>0, <2>1 DEF Typed
  <2>5. store[req[h].commit] = None
    <3>1. CASE store[req[h].commit] = CommitOf(req[h])
      <4>1. store' = store
        BY <1>0, <2>1, <3>1 DEF Typed
      <4> QED
        BY <2>1, <2>3, <4>1
    <3> QED
      BY <2>1, <3>1
  <2>6. Durable!Append(req[h].commit)
    BY <2>1, <2>2, <2>3, <2>4, <2>5 DEF Durable!Append
  <2> QED
    BY <2>1, <2>6 DEF Durable!Next
<1>2. ASSUME NEW h \in Handler, pc[h] \in {"head", "announce"}
      PROVE  /\ req[h].commit \in Commits /\ req[h].commit \in Durable!Present
             /\ KeyOf(req[h]) \in Key
  <2>0. req[h].commit \in Stored
    BY <1>0, <1>2 DEF CommitInv, Persisting
  <2>1. req[h] \in Made
    BY <1>0, <1>2 DEF RequestInv, Persisting
  <2> QED
    BY <2>0, <2>1 DEF Made, Key, KeyOf, Stored, Durable!Present
<1>3. ASSUME NEW h \in Handler, SetHead(h) PROVE Durable!Next
  <2>1. /\ pc[h] = "head" /\ heads' = [heads EXCEPT ![KeyOf(req[h])] = req[h].commit]
        /\ UNCHANGED <<store, told>>
    BY <1>3 DEF SetHead
  <2>2. ToldOf' = ToldOf
    BY <2>1 DEF ToldOf
  <2>3. Durable!Point(KeyOf(req[h]), req[h].commit)
    BY <1>2, <2>1, <2>2 DEF Durable!Point
  <2> QED
    BY <1>2, <2>1, <2>3 DEF Durable!Next
<1>4. ASSUME NEW h \in Handler, Announce(h) PROVE Durable!Next
  <2>1. /\ pc[h] = "announce" /\ UNCHANGED <<store, heads>>
        /\ told' = told \cup {[kind |-> "delta", commit |-> req[h].commit,
                               content |-> req[h].content]}
    BY <1>0, <1>4, AnnounceEffect
  <2>2. req[h].commit # None
    BY <1>2, <2>1, NoneAssumption DEF Commits
  <2>3. ToldOf' = ToldOf \cup {req[h].commit}
    BY <2>1, <2>2 DEF ToldOf
  <2>4. Durable!Acknowledge(req[h].commit)
    BY <1>2, <2>1, <2>3 DEF Durable!Acknowledge
  <2> QED
    BY <1>2, <2>1, <2>4 DEF Durable!Next
<1> QED
  BY <1>0, <1>1, <1>3, <1>4, StoreKept, HeadsKept, ToldKept

\* The requests of both fronts, interleaved, failing at any step and cut off
\* by restarts, implement DurableLedger, a notice being the acknowledgement.
THEOREM ServiceRefines == Spec => ImplementsDurableLedger
<1>1. Init => Durable!Init
  BY DEF Init, Durable!Init, ToldOf
<1> QED
  BY <1>1, ServiceRefinementStep, ServiceInvariant, PTL DEF Spec, ImplementsDurableLedger, Durable!Spec
=============================================================================
