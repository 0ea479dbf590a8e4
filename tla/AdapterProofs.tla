---------------------------- MODULE AdapterProofs ----------------------------
(***************************************************************************)
(* Proofs about Adapter for any calls, callbacks and requests.             *)
(***************************************************************************)
EXTENDS Adapter, TLAPS

-----------------------------------------------------------------------------
(* Types                                                                   *)

\* What the helpers of the actions return.
LEMMA HelperTypes ==
    ASSUME TypeOK
    PROVE  /\ Latest \in SUBSET CommitId
           /\ \A c \in Call : ParentsOf(c, at[c]) \in SUBSET CommitId
           /\ \A event : ChannelForEvent(event) \in Channel
           /\ \A event : \A named \in SUBSET CommitId :
                  Event(event, named) \in Job /\ Event(event, named).n = 0
           /\ \A event \in Boundary : After(event) \in Boundary \cup {"running", "done"}
<1>1. Latest \in SUBSET CommitId
  BY DEF Latest, TypeOK
<1>2. \A c \in Call : ParentsOf(c, at[c]) \in SUBSET CommitId
  BY <1>1 DEF ParentsOf, TypeOK
<1>3. \A event : ChannelForEvent(event) \in Channel
  BY DEF ChannelForEvent, Channel
<1>4. \A event : \A named \in SUBSET CommitId :
         Event(event, named) \in Job /\ Event(event, named).n = 0
  BY <1>3, BoundsAssumption DEF Event, Job
<1>5. \A event \in Boundary : After(event) \in Boundary \cup {"running", "done"}
  BY DEF After, Boundary
<1> QED
  BY <1>1, <1>2, <1>3, <1>4, <1>5

\* Requests are commits to be.
LEMMA RequestNumbers ==
    ASSUME TypeOK
    PROVE  /\ Len(sent) \in Nat
           /\ \A n \in 1..Len(sent) : n \in CommitId /\ sent[n] \in Request
           /\ \A a \in Actor : job[a] # None => job[a] \in Job
           /\ \A a \in Actor : (job[a] # None /\ job[a].n # 0) => job[a].n \in 1..Len(sent)
  BY BoundsAssumption DEF TypeOK, Job, CommitId

\* The initial state is well typed.
LEMMA TypeInit == Init => TypeOK
<1> SUFFICES ASSUME Init PROVE TypeOK
  OBVIOUS
<1>1. /\ sent \in Seq(Request) /\ Len(sent) <= MaxSent
      /\ job \in [Actor -> Job \cup {None}]
      /\ \A a \in Actor : job[a] = None
  BY BoundsAssumption DEF Init
<1>2. /\ seen \in [Call -> 0..MaxChunks] /\ calledBack \in [Call -> 0..MaxCallbacks]
  BY BoundsAssumption DEF Init
<1>3. /\ commits \in [CommitId -> Commit \cup {None}]
      /\ heads \in [Channel -> CommitId \cup {None}]
      /\ parents \in [Call -> SUBSET CommitId]
      /\ at \in [Call -> Boundary \cup {"idle", "running", "done"}]
      /\ mode \in Modes /\ last \in CommitId \cup {None} /\ acked \subseteq CommitId
  BY DEF Init
<1>4. \A c \in Call : <<c, "main">> \in Actor
  BY DEF Actor
<1> QED
  BY <1>1, <1>2, <1>3, <1>4 DEF TypeOK

\* Every step keeps the types.
LEMMA TypeStep == TypeOK /\ [Next]_vars => TypeOK'
<1> SUFFICES ASSUME TypeOK, [Next]_vars PROVE TypeOK'
  OBVIOUS
<1> USE HelperTypes, RequestNumbers
<1>a. \A c \in Call : <<c, "main">> \in Actor /\ <<c, "callback">> \in Actor
  BY DEF Actor
<1>b. \A a \in Actor : a[1] \in Call /\ a = <<a[1], a[2]>>
  BY DEF Actor
<1>1. ASSUME NEW c \in Call, Begin(c) PROVE TypeOK'
  BY <1>1, <1>a DEF Begin, MayBegin, TypeOK, daemon, framework, Boundary
<1>2. ASSUME NEW c \in Call, StreamText(c) PROVE TypeOK'
  <2>1. PICK throws \in BOOLEAN :
          /\ at' = [at EXCEPT ![c] = IF throws THEN "done" ELSE "running"]
          /\ job' = [job EXCEPT ![<<c, "main">>] = Event("run_start", Latest),
                                ![<<c, "callback">>] =
                                    IF throws THEN Event("error", Latest) ELSE None]
    BY <1>2 DEF StreamText
  <2>2. job' \in [Actor -> Job \cup {None}]
    BY <2>1, <1>a DEF TypeOK
  <2>3. \A a \in Actor : job'[a] # None => job'[a].n <= Len(sent)
    <3>1. \A a \in Actor : job'[a] # None => job'[a] = job[a] \/ job'[a].n = 0
      BY <2>1, <1>a DEF TypeOK
    <3>2. Len(sent) \in Nat /\ \A a \in Actor : job[a] # None => job[a].n <= Len(sent)
      BY DEF TypeOK
    <3> QED
      BY <3>1, <3>2
  <2> QED
    BY <1>2, <2>1, <2>2, <2>3 DEF StreamText, TypeOK, daemon, framework
<1>3. ASSUME NEW c \in Call, Compose(c) PROVE TypeOK'
  <2>1. job' = [job EXCEPT ![<<c, "main">>] = Event(at[c], ParentsOf(c, at[c]))]
    BY <1>3 DEF Compose
  <2>2. job' \in [Actor -> Job \cup {None}]
    BY <2>1, <1>a DEF TypeOK
  <2>3. \A a \in Actor : job'[a] # None => job'[a].n <= Len(sent)
    BY <2>1, <1>a DEF TypeOK, Event
  <2> QED
    BY <1>3, <1>a, <2>1, <2>2, <2>3 DEF Compose, TypeOK, local, daemon, framework
<1>4. ASSUME NEW c \in Call, CallBack(c) PROVE TypeOK'
  <2>1. PICK event \in CallbackEvents :
          job' = [job EXCEPT ![<<c, "callback">>] = Event(event, Latest)]
    BY <1>4 DEF CallBack
  <2>2. job' \in [Actor -> Job \cup {None}]
    BY <2>1, <1>a DEF TypeOK
  <2>3. \A a \in Actor : job'[a] # None => job'[a].n <= Len(sent)
    BY <2>1, <1>a DEF TypeOK, Event
  <2>4. calledBack' \in [Call -> 0..MaxCallbacks]
    BY <1>4, BoundsAssumption DEF CallBack, TypeOK
  <2>5. \A d \in Call : job'[<<d, "main">>] = job[<<d, "main">>]
    BY <2>1, <1>a DEF TypeOK
  <2> QED
    BY <1>4, <1>a, <2>2, <2>3, <2>4, <2>5 DEF CallBack, TypeOK, daemon, framework
<1>5. ASSUME NEW c \in Call, Chunk(c) PROVE TypeOK'
  <2>1. seen' \in [Call -> 0..MaxChunks]
    BY <1>5, BoundsAssumption DEF Chunk, TypeOK
  <2> QED
    BY <1>5, <2>1, <1>a DEF Chunk, TypeOK, daemon, framework, Boundary
<1>6. ASSUME NEW c \in Call, Leave(c) PROVE TypeOK'
  BY <1>6, <1>a DEF Leave, TypeOK, daemon, framework, Boundary
<1>7. ASSUME NEW a \in Actor, Send(a) PROVE TypeOK'
  <2> DEFINE named == IF job[a].parents = {} THEN Latest ELSE job[a].parents
             r == [actor |-> a, parents |-> named, channel |-> job[a].channel]
  <2>1. /\ sent' = Append(sent, r) /\ Len(sent) + 1 <= MaxSent
        /\ job[a] \in Job
        /\ job' = [job EXCEPT ![a] = [channel |-> job[a].channel, parents |-> named,
                                       n |-> Len(sent) + 1]]
    BY <1>7 DEF Send
  <2>2. named \in SUBSET CommitId
    BY <2>1 DEF Job
  <2>3. r \in Request
    BY <2>1, <2>2 DEF Job, Request
  <2>4. sent' \in Seq(Request) /\ Len(sent') = Len(sent) + 1
    BY <2>1, <2>3 DEF TypeOK
  <2>5. /\ job' \in [Actor -> Job \cup {None}]
        /\ job'[a].n = Len(sent) + 1
        /\ \A b \in Actor : b # a => job'[b] = job[b]
    <3>1. [channel |-> job[a].channel, parents |-> named, n |-> Len(sent) + 1] \in Job
      BY <2>1, <2>2, BoundsAssumption DEF Job
    <3> HIDE DEF named, r
    <3> QED
      BY <2>1, <3>1 DEF TypeOK
  <2>6. \A b \in Actor : job'[b] # None => job'[b].n <= Len(sent')
    <3>1. \A b \in Actor : (b # a /\ job[b] # None) => job[b].n <= Len(sent) /\ job[b].n \in Nat
      BY DEF TypeOK, Job
    <3> QED
      BY <2>4, <2>5, <3>1
  <2>7. \A c \in Call : job'[<<c, "main">>] # None => job[<<c, "main">>] # None
    BY <1>7, <1>a, <2>5 DEF Send
  <2> QED
    BY <1>7, <2>1, <2>4, <2>5, <2>6, <2>7, <1>a
    DEF Send, TypeOK, local, daemon, framework
<1>8. ASSUME NEW a \in Actor, NEW result \in SUBSET CommitId, job[a] # None,
             Return(a, result), last' \in CommitId \cup {None}, acked' \subseteq CommitId
      PROVE  TypeOK'
  <2>1. /\ job' \in [Actor -> Job \cup {None}]
        /\ \A b \in Actor : job'[b] # None => b # a /\ job'[b] = job[b]
    BY <1>8 DEF Return, TypeOK
  <2>2. CASE a[2] = "main" /\ framework # "stream_text"
    <3>1. at[a[1]] \in Boundary
      BY <1>8, <1>b, <2>2 DEF TypeOK
    <3>2. /\ at' = [at EXCEPT ![a[1]] = After(at[a[1]])]
          /\ parents' = [parents EXCEPT ![a[1]] = result]
      BY <1>8, <2>2 DEF Return
    <3>3. /\ at' \in [Call -> Boundary \cup {"idle", "running", "done"}]
          /\ parents' \in [Call -> SUBSET CommitId]
      BY <1>8, <3>1, <3>2, <1>b DEF TypeOK
    <3>4. \A c \in Call : job'[<<c, "main">>] # None => at'[c] = at[c]
      BY <2>1, <3>2, <1>a, <1>b, <2>2 DEF TypeOK
    <3> QED
      BY <1>8, <2>1, <3>3, <3>4, <1>a DEF Return, TypeOK, daemon, framework
  <2>3. CASE ~(a[2] = "main" /\ framework # "stream_text")
    BY <1>8, <2>1, <2>3, <1>a DEF Return, TypeOK, daemon, framework
  <2> QED
    BY <2>2, <2>3
<1>9. ASSUME NEW a \in Actor, Answer(a) PROVE TypeOK'
  <2>1. job[a].n \in CommitId
    BY <1>9 DEF Answer
  <2> QED
    BY <1>8, <1>9, <2>1 DEF Answer, TypeOK
<1>10. ASSUME NEW a \in Actor, GiveUp(a) PROVE TypeOK'
  <2>1. job[a].parents \in SUBSET CommitId
    BY <1>10 DEF GiveUp, Job
  <2> QED
    BY <1>8, <1>10, <2>1 DEF GiveUp, TypeOK
<1>11. ASSUME NEW n \in CommitId, Persist(n) PROVE TypeOK'
  <2> DEFINE resolved == IF sent[n].parents # {} THEN sent[n].parents
                                                 ELSE {heads[sent[n].channel]} \ {None}
  <2>1. sent[n].parents \in SUBSET CommitId /\ sent[n].channel \in Channel
    BY <1>11 DEF Persist, Request
  <2>2. resolved \in SUBSET CommitId
    BY <2>1 DEF TypeOK
  <2>3. PICK done \in BOOLEAN :
          /\ commits' = [commits EXCEPT ![n] = [parents |-> resolved, done |-> done]]
          /\ heads' = IF done THEN [heads EXCEPT ![sent[n].channel] = n] ELSE heads
    BY <1>11 DEF Persist
  <2>4. [parents |-> resolved, done |-> done] \in Commit
    BY <2>2 DEF Commit
  <2> HIDE DEF resolved
  <2> QED
    BY <1>11, <2>1, <2>3, <2>4 DEF Persist, TypeOK, local, framework
<1>12. ASSUME UNCHANGED vars PROVE TypeOK'
  BY <1>12 DEF vars, TypeOK, local, daemon, framework
<1> QED
  BY <1>1, <1>2, <1>3, <1>4, <1>5, <1>6, <1>7, <1>9, <1>10, <1>11, <1>12 DEF Next

\* Type correctness of the adapters, chunk limit included.
THEOREM AdapterTypes == Spec => []TypeOK
<1>1. Init => TypeOK
  BY TypeInit
<1>2. TypeOK /\ [Next]_vars => TypeOK'
  BY TypeStep
<1> QED
  BY <1>1, <1>2, PTL DEF Spec

-----------------------------------------------------------------------------
(* Parents are stored                                                      *)

\* Whatever an adapter holds on to was answered, hence stored.
NamesInv ==
    /\ acked \subseteq Stored
    /\ last # None => last \in acked
    /\ \A c \in Call : parents[c] \subseteq Stored
    /\ \A a \in Actor : job[a] # None => job[a].parents \subseteq Stored
    /\ NamesOnlyStored

\* What is stored stays, and stays as it is.
Kept == \A n \in Stored : n \in Stored' /\ commits'[n] = commits[n]

\* Every step keeps what is stored.
LEMMA KeptStep == TypeOK /\ [Next]_vars => Kept
<1> SUFFICES ASSUME TypeOK, [Next]_vars PROVE Kept
  OBVIOUS
<1>1. CASE \E n \in CommitId : Persist(n)
  BY <1>1 DEF Persist, Kept, Stored, TypeOK
<1>2. CASE commits' = commits
  BY <1>2 DEF Kept, Stored
<1> QED
  BY <1>1, <1>2 DEF Next, vars, daemon, Begin, StreamText, Compose, CallBack, Chunk,
     Leave, Send, Answer, GiveUp, Return

\* The parents named stay stored ones.
LEMMA NamesStep == TypeOK /\ NamesInv /\ [Next]_vars => NamesInv'
<1> SUFFICES ASSUME TypeOK, NamesInv, [Next]_vars PROVE NamesInv'
  OBVIOUS
<1> USE RequestNumbers
<1>a. Stored \subseteq Stored'
  BY KeptStep DEF Kept
<1>b. Latest \subseteq Stored
  BY DEF Latest, NamesInv
<1>c. \A c \in Call : <<c, "main">> \in Actor /\ <<c, "callback">> \in Actor
  BY DEF Actor
<1>d. ASSUME UNCHANGED <<last, acked, sent, parents>>,
             \A a \in Actor : job'[a] # None =>
                 job'[a] = job[a] \/ job'[a].parents \subseteq Stored
      PROVE  NamesInv'
  BY <1>d, <1>a DEF NamesInv, NamesOnlyStored
<1>e. \A event, named : Event(event, named).parents = named
  BY DEF Event
<1>1. ASSUME NEW c \in Call, Begin(c) PROVE NamesInv'
  BY <1>1, <1>d DEF Begin
<1>2. ASSUME NEW c \in Call, StreamText(c) PROVE NamesInv'
  <2>1. \A a \in Actor : job'[a] # None =>
            job'[a] = job[a] \/ job'[a].parents = Latest
    <3>1. PICK throws \in BOOLEAN :
            job' = [job EXCEPT ![<<c, "main">>] = Event("run_start", Latest),
                               ![<<c, "callback">>] =
                                   IF throws THEN Event("error", Latest) ELSE None]
      BY <1>2 DEF StreamText
    <3>2. \A a \in Actor :
            job'[a] \in {job[a], Event("run_start", Latest), Event("error", Latest), None}
      BY <3>1, <1>c DEF TypeOK
    <3> QED
      BY <3>2, <1>e
  <2> QED
    BY <1>2, <2>1, <1>b, <1>d DEF StreamText
<1>3. ASSUME NEW c \in Call, Compose(c) PROVE NamesInv'
  <2>1. ParentsOf(c, at[c]) \subseteq Stored
    BY <1>b DEF ParentsOf, NamesInv
  <2>2. \A a \in Actor : job'[a] # None =>
            job'[a] = job[a] \/ job'[a].parents = ParentsOf(c, at[c])
    BY <1>3, <1>c, <1>e DEF Compose, TypeOK
  <2> QED
    BY <1>3, <2>1, <2>2, <1>d DEF Compose, local
<1>4. ASSUME NEW c \in Call, CallBack(c) PROVE NamesInv'
  <2>1. \A a \in Actor : job'[a] # None =>
            job'[a] = job[a] \/ job'[a].parents = Latest
    BY <1>4, <1>c, <1>e DEF CallBack, TypeOK
  <2> QED
    BY <1>4, <2>1, <1>b, <1>d DEF CallBack
<1>5. ASSUME NEW c \in Call, Chunk(c) \/ Leave(c) PROVE NamesInv'
  BY <1>5, <1>d DEF Chunk, Leave
<1>6. ASSUME NEW a \in Actor, Send(a) PROVE NamesInv'
  <2> DEFINE named == IF job[a].parents = {} THEN Latest ELSE job[a].parents
             r == [actor |-> a, parents |-> named, channel |-> job[a].channel]
  <2>1. named \subseteq Stored
    BY <1>6, <1>b DEF Send, NamesInv
  <2>2. /\ sent' = Append(sent, r) /\ r.parents = named
        /\ \A b \in Actor : job'[b] # None => job'[b] = job[b] \/ job'[b].parents = named
    BY <1>6 DEF Send, TypeOK
  <2> HIDE DEF named, r
  <2>3. sent \in Seq(Request)
    BY DEF TypeOK
  <2>4. Len(sent') = Len(sent) + 1
    BY <2>2, <2>3
  <2>5. \A n \in 1..Len(sent') : sent'[n] = IF n <= Len(sent) THEN sent[n] ELSE r
    BY <2>2, <2>3, <2>4
  <2>6. NamesOnlyStored'
    BY <2>1, <2>2, <2>4, <2>5, <1>a DEF NamesInv, NamesOnlyStored
  <2>7. UNCHANGED <<last, acked, parents>>
    BY <1>6 DEF Send, local
  <2> QED
    BY <2>1, <2>2, <2>6, <2>7, <1>a DEF NamesInv
<1>7. ASSUME NEW a \in Actor, NEW result \in SUBSET Stored, Return(a, result),
             last' \in acked' \cup {None}, acked' \subseteq Stored
      PROVE  NamesInv'
  <2>1. \A c \in Call : parents'[c] = parents[c] \/ parents'[c] = result
    BY <1>7 DEF Return, TypeOK
  <2>2. \A b \in Actor : job'[b] # None => job'[b] = job[b]
    BY <1>7 DEF Return, TypeOK
  <2> QED
    BY <1>7, <2>1, <2>2, <1>a DEF Return, NamesInv, NamesOnlyStored
<1>8. ASSUME NEW a \in Actor, Answer(a) PROVE NamesInv'
  <2>1. job[a].n \in Stored
    BY <1>8 DEF Answer, Stored
  <2> QED
    BY <1>7, <1>8, <2>1 DEF Answer, NamesInv
<1>9. ASSUME NEW a \in Actor, GiveUp(a) PROVE NamesInv'
  BY <1>7, <1>9 DEF GiveUp, NamesInv
<1>10. ASSUME NEW n \in CommitId, Persist(n) PROVE NamesInv'
  BY <1>10, <1>d DEF Persist, local
<1>11. ASSUME UNCHANGED vars PROVE NamesInv'
  BY <1>11, <1>d DEF vars, local
<1> QED
  BY <1>1, <1>2, <1>3, <1>4, <1>5, <1>6, <1>8, <1>9, <1>10, <1>11 DEF Next

\* An adapter names only stored commits as parents, through lost and late
\* answers: the daemon never refuses a checkpoint, and Ledger's assumption
\* on what clients name holds for the adapters.
THEOREM AdapterNames == Spec => []NamesOnlyStored
<1>1. Init => TypeOK /\ NamesInv
  BY TypeInit DEF Init, NamesInv, NamesOnlyStored
<1>2. TypeOK /\ NamesInv /\ [Next]_vars => TypeOK' /\ NamesInv'
  BY TypeStep, NamesStep
<1>3. NamesInv => NamesOnlyStored
  BY DEF NamesInv
<1> QED
  BY <1>1, <1>2, <1>3, PTL DEF Spec

-----------------------------------------------------------------------------
(* Histories                                                               *)

\* A history holds its commit, and the histories of the commit's parents.
LEMMA HistoryHolds ==
    ASSUME TypeOK
    PROVE  /\ \A n \in CommitId : n \in History(n)
           /\ \A n \in Stored : \A q \in commits[n].parents :
                  \A m \in History(q) : m \in History(n)
<1>1. \A n \in CommitId : n \in History(n)
  BY DEF History
<1>2. ASSUME NEW n \in Stored, NEW q \in commits[n].parents, NEW m \in History(q)
      PROVE  m \in History(n)
  <2>1. SUFFICES ASSUME NEW S \in SUBSET CommitId, n \in S,
                        \A x \in S \cap Stored : commits[x].parents \subseteq S
                 PROVE  m \in S
    BY <1>2 DEF History
  <2>2. q \in S
    BY <2>1, <1>2
  <2> QED
    BY <2>1, <2>2, <1>2 DEF History
<1> QED
  BY <1>1, <1>2

\* Histories only grow: what is closed under the new commits was closed
\* under the old ones.
LEMMA HistoryGrows ==
    ASSUME Kept
    PROVE  \A n \in CommitId : \A m \in History(n) : m \in History(n)'
<1> TAKE n \in CommitId
<1> TAKE m \in History(n)
<1>1. SUFFICES ASSUME NEW S \in SUBSET CommitId, n \in S,
                      \A x \in S \cap Stored' : commits'[x].parents \subseteq S
               PROVE  m \in S
  BY DEF History
<1>2. \A x \in S \cap Stored : commits[x].parents \subseteq S
  BY <1>1 DEF Kept
<1> QED
  BY <1>1, <1>2 DEF History

-----------------------------------------------------------------------------
(* Requests                                                                *)

\* A request in progress is its actor's, has not been answered, and is later
\* than those of the actor that were; nothing else is stored than requests.
RequestInv ==
    /\ acked \subseteq 1..Len(sent)
    /\ Stored \subseteq 1..Len(sent)
    /\ \A a \in Actor : (job[a] # None /\ job[a].n # 0) =>
         /\ sent[job[a].n].actor = a
         /\ sent[job[a].n].parents = job[a].parents
         /\ job[a].n \notin acked
         /\ \A m \in acked : sent[m].actor = a => m < job[a].n

\* Every step keeps the requests in order.
LEMMA RequestStep == TypeOK /\ RequestInv /\ [Next]_vars => RequestInv'
<1> SUFFICES ASSUME TypeOK, RequestInv, [Next]_vars PROVE RequestInv'
  OBVIOUS
<1> USE RequestNumbers
<1>a. ASSUME UNCHANGED <<acked, sent, commits>>,
             \A a \in Actor : job'[a] # None => job'[a] = job[a] \/ job'[a].n = 0
      PROVE  RequestInv'
  BY <1>a DEF RequestInv, Stored
<1>b. \A c \in Call : <<c, "main">> \in Actor /\ <<c, "callback">> \in Actor
  BY DEF Actor
<1>c. \A event, named : Event(event, named).n = 0
  BY DEF Event
<1>1. ASSUME NEW c \in Call, Begin(c) \/ Chunk(c) \/ Leave(c) PROVE RequestInv'
  BY <1>1, <1>a DEF Begin, Chunk, Leave, daemon
<1>2. ASSUME NEW c \in Call, StreamText(c) PROVE RequestInv'
  <2>1. PICK throws \in BOOLEAN :
          job' = [job EXCEPT ![<<c, "main">>] = Event("run_start", Latest),
                             ![<<c, "callback">>] =
                                 IF throws THEN Event("error", Latest) ELSE None]
    BY <1>2 DEF StreamText
  <2>2. \A a \in Actor :
          job'[a] \in {job[a], Event("run_start", Latest), Event("error", Latest), None}
    BY <2>1, <1>b DEF TypeOK
  <2>3. \A a \in Actor : job'[a] # None => job'[a] = job[a] \/ job'[a].n = 0
    BY <2>2, <1>c
  <2>4. UNCHANGED <<acked, sent, commits>>
    BY <1>2 DEF StreamText, daemon
  <2> QED
    BY <2>3, <2>4, <1>a
<1>3. ASSUME NEW c \in Call, Compose(c) PROVE RequestInv'
  BY <1>3, <1>a, <1>b, <1>c DEF Compose, TypeOK, daemon
<1>4. ASSUME NEW c \in Call, CallBack(c) PROVE RequestInv'
  BY <1>4, <1>a, <1>b, <1>c DEF CallBack, TypeOK, daemon
<1>5. ASSUME NEW a \in Actor, Send(a) PROVE RequestInv'
  <2> DEFINE named == IF job[a].parents = {} THEN Latest ELSE job[a].parents
             r == [actor |-> a, parents |-> named, channel |-> job[a].channel]
             j == [channel |-> job[a].channel, parents |-> named, n |-> Len(sent) + 1]
  <2>1. /\ sent' = Append(sent, r) /\ r.actor = a /\ r.parents = named
        /\ job' = [job EXCEPT ![a] = j] /\ j.n = Len(sent) + 1 /\ j.parents = named
        /\ UNCHANGED <<acked, commits>>
    BY <1>5 DEF Send, TypeOK, daemon
  <2> HIDE DEF named, r, j
  <2>2. sent \in Seq(Request)
    BY DEF TypeOK
  <2>3. /\ Len(sent') = Len(sent) + 1
        /\ \A n \in 1..Len(sent) : sent'[n] = sent[n]
        /\ sent'[Len(sent) + 1] = r
    BY <2>1, <2>2
  <2>4. \A b \in Actor : job'[b] = IF b = a THEN j ELSE job[b]
    BY <2>1 DEF TypeOK
  <2>5. acked' \subseteq 1..Len(sent') /\ Stored' \subseteq 1..Len(sent')
    BY <2>1, <2>3 DEF RequestInv, Stored
  <2>6. ASSUME NEW b \in Actor, job'[b] # None, job'[b].n # 0
        PROVE  /\ sent'[job'[b].n].actor = b
               /\ sent'[job'[b].n].parents = job'[b].parents
               /\ job'[b].n \notin acked'
               /\ \A m \in acked' : sent'[m].actor = b => m < job'[b].n
    <3>1. CASE b = a
      BY <3>1, <2>1, <2>3, <2>4 DEF RequestInv
    <3>2. CASE b # a
      BY <3>2, <2>1, <2>3, <2>4, <2>6 DEF RequestInv
    <3> QED
      BY <3>1, <3>2
  <2> QED
    BY <2>5, <2>6 DEF RequestInv
<1>6. ASSUME NEW a \in Actor, Answer(a) PROVE RequestInv'
  <2>1. /\ UNCHANGED <<sent, commits>> /\ acked' = acked \cup {job[a].n}
        /\ job[a] # None /\ job[a].n # 0
        /\ job' = [job EXCEPT ![a] = None]
    BY <1>6 DEF Answer, Return, daemon
  <2>2. \A b \in Actor : job'[b] # None => b # a /\ job'[b] = job[b]
    BY <2>1 DEF TypeOK
  <2>3. job[a].n \in 1..Len(sent) /\ sent[job[a].n].actor = a
    BY <2>1 DEF RequestInv
  <2>4. acked' \subseteq 1..Len(sent') /\ Stored' \subseteq 1..Len(sent')
    BY <2>1, <2>3 DEF RequestInv, Stored
  <2>5. ASSUME NEW b \in Actor, job'[b] # None, job'[b].n # 0
        PROVE  /\ sent'[job'[b].n].actor = b
               /\ sent'[job'[b].n].parents = job'[b].parents
               /\ job'[b].n \notin acked'
               /\ \A m \in acked' : sent'[m].actor = b => m < job'[b].n
    <3>1. b # a /\ job'[b] = job[b] /\ sent[job[b].n].actor = b
      BY <2>2, <2>5 DEF RequestInv
    <3> QED
      BY <3>1, <2>1, <2>3, <2>5 DEF RequestInv
  <2> QED
    BY <2>4, <2>5 DEF RequestInv
<1>7. ASSUME NEW a \in Actor, GiveUp(a) PROVE RequestInv'
  BY <1>7, <1>a DEF GiveUp, Return, TypeOK, daemon
<1>8. ASSUME NEW n \in CommitId, Persist(n) PROVE RequestInv'
  <2>1. UNCHANGED <<acked, sent, job>> /\ n \in 1..Len(sent)
    BY <1>8 DEF Persist
  <2>2. Stored' \subseteq Stored \cup {n}
    BY <1>8 DEF Persist, Stored, TypeOK
  <2> QED
    BY <2>1, <2>2 DEF RequestInv
<1>9. ASSUME UNCHANGED vars PROVE RequestInv'
  BY <1>9, <1>a DEF vars, daemon
<1> QED
  BY <1>1, <1>2, <1>3, <1>4, <1>5, <1>6, <1>7, <1>8, <1>9 DEF Next

-----------------------------------------------------------------------------
(* The chain of a LangGraph call                                           *)

\* The boundary checkpoints of a call that were answered.
Mine(c) == {m \in acked : sent[m].actor = <<c, "main">>}

\* A checkpoint with these parents builds on all of them.
Covers(P, c) == \A m \in Mine(c) : \E q \in P : m \in History(q)

\* Whatever a call may name next covers its answered checkpoints: the local
\* variable, the checkpoint under way and, once it is stored, its commit.
CallChain(c) ==
    /\ at[c] \in {"idle", "run_start"} => Mine(c) = {}
    /\ Covers(parents[c], c)
    /\ job[<<c, "main">>] # None => Covers(job[<<c, "main">>].parents, c)
    /\ (job[<<c, "main">>] # None /\ job[<<c, "main">>].n \in Stored)
         => Covers(commits[job[<<c, "main">>].n].parents, c)

ChainInv ==
    framework = "langgraph" => BoundariesChained /\ \A c \in Call : CallChain(c)

\* A step that answers nothing keeps what is chained, and a set of commits
\* that covers a call's checkpoints goes on covering them.
LEMMA QuietStep ==
    ASSUME TypeOK, RequestInv, Kept, framework = "langgraph", ChainInv,
           UNCHANGED <<mode, acked>>, \A m \in acked : sent'[m] = sent[m]
    PROVE  /\ BoundariesChained'
           /\ \A c \in Call : Mine(c)' = Mine(c)
           /\ \A c \in Call : \A P \in SUBSET CommitId :
                  Covers(P, c) => \A m \in Mine(c)' : \E q \in P : m \in History(q)'
<1>1. \A c \in Call : Mine(c)' = Mine(c)
  BY DEF Mine
<1>2. \A n \in CommitId : \A m \in History(n) : m \in History(n)'
  BY HistoryGrows
<1>3. \A c \in Call : \A P \in SUBSET CommitId :
          Covers(P, c) => \A m \in Mine(c)' : \E q \in P : m \in History(q)'
  BY <1>1, <1>2 DEF Covers
<1>4. acked \subseteq CommitId
  BY DEF TypeOK
<1>5. BoundariesChained'
  BY <1>2, <1>4 DEF BoundariesChained, ChainInv, framework
<1> QED
  BY <1>1, <1>3, <1>5

\* It keeps a call's chain if what the call names then covered it before.
LEMMA QuietCall ==
    ASSUME TypeOK, TypeOK', RequestInv, Kept, framework = "langgraph", ChainInv,
           UNCHANGED <<mode, acked>>, \A m \in acked : sent'[m] = sent[m],
           NEW c \in Call,
           at'[c] \in {"idle", "run_start"} => at[c] \in {"idle", "run_start"},
           \A m \in Mine(c) : \E q \in parents'[c] : m \in History(q),
           job'[<<c, "main">>] # None =>
               \A m \in Mine(c) : \E q \in job'[<<c, "main">>].parents : m \in History(q),
           (job'[<<c, "main">>] # None /\ job'[<<c, "main">>].n \in Stored') =>
               \A m \in Mine(c) :
                   \E q \in commits'[job'[<<c, "main">>].n].parents : m \in History(q)
    PROVE  CallChain(c)'
<1>1. /\ Mine(c)' = Mine(c)
      /\ \A P \in SUBSET CommitId :
             Covers(P, c) => \A m \in Mine(c)' : \E q \in P : m \in History(q)'
  BY QuietStep
<1>2. at'[c] \in {"idle", "run_start"} => Mine(c)' = {}
  BY <1>1 DEF ChainInv, CallChain
<1>3. Covers(parents[c], c)'
  <2>1. parents'[c] \in SUBSET CommitId
    BY DEF TypeOK
  <2> QED
    BY <2>1, <1>1 DEF Covers
<1>4. <<c, "main">> \in Actor
  BY DEF Actor
<1>5. ASSUME job'[<<c, "main">>] # None PROVE Covers(job[<<c, "main">>].parents, c)'
  <2>1. job'[<<c, "main">>].parents \in SUBSET CommitId
    BY <1>4, <1>5 DEF TypeOK, Job
  <2> QED
    BY <2>1, <1>1, <1>5 DEF Covers
<1>6. ASSUME job'[<<c, "main">>] # None, job'[<<c, "main">>].n \in Stored'
      PROVE  Covers(commits[job[<<c, "main">>].n].parents, c)'
  <2>1. commits'[job'[<<c, "main">>].n].parents \in SUBSET CommitId
    BY <1>6 DEF TypeOK, Commit, Stored
  <2> QED
    BY <2>1, <1>1, <1>6 DEF Covers
<1> QED
  BY <1>2, <1>3, <1>5, <1>6 DEF CallChain

\* Every step keeps the chains.
LEMMA ChainStep ==
    TypeOK /\ RequestInv /\ ChainInv /\ [Next]_vars => ChainInv'
<1> SUFFICES ASSUME TypeOK, RequestInv, ChainInv, [Next]_vars PROVE ChainInv'
  OBVIOUS
<1>0. mode' = mode
  BY DEF Next, vars, Begin, StreamText, Compose, CallBack, Chunk, Leave, Send, Persist,
     Answer, GiveUp, Return
<1> SUFFICES ASSUME framework = "langgraph"
             PROVE  BoundariesChained' /\ \A c \in Call : CallChain(c)'
  BY <1>0 DEF ChainInv, framework
<1> DEFINE Goal == BoundariesChained' /\ \A c \in Call : CallChain(c)'
<1>k. Kept /\ TypeOK'
  BY KeptStep, TypeStep
<1>n. 0 \notin Stored
  BY BoundsAssumption DEF Stored, CommitId
<1>m. \A c \in Call : <<c, "main">> \in Actor
  BY DEF Actor
<1>a. ASSUME UNCHANGED <<mode, acked, commits, parents>>,
             \A m \in acked : sent'[m] = sent[m],
             \A c \in Call :
                 at'[c] \in {"idle", "run_start"} => at[c] \in {"idle", "run_start"},
             \A c \in Call : job'[<<c, "main">>] # None =>
                 \/ job'[<<c, "main">>] = job[<<c, "main">>]
                 \/ /\ job'[<<c, "main">>].n \notin Stored
                    /\ \A m \in Mine(c) :
                           \E q \in job'[<<c, "main">>].parents : m \in History(q)
      PROVE  Goal
  <2>1. BoundariesChained'
    BY <1>a, <1>k, QuietStep
  <2>2. ASSUME NEW c \in Call PROVE CallChain(c)'
    <3>1. /\ \A m \in Mine(c) : \E q \in parents[c] : m \in History(q)
          /\ job[<<c, "main">>] # None =>
               \A m \in Mine(c) : \E q \in job[<<c, "main">>].parents : m \in History(q)
          /\ (job[<<c, "main">>] # None /\ job[<<c, "main">>].n \in Stored) =>
               \A m \in Mine(c) :
                   \E q \in commits[job[<<c, "main">>].n].parents : m \in History(q)
      BY <2>2 DEF ChainInv, CallChain, Covers
    <3>2. Stored' = Stored
      BY <1>a DEF Stored
    <3>3. \A m \in Mine(c) : \E q \in parents'[c] : m \in History(q)
      BY <3>1, <1>a
    <3>4. job'[<<c, "main">>] # None =>
            \A m \in Mine(c) : \E q \in job'[<<c, "main">>].parents : m \in History(q)
      BY <3>1, <1>a
    <3>5. (job'[<<c, "main">>] # None /\ job'[<<c, "main">>].n \in Stored') =>
            \A m \in Mine(c) :
                \E q \in commits'[job'[<<c, "main">>].n].parents : m \in History(q)
      BY <3>1, <3>2, <1>a
    <3> QED
      BY <3>3, <3>4, <3>5, <1>a, <1>k, QuietCall
  <2> QED
    BY <2>1, <2>2
<1>1. ASSUME NEW c \in Call, Begin(c) \/ Chunk(c) \/ Leave(c) PROVE Goal
  <2>1. \A d \in Call :
          at'[d] \in {"idle", "run_start"} => at[d] \in {"idle", "run_start"}
    BY <1>1 DEF Begin, MayBegin, Chunk, Leave, TypeOK
  <2>2. UNCHANGED <<mode, acked, commits, parents, sent, job>>
    BY <1>1 DEF Begin, Chunk, Leave, daemon
  <2> QED
    BY <2>1, <2>2, <1>a
<1>2. ASSUME NEW c \in Call, StreamText(c) PROVE Goal
  BY <1>2 DEF StreamText
<1>3. ASSUME NEW c \in Call, Compose(c) PROVE Goal
  <2> DEFINE e == Event(at[c], ParentsOf(c, at[c]))
  <2>1. UNCHANGED <<mode, acked, commits, parents, sent, at>>
    BY <1>3 DEF Compose, daemon, local
  <2>2. e.n = 0 /\ e.parents = ParentsOf(c, at[c])
    BY DEF Event
  <2>3. job' = [job EXCEPT ![<<c, "main">>] = e]
    BY <1>3 DEF Compose
  <2> HIDE DEF e
  <2>4. \A d \in Call : job'[<<d, "main">>] = job[<<d, "main">>]
                        \/ (d = c /\ job'[<<d, "main">>] = e)
    <3>1. \A b \in Actor : job'[b] = IF b = <<c, "main">> THEN e ELSE job[b]
      BY <2>3, <1>m DEF TypeOK
    <3> QED
      BY <3>1, <1>m
  <2>5. \A m \in Mine(c) : \E q \in e.parents : m \in History(q)
    <3>1. Mine(c) = {} \/ ParentsOf(c, at[c]) = parents[c]
      BY DEF ChainInv, CallChain, ParentsOf
    <3>2. \A m \in Mine(c) : \E q \in parents[c] : m \in History(q)
      BY DEF ChainInv, CallChain, Covers
    <3> QED
      BY <3>1, <3>2, <2>2
  <2> QED
    BY <2>1, <2>2, <2>4, <2>5, <1>a, <1>n
<1>4. ASSUME NEW c \in Call, CallBack(c) PROVE Goal
  <2>1. UNCHANGED <<mode, acked, commits, parents, sent, at>>
    BY <1>4 DEF CallBack, daemon
  <2>2. \A d \in Call : job'[<<d, "main">>] = job[<<d, "main">>]
    BY <1>4, <1>m DEF CallBack, TypeOK
  <2> QED
    BY <2>1, <2>2, <1>a
<1>5. ASSUME NEW a \in Actor, Send(a) PROVE Goal
  <2> DEFINE named == IF job[a].parents = {} THEN Latest ELSE job[a].parents
             r == [actor |-> a, parents |-> named, channel |-> job[a].channel]
             j == [channel |-> job[a].channel, parents |-> named, n |-> Len(sent) + 1]
  <2>1. /\ sent' = Append(sent, r)
        /\ job' = [job EXCEPT ![a] = j] /\ j.n = Len(sent) + 1 /\ j.parents = named
        /\ UNCHANGED <<mode, acked, commits, parents, at>>
        /\ job[a] # None
    BY <1>5 DEF Send, TypeOK, daemon, local
  <2> HIDE DEF r, j
  <2>2. sent \in Seq(Request)
    BY DEF TypeOK
  <2>3. \A m \in acked : sent'[m] = sent[m]
    BY <2>1, <2>2 DEF RequestInv
  <2>4. j.n \notin Stored
    BY <2>1, RequestNumbers DEF RequestInv
  <2>5. ASSUME NEW c \in Call, a = <<c, "main">>
        PROVE  \A m \in Mine(c) : \E q \in j.parents : m \in History(q)
    <3>1. \A m \in Mine(c) : \E q \in job[a].parents : m \in History(q)
      BY <2>1, <2>5 DEF ChainInv, CallChain, Covers
    <3> QED
      BY <3>1, <2>1
  <2> HIDE DEF named
  <2>6. \A d \in Call : job'[<<d, "main">>] = job[<<d, "main">>]
                        \/ (a = <<d, "main">> /\ job'[<<d, "main">>] = j)
    <3>1. \A b \in Actor : job'[b] = IF b = a THEN j ELSE job[b]
      BY <2>1, <1>m DEF TypeOK
    <3> QED
      BY <3>1, <1>m
  <2> QED
    BY <2>1, <2>3, <2>4, <2>5, <2>6, <1>a
<1>6. ASSUME NEW n \in CommitId, Persist(n) PROVE Goal
  <2> DEFINE resolved == IF sent[n].parents # {} THEN sent[n].parents
                                                 ELSE {heads[sent[n].channel]} \ {None}
  <2>1. /\ UNCHANGED <<mode, acked, parents, sent, at, job>>
        /\ n \in 1..Len(sent)
        /\ Stored' \subseteq Stored \cup {n}
        /\ commits'[n].parents = resolved
    <3>1. PICK done \in BOOLEAN :
            commits' = [commits EXCEPT ![n] = [parents |-> resolved, done |-> done]]
      BY <1>6 DEF Persist
    <3> HIDE DEF resolved
    <3>2. /\ commits'[n].parents = resolved
          /\ \A m \in CommitId : m # n => commits'[m] = commits[m]
      BY <3>1 DEF TypeOK
    <3>3. UNCHANGED <<mode, acked, parents, sent, at, job>> /\ n \in 1..Len(sent)
      BY <1>6 DEF Persist, local
    <3> QED
      BY <3>2, <3>3 DEF Stored
  <2>2. BoundariesChained'
    BY <2>1, <1>k, QuietStep
  <2>3. ASSUME NEW c \in Call PROVE CallChain(c)'
    <3> DEFINE k == job[<<c, "main">>].n
    <3>1. /\ \A m \in Mine(c) : \E q \in parents[c] : m \in History(q)
          /\ job[<<c, "main">>] # None =>
               \A m \in Mine(c) : \E q \in job[<<c, "main">>].parents : m \in History(q)
          /\ (job[<<c, "main">>] # None /\ k \in Stored) =>
               \A m \in Mine(c) : \E q \in commits[k].parents : m \in History(q)
      BY <2>3 DEF ChainInv, CallChain, Covers
    <3>2. ASSUME job[<<c, "main">>] # None, k = n
          PROVE  \A m \in Mine(c) : \E q \in resolved : m \in History(q)
      <4>1. k # 0
        BY <2>1, <3>2
      <4>2. sent[n].parents = job[<<c, "main">>].parents
        BY <3>2, <4>1, <1>m DEF RequestInv
      <4> QED
        BY <4>2, <3>1, <3>2
    <3> HIDE DEF resolved, k
    <3>3. (job[<<c, "main">>] # None /\ k \in Stored') =>
            \A m \in Mine(c) : \E q \in commits'[k].parents : m \in History(q)
      BY <3>1, <3>2, <2>1, <1>k DEF Kept
    <3> QED
      BY <3>1, <3>3, <2>1, <1>k, QuietCall DEF k
  <2> QED
    BY <2>2, <2>3
<1>r. ASSUME NEW a \in Actor, NEW result, Return(a, result), job[a] # None
      PROVE  /\ \A c \in Call : <<c, "main">> # a =>
                  /\ parents'[c] = parents[c] /\ at'[c] = at[c]
                  /\ job'[<<c, "main">>] = job[<<c, "main">>]
             /\ \A c \in Call : <<c, "main">> = a =>
                  /\ parents'[c] = result /\ at'[c] \notin {"idle", "run_start"}
                  /\ job'[<<c, "main">>] = None
             /\ UNCHANGED <<mode, sent, commits>>
  <2>1. job' = [job EXCEPT ![a] = None] /\ UNCHANGED <<mode, sent, commits>>
    BY <1>r DEF Return, daemon
  <2>2. \A b \in Actor : job'[b] = IF b = a THEN None ELSE job[b]
    BY <2>1 DEF TypeOK
  <2>3. PICK d \in Call, kind \in {"main", "callback"} : a = <<d, kind>>
    BY DEF Actor
  <2>4. CASE kind = "main"
    <3>1. /\ parents' = [parents EXCEPT ![d] = result]
          /\ at' = [at EXCEPT ![d] = After(at[d])]
      BY <1>r, <2>3, <2>4 DEF Return
    <3>2. at[d] \in Boundary
      BY <1>r, <2>3, <2>4 DEF TypeOK
    <3>3. After(at[d]) \notin {"idle", "run_start"}
      BY <3>2 DEF Boundary, After
    <3>4. /\ \A c \in Call : parents'[c] = IF c = d THEN result ELSE parents[c]
          /\ \A c \in Call : at'[c] = IF c = d THEN After(at[d]) ELSE at[c]
      BY <3>1 DEF TypeOK
    <3> QED
      BY <2>1, <2>2, <2>3, <2>4, <3>3, <3>4, <1>m
  <2>5. CASE kind = "callback"
    <3>1. UNCHANGED <<parents, at>>
      BY <1>r, <2>3, <2>5 DEF Return
    <3> QED
      BY <2>1, <2>2, <2>3, <2>5, <3>1, <1>m
  <2> QED
    BY <2>4, <2>5
<1>7. ASSUME NEW a \in Actor, GiveUp(a) PROVE Goal
  <2>1. Return(a, job[a].parents) /\ job[a] # None /\ acked' = acked
    BY <1>7 DEF GiveUp
  <2>2. BoundariesChained'
    BY <2>1, <1>r, <1>k, QuietStep
  <2>3. ASSUME NEW c \in Call PROVE CallChain(c)'
    <3>1. /\ \A m \in Mine(c) : \E q \in parents[c] : m \in History(q)
          /\ job[<<c, "main">>] # None =>
               \A m \in Mine(c) : \E q \in job[<<c, "main">>].parents : m \in History(q)
          /\ (job[<<c, "main">>] # None /\ job[<<c, "main">>].n \in Stored) =>
               \A m \in Mine(c) :
                   \E q \in commits[job[<<c, "main">>].n].parents : m \in History(q)
      BY <2>3 DEF ChainInv, CallChain, Covers
    <3>2. Stored' = Stored /\ commits' = commits /\ sent' = sent /\ mode' = mode
      BY <2>1, <1>r DEF Stored
    <3>3. CASE <<c, "main">> = a
      <4>1. /\ parents'[c] = job[<<c, "main">>].parents
            /\ at'[c] \notin {"idle", "run_start"} /\ job'[<<c, "main">>] = None
        BY <2>1, <3>3, <1>r
      <4> QED
        BY <4>1, <3>1, <3>2, <3>3, <2>1, <1>k, QuietCall
    <3>4. CASE <<c, "main">> # a
      <4>1. /\ parents'[c] = parents[c] /\ at'[c] = at[c]
            /\ job'[<<c, "main">>] = job[<<c, "main">>]
        BY <2>1, <3>4, <1>r
      <4> QED
        BY <4>1, <3>1, <3>2, <2>1, <1>k, QuietCall
    <3> QED
      BY <3>3, <3>4
  <2> QED
    BY <2>2, <2>3
<1>8. ASSUME NEW a \in Actor, Answer(a) PROVE Goal
  <2> DEFINE n == job[a].n
  <2>1. /\ Return(a, {n}) /\ job[a] # None /\ n # 0 /\ n \in Stored
        /\ acked' = acked \cup {n}
    BY <1>8, RequestNumbers DEF Answer, Stored
  <2>2. UNCHANGED <<mode, sent, commits>>
    BY <2>1, <1>r
  <2>3. Stored' = Stored /\ \A q \in CommitId : History(q)' = History(q)
    BY <2>2 DEF Stored, History
  <2>4. sent[n].actor = a /\ \A m \in acked : sent[m].actor = a => m < n
    BY <2>1 DEF RequestInv
  <2>5. n \in CommitId /\ acked \subseteq CommitId /\ CommitId \subseteq Nat
    BY <2>1, BoundsAssumption DEF Stored, TypeOK, CommitId
  <2>6. ASSUME NEW c \in Call, a = <<c, "main">>
        PROVE  \A m \in Mine(c) \cup {n} : m \in History(n)
    <3>1. Covers(commits[n].parents, c)
      BY <2>1, <2>6 DEF ChainInv, CallChain
    <3> QED
      BY <3>1, <2>1, <2>5, HistoryHolds DEF Covers
  <2> HIDE DEF n
  <2>7. BoundariesChained'
    <3>1. SUFFICES ASSUME NEW m \in acked', NEW k \in acked', m < k,
                          sent[m].actor = sent[k].actor, sent[m].actor[2] = "main"
                   PROVE  m \in History(k)
      BY <2>2, <2>3, <2>5, <2>1 DEF BoundariesChained
    <3>2. CASE k \in acked
      <4>1. m \in acked
        <5>1. m \in Nat /\ k \in Nat /\ n \in Nat
          BY <2>1, <2>5
        <5>2. m = n => k < n
          BY <3>1, <3>2, <2>4
        <5> QED
          BY <5>1, <5>2, <3>1, <2>1
      <4> QED
        BY <3>1, <3>2, <4>1 DEF ChainInv, BoundariesChained
    <3>3. CASE k = n
      <4>1. m \in acked /\ sent[m].actor = a
        <5>1. m # n
          BY <3>1, <3>3, <2>5
        <5> QED
          BY <5>1, <3>1, <3>3, <2>1, <2>4
      <4>2. PICK c \in Call : a = <<c, "main">>
        BY <4>1, <3>1 DEF Actor
      <4> QED
        BY <4>1, <4>2, <2>6, <3>3 DEF Mine
    <3> QED
      BY <3>1, <3>2, <3>3, <2>1
  <2>8. ASSUME NEW c \in Call PROVE CallChain(c)'
    <3>1. CASE <<c, "main">> = a
      <4>1. Mine(c)' = Mine(c) \cup {n}
        BY <2>1, <2>2, <2>4, <3>1 DEF Mine
      <4>2. /\ parents'[c] = {n} /\ at'[c] \notin {"idle", "run_start"}
            /\ job'[<<c, "main">>] = None
        BY <2>1, <3>1, <1>r
      <4>3. Covers(parents[c], c)'
        <5>1. \A m \in Mine(c)' : \E q \in {n} : m \in History(q)'
          BY <4>1, <2>3, <2>5, <2>6, <3>1
        <5> QED
          BY <5>1, <4>2 DEF Covers
      <4> QED
        BY <4>2, <4>3 DEF CallChain
    <3>2. CASE <<c, "main">> # a
      <4>1. Mine(c)' = Mine(c)
        BY <2>1, <2>2, <2>4, <3>2 DEF Mine
      <4>2. /\ parents'[c] = parents[c] /\ at'[c] = at[c]
            /\ job'[<<c, "main">>] = job[<<c, "main">>]
        BY <2>1, <3>2, <1>r
      <4>3. ASSUME NEW P \in SUBSET CommitId, Covers(P, c)
            PROVE  \A m \in Mine(c)' : \E q \in P : m \in History(q)'
        BY <4>1, <4>3, <2>3 DEF Covers
      <4>4. CallChain(c)
        BY DEF ChainInv
      <4>5. Covers(parents[c], c)'
        BY <4>2, <4>3, <4>4 DEF CallChain, Covers, TypeOK
      <4>6. ASSUME job'[<<c, "main">>] # None
            PROVE  Covers(job[<<c, "main">>].parents, c)'
        <5>1. job[<<c, "main">>].parents \in SUBSET CommitId
          BY <4>2, <4>6, <1>m, RequestNumbers DEF Job
        <5> QED
          BY <5>1, <4>2, <4>3, <4>4, <4>6 DEF CallChain, Covers
      <4>7. ASSUME job'[<<c, "main">>] # None, job'[<<c, "main">>].n \in Stored'
            PROVE  Covers(commits[job[<<c, "main">>].n].parents, c)'
        <5>1. commits[job[<<c, "main">>].n].parents \in SUBSET CommitId
          BY <4>2, <4>7, <2>3 DEF TypeOK, Stored, Commit
        <5> QED
          BY <5>1, <4>2, <4>3, <4>4, <4>7, <2>2, <2>3 DEF CallChain, Covers
      <4> QED
        BY <4>1, <4>2, <4>4, <4>5, <4>6, <4>7 DEF CallChain
    <3> QED
      BY <3>1, <3>2
  <2> QED
    BY <2>7, <2>8
<1>9. ASSUME UNCHANGED vars PROVE Goal
  BY <1>9, <1>a DEF vars, local, daemon
<1> QED
  BY <1>1, <1>2, <1>3, <1>4, <1>5, <1>6, <1>7, <1>8, <1>9 DEF Next

\* Of two boundary checkpoints of a LangGraph call that were answered, the
\* later builds on the earlier, whatever is lost or late and whatever other
\* calls and callbacks checkpoint meanwhile.
THEOREM AdapterBoundaries == Spec => []BoundariesChained
<1> DEFINE Inv == TypeOK /\ RequestInv /\ ChainInv
<1>1. Init => Inv
  <2> SUFFICES ASSUME Init PROVE RequestInv /\ ChainInv
    BY TypeInit
  <2>1. acked = {} /\ Stored = {} /\ \A a \in Actor : job[a] = None
    BY DEF Init, Stored
  <2>2. RequestInv
    BY <2>1 DEF RequestInv
  <2>3. \A c \in Call : Mine(c) = {} /\ job[<<c, "main">>] = None
    BY <2>1 DEF Mine, Actor
  <2>4. ChainInv
    BY <2>1, <2>3 DEF ChainInv, CallChain, Covers, BoundariesChained
  <2> QED
    BY <2>2, <2>4
<1>2. Inv /\ [Next]_vars => Inv'
  BY TypeStep, RequestStep, ChainStep
<1>3. Inv => BoundariesChained
  BY DEF ChainInv, BoundariesChained
<1> QED
  BY <1>1, <1>2, <1>3, PTL DEF Spec

-----------------------------------------------------------------------------
(* One chain                                                               *)

\* Every checkpoint is waited for, and calls do not overlap.
Waited == alone /\ framework \in {"crewai", "generate_text"}

\* Then one call is under way at a time, and its program and its callbacks
\* take turns.
TurnInv ==
    Waited =>
        /\ \A c \in Call : at[c] \in {"idle", "run_start", "running", "run_end", "error", "done"}
        /\ \A c, d \in Call : {at[c], at[d]} \cap {"idle", "done"} = {} => c = d
        /\ \A c \in Call : job[<<c, "main">>] # None => at[c] \in {"run_start", "run_end", "error"}
        /\ \A c \in Call : job[<<c, "callback">>] # None => at[c] = "running"

\* The checkpoint under way is later than all that were answered and names
\* the last of them, whose history holds them all.  Until one is answered
\* there is nothing to name.
TipInv ==
    Waited =>
        /\ \A a \in Actor : job[a] # None =>
              /\ job[a].parents = Latest
              /\ job[a].n # 0 =>
                    /\ \A m \in acked : m < job[a].n
                    /\ job[a].n \in Stored /\ last # None => commits[job[a].n].parents = {last}
        /\ \A c \in Call : last = None => parents[c] = {}
        /\ \A m \in acked : last # None /\ m \in History(last)
        /\ OneChain

\* Turns keep checkpoints apart.
LEMMA OneJob ==
    ASSUME TurnInv, Waited, NEW a \in Actor, NEW b \in Actor, job[a] # None, job[b] # None
    PROVE  a = b
<1>1. PICK c, d \in Call, x, y \in {"main", "callback"} : a = <<c, x>> /\ b = <<d, y>>
  BY DEF Actor
<1>2. c = d
  BY <1>1 DEF TurnInv
<1>3. x = y
  BY <1>1, <1>2 DEF TurnInv
<1> QED
  BY <1>1, <1>2, <1>3

\* Every step keeps the turns.
LEMMA TurnStep == TypeOK /\ TurnInv /\ [Next]_vars => TurnInv'
<1> SUFFICES ASSUME TypeOK, TurnInv, [Next]_vars PROVE TurnInv'
  OBVIOUS
<1>0. mode' = mode
  BY DEF Next, vars, Begin, StreamText, Compose, CallBack, Chunk, Leave, Send, Persist,
     Answer, GiveUp, Return
<1>c. \A c \in Call : <<c, "main">> \in Actor /\ <<c, "callback">> \in Actor
  BY DEF Actor
<1>t. /\ at \in [Call -> Boundary \cup {"idle", "running", "done"}] /\ at = [c \in Call |-> at[c]]
      /\ job \in [Actor -> Job \cup {None}]
  BY DEF TypeOK
<1> SUFFICES ASSUME Waited PROVE TurnInv'
  BY <1>0 DEF TurnInv, Waited, alone, framework
<1>1. ASSUME NEW c \in Call, Begin(c) PROVE TurnInv'
  <2>1. at' = [at EXCEPT ![c] = "run_start"] /\ job' = job
        /\ \A d \in Call : at[d] \in {"idle", "done"}
    BY <1>1 DEF Begin, MayBegin, Waited
  <2> QED
    BY <1>t, <2>1 DEF TurnInv
<1>2. ASSUME NEW c \in Call, StreamText(c) \/ Chunk(c) PROVE FALSE
  BY <1>2 DEF StreamText, Chunk, Waited
<1>3. ASSUME NEW c \in Call, Compose(c) PROVE TurnInv'
  <2>1. PICK j : job' = [job EXCEPT ![<<c, "main">>] = j]
    BY <1>3 DEF Compose
  <2>2. at' = at /\ at[c] \in Boundary
    BY <1>3 DEF Compose, local
  <2>3. at[c] \in {"run_start", "run_end", "error"}
    BY <2>2 DEF TurnInv, Boundary
  <2>4. \A d \in Call : /\ job'[<<d, "callback">>] = job[<<d, "callback">>]
                        /\ d # c => job'[<<d, "main">>] = job[<<d, "main">>]
    <3>1. \A b \in Actor : b # <<c, "main">> => job'[b] = job[b]
      BY <1>t, <2>1
    <3>2. \A d \in Call : /\ <<d, "callback">> # <<c, "main">>
                          /\ d # c => <<d, "main">> # <<c, "main">>
      OBVIOUS
    <3> QED
      BY <1>c, <3>1, <3>2, Zenon
  <2> QED
    BY <2>2, <2>3, <2>4 DEF TurnInv
<1>4. ASSUME NEW c \in Call, CallBack(c) PROVE TurnInv'
  <2>1. PICK j : job' = [job EXCEPT ![<<c, "callback">>] = j]
    BY <1>4 DEF CallBack
  <2>2. at' = at /\ at[c] = "running"
    BY <1>4 DEF CallBack, TurnInv
  <2>3. \A d \in Call : /\ job'[<<d, "main">>] = job[<<d, "main">>]
                        /\ d # c => job'[<<d, "callback">>] = job[<<d, "callback">>]
    <3>1. \A b \in Actor : b # <<c, "callback">> => job'[b] = job[b]
      BY <1>t, <2>1
    <3>2. \A d \in Call : /\ <<d, "main">> # <<c, "callback">>
                          /\ d # c => <<d, "callback">> # <<c, "callback">>
      OBVIOUS
    <3> QED
      BY <1>c, <3>1, <3>2, Zenon
  <2> QED
    BY <2>2, <2>3 DEF TurnInv
<1>5. ASSUME NEW c \in Call, Leave(c) PROVE TurnInv'
  <2>1. PICK next \in {"run_end", "error", "done"} : at' = [at EXCEPT ![c] = next]
    BY <1>5 DEF Leave, Waited
  <2>2. at[c] = "running" /\ job[<<c, "callback">>] = None /\ job' = job
    BY <1>5 DEF Leave
  <2>3. job[<<c, "main">>] = None
    BY <2>2 DEF TurnInv
  <2> QED
    BY <1>t, <2>1, <2>2, <2>3 DEF TurnInv
<1>6. ASSUME NEW a \in Actor, Send(a) PROVE TurnInv'
  <2>1. at' = at /\ job[a] # None
    BY <1>6 DEF Send, local
  <2>2. \A b \in Actor : job'[b] # None => job[b] # None
    BY <1>6 DEF Send, TypeOK
  <2> QED
    BY <1>c, <2>1, <2>2 DEF TurnInv
<1>7. ASSUME NEW a \in Actor, Answer(a) \/ GiveUp(a) PROVE TurnInv'
  <2>1. PICK c \in Call, x \in {"main", "callback"} : a = <<c, x>>
    BY DEF Actor
  <2>2. job' = [job EXCEPT ![a] = None] /\ job[a] # None
    BY <1>7 DEF Answer, GiveUp, Return
  <2>3. IF x = "main" THEN at' = [at EXCEPT ![c] = After(at[c])] ELSE at' = at
    BY <1>7, <2>1 DEF Answer, GiveUp, Return, Waited
  <2>4. CASE x = "callback"
    <3>1. at' = at /\ \A b \in Actor : job'[b] # None => job[b] # None
      BY <1>t, <2>2, <2>3, <2>4
    <3> QED
      BY <1>c, <3>1 DEF TurnInv
  <2>5. CASE x = "main"
    <3>1. at[c] \in {"run_start", "run_end", "error"}
      BY <2>1, <2>2, <2>5 DEF TurnInv
    <3>2. After(at[c]) \in {"running", "done"}
      BY <3>1 DEF After, Waited
    <3>3. \A d \in Call : at'[d] = IF d = c THEN After(at[c]) ELSE at[d]
      BY <1>t, <2>3, <2>5
    <3>4. /\ job'[<<c, "main">>] = None
          /\ \A b \in Actor : job'[b] # None => job[b] # None
      BY <1>t, <2>1, <2>2, <2>5
    <3>5. job[<<c, "callback">>] = None
      BY <3>1 DEF TurnInv
    <3> QED
      BY <1>c, <3>1, <3>2, <3>3, <3>4, <3>5 DEF TurnInv
  <2> QED
    BY <2>4, <2>5
<1>8. ASSUME NEW n \in CommitId, Persist(n) PROVE TurnInv'
  BY <1>8 DEF Persist, local, TurnInv
<1>9. ASSUME UNCHANGED vars PROVE TurnInv'
  BY <1>9 DEF vars, local, TurnInv
<1> QED
  BY <1>1, <1>2, <1>3, <1>4, <1>5, <1>6, <1>7, <1>8, <1>9 DEF Next

\* Every step keeps the last answered checkpoint at the tip.
LEMMA TipStep ==
    TypeOK /\ NamesInv /\ RequestInv /\ TurnInv /\ TipInv /\ [Next]_vars => TipInv'
<1> SUFFICES ASSUME TypeOK, NamesInv, RequestInv, TurnInv, TipInv, [Next]_vars PROVE TipInv'
  OBVIOUS
<1>0. mode' = mode
  BY DEF Next, vars, Begin, StreamText, Compose, CallBack, Chunk, Leave, Send, Persist,
     Answer, GiveUp, Return
<1> SUFFICES ASSUME Waited PROVE TipInv'
  BY <1>0 DEF TipInv, Waited, alone, framework
<1>c. \A c \in Call : <<c, "main">> \in Actor /\ <<c, "callback">> \in Actor
  BY DEF Actor
<1>t. /\ job \in [Actor -> Job \cup {None}] /\ parents \in [Call -> SUBSET CommitId]
      /\ last \in CommitId \cup {None} /\ None \notin CommitId /\ acked \subseteq CommitId
  BY NoneAssumption DEF TypeOK
<1> DEFINE Tip(j) == /\ j.parents = Latest
                     /\ j.n # 0 =>
                           /\ \A m \in acked : m < j.n
                           /\ j.n \in Stored /\ last # None => commits[j.n].parents = {last}
<1>i. /\ \A a \in Actor : job[a] # None => Tip(job[a])
      /\ \A c \in Call : last = None => parents[c] = {}
      /\ \A m \in acked : last # None /\ m \in History(last)
      /\ OneChain
  BY DEF TipInv
<1> HIDE DEF Tip
\* Where nothing is stored or answered only the checkpoints count.
<1>q. ASSUME UNCHANGED <<last, acked, commits>>,
             \A a \in Actor : job'[a] # None => Tip(job'[a]),
             \A c \in Call : last = None => parents'[c] = {}
      PROVE  TipInv'
  <2>1. Latest' = Latest /\ Stored' = Stored /\ \A x \in CommitId : History(x)' = History(x)
    BY <1>q DEF Latest, Stored, History
  <2>2. OneChain'
    BY <1>0, <1>i, <1>q, <1>t, <2>1 DEF OneChain, alone, framework
  <2>3. \A a \in Actor : job'[a] # None =>
           /\ job'[a].parents = Latest'
           /\ job'[a].n # 0 =>
                 /\ \A m \in acked' : m < job'[a].n
                 /\ job'[a].n \in Stored' /\ last' # None => commits'[job'[a].n].parents = {last'}
    BY <1>q, <2>1 DEF Tip
  <2>4. \A m \in acked' : last' # None /\ m \in History(last)'
    BY <1>i, <1>q, <1>t, <2>1
  <2> QED
    BY <1>q, <2>2, <2>3, <2>4 DEF TipInv
<1>1. ASSUME NEW c \in Call, Begin(c) \/ Chunk(c) \/ Leave(c) PROVE TipInv'
  <2>1. UNCHANGED <<last, acked, commits, job, parents>>
    BY <1>1 DEF Begin, Chunk, Leave, daemon
  <2> QED
    BY <1>i, <1>q, <2>1
<1>2. ASSUME NEW c \in Call, StreamText(c) PROVE FALSE
  BY <1>2 DEF StreamText, Waited
\* A new checkpoint names the latest commit, whatever the event.
<1>e. \A event : Tip(Event(event, Latest))
  BY DEF Event, Tip
<1>3. ASSUME NEW c \in Call, Compose(c) PROVE TipInv'
  <2>1. ParentsOf(c, at[c]) = Latest
    <3>1. last = None => Latest = {} /\ parents[c] = {}
      BY <1>i DEF Latest
    <3> QED
      BY <3>1 DEF ParentsOf, Waited
  <2>2. /\ UNCHANGED <<last, acked, commits, parents>>
        /\ job' = [job EXCEPT ![<<c, "main">>] = Event(at[c], Latest)]
    BY <1>3, <2>1 DEF Compose, local, daemon
  <2>3. \A a \in Actor : job'[a] # None => Tip(job'[a])
    BY <1>c, <1>e, <1>i, <1>t, <2>2
  <2> QED
    BY <1>i, <1>q, <2>2, <2>3
<1>4. ASSUME NEW c \in Call, CallBack(c) PROVE TipInv'
  <2>1. /\ UNCHANGED <<last, acked, commits, parents>>
        /\ \E event : job' = [job EXCEPT ![<<c, "callback">>] = Event(event, Latest)]
    BY <1>4 DEF CallBack, daemon
  <2>2. \A a \in Actor : job'[a] # None => Tip(job'[a])
    BY <1>c, <1>e, <1>i, <1>t, <2>1
  <2> QED
    BY <1>i, <1>q, <2>1, <2>2
<1>5. ASSUME NEW a \in Actor, Send(a) PROVE TipInv'
  <2>1. job[a].parents = Latest /\ job[a] # None
    BY <1>5, <1>i DEF Send, Tip
  <2>2. PICK j : /\ job' = [job EXCEPT ![a] = j]
                 /\ j.parents = Latest /\ j.n = Len(sent) + 1
    <3> DEFINE named == IF job[a].parents = {} THEN Latest ELSE job[a].parents
               r == [channel |-> job[a].channel, parents |-> named, n |-> Len(sent) + 1]
    <3>1. job' = [job EXCEPT ![a] = r]
      BY <1>5, <1>t DEF Send
    <3>2. r.parents = named /\ r.n = Len(sent) + 1 /\ named = Latest
      BY <2>1
    <3> HIDE DEF r, named
    <3> QED
      BY <3>1, <3>2
  <2>3. UNCHANGED <<last, acked, commits, parents>>
    BY <1>5 DEF Send, local, daemon
  <2>4. Tip(j)
    <3>1. Len(sent) \in Nat /\ acked \subseteq 1..Len(sent) /\ Stored \subseteq 1..Len(sent)
      BY RequestNumbers DEF RequestInv
    <3> QED
      BY <2>2, <3>1 DEF Tip
  <2>5. \A b \in Actor : job'[b] # None => Tip(job'[b])
    BY <1>i, <1>t, <2>2, <2>4
  <2> QED
    BY <1>i, <1>q, <2>3, <2>5
<1>6. ASSUME NEW n \in CommitId, Persist(n) PROVE TipInv'
  <2>1. /\ UNCHANGED <<last, acked, job, parents, sent>>
        /\ n \in 1..Len(sent) /\ n \notin Stored
    BY <1>6 DEF Persist, local, Stored
  <2>2. Kept
    BY KeptStep
  <2>3. \A x \in CommitId : \A m \in History(x) : m \in History(x)'
    BY <2>2, HistoryGrows
  <2>4. Stored' = Stored \cup {n} /\ Latest' = Latest
    <3> DEFINE resolved == IF sent[n].parents # {} THEN sent[n].parents
                           ELSE {heads[sent[n].channel]} \ {None}
    <3>1. \E c \in [parents : SUBSET CommitId, done : BOOLEAN] : commits' = [commits EXCEPT ![n] = c]
      <4>1. sent[n] \in Request
        BY <2>1, RequestNumbers
      <4>2. resolved \in SUBSET CommitId
        BY <4>1 DEF Request, TypeOK
      <4>3. \E done \in BOOLEAN :
              commits' = [commits EXCEPT ![n] = [parents |-> resolved, done |-> done]]
        BY <1>6 DEF Persist
      <4> HIDE DEF resolved
      <4> QED
        BY <4>2, <4>3
    <3>2. None \notin [parents : SUBSET CommitId, done : BOOLEAN]
      BY NoneAssumption DEF Commit
    <3> QED
      BY <2>1, <3>1, <3>2 DEF Stored, Latest, TypeOK
  <2>5. ASSUME NEW a \in Actor, job[a] # None, job[a].n \in Stored', job[a].n # 0, last # None
        PROVE  commits'[job[a].n].parents = {last}
    <3>1. CASE job[a].n \in Stored
      BY <1>i, <2>2, <2>5, <3>1 DEF Kept, Tip
    <3>2. CASE job[a].n = n
      <4>1. sent[n].parents = {last}
        BY <1>i, <2>5, <3>2 DEF RequestInv, Tip, Latest
      <4>2. commits' = [commits EXCEPT ![n] = commits'[n]] /\ commits'[n].parents = sent[n].parents
        BY <1>6, <4>1 DEF Persist, TypeOK
      <4> QED
        BY <3>2, <4>1, <4>2
    <3> QED
      BY <2>4, <2>5, <3>1, <3>2
  <2>6. OneChain'
    BY <1>0, <1>i, <1>t, <2>1, <2>3 DEF OneChain, alone, framework
  <2>7. \A a \in Actor : job'[a] # None =>
           /\ job'[a].parents = Latest'
           /\ job'[a].n # 0 =>
                 /\ \A m \in acked' : m < job'[a].n
                 /\ job'[a].n \in Stored' /\ last' # None => commits'[job'[a].n].parents = {last'}
    BY <1>i, <2>1, <2>4, <2>5 DEF Tip
  <2>8. \A m \in acked' : last' # None /\ m \in History(last)'
    BY <1>i, <1>t, <2>1, <2>3
  <2> QED
    BY <1>i, <2>1, <2>6, <2>7, <2>8 DEF TipInv
<1>7. ASSUME NEW a \in Actor, GiveUp(a) PROVE TipInv'
  <2>1. /\ UNCHANGED <<last, acked, commits>> /\ job' = [job EXCEPT ![a] = None]
        /\ job[a].parents = Latest
    BY <1>7, <1>i DEF GiveUp, Return, daemon, Tip
  <2>2. \A c \in Call : parents'[c] = parents[c] \/ parents'[c] = Latest
    BY <1>7, <1>t, <2>1 DEF GiveUp, Return
  <2>3. \A c \in Call : last = None => parents'[c] = {}
    BY <1>i, <2>2 DEF Latest
  <2>4. \A b \in Actor : job'[b] # None => Tip(job'[b])
    BY <1>i, <1>t, <2>1
  <2> QED
    BY <1>q, <2>1, <2>3, <2>4
<1>8. ASSUME NEW a \in Actor, Answer(a) PROVE TipInv'
  <2>1. PICK n : n = job[a].n
    OBVIOUS
  <2>2. /\ job[a] # None /\ n # 0 /\ last' = n /\ acked' = acked \cup {n}
        /\ commits' = commits /\ job' = [job EXCEPT ![a] = None]
        /\ n \in CommitId /\ n \in Stored
    <3>1. /\ job[a] # None /\ n # 0 /\ last' = n /\ acked' = acked \cup {n}
          /\ commits' = commits /\ job' = [job EXCEPT ![a] = None] /\ commits[n] # None
      BY <1>8, <2>1 DEF Answer, Return, daemon
    <3>2. n \in CommitId
      BY <2>1, <3>1, RequestNumbers
    <3> QED
      BY <3>1, <3>2 DEF Stored
  <2>3. \A b \in Actor : job'[b] = None
    <3>1. \A b \in Actor : job[b] # None => b = a
      BY <2>2, OneJob
    <3> QED
      BY <1>t, <2>2, <3>1
  <2>4. \A x \in CommitId : History(x)' = History(x)
    BY <2>2 DEF History, Stored
  <2>5. \A m \in acked : m < n /\ m \in History(n)
    <3> SUFFICES ASSUME NEW m \in acked PROVE m < n /\ m \in History(n)
      OBVIOUS
    <3>1. m < n /\ last # None /\ m \in History(last)
      BY <1>i, <2>1, <2>2 DEF Tip
    <3>2. commits[n].parents = {last}
      BY <1>i, <2>1, <2>2, <3>1 DEF Tip
    <3> QED
      BY <2>2, <3>1, <3>2, HistoryHolds
  <2>6. n \in History(n)
    BY <2>2, HistoryHolds
  <2>7. \A m \in acked' : last' # None /\ m \in History(last)'
    BY <1>t, <2>2, <2>4, <2>5, <2>6
  <2>8. OneChain'
    <3> SUFFICES ASSUME NEW m \in acked', NEW k \in acked', m < k PROVE m \in History(k)'
      BY DEF OneChain
    <3>1. m \in CommitId /\ k \in CommitId /\ CommitId \subseteq Nat
      BY <1>t, <2>2, BoundsAssumption DEF CommitId
    <3>2. CASE k = n
      BY <2>2, <2>4, <2>5, <2>6, <3>1, <3>2
    <3>3. CASE k # n
      <4>1. k \in acked /\ k < n
        BY <2>2, <2>5, <3>3
      <4>2. m # n
        BY <3>1, <4>1, <2>2
      <4>3. m \in acked
        BY <2>2, <4>2
      <4>4. m \in History(k)
        BY <1>i, <4>1, <4>3 DEF OneChain, Waited
      <4> QED
        BY <2>4, <3>1, <4>4
    <3> QED
      BY <3>2, <3>3
  <2> QED
    BY <1>t, <2>2, <2>3, <2>7, <2>8 DEF TipInv
<1>9. ASSUME UNCHANGED vars PROVE TipInv'
  BY <1>9, <1>i, <1>q DEF vars, local, daemon
<1> QED
  BY <1>1, <1>2, <1>3, <1>4, <1>5, <1>6, <1>7, <1>8, <1>9 DEF Next

\* Where a framework's checkpoints are waited for and its calls do not
\* overlap, each answered one builds on all that were answered before it,
\* though answers are lost or late and what was given up is stored later.
THEOREM AdapterChain == Spec => []OneChain
<1> DEFINE Inv == TypeOK /\ NamesInv /\ RequestInv /\ TurnInv /\ TipInv
<1>1. Init => Inv
  <2> SUFFICES ASSUME Init PROVE NamesInv /\ RequestInv /\ TurnInv /\ TipInv
    BY TypeInit
  <2>1. /\ acked = {} /\ Stored = {} /\ last = None /\ \A a \in Actor : job[a] = None
        /\ \A c \in Call : at[c] = "idle" /\ parents[c] = {}
        /\ sent = <<>>
    BY DEF Init, Stored
  <2>2. \A c \in Call : <<c, "main">> \in Actor /\ <<c, "callback">> \in Actor
    BY DEF Actor
  <2>3. NamesInv /\ RequestInv
    BY <2>1 DEF NamesInv, NamesOnlyStored, RequestInv
  <2>4. TurnInv
    BY <2>1, <2>2 DEF TurnInv
  <2>5. TipInv
    BY <2>1 DEF TipInv, OneChain
  <2> QED
    BY <2>3, <2>4, <2>5
<1>2. Inv /\ [Next]_vars => Inv'
  BY TypeStep, NamesStep, RequestStep, TurnStep, TipStep
<1>3. Inv => OneChain
  BY DEF TipInv, Waited, OneChain
<1> QED
  BY <1>1, <1>2, <1>3, PTL DEF Spec
=============================================================================
