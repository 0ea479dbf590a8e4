------------------------------- MODULE Adapter -------------------------------
(***************************************************************************)
(* The framework adapters of the SDKs.  An adapter wraps an agent framework *)
(* and checkpoints events of its calls: at the boundaries of a call, and in *)
(* callbacks of the framework while the call runs.  It keeps, per thread,   *)
(* the last commit id it was answered, and names it, or what the program of *)
(* the call remembers, as the parent of the next checkpoint.                *)
(*   python: adapters/base.py, langgraph.py, crewai.py                      *)
(*   typescript: adapters/base.ts, vercel-ai.ts                             *)
(* One adapter, one thread id, its calls possibly at the same time.  A      *)
(* checkpoint is composed (event), sent (checkpoint_event), stored by the   *)
(* daemon, and answered or given up: the answer may be lost or late, and a  *)
(* request given up may be stored later.  Options have their defaults       *)
(* (fail_open, everything captured).  Left out: register, whose outcome     *)
(* changes nothing here, and what the events contain.                       *)
(***************************************************************************)
EXTENDS Integers, Sequences, FiniteSets

CONSTANTS
    Modes,         \* frameworks explored, and whether their users call one at a time
    Call,          \* calls of the wrapped object
    MaxChunks,     \* max_stream_events (100 in the code)
    MaxCallbacks,  \* bound on the callbacks of a call
    MaxSent,       \* bound on the checkpoints sent
    None

ASSUME ModesAssumption ==
    Modes \subseteq {"langgraph", "crewai", "generate_text", "stream_text"} \X BOOLEAN
ASSUME BoundsAssumption == {MaxChunks, MaxCallbacks, MaxSent} \subseteq Nat

\* Checkpoints are sent by the program of a call and by its callbacks.
Actor == Call \X {"main", "callback"}

\* A commit goes by the number of the request that made it.
CommitId == 1..MaxSent

\* The adapter's channels, up to the run and thread in their names.
Channel == {"framework", "state", "events"}

Job     == [channel : Channel, parents : SUBSET CommitId, n : 0..MaxSent]
Request == [actor : Actor, channel : Channel, parents : SUBSET CommitId]
Commit  == [parents : SUBSET CommitId, done : BOOLEAN]

ASSUME NoneAssumption == None \notin CommitId /\ None \notin Job /\ None \notin Commit

VARIABLES
    mode,      \* the framework that is wrapped; one call at a time or not
    last,      \* _last_commit_id_by_thread
    at,        \* where each call is
    parents,   \* local variable of each call: the parents of what comes next
    seen,      \* local variable of each call: chunks it has checkpointed
    calledBack,\* how many callbacks each call had
    job,       \* the checkpoint each actor is busy with
    sent,      \* requests sent to the daemon, in order
    commits,   \* the daemon's commits: parents, and whether it set the head
    heads,     \* the daemon's head of each of the adapter's channels
    acked      \* history: commits whose id the adapter was answered

local  == <<at, parents, seen, calledBack>>
daemon == <<commits, heads>>
vars   == <<mode, last, local, job, sent, daemon, acked>>

framework == mode[1]
alone == mode[2]

-----------------------------------------------------------------------------
\* channel_for_event, for events without a channel or tool of their own.
ChannelForEvent(event) ==
    IF event \in {"run_start", "run_end"} THEN "framework"
    ELSE IF event \in {"step_end", "node_end", "task_end"} THEN "state"
    ELSE "events"

\* The events of a framework's callbacks.
CallbackEvents ==
    [langgraph     |-> {"node_start", "node_end", "error"},
     crewai        |-> {"task_end"},
     generate_text |-> {"step_end", "run_end", "error"},
     stream_text   |-> {"step_end", "run_end", "error"}][framework]

\* What an event without parents of its own is given.
Latest == {last} \ {None}

\* Mutant: the end of a run names what the program of the call remembers.
ParentsRemembered(c, event) ==
    IF event # "run_start" THEN parents[c] ELSE Latest

\* Mutant: every event names the latest commit of the thread.
ParentsLatest(c, event) == Latest

\* The parents the program of a call names for a boundary event.  LangGraph:
\* what the checkpoint before returned.  CrewAI: the end of a run names the
\* latest commit, if there is one.  Vercel AI: always the latest.
ParentsOf(c, event) ==
    IF event # "run_start"
       /\ (framework = "langgraph" \/ (framework = "crewai" /\ last = None))
    THEN parents[c]
    ELSE Latest

\* What the program of a call does after a boundary event.
After(event) ==
    [run_start    |-> IF framework = "langgraph" THEN "step_start" ELSE "running",
     step_start   |-> "running",
     stream_delta |-> "running",
     step_end     |-> "run_end",
     run_end      |-> "done",
     error        |-> "done"][event]

Boundary == {"run_start", "step_start", "stream_delta", "step_end", "run_end", "error"}

\* What event() makes: a checkpoint that has no request yet.
Event(event, named) == [channel |-> ChannelForEvent(event), parents |-> named, n |-> 0]

-----------------------------------------------------------------------------
Init ==
    /\ mode \in Modes
    /\ last = None
    /\ at = [c \in Call |-> "idle"]
    /\ parents = [c \in Call |-> {}]
    /\ seen = [c \in Call |-> 0]
    /\ calledBack = [c \in Call |-> 0]
    /\ job = [a \in Actor |-> None]
    /\ sent = <<>>
    /\ commits = [n \in CommitId |-> None]
    /\ heads = [ch \in Channel |-> None]
    /\ acked = {}

MayBegin(c) ==
    /\ at[c] = "idle"
    /\ alone => \A d \in Call : at[d] \in {"idle", "done"}

\* invoke, stream, batch, kickoff or generateText is called.
Begin(c) ==
    /\ framework # "stream_text"
    /\ MayBegin(c)
    /\ at' = [at EXCEPT ![c] = "run_start"]
    /\ UNCHANGED <<mode, last, parents, seen, calledBack, job, sent, daemon, acked>>

\* streamText is called: run_start is checkpointed without waiting for it,
\* then the base function returns, or throws and an error is checkpointed.
StreamText(c) ==
    /\ framework = "stream_text"
    /\ MayBegin(c)
    /\ \E throws \in BOOLEAN :
         /\ at' = [at EXCEPT ![c] = IF throws THEN "done" ELSE "running"]
         /\ job' = [job EXCEPT ![<<c, "main">>] = Event("run_start", Latest),
                               ![<<c, "callback">>] =
                                   IF throws THEN Event("error", Latest) ELSE None]
    /\ UNCHANGED <<mode, last, parents, seen, calledBack, sent, daemon, acked>>

\* The program of a call composes its next boundary event.
Compose(c) ==
    /\ at[c] \in Boundary
    /\ job[<<c, "main">>] = None
    /\ job' = [job EXCEPT ![<<c, "main">>] = Event(at[c], ParentsOf(c, at[c]))]
    /\ UNCHANGED <<mode, last, local, sent, daemon, acked>>

\* The framework calls back; a graph may while a chunk is checkpointed.
CallBack(c) ==
    /\ at[c] \in {"running", "stream_delta"}
    /\ job[<<c, "callback">>] = None
    /\ calledBack[c] < MaxCallbacks
    /\ calledBack' = [calledBack EXCEPT ![c] = @ + 1]
    /\ \E event \in CallbackEvents :
         job' = [job EXCEPT ![<<c, "callback">>] = Event(event, Latest)]
    /\ UNCHANGED <<mode, last, at, parents, seen, sent, daemon, acked>>

\* Mutant: the limit is compared one too late.
ChunkOneMore(c) ==
    /\ framework = "langgraph"
    /\ at[c] = "running" /\ seen[c] <= MaxChunks
    /\ seen' = [seen EXCEPT ![c] = @ + 1]
    /\ at' = [at EXCEPT ![c] = "stream_delta"]
    /\ UNCHANGED <<mode, last, parents, calledBack, job, sent, daemon, acked>>

\* stream() gets a chunk from the graph.  Beyond the limit it only counts.
Chunk(c) ==
    /\ framework = "langgraph"
    /\ at[c] = "running" /\ seen[c] < MaxChunks
    /\ seen' = [seen EXCEPT ![c] = @ + 1]
    /\ at' = [at EXCEPT ![c] = "stream_delta"]
    /\ UNCHANGED <<mode, last, parents, calledBack, job, sent, daemon, acked>>

\* The wrapped object returns or raises, its callbacks done.  It leaves no
\* trace when its stream is abandoned, its task cancelled or its SDK missing.
Leave(c) ==
    /\ at[c] = "running"
    /\ job[<<c, "callback">>] = None
    /\ \E next \in {"step_end", "run_end", "error", "done"} :
         /\ next = "step_end" => framework = "langgraph"
         /\ next = "run_end" => framework \in {"crewai", "generate_text"}
         /\ next = "error" => framework # "stream_text"
         /\ at' = [at EXCEPT ![c] = next]
    /\ UNCHANGED <<mode, last, parents, seen, calledBack, job, sent, daemon, acked>>

\* Mutant: the id is taken to be the latest before the daemon has answered.
SendRemembering(a) ==
    LET named == IF job[a].parents = {} THEN Latest ELSE job[a].parents
        n == Len(sent) + 1
    IN  /\ job[a] # None /\ job[a].n = 0
        /\ n <= MaxSent
        /\ sent' = Append(sent, [actor |-> a, parents |-> named, channel |-> job[a].channel])
        /\ job' = [job EXCEPT ![a] = [channel |-> @.channel, parents |-> named, n |-> n]]
        /\ last' = n
        /\ UNCHANGED <<mode, local, daemon, acked>>

\* checkpoint_event up to the request: without parents the latest is taken.
Send(a) ==
    LET named == IF job[a].parents = {} THEN Latest ELSE job[a].parents
        n == Len(sent) + 1
    IN  /\ job[a] # None /\ job[a].n = 0
        /\ n <= MaxSent
        /\ sent' = Append(sent, [actor |-> a, parents |-> named, channel |-> job[a].channel])
        /\ job' = [job EXCEPT ![a] = [channel |-> @.channel, parents |-> named, n |-> n]]
        /\ UNCHANGED <<mode, last, local, daemon, acked>>

\* The daemon persists request n, whether or not anybody waits for it:
\* without parents it takes the head of the channel; set_head may fail.
Persist(n) ==
    LET channel == sent[n].channel
        resolved == IF sent[n].parents # {} THEN sent[n].parents
                                            ELSE {heads[channel]} \ {None}
    IN  /\ n \in 1..Len(sent) /\ commits[n] = None
        /\ \A q \in resolved : commits[q] # None
        /\ \E done \in BOOLEAN :
             /\ commits' = [commits EXCEPT ![n] = [parents |-> resolved, done |-> done]]
             /\ heads' = IF done THEN [heads EXCEPT ![channel] = n] ELSE heads
        /\ UNCHANGED <<mode, last, local, job, sent, acked>>

\* checkpoint_event returns to actor a.  Only programs that waited for a
\* boundary event go on from it.
Return(a, result) ==
    LET c == a[1]
    IN  /\ job' = [job EXCEPT ![a] = None]
        /\ IF a[2] = "main" /\ framework # "stream_text"
           THEN /\ parents' = [parents EXCEPT ![c] = result]
                /\ at' = [at EXCEPT ![c] = After(at[c])]
           ELSE UNCHANGED <<parents, at>>
        /\ UNCHANGED <<mode, seen, calledBack, sent, daemon>>

\* The answer arrives with the commit id.
Answer(a) ==
    LET n == job[a].n
    IN  /\ job[a] # None /\ n # 0
        /\ commits[n] # None /\ commits[n].done
        /\ last' = n
        /\ acked' = acked \cup {n}
        /\ Return(a, {n})

\* An error comes back, or nothing within the client's timeout.
GiveUp(a) ==
    /\ job[a] # None /\ job[a].n # 0
    /\ Return(a, job[a].parents)
    /\ UNCHANGED <<last, acked>>

Next ==
    \/ \E c \in Call : Begin(c) \/ StreamText(c) \/ Compose(c) \/ CallBack(c)
                       \/ Chunk(c) \/ Leave(c)
    \/ \E a \in Actor : Send(a) \/ Answer(a) \/ GiveUp(a)
    \/ \E n \in CommitId : Persist(n)

Spec == Init /\ [][Next]_vars

-----------------------------------------------------------------------------
(* Properties                                                              *)

Stored == {n \in CommitId : commits[n] # None}

\* A commit and everything it builds on.
History(n) ==
    {m \in CommitId : \A S \in SUBSET CommitId :
        (n \in S /\ \A x \in S \cap Stored : commits[x].parents \subseteq S) => m \in S}

\* The values every variable ranges over; no call checkpoints more chunks
\* than max_stream_events, and one that waits for a checkpoint is at a
\* boundary event.
TypeOK ==
    /\ mode \in Modes
    /\ last \in CommitId \cup {None}
    /\ at \in [Call -> Boundary \cup {"idle", "running", "done"}]
    /\ parents \in [Call -> SUBSET CommitId]
    /\ seen \in [Call -> 0..MaxChunks] /\ calledBack \in [Call -> 0..MaxCallbacks]
    /\ job \in [Actor -> Job \cup {None}]
    /\ sent \in Seq(Request) /\ Len(sent) <= MaxSent
    /\ commits \in [CommitId -> Commit \cup {None}]
    /\ heads \in [Channel -> CommitId \cup {None}]
    /\ acked \subseteq CommitId
    /\ \A a \in Actor : job[a] # None => job[a].n <= Len(sent)
    /\ \A c \in Call : (framework # "stream_text" /\ job[<<c, "main">>] # None)
                        => at[c] \in Boundary

\* An adapter names only commits that are stored, whatever was lost or came
\* late, so the daemon never refuses a checkpoint of its.
NamesOnlyStored ==
    \A n \in 1..Len(sent) : sent[n].parents \subseteq Stored

\* "Chained Nexus parent commit IDs inside a single graph execution": of two
\* boundary checkpoints of a LangGraph call that were answered, the later
\* builds on the earlier, whatever other calls and callbacks do meanwhile.
BoundariesChained ==
    framework = "langgraph" =>
        \A m, n \in acked :
            (m < n /\ sent[m].actor = sent[n].actor /\ sent[m].actor[2] = "main")
            => m \in History(n)

\* "SDK adapters maintain the latest commit per run/thread/framework and use
\* parent IDs to form replayable ancestry chains": where every checkpoint is
\* waited for and calls do not overlap, each answered one builds on all that
\* were answered before it, callbacks and earlier calls included.
OneChain ==
    (alone /\ framework \in {"crewai", "generate_text"}) =>
        \A m, n \in acked : m < n => m \in History(n)
=============================================================================
