------------------------------- MODULE Service -------------------------------
(***************************************************************************)
(* AppState (grpc/service.rs), which both fronts call: how one publish or  *)
(* checkpoint goes through permission, redaction, the artifact store, the  *)
(* ledger, the bus and the loop detector, and how an agent is registered.  *)
(* The parts are taken one after the other with no lock held between them, *)
(* so requests interleave, and the process may stop, at every step.        *)
(*                                                                         *)
(* Of the parts with a module of their own only what the others see is     *)
(* kept: the commits and heads of Ledger (a commit id is the number of the *)
(* commit it names), the notices Bus is given.  Settings are the defaults  *)
(* for redaction and loop detection (both on).                             *)
(***************************************************************************)
EXTENDS Front, FiniteSets

CONSTANTS
    Handler,      \* requests served concurrently
    Agent,        \* agent ids
    Channel,      \* channel names, as sequences of their parts
    Content,      \* payloads
    Context,      \* the objective, summary and tools around a payload
    Delta,        \* delta_id and wall_time a client chooses for its delta
    Sent,         \* what clients send, each on every channel
    Clean,        \* Clean[c]: payload c after redaction
    Large,        \* payloads longer than max_inline_payload_bytes
    Form,         \* forms of an artifact file: as it is, compressed
    Parents,      \* parent_commit_ids clients send; {} leaves it to the daemon
    Requested,    \* requested_scopes of registrations
    RequireAuth, PersistEphemeral,
    WindowSize,   \* of the loop detector (12 in the code)
    RepeatLimit,  \* repetitions that make a warning (3 in the code)
    MaxRequests,  \* bound on the publishes and checkpoints let in
    MaxRegisters, \* bound on registrations
    MaxFaults,    \* bound on restarts and errors of the file system and SQLite
    None

Commits == 1..MaxRequests

\* What from_delta hashes: without a delta of the client's own the daemon
\* makes one that is new, and a reference to an artifact names its form.
Commit == [agent : Agent, chan : Channel, content : Content, context : Context,
           parents : SUBSET Commits, delta : Delta \cup {None}, form : Form \cup {None}]

\* normalize_delta keeps a delta's id and time where the client chose them,
\* which a checkpoint has no fields for.
Request ==
    {s \in [kind : {"publish", "durable", "checkpoint"}, content : Content, context : Context,
            delta : Delta \cup {None}] : s.kind = "checkpoint" => s.delta = None}

ASSUME CleanAssumption ==
    /\ Clean \in [Content -> Content]
    /\ \A c \in Content : Clean[Clean[c]] = Clean[c]
    /\ Large \subseteq Content /\ Sent \subseteq Request
ASSUME ParentsAssumption == Parents \subseteq SUBSET Commits
ASSUME SettingsAssumption == RequireAuth \in BOOLEAN /\ PersistEphemeral \in BOOLEAN
ASSUME LimitsAssumption ==
    /\ {WindowSize, RepeatLimit} \subseteq Nat \ {0}
    /\ {MaxRequests, MaxRegisters, MaxFaults} \subseteq Nat
ASSUME ChannelAssumption == \A chan \in Channel : chan \in Seq(STRING)
ASSUME FormAssumption == None \notin Form /\ "torn" \notin Form
ASSUME NoneAssumption == None \notin Content \cup Delta \cup Nat \cup Commit
ASSUME GrantsAssumption ==
    \A requested \in Requested \cup {{}} : GrantRequested(RequireAuth, requested) # None

Key == Agent \X Channel      \* of a head and of a window; the run is fixed

Fingerprints == Content \X Context \X SUBSET Commits

VARIABLES
    store,     \* table commits
    heads,     \* table heads
    files,     \* artifact files, by payload: None, "torn" or a form
    rows,      \* table artifacts: the form the file should have
    warnings,  \* table loop_warnings
    grants,    \* AppState.grants
    presence,  \* Bus.presence: the agents shown as online
    gauge,     \* Metrics.agents_connected
    metrics,   \* artifacts_total, commits_total, loop_warnings_total
    windows,   \* LoopDetector.windows
    form,      \* what compression_threshold_bytes makes of a large payload
    pc, req,   \* where each handler is; what it works on
    minted,    \* history: commits made so far, by their ids
    told,      \* history: notices given to the bus
    announced, \* history: the commits among them, each time it was
    spoiled,   \* history: payloads whose last put was cut short
    unstored,  \* history: repetitions whose warning could not be stored
    overlap,   \* history: two registrations were between insert and store
    served, registered, faults  \* history: how many requests, registrations, faults

disk    == <<store, heads, files, rows, warnings>>
memory  == <<grants, presence, gauge, metrics, windows, form>>
history == <<minted, told, announced, spoiled, unstored, overlap, served, registered, faults>>
vars    == <<disk, memory, pc, req, history>>

-----------------------------------------------------------------------------
Goto(h, label) == pc' = [pc EXCEPT ![h] = label]

\* The request is answered.
Done(h) == Goto(h, "idle") /\ req' = [req EXCEPT ![h] = None]

Count(counter) == metrics' = [metrics EXCEPT ![counter] = @ + 1]

KeyOf(r) == <<r.agent, r.chan>>

\* fingerprint(): the parents are part of it.
Fingerprint(r) == <<r.content, r.context, r.parents>>

\* Handlers between the truncation of the file of c and the insertion of its row.
Putting(c) == {h \in Handler : pc[h] \in {"fill", "row"} /\ req[h].content = c}

\* get_artifact finds the bytes that were put.
Readable(c) == rows[c] # None /\ files[c] = rows[c]

\* The state in memory of a daemon that has just started.
NoGrants  == [a \in Agent |-> None]
NoMetrics == [artifacts |-> 0, commits |-> 0, loops |-> 0]
NoWindows == [k \in Key |-> <<>>]
AllIdle   == [h \in Handler |-> "idle"]
NoRequest == [h \in Handler |-> None]

Init ==
    /\ grants = NoGrants /\ presence = {} /\ gauge = 0
    /\ metrics = NoMetrics /\ windows = NoWindows /\ form \in Form
    /\ pc = AllIdle /\ req = NoRequest /\ overlap = FALSE
    /\ store = [c \in Commits |-> None]
    /\ heads = [k \in Key |-> None]
    /\ files = [c \in Content |-> None]
    /\ rows = [c \in Content |-> None]
    /\ warnings = {}
    /\ minted = <<>>
    /\ told = {} /\ announced = <<>>
    /\ spoiled = {} /\ unstored = {}
    /\ served = 0 /\ registered = 0 /\ faults = 0

-----------------------------------------------------------------------------
(* register_agent_inner                                                    *)

\* The scopes are granted.
Grant(h) ==
    \E a \in Agent, requested \in Requested :
        /\ pc[h] = "idle"
        /\ registered < MaxRegisters
        /\ registered' = registered + 1
        /\ grants' = [grants EXCEPT ![a] = GrantRequested(RequireAuth, requested)]
        /\ req' = [req EXCEPT ![h] = [agent |-> a]]
        /\ Goto(h, "online")
        /\ UNCHANGED <<disk, presence, gauge, metrics, windows, form,
                       minted, told, announced, spoiled, unstored, overlap, served, faults>>

\* Mutant: the agents are counted before the new one is among them.
AppearCounted(h) ==
    /\ pc[h] = "online"
    /\ presence' = presence \cup {req[h].agent}
    /\ req' = [req EXCEPT ![h] = [agent |-> @.agent, count |-> Cardinality(presence)]]
    /\ Goto(h, "gauge")
    /\ UNCHANGED <<disk, grants, gauge, metrics, windows, form, history>>

\* Bus::register_agent: the agent appears.
Appear(h) ==
    /\ pc[h] = "online"
    /\ presence' = presence \cup {req[h].agent}
    /\ overlap' = (overlap \/ \E g \in Handler : pc[g] \in {"count", "gauge"})
    /\ Goto(h, "count")
    /\ UNCHANGED <<disk, grants, gauge, metrics, windows, form, req,
                   minted, told, announced, spoiled, unstored, served, registered, faults>>

\* agent_count takes the lock again ...
CountAgents(h) ==
    /\ pc[h] = "count"
    /\ req' = [req EXCEPT ![h] = [agent |-> @.agent, count |-> Cardinality(presence)]]
    /\ Goto(h, "gauge")
    /\ UNCHANGED <<disk, memory, history>>

\* ... and the count is stored without it.
StoreGauge(h) ==
    /\ pc[h] = "gauge"
    /\ gauge' = req[h].count
    /\ Done(h)
    /\ UNCHANGED <<disk, grants, presence, metrics, windows, form, history>>

Register(h) == Grant(h) \/ Appear(h) \/ CountAgents(h) \/ StoreGauge(h)

-----------------------------------------------------------------------------
(* publish_delta_inner and checkpoint_inner                                *)

\* ensure_channel_permission; an agent that is not registered has no grants.
MayPublish(a, scope) ==
    IsAllowed(RequireAuth, IF grants[a] = None THEN {} ELSE grants[a], scope)

\* The delta a request carries, or that of a checkpoint, which is durable.
DeltaOf(a, chan, sent, parents) ==
    [agent |-> a, chan |-> chan, content |-> sent.content, context |-> sent.context,
     parents |-> parents, delta |-> sent.delta, durable |-> sent.kind # "publish"]

\* A request is let in.  One that is not changes nothing.
Admit(h, a, chan, sent, parents) ==
    /\ pc[h] = "idle"
    /\ MayPublish(a, IF sent.kind = "checkpoint" THEN ChannelCheckpoint(chan) ELSE ChannelWrite(chan))
    /\ served < MaxRequests
    /\ served' = served + 1
    /\ \A p \in parents : store[p] # None
    /\ req' = [req EXCEPT ![h] = DeltaOf(a, chan, sent, parents)]
    /\ Goto(h, "prepare")
    /\ UNCHANGED <<disk, memory, minted, told, announced, spoiled, unstored, overlap, registered, faults>>

\* A publish, which may be durable, or a checkpoint, which is.
Accept(h) ==
    \E a \in Agent, chan \in Channel, sent \in Sent, parents \in Parents :
        Admit(h, a, chan, sent, parents)

\* prepare_payload: redact, then put what is large into an artifact.
PreparePayload(h) ==
    /\ pc[h] = "prepare"
    /\ req' = [req EXCEPT ![h].content = Clean[@]]
    /\ Goto(h, IF Clean[req[h].content] \in Large THEN "file" ELSE "route")
    /\ UNCHANGED <<disk, memory, history>>

\* put_artifact: fs::write creates the file or truncates it ...
CreateFile(h) ==
    LET c == req[h].content
    IN  /\ pc[h] = "file"
        /\ files' = [files EXCEPT ![c] = "torn"]
        /\ spoiled' = spoiled \ {c}
        /\ Goto(h, "fill")
        /\ UNCHANGED <<store, heads, rows, warnings, memory, req,
                       minted, told, announced, unstored, overlap, served, registered, faults>>

\* ... and writes the bytes.  Who was truncated by another put in between
\* may leave a gap until that one has written.
FillFile(h) ==
    LET c == req[h].content
        others == \E g \in Handler \ {h} : pc[g] = "fill" /\ req[g].content = c
    IN  /\ pc[h] = "fill"
        /\ \E f \in IF others THEN {form, "torn"} ELSE {form} : files' = [files EXCEPT ![c] = f]
        /\ Goto(h, "row")
        /\ UNCHANGED <<store, heads, rows, warnings, memory, req, history>>

\* Mutant: a row that is there stays as it is.
InsertRowOnce(h) ==
    /\ pc[h] = "row"
    /\ rows' = [rows EXCEPT ![req[h].content] = IF @ = None THEN form ELSE @]
    /\ Count("artifacts")
    /\ Goto(h, "route")
    /\ UNCHANGED <<store, heads, files, warnings, grants, presence, gauge, windows, form,
                   req, history>>

\* INSERT OR REPLACE INTO artifacts
InsertRow(h) ==
    /\ pc[h] = "row"
    /\ rows' = [rows EXCEPT ![req[h].content] = form]
    /\ Count("artifacts")
    /\ Goto(h, "route")
    /\ UNCHANGED <<store, heads, files, warnings, grants, presence, gauge, windows, form,
                   req, history>>

\* What from_delta hashes of request r.
CommitOf(r) == [agent |-> r.agent, chan |-> r.chan, content |-> r.content, context |-> r.context,
                parents |-> r.parents, delta |-> r.delta, form |-> r.form]

\* The commit a client's delta has already been made into, stored or not.
MadeBefore(commit) == {c \in DOMAIN minted : commit.delta # None /\ minted[c] = commit}

\* An ephemeral delta is only announced; else resolve_parents and from_delta,
\* which makes the commit.  The id is a hash: a delta that a client sends
\* again with its own id and time gets the commit it had before, unless the
\* head was to be its parent and has moved.
Route(h) ==
    LET r == req[h]
        head == heads[KeyOf(r)]
        parents == IF r.parents # {} THEN r.parents ELSE IF head = None THEN {} ELSE {head}
        commit == [agent |-> r.agent, chan |-> r.chan, content |-> r.content,
                   context |-> r.context, parents |-> parents, delta |-> r.delta,
                   form |-> IF r.content \in Large THEN form ELSE None]
    IN  /\ pc[h] = "route"
        /\ \/ /\ ~r.durable /\ ~PersistEphemeral
              /\ Goto(h, "notice")
              /\ UNCHANGED <<req, minted>>
           \/ /\ r.durable \/ PersistEphemeral
              /\ \E c \in Commits :
                    /\ IF MadeBefore(commit) # {}
                       THEN c \in MadeBefore(commit) /\ UNCHANGED minted
                       ELSE c = Len(minted) + 1 /\ minted' = Append(minted, commit)
                    /\ req' = [req EXCEPT ![h] =
                           [agent |-> r.agent, chan |-> r.chan, content |-> r.content,
                            context |-> r.context, parents |-> parents, delta |-> r.delta,
                            form |-> commit.form, durable |-> r.durable, commit |-> c, notice |-> 0]]
              /\ Goto(h, "persist")
        /\ UNCHANGED <<disk, memory, told, announced, spoiled, unstored, overlap, served, registered, faults>>

\* Mutant: the head moves before the commit is stored.
PersistHeadFirst(h) ==
    /\ pc[h] = "persist"
    /\ heads' = [heads EXCEPT ![KeyOf(req[h])] = req[h].commit]
    /\ Goto(h, "head")
    /\ UNCHANGED <<store, files, rows, warnings, memory, req, history>>

\* persist_commit: dag.append and append_commit, INSERT OR IGNORE ...
Persist(h) ==
    /\ pc[h] = "persist"
    /\ store' = [store EXCEPT ![req[h].commit] = IF @ = None THEN CommitOf(req[h]) ELSE @]
    /\ Goto(h, "head")
    /\ UNCHANGED <<heads, files, rows, warnings, memory, req, history>>

\* ... set_head and the counter.
SetHead(h) ==
    /\ pc[h] = "head"
    /\ heads' = [heads EXCEPT ![KeyOf(req[h])] = req[h].commit]
    /\ Count("commits")
    /\ Goto(h, "announce")
    /\ UNCHANGED <<store, files, rows, warnings, grants, presence, gauge, windows, form,
                   req, history>>

\* bus.broadcast of a delta that is not persisted.
Notice(h) ==
    /\ pc[h] = "notice"
    /\ told' = told \cup {[kind |-> "delta", commit |-> None, content |-> req[h].content]}
    /\ Done(h)
    /\ UNCHANGED <<disk, memory, minted, announced, spoiled, unstored, overlap, served, registered, faults>>

\* bus.broadcast of the delta of a commit, for a handler that goes on to label.
AnnounceTo(h, label) ==
    /\ told' = told \cup {[kind |-> "delta", commit |-> req[h].commit,
                           content |-> req[h].content]}
    /\ announced' = Append(announced, req[h].commit)
    /\ req' = [req EXCEPT ![h].notice = Len(announced) + 1]
    /\ Goto(h, label)
    /\ UNCHANGED <<disk, memory, minted, spoiled, unstored, overlap, served, registered, faults>>

\* Mutant: subscribers are told before the commit is stored.
AnnounceEarly(h) ==
    \/ pc[h] = "persist" /\ req[h].notice = 0 /\ AnnounceTo(h, "persist")
    \/ pc[h] = "announce" /\ AnnounceTo(h, "inspect")

Announce(h) == pc[h] = "announce" /\ AnnounceTo(h, "inspect")

\* The client goes away while the broadcast waits for a full queue, which
\* only that of a durable delta does: the rest of the request is dropped.
Cancel(h) ==
    /\ pc[h] = "inspect" /\ req[h].durable
    /\ Done(h)
    /\ UNCHANGED <<disk, memory, history>>

-----------------------------------------------------------------------------
(* inspect_loop                                                            *)

\* severity_for_repetitions
SeverityForRepetitions(n) == IF n <= 2 THEN "low" ELSE IF n <= 4 THEN "medium" ELSE "high"

\* The places in the window of key k that have fingerprint f.
Occurrences(k, f) == {i \in DOMAIN windows[k] : windows[k][i].fingerprint = f}

\* LoopDetector::inspect in the window of key k, for limit repetitions.
InspectIn(h, k, limit) ==
    LET r == req[h]
        window == windows[k]
        fingerprint == Fingerprint(r)
        same == Occurrences(k, fingerprint)
        others == DOMAIN window \ same
        n == Cardinality(same) + 1
        warning == [id |-> r.notice, key |-> KeyOf(r), fingerprint |-> fingerprint, count |-> n,
                    severity |-> SeverityForRepetitions(n),
                    suggested |-> IF others = {} THEN None ELSE window[Max(others)].commit]
    IN  /\ pc[h] = "inspect"
        /\ windows' = [windows EXCEPT ![k] =
               Append(IF Len(window) = WindowSize THEN Tail(window) ELSE window,
                      [fingerprint |-> fingerprint, commit |-> r.commit, notice |-> r.notice])]
        /\ IF n < limit THEN Done(h)
           ELSE Goto(h, "warn") /\ req' = [req EXCEPT ![h] = warning]
        /\ UNCHANGED <<disk, grants, presence, gauge, metrics, form, history>>

\* Mutant: the window may be another agent's.
InspectAny(h) ==
    /\ pc[h] = "inspect"
    /\ \E k \in Key : k[2] = req[h].chan /\ InspectIn(h, k, RepeatLimit)

\* Mutant: the repetition that reaches the limit is not enough.
InspectLate(h) == InspectIn(h, KeyOf(req[h]), RepeatLimit + 1)

\* LoopDetector::inspect, under the lock of the windows.  The new_id of a
\* warning is as unique as the announcement that raised it, whose number
\* the entries keep as history.
Inspect(h) == InspectIn(h, KeyOf(req[h]), RepeatLimit)

\* append_loop_warning and the counter ...
AppendWarning(h) ==
    /\ pc[h] = "warn"
    /\ warnings' = warnings \cup {req[h]}
    /\ Count("loops")
    /\ Goto(h, "tell")
    /\ UNCHANGED <<store, heads, files, rows, grants, presence, gauge, windows, form,
                   req, history>>

\* ... and broadcast_loop_warning, which never waits: its delta is ephemeral.
TellWarning(h) ==
    /\ pc[h] = "tell"
    /\ told' = told \cup {[kind |-> "warning", warning |-> req[h]]}
    /\ Done(h)
    /\ UNCHANGED <<disk, memory, minted, announced, spoiled, unstored, overlap, served, registered, faults>>

Publish(h) ==
    \/ Accept(h) \/ PreparePayload(h) \/ CreateFile(h) \/ FillFile(h) \/ InsertRow(h)
    \/ Route(h) \/ Persist(h) \/ SetHead(h) \/ Notice(h) \/ Announce(h) \/ Cancel(h)
    \/ Inspect(h) \/ AppendWarning(h) \/ TellWarning(h)

-----------------------------------------------------------------------------
(* Faults                                                                  *)

\* A step of the file system or of SQLite fails: `?` ends the request there.
Fail(h) ==
    LET c == req[h].content
        w == req[h]
    IN  /\ faults < MaxFaults
        /\ pc[h] \in {"file", "fill", "row", "route", "persist", "head", "warn"}
        /\ spoiled' = IF pc[h] \in {"fill", "row"} THEN spoiled \cup {c} ELSE spoiled
        /\ files' = IF pc[h] = "fill" THEN [files EXCEPT ![c] = "torn"] ELSE files
        /\ unstored' = IF pc[h] = "warn" THEN unstored \cup {<<w.key, w.fingerprint>>}
                       ELSE unstored
        /\ faults' = faults + 1
        /\ Done(h)
        /\ UNCHANGED <<store, heads, rows, warnings, memory,
                       minted, told, announced, overlap, served, registered>>

\* The process stops and is started again, perhaps with another compression
\* threshold: the tables and files stay, everything else is gone.
Restart ==
    /\ faults < MaxFaults
    /\ faults' = faults + 1
    /\ spoiled' = spoiled \cup {c \in Content : Putting(c) # {}}
    /\ grants' = NoGrants /\ presence' = {} /\ gauge' = 0
    /\ metrics' = NoMetrics /\ windows' = NoWindows /\ form' \in Form
    /\ pc' = AllIdle /\ req' = NoRequest /\ overlap' = FALSE
    /\ UNCHANGED <<disk, minted, told, announced, unstored, served, registered>>

Next ==
    \/ \E h \in Handler : Register(h) \/ Publish(h) \/ Fail(h)
    \/ Restart

Spec == Init /\ [][Next]_vars

-----------------------------------------------------------------------------
(* Properties                                                              *)

Stored == {c \in Commits : store[c] # None}

\* What the durable tables and the answers built from them range over; an
\* artifact file has one of the forms its row may name or is incomplete.
TypeOK ==
    /\ store \in [Commits -> Commit \cup {None}]
    /\ \A c \in Stored : store[c].parents \subseteq Stored
    /\ heads \in [Key -> Stored \cup {None}]
    /\ \A k \in Key : Len(windows[k]) <= WindowSize
    /\ files \in [Content -> Form \cup {None, "torn"}]
    /\ rows \in [Content -> Form \cup {None}]
    /\ presence \subseteq Agent /\ Len(minted) <= MaxRequests

\* What subscribers are told is true for good: a notice that names a commit
\* names one that is stored, with the content the notice has, though the
\* process may stop at any time; a warning they are told of is stored; and
\* neither a notice nor a stored commit nor an artifact file is of a content
\* that redaction would change.
NoticesTrue ==
    /\ \A n \in told : n.kind = "delta" =>
          /\ Clean[n.content] = n.content
          /\ n.commit # None => n.commit \in Stored /\ store[n.commit].content = n.content
    /\ \A n \in told : n.kind = "warning" => n.warning \in warnings
    /\ \A c \in Stored : Clean[store[c].content] = store[c].content
    /\ \A c \in Content : files[c] # None => Clean[c] = c

\* The payload of a stored commit can be read: one that was moved into an
\* artifact has its row, and a file of the form the row names, unless the
\* same content is being put again or the last attempt to do so was cut short.
ArtifactsReadable ==
    \A c \in Stored : LET content == store[c].content IN content \in Large =>
        /\ rows[content] # None
        /\ Readable(content) \/ Putting(content) # {} \/ content \in spoiled

\* The stored commits of key k with fingerprint f.
Repeats(k, f) == {c \in Stored : KeyOf(store[c]) = k /\ Fingerprint(store[c]) = f}

\* The announcements of commits of key k with fingerprint f.
Announcements(k, f) == {i \in DOMAIN announced : announced[i] \in Repeats(k, f)}

\* What a warning says happened: commits of that fingerprint were stored and
\* announced as often as it counts, each time one was sent, and the commit
\* it suggests to go back to is another one of the same agent and channel.
RealWarning(w) ==
    /\ w.count \in RepeatLimit..Cardinality(Announcements(w.key, w.fingerprint))
    /\ w.suggested # None =>
          /\ w.suggested \in Stored /\ KeyOf(store[w.suggested]) = w.key
          /\ w.suggested \notin Repeats(w.key, w.fingerprint)

\* Every warning is about what happened, whatever restarts lose of the
\* windows, requests that failed or were dropped do to them, and clients
\* send again.  A delta that is sent again is counted again, so it is
\* announcements that are counted and not commits.  The counter of warnings
\* never runs ahead of the table.
WarningsAreReal ==
    /\ \A w \in warnings : RealWarning(w)
    /\ metrics.loops <= Cardinality(warnings)

\* A fingerprint that is in its window as often as makes a warning has one
\* stored, or its request is about to store it, or storing it failed.
RepeatsWarned ==
    \A k \in Key : \A i \in DOMAIN windows[k] :
        LET f == windows[k][i].fingerprint
        IN  Cardinality(Occurrences(k, f)) >= RepeatLimit =>
                \/ \E w \in warnings : w.key = k /\ w.fingerprint = f
                \/ \E h \in Handler : pc[h] = "warn" /\ req[h].key = k /\ req[h].fingerprint = f
                \/ <<k, f>> \in unstored

\* An agent that is shown as online has its grants, and with the default ones
\* may publish and checkpoint everywhere.  The gauge of agents never shows
\* more than there are, and once nobody is registering shows as many, unless
\* registrations overlapped: the older count may have been stored last.
PresenceTrue ==
    /\ \A a \in presence :
          /\ grants[a] # None
          /\ grants[a] = GrantRequested(RequireAuth, {}) =>
                \A c \in Channel : MayPublish(a, ChannelWrite(c)) /\ MayPublish(a, ChannelCheckpoint(c))
    /\ gauge <= Cardinality(presence)
    /\ (\A h \in Handler : pc[h] \notin {"count", "gauge"}) =>
           gauge = Cardinality(presence) \/ overlap

\* The commits subscribers were told of.
ToldOf == {n.commit : n \in {m \in told : m.kind = "delta" /\ m.commit # None}}

\* The tables and the notices implement DurableLedger: a commit arrives after
\* its parents and never changes, a head names one that is there, and it is
\* announced once it is there.
Durable == INSTANCE DurableLedger WITH Id <- Commits, commits <- store, acked <- ToldOf

ImplementsDurableLedger == Durable!Spec
=============================================================================
