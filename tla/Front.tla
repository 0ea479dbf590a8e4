-------------------------------- MODULE Front --------------------------------
(***************************************************************************)
(* What stands between a client and the daemon's handlers, as operators:   *)
(* the settings (config.rs), the token check (auth/token.rs), grants and   *)
(* scopes (auth/permissions.rs, auth/scopes.rs), how the HTTP API          *)
(* (http/api.rs) turns bodies into the requests gRPC carries as they are,  *)
(* how both report errors, and how clients poll the recent list.           *)
(* A scope or a channel is the sequence of its parts between colons; a     *)
(* scope that ends in a star has star |-> TRUE.                            *)
(***************************************************************************)
EXTENDS Integers, Sequences, SequencesExt

Absent == "absent"   \* an optional value that is not there

-----------------------------------------------------------------------------
(* Settings.  s.env and s.file give what the environment and nexus.toml    *)
(* hold for a key, Absent where they hold nothing.                         *)

\* env::var(key).ok().or_else(file_value)
Setting(s, key) == IF s.env[key] # Absent THEN s.env[key] ELSE s.file[key]

EnvOr(s, key, default) ==
    IF Setting(s, key) = Absent THEN default ELSE Setting(s, key)

\* Mutant: a blank value counts as one.
OptionalBlank(s, key) == Setting(s, key)

\* optional_env: a blank value is no value, even if it hides one in the file.
OptionalEnv(s, key) ==
    IF Setting(s, key) = "blank" THEN Absent ELSE Setting(s, key)

EnvBool(s, key, default) ==
    IF Setting(s, key) = Absent THEN default
    ELSE Setting(s, key) \in {"1", "true", "TRUE", "yes", "on"}

\* from_env; addr stands for the three addresses, which are treated alike.
FromEnv(s) ==
    [bindMode    |-> EnvOr(s, "bind", "uds"),
     addr        |-> EnvOr(s, "addr", "loopback"),
     token       |-> OptionalEnv(s, "token"),
     requireAuth |-> EnvBool(s, "auth", TRUE),
     allowRemote |-> EnvBool(s, "remote", FALSE),
     store       |-> EnvOr(s, "store", "sqlite")]

\* prepare, in a build without rocksdb-store.
Prepare(config) == config.store # "rocksdb"

\* validate_network_policy
ValidateNetworkPolicy(config) ==
    /\ config.allowRemote \/ config.addr = "loopback"
    /\ ~(config.bindMode = "tcp" /\ config.requireAuth /\ config.token = Absent)

\* run(): whether the daemon gets as far as opening its listeners.
Starts(s) ==
    /\ FromEnv(s).addr # "garbled"
    /\ Prepare(FromEnv(s))
    /\ ValidateNetworkPolicy(FromEnv(s))

\* HttpClient::from_env: the command line looks at the environment only.
CliHeader(s) ==
    IF s.env["token"] \in {Absent, "blank"} THEN [kind |-> Absent, token |-> Absent]
    ELSE [kind |-> "bearer", token |-> s.env["token"]]

-----------------------------------------------------------------------------
(* Tokens, grants and scopes                                               *)

\* validate_http
ValidateHttp(header, config) ==
    IF ~config.requireAuth THEN "ok"
    ELSE IF config.token = Absent \/ header.kind # "bearer" THEN "unauthorized"
    ELSE IF header.token = config.token THEN "ok" ELSE "forbidden"

\* validate_grpc
ValidateGrpc(header, config) ==
    IF ~config.requireAuth THEN "ok"
    ELSE IF config.token = Absent \/ header.kind # "bearer" THEN "unauthenticated"
    ELSE IF header.token = config.token THEN "ok" ELSE "permission_denied"

\* The operations of each front, those they share under gRPC's names.
Shared == {"RegisterAgent", "PublishDelta", "GetChannelSnapshot", "Checkpoint", "GetCommit",
           "ListRuns", "ListCommits", "DiffCommits", "Replay", "Fork", "Rollback", "Health"}
HttpOperation == Shared \cup {"Agents", "Channels", "ChannelDeltas", "Events", "LoopWarnings",
                              "MetricsSummary", "EventsStream"}
GrpcOperation == Shared \cup {"OpenStream", "Subscribe", "ExportRun"}

\* guard, which every route's handler calls first but two.
HttpAdmits(operation, header, config) ==
    operation \in {"Health", "EventsStream"} \/ ValidateHttp(header, config) = "ok"

\* AuthInterceptor, before every call.
GrpcAdmits(operation, header, config) == ValidateGrpc(header, config) = "ok"

Scope(text, star) == [text |-> text, star |-> star]

\* grant_requested
GrantRequested(requireAuth, requested) ==
    IF ~requireAuth THEN {Scope(<<>>, TRUE)}
    ELSE IF requested = {}
    THEN {Scope(<<"channel", "read">>, TRUE), Scope(<<"channel", "write">>, TRUE),
          Scope(<<"channel", "checkpoint">>, TRUE), Scope(<<"ledger", "read">>, TRUE)}
    ELSE requested

\* scope_matches
ScopeMatches(scope, required) ==
    IF scope.star THEN IsPrefix(scope.text, required) ELSE scope.text = required

\* is_allowed
IsAllowed(requireAuth, granted, required) ==
    ~requireAuth \/ \E scope \in granted : ScopeMatches(scope, required)

\* channel_write and channel_checkpoint
ChannelWrite(channel) == <<"channel", "write">> \o channel
ChannelCheckpoint(channel) == <<"channel", "checkpoint">> \o channel

-----------------------------------------------------------------------------
(* HTTP bodies as requests.  Every value is written as a string.           *)

OrElse(value, default) == IF value = Absent THEN default ELSE value

\* register_agent: HTTP asks for no scopes.
HttpRegister(body) ==
    [agent |-> body.agent, run |-> body.run, thread |-> OrElse(body.thread, ""),
     framework |-> OrElse(body.framework, "custom"), requested |-> {}]

\* Mutant: a delta is durable unless the body says otherwise.
HttpPublishDurable(body) ==
    [agent |-> body.agent, run |-> body.run, thread |-> OrElse(body.thread, ""),
     channel |-> body.channel, clock |-> OrElse(body.clock, "0"),
     durable |-> OrElse(body.durable, "true"), parents |-> OrElse(body.parents, "none"),
     summary |-> OrElse(body.summary, ""), objective |-> OrElse(body.objective, "")]

\* publish_delta
HttpPublish(body) ==
    [agent |-> body.agent, run |-> body.run, thread |-> OrElse(body.thread, ""),
     channel |-> body.channel, clock |-> OrElse(body.clock, "0"),
     durable |-> OrElse(body.durable, "false"), parents |-> OrElse(body.parents, "none"),
     summary |-> OrElse(body.summary, ""), objective |-> OrElse(body.objective, "")]

\* checkpoint; checkpoint_inner makes a durable delta with clock 0 of it.
HttpCheckpoint(body) ==
    [agent |-> body.agent, run |-> body.run, thread |-> OrElse(body.thread, ""),
     channel |-> body.channel, clock |-> "0", durable |-> "true",
     parents |-> OrElse(body.parents, "none"),
     summary |-> OrElse(body.summary, ""), objective |-> OrElse(body.objective, "")]

\* universal_event: a checkpoint whose payload is the event itself; its
\* summary names framework and type.
HttpEvent(body) ==
    [agent |-> body.agent, run |-> body.run, thread |-> OrElse(body.thread, ""),
     channel |-> body.channel, clock |-> "0", durable |-> "true",
     parents |-> OrElse(body.parents, "none"), summary |-> "framework type", objective |-> ""]

\* replay: an unknown mode means state_only.
HttpReplay(body) ==
    [mode |-> IF body.mode \in {"dry_run_tools", "reexecute_tools"} THEN body.mode
              ELSE "state_only",
     confirmed |-> OrElse(body.confirm, "false")]

\* rollback, diff_query and fork
HttpRollback(body) == [force |-> OrElse(body.force, "false")]
HttpDiff(body) == [fromAncestor |-> OrElse(body.fromAncestor, "false")]
HttpFork(body) == [newRun |-> OrElse(body.newRun, "")]

\* The bodies the command line sends: it names no thread and no parents.
CliPublish(args) ==
    [args EXCEPT !.thread = Absent, !.clock = Absent, !.parents = Absent, !.objective = Absent,
                 !.durable = OrElse(@, "false")]
CliCheckpoint(args) ==
    [args EXCEPT !.thread = Absent, !.parents = Absent, !.objective = Absent]
CliReplay == [mode |-> "state_only", confirm |-> Absent]
CliRollback(args) == [force |-> OrElse(args.force, "false")]

\* The start of replay(): whether it goes on to read commits.
ReplayProceeds(request) ==
    request.mode = "reexecute_tools" => request.confirmed = "true"

-----------------------------------------------------------------------------
(* Errors.  A message is the set of the telling phrases in its text.       *)

\* internal_error: 404, 403 or 500
InternalError(message) ==
    IF "not found" \in message THEN "missing"
    ELSE IF "permission denied" \in message THEN "denied" ELSE "failed"

\* to_status: not_found, permission_denied, invalid_argument or internal
ToStatus(message) ==
    IF "not found" \in message THEN "missing"
    ELSE IF "permission denied" \in message THEN "denied"
    ELSE IF "invalid" \in message THEN "bad" ELSE "failed"

\* The errors of the inner handlers, each with the phrases of its fixed text
\* and whether it quotes text of the request.
Raised ==
    {[message |-> {"permission denied"}, quotes |-> TRUE],  \* ensure_channel_permission
     [message |-> {"not found"}, quotes |-> FALSE],         \* get_commit, diff, fork, rollback
     [message |-> {"not found"}, quotes |-> TRUE],          \* replay
     [message |-> {}, quotes |-> TRUE],                     \* dag.append: unknown parent
     [message |-> {}, quotes |-> FALSE]}                    \* dag.append, rollback, replay

-----------------------------------------------------------------------------
(* Universal events (POST /api/events).  An event is given by the kind of  *)
(* value each field has; ids cover run_id, thread_id, agent_id, event_id.  *)

\* Mutant: tags must be there.
TryFromValueTags(e) ==
    /\ e.schema = "good" /\ e.ids = "good" /\ e.framework = "known" /\ e.type = "known"
    /\ e.channel = "good" /\ e.time = "positive"
    /\ e.tags = "strings" /\ e.parents \in {Absent, "strings", "empties"}
    /\ e.metadata \in {Absent, "object"}

\* UniversalEventBody::try_from_value
TryFromValue(e) ==
    /\ e.schema = "good" /\ e.ids = "good" /\ e.framework = "known" /\ e.type = "known"
    /\ e.channel = "good" /\ e.time = "positive"
    /\ e.tags \in {Absent, "strings", "empties"}
    /\ e.parents \in {Absent, "strings", "empties"}
    /\ e.metadata \in {Absent, "object"}

\* channel_for_event and channelForEvent, where the event names no channel:
\* made from ids that are valid, and from the tool's name if there is one.
ChannelForEvent(e) ==
    IF e.channel \notin {Absent, "empty"} THEN e.channel
    ELSE IF e.tool = "spaced" THEN "bad" ELSE "good"

\* What an SDK sends: defaults filled in, the channel computed.
Normalized(e) ==
    [e EXCEPT !.schema = IF @ = Absent THEN "good" ELSE @,
              !.time = IF @ \in {Absent, "null"} THEN "positive" ELSE @,
              !.tags = IF @ \in {Absent, "null"} THEN "strings" ELSE @,
              !.parents = IF @ \in {Absent, "null"} THEN "strings" ELSE @,
              !.metadata = IF @ \in {Absent, "null"} THEN "object" ELSE @,
              !.channel = ChannelForEvent(e)]

\* UniversalAgentEvent and its validators.  The channel is looked at before
\* normalize_event computes one, and ID_RE lets a final newline through.
PythonAccepts(e) ==
    /\ e.schema \in {Absent, "good"} /\ e.ids \in {"good", "newline"}
    /\ e.framework = "known" /\ e.type = "known"
    /\ e.channel \in {Absent, "empty", "good"} /\ e.time \in {Absent, "positive", "huge"}
    /\ e.tags \in {Absent, "strings", "empties"} /\ e.parents \in {Absent, "null", "strings"}
    /\ e.metadata \in {Absent, "object"}

\* normalizeEvent: validateEvent looks at what is sent.
TypeScriptAccepts(e) ==
    /\ e.schema \in {Absent, "good"} /\ e.ids = "good"
    /\ e.framework = "known" /\ e.type = "known"
    /\ ChannelForEvent(e) = "good" /\ e.time \in {Absent, "null", "positive", "huge"}
    /\ e.tags \in {Absent, "null", "strings"} /\ e.parents \in {Absent, "null", "strings"}
    /\ e.metadata \in {Absent, "null", "object"}
=============================================================================
