------------------------------- MODULE Inputs --------------------------------
(***************************************************************************)
(* The operators of Front and Values on bounded inputs.  A step picks an   *)
(* input of one kind; the properties compare what the code computes for it *)
(* with a definition of what it should compute.  One kind of input is a    *)
(* client that polls, whose steps are those of Polling.                    *)
(***************************************************************************)
EXTENDS Front, Values, Polling

CONSTANTS
    Fragments,  \* texts of strings, as sequences of fragments
    Field,      \* keys of objects that are redacted
    PairField   \* keys of objects that are compared and merged

VARIABLE input

-----------------------------------------------------------------------------
(* Inputs                                                                  *)

Objects(keys, values) == {Obj(f) : f \in UNION {[S -> values] : S \in SUBSET keys}}

Leaf == {Null} \cup {Str(text) : text \in Fragments}
Small == Leaf \cup Objects(Field, Leaf) \cup {Arr(<<a, b>>) : a, b \in Leaf}
Value == Small \cup Objects(Field, Small)

PairLeaf == {Null, Str(<<"plain">>)}
PairSmall == PairLeaf \cup Objects(PairField, PairLeaf)
PairValue == PairLeaf \cup Objects(PairField, PairSmall)

\* The attributes in which the commits of a pair differ.
Changes == {{}, {"summary", "tool_results"}, {"tags", "tool_calls", "artifacts", "external_side_effects"}}

\* Payloads as clients send them, with or without a hash of their own: JSON;
\* and data of every encoding, which may not be what it says, next to a struct.
Payload ==
    LET fields(encodings, data, structs) ==
            [encoding : encodings, data : data, struct : structs,
             hash : {NoHash, Hash(Str(<<"claimed">>))}, artifact : {NoHash}]
    IN  fields({"json"}, Value, {NoStruct})
        \cup fields({"json", "text", "bytes"}, {Garbled} \cup {Str(text) : text \in Fragments},
                    {NoStruct} \cup Objects(Field, Leaf))

Settings ==
    {[env |-> [token |-> te, auth |-> ae, bind |-> be, addr |-> de, remote |-> re, store |-> Absent],
      file |-> [token |-> tf, auth |-> af, bind |-> Absent, addr |-> Absent, remote |-> Absent, store |-> sf]] :
        te \in {Absent, "blank", "t1"}, tf \in {Absent, "blank", "t2"},
        ae \in {Absent, "true", "false"}, af \in {Absent, "false"}, be \in {Absent, "tcp"},
        de \in {Absent, "remote", "garbled"}, re \in {Absent, "yes"}, sf \in {Absent, "rocksdb"}}

Header == [kind : {Absent, "basic", "bearer"}, token : {"t1", "t2"}]

Call == [operation : HttpOperation \cup GrpcOperation, header : Header,
         requireAuth : BOOLEAN, token : {Absent, "t1"}]

Body == [agent : {"a"}, run : {"r"}, thread : {Absent, "t"}, channel : {"c"},
         framework : {Absent, "f"},
         clock : {Absent, "7"}, durable : {Absent, "false", "true"}, parents : {Absent, "one"},
         summary : {Absent, "s"}, objective : {Absent, "o"},
         mode : {Absent, "dry_run_tools", "reexecute_tools", "other"},
         confirm : {Absent, "false", "true"}, force : {Absent, "false", "true"},
         fromAncestor : {Absent, "true"}, newRun : {Absent, "r2"}]

Quoted == SUBSET {"not found", "permission denied", "invalid"}

Event == [schema : {Absent, "good", "bad"}, ids : {Absent, "empty", "bad", "newline", "good"},
          framework : {"known", "unknown"}, type : {"known", "unknown"},
          channel : {Absent, "empty", "bad", "good"}, time : {Absent, "null", "zero", "positive", "huge"},
          tags : {Absent, "null", "strings", "empties", "other"},
          parents : {Absent, "null", "strings", "empties", "other"},
          metadata : {Absent, "null", "object", "other"}, tool : {Absent, "plain", "spaced"}]

Is(kind) == input.kind = kind

Init == input = [kind |-> "none"] /\ PollInit

TakePayload  == \E p \in Payload, large \in BOOLEAN :
                    input' = [kind |-> "payload", payload |-> p, large |-> large]
TakePair     == \E a, b \in PairValue, changed \in Changes :
                    input' = [kind |-> "pair", before |-> a, after |-> b, changed |-> changed]
TakeSettings == \E s \in Settings : input' = [kind |-> "settings", settings |-> s]
TakeCall     == \E c \in Call : input' = [kind |-> "call", call |-> c]
TakeBody     == \E b \in Body : input' = [kind |-> "body", body |-> b]
TakeError    == \E e \in Raised, q \in Quoted :
                    input' = [kind |-> "error",
                              message |-> IF e.quotes THEN e.message \cup q ELSE e.message]
TakeEvent    == \E e \in Event : input' = [kind |-> "event", event |-> e]
TakeWatch    == input' = [kind |-> "watch"]

\* One input of one kind, or a client that polls.
Next ==
    \/ /\ Is("none") /\ UNCHANGED pollVars
       /\ \/ TakePayload \/ TakePair \/ TakeSettings \/ TakeCall \/ TakeBody
          \/ TakeError \/ TakeEvent \/ TakeWatch
    \/ Is("watch") /\ PollNext /\ UNCHANGED input

Spec == Init /\ [][Next]_<<input, pollVars>>

-----------------------------------------------------------------------------
(* Payloads                                                                *)

\* The leaves of a value, with their paths; an empty object or list is one.
RECURSIVE Leaves(_, _)
Leaves(v, path) ==
    IF IsObj(v) /\ Keys(v) # {}
    THEN UNION {Leaves(v.fields[k], Append(path, k)) : k \in Keys(v)}
    ELSE IF v.t = "arr" /\ v.items # <<>>
    THEN UNION {Leaves(v.items[i], Append(path, ToString(i))) : i \in DOMAIN v.items}
    ELSE {[path |-> path, leaf |-> v]}

\* The positions of the secrets in a text: tokens, with the word before them
\* that says so, and logins of URLs.  A login right after "Bearer scheme" is
\* none of them: the redactor has taken its scheme for a token.
Secret(text) ==
    {i \in DOMAIN text :
        \/ text[i] = "sk-ant"
        \/ text[i] \in {"token", "scheme"} /\ i > 1 /\ text[i - 1] = "bearer"
        \/ text[i] = "bearer" /\ i < Len(text) /\ text[i + 1] \in {"token", "scheme", "sk-ant"}
        \/ text[i] = "scheme" /\ i < Len(text) /\ text[i + 1] = "login"
        \/ text[i] = "login" /\ i > 1 /\ text[i - 1] = "scheme"
              /\ ~(i > 2 /\ text[i - 2] = "bearer")}

\* What is left of a text without the fragments at some positions.
Without(text, positions) ==
    FlattenSeq([i \in DOMAIN text |-> IF i \in positions THEN <<>> ELSE <<text[i]>>])

\* What has to become of a leaf: a mark at the first secret key on its path,
\* else its text without the secrets, marked if there were any.
Cleaned(x) ==
    LET keys == {i \in DOMAIN x.path : SecretKeyName(x.path[i])}
        secret == Secret(x.leaf.text)
    IN  IF keys # {}
        THEN [path |-> SubSeq(x.path, 1, CHOOSE i \in keys : \A j \in keys : i <= j),
              leaf |-> Str(<<>>), marked |-> TRUE]
        ELSE IF x.leaf.t # "str" THEN [path |-> x.path, leaf |-> x.leaf, marked |-> FALSE]
        ELSE [path |-> x.path, leaf |-> Str(Without(x.leaf.text, secret)), marked |-> secret # {}]

\* A leaf as it was redacted, with the markers told apart from the text.
Told(x) ==
    LET marks == {i \in DOMAIN x.leaf.text : x.leaf.text[i] = Marker}
    IN  IF x.leaf.t # "str" THEN [path |-> x.path, leaf |-> x.leaf, marked |-> FALSE]
        ELSE [path |-> x.path, leaf |-> Str(Without(x.leaf.text, marks)), marked |-> marks # {}]

\* "The daemon redacts again before broadcasting and persistence": of JSON, of
\* text and of struct_data every secret value and text is replaced and nothing
\* else, twice is as good as once, and the findings are about exactly the
\* places that were replaced; data that cannot be read, or is of another
\* encoding, is left as it is.  The hash is the hash of what is kept, whatever
\* the client said, where the data could be read - else the client's, if it
\* sent one - and an artifact is named by the data moved to it.
PreparedClean ==
    Is("payload") =>
        LET p == input.payload
            done == RedactPayload(p)
            kept == PreparePayload(p, input.large)
            sent == {p.struct} \cup {x \in {p.data} : Readable(p)}
            out == {done.payload.struct} \cup {x \in {done.payload.data} : Readable(p)}
            leaves(values) == UNION {Leaves(v, <<>>) : v \in values \ {NoStruct}}
        IN  /\ {Told(x) : x \in leaves(out)} = {Cleaned(x) : x \in leaves(sent)}
            /\ RedactPayload(done.payload).payload = done.payload
            /\ {done.findings[i].path : i \in DOMAIN done.findings}
                   = {x.path : x \in {y \in leaves(out) : Told(y).marked}}
            /\ ~Readable(p) => done.payload.data = p.data
            /\ kept.hash = IF Readable(p) \/ p.hash = NoHash THEN Hash(done.payload.data) ELSE p.hash
            /\ IF input.large THEN kept.artifact = Hash(done.payload.data)
                              ELSE kept.data = done.payload.data

\* value with entry e of a diff applied at the rest of e's path.
RECURSIVE Patch(_, _, _)
Patch(value, path, e) ==
    IF path = <<>> THEN e.after
    ELSE LET k == Head(path)
             rest == Tail(path)
         IN  IF rest = <<>> /\ e.change = "removed"
             THEN Obj([x \in Keys(value) \ {k} |-> value.fields[x]])
             ELSE Obj([x \in Keys(value) \cup {k} |->
                          IF x # k THEN value.fields[x]
                          ELSE Patch(IF k \in Keys(value) THEN value.fields[k] ELSE Null, rest, e)])

\* A payload that says value; a string is sent as text.
PayloadOf(value) ==
    [encoding |-> IF value.t = "str" THEN "text" ELSE "json", data |-> value,
     struct |-> NoStruct, hash |-> Hash(value), artifact |-> NoHash]

CommitWith(value, ones) ==
    [payload |-> PayloadOf(value),
     attributes |-> [x \in Range(Attributes) |-> IF x \in ones THEN 1 ELSE 0]]

\* The entries of a diff about the states are enough to turn the one into the
\* other, the others name the attributes that differ, no path is reported
\* twice, and there are none exactly for commits equal in all that.
DiffPatches ==
    Is("pair") =>
        LET entries == DiffCommits(CommitWith(input.before, {}), CommitWith(input.after, input.changed))
            states == SelectSeq(entries, LAMBDA e : e.path[1] = "$")
        IN  /\ FoldLeft(LAMBDA v, e : Patch(v, Tail(e.path), e), input.before, states) = input.after
            /\ {entries[i].path[1] : i \in DOMAIN entries} \ {"$"} = input.changed
            /\ \A i, j \in DOMAIN entries : entries[i].path = entries[j].path => i = j
            /\ entries = <<>> <=> (input.before = input.after /\ input.changed = {})

\* A replay that merges a payload loses nothing the payload says and drops
\* no key the state had; merging it again changes nothing.  (Compared with
\* diff_value, which shares no code with merge_value.)
MergeKeeps ==
    Is("pair") =>
        LET state == MergeValue(input.before, input.after)
            missing == DiffValue(<<>>, state, input.after)
            dropped == DiffValue(<<>>, input.before, state)
        IN  /\ \A i \in DOMAIN missing : missing[i].change = "removed"
            /\ \A i \in DOMAIN dropped : dropped[i].change # "removed"
            /\ MergeValue(state, input.after) = state
            /\ ReplayState(<<PayloadOf(input.before), PayloadOf(input.after)>>) = state

-----------------------------------------------------------------------------
(* Fronts and clients                                                      *)

\* What protobuf makes of a field that is not set.
ProtoDefault == [thread |-> "", clock |-> "0", durable |-> "false", parents |-> "none",
                 summary |-> "", objective |-> "", framework |-> "", force |-> "false",
                 fromAncestor |-> "false", newRun |-> ""]

HeadKey(request) == <<request.run, request.thread, request.agent, request.channel>>

\* HTTP and gRPC are two doors to one room.  They let the same callers in,
\* except that anyone may ask over HTTP for the daemon's health, which gRPC
\* tells only its callers, and for the stream of totals.  A field left out
\* means the same through both, except the framework of a registration, which
\* HTTP calls custom; a checkpoint, or an event, continues the head of a
\* publish with the same fields, from the command line too; tools are
\* re-executed only if that is asked for and confirmed, never from the command
\* line; and errors are reported as of the same class, except that what gRPC
\* calls an invalid argument is a failure of the daemon over HTTP.
FrontsAgree ==
    /\ Is("call") =>
          LET c == input.call
              admitted == ValidateGrpc(c.header, c) = "ok"
          IN  /\ c.operation \in GrpcOperation => (GrpcAdmits(c.operation, c.header, c) <=> admitted)
              /\ c.operation \in HttpOperation =>
                    (HttpAdmits(c.operation, c.header, c)
                        <=> admitted \/ c.operation \in {"Health", "EventsStream"})
    /\ Is("body") =>
          LET b == input.body
              publish == HttpPublish(b)
              Carries(request) == \A f \in DOMAIN ProtoDefault \cap DOMAIN request :
                  request[f] = IF b[f] = Absent THEN ProtoDefault[f] ELSE b[f]
          IN  /\ Carries(publish) /\ Carries(HttpRollback(b)) /\ Carries(HttpDiff(b))
              /\ Carries(HttpFork(b)) /\ Carries(HttpRollback(CliRollback(b)))
              /\ Carries([HttpRegister(b) EXCEPT
                             !.framework = IF b.framework = Absent /\ @ = "custom" THEN "" ELSE @])
              /\ HttpRegister(b).thread = publish.thread
              /\ HeadKey(HttpCheckpoint(b)) = HeadKey(publish)
              /\ HeadKey(HttpEvent(b)) = HeadKey(publish)
              /\ HeadKey(HttpCheckpoint(CliCheckpoint(b))) = HeadKey(HttpPublish(CliPublish(b)))
              /\ HttpReplay(CliReplay).mode = "state_only"
              /\ ReplayProceeds(HttpReplay(b)) <=>
                    (b.mode = "reexecute_tools" => b.confirm = "true")
    /\ Is("error") =>
          LET status == ToStatus(input.message)
          IN  InternalError(input.message) = IF status = "bad" THEN "failed" ELSE status

\* What the SDKs accept the daemon accepts, apart from an id that ends in a
\* newline, a channel the Python SDK makes of a tool name with other
\* characters than a channel may have, and a time stamp beyond 63 bits.
SdkEventsAccepted ==
    Is("event") =>
        LET e == input.event
        IN  /\ TypeScriptAccepts(e) => (TryFromValue(Normalized(e)) <=> e.time # "huge")
            /\ PythonAccepts(e) =>
                  (TryFromValue(Normalized(e)) <=>
                      e.time # "huge" /\ e.ids = "good" /\ ChannelForEvent(e) = "good")

\* A daemon that starts in TCP mode can be reached with the token it was
\* given, and the command line run with the same settings is let in if auth
\* is off or the environment has a token, and only then.
StartedReachable ==
    (Is("settings") /\ Starts(input.settings)) =>
        LET config == FromEnv(input.settings)
            cli == ValidateHttp(CliHeader(input.settings), config)
        IN  /\ config.bindMode = "tcp" =>
                  \E t \in {"t1", "t2"} :
                      ValidateHttp([kind |-> "bearer", token |-> t], config) = "ok"
            /\ cli = "ok" <=> (~config.requireAuth
                               \/ input.settings.env["token"] \notin {Absent, "blank"})
=============================================================================
