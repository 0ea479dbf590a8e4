------------------------------- MODULE Values --------------------------------
(***************************************************************************)
(* What the daemon does to payloads, as operators on JSON values:          *)
(* redaction (security/redaction.rs), how a stored payload reads           *)
(* (ledger/diff.rs, payload_to_json), the diff of two commits              *)
(* (ledger/diff.rs) and the merging of payloads in a replay                *)
(* (ledger/replay.rs).                                                     *)
(* A JSON value is a tagged record.  The text of a string is a sequence of *)
(* fragments: the parts the patterns of the redactor are made of, or plain.*)
(* They are words of their own, except that a login follows its scheme.    *)
(***************************************************************************)
EXTENDS Integers, Sequences, SequencesExt, FiniteSets

Null == [t |-> "null"]
Moved == [t |-> "moved"]     \* no data: it is in an artifact
Garbled == [t |-> "garbled"] \* bytes that are neither JSON nor UTF-8
NoStruct == [t |-> "none"]   \* struct_data that is not there
Str(fragments) == [t |-> "str", text |-> fragments]
Obj(fields) == [t |-> "obj", fields |-> fields]
Arr(items) == [t |-> "arr", items |-> items]

IsObj(v) == v.t = "obj"

Keys(v) == DOMAIN v.fields

\* The values of a map or a list, one after the other, through a function.
Concat(S, f) == FlattenSeq([i \in 1..Cardinality(S) |-> f[SetToSeq(S)[i]]])

-----------------------------------------------------------------------------
(* Redaction                                                               *)

Marker == "[REDACTED]"

\* secret_key_name: keys that contain one of the names it looks for.
SecretKeyName(key) == key \in {"password", "api_token"}

\* patterns(): the texts each pattern takes, in the order they are tried.
\* Bearer takes any word after it, the scheme of a URL included; a login
\* without a scheme is no URL; sk-ant-... is also of the form sk-... .
Patterns ==
    << [name |-> "bearer_token",
        takes |-> {<<"bearer", word>> : word \in {"token", "sk-ant", "scheme"}}],
       [name |-> "openai_token", takes |-> {<<"sk-ant">>}],
       [name |-> "anthropic_token", takes |-> {<<"sk-ant">>}],
       [name |-> "database_url_password", takes |-> {<<"scheme", "login">>}] >>

Finding(path, name) == [path |-> path, name |-> name]

\* What a pattern takes of text at position i.
At(pattern, text, i) == {taken \in pattern.takes : IsPrefix(taken, SubSeq(text, i, Len(text)))}

\* text with what the pattern takes at each of the starts replaced.
Replaced(pattern, text, starts) ==
    FlattenSeq([i \in DOMAIN text |->
        IF i \in starts THEN <<Marker>>
        ELSE IF \E j \in starts : \E taken \in At(pattern, text, j) : j < i /\ i < j + Len(taken)
        THEN <<>> ELSE <<text[i]>>])

\* Mutant: a pattern replaces the first text it takes.
ReplaceFirst(pattern, text) ==
    LET starts == {i \in DOMAIN text : At(pattern, text, i) # {}}
    IN  Replaced(pattern, text, {i \in starts : \A j \in starts : i <= j})

\* replace_all
ReplaceEvery(pattern, text) ==
    Replaced(pattern, text, {i \in DOMAIN text : At(pattern, text, i) # {}})

\* redact_text: every pattern in turn, on what the ones before it have left.
RedactText(text, path) ==
    FoldLeft(LAMBDA done, pattern :
                 LET new == ReplaceEvery(pattern, done.value.text)
                 IN  IF new = done.value.text THEN done
                     ELSE [value |-> Str(new),
                           findings |-> Append(done.findings, Finding(path, pattern.name))],
             [value |-> Str(text), findings |-> <<>>], Patterns)

\* redact_json and redact_json_object (redact_struct and redact_prost_value
\* do the same to protobuf values).
RECURSIVE RedactJson(_, _)
RedactJson(v, path) ==
    CASE v.t = "obj" ->
            LET child == [k \in Keys(v) |->
                    IF SecretKeyName(k)
                    THEN [value |-> Str(<<Marker>>),
                          findings |-> <<Finding(Append(path, k), "secret_key")>>]
                    ELSE RedactJson(v.fields[k], Append(path, k))]
            IN  [value |-> Obj([k \in Keys(v) |-> child[k].value]),
                 findings |-> Concat(Keys(v), [k \in Keys(v) |-> child[k].findings])]
      [] v.t = "arr" ->
            LET child == [i \in DOMAIN v.items |-> RedactJson(v.items[i], Append(path, ToString(i)))]
            IN  [value |-> Arr([i \in DOMAIN v.items |-> child[i].value]),
                 findings |-> FlattenSeq([i \in DOMAIN v.items |-> child[i].findings])]
      [] v.t = "str" -> RedactText(v.text, path)
      [] OTHER -> [value |-> v, findings |-> <<>>]

\* blake3_hex: distinct data have distinct hashes.
Hash(data) == [t |-> "hash", of |-> data]
NoHash == Hash(Null)

\* What the redactor can read of the data: JSON that parses, UTF-8 text.
Readable(p) == p.encoding \in {"json", "text"} /\ p.data # Garbled

\* redact_payload: struct_data whatever the encoding; the data, and with it
\* the hash, if it can be read.
RedactPayload(p) ==
    LET struct == IF p.struct = NoStruct THEN [value |-> NoStruct, findings |-> <<>>]
                  ELSE RedactJson(p.struct, <<>>)
        data == IF Readable(p) THEN RedactJson(p.data, <<>>)
                ELSE [value |-> p.data, findings |-> <<>>]
    IN  [payload |-> [p EXCEPT !.struct = struct.value, !.data = data.value,
                               !.hash = IF Readable(p) THEN Hash(data.value) ELSE @],
         findings |-> struct.findings \o data.findings]

\* prepare_payload: hash, redact, and move what is large into an artifact,
\* which takes the data out of the payload.
PreparePayload(p, large) ==
    LET hashed == [p EXCEPT !.hash = IF @ = NoHash THEN Hash(p.data) ELSE @]
        done == RedactPayload(hashed).payload
    IN  IF large THEN [done EXCEPT !.data = Moved, !.artifact = Hash(done.data)] ELSE done

-----------------------------------------------------------------------------
(* Reading, comparing and merging stored payloads                          *)

\* payload_to_json: JSON as it is, text as a string, empty if it was moved;
\* other data, and JSON that does not parse, is only named.
PayloadToJson(p) ==
    CASE p.encoding = "json" ->
            IF p.data \in {Garbled, Moved} THEN Obj([content_hash |-> p.hash]) ELSE p.data
      [] p.encoding = "text" ->
            IF p.data = Garbled THEN Str(<<"lossy">>)
            ELSE IF p.data = Moved THEN Str(<<>>) ELSE p.data
      [] OTHER -> Obj([content_hash |-> p.hash, artifact_ref |-> p.artifact])

Entry(path, change, before, after) ==
    [path |-> path, change |-> change, before |-> before, after |-> after]

\* diff_value and diff_object
RECURSIVE DiffValue(_, _, _)
DiffValue(path, before, after) ==
    IF IsObj(before) /\ IsObj(after)
    THEN Concat(Keys(before) \ Keys(after),
                [k \in Keys(before) \ Keys(after) |->
                    <<Entry(Append(path, k), "removed", before.fields[k], Null)>>])
         \o Concat(Keys(after),
                [k \in Keys(after) |->
                    IF k \in Keys(before)
                    THEN DiffValue(Append(path, k), before.fields[k], after.fields[k])
                    ELSE <<Entry(Append(path, k), "added", Null, after.fields[k])>>])
    ELSE IF before = after THEN <<>>
    ELSE <<Entry(path, "changed", before, after)>>

\* What else of two commits is compared: as a whole, or by how many there are.
Attributes ==
    <<"summary", "tags", "tool_calls", "tool_results", "artifacts", "external_side_effects">>

\* The entries about the attributes of two commits that differ.
DiffAttributes(from, to) ==
    LET changed == SelectSeq(Attributes, LAMBDA x : from.attributes[x] # to.attributes[x])
    IN  [i \in DOMAIN changed |-> Entry(<<changed[i]>>, "changed", from.attributes[changed[i]],
                                        to.attributes[changed[i]])]

\* Mutant: keys that are gone are not reported.
DiffNoRemovals(from, to) ==
    SelectSeq(DiffValue(<<"$">>, PayloadToJson(from.payload), PayloadToJson(to.payload)),
              LAMBDA e : e.change # "removed")
    \o DiffAttributes(from, to)

\* diff_commits
DiffCommits(from, to) ==
    DiffValue(<<"$">>, PayloadToJson(from.payload), PayloadToJson(to.payload))
    \o DiffAttributes(from, to)

\* Mutant: a patch replaces the objects it meets.
MergeShallow(target, patch) ==
    IF IsObj(target) /\ IsObj(patch)
    THEN Obj([k \in Keys(target) \cup Keys(patch) |->
                 IF k \in Keys(patch) THEN patch.fields[k] ELSE target.fields[k]])
    ELSE patch

\* merge_value
RECURSIVE MergeValue(_, _)
MergeValue(target, patch) ==
    IF IsObj(target) /\ IsObj(patch)
    THEN Obj([k \in Keys(target) \cup Keys(patch) |->
                 IF k \notin Keys(patch) THEN target.fields[k]
                 ELSE MergeValue(IF k \in Keys(target) THEN target.fields[k] ELSE Null,
                                 patch.fields[k])])
    ELSE patch

\* The state replay() rebuilds from the payloads of an ancestry.
ReplayState(payloads) ==
    FoldLeft(LAMBDA state, p : MergeValue(state, PayloadToJson(p)), Obj(<<>>), payloads)
=============================================================================
