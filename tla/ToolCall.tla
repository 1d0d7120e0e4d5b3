------------------------------- MODULE ToolCall ------------------------------
(***************************************************************************)
(* Tool calls through one HTTP handler, each from its request to its       *)
(* result: forwardHeaderHandler.ServeHTTP (handler.go), which takes the    *)
(* configured headers of the request along in its context; the tool        *)
(* handler that registerTool installs (gateway.go); InvokeUnary            *)
(* (invoke.go), with the repair of arguments that a model has quoted and   *)
(* the metadata of forwardmetadata; and the content template.  The trace   *)
(* context and baggage of the request go along, from the otelhttp handler  *)
(* around ServeHTTP to the otelgrpc handler of the connection.  Deadlines, *)
(* crashes and the snapshot a call is made on are in Gateway.              *)
(*                                                                         *)
(* A JSON value is told apart by what protojson and the repair ask of it.  *)
(* "bracket" and "brace" are strings that begin like a list or an object   *)
(* and are not JSON.  A field of a reply is told apart by what it takes    *)
(* to render it: by whether it is there, and whether it is empty.          *)
(***************************************************************************)
EXTENDS ConfiguredLists

CONSTANTS
    Names,        \* member names of JSON objects
    Headers,      \* names of HTTP headers, in lower case
    Reserved,     \* the headers grpc-go does not take from metadata
    Propagated,   \* the headers of trace context and baggage
    Minted,       \* those of them that a span of the gateway's own has: traceparent
    HeaderValues, \* values of HTTP headers; Blank is the empty value
    Unprintable,  \* the values that are not printable ASCII
    Configured,   \* the lists of --forward-header entries to look at
    Scenarios     \* the lists of simultaneous calls to look at

Strings == {"text", "quoted list", "quoted object", "bracket", "brace"}
Values == Strings \cup {"list", "object", "number"}

MessageKinds == {"message", "Struct", "ListValue", "StringValue", "Value"}
Kinds == MessageKinds \cup {"list", "map", "string", "int32"}

\* json and name are the two spellings protojson accepts for a field.
Field == [json : Names, name : Names, kind : Kinds]
Member == [name : Names, value : Values]

\* "unset" are optional fields and messages that are not set, "null" a Value
\* that holds null; a message has one field, which is set or not.
\* "repeated" is a list of messages and "strings" one of strings, not empty.
FieldStates == {"text", "empty", "unset", "null", "message", "empty message",
                "repeated", "strings", "empty list"}
\* The places of a template: {{ .f }}, {{ .f.g }}, {{ range .f }}{{ .g }}{{ end }}
Place == [field : Nat, how : {"value", "nested", "range"}]

\* What a request asks, and what the downstream server would reply to it.
\* Without a template the tool has none.
Ask == [input : Seq(Field), isObject : BOOLEAN, args : Seq(Member),
        http : [Headers -> Seq(HeaderValues)],
        reply : Seq(FieldStates), template : Seq(Place)]

\* protoc derives the JSON names and rejects a message in which two of them are
\* alike, so no two fields share a spelling.
ASSUME ScenariosAssumption ==
    \A asks \in Scenarios : \A r \in DOMAIN asks :
        /\ asks[r] \in Ask
        /\ \A i, j \in DOMAIN asks[r].input :
              LET f == asks[r].input[i]
                  g == asks[r].input[j]
              IN  i # j => {f.json, f.name} \cap {g.json, g.name} = {}
        /\ ~asks[r].isObject => asks[r].args = <<>>
        /\ \A k \in DOMAIN asks[r].template :
              asks[r].template[k].field \in DOMAIN asks[r].reply
ASSUME HeadersAssumption ==
    /\ Configured \subseteq Seq(Entries(Headers))
    /\ Blank \in HeaderValues
    /\ Unprintable \subseteq HeaderValues \ {Blank}
    /\ Minted \subseteq Propagated /\ Propagated \subseteq Headers \ Reserved

VARIABLES
    configured, \* cfg.forwardHeaders
    call        \* the calls under way

vars == <<configured, call>>

Calls == DOMAIN call
Nothing == [x \in {} |-> {}]

\* ask: what is asked; md and trace: the metadata in the context of the request,
\* and its trace context and baggage, each the values it comes from; phase;
\* payload, i, n, changed: unwrapStringifiedFields, its map from name to value,
\* its loops over the fields and over their two spellings, and whether it has
\* unwrapped a value; message: the request message, field to value; sent and
\* attached: whether the RPC was sent, and its metadata; out: the reply as a
\* map[string]any; result, and the text if it is one.
Fresh(ask) ==
    [ask |-> ask, md |-> Nothing, trace |-> Nothing, phase |-> "start",
     payload |-> Nothing, i |-> 1, n |-> 1, changed |-> FALSE,
     message |-> Nothing, sent |-> FALSE, attached |-> Nothing, out |-> Nothing,
     result |-> "none", text |-> <<>>]

Init ==
    /\ configured \in Configured
    /\ \E asks \in Scenarios : call = [r \in DOMAIN asks |-> Fresh(asks[r])]

Becomes(r, c) == call' = [call EXCEPT ![r] = c] /\ UNCHANGED configured

End(r, result) == Becomes(r, [call[r] EXCEPT !.phase = "done", !.result = result])
------------------------------------------------------------------------------
\* req.Header.Values, without the empty ones.
NonEmpty(values) == Picked(values, {k \in DOMAIN values : values[k] # Blank})

\* md.Append for every header that normalizedHeaders keeps and every value of
\* it: one that is kept n times gets its values n times.
Collected(list, http) ==
    LET times(h) == Cardinality({i \in Kept(list) : list[i].name = h})
        given(h) == NonEmpty(http[h])
        size(h) == times(h) * Len(given(h))
    IN  [h \in {x \in Headers : size(x) > 0} |->
            [k \in 1..size(h) |-> given(h)[1 + ((k - 1) % Len(given(h)))]]]

\* otelhttp takes what it can read of a header that is there.
Extracted(http) ==
    {[h \in S |-> http[h]] : S \in SUBSET {h \in Propagated : NonEmpty(http[h]) # <<>>}}

\* Mutant of Serve: one metadata map for all requests of the handler.
ServeSharing(r) ==
    /\ call[r].phase = "start"
    /\ \E trace \in Extracted(call[r].ask.http) :
          call' = [q \in Calls |->
              [call[q] EXCEPT !.md = Collected(configured, call[r].ask.http),
                              !.trace = IF q = r THEN trace ELSE @,
                              !.phase = IF q = r THEN "decode" ELSE @]]
    /\ UNCHANGED configured

\* ServeHTTP within otelhttp: trace and metadata go into a context of the
\* request's own.
Serve(r) ==
    /\ call[r].phase = "start"
    /\ \E trace \in Extracted(call[r].ask.http) :
          Becomes(r, [call[r] EXCEPT !.md = Collected(configured, call[r].ask.http),
                                     !.trace = trace, !.phase = "decode"])
------------------------------------------------------------------------------
\* What protojson takes for a field of a kind.
Acceptable(kind, value) ==
    \/ kind \in {"list", "ListValue"} /\ value = "list"
    \/ kind \in {"map", "message", "Struct"} /\ value = "object"
    \/ kind \in {"string", "StringValue"} /\ value \in Strings
    \/ kind = "int32" /\ value = "number"
    \/ kind = "Value"

Spells(field, name) == name \in {field.json, field.name}

\* protojson.Unmarshal succeeds: the members are known, none is there twice,
\* and their values fit.  members is a function from places to members: the
\* list of them, or a map by their names.
Decodes(input, members) ==
    /\ \A m \in DOMAIN members : \E j \in DOMAIN input :
          Spells(input[j], members[m].name) /\ Acceptable(input[j].kind, members[m].value)
    /\ \A j \in DOMAIN input : \A m, k \in DOMAIN members :
          Spells(input[j], members[m].name) /\ Spells(input[j], members[k].name) => m = k

Message(input, members) ==
    LET given(j) == {m \in DOMAIN members : Spells(input[j], members[m].name)}
    IN  [j \in {x \in DOMAIN input : given(x) # {}} |->
            members[CHOOSE m \in given(j) : TRUE].value]

\* No arguments at all are the empty object.
Decode(r) ==
    LET c == call[r] IN
    /\ c.phase = "decode"
    /\ c.ask.isObject /\ Decodes(c.ask.input, c.ask.args)
    /\ Becomes(r, [c EXCEPT !.message = Message(c.ask.input, c.ask.args), !.phase = "invoke"])

\* json.Unmarshal into a map: the last of several members of a name stays.
LastValues(args) ==
    [x \in {args[m].name : m \in DOMAIN args} |->
        args[CHOOSE m \in DOMAIN args :
                args[m].name = x /\ \A k \in DOMAIN args : args[k].name = x => k <= m].value]

StartRepair(r) ==
    LET c == call[r] IN
    /\ c.phase = "decode"
    /\ c.ask.isObject /\ ~Decodes(c.ask.input, c.ask.args)
    /\ Becomes(r, [c EXCEPT !.payload = LastValues(c.ask.args), !.phase = "repair"])

Current(c) == c.ask.input[c.i]
Spelling(c) == IF c.n = 1 THEN Current(c).json ELSE Current(c).name

\* wantsList, wantsObject
Wants(kind, value) ==
    \/ kind = "list" /\ value \in {"quoted list", "bracket"}
    \/ kind \in MessageKinds \cup {"map"} /\ value \in {"quoted object", "brace"}

Unquoted(value) == IF value = "quoted list" THEN "list" ELSE "object"

\* Mutant: any quoted list or object is unwrapped, whatever the field is.
UnwrapsAny(c) ==
    /\ Spelling(c) \in DOMAIN c.payload
    /\ c.payload[Spelling(c)] \in {"quoted list", "quoted object"}

Unwraps(c) ==
    /\ Spelling(c) \in DOMAIN c.payload
    /\ Wants(Current(c).kind, c.payload[Spelling(c)])
    /\ c.payload[Spelling(c)] \in {"quoted list", "quoted object"}

InRepair(c) == c.phase = "repair" /\ c.i \in DOMAIN c.ask.input

\* Mutant: one value is unwrapped, and the rest is left.
UnwrapOnce(r) ==
    LET c == call[r] IN
    /\ InRepair(c) /\ Unwraps(c)
    /\ Becomes(r, [c EXCEPT !.payload[Spelling(c)] = Unquoted(@), !.changed = TRUE,
                            !.i = Len(c.ask.input) + 1, !.n = 1])

\* Mutant: no json.Valid, the text is taken for JSON by its first character.
UnwrapUnchecked(r) ==
    LET c == call[r] IN
    /\ InRepair(c)
    /\ Spelling(c) \in DOMAIN c.payload /\ Wants(Current(c).kind, c.payload[Spelling(c)])
    /\ Becomes(r, [c EXCEPT !.payload[Spelling(c)] =
                               IF Unwraps(c) THEN Unquoted(@) ELSE "not JSON",
                            !.changed = TRUE, !.i = c.i + 1, !.n = 1])

\* The string is replaced by the JSON in it; the other spelling is skipped.
UnwrapField(r) ==
    LET c == call[r] IN
    /\ InRepair(c) /\ Unwraps(c)
    /\ Becomes(r, [c EXCEPT !.payload[Spelling(c)] = Unquoted(@), !.changed = TRUE,
                            !.i = c.i + 1, !.n = 1])

KeepField(r) ==
    LET c == call[r] IN
    /\ InRepair(c) /\ ~Unwraps(c)
    /\ Becomes(r, IF c.n = 1 THEN [c EXCEPT !.n = 2] ELSE [c EXCEPT !.n = 1, !.i = c.i + 1])

RepairEnds(c) == c.phase = "repair" /\ c.i > Len(c.ask.input)

\* json.Marshal of the map; the order of its members makes no difference.
Repaired(c) == [x \in DOMAIN c.payload |-> [name |-> x, value |-> c.payload[x]]]

\* The one retry.
Retry(r) ==
    LET c == call[r] IN
    /\ RepairEnds(c)
    /\ c.changed /\ Decodes(c.ask.input, Repaired(c))
    /\ Becomes(r, [c EXCEPT !.message = Message(c.ask.input, Repaired(c)), !.phase = "invoke"])

\* "unmarshal arguments: ...", with the error of the first attempt.
Reject(r) ==
    LET c == call[r] IN
    /\ \/ c.phase = "decode" /\ ~c.ask.isObject
       \/ RepairEnds(c) /\ ~(c.changed /\ Decodes(c.ask.input, Repaired(c)))
    /\ End(r, "bad arguments")
------------------------------------------------------------------------------
\* grpc-go checks all metadata before it opens the stream of a call, and sends
\* none under names of its own.
Sendable(md) == \A h \in DOMAIN md : \A k \in DOMAIN md[h] : md[h][k] \notin Unprintable

\* What otelgrpc injects, told apart by the values it comes from: the trace of
\* the request, with a new span if the gateway traces, or <<>> for one of the
\* gateway's own.
Injections(trace) ==
    {[h \in DOMAIN trace \cup S |-> [from |-> IF h \in DOMAIN trace THEN trace[h] ELSE <<>>]] :
        S \in SUBSET (Minted \ DOMAIN trace)}

\* The injected headers replace the metadata of their names.
Attached(md, injected) ==
    [h \in (DOMAIN md \ Reserved) \cup DOMAIN injected |->
        IF h \in DOMAIN injected THEN <<injected[h]>> ELSE md[h]]

\* protojson with EmitDefaultValues, and json.Unmarshal into a map.
\* Mutant: without EmitDefaultValues.
EmitsSet(field) == field \notin {"unset", "empty", "empty list"}
Emits(field) == field # "unset"

Out(reply) == [f \in {x \in DOMAIN reply : Emits(reply[x])} |-> reply[f]]

\* AppendToOutgoingContext and the request of conn.Invoke.
Send(r) ==
    LET c == call[r] IN
    /\ c.phase = "invoke"
    /\ Sendable(c.md)
    /\ \E injected \in Injections(c.trace) :
          Becomes(r, [c EXCEPT !.sent = TRUE, !.attached = Attached(c.md, injected),
                               !.phase = "sent"])

\* The metadata is refused, or the RPC fails, before or after it was sent.
InvokeFails(r) == call[r].phase \in {"invoke", "sent"} /\ End(r, "call failed")

\* conn.Invoke returns with the reply.
Receive(r) ==
    LET c == call[r] IN
    /\ c.phase = "sent"
    /\ Becomes(r, [c EXCEPT !.out = Out(c.ask.reply), !.phase = "render"])

\* The method has been executed and its response cannot be written as JSON.
MarshalFails(r) == call[r].phase = "render" /\ End(r, "bad response")

\* text/template prints what is not there, and null, as "<no value>".  It takes
\* a field of a message or of what is not there; and it ranges over lists, over
\* null and what is not there as over nothing, and over the values of a message,
\* which here have no fields.
Fails(out, place) ==
    /\ place.field \in DOMAIN out
    /\ \/ place.how = "nested" /\ out[place.field] \notin {"message", "empty message"}
       \/ place.how = "range" /\ out[place.field] \notin {"repeated", "empty list", "null"}

Piece(out, place) ==
    LET there == place.field \in DOMAIN out /\ out[place.field] # "null"
    IN  IF ~there THEN IF place.how = "range" THEN "" ELSE "<no value>"
        ELSE IF \/ out[place.field] = "empty"
                \/ out[place.field] = "empty list" /\ place.how = "range"
                \/ out[place.field] = "empty message" /\ place.how = "nested"
             THEN "" ELSE "text"

Structured(r) ==
    /\ call[r].phase = "render"
    /\ call[r].ask.template = <<>>
    /\ End(r, "structured")

Render(r) ==
    LET c == call[r] IN
    /\ c.phase = "render"
    /\ c.ask.template # <<>>
    /\ \A k \in DOMAIN c.ask.template : ~Fails(c.out, c.ask.template[k])
    /\ Becomes(r, [c EXCEPT !.phase = "done", !.result = "text",
            !.text = [k \in DOMAIN c.ask.template |-> Piece(c.out, c.ask.template[k])]])

\* What was rendered up to the error is dropped.
RenderFails(r) ==
    LET c == call[r] IN
    /\ c.phase = "render"
    /\ \E k \in DOMAIN c.ask.template : Fails(c.out, c.ask.template[k])
    /\ End(r, "template failed")

Next == \E r \in Calls :
    \/ Serve(r) \/ Decode(r) \/ StartRepair(r) \/ UnwrapField(r) \/ KeepField(r)
    \/ Retry(r) \/ Reject(r) \/ Send(r) \/ InvokeFails(r) \/ Receive(r) \/ MarshalFails(r)
    \/ Structured(r) \/ Render(r) \/ RenderFails(r)

Spec == Init /\ [][Next]_vars
------------------------------------------------------------------------------
TypeOK == \A r \in Calls : LET c == call[r] IN
    /\ c.phase \in {"start", "decode", "repair", "invoke", "sent", "render", "done"}
    /\ DOMAIN c.md \subseteq Headers /\ DOMAIN c.trace \subseteq Headers
    /\ DOMAIN c.attached \subseteq Headers
    /\ DOMAIN c.payload \subseteq Names
    /\ \A x \in DOMAIN c.payload : c.payload[x] \in Values
    /\ c.i \in 1..(Len(c.ask.input) + 1) /\ c.n \in 1..2
    /\ DOMAIN c.message \subseteq DOMAIN c.ask.input
    /\ c.result \in {"none", "bad arguments", "call failed", "bad response",
                     "template failed", "structured", "text"}
    /\ c.text \in Seq({"text", "", "<no value>"})

\* "each matching HTTP header is attached to the downstream gRPC request as
\* metadata", and "headers such as traceparent, tracestate, and baggage are
\* extracted, and trace context is injected".  A call carries every non-empty
\* value of the configured headers of its own request, once and in order,
\* however often a header is configured and whatever other requests carry.  A
\* header of the trace has, configured or not, what comes of its own request's
\* or, where a new span can make it, of none.  Nothing else is attached, and
\* none of the names that gRPC keeps to itself, even if they are configured.
HeadersForwarded == \A r \in Calls : LET c == call[r] IN
    c.sent =>
        /\ DOMAIN c.attached \cap Reserved = {}
        /\ \A h \in Headers \ Reserved :
              LET own == NonEmpty(c.ask.http[h])
                  attached == IF h \in DOMAIN c.attached THEN c.attached[h] ELSE <<>>
              IN  \/ attached = IF h \in Mentioned(configured) THEN own ELSE <<>>
                  \/ h \in Propagated /\ own # <<>> /\ attached = <<[from |-> c.ask.http[h]]>>
                  \/ h \in Minted /\ attached = <<[from |-> <<>>]>>

\* The last value the client gave for the field j.
Given(ask, j) ==
    LET args == ask.args
    IN  args[CHOOSE m \in DOMAIN args :
                /\ Spells(ask.input[j], args[m].name)
                /\ \A k \in DOMAIN args : Spells(ask.input[j], args[k].name) => k <= m].value

\* What is sent is what the client gave, field by field, except for lists and
\* objects that came quoted, for a field of that shape, in arguments that could
\* not be decoded as they were.
SentAsGiven == \A r \in Calls : LET c == call[r] IN
    \A j \in DOMAIN c.message :
        \/ c.message[j] = Given(c.ask, j)
        \/ /\ ~Decodes(c.ask.input, c.ask.args)
           /\ Given(c.ask, j) \in {"quoted list", "quoted object"}
           /\ c.message[j] = Unquoted(Given(c.ask, j))
           /\ Given(c.ask, j) = "quoted list" => c.ask.input[j].kind = "list"
           /\ Given(c.ask, j) = "quoted object" => c.ask.input[j].kind \in MessageKinds \cup {"map"}

\* The only fault of the arguments is that lists and objects are quoted where
\* a field expects them.
OnlyQuoted(input, args) ==
    /\ \A m \in DOMAIN args : \E j \in DOMAIN input :
          /\ Spells(input[j], args[m].name)
          /\ \/ Acceptable(input[j].kind, args[m].value)
             \/ input[j].kind = "list" /\ args[m].value = "quoted list"
             \/ input[j].kind \in {"map", "message", "Struct"} /\ args[m].value = "quoted object"
    /\ \A j \in DOMAIN input : \A m, k \in DOMAIN args :
          Spells(input[j], args[m].name) /\ Spells(input[j], args[k].name) => m = k

\* "Unwrap such values where the field expects that shape and retry once":
\* arguments with no other fault are sent, unless a quoted object is also the
\* value of a field of a type that takes strings, StringValue or Value.
RepairCompletes == \A r \in Calls :
    LET c == call[r]
        input == c.ask.input
        args == c.ask.args
    IN  RepairEnds(c) /\ OnlyQuoted(input, args)
            /\ (\A j \in DOMAIN input : input[j].kind \in {"StringValue", "Value"} =>
                  \A m \in DOMAIN args :
                     Spells(input[j], args[m].name) => args[m].value # "quoted object")
        => c.changed /\ Decodes(input, Repaired(c))

\* What a field has to be for a place to fail: not a message where a field of it
\* is taken, not a list of messages where they are gone through.
Breaks(state, how) ==
    \/ how = "nested" /\ state \in FieldStates \ {"unset", "message", "empty message"}
    \/ how = "range" /\ state \in {"text", "empty", "message", "empty message", "strings"}

\* A template shows the fields that are filled and leaves empty what is empty,
\* also within messages and lists; fields that are always present are never
\* missing from it; and it fails exactly if it takes a field of something that
\* has none, whether that is null, a text or a list: what is not set does not
\* fail it.
RendersReply == \A r \in Calls :
    LET c == call[r]
        At(k) == c.ask.reply[c.ask.template[k].field]
        how(k) == c.ask.template[k].how
    IN  /\ \A k \in DOMAIN c.text :
             /\ At(k) \in {"text", "message", "repeated", "strings"} => c.text[k] = "text"
             /\ At(k) = "empty" => c.text[k] = ""
             /\ At(k) = "empty list" /\ how(k) = "range" => c.text[k] = ""
             /\ At(k) = "empty message" /\ how(k) = "nested" => c.text[k] = ""
        /\ c.result = "template failed" =>
             \E k \in DOMAIN c.ask.template : Breaks(At(k), how(k))
        /\ c.result = "text" => \A k \in DOMAIN c.ask.template : ~Breaks(At(k), how(k))

\* "Fields that are absent or empty render as empty text rather than failing
\* the call."
AbsentRendersEmpty == \A r \in Calls : LET c == call[r] IN
    \A k \in DOMAIN c.text :
        c.ask.reply[c.ask.template[k].field] \in {"unset", "empty"} => c.text[k] = ""
==============================================================================
