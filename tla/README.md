# A TLA+ model of mcp-grpc-gateway

The gateway connects to one gRPC server, discovers its services, and offers
every unary method as an MCP tool over HTTP. It keeps a snapshot of the tools,
rebuilds it at an interval, and serves every request from the snapshot that is
current when the request is handled. This directory holds TLA+ modules that
follow the Go code, TLC configurations that model-check them, and theorems
checked by the TLA+ proof system.

`PROJECT.json` is the index: which lines every definition models (`map`), what
every run checks (`runs`), what is proved (`theorems`), which change of the
code each property would catch (`mutants`), the hazards the properties are for,
and where code and documentation disagree (`findings`).

To check a model: `tlc -config tool_cache.cfg MCToolCache`. To check proofs:
`tlapm ToolCacheProofs.tla`.

## 1. The system

Paths are relative to `src/`. "Hard" names what a unit test hardly reaches.

| component | state | operations | talks to |
|---|---|---|---|
| **Tool cache** `internal/toolcache/cache.go` | loader and tool map under `mu`; atomic pointer to the `*mcp.Server` snapshot; atomic 64-bit version | `New`, `SetLoader`, `Reload`, `Current`, `Version`, `Run` | calls a loader and `RegisterTools`; read by every HTTP request |
| **Service discovery** `internal/discovery/discovery.go` | none between calls; streams on the shared connection during and after them | `LoadServices`, `ListServiceNames`, `LoadFilesForSymbol` | the downstream server, by reflection |
| **Descriptor file discovery** `internal/discovery/descriptor.go` | none; the file is read again by each load | `LoadServicesFromFile`, `ServicesFromDescriptorSet` | the file system |
| **Process and reload loop** `cmd/mcp-grpc-gateway/main.go`, `Cache.Run` | the goroutines, the ticker, the signal context, exit status | `run`, `serveHTTP`, `Cache.Run` | everything |
| **MCP HTTP handler** `internal/mcphttp/handler.go` | none; a request holds the snapshot it was given | one handler per request | the cache, the MCP SDK |
| **Tool calls** `internal/gateway/gateway.go`, `internal/grpcinvoke/invoke.go` | per call: the request message, the deadline | decode, repair, `Invoke`, render | the downstream server on the shared connection |
| **Tool registration** `internal/gateway/gateway.go` | `registeredToolNames` and the server being built, both of one reload | `RegisterTools`, `registerTool` | annotations, schema, SDK |
| **JSON schema** `internal/schema/schema.go` | the Go stack of one recursion | `ForMessage` | descriptors |
| **Annotation lookup** `internal/annotations/annotations.go` | the visited set of one search, the metadata being filled | `ForMethod`, `ForService` | descriptors, registered extensions |
| **Forwarded metadata** `internal/forwardmetadata` | headers of a request on its context | configure, collect, attach | HTTP handler, tool calls |
| **Command line and dial options** | configuration, fixed once parsed | flag and environment parsing, TLS | `run` |
| **Telemetry** `internal/telemetry/telemetry.go` | exporter and logger; the process-wide propagator | set-up, shutdown; trace context and baggage are passed on | the layers around the HTTP handler and the gRPC connection |
| **Examples, generated code** | none | demonstration servers, protoc output | |

How they interact: `main` reloads once, before it listens; then `go cache.Run`
reloads at once and at every tick, while HTTP goroutines read `Current()`.
Reflection streams and tool calls share one gRPC connection. One context, that
of `run`, is cancelled by the signal and reaches the load, the loop and the
HTTP server; requests have contexts of their own with a call timeout.

What is hard, and what makes each part correct:

* **Tool cache.** A reload publishes in three writes of which only the last
  holds the mutex; the loader may change during a load; loads fail or come
  back empty. *Correct:* readers only
  ever see one complete catalog, failures are invisible, version and reported
  differences add up, a reload uses its own loader's result.
* **Discovery.** Every service is fetched by a call of its own while the server
  may crash or be redeployed. *Correct:* a load that succeeds is complete and
  all of it was deployed while the load ran.
* **Descriptor file.** It is replaced, or rewritten in place, while it is read.
  *Correct:* a load that the writer does not tear is one version of the file,
  any other has at least the services asked for, and a file left alone is picked
  up.
* **Process.** A silent server blocks the start; the signal races ticks,
  reloads, the drain and its timeout. *Correct:* the signal always ends the
  process, status 0 drops nothing, the loop converges on the last deployment,
  snapshots never go back in time.
* **Start.** Flags, variables and defaults meet; files are missing or bad; every
  step after the first may fail. *Correct:* what is trusted and reported is
  what was asked for, and what was opened is closed in reverse.
* **Headers and replies.** Requests share one handler; tracing takes headers from
  the request and writes headers to the call; the reply passes through two JSON
  conversions and a template. *Correct:* a call carries the configured headers
  and the trace of its own request and nothing else; what is filled in the reply
  shows, and a template fails only for a reason in the template.
* **Requests and calls.** The deadline races the answer and the crash; the
  snapshot may be replaced between binding and call. *Correct:* every request
  ends, on a snapshot no older than the one settled when it came; what is sent
  is what was given.
* **Registration.** Names collide within and across services, and methods are
  skipped for three different reasons. *Correct:* the first method that can be
  registered keeps the name, and none vanishes without a warning.
* **Schema.** A recursion over user-defined types. *Correct:* it returns, and
  what it returns is the whole unfolding.
* **Annotations.** A graph search and two forms of every option. *Correct:* it
  finds what is imported, and both forms say the same.

## 2. The modules

| module | models | built on |
|---|---|---|
| `Catalog` | abstract: what a reader of the cache is promised | |
| `ToolMaps` | maps from names to services: `Claim`, `AddedTools`, `RemovedTools` | |
| `ToolCache` | `cache.go`: `SetLoader` and every step of `Reload` | `ToolMaps`, `Catalog` |
| `ToolCacheAudit` | history variables and the properties of the cache | `ToolCache` |
| `ToolCacheProofs` | lemmas about the values of `ToolCache`, theorems about `ToolCacheAudit` | `ToolCacheAudit` |
| `ConfiguredLists` | lists of repeated flags and how they are cleaned: `normalizeServiceNames`, `normalizedHeaders` | |
| `ServiceNames` | what both loaders share: the services, which are listed, the order asked for | `ConfiguredLists` |
| `Reflection` | `discovery.go` against a server that crashes and redeploys | `ServiceNames` |
| `DescriptorFile` | `descriptor.go` against a file that is updated while it is read | `ServiceNames` |
| `Discovery` | the loader of one gateway, either of the two, called again and again | `Reflection`, `DescriptorFile` |
| `Gateway` | `main.go` from the first reload on, `Cache.Run`, the handler, calls on the connection | `ToolCache`, `Reflection` |
| `Startup` | `main.go` from the command line to the listener and back to the exit; `telemetry.go`, `NewServer` | |
| `RegisterTools` | the loop of `RegisterTools` over the services of one reload | `ToolMaps` |
| `DiscoveryProofs` | lemmas about one step of `Reflection` or `DescriptorFile`, whoever takes it; theorems about `Discovery` | `Discovery` |
| `GatewayProofs` | theorems about `Gateway` | `Gateway`, `ToolCacheProofs`, `DiscoveryProofs` |
| `StartupProofs` | theorems about `Startup` | `Startup` |
| `RegisterToolsProofs` | theorems about `RegisterTools` | `RegisterTools` |
| `MessageSchema`, `MessageSchemaProofs` | `schema.go`, theorems about it | |
| `Annotations`, `AnnotationsProofs` | `annotations.go`, theorems about it | |
| `ToolCall` | a tool call from its HTTP request to its result: `handler.go`, `metadata.go`, `invoke.go`, the tool handler of `gateway.go` | `ConfiguredLists` |
| `ToolCallProofs` | theorems about `ToolCall` | `ToolCall` |

Each `MC...` module gives the constants of the module it extends their values
for TLC. Definitions called "Mutant of ..." are plausible mistakes in the
definition after them; no specification uses them. `PROJECT.json` says which
property each one breaks.

### ToolCache, ToolCacheAudit, Catalog

`loader`, `current`, `version`, `tools` are the fields of `Cache`. `pc[c]` and
`job[c]` are the position and the locals of the `Reload` that goroutine `c` is
inside; `report[c]` is what it will log. `Reload` is cut exactly where another
goroutine can see a difference:

| action | code |
|---|---|
| `BeginReload` | reads `c.loader` under the mutex and releases it |
| `LoaderFails`, `Load` | the loader returns; an error or no services abandons |
| `RegisterService` | one call of `RegisterTools`, which cannot fail there |
| `Store` | `c.current.Store(server)` |
| `AddVersion` | `c.version.Add(1)`, modulo its width |
| `SwapTools` | `diffTools` and `c.tools = ...`, under the mutex |
| `LogReload` | the log line, after the mutex is released |

`RegisterTools` has error returns for a nil server, connection, descriptor or
input type. `Reload` makes the server, `main` has dialled the connection, and no
loader of the code returns a nil descriptor, so none of them can be taken.

A `*mcp.Server` is the map from the tools registered in it to the services
they belong to: all that a request can tell of it. Any number of goroutines may
reload at once, which is more than `main.go` does: the package does not forbid
it, and `Gateway` shows separately that the program never does it.

`ToolCacheAudit` adds the number of stores, the differences replayed in the
order computed and in the order logged, and whether two reloads ever
overlapped. It restricts no step. `ImplementsCatalog` states that the cache
implements `Catalog` with `served <- current`.

### Reflection

One `load` at a time, as the program makes them. Each reflection call opens its
own stream, sends one request and receives one reply: `OpenStream`, `Answer`
(the server's), `ReceiveNames` or `ReceiveDescriptor`; `OpenFails` and
`ReceiveError` fail the load as a whole; `CancelLoad` is the context. `Crash`
breaks the connection and may lose a reply or leave it readable; `Restart`
comes back with the same or the next deployment. No code closes a stream, so
`streams` only falls when the connection or the context ends. The server is
external and is modelled as the calls see it.

### DescriptorFile, Discovery

The file is a list of `FileDescriptorProto` records, written and read in
chunks of half a record. `Decodings` says what `proto.Unmarshal` makes of what
was read: of the beginning of one version its records, if it stops between two,
and otherwise an error; of pieces of two versions any records that there is room
for, or an error, since the format has no checksum that would tell them from a
file (`OfOneVersion`). `Replace` renames a new version over the path;
`Truncate` and `WriteChunk` rewrite the file in place, at any moment of a
`read`, which holds the chunks so far. `OpenFile`/`NoFile` and `ReadChunk` are
`os.ReadFile`; `LoadFile` and `RejectFile` are everything after it in one step,
since nothing else can see it: `proto.Unmarshal`, `protodesc.NewFiles` (`Links`:
no path or service twice, no import missing), the filter or the sorted listing,
`FindService`. `read.linked`, `read.held` follow a file that was renamed away,
`read.torn` and `read.opened` are history.

`Discovery` chooses one of the loaders, as `main.go:293` does, and a configured
list with blanks and repetitions, and lets the loader run for ever.

### Startup

`phase` is the position in `run`. An input of the process is a function from
the flags given, and one from the flags whose variables are set, to their
values; `Value` is how the flag parser combines them with the defaults, `Config`
is `configFromCommand`. Every step has its failing twin (`ConfigureFails`,
`SetUpFails`, `DialOptionsFail`, `NewClientFails`, `ReloadCancelled`,
`ListenFails`), which returns from `run` through the deferred calls. Between the
first reload and the listener the two `Routes` are given to the mux, which panics
over a path it cannot take as a pattern and over two patterns of which neither is
the more specific (`Clashes`); `configFromCommand` only compares the two texts.
`RoutesPanic` unwinds through the deferred calls as well. Files are good,
unreadable, or without a certificate; paths begin with a slash (`Rooted`) or get
one (`Slash`). What happens between listening and
exit is `Gateway`; here it is one `phase`, entered and left.

### Gateway

`Gateway` EXTENDS the cache and the discovery and conjoins their actions with
the position of the goroutine that calls them: `GBegin` is `BeginReload` and
`BeginLoad`; `GLoaderReturns` is `LoaderReturns` with what the load got. `main`
and `loop` are the positions of `run` and `Cache.Run`, `tick` the ticker's
channel of one element, `ctxDone` the signal. `Resume` is what follows a return
of `Reload`: `main` gives up only on a cancelled context, `Cache.Run` returns
after its first reload if that failed on one and otherwise ignores errors. When
both a tick and the signal are pending, the `select` may take either, and so
may the model. `request[r]` goes from "arrived" through `Bind` (the handler's
`Current()`), `Send`, the answer or its loss, to one of the ends; `Deadline` is
the call timeout, `DrainTimeout` the ten seconds of `Shutdown`. `Exit` takes
every goroutine and connection with it. `known` and `settled` are history.

`Drained` ends with status 0, or with 1 if the listener had failed just before
`Shutdown`.

### RegisterTools

`s` and `i` are the loop indices over services and methods, `registered` is
`registeredToolNames`, `server` what `AddTool` put into the SDK's server. A name
is a sequence of parts, prefix before method, so that a prefix can make two
different method names collide. One action per way through the loop body:
`SkipMethod` (streaming, or without a required annotation), `Collide`,
`DropTemplate`, `RegisterMethod`. `ToolCache` takes a whole service in one step
with `Claim`; `ServiceIsClaimed` shows that the loop does the same to the map,
and so connects the two modules.

### MessageSchema

A frame of `stack` is one activation of `messageSchema` with the helpers below
it; `schema` is the set of positions built so far. `LeafField` covers scalars,
enums and the table of well-known types, `MessageField` the nested call,
`Overflow` a nested call with no stack left, which ends a Go process and cannot
be recovered. `MaxDepth` stands for the limit of a goroutine's stack.

### Annotations

`stack`, `seen`, `found` are the recursion of `findExtensionInFile` with its
visited set; `FromRegistered` and `ReadParsed` are the lookups that find an
option already parsed, `SkipRecord`/`ReadRecord`/`NoRecord` the scan of the raw
records. `linked` says whether the generated annotations package is in the
process. In the gateway's own binary it is not (only tests and examples import
it), so options arrive there as unknown records. `meta` remembers the record
every attribute was taken from.

### ToolCall

`call[r]` is one `tools/call` with everything it holds, from `Serve` (the
metadata of the configured headers goes into its context, and by way of
`otelhttp` what can be read of trace context and baggage, `Extracted`) over `Decode`,
`StartRepair`, the two loops of `unwrapStringifiedFields` (`UnwrapField`,
`KeepField`), `Retry` or `Reject`, to `Send`, `Receive` and the result: a
template that is rendered (`Render`, `RenderFails`), or structured content. Any
number of calls run at once on one handler. What a call carries (`Attached`) is
the metadata, less the names that gRPC reserves, with the headers that `otelgrpc`
writes over it (`Injections`): those of the trace extracted, and where there is
none possibly those of a span that the gateway began (`Minted`). A header that is
configured and is one of the trace is therefore replaced.

A JSON value is one of the classes that protojson and the repair tell apart:
text, a quoted list or object, a string that begins like one and is not JSON, a
list, an object, a number. A field has the two spellings that protojson
accepts. A field of the reply is told apart by whether it is there and whether
it is empty, a place of a template by whether it prints the field, a field of
it, or ranges over it. What protojson accepts, what gRPC sends of metadata and
what text/template prints are external definitions.

## 3. The runs

Every constant that bounds a run is in its `.cfg` or `MC` module.

| run | asks | bounds |
|---|---|---|
| `tool_cache` | Do readers see complete catalogs only, and do version, tool map and reports stay consistent, when reloads overlap and fail? | 2 goroutines, 2 loaders, 3 descriptors, 3 names, version 0..2; 267 thousand states |
| `discovery` | Is a load by reflection complete and of its own time? Is a load of the file one version, or at least complete, and is a changed file picked up? | reflection: 3 services and the reflection service, 4 deployments, 4 faults; file: 3 versions of up to 4 records, and a record that no version has, renamed or rewritten in place at any chunk; all services, a blank list, or a list with a blank and a repetition; 14 thousand states |
| `gateway` | Do reloads never overlap, snapshots only advance, requests use the settled snapshot or a later one, and does exit 0 drop nothing? Does every request end, the signal end the process, the loop converge? | 2 deployments, 1 request, 2 faults, fairness; 191 thousand states |
| `register_tools` | Who gets a name, and is the loop what `Claim` says? | lists of up to 3 of 3 services, 9 methods, 5 names |
| `message_schema` | Is the schema the whole unfolding, and does it always return? | 3 message types of up to 2 fields, one self-containing well-known type |
| `annotations` | Does the search find what is imported, and do both forms of an option agree? | every acyclic import graph over 4 files, up to 2 records |
| `tool_call` | Is what is sent what was given, with the headers and the trace of its own request, and is the reply shown as it is? | 2 fields of any two of 9 kinds, up to 2 members, unknown names, both spellings; 2 calls at once, any two of 21 requests with up to 3 values of 3 headers, one reserved, and any two of 12 with headers of the trace; templates of up to 2 of 23 places; 1.8 million states |
| `startup` | Is the process what it was asked to be, or does it end with everything closed? | 125 command lines and 17 environments that vary one group of flags at a time, 9 states of the files, paths that the mux refuses together or one at a time; 387 thousand states |
| `retry_without_interval` | finding 1 | no reload interval, healthy server |
| `stream_limit` | finding 2 | 4 streams per connection, no faults |
| `recursive_message` | finding 3 | a type that may contain itself, depth 12 |
| `content_template` | finding 4 | templates of up to two places |

Why the bounds are enough. *tool_cache:* what goroutines race for is one
pointer, one counter and one map, so that a violation needs two reloads in
different steps; three names such that every two services collide give every
order of claims. The counter of three values stands for one of 64 bits, which
will not come round; its property is stated modulo the width and loses nothing.
*discovery:* four deployments add a service, remove one, and leave only the
reflection service, so a load may span all of them; four faults allow a crash
in each. The versions of the file drop an import, a service and the reflection
service and add them again, and some beginnings of versions are valid on their
own, so that a torn read can succeed; the record that no version has is what
pieces of two versions may decode as. *gateway:* the second deployment removes
a service and changes the other's tools, which gives a stale binding and a call on a service that is
gone; two faults allow a crash during a reload and one during a call. Requests
do not act on each other but through the streams they hold, and one request is
enough to fill what the reload leaves. The history of a third
reload is that of the second: `Tick` is not bounded.
*register_tools:* three services with the same names before and after a
streaming, an unannotated and a badly templated method, in every order and
with repetitions. *message_schema:* `MaxDepth` is 3, exactly what three types
without recursion need, so that one frame too many would show. *tool_call:* a
place of every form on a field of every state, the pairs of them for what an
error drops; headers that are configured, not configured, reserved, of the trace,
and both of these, in either of two requests.

Deadlock is checked except where the modelled function returns for good
(`annotations`, `tool_call`, `content_template`), the process ends (`startup`) or
has overflowed its stack (`message_schema`). `Gateway` has an explicit `Terminated` step after
exit, so a deadlock of the living process would be reported.

### What the main properties say

* `ImplementsCatalog`: a reader of `Current` sees nothing or one complete
  first-come catalog; never a half-registered one, and none is ever withdrawn.
* `VersionCountsStores`: the version is the number of stores, less the reloads
  between store and count, modulo its width.
* `DiffsTelescope`: the computed differences compose to the tool map for any
  interleaving. `SequentialReloadsAgree`: pointer, tool map and log agree as
  long as reloads never overlap. For reloads that do overlap this fails, since
  the pointer is stored outside the mutex that guards the map;
  `ReloadsNeverOverlap` shows of the program that they do not.
* `OwnLoaderOnly`: a reload registers what the loader that it read returned,
  though `SetLoader` has come in between.
* `LoadIsRegular`, `LoadIsComplete`: a load may mix descriptors of two
  deployments (the properties allow it, since the code does not prevent it),
  but never something that was not deployed while it ran, and leaves none out.
* `SnapshotsAdvance`: a new snapshot never takes a service back to an earlier
  deployment. `SubsequentRequestsUseNewTools`: the sentence of src/README.md:352
  ff., for requests that race a reload. `QuietAgreement`: after failed and
  cancelled reloads too, the map that the next difference starts from is what
  is served. `CleanExit`: status 0 only after a signal, with nothing dropped.
* `Answered`, `Stops`, `Converges`: section 4.
* `FileLoadIsFaithful`: a load that no rewriting in place tears returns exactly
  what one version declares. A torn load can succeed with a set of descriptors
  that no version had: a beginning of the new version that is valid on its own,
  or pieces of two versions that decode as something else. The property says what
  still holds of it: every service that the configuration names and no other, and
  in the first case each as some version of the time of the load had it.
  `PicksUpChanges` is the promise of src/README.md:346: once the file is left alone, loads return it.
* `FirstEligibleWins` ("the first one is kept", src/README.md:139),
  `EveryMethodAccounted`, `ServiceIsClaimed`.
* `SchemaIsUnfolding`: the depth-first construction agrees with a definition of
  the schema that has no order, one position for every way down from the input.
  `NeverOverflows`, `Returns`: only a type that contains itself can exhaust the stack.
* `FindsWhatIsImported`: a search with one visited set for all branches finds
  an extension exactly if it is within reach. `OptionsDecide`: parsed and raw
  options of one record give the same metadata; of an option split into several
  records a raw one loses all but the first, and nothing else is lost or mixed
  up. `AnnotatedIsExplicit`: `--require-tool-annotations` (src/README.md:270)
  shows exactly the methods that have a readable annotation.
* `SentAsGiven`, `RepairCompletes`: the repair changes nothing but quoted lists
  and objects of fields of that shape, and repairs all of them. The exception
  in `RepairCompletes` is a limit of the code: a `StringValue` whose text is a
  JSON object is unwrapped too, and the retry then fails.
* `HeadersForwarded` (src/README.md:105 ff., 407): every non-empty value of the
  configured headers of the call's own request, once and in order; for a header
  of the trace what comes of that request's, or of a new span, in place of it;
  and nothing else. src/README.md:107 says that each matching header is attached;
  it does not mention the two kinds that are not, those that gRPC reserves and
  those that the trace replaces, and the property allows for them.
* `RendersReply`: what is filled shows, what is empty does not, and a template
  fails exactly if it takes a field of something that has none (null, a text, a
  list: src/internal/gateway/gateway_content_template_test.go:100) or ranges over
  what is no list.
* `SecureAsAsked`, `IdentityAsAsked` (src/README.md:208): what the process trusts
  and reports is what command line and environment ask for together.
  `ReleasedInReverse`: what was opened is closed, once and in reverse, on every
  way out of `run`, a panic of the mux among them.

### Findings

1. `retry_without_interval`: after a failed first reload the log says "gateway
   will keep retrying" (`main.go:302`), but with the interval 0 (src/README.md:360)
   nothing retries, and every request is refused for the life of the process. In
   the run the server crashes under the first reload and is up again before the
   gateway begins to serve.
2. `stream_limit`: reflection streams are never closed (`discovery.go:101`). On
   a connection on which the server limits streams they use up the limit, and a
   tool call then ends at its deadline, unsent, with the server up and idle.
   src/README.md:7 says that the gateway invokes the selected RPC.
3. `recursive_message`: an input type that contains itself exhausts the stack
   (`schema.go:87`) and ends the process, at start-up or in a later reload.
   src/README.md:212 says that RPC definitions are exposed 1:1.
4. `content_template`: a place of a template whose field is not set (a message,
   an optional field, a member of a oneof) prints `<no value>`, since the
   template runs on a map without the option `missingkey` (`gateway.go:179`).
   src/README.md:251 says that absent fields render as empty text.

## 4. Fairness

`GatewayFairness` is weak fairness of the gateway's own goroutines and timers:
each goroutine inside `Reload`, the client side of a load, `main`'s steps to
listening, shutdown, its drain and its timeout, the ticker, the end of the
loop, and every request's own steps, its deadline among them. The Go scheduler
runs a goroutine that stays ready, and a timer of the runtime fires; weak
fairness says no more. Nothing is assumed of signals, arriving requests,
failing listeners, crashes, or the server: under `FairSpec` a call or a
reflection stream may never be answered.

* `Answered` relies on `toolCallTimeout` (`CallTimeout = TRUE`, the default is
  30 seconds); it speaks of requests to a server that may stay silent.
* `Stops` relies on the context reaching the load and on the shutdown timeout.
* `Converges` needs a server that recovers and answers. `ServerFairness` is its
  hypothesis, not part of the specification: *if* the server is fair and there
  is a reload interval, the process ends or ends up serving the last
  deployment. The bound on faults makes "the last" exist.
* `KeepsRetrying` is refuted under `HealthySpec`, with a server that is fair as
  well, so that the counterexample is not one of a system that merely stops.

* `PicksUpChanges` assumes of `Discovery` that a loader that has been called goes
  on reading and that it is called again (the ticker of `Cache.Run`; `Gateway`
  has it as a step). Nothing is assumed of whoever writes the file: that it is
  left alone at some version is a hypothesis of the property.

`MessageSchema` (`WF(Step)`, the steps inside `ForMessage`) is a sequential
function: fairness says that it goes on running, so that `Returns` is a
statement about termination. Requests for a next schema are not fair. In
`ToolCall`, that `Invoke` returns is not stated; `Gateway` shows it from the
deadline.

## 5. The proofs

### Tool cache (`ToolCacheProofs`)

For every finite set of callers, every loader and result, any services, names
and width of the version. Assumptions, all in the modules and evaluated by TLC
on its instances: `LoadersAssumption` (loaders return lists of descriptors, and
nil is not a loader), `ToolsAssumption` (services offer sets of names, and the
nil server is not a tool map), `VersionAssumption` (a width of at least two
values), `CallersAssumption` (finitely many goroutines).

| theorem | property |
|---|---|
| `TypeCorrect` | `TypeOK`, on which the others rest |
| `RegistersOwnLoad` | `OwnLoaderOnly` |
| `ReportsTelescope` | `DiffsTelescope` |
| `SequentialAgreement` | `SequentialReloadsAgree` |
| `RefinesCatalog` | `ImplementsCatalog`, i.e. `ASpec => Promise!Spec` |
| `VersionCounts` | `VersionCountsStores` |

The inductive invariant is

    IInv == TypeOK /\ OwnLoaderOnly /\ DiffsTelescope /\ SequentialReloadsAgree

`TypeOK` is not inductive on its own: what a reload registers is a tool map
only because its services came from a loader, which is a conjunct of
`OwnLoaderOnly`. That one says at every moment of a reload that its map is the
first-come catalog of the services done so far. When the last is done this is
`Complete`, so `Store` is a `Publish` of the abstract specification and every
other step a stutter: that is the refinement. `ClaimExtends` is its core, that
one more service on top of a first-come catalog gives a first-come catalog.
`DiffReplays` (a difference leads from the old names to the new) carries
`DiffsTelescope`. `SequentialReloadsAgree` is stated so as to be inductive: it
says for each phase of the only reload in progress which of pointer, map and
log are ahead, and `overlapped` records when there was more than one.

`VersionCounts` needs arithmetic modulo a constant that is not fixed:
`RemainderUnique`, `RemainderTurn` and `RemainderNext` derive from the
definition of `%` what `BumpIsNext` uses, and `VersionStep` shows of each step
that the count of stores and the set of reloads in between move together.

### Schema (`MessageSchemaProofs`)

For any declarations of message types, under `KindsAssumption`,
`TypesAssumption`, `DepthAssumption`: `SchemaTypeCorrect` (`TypeOK`),
`RankedNeverOverflows` (`NeverOverflows`): if the message types, well-known ones
apart, can be ranked 1..MaxDepth with every nested message below the one that
contains it, the recursion never exhausts the stack; and `SchemaIsWhole`
(`SchemaIsUnfolding`): what is returned is the whole schema. `TypeOK` of this
module and of the tool cache is proved and no run of its own checks it.

    IInv == TypeOK /\ CallersAtField /\ DepthByRank /\ NeverOverflows
    SchemaInv == IInv /\ CallersNest /\ BuiltSoFar /\ Finished

`DepthByRank` is the argument for the depth: `rank[stack[k].message] + k <=
MaxDepth + 1` for every frame `k`. A nested call has a smaller rank and one more
frame, so the sum does not grow, and a full stack has a last frame of rank 1,
whose fields can contain nothing more. `CallersAtField` (frames below the last
are at a field) is there for the return, which moves the caller on.

`BuiltSoFar` is the argument for the schema: it has a position for exactly the
ways that are `Behind` the stack, which is itself a way down from the root. A way
is behind if the recursion has gone on to a later field where the two part, or
is further down the same way. A step that adds a field puts one more way behind
(`LeafBehind`, `CallBehind`), a return none (`ReturnBehind`): all that lead
through the field of the call already were. At the end every way is. The proof
does not depend on how long ways may be; `Ways` goes one step beyond the stack, so
that TLC can list them and a way that was cut short would show.

### Registration (`RegisterToolsProofs`)

For any services and methods, under `MethodsAssumption` (a service has a list of
methods, whose names with the prefix are names) and `BatchesAssumption` (a
reload has a list of services).

| theorem | property |
|---|---|
| `RegistersTyped` | `TypeOK` |
| `FirstMethodKeepsName` | `FirstEligibleWins` |
| `NoMethodIsLost` | `EveryMethodAccounted` |
| `LoopIsClaim` | `ServiceIsClaimed` |

    IInv == TypeOK /\ SameNames /\ FirstEligibleWins /\ EveryMethodAccounted /\ ClaimedSoFar

`ClaimedSoFar` is what `ServiceIsClaimed` says when the last method of a service
is done, for the methods before `i`: the map is the one the service was entered
with, and the names of its eligible methods so far that were free. `SameNames`
(the server and the name map hold the same names) is there because the loop
tests one of them and the properties speak of the other. Positions that have had
their turn are the set `Seen`; `Turns` describes it by the two loop indices, and
the lemmas about it say that a step adds exactly the position it is at, whether
or not the service ends with it.

### Discovery (`DiscoveryProofs`)

For any sequence of deployments and of versions of the file, any configured
list, stream limit and number of faults.

| theorem | property |
|---|---|
| `DiscoveryTyped` | `DTypeOK` |
| `LoadsAreRegular` | `LoadIsRegular` |
| `LoadsAreComplete` | `LoadIsComplete` |
| `FileLoadsAreFaithful` | `FileLoadIsFaithful` |

    LoadInv == ReflectionTypeOK /\ RegularInv /\ CompleteInv
    FileInv == FileTypeOK /\ Part(disk, revision) /\ ReaderInv /\ FileLoadIsFaithful
    DiscoveryInv == services \in Filters /\ LoadInv /\ FileInv

* `RegularInv` adds what has been received and the reply on its way: it comes
  from a deployment between the last one that gave a descriptor and now.
* `CompleteInv`: what the load has got and what it has still to ask for are
  together the list it set out with (`Divides`): the cleaned configuration, or
  the listing of the deployment that answered.
* The list itself is a lemma about `ConfiguredLists`: `PickedFacts` says that
  `Picked` takes the members at some positions, all of them and in order;
  `NamesOfFacts` that `NamesOf` therefore has every name mentioned, once, in the
  order of the first mentions. It needs that a non-empty set of numbers has a
  least one (`LeastNumber`), from the well-founded order of the numbers.
* `ReaderInv` is the argument for the file: a reader that is not torn has read a
  beginning of the version it opened, and either that version is still the one
  at the path and written to its end, or it is renamed away and held. Each
  chunk, torn or not, is from a version between the one opened and the present;
  so is each record of a load that has read the beginning of one version
  (`OfOneVersion`). What other pieces decode as is not assumed: that every service
  asked for is there follows from `Loads` whatever the records are.

The invariants are stated of one step of `Reflection` or of `DescriptorFile` and
not of a specification, so that `GatewayProofs` uses the same lemmas for the load
inside the gateway.

### Process (`GatewayProofs`)

For any deployments, requests, configuration, names and width of the version,
and any order of failures, ticks and the signal. Assumptions: those of the cache
and of discovery, `GoroutinesAssumption` (the two goroutines, the one loader),
`ConfigAssumption`.

| theorem | property |
|---|---|
| `OneReloadAtATime` | `ReloadsNeverOverlap` |
| `SnapshotAgrees` | `QuietAgreement` |
| `GatewayTyped` | `GTypeOK` |
| `GatewayLoadsAreRegular` | `LoadIsRegular` |
| `GatewayLoadsAreComplete` | `LoadIsComplete` |
| `StatusIsHonest` | `CleanExit` |
| `RequestsGetNewTools` | `SubsequentRequestsUseNewTools` |
| `SnapshotsAreOrdered` | `SnapshotsAdvance` |
| `GatewayRefinesCatalog` | the gateway implements `Catalog`: `GSpec => Catalogs!Spec` |

Each builds on the ones before.

* `TurnsToReload`: `main` is inside `Reload` only in its phase "reloading", the
  loop only once it has been started, and that is after `main` is through. This
  is inductive and gives `OneReloadAtATime`.
* `AgreeInv` adds `CacheTyped`, `RegularInv` and `Published` (how far a
  publication has brought pointer and tool map). That no other caller is inside
  a reload (`AloneHere`) turns what is said of one caller into what holds of all.
* `CleanInv` adds `NotDropped`: until the process exits no request is dropped,
  and it drains only after the signal. `EndMoves` says that every way to exit
  but `Drained` sets status 1.
* `AgesInv` is the argument for the order of snapshots. `Olds` are the snapshots
  that a later one may be compared with: the one served, the one settled, and
  those that requests know. `Ages` says that they are behind the server's
  deployment, and behind the deployment at which a load in progress began; with
  `LoadIsRegular` what that load returns is therefore not older than any of
  them, and `Registering` keeps this for what a reload registers until it stores
  it. It needs `OneReloadAtATime`: with two loads at once the earlier could be
  stored last.

* `GatewayRefinesCatalog` is stated of the composition and not of the cache with
  loaders that promise something: `Catalogs` is `Catalog` with `LoadResults` for
  what a load may return, the lists that are complete for the configuration, in
  order, with descriptors of their own time. `WantsFilter` and `Holds` follow
  such a list from the load through the registration to the store; that step
  publishes, and every other stutters.

The reflection load and the tool cache are composed in `Gateway` by conjunction,
and so are their invariants here.

### Start (`StartupProofs`)

For any command lines, environments and files. `DialsAsAsked`
(`SecureAsAsked`), `ReportsAsAsked` (`IdentityAsAsked`) and `ClosesInReverse`
(`ReleasedInReverse`). Nothing is assumed of which paths the mux refuses.

`ConfigInv` carries the configuration from `Configure` to the steps that use it
and says that there is no connection before the credentials are as asked for;
`TLSValue`, `TextValue` and `NameValue` compare what the parser makes of a flag
with what the user said of it. `ReleaseInv` says that the deferred calls are
what has been opened and not yet released, the last one first.

### Annotations (`AnnotationsProofs`)

For any files importing each other in any way, cycles included (the run has the
acyclic ones), any declared extensions and any records. `SearchIsExhaustive`
(`FindsWhatIsImported`), `OptionsAreObeyed` (`OptionsDecide`), `AnnotatedIsAsked`
(`AnnotatedIsExplicit`).

* `SearchInv`: as long as nothing is found, no file seen declares the option, and
  every import of a file seen is seen itself, or is the argument of the call in
  progress (`Pending`), or is still ahead of an active call (`Ahead`). When the
  stack is empty nothing is pending or ahead, so the files seen are closed under
  imports; `Reachable` is contained in every such set, and the search has missed
  nothing.
* `DataInv`: the metadata is what the options decide whose lookups are over
  (`Decided(meta, Past)`); `Past` grows by one with every `Finish`. In between,
  the records passed in a scan are of other options.

### Tool calls (`ToolCallProofs`)

For any number of concurrent calls, any configured headers, input types,
arguments, replies and templates, under `ScenariosAssumption` and
`HeadersAssumption` (the tracing layers propagate headers that gRPC sends).

| theorem | property |
|---|---|
| `TypeCorrect` | `TypeOK` |
| `OwnHeaders` | `HeadersForwarded` |
| `ArgumentsAsGiven` | `SentAsGiven` |
| `RepairSucceeds` | `RepairCompletes` |
| `TextOfReply` | `RendersReply` |

    Good(list, c) == TypeInv(c) /\ HeadersInv(list, c) /\ RepairInv(c) /\ MessageInv(c) /\ ReplyInv(c)
    Inv == configured \in Seq(Entries(Headers)) /\ \A r \in Calls : Good(configured, call[r])

What a call holds depends on no other call: `OneMoves` turns each action into a
statement about one record. `HeadersInv` keeps what was collected for the call's
own request and that its trace is taken from the headers of that request;
`CollectedFacts` says that the former is every non-empty value once, since the
cleaned list has every header once (`KeptOnce`). From that the headers that `Send`
attaches follow, whichever the tracing layer injects. `RepairInv` is needed for the
two loops: a name of the payload holds its last value or that value unquoted
(`Unwrapped`), and for every spelling tried nothing is left that its field would
take, unless the field is given under its other name too (`Settled`), which
decodes in no form. `RepairDecodes` draws the conclusion. It rests on a conjunct
of `ScenariosAssumption`: no two fields of a message share a spelling. protoc
guarantees it; without it the order of the fields would decide which of them a
value is repaired for.

### Only model-checked

Every invariant and every action property that a run checks is proved. The
liveness properties are not (`Answered`, `Stops`, `Converges`, `PicksUpChanges`,
`Returns`): the prover does not handle fairness and `ENABLED`. Nor are, being
refuted, those of the findings.

Induction over a recursive definition is out of the prover's reach. Where a proof
would have needed one, the model says the same without recursion: `Picked` by
the rank of a position, `Reachable` by the sets closed under imports, `Unfolding`
by the ways down. Induction over numbers is used in one form, that every
non-empty set of them has a least.

## 6. What is not modelled

* **Descriptor file**: that `os.ReadFile` cannot be interrupted. A signal does
  not end a load from a file system that hangs; the loader has no context.
* **Reflection**: the ways in which descriptors fail to decode or to link, which
  are one outcome here.
* **Start**: the parser of flags and its help and version commands; which paths
  the mux refuses (`Clashes` is any set of pairs, the run has one path it cannot
  parse and two that conflict); whether a key fits its certificate, which counts as a bad file.
* **Tool calls**: nested messages and `Any` in arguments are not told apart, nor
  are numbers by width. How a template formats numbers: they are float64 by
  then, and from a million up print in scientific notation. A client that
  disconnects during a call.
* **Annotations**: the values of options, beyond the record they came from;
  the fallback names of methods without one.
* **MCP HTTP handler**: the SDK's framing and sessions. A request is one
  `tools/call`.
* **Telemetry**: the contents of spans, metrics and log lines, except the report
  of a reload. Set-up, shutdown and what is propagated from a request to its call
  are modelled; how the layers parse trace context and baggage is not: they take
  what they can read.
* **Examples, generated code**: not part of the gateway; the downstream server
  is modelled from how the gateway uses it.

## 7. Plan

Done, in this order: the cache with its abstract specification and proofs;
discovery; the process that composes them; registration, connected to the
cache by `ServiceIsClaimed`; schema with proofs; annotations; tool calls with
headers and templates; the descriptor file as a second loader; the start; proofs
about registration, discovery, the process and the start; proofs about
annotations, tool calls, both loaders in full and the whole schema; the
refinement of the catalog by the whole gateway.

Next, models:

1. `Gateway` over `Discovery` instead of `Reflection`: reloads from a file, which
   the context does not reach, against the signal; then `Stops` needs that
   reads return.
2. Schema against decoder: does what `MessageSchema` allows decode in
   `ToolCall`, for wrappers, `Any`, and well-known types as the input itself.
3. A client that disconnects: its context ends the call, but not the drain.

Next, theorems:

1. `RegisterTools` implements the step `RegisterService` of `ToolCache`, as a
   refinement with the loop's variables mapped away; so far `LoopIsClaim` says it
   of the map.
2. `Discovery` implements an abstract loader: one step that returns a list of
   `LoadResults`, or fails.
3. What safety there is in the liveness properties: that a request that has
   ended stays ended, that the process does not come back from its exit, and
   that the fair actions are those that can still be taken.
