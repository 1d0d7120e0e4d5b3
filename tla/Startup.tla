------------------------------- MODULE Startup -------------------------------
(***************************************************************************)
(* cmd/mcp-grpc-gateway/main.go: one start of the gateway, from its        *)
(* command line and environment to the endpoint it serves, and back        *)
(* through its deferred calls to the exit.  With telemetry.Setup           *)
(* (telemetry.go), the credentials of the connection, the choice of the    *)
(* loader and the identity of the MCP server (NewServer, gateway.go).      *)
(* What happens while it serves is in Gateway.                             *)
(*                                                                         *)
(* The value of a flag is the string it is given.  A path is told apart by  *)
(* whether it begins with a slash, a file by what becomes of it when it is *)
(* read.                                                                   *)
(***************************************************************************)
EXTENDS Naturals, Sequences

CONSTANTS
    CommandLines,  \* what is given: functions from some flags to values
    Environments,  \* what is set: functions from some flags of FromEnv
    Files,         \* what may become of files: functions from the names in
                   \* use to "good", "unreadable" and "not PEM"
    NotDurations,  \* the values time.ParseDuration rejects
    Rooted,        \* the paths that begin with a slash
    Slash,         \* Slash[p]: the path p, which does not, after a slash
    Clashes        \* the pairs of paths that ServeMux does not take together:
                   \* one is no pattern, or both match the same requests

Durations == {"reload-interval", "tool-call-timeout"}
Switches == {"grpc-tls", "otel-insecure", "require-tool-annotations"}
FromEnv ==
    {"health-path", "grpc-tls", "grpc-ca-file", "grpc-client-cert-file",
     "grpc-client-key-file", "grpc-server-name", "proto-descriptor", "tool-call-timeout",
     "mcp-name", "mcp-title", "mcp-version", "mcp-instructions", "mcp-website-url"}
Flags == FromEnv \cup Durations \cup Switches \cup
    {"addr", "grpc-host", "service", "path", "log-level", "log-format", "otel-endpoint",
     "forward-header"}

Default(f) ==
    CASE f = "addr" -> "127.0.0.1:8080"
      [] f = "path" -> "/mcp"
      [] f = "health-path" -> "/health"
      [] f = "reload-interval" -> "1m"
      [] f = "tool-call-timeout" -> "30s"
      [] f = "log-level" -> "info"
      [] f = "log-format" -> "text"
      [] f = "mcp-name" -> "mcp-grpc-gateway"
      [] f = "mcp-version" -> "dev"
      [] f \in Switches -> "false"
      [] OTHER -> ""

PathFlags == {"path", "health-path"}

ASSUME InputsAssumption ==
    /\ \A g \in CommandLines : DOMAIN g \subseteq Flags
    /\ \A e \in Environments : DOMAIN e \subseteq FromEnv

VARIABLES
    given,     \* the command line
    env,       \* the environment
    files,     \* what becomes of the files
    phase,     \* where run() is
    cfg,       \* the config: flag to value
    creds,     \* the transport credentials of the connection
    loader,    \* "file" or "reflection"
    identity,  \* name and version of the MCP server
    acquired,  \* history: what was opened, in order
    deferred,  \* the deferred calls, the last one first
    released,  \* history: what they closed, in order
    signalled, \* a signal has come
    status     \* the exit status

vars == <<given, env, files, phase, cfg, creds, loader, identity,
          acquired, deferred, released, signalled, status>>
inputs == <<given, env, files>>
held == <<acquired, deferred, released>>

Insecure == [tls |-> FALSE, roots |-> "", cert |-> "", key |-> "", name |-> ""]
Unnamed == [name |-> "", version |-> ""]

Init ==
    /\ given \in CommandLines
    /\ env \in Environments
    /\ files \in Files
    /\ phase = "parse"
    /\ cfg = [f \in Flags |-> ""]
    /\ creds = Insecure
    /\ loader = "none"
    /\ identity = Unnamed
    /\ acquired = <<>> /\ deferred = <<>> /\ released = <<>>
    /\ signalled = FALSE
    /\ status = 0
------------------------------------------------------------------------------
\* The command line wins over the environment, and that over the default; an
\* empty variable is a value of a string, no value of a duration, and false.
\* Mutant: the environment wins.
ValueEnvFirst(f) ==
    IF f \in DOMAIN env THEN env[f] ELSE IF f \in DOMAIN given THEN given[f] ELSE Default(f)

Value(f) ==
    IF f \in DOMAIN given THEN given[f]
    ELSE IF f \notin DOMAIN env \/ (env[f] = "" /\ f \in Durations) THEN Default(f)
    ELSE IF env[f] = "" /\ f \in Switches THEN "false"
    ELSE env[f]

Parses == \A f \in Durations : Value(f) \notin NotDurations

\* normalizeHTTPPath
Normalized(path, fallback) ==
    LET p == IF path = "" THEN fallback ELSE path
    IN  IF p \in Rooted THEN p ELSE Slash[p]

\* configFromCommand
Config ==
    [f \in Flags |-> CASE f = "path" -> Normalized(Value(f), "/mcp")
                       [] f = "health-path" -> Normalized(Value(f), "/health")
                       [] OTHER -> Value(f)]

Valid(c) == c["grpc-host"] # "" /\ c["path"] # c["health-path"]

Configure ==
    /\ phase = "parse"
    /\ Parses /\ Valid(Config)
    /\ cfg' = Config
    /\ phase' = "telemetry"
    /\ UNCHANGED <<inputs, creds, loader, identity, held, signalled, status>>

\* return err: the deferred calls run, then main exits with status 1.
Return(code) ==
    /\ phase' = "returning"
    /\ status' = code
    /\ UNCHANGED <<inputs, cfg, creds, loader, identity, held, signalled>>

ConfigureFails == phase = "parse" /\ ~(Parses /\ Valid(Config)) /\ Return(1)
------------------------------------------------------------------------------
Acquire(what) == acquired' = Append(acquired, what) /\ UNCHANGED released
Defer(what) == deferred' = <<what>> \o deferred

OrDefault(value, fallback) == IF value = "" THEN fallback ELSE value

LogsAs(level, format) ==
    /\ OrDefault(level, "info") \in {"debug", "info", "warn", "error"}
    /\ OrDefault(format, "text") \in {"text", "json"}

\* telemetry.Setup, which exports only to an endpoint that is configured.
SetUpTelemetry ==
    /\ phase = "telemetry"
    /\ LogsAs(cfg["log-level"], cfg["log-format"])
    /\ IF cfg["otel-endpoint"] # "" THEN Acquire("exporter") /\ Defer("exporter")
       ELSE UNCHANGED held
    /\ phase' = "dial"
    /\ UNCHANGED <<inputs, cfg, creds, loader, identity, signalled, status>>

SetUpFails ==
    /\ phase = "telemetry"
    /\ cfg["otel-endpoint"] # "" \/ ~LogsAs(cfg["log-level"], cfg["log-format"])
    /\ Return(1)

\* grpcTLSConfig: half a key pair is refused, and every file must be good.
Loadable(name) == name # "" => files[name] = "good"

\* Mutant: a bundle without certificates leaves the roots of the system.
TLSConfigLenient(c) ==
    /\ (c["grpc-client-cert-file"] = "") = (c["grpc-client-key-file"] = "")
    /\ c["grpc-ca-file"] # "" => files[c["grpc-ca-file"]] # "unreadable"
    /\ Loadable(c["grpc-client-cert-file"]) /\ Loadable(c["grpc-client-key-file"])

TLSConfigLoads(c) ==
    /\ (c["grpc-client-cert-file"] = "") = (c["grpc-client-key-file"] = "")
    /\ Loadable(c["grpc-ca-file"])
    /\ Loadable(c["grpc-client-cert-file"]) /\ Loadable(c["grpc-client-key-file"])

\* The certificates of the bundle; none, the roots of the system.
Roots(file) == IF file # "" /\ files[file] = "good" THEN file ELSE "system"

DialOptions ==
    /\ phase = "dial"
    /\ cfg["grpc-tls"] = "true" => TLSConfigLoads(cfg)
    /\ creds' = IF cfg["grpc-tls"] # "true" THEN Insecure
                ELSE [tls |-> TRUE, roots |-> Roots(cfg["grpc-ca-file"]),
                      cert |-> cfg["grpc-client-cert-file"], key |-> cfg["grpc-client-key-file"],
                      name |-> cfg["grpc-server-name"]]
    /\ phase' = "client"
    /\ UNCHANGED <<inputs, cfg, loader, identity, held, signalled, status>>

DialOptionsFail ==
    /\ phase = "dial"
    /\ cfg["grpc-tls"] = "true" /\ ~TLSConfigLoads(cfg)
    /\ Return(1)

\* grpc.NewClient; the options of the cache, with its loader.
NewClient ==
    /\ phase = "client"
    /\ Acquire("conn") /\ Defer("conn")
    /\ loader' = IF cfg["proto-descriptor"] # "" THEN "file" ELSE "reflection"
    /\ phase' = "reload"
    /\ UNCHANGED <<inputs, cfg, creds, identity, signalled, status>>

NewClientFails == phase = "client" /\ Return(1)

\* NewServer, in a reload that succeeds.
Reload ==
    /\ phase = "reload"
    /\ \/ identity' = [name |-> OrDefault(cfg["mcp-name"], "mcp-grpc-gateway"),
                       version |-> OrDefault(cfg["mcp-version"], "dev")]
       \/ ~signalled /\ UNCHANGED identity
    /\ phase' = "listen"
    /\ UNCHANGED <<inputs, cfg, creds, loader, held, signalled, status>>

ReloadCancelled == phase = "reload" /\ signalled /\ Return(1)

Routes == <<cfg["path"], cfg["health-path"]>>

\* mux.Handle panics; the deferred calls run, and the process ends.
RoutesPanic == phase = "listen" /\ Routes \in Clashes /\ Return(2)

\* The routes, net.Listen, and Serve, which closes the listener in the end.
Listen ==
    /\ phase = "listen" /\ Routes \notin Clashes
    /\ phase' = "serving"
    /\ UNCHANGED <<inputs, cfg, creds, loader, identity, held, signalled, status>>

\* Mutant: the process is ended where the error comes up.
ListenFatal ==
    /\ phase = "listen" /\ Routes \notin Clashes
    /\ phase' = "exited"
    /\ status' = 1
    /\ UNCHANGED <<inputs, cfg, creds, loader, identity, held, signalled>>

ListenFails == phase = "listen" /\ Routes \notin Clashes /\ Return(1)

ServeEnds ==
    /\ phase = "serving"
    /\ \/ Return(1)
       \/ signalled /\ Return(0)

Signal ==
    /\ ~signalled
    /\ phase \notin {"returning", "exited"}
    /\ signalled' = TRUE
    /\ UNCHANGED <<inputs, phase, cfg, creds, loader, identity, held, status>>

\* conn.Close, and then the shutdown of telemetry.
RunDeferred ==
    /\ phase = "returning"
    /\ deferred # <<>>
    /\ released' = Append(released, Head(deferred))
    /\ deferred' = Tail(deferred)
    /\ UNCHANGED <<inputs, phase, cfg, creds, loader, identity, acquired, signalled, status>>

Exit ==
    /\ phase = "returning"
    /\ deferred = <<>>
    /\ phase' = "exited"
    /\ UNCHANGED <<inputs, cfg, creds, loader, identity, held, signalled, status>>

Next ==
    \/ Configure \/ ConfigureFails \/ SetUpTelemetry \/ SetUpFails
    \/ DialOptions \/ DialOptionsFail \/ NewClient \/ NewClientFails
    \/ Reload \/ ReloadCancelled \/ RoutesPanic \/ Listen \/ ListenFails
    \/ ServeEnds \/ Signal \/ RunDeferred \/ Exit

Spec == Init /\ [][Next]_vars
------------------------------------------------------------------------------
\* The last word of the user on a flag, "" if there is none.
Asked(f) ==
    IF f \in DOMAIN given THEN given[f] ELSE IF f \in DOMAIN env THEN env[f] ELSE ""

\* "CLI flags override environment variables": there is no connection but with
\* the credentials asked for.  One with TLS trusts the bundle asked for and
\* nothing else, shows the whole key pair asked for or none, and none is made
\* if a file is bad; without TLS asked for there is none.
SecureAsAsked ==
    "conn" \in {acquired[i] : i \in DOMAIN acquired} =>
        IF Asked("grpc-tls") # "true" THEN ~creds.tls
        ELSE /\ creds.tls
             /\ creds.roots = OrDefault(Asked("grpc-ca-file"), "system")
             /\ creds.cert = Asked("grpc-client-cert-file")
             /\ creds.key = Asked("grpc-client-key-file")
             /\ (creds.cert = "") <=> (creds.key = "")
             /\ creds.name = Asked("grpc-server-name")

\* "By default, the gateway reports `mcp-grpc-gateway` as the MCP server name
\* and `dev` as the version": also if a flag or a variable is given empty, and
\* otherwise what the command line, or else the environment, says.
IdentityAsAsked ==
    identity # Unnamed =>
        /\ identity.name = OrDefault(Asked("mcp-name"), "mcp-grpc-gateway")
        /\ identity.version = OrDefault(Asked("mcp-version"), "dev")

\* However the process ends, by an error, a signal or the panic of the mux over
\* its routes, what it opened is closed before, each once and the last first:
\* the connection before the exporter, which takes the spans of the calls that
\* the closing cuts off.
ReleasedInReverse ==
    phase = "exited" =>
        /\ Len(released) = Len(acquired)
        /\ \A i \in DOMAIN released : released[i] = acquired[Len(acquired) + 1 - i]
==============================================================================
