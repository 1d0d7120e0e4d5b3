------------------------------ MODULE MCStartup ------------------------------
(* Command lines and environments that vary one group of flags at a time:    *)
(* the paths, the credentials, the identity, logging and telemetry, and the  *)
(* values that do not parse or are missing.  And patterns that the mux       *)
(* refuses: two that match the same requests, and one that is none.          *)
EXTENDS Startup, TLC

\* The functions from some of S, each to some of its values.
Some(S, values) == UNION {[D -> values] : D \in SUBSET S}
WithHost(lines) == {("grpc-host" :> "host:50051") @@ g : g \in lines}

Paths == Some({"path", "health-path"}, {"", "mcp", "/mcp", "/health"})
CredentialFlags ==
    {g @@ f : g \in Some({"grpc-tls"}, {"true", "false"}),
              f \in Some({"grpc-client-cert-file"}, {"", "cert"})}
Patterns == {("path" :> "/{a}") @@ ("health-path" :> "/{b}"), ("path" :> "/{")}
Credentials ==
    {("grpc-ca-file" :> "ca") @@ g : g \in CredentialFlags} \cup CredentialFlags
Identities == Some({"mcp-name", "mcp-version"}, {"", "orders"})
Logging == Some({"log-level", "log-format", "otel-endpoint"}, {"", "text", "debug"})
Timing == Some(Durations, {"10s", "soon"})

MCCommandLines ==
    {("path" :> "/mcp")} \cup WithHost(Paths \cup Patterns \cup Credentials \cup Identities \cup Logging
        \cup Timing \cup {"proto-descriptor" :> "descriptors.binpb"})

MCEnvironments ==
    Some({"health-path"}, {"", "mcp"})
    \cup {("grpc-tls" :> "true") @@ g :
            g \in Some({"grpc-client-cert-file", "grpc-client-key-file", "grpc-ca-file"}, {"cert"})}
    \cup {("grpc-tls" :> ""), ("grpc-server-name" :> "api") @@ ("grpc-tls" :> "true")}
    \cup Some({"mcp-name"}, {"", "users"})
    \cup Some({"tool-call-timeout"}, {"", "soon"})

MCFiles == [{"ca", "cert"} -> {"good", "unreadable", "not PEM"}]
MCRooted == {"/mcp", "/health", "/{a}", "/{b}", "/{"}
MCClashes == {<<p, p>> : p \in MCRooted} \cup {<<"/{a}", "/{b}">>} \cup {<<"/{", p>> : p \in MCRooted}
MCSlash == [p \in {"mcp"} |-> "/" \o p]
MCNotDurations == {"", "soon"}
==============================================================================
