---------------------------- MODULE StartupProofs -----------------------------
(***************************************************************************)
(* Theorems about one start of the gateway, for any command lines,         *)
(* environments and files.                                                 *)
(***************************************************************************)
EXTENDS Startup, TLAPS

Configured == {"telemetry", "dial", "client", "reload", "listen", "serving"}
HasConn == "conn" \in {acquired[i] : i \in DOMAIN acquired}

CredentialsAsAsked ==
    IF Asked("grpc-tls") # "true" THEN ~creds.tls
    ELSE /\ creds.tls
         /\ creds.roots = OrDefault(Asked("grpc-ca-file"), "system")
         /\ creds.cert = Asked("grpc-client-cert-file")
         /\ creds.key = Asked("grpc-client-key-file")
         /\ (creds.cert = "") <=> (creds.key = "")
         /\ creds.name = Asked("grpc-server-name")

\* What the steps up to the connection leave for those after them.
ConfigInv ==
    /\ phase \in Configured => cfg = Config
    /\ phase \in {"parse", "telemetry", "dial", "client"} => ~HasConn
    /\ phase = "client" => CredentialsAsAsked
    /\ acquired \in Seq({"exporter", "conn"})
    /\ SecureAsAsked
    /\ IdentityAsAsked

------------------------------------------------------------------------------
\* What the parser makes of a flag, compared with what the user said of it.
LEMMA TLSValue == (Value("grpc-tls") = "true") <=> (Asked("grpc-tls") = "true")
  BY DEF Value, Asked, Default, Durations, Switches

LEMMA TextValue ==
  ASSUME NEW f \in {"grpc-ca-file", "grpc-client-cert-file", "grpc-client-key-file", "grpc-server-name"}
  PROVE  Value(f) = Asked(f)
  BY DEF Value, Asked, Default, Durations, Switches

LEMMA NameValue ==
  /\ OrDefault(Value("mcp-name"), "mcp-grpc-gateway") = OrDefault(Asked("mcp-name"), "mcp-grpc-gateway")
  /\ OrDefault(Value("mcp-version"), "dev") = OrDefault(Asked("mcp-version"), "dev")
  BY DEF Value, Asked, Default, Durations, Switches, OrDefault

LEMMA ConfigValue ==
  ASSUME NEW f \in Flags \ PathFlags
  PROVE  Config[f] = Value(f)
  BY DEF Config, PathFlags

LEMMA FlagsUsed ==
  {"grpc-tls", "grpc-ca-file", "grpc-client-cert-file", "grpc-client-key-file", "grpc-server-name",
   "mcp-name", "mcp-version"} \subseteq Flags \ PathFlags
  BY DEF Flags, FromEnv, PathFlags

\* The credentials that dialOptions builds are those asked for.
LEMMA DialStep ==
  ASSUME ConfigInv, DialOptions
  PROVE  CredentialsAsAsked'
  <1>1. /\ cfg = Config /\ UNCHANGED inputs
        /\ cfg["grpc-tls"] = "true" => TLSConfigLoads(cfg)
        /\ creds' = IF cfg["grpc-tls"] # "true" THEN Insecure
                ELSE [tls |-> TRUE, roots |-> Roots(cfg["grpc-ca-file"]),
                      cert |-> cfg["grpc-client-cert-file"], key |-> cfg["grpc-client-key-file"],
                      name |-> cfg["grpc-server-name"]]
    BY DEF DialOptions, ConfigInv, Configured
  <1>2. \A f : Asked(f)' = Asked(f)
    BY <1>1 DEF Asked, inputs
  <1>3. /\ (cfg["grpc-tls"] = "true") <=> (Asked("grpc-tls") = "true")
        /\ \A f \in {"grpc-ca-file", "grpc-client-cert-file", "grpc-client-key-file", "grpc-server-name"} :
              cfg[f] = Asked(f)
    BY <1>1, ConfigValue, FlagsUsed, TLSValue, TextValue
  <1>4. CASE Asked("grpc-tls") # "true"
    BY <1>1, <1>2, <1>3, <1>4 DEF CredentialsAsAsked, Insecure
  <1>5. CASE Asked("grpc-tls") = "true"
    <2>1. TLSConfigLoads(cfg)
      BY <1>1, <1>3, <1>5
    <2>2. Roots(cfg["grpc-ca-file"]) = OrDefault(cfg["grpc-ca-file"], "system")
      BY <2>1 DEF TLSConfigLoads, Loadable, Roots, OrDefault
    <2>3. (cfg["grpc-client-cert-file"] = "") <=> (cfg["grpc-client-key-file"] = "")
      BY <2>1 DEF TLSConfigLoads
    <2>4. /\ creds'.tls /\ creds'.roots = OrDefault(Asked("grpc-ca-file"), "system")
          /\ creds'.cert = Asked("grpc-client-cert-file")
          /\ creds'.key = Asked("grpc-client-key-file")
          /\ creds'.name = Asked("grpc-server-name")
      BY <1>1, <1>3, <1>5, <2>2
    <2>. QED BY <1>2, <1>3, <1>5, <2>3, <2>4 DEF CredentialsAsAsked, OrDefault
  <1>. QED BY <1>4, <1>5

LEMMA KeepsInputs ==
  ASSUME [Next]_vars
  PROVE  /\ UNCHANGED inputs
         /\ \A f : Asked(f)' = Asked(f) /\ Value(f)' = Value(f)
         /\ Config' = Config
  <1>1. UNCHANGED inputs
    BY DEF Next, vars, inputs, Configure, ConfigureFails, SetUpTelemetry, SetUpFails, DialOptions,
       DialOptionsFail, NewClient, NewClientFails, Reload, ReloadCancelled, RoutesPanic,
       Listen, ListenFails, ServeEnds, Signal, RunDeferred, Exit, Return
  <1>2. \A f : Asked(f)' = Asked(f) /\ Value(f)' = Value(f)
    BY <1>1 DEF Asked, Value, inputs
  <1>. QED BY <1>1, <1>2 DEF Config

------------------------------------------------------------------------------
\* What each step does to what is held open, and which of them touch the
\* credentials and the identity.
LEMMA Steps ==
  ASSUME [Next]_vars
  PROVE  /\ \/ UNCHANGED acquired
            \/ SetUpTelemetry /\ acquired' = Append(acquired, "exporter")
            \/ NewClient /\ acquired' = Append(acquired, "conn")
         /\ creds' = creds \/ DialOptions
         /\ identity' = identity \/ Reload
         /\ phase' \in Configured =>
               \/ cfg' = cfg /\ (phase \in Configured)
               \/ cfg' = Config
         /\ phase' \in {"parse", "telemetry", "dial", "client"} =>
               phase \in {"parse", "telemetry", "dial", "client"} /\ ~NewClient
         /\ phase' = "client" => DialOptions \/ (phase = "client" /\ UNCHANGED creds)
  <1>1. CASE Configure
    BY <1>1 DEF Configure, held, Configured, NewClient, DialOptions
  <1>2. CASE SetUpTelemetry
    BY <1>2 DEF SetUpTelemetry, Acquire, held, Configured, NewClient, DialOptions
  <1>3. CASE DialOptions
    BY <1>3 DEF DialOptions, held, Configured, NewClient
  <1>4. CASE NewClient
    BY <1>4 DEF NewClient, Acquire, Configured, DialOptions
  <1>5. CASE Reload
    BY <1>5 DEF Reload, held, Configured, NewClient, DialOptions
  <1>6. CASE Listen \/ RunDeferred \/ Exit
    BY <1>6 DEF Listen, RunDeferred, Exit, held, Configured, NewClient, DialOptions
  <1>7. CASE Signal
    BY <1>7 DEF Signal, held, Configured, NewClient, DialOptions
  <1>8. ASSUME NEW code, Return(code)
        PROVE  UNCHANGED <<acquired, creds, identity>> /\ phase' = "returning"
    BY <1>8 DEF Return, held
  <1>9. CASE \/ ConfigureFails \/ SetUpFails \/ DialOptionsFail \/ NewClientFails
             \/ ReloadCancelled \/ RoutesPanic \/ ListenFails \/ ServeEnds
    <2>1. UNCHANGED <<acquired, creds, identity>> /\ phase' = "returning"
      BY <1>8, <1>9 DEF ConfigureFails, SetUpFails, DialOptionsFail, NewClientFails,
         ReloadCancelled, RoutesPanic, ListenFails, ServeEnds
    <2>. QED BY <2>1 DEF Configured
  <1>10. CASE UNCHANGED vars
    BY <1>10 DEF vars, Configured, NewClient, DialOptions
  <1>. QED BY <1>1, <1>2, <1>3, <1>4, <1>5, <1>6, <1>7, <1>9, <1>10 DEF Next

LEMMA ConfigStep ==
  ASSUME ConfigInv, [Next]_vars
  PROVE  ConfigInv'
  <1>1. phase' \in Configured => cfg' = Config'
    BY Steps, KeepsInputs DEF ConfigInv
  <1>2. acquired \in Seq({"exporter", "conn"})
    BY DEF ConfigInv
  <1>3. acquired' \in Seq({"exporter", "conn"})
    BY <1>2, Steps
  <1>4. HasConn' => HasConn \/ NewClient
    <2>1. CASE acquired' = acquired
      BY <2>1 DEF HasConn
    <2>2. CASE acquired' = Append(acquired, "exporter")
      BY <1>2, <2>2 DEF HasConn
    <2>. QED BY <2>1, <2>2, Steps
  <1>5. phase' \in {"parse", "telemetry", "dial", "client"} => ~HasConn'
    BY <1>4, Steps DEF ConfigInv
  <1>6. CredentialsAsAsked /\ UNCHANGED creds => CredentialsAsAsked'
    BY KeepsInputs DEF CredentialsAsAsked
  <1>7. phase' = "client" => CredentialsAsAsked'
    BY <1>6, Steps, DialStep DEF ConfigInv
  <1>8. SecureAsAsked'
    <2>1. SUFFICES HasConn' => CredentialsAsAsked'
      BY DEF SecureAsAsked, HasConn, CredentialsAsAsked
    <2>2. CASE NewClient
      BY <1>6, <2>2 DEF ConfigInv, NewClient
    <2>3. CASE HasConn
      <3>1. CredentialsAsAsked
        BY <2>3 DEF ConfigInv, SecureAsAsked, HasConn, CredentialsAsAsked
      <3>2. ~DialOptions
        BY <2>3 DEF ConfigInv, DialOptions
      <3>. QED BY <1>6, <3>1, <3>2, Steps
    <2>. QED BY <1>4, <2>2, <2>3
  <1>9. IdentityAsAsked'
    <2>1. CASE identity' = identity
      BY <2>1, KeepsInputs DEF ConfigInv, IdentityAsAsked
    <2>2. CASE identity' = [name |-> OrDefault(cfg["mcp-name"], "mcp-grpc-gateway"),
                            version |-> OrDefault(cfg["mcp-version"], "dev")] /\ phase = "reload"
      <3>1. cfg["mcp-name"] = Value("mcp-name") /\ cfg["mcp-version"] = Value("mcp-version")
        BY <2>2, ConfigValue, FlagsUsed DEF ConfigInv, Configured
      <3>2. /\ identity'.name = OrDefault(Value("mcp-name"), "mcp-grpc-gateway")
            /\ identity'.version = OrDefault(Value("mcp-version"), "dev")
        BY <2>2, <3>1
      <3>. QED BY <3>2, NameValue, KeepsInputs DEF IdentityAsAsked, OrDefault
    <2>. QED BY <2>1, <2>2, Steps DEF Reload
  <1>. QED BY <1>1, <1>3, <1>5, <1>7, <1>8, <1>9 DEF ConfigInv

LEMMA ConfigHolds == Spec => []ConfigInv
  <1>1. Init => ConfigInv
    <2> SUFFICES ASSUME Init PROVE ConfigInv
      OBVIOUS
    <2>1. acquired = <<>> /\ identity = Unnamed /\ phase = "parse"
      BY DEF Init
    <2>2. ~HasConn /\ acquired \in Seq({"exporter", "conn"})
      BY <2>1 DEF HasConn
    <2>3. SecureAsAsked /\ IdentityAsAsked
      BY <2>1, <2>2 DEF SecureAsAsked, HasConn, IdentityAsAsked
    <2>. QED BY <2>1, <2>2, <2>3 DEF ConfigInv, Configured
  <1>. QED BY <1>1, ConfigStep, PTL DEF Spec

\* For any command line, environment and files: no connection is made but with
\* the credentials that were asked for.
THEOREM DialsAsAsked == Spec => []SecureAsAsked
  <1>1. ConfigInv => SecureAsAsked
    BY DEF ConfigInv
  <1>. QED BY <1>1, ConfigHolds, PTL

\* For any command line and environment: the server's name and version are those
\* asked for, or the documented ones where nothing or an empty text was given.
THEOREM ReportsAsAsked == Spec => []IdentityAsAsked
  <1>1. ConfigInv => IdentityAsAsked
    BY DEF ConfigInv
  <1>. QED BY <1>1, ConfigHolds, PTL

------------------------------------------------------------------------------
\* What is deferred mirrors what is open and not yet released.
ReleaseInv ==
    /\ acquired \in Seq({"exporter", "conn"})
    /\ deferred \in Seq({"exporter", "conn"})
    /\ released \in Seq({"exporter", "conn"})
    /\ Len(deferred) + Len(released) = Len(acquired)
    /\ phase \notin {"returning", "exited"} => released = <<>>
    /\ phase = "exited" => deferred = <<>>
    /\ \A i \in 1..Len(released) : released[i] = acquired[Len(acquired) + 1 - i]
    /\ \A i \in 1..Len(deferred) : deferred[i] = acquired[Len(deferred) + 1 - i]

LEMMA HeldMoves ==
  ASSUME [Next]_vars
  PROVE  \/ \E what \in {"exporter", "conn"} :
               Acquire(what) /\ Defer(what) /\ phase \in Configured /\ phase' \in Configured
         \/ RunDeferred
         \/ UNCHANGED held /\ (phase' = "exited" => phase = "exited" \/ deferred = <<>>)
            /\ (phase \in {"returning", "exited"} => phase' \in {"returning", "exited"})
  <1>1. CASE SetUpTelemetry \/ NewClient
    BY <1>1 DEF SetUpTelemetry, NewClient, Configured, held
  <1>2. CASE Configure \/ DialOptions \/ Reload \/ Listen \/ Signal \/ Exit
    BY <1>2 DEF Configure, DialOptions, Reload, Listen, Signal, Exit
  <1>3. ASSUME NEW code, Return(code)
        PROVE  UNCHANGED held /\ phase' = "returning"
    BY <1>3 DEF Return
  <1>4. CASE \/ ConfigureFails \/ SetUpFails \/ DialOptionsFail \/ NewClientFails
             \/ ReloadCancelled \/ RoutesPanic \/ ListenFails \/ ServeEnds
    BY <1>3, <1>4 DEF ConfigureFails, SetUpFails, DialOptionsFail, NewClientFails,
       ReloadCancelled, RoutesPanic, ListenFails, ServeEnds
  <1>5. CASE UNCHANGED vars
    BY <1>5 DEF vars, held
  <1>. QED BY <1>1, <1>2, <1>4, <1>5 DEF Next

LEMMA ReleaseStep ==
  ASSUME ReleaseInv, [Next]_vars
  PROVE  ReleaseInv'
  <1> DEFINE What == {"exporter", "conn"}
  <1>1. /\ acquired \in Seq(What) /\ deferred \in Seq(What) /\ released \in Seq(What)
        /\ Len(deferred) + Len(released) = Len(acquired)
    BY DEF ReleaseInv
  <1>2. ASSUME NEW what \in What, Acquire(what), Defer(what),
               phase \in Configured, phase' \in Configured
        PROVE  ReleaseInv'
    <2>1. /\ acquired' = Append(acquired, what) /\ deferred' = <<what>> \o deferred
          /\ released = <<>> /\ released' = <<>>
      BY <1>2 DEF Acquire, Defer, ReleaseInv, Configured
    <2>2. Len(deferred) = Len(acquired) /\ phase' \notin {"returning", "exited"}
      BY <1>1, <1>2, <2>1 DEF Configured
    <2>3. /\ acquired' \in Seq(What) /\ deferred' \in Seq(What) /\ released' \in Seq(What)
          /\ Len(deferred') = Len(deferred) + 1 /\ Len(acquired') = Len(acquired) + 1
          /\ Len(released') = 0
      BY <1>1, <2>1
    <2>4. ASSUME NEW i \in 1..Len(deferred')
          PROVE  deferred'[i] = acquired'[Len(deferred') + 1 - i]
      <3>1. CASE i = 1
        BY <1>1, <2>1, <2>2, <2>3, <3>1
      <3>2. CASE i # 1
        <4>1. i - 1 \in 1..Len(deferred)
          BY <1>1, <2>3, <3>2
        <4>2. deferred'[i] = deferred[i - 1]
          BY <1>1, <2>1, <4>1
        <4>3. deferred[i - 1] = acquired[Len(deferred) + 1 - (i - 1)]
          BY <4>1 DEF ReleaseInv
        <4>4. Len(deferred) + 1 - (i - 1) = Len(deferred') + 1 - i
          BY <1>1, <2>3
        <4>5. Len(deferred') + 1 - i \in 1..Len(acquired)
          BY <1>1, <2>2, <2>3, <4>1
        <4>. QED BY <1>1, <2>1, <4>2, <4>3, <4>4, <4>5
      <3>. QED BY <3>1, <3>2
    <2>. QED BY <1>1, <2>1, <2>2, <2>3, <2>4 DEF ReleaseInv
  <1>3. CASE RunDeferred
    <2>1. /\ deferred # <<>> /\ released' = Append(released, Head(deferred))
          /\ deferred' = Tail(deferred) /\ acquired' = acquired /\ phase' = phase /\ phase = "returning"
      BY <1>3 DEF RunDeferred
    <2>2. /\ deferred' \in Seq(What) /\ released' \in Seq(What)
          /\ Len(deferred) >= 1
          /\ Len(deferred') = Len(deferred) - 1 /\ Len(released') = Len(released) + 1
      BY <1>1, <2>1
    <2>3. ASSUME NEW i \in 1..Len(released')
          PROVE  released'[i] = acquired'[Len(acquired') + 1 - i]
      <3>1. CASE i \in 1..Len(released)
        BY <1>1, <2>1, <3>1 DEF ReleaseInv
      <3>2. CASE i = Len(released) + 1
        <4>1. released'[i] = deferred[1]
          BY <1>1, <2>1, <3>2
        <4>2. deferred[1] = acquired[Len(deferred) + 1 - 1]
          BY <1>1, <2>2 DEF ReleaseInv
        <4>3. Len(deferred) + 1 - 1 = Len(acquired) + 1 - i
          BY <1>1, <3>2
        <4>. QED BY <2>1, <4>1, <4>2, <4>3
      <3>. QED BY <1>1, <2>2, <3>1, <3>2
    <2>4. ASSUME NEW i \in 1..Len(deferred')
          PROVE  deferred'[i] = acquired'[Len(deferred') + 1 - i]
      <3>1. i + 1 \in 1..Len(deferred)
        BY <1>1, <2>2
      <3>2. deferred'[i] = deferred[i + 1]
        BY <1>1, <2>1, <3>1
      <3>3. deferred[i + 1] = acquired[Len(deferred) + 1 - (i + 1)]
        BY <3>1 DEF ReleaseInv
      <3>4. Len(deferred) \in Nat /\ i \in Nat
        BY <1>1, <2>2
      <3>5. Len(deferred) + 1 - (i + 1) = Len(deferred') + 1 - i
        BY <2>2, <3>4
      <3>. QED BY <2>1, <3>2, <3>3, <3>5
    <2>. QED BY <1>1, <2>1, <2>2, <2>3, <2>4 DEF ReleaseInv
  <1>4. ASSUME UNCHANGED held, phase' = "exited" => phase = "exited" \/ deferred = <<>>,
               phase \in {"returning", "exited"} => phase' \in {"returning", "exited"}
        PROVE  ReleaseInv'
    BY <1>4 DEF ReleaseInv, held
  <1>. QED BY <1>2, <1>3, <1>4, HeldMoves

\* Whatever fails and whenever a signal comes: what the process opened is closed
\* before it ends, each once and the last first.
THEOREM ClosesInReverse == Spec => []ReleasedInReverse
  <1>1. Init => ReleaseInv
    <2> SUFFICES ASSUME Init PROVE ReleaseInv
      OBVIOUS
    <2>1. acquired = <<>> /\ deferred = <<>> /\ released = <<>> /\ phase = "parse"
      BY DEF Init
    <2>2. <<>> \in Seq({"exporter", "conn"}) /\ Len(<<>>) = 0
      OBVIOUS
    <2>. QED BY <2>1, <2>2 DEF ReleaseInv
  <1>2. ReleaseInv => ReleasedInReverse
    BY DEF ReleaseInv, ReleasedInReverse
  <1>. QED BY <1>1, <1>2, ReleaseStep, PTL DEF Spec
==============================================================================
