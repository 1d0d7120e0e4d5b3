---------------------------- MODULE GatewayProofs -----------------------------
(***************************************************************************)
(* Theorems about one run of the gateway, for any configuration, any       *)
(* deployments of the server and any requests.                             *)
(***************************************************************************)
EXTENDS Gateway, ToolCacheProofs, DiscoveryProofs

Early == {"boot", "reloading", "starting"}

\* main reloads only while it says so, the loop only when it has been started,
\* and it is started only once main is through with its own reload.
TurnsToReload ==
    /\ pc \in [Callers -> Phases]
    /\ pc[Main] # "idle" => main = "reloading"
    /\ pc[Loop] # "idle" => main \notin Early
    /\ main \in Early => loop = "off"
    /\ loop = "off" => pc[Loop] = "idle"

------------------------------------------------------------------------------
LEMMA TwoCallers == Main \in Callers /\ Loop \in Callers /\ Main # Loop /\ Callers = {Main, Loop}
  BY GoroutinesAssumption

\* Reload's steps: where they leave pc, and that one caller's step leaves the
\* other's alone.
LEMMA ReloadMoves ==
  ASSUME TurnsToReload, NEW c \in Callers, GReload(c)
  PROVE  /\ pc' \in [Callers -> Phases]
         /\ \A e \in Callers : e # c => pc'[e] = pc[e]
         /\ GBegin(c) => pc[c] = "idle" /\ pc'[c] = "loading"
         /\ GLoaderFails(c) => pc[c] = "loading" /\ pc'[c] = "idle"
         /\ GLoaderReturns(c) => pc[c] = "loading" /\
               pc'[c] = (IF load.got = <<>> THEN "idle" ELSE "registering")
         /\ GPublish(c) => pc[c] # "idle" /\ pc'[c] # "idle"
         /\ GLog(c) => pc[c] = "swapped" /\ pc'[c] = "idle"
  <1>1. ASSUME NEW p \in Phases, pc' = [pc EXCEPT ![c] = p]
        PROVE  /\ pc' \in [Callers -> Phases]
               /\ \A e \in Callers : e # c => pc'[e] = pc[e]
               /\ pc'[c] = p
    BY <1>1 DEF TurnsToReload
  <1>2. CASE GBegin(c)
    <2>1. pc[c] = "idle" /\ pc' = [pc EXCEPT ![c] = "loading"] /\ "loading" \in Phases
      BY <1>2 DEF GBegin, BeginReload, Phases
    <2>. QED BY <1>1, <2>1 DEF GLoaderFails, LoaderFails, GLoaderReturns, LoaderReturns, GLog, LogReload, GPublish, RegisterService, Store, AddVersion, SwapTools
  <1>3. CASE GLoaderFails(c)
    <2>1. pc[c] = "loading" /\ pc' = [pc EXCEPT ![c] = "idle"] /\ "idle" \in Phases
          /\ load.phase = "failed"
      BY <1>3 DEF GLoaderFails, LoaderFails, Abandon, Phases
    <2>. QED BY <1>1, <2>1 DEF GBegin, BeginReload, GLoaderReturns, GLog, LogReload, GPublish, RegisterService, Store, AddVersion, SwapTools
  <1>4. CASE GLoaderReturns(c)
    <2>1. pc[c] = "loading" /\ load.phase = "done"
          /\ pc' = [pc EXCEPT ![c] = IF load.got = <<>> THEN "idle" ELSE "registering"]
          /\ "idle" \in Phases /\ "registering" \in Phases
      BY <1>4 DEF GLoaderReturns, LoaderReturns, Abandon, Phases
    <2>. QED BY <1>1, <2>1 DEF GBegin, BeginReload, GLoaderFails, GLog, LogReload, GPublish, RegisterService, Store, AddVersion, SwapTools
  <1>5. CASE GPublish(c)
    <2>1. /\ pc[c] \notin {"idle", "loading", "swapped"}
          /\ pc' = pc \/ \E p \in {"stored", "versioned", "swapped"} : pc' = [pc EXCEPT ![c] = p]
      BY <1>5 DEF GPublish, RegisterService, Store, AddVersion, SwapTools
    <2>2. {"stored", "versioned", "swapped"} \subseteq Phases
      BY DEF Phases
    <2>3. pc \in [Callers -> Phases]
      BY DEF TurnsToReload
    <2>. QED BY <1>1, <2>1, <2>2, <2>3 DEF GBegin, BeginReload, GLoaderFails, LoaderFails, GLoaderReturns, LoaderReturns, GLog, LogReload
  <1>6. CASE GLog(c)
    <2>1. pc[c] = "swapped" /\ pc' = [pc EXCEPT ![c] = "idle"] /\ "idle" \in Phases
      BY <1>6 DEF GLog, LogReload, Phases
    <2>. QED BY <1>1, <2>1 DEF GBegin, BeginReload, GLoaderFails, LoaderFails, GLoaderReturns, LoaderReturns, GPublish, RegisterService, Store, AddVersion, SwapTools
  <1>. QED BY <1>2, <1>3, <1>4, <1>5, <1>6 DEF GReload
\* The steps that are not Reload's leave the cache alone.
Other ==
    \/ LoadStep \/ ServerStep \/ ServerCrash
    \/ StartLoop \/ Listen \/ ServeFails \/ Signal \/ Shutdown \/ Drained \/ DrainTimeout
    \/ Tick \/ StopLoop
    \/ \E r \in Requests : Arrive(r) \/ Serve(r) \/ ServerAnswers(r)
    \/ UNCHANGED vars

LEMMA OneOfTwo ==
  ASSUME [GNext]_vars
  PROVE  Other \/ \E c \in Callers : GReload(c)
  BY DEF GNext, Other, Terminated

LEMMA RequestStep ==
  ASSUME NEW r \in Requests, Arrive(r) \/ Serve(r) \/ ServerAnswers(r)
  PROVE  Alive /\ UNCHANGED <<cacheVars, reflectionVars, lifeVars, settled>>
  BY DEF Alive, Arrive, Serve, Bind, Send, SendFails, ReceiveAnswer, Deadline, ServerAnswers, Step

\* What they do to main and to the loop.
LEMMA OtherMoves ==
  ASSUME Other
  PROVE  /\ UNCHANGED <<cacheVars, settled>>
         /\ \/ main' = main /\ loop' = loop
            \/ main = "starting" /\ main' = "listening" /\ loop' \in {"start", "off"}
            \/ main = "listening" /\ main' = "serving" /\ loop' = loop
            \/ main = "serving" /\ main' = "draining" /\ loop' = loop
            \/ /\ main \in {"listening", "serving", "draining"} /\ main' = "exited"
               /\ loop' = IF loop = "off" THEN "off" ELSE "stopped"
            \/ main' = main /\ loop = "waiting" /\ loop' = "stopped"
  <1>1. CASE LoadStep \/ ServerStep \/ ServerCrash \/ Signal \/ Tick
    BY <1>1 DEF LoadStep, ServerStep, ServerCrash, Signal, Tick, lifeVars
  <1>2. CASE StartLoop
    BY <1>2 DEF StartLoop
  <1>3. CASE Listen \/ Shutdown \/ StopLoop
    BY <1>3 DEF Listen, Shutdown, StopLoop
  <1>4. CASE ServeFails \/ Drained \/ DrainTimeout
    BY <1>4 DEF ServeFails, Drained, DrainTimeout, Exit
  <1>5. ASSUME NEW r \in Requests, Arrive(r) \/ Serve(r) \/ ServerAnswers(r)
        PROVE  main' = main /\ loop' = loop /\ UNCHANGED <<cacheVars, settled>>
    BY <1>5, RequestStep DEF lifeVars
  <1>6. CASE UNCHANGED vars
    BY <1>6 DEF vars, lifeVars
  <1>. QED BY <1>1, <1>2, <1>3, <1>4, <1>5, <1>6 DEF Other

LEMMA ResumeMoves ==
  ASSUME NEW c, NEW failed, Resume(c, failed)
  PROVE  \/ /\ c = Main /\ main' \in {"starting", "exited"}
            /\ \/ loop' = loop
               \/ main' = "exited" /\ loop' = IF loop = "off" THEN "off" ELSE "stopped"
         \/ c = Loop /\ main' = main /\ loop' \in {"stopped", "waiting"}
  BY DEF Resume, Exit

\* What Reload's steps do to them.
LEMMA ReloadTurns ==
  ASSUME NEW c \in Callers, GReload(c)
  PROVE  /\ main # "exited"
         /\ \/ GBegin(c) /\ c = Main /\ main = "boot" /\ main' = "reloading" /\ loop' = loop
            \/ /\ GBegin(c) /\ c = Loop /\ loop \in {"start", "waiting"}
               /\ main' = main /\ loop' \in {"first", "again"}
            \/ GPublish(c) /\ main' = main /\ loop' = loop
            \/ GLoaderReturns(c) /\ load.got # <<>> /\ main' = main /\ loop' = loop
            \/ /\ GLoaderFails(c) \/ (GLoaderReturns(c) /\ load.got = <<>>) \/ GLog(c)
               /\ \/ /\ c = Main /\ main' \in {"starting", "exited"}
                     /\ \/ loop' = loop
                        \/ main' = "exited" /\ loop' = IF loop = "off" THEN "off" ELSE "stopped"
                  \/ c = Loop /\ main' = main /\ loop' \in {"stopped", "waiting"}
  <1>1. CASE GBegin(c)
    BY <1>1 DEF GBegin, StartsReload, Alive
  <1>2. CASE GLoaderFails(c) \/ GLog(c)
    <2>1. main # "exited" /\ (Resume(c, TRUE) \/ Resume(c, FALSE))
      BY <1>2 DEF GLoaderFails, GLog, Alive
    <2>. QED BY <1>2, <2>1, ResumeMoves
  <1>3. CASE GLoaderReturns(c)
    <2>1. CASE load.got = <<>>
      <3>1. main # "exited" /\ Resume(c, TRUE)
        BY <1>3, <2>1 DEF GLoaderReturns, Alive
      <3>. QED BY <1>3, <2>1, <3>1, ResumeMoves
    <2>2. CASE load.got # <<>>
      <3>1. main # "exited" /\ UNCHANGED lifeVars
        BY <1>3, <2>2 DEF GLoaderReturns, Alive
      <3>. QED BY <1>3, <2>2, <3>1 DEF lifeVars
    <2>. QED BY <2>1, <2>2
  <1>4. CASE GPublish(c)
    BY <1>4 DEF GPublish, lifeVars, Alive
  <1>. QED BY <1>1, <1>2, <1>3, <1>4 DEF GReload

LEMMA TurnsStep ==
  ASSUME TurnsToReload, [GNext]_vars
  PROVE  TurnsToReload'
  <1>1. CASE Other
    BY <1>1, OtherMoves DEF TurnsToReload, Early, cacheVars
  <1>2. ASSUME NEW c \in Callers, GReload(c)
        PROVE  TurnsToReload'
    BY <1>2, ReloadTurns, ReloadMoves, TwoCallers DEF TurnsToReload, Early
  <1>. QED BY <1>1, <1>2, OneOfTwo

LEMMA TurnsInit == GInit => TurnsToReload
  BY TwoCallers DEF GInit, Init, TurnsToReload, Early, Phases

\* For any configuration and deployments, whatever fails and whenever the signal
\* comes: the goroutines of the gateway never reload at once.
THEOREM OneReloadAtATime == GSpec => []ReloadsNeverOverlap
  <1>1. TurnsToReload => ReloadsNeverOverlap
    BY TwoCallers DEF TurnsToReload, ReloadsNeverOverlap, Early
  <1>. QED BY <1>1, TurnsInit, TurnsStep, PTL DEF GSpec
------------------------------------------------------------------------------
CacheTyped ==
    /\ loader \in Loaders
    /\ current \in ToolMap \cup {NoServer}
    /\ settled \in ToolMap \cup {NoServer}
    /\ tools \in ToolMap
    /\ job \in [Callers -> Job]

LEMMA CacheTypedStep ==
  ASSUME CacheTyped, TurnsToReload, Received, [GNext]_vars
  PROVE  CacheTyped'
  <1>1. CASE Other
    BY <1>1, OtherMoves DEF CacheTyped, cacheVars
  <1>2. ASSUME NEW c \in Callers, GReload(c)
        PROVE  CacheTyped'
    <2> USE DEF CacheTyped
    <2>1. job[c] \in Job /\ job[c].registered \in ToolMap
      BY DEF Job
    <2>2. ASSUME job' = [job EXCEPT ![c] = NoJob], UNCHANGED <<loader, current, tools>>,
                 settled' = settled \/ settled' = job[c].registered
          PROVE  CacheTyped'
      BY <2>1, <2>2, NoJobType
    <2>3. CASE GBegin(c)
      <3>1. [NoJob EXCEPT !.loader = loader] \in Job
        BY NoJobType DEF Job
      <3>. QED BY <2>3, <3>1 DEF GBegin, BeginReload
    <2>4. CASE GLoaderFails(c)
      BY <2>2, <2>4 DEF GLoaderFails, LoaderFails, Abandon
    <2>5. CASE GLoaderReturns(c)
      <3>1. load.got \in Seq(Descriptors)
        BY GoroutinesAssumption DEF Received
      <3>2. [job[c] EXCEPT !.services = load.got] \in Job
        BY <2>1, <3>1 DEF Job
      <3>3. CASE Abandon(c)
        BY <2>2, <2>5, <3>3 DEF GLoaderReturns, Abandon
      <3>4. CASE /\ job' = [job EXCEPT ![c].services = load.got]
                 /\ UNCHANGED <<loader, current, tools>>
        BY <2>5, <3>2, <3>4 DEF GLoaderReturns
      <3>. QED BY <2>5, <3>3, <3>4 DEF GLoaderReturns, LoaderReturns
    <2>6. CASE GPublish(c)
      <3>1. settled' = settled
        BY <2>6 DEF GPublish
      <3>2. CASE RegisterService(c)
        <4> DEFINE next == job[c].done + 1
                   d == job[c].services[next]
                   X == Claim(job[c].registered, d)
        <4>1. job[c].done \in Nat /\ job[c].services \in Seq(Descriptors)
          BY <2>1 DEF Job
        <4>2. d \in Descriptors
          BY <3>2, <4>1 DEF RegisterService, NextService
        <4>3. next \in Nat
          BY <4>1
        <4> HIDE DEF d
        <4>4. X \in ToolMap
          BY <2>1, <4>2, ClaimType
        <4>5. job' = [job EXCEPT ![c].done = next, ![c].registered = X]
          BY <3>2 DEF d, RegisterService, NextService
        <4> HIDE DEF X, next
        <4>6. [job[c] EXCEPT !.done = next, !.registered = X] \in Job
          BY <2>1, <4>3, <4>4 DEF Job
        <4>7. job' = [job EXCEPT ![c] = [job[c] EXCEPT !.done = next, !.registered = X]]
          BY <4>5
        <4>8. job' \in [Callers -> Job]
          BY <4>6, <4>7
        <4>. QED BY <3>1, <3>2, <4>8 DEF RegisterService
      <3>3. CASE Store(c) \/ AddVersion(c) \/ SwapTools(c)
        BY <2>1, <3>1, <3>3 DEF Store, AddVersion, SwapTools
      <3>. QED BY <2>6, <3>2, <3>3 DEF GPublish
    <2>7. CASE GLog(c)
      BY <2>2, <2>7 DEF GLog, LogReload
    <2>. QED BY <1>2, <2>3, <2>4, <2>5, <2>6, <2>7 DEF GReload
  <1>. QED BY <1>1, <1>2, OneOfTwo
------------------------------------------------------------------------------
\* How far a publication has brought the snapshot and the tool map.
Published ==
    \A c \in Callers :
        /\ pc[c] \in {"stored", "versioned", "swapped"} => current = job[c].registered
        /\ pc[c] = "swapped" => tools = current

QuietPhases == {"idle", "loading", "registering"}

\* A step of a reload finds every other caller idle and leaves it so.
LEMMA AloneHere ==
  ASSUME TurnsToReload, ReloadsNeverOverlap, ReloadsNeverOverlap', NEW c \in Callers, GReload(c)
  PROVE  \A e \in Callers : e # c => pc[e] = "idle" /\ pc'[e] = "idle"
  <1> SUFFICES ASSUME NEW e \in Callers, e # c PROVE pc[e] = "idle" /\ pc'[e] = "idle"
    OBVIOUS
  <1>1. pc'[e] = pc[e] /\ (pc[c] # "idle" \/ pc'[c] # "idle")
    BY ReloadMoves DEF GReload
  <1>. QED BY <1>1 DEF ReloadsNeverOverlap

LEMMA AgreementStep ==
  ASSUME CacheTyped, TurnsToReload, ReloadsNeverOverlap, ReloadsNeverOverlap',
         Published, QuietAgreement, [GNext]_vars
  PROVE  Published' /\ QuietAgreement'
  <1>1. CASE Other
    BY <1>1, OtherMoves DEF Published, QuietAgreement, cacheVars
  <1>2. ASSUME NEW c \in Callers, GReload(c)
        PROVE  Published' /\ QuietAgreement'
    <2>1. \A e \in Callers : e # c => pc[e] = "idle" /\ pc'[e] = "idle"
      BY <1>2, AloneHere
    <2>2. pc' \in [Callers -> Phases] /\ pc \in [Callers -> Phases]
      BY <1>2, ReloadMoves DEF TurnsToReload
    <2>3. ASSUME pc[c] \in QuietPhases, pc'[c] \in QuietPhases,
                 UNCHANGED <<current, tools, settled>>
          PROVE  Published' /\ QuietAgreement'
      <3>1. /\ tools = IF current = NoServer THEN NoTools ELSE current
            /\ settled = current
        BY <2>1, <2>3 DEF QuietAgreement, QuietPhases
      <3>2. \A e \in Callers : pc'[e] \in QuietPhases
        BY <2>1, <2>3 DEF QuietPhases
      <3>. QED BY <2>3, <3>1, <3>2 DEF Published, QuietAgreement, QuietPhases
    <2>4. CASE GBegin(c)
      <3>1. UNCHANGED <<current, tools, settled>>
        BY <2>4 DEF GBegin, BeginReload
      <3>. QED BY <1>2, <2>3, <2>4, <3>1, ReloadMoves DEF QuietPhases
    <2>5. CASE GLoaderFails(c) \/ GLoaderReturns(c)
      <3>1. UNCHANGED <<current, tools, settled>>
        BY <2>5 DEF GLoaderFails, LoaderFails, Abandon, GLoaderReturns, LoaderReturns
      <3>. QED BY <1>2, <2>3, <2>5, <3>1, ReloadMoves DEF QuietPhases
    <2>6. CASE GPublish(c)
      <3>1. settled' = settled
        BY <2>6 DEF GPublish
      <3>2. CASE RegisterService(c)
        <4>1. UNCHANGED <<current, tools, pc>> /\ pc[c] = "registering"
          BY <3>2 DEF RegisterService
        <4>. QED BY <2>3, <3>1, <4>1 DEF QuietPhases
      <3>3. CASE Store(c)
        <4>1. pc'[c] = "stored" /\ current' = job'[c].registered
          BY <2>2, <3>3 DEF Store
        <4>. QED BY <2>1, <4>1 DEF Published, QuietAgreement
      <3>4. CASE AddVersion(c)
        <4>1. pc[c] = "stored" /\ pc'[c] = "versioned" /\ UNCHANGED <<current, job>>
          BY <2>2, <3>4 DEF AddVersion
        <4>. QED BY <2>1, <4>1 DEF Published, QuietAgreement
      <3>5. CASE SwapTools(c)
        <4>1. /\ pc[c] = "versioned" /\ pc'[c] = "swapped" /\ UNCHANGED <<current, job>>
              /\ tools' = job[c].registered
          BY <2>2, <3>5 DEF SwapTools
        <4>2. current = job[c].registered
          BY <4>1 DEF Published
        <4>. QED BY <2>1, <4>1, <4>2 DEF Published, QuietAgreement
      <3>. QED BY <2>6, <3>2, <3>3, <3>4, <3>5 DEF GPublish
    <2>7. CASE GLog(c)
      <3>1. /\ pc[c] = "swapped" /\ pc'[c] = "idle" /\ UNCHANGED <<current, tools>>
            /\ settled' = job[c].registered
        BY <2>2, <2>7 DEF GLog, LogReload
      <3>2. current = job[c].registered /\ tools = current
        BY <3>1 DEF Published
      <3>3. current # NoServer
        BY <3>2, ToolsAssumption DEF CacheTyped, Job
      <3>. QED BY <2>1, <3>1, <3>2, <3>3 DEF Published, QuietAgreement
    <2>. QED BY <1>2, <2>4, <2>5, <2>6, <2>7 DEF GReload
  <1>. QED BY <1>1, <1>2, OneOfTwo

------------------------------------------------------------------------------
LEMMA OtherReflection ==
  ASSUME Other
  PROVE  RRun \/ UNCHANGED reflectionVars
  <1>1. CASE LoadStep \/ ServerStep \/ ServerCrash
    BY <1>1 DEF LoadStep, ServerStep, ServerCrash, RRun
  <1>2. CASE \/ StartLoop \/ Listen \/ ServeFails \/ Signal \/ Shutdown \/ Drained \/ DrainTimeout
             \/ Tick \/ StopLoop
    BY <1>2 DEF StartLoop, Listen, ServeFails, Signal, Shutdown, Drained, DrainTimeout, Tick, StopLoop
  <1>3. ASSUME NEW r \in Requests, Arrive(r) \/ Serve(r) \/ ServerAnswers(r)
        PROVE  UNCHANGED reflectionVars
    BY <1>3, RequestStep
  <1>4. CASE UNCHANGED vars
    BY <1>4 DEF vars
  <1>. QED BY <1>1, <1>2, <1>3, <1>4 DEF Other

LEMMA ReflectionMoves ==
  ASSUME [GNext]_vars
  PROVE  RStep \/ UNCHANGED reflectionVars
  <1>1. ASSUME NEW c \in Callers, GReload(c)
        PROVE  RStep \/ UNCHANGED reflectionVars
    BY <1>1, ConfigAssumption DEF GReload, GBegin, GLoaderFails, GLoaderReturns, GPublish, GLog, RStep
  <1>. QED BY <1>1, OtherReflection, OneOfTwo DEF RStep

AgreeInv == TurnsToReload /\ RegularInv /\ CacheTyped /\ Published /\ QuietAgreement

LEMMA Agreement == GSpec => []AgreeInv
  <1>1. GInit => AgreeInv
    <2> SUFFICES ASSUME GInit PROVE AgreeInv
      OBVIOUS
    <2>1. RegularInv /\ TurnsToReload
      BY RegularInit, TurnsInit DEF GInit
    <2>2. /\ current = NoServer /\ settled = NoServer /\ tools = NoTools /\ loader \in Loaders
          /\ pc = [c \in Callers |-> "idle"] /\ job = [c \in Callers |-> NoJob]
      BY DEF GInit, Init
    <2>3. CacheTyped
      BY <2>2, NoToolsType, NoJobType DEF CacheTyped
    <2>4. Published /\ QuietAgreement
      BY <2>2 DEF Published, QuietAgreement
    <2>. QED BY <2>1, <2>3, <2>4 DEF AgreeInv
  <1>2. ASSUME AgreeInv, [GNext]_vars, ReloadsNeverOverlap, ReloadsNeverOverlap'
        PROVE  AgreeInv'
    <2>1. RegularInv' /\ TurnsToReload'
      BY <1>2, ReflectionMoves, RegularStep, TurnsStep DEF AgreeInv
    <2>2. CacheTyped'
      BY <1>2, CacheTypedStep DEF AgreeInv, RegularInv
    <2>3. Published' /\ QuietAgreement'
      BY <1>2, AgreementStep DEF AgreeInv
    <2>. QED BY <2>1, <2>2, <2>3 DEF AgreeInv
  <1>. QED BY <1>1, <1>2, OneReloadAtATime, PTL DEF GSpec

\* For any configuration, deployments and failures, also a reload cut short by
\* the signal: outside a publication the tool map is the snapshot being served,
\* and that is the one of the last reload that succeeded.
THEOREM SnapshotAgrees == GSpec => []QuietAgreement
  <1>1. AgreeInv => QuietAgreement
    BY DEF AgreeInv
  <1>. QED BY <1>1, Agreement, PTL

\* The loads of a gateway that serves, is signalled and drains are as regular as
\* those of discovery alone.
THEOREM GatewayLoadsAreRegular == GSpec => []LoadIsRegular
  <1>1. AgreeInv => LoadIsRegular
    BY DEF AgreeInv, RegularInv
  <1>. QED BY <1>1, Agreement, PTL

------------------------------------------------------------------------------
Snapshots == ToolMap \cup {NoServer}
RequestsTyped ==
    request \in [Requests -> [phase : RequestPhases, known : Snapshots, bound : Snapshots]]

\* What becomes of requests: all are dropped at most, or one takes a step.
LEMMA RequestMoves ==
  ASSUME CacheTyped, RequestsTyped, [GNext]_vars
  PROVE  /\ RequestsTyped'
         /\ \A r \in Requests :
               /\ request'[r].phase = "dropped" =>
                     request[r].phase = "dropped" \/ (Busy(r) /\ main' = "exited")
               /\ request'[r].phase = "refused" => request[r].phase = "refused"
                     \/ (request[r].phase = "arrived" /\ current = NoServer)
               /\ \/ request'[r].known = request[r].known /\ request'[r].bound = request[r].bound
                  \/ request'[r].known = settled /\ request'[r].bound = NoServer
                     /\ request'[r].phase = "arrived"
                  \/ /\ request'[r].known = request[r].known
                     /\ request'[r].bound = current /\ current' = current
  <1> DEFINE Fine ==
         /\ RequestsTyped'
         /\ \A r \in Requests :
               /\ request'[r].phase = "dropped" =>
                     request[r].phase = "dropped" \/ (Busy(r) /\ main' = "exited")
               /\ request'[r].phase = "refused" => request[r].phase = "refused"
                     \/ (request[r].phase = "arrived" /\ current = NoServer)
               /\ \/ request'[r].known = request[r].known /\ request'[r].bound = request[r].bound
                  \/ request'[r].known = settled /\ request'[r].bound = NoServer
                     /\ request'[r].phase = "arrived"
                  \/ /\ request'[r].known = request[r].known
                     /\ request'[r].bound = current /\ current' = current
  <1> SUFFICES Fine
    OBVIOUS
  <1>1. ASSUME request' = request
        PROVE  Fine
    BY <1>1 DEF RequestsTyped
  <1>2. ASSUME NEW code, Exit(code)
        PROVE  Fine
    <2>1. main' = "exited" /\ "dropped" \in RequestPhases
      BY <1>2 DEF Exit, RequestPhases, Ended
    <2>2. ASSUME NEW r \in Requests
          PROVE  /\ request'[r] \in [phase : RequestPhases, known : Snapshots, bound : Snapshots]
                 /\ request'[r].known = request[r].known /\ request'[r].bound = request[r].bound
                 /\ \/ request'[r].phase = request[r].phase
                    \/ request'[r].phase = "dropped" /\ Busy(r)
      BY <1>2, <2>1 DEF Exit, RequestsTyped
    <2>3. request' = [r \in Requests |-> request'[r]]
      BY <1>2 DEF Exit
    <2>4. RequestsTyped'
      BY <2>2, <2>3 DEF RequestsTyped
    <2>. QED BY <2>1, <2>2, <2>4
  <1>3. ASSUME NEW r \in Requests, NEW from, NEW to \in RequestPhases \ {"dropped"}, Step(r, from, to),
               to = "refused" => from = "arrived" /\ current = NoServer
        PROVE  Fine
    <2>1. request' = [request EXCEPT ![r].phase = to] /\ request[r].phase = from
      BY <1>3 DEF Step
    <2>. QED BY <1>3, <2>1 DEF RequestsTyped
  <1>4. ASSUME NEW r \in Requests, Arrive(r)
        PROVE  Fine
    <2>1. request' = [request EXCEPT ![r] =
              [phase |-> "arrived", known |-> settled, bound |-> NoServer]]
      BY <1>4 DEF Arrive
    <2>2. settled \in Snapshots /\ NoServer \in Snapshots /\ "arrived" \in RequestPhases
      BY DEF CacheTyped, Snapshots, RequestPhases
    <2>. QED BY <2>1, <2>2 DEF RequestsTyped
  <1>5. ASSUME NEW r \in Requests, Bind(r)
        PROVE  Fine
    <2>1. CASE current = NoServer /\ Step(r, "arrived", "refused")
      BY <1>3, <2>1 DEF RequestPhases, Ended
    <2>2. ASSUME NEW ph \in {"calling", "unknown"}, current' = current,
                 request' = [request EXCEPT ![r].bound = current, ![r].phase = ph]
          PROVE  Fine
      <3>1. current \in Snapshots /\ ph \in RequestPhases
        BY DEF CacheTyped, Snapshots, RequestPhases, Ended
      <3>2. request' = [request EXCEPT ![r] = [request[r] EXCEPT !.bound = current, !.phase = ph]]
        BY <2>2
      <3>3. /\ request[r] \in [phase : RequestPhases, known : Snapshots, bound : Snapshots]
            /\ [request[r] EXCEPT !.bound = current, !.phase = ph]
                  \in [phase : RequestPhases, known : Snapshots, bound : Snapshots]
            /\ request'[r].known = request[r].known /\ request'[r].bound = current
            /\ request'[r].phase = ph
        BY <3>1, <3>2 DEF RequestsTyped
      <3>4. \A q \in Requests : q # r => request'[q] = request[q]
        BY <3>2 DEF RequestsTyped
      <3>5. RequestsTyped'
        BY <3>2, <3>3 DEF RequestsTyped
      <3>. QED BY <2>2, <3>3, <3>4, <3>5
    <2>. QED BY <1>5, <2>1, <2>2 DEF Bind, cacheVars
  <1>6. ASSUME NEW r \in Requests, Serve(r) \/ ServerAnswers(r)
        PROVE  Fine
    <2>1. CASE Bind(r)
      BY <1>5, <2>1
    <2>2. {"sent", "error", "answered", "broken", "ok", "timeout", "starved"}
             \subseteq RequestPhases \ {"dropped", "refused"}
      BY DEF RequestPhases, Ended
    <2>3. CASE \E from : \E to \in {"sent", "error", "answered", "broken", "ok", "timeout", "starved"} :
                  Step(r, from, to)
      BY <1>3, <2>2, <2>3
    <2>. QED BY <1>6, <2>1, <2>3 DEF Serve, Send, SendFails, ReceiveAnswer, Deadline, ServerAnswers
  <1>7. CASE ServerCrash
    <2>1. request' = [r \in Requests |->
            IF request[r].phase \in {"sent", "answered"}
            THEN [request[r] EXCEPT !.phase = "broken"] ELSE request[r]]
      BY <1>7 DEF ServerCrash
    <2>2. ASSUME NEW r \in Requests
          PROVE  /\ request'[r] \in [phase : RequestPhases, known : Snapshots, bound : Snapshots]
                 /\ request'[r].known = request[r].known /\ request'[r].bound = request[r].bound
                 /\ request'[r].phase = request[r].phase \/ request'[r].phase = "broken"
      BY <2>1 DEF RequestsTyped, RequestPhases
    <2>3. request' = [r \in Requests |-> request'[r]]
      BY <2>1
    <2>4. RequestsTyped'
      BY <2>2, <2>3 DEF RequestsTyped
    <2>. QED BY <2>2, <2>4
  <1>8. CASE LoadStep \/ ServerStep \/ StartLoop \/ Listen \/ Signal \/ Shutdown \/ Tick \/ StopLoop
    BY <1>1, <1>8 DEF LoadStep, ServerStep, StartLoop, Listen, Signal, Shutdown, Tick, StopLoop
  <1>9. CASE ServeFails \/ Drained \/ DrainTimeout
    BY <1>2, <1>9 DEF ServeFails, Drained, DrainTimeout
  <1>10. ASSUME NEW c \in Callers, GReload(c)
         PROVE  Fine
    <2>1. CASE GBegin(c) \/ GPublish(c)
      BY <1>1, <2>1 DEF GBegin, GPublish
    <2>2. ASSUME NEW failed, Resume(c, failed)
          PROVE  Fine
      BY <1>1, <1>2, <2>2 DEF Resume
    <2>3. CASE GLoaderFails(c) \/ GLog(c)
      BY <2>2, <2>3 DEF GLoaderFails, GLog
    <2>4. CASE GLoaderReturns(c)
      BY <1>1, <2>2, <2>4 DEF GLoaderReturns
    <2>. QED BY <1>10, <2>1, <2>3, <2>4 DEF GReload
  <1>11. CASE UNCHANGED vars
    BY <1>1, <1>11 DEF vars
  <1> HIDE DEF Fine
  <1>12. CASE Other
    <2>1. CASE \E r \in Requests : Arrive(r) \/ Serve(r) \/ ServerAnswers(r)
      BY <1>4, <1>6, <2>1
    <2>. QED BY <1>7, <1>8, <1>9, <1>11, <1>12, <2>1 DEF Other
  <1>. QED BY <1>10, <1>12, OneOfTwo

\* How the process ends, and that nothing happens to it afterwards.
LEMMA EndMoves ==
  ASSUME [GNext]_vars
  PROVE  /\ ctxDone' = ctxDone \/ ctxDone' = TRUE
         /\ main' = "draining" => main = "draining" \/ ctxDone
         /\ main = "exited" => main' = "exited" /\ status' = status /\ request' = request
         /\ main # "exited" /\ main' = "exited" => status' = 1 \/ Drained
  <1>1. CASE Other
    <2>1. CASE LoadStep \/ ServerStep \/ ServerCrash
      BY <2>1 DEF LoadStep, ServerStep, ServerCrash, lifeVars, Alive
    <2>2. CASE StartLoop \/ Listen \/ Signal \/ Shutdown \/ Tick \/ StopLoop
      BY <2>2 DEF StartLoop, Listen, Signal, Shutdown, Tick, StopLoop, Alive
    <2>3. CASE ServeFails \/ Drained \/ DrainTimeout
      BY <2>3 DEF ServeFails, Drained, DrainTimeout, Exit
    <2>4. ASSUME NEW r \in Requests, Arrive(r) \/ Serve(r) \/ ServerAnswers(r)
          PROVE  main # "exited" /\ UNCHANGED <<main, status, ctxDone>>
      BY <2>4, RequestStep DEF Alive, lifeVars
    <2>5. CASE UNCHANGED vars
      BY <2>5 DEF vars, lifeVars
    <2>. QED BY <1>1, <2>1, <2>2, <2>3, <2>4, <2>5 DEF Other
  <1>2. ASSUME NEW c \in Callers, GReload(c)
        PROVE  /\ main # "exited"
               /\ ctxDone' = ctxDone
               /\ main' # "draining" \/ main' = main
               /\ main' = "exited" => status' = 1
    <2>1. ASSUME NEW failed, Resume(c, failed)
          PROVE  ctxDone' = ctxDone /\ (main' # "draining" \/ main' = main)
                 /\ (main' = "exited" => (status' = 1 \/ main' = main))
      BY <2>1 DEF Resume, Exit
    <2>2. main # "exited"
      BY <1>2, ReloadTurns
    <2>3. CASE GBegin(c) \/ GPublish(c)
      BY <2>2, <2>3 DEF GBegin, GPublish, StartsReload, lifeVars
    <2>4. CASE GLoaderFails(c) \/ GLog(c)
      BY <2>1, <2>2, <2>4 DEF GLoaderFails, GLog
    <2>5. CASE GLoaderReturns(c)
      BY <2>1, <2>2, <2>5 DEF GLoaderReturns, lifeVars
    <2>. QED BY <1>2, <2>3, <2>4, <2>5 DEF GReload
  <1>. QED BY <1>1, <1>2, OneOfTwo

NotDropped ==
    /\ ctxDone \in BOOLEAN
    /\ main = "draining" => ctxDone
    /\ main # "exited" => \A r \in Requests : request[r].phase # "dropped"

LEMMA CleanStep ==
  ASSUME CacheTyped, RequestsTyped, NotDropped, CleanExit, [GNext]_vars
  PROVE  NotDropped' /\ CleanExit'
  <1>1. NotDropped'
    BY EndMoves, RequestMoves DEF NotDropped
  <1>2. ctxDone => ctxDone'
    BY EndMoves DEF NotDropped
  <1>3. CASE main = "exited"
    <2>1. status' = status /\ request' = request
      BY <1>3, EndMoves
    <2>. QED BY <1>1, <1>2, <1>3, <2>1 DEF CleanExit
  <1>4. CASE main # "exited" /\ Drained
    <2>1. main = "draining" /\ \A r \in Requests : ~Busy(r)
      BY <1>4 DEF Drained
    <2>2. ctxDone' /\ \A r \in Requests : request'[r].phase # "dropped"
      BY <1>2, <1>4, <2>1, RequestMoves DEF NotDropped
    <2>. QED BY <1>1, <2>2 DEF CleanExit
  <1>5. CASE main # "exited" /\ ~Drained
    <2>1. main' = "exited" => status' = 1
      BY <1>5, EndMoves
    <2>. QED BY <1>1, <2>1 DEF CleanExit
  <1>. QED BY <1>3, <1>4, <1>5

CleanInv == RequestsTyped /\ NotDropped /\ CleanExit

LEMMA EndsCleanly == GSpec => []CleanInv
  <1>1. GInit => CleanInv
    <2> SUFFICES ASSUME GInit PROVE CleanInv
      OBVIOUS
    <2>1. main = "boot" /\ ctxDone = FALSE
          /\ request = [r \in Requests |->
                          [phase |-> "none", known |-> NoServer, bound |-> NoServer]]
      BY DEF GInit
    <2>2. NoServer \in Snapshots /\ "none" \in RequestPhases
      BY DEF Snapshots, RequestPhases
    <2>3. RequestsTyped
      BY <2>1, <2>2 DEF RequestsTyped
    <2>4. \A r \in Requests : request[r].phase = "none"
      BY <2>1
    <2>. QED BY <2>1, <2>3, <2>4 DEF CleanInv, NotDropped, CleanExit
  <1>2. CacheTyped /\ CleanInv /\ [GNext]_vars => CleanInv'
    BY RequestMoves, CleanStep DEF CleanInv
  <1>3. AgreeInv => CacheTyped
    BY DEF AgreeInv
  <1>. QED BY <1>1, <1>2, <1>3, Agreement, PTL DEF GSpec

\* For any requests and whatever the process is doing when the signal comes: exit
\* status 0 means that the signal came and no accepted request was cut off.
THEOREM StatusIsHonest == GSpec => []CleanExit
  <1>1. CleanInv => CleanExit
    BY DEF CleanInv
  <1>. QED BY <1>1, EndsCleanly, PTL

------------------------------------------------------------------------------
\* The snapshots that a later one is compared with: the one being served, the
\* one settled, and those known to requests.
Olds == ({current, settled} \cup {request[r].known : r \in Requests}) \ {NoServer}

\* The snapshots in S have nothing from a deployment later than e.
Behind(S, e) == \A f \in S : \A n \in DOMAIN f : f[n].epoch <= e

\* Every snapshot so far is behind the server, behind what a load in progress
\* may still collect, and behind what a reload is registering.
Ages ==
    /\ Behind(Olds, epoch)
    /\ InProgress => Behind(Olds, load.since)
    /\ load.phase # "none" => \E c \in Callers : pc[c] = "loading"
    /\ \A f \in Olds : current # NoServer /\ (f = current \/ Advances(f, current))

Registering(c) ==
    /\ pc[c] = "loading" => DOMAIN job[c].registered = {}
    /\ pc[c] = "registering" =>
          /\ \A k \in DOMAIN job[c].services :
                Behind(Olds, job[c].services[k].epoch) /\ job[c].services[k].epoch <= epoch
          /\ \A n \in DOMAIN job[c].registered :
                Behind(Olds, job[c].registered[n].epoch) /\ job[c].registered[n].epoch <= epoch

LEMMA OldTypes ==
  ASSUME CacheTyped, RequestsTyped
  PROVE  /\ Olds \subseteq ToolMap
         /\ \A f \in ToolMap : \A n \in DOMAIN f : f[n] \in ServiceAt /\ f[n].epoch \in Nat
  <1>1. Olds \subseteq ToolMap
    BY DEF Olds, CacheTyped, RequestsTyped, Snapshots
  <1>2. ASSUME NEW f \in ToolMap, NEW n \in DOMAIN f
        PROVE  f[n] \in ServiceAt /\ f[n].epoch \in Nat
    <2>1. f[n] \in ServiceAt
      BY ToolMapFacts, GoroutinesAssumption
    <2>. QED BY <2>1, EmptyLoads DEF ServiceAt
  <1>. QED BY <1>1, <1>2

\* What a reload works on is from deployments of the server too.
LEMMA ServiceEpochs ==
  ASSUME job \in [Callers -> Job], NEW c \in Callers
  PROVE  /\ \A k \in DOMAIN job[c].services : job[c].services[k].epoch \in Nat
         /\ \A n \in DOMAIN job[c].registered : job[c].registered[n].epoch \in Nat
  <1>1. job[c].services \in Seq(Descriptors) /\ job[c].registered \in ToolMap
    BY DEF Job
  <1>2. \A d \in Descriptors : d.epoch \in Nat
    BY GoroutinesAssumption, EmptyLoads DEF ServiceAt
  <1>3. job[c].registered \in [DOMAIN job[c].registered -> Descriptors]
    BY <1>1, ToolMapFacts
  <1>. QED BY <1>1, <1>2, <1>3

LEMMA BehindMore ==
  ASSUME NEW S, \A f \in S : \A n \in DOMAIN f : f[n].epoch \in Nat,
         NEW T \in SUBSET S, NEW a \in Nat, NEW b \in Nat, a <= b, Behind(S, a)
  PROVE  Behind(T, b)
  BY DEF Behind

\* Every step but a store leaves the snapshots what they are, or lets one go.
LEMMA OldsShrink ==
  ASSUME AgreeInv, RequestsTyped, [GNext]_vars, \A c \in Callers : ~(GPublish(c) /\ Store(c))
  PROVE  Olds' \subseteq Olds /\ current' = current
  <1>1. \A r \in Requests : request'[r].known \in {request[r].known, settled}
    BY RequestMoves DEF AgreeInv
  <1>2. current' = current /\ settled' \in {settled, current}
    <2>1. CASE Other
      BY <2>1, OtherMoves DEF cacheVars
    <2>2. ASSUME NEW c \in Callers, GReload(c)
          PROVE  current' = current /\ settled' \in {settled, current}
      <3>1. CASE GLog(c)
        BY <3>1 DEF GLog, LogReload, AgreeInv, Published
      <3>2. CASE GPublish(c)
        BY <3>2 DEF GPublish, RegisterService, AddVersion, SwapTools
      <3>3. CASE GBegin(c) \/ GLoaderFails(c) \/ GLoaderReturns(c)
        BY <3>3 DEF GBegin, BeginReload, GLoaderFails, LoaderFails, GLoaderReturns, LoaderReturns, Abandon
      <3>. QED BY <2>2, <3>1, <3>2, <3>3 DEF GReload
    <2>. QED BY <2>1, <2>2, OneOfTwo
  <1>. QED BY <1>1, <1>2 DEF Olds

\* A store adds the snapshot it has registered.
LEMMA StoreAdds ==
  ASSUME AgreeInv, RequestsTyped, NEW c \in Callers, Store(c), GPublish(c)
  PROVE  /\ Olds' \subseteq Olds \cup {job[c].registered}
         /\ current' = job[c].registered /\ current' \in ToolMap /\ current' # NoServer
         /\ pc[c] = "registering" /\ pc' = [pc EXCEPT ![c] = "stored"]
         /\ UNCHANGED <<reflectionVars, job>>
  <1>1. /\ current' = job[c].registered /\ settled' = settled /\ request' = request
        /\ pc[c] = "registering" /\ pc' = [pc EXCEPT ![c] = "stored"]
        /\ UNCHANGED <<reflectionVars, job>>
    BY DEF Store, GPublish
  <1>2. job[c].registered \in ToolMap
    BY DEF AgreeInv, CacheTyped, Job
  <1>. QED BY <1>1, <1>2, ToolsAssumption DEF Olds

\* What a step does to the server and the load in progress.
LEMMA LoadAges ==
  ASSUME AgreeInv, [GNext]_vars
  PROVE  /\ epoch \in Nat /\ epoch' \in Nat /\ epoch <= epoch'
         /\ InProgress' => \/ InProgress /\ load'.since = load.since
                           \/ load'.since = epoch
         /\ Other => (load.phase = "none" => load'.phase = "none")
         /\ \A c \in Callers : GLoaderFails(c) \/ GLoaderReturns(c) =>
               load'.phase = "none" /\ epoch' = epoch
  <1>1. RegularInv
    BY DEF AgreeInv
  <1>2. ASSUME RRun \/ UNCHANGED reflectionVars
        PROVE  /\ epoch \in Nat /\ epoch' \in Nat /\ epoch <= epoch'
               /\ load.phase = "none" => load'.phase = "none"
               /\ InProgress' => InProgress /\ load'.since = load.since
    BY <1>1, <1>2, RunAges
  <1>3. ASSUME NEW wanted, BeginLoad(wanted)
        PROVE  epoch \in Nat /\ epoch' = epoch /\ load'.since = epoch
    BY <1>1, <1>3, BeginAges
  <1>4. ASSUME EndLoad
        PROVE  epoch \in Nat /\ epoch' = epoch /\ load'.phase = "none"
    BY <1>1, <1>4, EmptyLoads DEF EndLoad, NoLoad, RegularInv, Received
  <1>5. epoch \in Nat /\ epoch' \in Nat /\ epoch <= epoch'
    <2>1. (\E wanted \in Filters : BeginLoad(wanted)) \/ RRun \/ UNCHANGED reflectionVars \/ EndLoad
      BY ReflectionMoves DEF RStep
    <2>. QED BY <1>2, <1>3, <1>4, <2>1
  <1>6. InProgress' => \/ InProgress /\ load'.since = load.since
                       \/ load'.since = epoch
    <2>1. (\E wanted \in Filters : BeginLoad(wanted)) \/ RRun \/ UNCHANGED reflectionVars \/ EndLoad
      BY ReflectionMoves DEF RStep
    <2>. QED BY <1>2, <1>3, <1>4, <2>1 DEF InProgress
  <1>7. Other => (load.phase = "none" => load'.phase = "none")
    BY <1>2, OtherReflection
  <1>8. \A c \in Callers : GLoaderFails(c) \/ GLoaderReturns(c) =>
               load'.phase = "none" /\ epoch' = epoch
    BY <1>4 DEF GLoaderFails, GLoaderReturns
  <1>. QED BY <1>5, <1>6, <1>7, <1>8

\* A load in progress always has a caller that waits for it.
LEMMA WaitStep ==
  ASSUME AgreeInv, ReloadsNeverOverlap, ReloadsNeverOverlap', [GNext]_vars,
         load.phase # "none" => \E c \in Callers : pc[c] = "loading"
  PROVE  load'.phase # "none" => \E c \in Callers : pc'[c] = "loading"
  <1>1. CASE Other
    BY <1>1, LoadAges, OtherMoves DEF cacheVars
  <1>2. ASSUME NEW c \in Callers, GReload(c)
        PROVE  load'.phase # "none" => \E e \in Callers : pc'[e] = "loading"
    <2>1. TurnsToReload
      BY DEF AgreeInv
    <2>2. CASE GBegin(c)
      BY <1>2, <2>1, <2>2, ReloadMoves
    <2>3. CASE GLoaderFails(c) \/ GLoaderReturns(c)
      BY <2>3, LoadAges
    <2>4. CASE GPublish(c) \/ GLog(c)
      <3>1. UNCHANGED load /\ pc[c] # "loading"
        BY <2>4 DEF GPublish, GLog, reflectionVars, RegisterService, Store, AddVersion, SwapTools, LogReload
      <3>2. \A e \in Callers : e # c => pc'[e] = pc[e]
        BY <1>2, <2>1, ReloadMoves
      <3>. QED BY <3>1, <3>2
    <2>. QED BY <1>2, <2>2, <2>3, <2>4 DEF GReload
  <1>. QED BY <1>1, <1>2, OneOfTwo

LEMMA AgesStep ==
  ASSUME AgreeInv, RequestsTyped, ReloadsNeverOverlap, ReloadsNeverOverlap',
         Ages, \A e \in Callers : Registering(e), [GNext]_vars
  PROVE  Ages'
  <1>1. load'.phase # "none" => \E e \in Callers : pc'[e] = "loading"
    BY WaitStep DEF Ages
  <1>2. /\ Olds \subseteq ToolMap
        /\ \A f \in ToolMap : \A n \in DOMAIN f : f[n].epoch \in Nat
        /\ epoch \in Nat /\ epoch' \in Nat /\ epoch <= epoch'
        /\ load.since \in Nat
    BY OldTypes, LoadAges, EmptyLoads DEF AgreeInv, RegularInv, Received
  <1>3. CASE \A c \in Callers : ~(GPublish(c) /\ Store(c))
    <2>1. Olds' \subseteq Olds /\ current' = current
      BY <1>3, OldsShrink
    <2>2. Behind(Olds', epoch')
      BY <1>2, <2>1, BehindMore DEF Ages
    <2>3. InProgress' => Behind(Olds', load'.since)
      <3>1. CASE InProgress /\ load'.since = load.since
        BY <1>2, <2>1, <3>1, BehindMore DEF Ages
      <3>2. CASE load'.since = epoch
        BY <1>2, <2>1, <3>2, BehindMore DEF Ages
      <3>. QED BY <3>1, <3>2, LoadAges
    <2>4. \A f \in Olds' : current' # NoServer /\ (f = current' \/ Advances(f, current'))
      BY <2>1 DEF Ages
    <2>. QED BY <1>1, <2>2, <2>3, <2>4 DEF Ages, Advances
  <1>4. ASSUME NEW c \in Callers, GPublish(c), Store(c)
        PROVE  Ages'
    <2> DEFINE new == job[c].registered
    <2>1. /\ Olds' \subseteq Olds \cup {new}
          /\ current' = new /\ new \in ToolMap /\ current' # NoServer
          /\ pc[c] = "registering" /\ UNCHANGED reflectionVars
      BY <1>4, StoreAdds
    <2>2. \A n \in DOMAIN new : Behind(Olds, new[n].epoch) /\ new[n].epoch <= epoch
      BY <2>1 DEF Registering
    <2> HIDE DEF new
    <2>3. epoch' = epoch /\ load' = load
      BY <2>1 DEF reflectionVars
    <2>4. Behind(Olds', epoch')
      BY <2>1, <2>2, <2>3 DEF Ages, Behind
    <2>5. ~InProgress'
      <3>1. load.phase = "none"
        BY <2>1 DEF Ages, ReloadsNeverOverlap
      <3>. QED BY <2>3, <3>1 DEF InProgress
    <2>6. ASSUME NEW f \in Olds'
          PROVE  f = current' \/ Advances(f, current')
      BY <2>1, <2>2 DEF Behind, Advances
    <2>. QED BY <1>1, <2>1, <2>4, <2>5, <2>6 DEF Ages, Advances
  <1>. QED BY <1>3, <1>4

LEMMA RegisteringStep ==
  ASSUME AgreeInv, RequestsTyped, ReloadsNeverOverlap, ReloadsNeverOverlap',
         Ages, \A e \in Callers : Registering(e), [GNext]_vars
  PROVE  \A e \in Callers : Registering(e)'
  <1>1. TurnsToReload /\ CacheTyped /\ RegularInv
    BY DEF AgreeInv
  <1>2. /\ epoch \in Nat /\ epoch' \in Nat /\ epoch <= epoch'
        /\ pc \in [Callers -> Phases] /\ job \in [Callers -> Job]
    BY <1>1, LoadAges DEF TurnsToReload, CacheTyped
  <1>3. ASSUME NEW e \in Callers, pc'[e] \notin {"loading", "registering"}
        PROVE  Registering(e)'
    BY <1>3 DEF Registering
  <1>4. ASSUME NEW c \in Callers, GPublish(c), Store(c)
        PROVE  pc[c] = "registering" /\ pc'[c] = "stored"
    BY <1>2, <1>4 DEF Store
  <1>5. CASE Other
    <2>1. pc' = pc /\ job' = job
      BY <1>5, OtherMoves DEF cacheVars
    <2>2. Olds' \subseteq Olds
      BY <1>4, <2>1, OldsShrink
    <2>3. ASSUME NEW e \in Callers
          PROVE  Registering(e)'
      <3>1. pc[e] = "loading" => DOMAIN job[e].registered = {}
        BY DEF Registering
      <3>2. ASSUME pc[e] = "registering", NEW k \in DOMAIN job[e].services
            PROVE  Behind(Olds', job[e].services[k].epoch) /\ job[e].services[k].epoch <= epoch'
        <4>1. Behind(Olds, job[e].services[k].epoch) /\ job[e].services[k].epoch <= epoch
          BY <3>2 DEF Registering
        <4>2. job[e].services[k].epoch \in Nat
          BY <1>2, ServiceEpochs
        <4>. QED BY <1>2, <2>2, <4>1, <4>2 DEF Behind
      <3>3. ASSUME pc[e] = "registering", NEW n \in DOMAIN job[e].registered
            PROVE  Behind(Olds', job[e].registered[n].epoch) /\ job[e].registered[n].epoch <= epoch'
        <4>1. Behind(Olds, job[e].registered[n].epoch) /\ job[e].registered[n].epoch <= epoch
          BY <3>3 DEF Registering
        <4>2. job[e].registered[n].epoch \in Nat
          BY <1>2, ServiceEpochs
        <4>. QED BY <1>2, <2>2, <4>1, <4>2 DEF Behind
      <3>. QED BY <2>1, <3>1, <3>2, <3>3 DEF Registering
    <2>. QED BY <2>3
  <1>6. ASSUME NEW c \in Callers, GReload(c)
        PROVE  \A e \in Callers : Registering(e)'
    <2>1. \A e \in Callers : e # c => pc[e] = "idle" /\ pc'[e] = "idle"
      BY <1>1, <1>6, AloneHere
    <2>2. SUFFICES Registering(c)'
      BY <1>3, <2>1
    <2>3. CASE GPublish(c) /\ Store(c)
      BY <1>3, <1>4, <2>3
    <2>4. CASE ~(GPublish(c) /\ Store(c))
      <3>1. Olds' \subseteq Olds
        BY <1>4, <2>1, <2>4, OldsShrink
      <3>2. CASE GBegin(c)
        <4>1. job' = [job EXCEPT ![c] = [NoJob EXCEPT !.loader = loader]] /\ pc'[c] = "loading"
          BY <1>1, <1>6, <3>2, ReloadMoves DEF GBegin, BeginReload
        <4>2. job'[c].registered = NoTools
          BY <1>2, <4>1 DEF NoJob
        <4>. QED BY <4>1, <4>2, NoToolsType DEF Registering
      <3>3. CASE GLoaderReturns(c)
        <4>1. CASE pc'[c] # "registering"
          <5>1. pc'[c] = "idle"
            BY <1>1, <1>6, <3>3, <4>1, ReloadMoves
          <5>. QED BY <1>3, <5>1
        <4>2. CASE pc'[c] = "registering"
          <5>1. /\ job' = [job EXCEPT ![c].services = load.got] /\ pc[c] = "loading"
                /\ load.phase = "done" /\ epoch' = epoch
            BY <1>2, <3>3, <4>2, LoadAges DEF GLoaderReturns, LoaderReturns, Abandon
          <5>2. job'[c].services = load.got /\ job'[c].registered = job[c].registered
            BY <1>2, <5>1 DEF Job
          <5>3. DOMAIN job'[c].registered = {}
            BY <5>1, <5>2 DEF Registering
          <5>4. ASSUME NEW k \in DOMAIN load.got
                PROVE  Behind(Olds', load.got[k].epoch) /\ load.got[k].epoch <= epoch
            <6>1. load.since \in Nat /\ load.got[k].epoch \in load.since..epoch
              BY <1>1, EmptyLoads DEF RegularInv, Received, LoadIsRegular
            <6>2. Behind(Olds, load.since)
              BY <5>1 DEF Ages, InProgress
            <6>3. \A f \in Olds : \A n \in DOMAIN f : f[n].epoch \in Nat
              BY <1>1, OldTypes
            <6>. QED BY <1>2, <3>1, <6>1, <6>2, <6>3 DEF Behind
          <5>. QED BY <4>2, <5>1, <5>2, <5>3, <5>4 DEF Registering
        <4>. QED BY <4>1, <4>2
      <3>4. CASE GPublish(c) /\ RegisterService(c)
        <4> DEFINE d == job[c].services[job[c].done + 1]
        <4>1. /\ pc[c] = "registering" /\ pc' = pc /\ epoch' = epoch
              /\ d \in {job[c].services[k] : k \in DOMAIN job[c].services}
          BY <1>2, <3>4 DEF GPublish, RegisterService, reflectionVars, Job
        <4>2. /\ job'[c].services = job[c].services
              /\ job'[c].registered = Claim(job[c].registered, d)
          BY <1>2, <3>4 DEF RegisterService, NextService, Job
        <4>3. /\ \A k \in DOMAIN job[c].services :
                    Behind(Olds, job[c].services[k].epoch) /\ job[c].services[k].epoch <= epoch
              /\ \A n \in DOMAIN job[c].registered :
                    Behind(Olds, job[c].registered[n].epoch) /\ job[c].registered[n].epoch <= epoch
          BY <4>1 DEF Registering
        <4>4. Behind(Olds, d.epoch) /\ d.epoch <= epoch
          BY <4>1, <4>3
        <4> HIDE DEF d
        <4>5. \A n \in DOMAIN job'[c].registered :
                Behind(Olds, job'[c].registered[n].epoch) /\ job'[c].registered[n].epoch <= epoch
          BY <4>2, <4>3, <4>4 DEF Claim
        <4>. QED BY <3>1, <4>1, <4>2, <4>3, <4>5 DEF Registering, Behind
      <3>5. CASE GPublish(c) /\ (AddVersion(c) \/ SwapTools(c))
        BY <1>2, <1>3, <3>5 DEF AddVersion, SwapTools
      <3>6. CASE GLoaderFails(c) \/ GLog(c)
        BY <1>1, <1>3, <1>6, <3>6, ReloadMoves
      <3>. QED BY <1>6, <2>4, <3>2, <3>3, <3>4, <3>5, <3>6 DEF GReload, GPublish
    <2>. QED BY <2>3, <2>4
  <1>. QED BY <1>5, <1>6, OneOfTwo

AgesInv == Ages /\ SubsequentRequestsUseNewTools /\ \A c \in Callers : Registering(c)

LEMMA RequestsStep ==
  ASSUME AgreeInv, RequestsTyped, Ages, SubsequentRequestsUseNewTools, [GNext]_vars
  PROVE  SubsequentRequestsUseNewTools'
  <1> SUFFICES ASSUME NEW r \in Requests
               PROVE  /\ request'[r].phase = "refused" => request'[r].known = NoServer
                      /\ request'[r].known # NoServer /\ request'[r].bound # NoServer =>
                            \/ request'[r].known = request'[r].bound
                            \/ Advances(request'[r].known, request'[r].bound)
    BY DEF SubsequentRequestsUseNewTools, Advances
  <1>1. /\ request'[r].phase = "refused" => request[r].phase = "refused"
               \/ (request[r].phase = "arrived" /\ current = NoServer)
        /\ \/ request'[r].known = request[r].known /\ request'[r].bound = request[r].bound
           \/ request'[r].known = settled /\ request'[r].bound = NoServer
              /\ request'[r].phase = "arrived"
           \/ /\ request'[r].known = request[r].known
              /\ request'[r].bound = current /\ current' = current
    BY RequestMoves DEF AgreeInv
  <1>2. request[r].known # NoServer =>
           current # NoServer /\ (request[r].known = current \/ Advances(request[r].known, current))
    BY DEF Ages, Olds
  <1>. QED BY <1>1, <1>2 DEF SubsequentRequestsUseNewTools

LEMMA OrderOfSnapshots == GSpec => []AgesInv
  <1>1. GInit => AgesInv
    <2> SUFFICES ASSUME GInit PROVE AgesInv
      OBVIOUS
    <2>1. /\ current = NoServer /\ settled = NoServer /\ load = NoLoad
          /\ pc = [c \in Callers |-> "idle"]
          /\ \A r \in Requests : request[r].known = NoServer /\ request[r].phase = "none"
      BY DEF GInit, Init, RInit
    <2>2. Olds = {}
      BY <2>1 DEF Olds
    <2>3. Ages
      BY <2>1, <2>2, EmptyLoads DEF Ages, Behind, InProgress
    <2>. QED BY <2>1, <2>3 DEF AgesInv, SubsequentRequestsUseNewTools, Registering
  <1>2. ASSUME AgesInv, AgreeInv, CleanInv, ReloadsNeverOverlap, ReloadsNeverOverlap', [GNext]_vars
        PROVE  AgesInv'
    <2>1. RequestsTyped /\ Ages /\ SubsequentRequestsUseNewTools
          /\ \A c \in Callers : Registering(c)
      BY <1>2 DEF AgesInv, CleanInv
    <2>2. Ages'
      BY <1>2, <2>1, AgesStep
    <2>3. SubsequentRequestsUseNewTools'
      BY <1>2, <2>1, RequestsStep
    <2>4. \A c \in Callers : Registering(c)'
      BY <1>2, <2>1, RegisteringStep
    <2>. QED BY <2>2, <2>3, <2>4 DEF AgesInv
  <1>. QED BY <1>1, <1>2, Agreement, EndsCleanly, OneReloadAtATime, PTL DEF GSpec

\* For any requests, however they fall among the reloads and whatever fails: a
\* request is served from the snapshot that was settled when it arrived or from
\* one collected entirely after it, and refused only before the first reload.
THEOREM RequestsGetNewTools == GSpec => []SubsequentRequestsUseNewTools
  <1>1. AgesInv => SubsequentRequestsUseNewTools
    BY DEF AgesInv
  <1>. QED BY <1>1, OrderOfSnapshots, PTL

LEMMA SnapshotStep ==
  ASSUME AgreeInv, RequestsTyped, Ages, \A c \in Callers : Registering(c), [GNext]_vars
  PROVE  [current' # current => Advances(current, current')]_vars
  <1> SUFFICES ASSUME current' # current PROVE Advances(current, current')
    OBVIOUS
  <1>1. PICK c \in Callers : GPublish(c) /\ Store(c)
    BY OldsShrink
  <1>2. /\ current' = job[c].registered /\ current' # NoServer /\ pc[c] = "registering"
    BY <1>1, StoreAdds
  <1>3. \A n \in DOMAIN job[c].registered : Behind(Olds, job[c].registered[n].epoch)
    BY <1>2 DEF Registering
  <1>4. current # NoServer => current \in Olds
    BY DEF Olds
  <1>. QED BY <1>2, <1>3, <1>4 DEF Advances, Behind

\* For any deployments, crashes and failed or torn loads: no reload of the
\* gateway takes a service back to an earlier deployment.
THEOREM SnapshotsAreOrdered == GSpec => SnapshotsAdvance
  <1>1. ASSUME AgesInv, AgreeInv, CleanInv, [GNext]_vars
        PROVE  [current' # current => Advances(current, current')]_vars
    BY <1>1, SnapshotStep DEF AgesInv, CleanInv
  <1>. QED BY <1>1, OrderOfSnapshots, Agreement, EndsCleanly, PTL DEF GSpec, SnapshotsAdvance
------------------------------------------------------------------------------
\* The loads of a gateway are those of discovery, its streams shared with calls.
LEMMA GatewayLoads == GSpec => []LoadInv
  <1>1. GInit => LoadInv
    BY LoadInvInit DEF GInit
  <1>2. LoadInv /\ [GNext]_vars => LoadInv'
    BY ReflectionMoves, LoadInvStep
  <1>. QED BY <1>1, <1>2, PTL DEF GSpec

\* For any configured list and deployments, also under a signal and among calls
\* that take the server's streams: a load that succeeds has every service.
THEOREM GatewayLoadsAreComplete == GSpec => []LoadIsComplete
  <1>1. LoadInv => LoadIsComplete
    BY DoneIsComplete
  <1>. QED BY <1>1, GatewayLoads, PTL

------------------------------------------------------------------------------
\* What CacheTyped, TurnsToReload, LoadInv and RequestsTyped leave of GTypeOK.
LogTyped == version \in 0..MaxVersion /\ report \in [Callers -> Report]
LifeTyped ==
    /\ main \in MainPhases /\ status \in {0, 1}
    /\ loop \in LoopPhases /\ tick \in BOOLEAN /\ ctxDone \in BOOLEAN

LEMMA LogTypedStep ==
  ASSUME CacheTyped, LogTyped, [GNext]_vars
  PROVE  LogTyped'
  <1>1. CASE Other
    BY <1>1, OtherMoves DEF LogTyped, cacheVars
  <1>2. ASSUME NEW c \in Callers, GReload(c)
        PROVE  LogTyped'
    <2> USE DEF LogTyped
    <2>1. CASE GBegin(c) \/ GLoaderFails(c) \/ GLoaderReturns(c)
      <3>1. UNCHANGED <<version, report>>
        BY <2>1 DEF GBegin, GLoaderFails, GLoaderReturns, BeginReload, LoaderFails,
                    LoaderReturns, Abandon
      <3>. QED BY <3>1
    <2>2. CASE RegisterService(c) \/ Store(c)
      BY <2>2 DEF RegisterService, Store
    <2>3. CASE AddVersion(c)
      <3>1. version' \in 0..MaxVersion
        BY <2>3, VersionAssumption DEF AddVersion, Bump
      <3>2. [NoReport EXCEPT !.version = version'] \in Report
        BY <3>1, NoReportType DEF Report
      <3>. QED BY <2>3, <3>1, <3>2 DEF AddVersion
    <2>4. CASE SwapTools(c)
      <3>1. tools \in ToolMap /\ job[c].registered \in ToolMap
        BY DEF CacheTyped, Job
      <3>2. /\ AddedTools(tools, job[c].registered) \in SUBSET Names
            /\ RemovedTools(tools, job[c].registered) \in SUBSET Names
        BY <3>1, ToolMapFacts DEF AddedTools, RemovedTools
      <3>3. report' \in [Callers -> Report]
        BY <2>4, <3>2 DEF SwapTools, Report
      <3>. QED BY <2>4, <3>3 DEF SwapTools
    <2>5. CASE GLog(c)
      BY <2>5, NoReportType DEF GLog, LogReload
    <2>. QED BY <1>2, <2>1, <2>2, <2>3, <2>4, <2>5 DEF GReload, GPublish
  <1>. QED BY <1>1, <1>2, OneOfTwo

LEMMA LifeTypedStep ==
  ASSUME LifeTyped, [GNext]_vars
  PROVE  LifeTyped'
  <1> USE DEF LifeTyped
  <1>1. ASSUME NEW code \in {0, 1}, Exit(code)
        PROVE  LifeTyped'
    BY <1>1 DEF Exit, MainPhases, LoopPhases
  <1>2. ASSUME UNCHANGED lifeVars
        PROVE  LifeTyped'
    BY <1>2 DEF lifeVars
  <1>3. CASE Other
    <2>1. CASE LoadStep \/ ServerStep \/ ServerCrash
      BY <1>2, <2>1 DEF LoadStep, ServerStep, ServerCrash
    <2>2. CASE StartLoop \/ Listen \/ Signal \/ Shutdown \/ Tick \/ StopLoop
      BY <2>2 DEF StartLoop, Listen, Signal, Shutdown, Tick, StopLoop, MainPhases, LoopPhases
    <2>3. CASE ServeFails \/ Drained \/ DrainTimeout
      BY <1>1, <2>3 DEF ServeFails, Drained, DrainTimeout
    <2>4. ASSUME NEW r \in Requests, Arrive(r) \/ Serve(r) \/ ServerAnswers(r)
          PROVE  LifeTyped'
      BY <1>2, <2>4, RequestStep
    <2>5. CASE UNCHANGED vars
      BY <1>2, <2>5 DEF vars
    <2>. QED BY <1>3, <2>1, <2>2, <2>3, <2>4, <2>5 DEF Other
  <1>4. ASSUME NEW c \in Callers, GReload(c)
        PROVE  LifeTyped'
    <2>1. ASSUME NEW failed, Resume(c, failed)
          PROVE  LifeTyped'
      BY <1>1, <2>1 DEF Resume, MainPhases, LoopPhases
    <2>2. CASE GBegin(c)
      BY <2>2 DEF GBegin, StartsReload, MainPhases, LoopPhases
    <2>3. CASE GLoaderFails(c) \/ GLog(c)
      BY <2>1, <2>3 DEF GLoaderFails, GLog
    <2>4. CASE GLoaderReturns(c)
      <3>1. Resume(c, TRUE) \/ UNCHANGED lifeVars
        BY <2>4 DEF GLoaderReturns
      <3>. QED BY <1>2, <2>1, <3>1
    <2>5. CASE GPublish(c)
      BY <1>2, <2>5 DEF GPublish
    <2>. QED BY <1>4, <2>2, <2>3, <2>4, <2>5 DEF GReload
  <1>. QED BY <1>3, <1>4, OneOfTwo

\* The state of the whole gateway is of its type, for any configuration.
THEOREM GatewayTyped == GSpec => []GTypeOK
  <1>1. GInit => LogTyped /\ LifeTyped
    <2> SUFFICES ASSUME GInit PROVE LogTyped /\ LifeTyped
      OBVIOUS
    <2>1. version = 0 /\ report = [c \in Callers |-> NoReport]
          /\ main = "boot" /\ status = 0 /\ loop = "off" /\ tick = FALSE /\ ctxDone = FALSE
      BY DEF GInit, Init
    <2>2. LogTyped
      <3>1. 0 \in 0..MaxVersion
        BY VersionAssumption
      <3>. QED BY <2>1, <3>1, NoReportType DEF LogTyped
    <2>3. LifeTyped
      BY <2>1 DEF LifeTyped, MainPhases, LoopPhases
    <2>. QED BY <2>2, <2>3
  <1>2. CacheTyped /\ LogTyped /\ LifeTyped /\ [GNext]_vars => LogTyped' /\ LifeTyped'
    BY LogTypedStep, LifeTypedStep
  <1>3. AgreeInv => CacheTyped
    BY DEF AgreeInv
  <1>4. AgreeInv /\ CleanInv /\ LoadInv /\ LogTyped /\ LifeTyped => GTypeOK
    BY DEF AgreeInv, TurnsToReload, CacheTyped, CleanInv, RequestsTyped, Snapshots, LoadInv,
           LogTyped, LifeTyped, GTypeOK, TypeOK
  <1>. QED BY <1>1, <1>2, <1>3, <1>4, Agreement, EndsCleanly, GatewayLoads, PTL DEF GSpec
------------------------------------------------------------------------------
\* The results of the loads a gateway publishes: every service that is
\* configured, once and in the order of first mention, or every service listed
\* by one deployment; each as a deployment had it, none older than the one before.
LoadResults ==
    {list \in Seq(ServiceAt) :
        LET names == [i \in DOMAIN list |-> list[i].service]
        IN  /\ IF Mentioned(Filter) # {} THEN AsMentioned(names, Filter)
               ELSE \E e \in Epochs : names = SortedNames[Listing(Deployed[e])]
            /\ \A i \in DOMAIN list : list[i].service \in Deployed[list[i].epoch]
            /\ \A i, j \in DOMAIN list : i <= j => list[i].epoch <= list[j].epoch}

\* What a request finds in a gateway, whose reflection loads have no promise but
\* what they are shown to return.
Catalogs == INSTANCE Catalog WITH Results <- LoadResults, Nothing <- NoServer, served <- current

WantsFilter == InProgress => load.wanted = Filter

\* What a reload holds: nothing while it loads, then the first-come tools of the
\* services of its own load that it has come to.
Holds(c) ==
    /\ pc[c] = "loading" => job[c].done = 0 /\ job[c].registered = NoTools
    /\ pc[c] = "registering" =>
          /\ job[c].services \in LoadResults \ {<<>>}
          /\ job[c].done \in 0..Len(job[c].services)
          /\ Promise!FirstClaims(job[c].registered, job[c].services, job[c].done)

LEMMA WantsStep ==
  ASSUME RegularInv, WantsFilter, [GNext]_vars
  PROVE  WantsFilter'
  <1>1. CASE Other
    <2>1. RRun \/ UNCHANGED reflectionVars
      BY <1>1, OtherReflection
    <2>. QED BY <2>1, RunAges DEF WantsFilter
  <1>2. ASSUME NEW c \in Callers, GReload(c)
        PROVE  WantsFilter'
    <2>1. CASE GBegin(c)
      <3>1. BeginLoad(Filter)
        BY <2>1 DEF GBegin
      <3>. QED BY <3>1, BeginAges DEF WantsFilter
    <2>2. CASE GLoaderFails(c) \/ GLoaderReturns(c)
      <3>1. load'.phase = "none"
        BY <2>2, EmptyLoads DEF GLoaderFails, GLoaderReturns, EndLoad
      <3>. QED BY <3>1 DEF WantsFilter, InProgress
    <2>3. CASE GPublish(c) \/ GLog(c)
      <3>1. load' = load
        BY <2>3 DEF GPublish, GLog, reflectionVars
      <3>. QED BY <3>1 DEF WantsFilter, InProgress
    <2>. QED BY <1>2, <2>1, <2>2, <2>3 DEF GReload
  <1>. QED BY <1>1, <1>2, OneOfTwo

\* A load that is done returns one of the results.
LEMMA DoneIsResult ==
  ASSUME LoadInv, WantsFilter, load.phase = "done"
  PROVE  load.got \in LoadResults
  <1> DEFINE got == load.got
             names == [i \in DOMAIN got |-> got[i].service]
  <1>1. got \in Seq(ServiceAt) /\ load.listed \in Epochs
    BY DEF LoadInv, RegularInv, Received
  <1>2. load.wanted = Filter
    BY DEF WantsFilter, InProgress
  <1>3. IF Mentioned(Filter) # {} THEN AsMentioned(names, Filter)
        ELSE names = SortedNames[Listing(Deployed[load.listed])]
    BY <1>2, DoneIsComplete DEF LoadIsComplete
  <1>4. /\ \A i \in DOMAIN got : got[i].service \in Deployed[got[i].epoch]
        /\ \A i, j \in DOMAIN got : i <= j => got[i].epoch <= got[j].epoch
    BY DEF LoadInv, RegularInv, LoadIsRegular
  <1> HIDE DEF got
  <1>. QED BY <1>1, <1>3, <1>4 DEF LoadResults, got

LEMMA HoldsStep ==
  ASSUME LoadInv, WantsFilter, CacheTyped, TurnsToReload, \A e \in Callers : Holds(e), [GNext]_vars
  PROVE  \A e \in Callers : Holds(e)'
  <1>1. CASE Other
    BY <1>1, OtherMoves DEF Holds, cacheVars
  <1>2. ASSUME NEW c \in Callers, GReload(c)
        PROVE  \A e \in Callers : Holds(e)'
    <2> USE DEF Holds
    <2>0. job \in [Callers -> Job] /\ pc \in [Callers -> Phases] /\ job[c] \in Job
      BY DEF CacheTyped, TurnsToReload
    <2>1. ASSUME NEW e \in Callers, e # c
          PROVE  Holds(e)'
      <3>1. pc'[e] = pc[e]
        BY <1>2, <2>1, ReloadMoves
      <3>2. job'[e] = job[e]
        BY <1>2, <2>0, <2>1 DEF GReload, GBegin, GLoaderFails, GLoaderReturns, GPublish, GLog,
              BeginReload, LoaderFails, LoaderReturns, RegisterService, Abandon, Store,
              AddVersion, SwapTools, LogReload
      <3>. QED BY <3>1, <3>2
    <2>2. Holds(c)'
      <3>1. CASE GBegin(c)
        <4>1. job'[c] = [NoJob EXCEPT !.loader = loader] /\ pc'[c] = "loading"
          BY <2>0, <3>1 DEF GBegin, BeginReload
        <4>2. job'[c].done = 0 /\ job'[c].registered = NoTools
          BY <4>1 DEF NoJob
        <4>. QED BY <4>1, <4>2
      <3>2. CASE GLoaderFails(c) \/ GLog(c)
        <4>1. pc'[c] = "idle"
          BY <1>2, <3>2, ReloadMoves
        <4>. QED BY <4>1
      <3>3. CASE GLoaderReturns(c)
        <4>1. /\ load.phase = "done" /\ pc[c] = "loading" /\ LoaderReturns(c, load.got)
              /\ pc'[c] = IF load.got = <<>> THEN "idle" ELSE "registering"
          BY <1>2, <3>3, ReloadMoves DEF GLoaderReturns
        <4>2. CASE load.got = <<>>
          BY <4>1, <4>2
        <4>3. CASE load.got # <<>>
          <5> DEFINE list == load.got
          <5>1. job' = [job EXCEPT ![c].services = list]
            BY <4>1, <4>3 DEF LoaderReturns
          <5>2. list \in LoadResults /\ list \in Seq(ServiceAt)
            BY <4>1, DoneIsResult DEF LoadResults
          <5>3. 0 \in 0..Len(list)
            BY <5>2
          <5>4. Promise!FirstClaims(NoTools, list, 0)
            BY NoToolsType DEF Promise!FirstClaims, Promise!Offers
          <5> HIDE DEF list
          <5>5. /\ job'[c].services = list /\ job'[c].done = 0
                /\ job'[c].registered = NoTools
            BY <2>0, <4>1, <5>1 DEF Job
          <5>. QED BY <4>1, <4>3, <5>2, <5>3, <5>4, <5>5 DEF list
        <4>. QED BY <4>2, <4>3
      <3>4. CASE RegisterService(c)
        <4> DEFINE k == job[c].done
                   list == job[c].services
        <4>1. /\ pc[c] = "registering" /\ pc' = pc
              /\ k \in Nat /\ list \in Seq(Descriptors) /\ k < Len(list)
              /\ job[c].registered \in ToolMap
          BY <2>0, <3>4 DEF RegisterService, Job
        <4>2. job' = [job EXCEPT ![c].done = k + 1,
                                 ![c].registered = Claim(job[c].registered, list[k + 1])]
          BY <3>4 DEF RegisterService, NextService
        <4>3. /\ job'[c].services = list /\ job'[c].done = k + 1
              /\ job'[c].registered = Claim(job[c].registered, list[k + 1])
          BY <2>0, <4>2 DEF Job
        <4>4. Promise!FirstClaims(Claim(job[c].registered, list[k + 1]), list, k + 1)
          BY <4>1, ClaimExtends
        <4>5. k + 1 \in 0..Len(list)
          BY <4>1
        <4>. QED BY <4>1, <4>3, <4>4, <4>5
      <3>5. CASE Store(c) \/ AddVersion(c) \/ SwapTools(c)
        <4>1. pc'[c] \in {"stored", "versioned", "swapped"}
          BY <2>0, <3>5 DEF Store, AddVersion, SwapTools
        <4>. QED BY <4>1
      <3>. QED BY <1>2, <3>1, <3>2, <3>3, <3>4, <3>5 DEF GReload, GPublish
    <2>. QED BY <2>1, <2>2
  <1>. QED BY <1>1, <1>2, OneOfTwo

\* The snapshot changes only when one whole catalog is stored.
LEMMA ServedStep ==
  ASSUME AgreeInv, RequestsTyped, \A e \in Callers : Holds(e), [GNext]_vars
  PROVE  [Catalogs!Publish]_current
  <1> SUFFICES ASSUME current' # current PROVE Catalogs!Publish
    OBVIOUS
  <1>1. PICK c \in Callers : GPublish(c) /\ Store(c)
    BY OldsShrink
  <1> DEFINE list == job[c].services
             f == job[c].registered
  <1>2. /\ pc[c] = "registering" /\ job[c].done = Len(list) /\ current' = f
    BY <1>1 DEF Store
  <1>3. list \in LoadResults \ {<<>>} /\ Promise!FirstClaims(f, list, Len(list))
    BY <1>2 DEF Holds
  <1>4. f \in [DOMAIN f -> ServiceAt]
    <2>1. f \in ToolMap
      BY DEF AgreeInv, CacheTyped, Job
    <2>. QED BY <2>1, ToolMapFacts, GoroutinesAssumption
  <1>5. Catalogs!FirstClaims(f, list, Len(list))
    BY <1>3 DEF Promise!FirstClaims, Catalogs!FirstClaims, Promise!Offers, Catalogs!Offers
  <1>6. Catalogs!Complete(f, list) /\ f \in [Catalogs!Offers(list, Len(list)) -> ServiceAt]
    BY <1>4, <1>5 DEF Catalogs!Complete, Catalogs!FirstClaims
  <1> HIDE DEF list, f
  <1>. QED BY <1>2, <1>3, <1>6, GoroutinesAssumption DEF Catalogs!Publish

\* For any configured list, deployments, crashes, requests and signals: the
\* gateway implements the catalog.  From its start it serves nothing, and then
\* only ever the whole catalog of one load that had every configured service.
THEOREM GatewayRefinesCatalog == GSpec => Catalogs!Spec
  <1>1. GInit => Catalogs!Init /\ WantsFilter /\ \A c \in Callers : Holds(c)
    <2> SUFFICES ASSUME GInit
                 PROVE  Catalogs!Init /\ WantsFilter /\ \A c \in Callers : Holds(c)
      OBVIOUS
    <2>1. current = NoServer /\ load = NoLoad /\ pc = [c \in Callers |-> "idle"]
      BY DEF GInit, Init, RInit
    <2>. QED BY <2>1, EmptyLoads DEF Catalogs!Init, WantsFilter, InProgress, Holds
  <1> DEFINE HoldInv == WantsFilter /\ \A c \in Callers : Holds(c)
  <1>2. ASSUME HoldInv, AgreeInv, CleanInv, LoadInv, [GNext]_vars
        PROVE  HoldInv' /\ [Catalogs!Publish]_current
    <2>1. CacheTyped /\ TurnsToReload /\ RegularInv /\ RequestsTyped
      BY <1>2 DEF AgreeInv, CleanInv
    <2>. QED BY <1>2, <2>1, WantsStep, HoldsStep, ServedStep
  <1>3. GInit => HoldInv
    BY <1>1
  <1> HIDE DEF HoldInv
  <1>. QED BY <1>1, <1>2, <1>3, Agreement, EndsCleanly, GatewayLoads, PTL DEF GSpec, Catalogs!Spec
==============================================================================
