------------------------------ MODULE Gateway --------------------------------
(***************************************************************************)
(* cmd/mcp-grpc-gateway/main.go: one run of the gateway process.  It puts  *)
(* the parts together: the tool cache (ToolCache), the reflection load     *)
(* behind its loader (Reflection), the reload loop of Cache.Run, the MCP   *)
(* requests served from the cache, and the life of the process from its    *)
(* first reload to its exit.                                               *)
(*                                                                         *)
(* Two goroutines reload: main, once, before it listens, and then the loop *)
(* started with `go cache.Run`.  An MCP request is one tools/call: it is   *)
(* bound to the snapshot current when its handler starts, and its gRPC     *)
(* call competes with the reflection streams for the server's streams.     *)
(***************************************************************************)
EXTENDS ToolCache, Reflection, FiniteSets

CONSTANTS
    Main, Loop,    \* the two goroutines that reload
    Live,          \* the default loader, discovery.LoadServices
    Filter,        \* cfg.services
    Requests,      \* MCP requests
    AskedFor,      \* AskedFor[r]: the tool that request r calls
    MaxRequests,   \* bound: requests that arrive in one run
    Interval,      \* cfg.reloadInterval > 0
    CallTimeout    \* cfg.toolCallTimeout > 0

ASSUME GoroutinesAssumption ==
    /\ Main # Loop
    /\ Callers = {Main, Loop}
    /\ Loaders = {Live}
    /\ Descriptors = ServiceAt
ASSUME ConfigAssumption ==
    /\ Filter \in Filters
    /\ Interval \in BOOLEAN
    /\ CallTimeout \in BOOLEAN
ASSUME RequestsAssumption ==
    /\ \A r \in Requests : AskedFor[r] \in Names
    /\ MaxRequests \in Nat

VARIABLES
    main,     \* where run() is
    status,   \* the exit status, once main = "exited"
    loop,     \* where Cache.Run is
    tick,     \* the ticker's channel, which holds one tick
    ctxDone,  \* the context of run() is cancelled: SIGINT or SIGTERM arrived
    request,  \* request[r]: its phase, the snapshot it is bound to, and (history)
              \* the snapshot that was settled when it arrived
    settled   \* history: the snapshot of the last reload that succeeded

lifeVars == <<main, status, loop, tick, ctxDone>>
vars == <<cacheVars, reflectionVars, lifeVars, request, settled>>

MainPhases == {"boot", "reloading", "starting", "listening", "serving", "draining", "exited"}
LoopPhases == {"off", "start", "first", "waiting", "again", "stopped"}
Ended == {"refused", "unknown", "ok", "error", "timeout", "starved", "dropped"}
RequestPhases == {"none", "arrived", "calling", "sent", "answered", "broken"} \cup Ended

Busy(r) == request[r].phase \notin Ended \cup {"none"}
Calls == Cardinality({r \in Requests : request[r].phase = "sent"})

Alive == main # "exited"

GInit ==
    /\ Init
    /\ RInit
    /\ main = "boot"
    /\ status = 0
    /\ loop = "off"
    /\ tick = FALSE
    /\ ctxDone = FALSE
    /\ request = [r \in Requests |->
                    [phase |-> "none", known |-> NoServer, bound |-> NoServer]]
    /\ settled = NoServer
------------------------------------------------------------------------------
\* Mutant of Exit: an exit status that is neither success nor failure.
ExitNextStatus(code) ==
    /\ main' = "exited"
    /\ status' = code + 1
    /\ loop' = IF loop = "off" THEN "off" ELSE "stopped"
    /\ tick' = FALSE
    /\ request' = request
    /\ UNCHANGED ctxDone

\* The process ends: its goroutines and connections go with it.
Exit(code) ==
    /\ main' = "exited"
    /\ status' = code
    /\ loop' = IF loop = "off" THEN "off" ELSE "stopped"
    /\ tick' = FALSE
    /\ request' = [r \in Requests |->
                    IF Busy(r) THEN [request[r] EXCEPT !.phase = "dropped"] ELSE request[r]]
    /\ UNCHANGED ctxDone

\* Mutant of Resume: the loop ends with the first reload that fails.
ResumeUnlessFailed(c, failed) ==
    \/ /\ c = Main
       /\ main' = "starting"
       /\ UNCHANGED <<status, loop, tick, ctxDone, request>>
    \/ /\ c = Loop
       /\ loop' = IF failed THEN "stopped" ELSE "waiting"
       /\ UNCHANGED <<main, status, tick, ctxDone, request>>

\* What the goroutine c does when its Reload returns.  main gives up only if
\* the context ended; the loop does so after its first reload, and otherwise
\* ignores errors and leaves the context to its select.
Resume(c, failed) ==
    \/ /\ c = Main
       /\ \/ failed /\ ctxDone /\ Exit(1)
          \/ /\ ~(failed /\ ctxDone)
             /\ main' = "starting"
             /\ UNCHANGED <<status, loop, tick, ctxDone, request>>
    \/ /\ c = Loop
       /\ loop' = IF loop = "first" /\ failed /\ ctxDone THEN "stopped" ELSE "waiting"
       /\ UNCHANGED <<main, status, tick, ctxDone, request>>

StartsReload(c) ==
    \/ /\ c = Main
       /\ main = "boot"
       /\ main' = "reloading"
       /\ UNCHANGED <<status, loop, tick, ctxDone>>
    \/ /\ c = Loop
       /\ loop = "start"
       /\ loop' = "first"
       /\ UNCHANGED <<main, status, tick, ctxDone>>
    \/ /\ c = Loop
       /\ loop = "waiting"
       /\ tick
       /\ tick' = FALSE
       /\ loop' = "again"
       /\ UNCHANGED <<main, status, ctxDone>>

GBegin(c) ==
    /\ Alive
    /\ StartsReload(c)
    /\ BeginReload(c)
    /\ BeginLoad(Filter)
    /\ UNCHANGED <<request, settled>>

\* LoadServices returns an error.
GLoaderFails(c) ==
    /\ Alive
    /\ load.phase = "failed"
    /\ LoaderFails(c)
    /\ EndLoad
    /\ Resume(c, TRUE)
    /\ UNCHANGED settled

\* LoadServices returns descriptors, or none at all.
GLoaderReturns(c) ==
    /\ Alive
    /\ load.phase = "done"
    /\ LoaderReturns(c, load.got)
    /\ EndLoad
    /\ IF load.got = <<>> THEN Resume(c, TRUE) ELSE UNCHANGED <<lifeVars, request>>
    /\ UNCHANGED settled

GPublish(c) ==
    /\ Alive
    /\ RegisterService(c) \/ Store(c) \/ AddVersion(c) \/ SwapTools(c)
    /\ UNCHANGED <<reflectionVars, lifeVars, request, settled>>

GLog(c) ==
    /\ Alive
    /\ LogReload(c)
    /\ Resume(c, FALSE)
    /\ settled' = job[c].registered
    /\ UNCHANGED reflectionVars

\* One step of a Reload.
GReload(c) ==
    \/ GBegin(c) \/ GLoaderFails(c) \/ GLoaderReturns(c) \/ GPublish(c) \/ GLog(c)
------------------------------------------------------------------------------
\* Mutant of LoadStep: a load that does not watch its context.
LoadStepDetached ==
    /\ Alive
    /\ \/ OpenStream(Calls) \/ OpenFails
       \/ ReceiveNames \/ ReceiveDescriptor \/ ReceiveError
    /\ UNCHANGED <<cacheVars, lifeVars, request, settled>>

\* The client side of the reflection calls, and the server side.
LoadStep ==
    /\ Alive
    /\ \/ OpenStream(Calls) \/ OpenFails
       \/ ReceiveNames \/ ReceiveDescriptor \/ ReceiveError
       \/ ctxDone /\ CancelLoad
    /\ UNCHANGED <<cacheVars, lifeVars, request, settled>>

ServerStep ==
    /\ Alive
    /\ Answer \/ AnswerBadly \/ Restart
    /\ UNCHANGED <<cacheVars, lifeVars, request, settled>>

\* The connection breaks under the calls as well as under the load.
ServerCrash ==
    /\ Alive
    /\ Crash
    /\ request' = [r \in Requests |->
            IF request[r].phase \in {"sent", "answered"}
            THEN [request[r] EXCEPT !.phase = "broken"] ELSE request[r]]
    /\ UNCHANGED <<cacheVars, lifeVars, settled>>
------------------------------------------------------------------------------
\* Mutant of StartLoop: the loop is started beside main's own reload.
StartLoopDuringBoot ==
    /\ main \in {"reloading", "starting"}
    /\ main' = IF main = "starting" THEN "listening" ELSE main
    /\ loop' = IF loop = "off" THEN "start" ELSE loop
    /\ UNCHANGED <<status, tick, ctxDone, request, settled, cacheVars, reflectionVars>>

\* if cfg.reloadInterval > 0 { go cache.Run(...) }
StartLoop ==
    /\ main = "starting"
    /\ main' = "listening"
    /\ loop' = IF Interval THEN "start" ELSE "off"
    /\ UNCHANGED <<status, tick, ctxDone, request, settled, cacheVars, reflectionVars>>

Listen ==
    /\ main = "listening"
    /\ main' = "serving"
    /\ UNCHANGED <<status, loop, tick, ctxDone, request, settled, cacheVars, reflectionVars>>

\* net.Listen fails, or Serve returns an error of the listener.
ServeFails ==
    /\ main \in {"listening", "serving"}
    /\ Exit(1)
    /\ UNCHANGED <<settled, cacheVars, reflectionVars>>

Signal ==
    /\ Alive
    /\ ~ctxDone
    /\ ctxDone' = TRUE
    /\ UNCHANGED <<main, status, loop, tick, request, settled, cacheVars, reflectionVars>>

\* case <-ctx.Done(): server.Shutdown closes the listener and waits.
Shutdown ==
    /\ main = "serving"
    /\ ctxDone
    /\ main' = "draining"
    /\ UNCHANGED <<status, loop, tick, ctxDone, request, settled, cacheVars, reflectionVars>>

\* Mutant of Drained: exits without waiting for the requests.
DrainedAtOnce ==
    /\ main = "draining"
    /\ Exit(0)
    /\ UNCHANGED <<settled, cacheVars, reflectionVars>>

\* Shutdown returns nil; what Serve left in errCh is the closing of the server,
\* or an error of the listener that came at the time of the signal.
Drained ==
    /\ main = "draining"
    /\ \A r \in Requests : ~Busy(r)
    /\ Exit(0) \/ Exit(1)
    /\ UNCHANGED <<settled, cacheVars, reflectionVars>>

\* The 10 seconds of shutdownCtx are over.
DrainTimeout ==
    /\ main = "draining"
    /\ \E r \in Requests : Busy(r)
    /\ Exit(1)
    /\ UNCHANGED <<settled, cacheVars, reflectionVars>>

\* The ticker exists once Run has made its first reload.
Tick ==
    /\ loop \in {"waiting", "again"}
    /\ ~tick
    /\ tick' = TRUE
    /\ UNCHANGED <<main, status, loop, ctxDone, request, settled, cacheVars, reflectionVars>>

StopLoop ==
    /\ loop = "waiting"
    /\ ctxDone
    /\ loop' = "stopped"
    /\ UNCHANGED <<main, status, tick, ctxDone, request, settled, cacheVars, reflectionVars>>
------------------------------------------------------------------------------
Step(r, from, to) ==
    /\ Alive
    /\ request[r].phase = from
    /\ request' = [request EXCEPT ![r].phase = to]
    /\ UNCHANGED <<cacheVars, reflectionVars, lifeVars, settled>>

Arrive(r) ==
    /\ main = "serving"
    /\ request[r].phase = "none"
    /\ Cardinality({q \in Requests : request[q].phase # "none"}) < MaxRequests
    /\ request' = [request EXCEPT ![r] =
            [phase |-> "arrived", known |-> settled, bound |-> NoServer]]
    /\ UNCHANGED <<cacheVars, reflectionVars, lifeVars, settled>>

\* provider.Current(): no server yet is refused with 400, a tool that the
\* snapshot does not have with an error result.
Bind(r) ==
    \/ current = NoServer /\ Step(r, "arrived", "refused")
    \/ /\ Alive
       /\ request[r].phase = "arrived"
       /\ current # NoServer
       /\ request' = [request EXCEPT ![r].bound = current,
              ![r].phase = IF AskedFor[r] \in DOMAIN current THEN "calling" ELSE "unknown"]
       /\ UNCHANGED <<cacheVars, reflectionVars, lifeVars, settled>>

\* conn.Invoke waits for a stream, and fails at once when the server is down.
Send(r) == up /\ Room(Calls) /\ Step(r, "calling", "sent")
SendFails(r) == ~up /\ Step(r, "calling", "error")

\* The server knows the method if it still has the service.
Callee(r) == request[r].bound[AskedFor[r]].service

ServerAnswers(r) ==
    /\ up
    /\ request[r].phase = "sent"
    /\ \/ Callee(r) \in Deployed[epoch] /\ Step(r, "sent", "answered")
       \/ Callee(r) \notin Deployed[epoch] /\ Step(r, "sent", "broken")

ReceiveAnswer(r) == Step(r, "answered", "ok") \/ Step(r, "broken", "error")

\* Mutant of Deadline: covers the wait for a stream, not the answer.
DeadlineBeforeSend(r) ==
    CallTimeout /\ up /\ ~Room(Calls) /\ Step(r, "calling", "starved")

\* context.WithTimeout(ctx, toolCallTimeout).  The deadline races the answer;
\* before the call is sent it can only expire while the call waits for a stream.
Deadline(r) ==
    /\ CallTimeout
    /\ \/ Step(r, "sent", "timeout")
       \/ Step(r, "answered", "timeout")
       \/ up /\ ~Room(Calls) /\ Step(r, "calling", "starved")

Serve(r) == Bind(r) \/ Send(r) \/ SendFails(r) \/ ReceiveAnswer(r) \/ Deadline(r)

Terminated == ~Alive /\ UNCHANGED vars

GNext ==
    \/ \E c \in Callers : GReload(c)
    \/ LoadStep \/ ServerStep \/ ServerCrash
    \/ StartLoop \/ Listen \/ ServeFails \/ Signal \/ Shutdown \/ Drained \/ DrainTimeout
    \/ Tick \/ StopLoop
    \/ \E r \in Requests : Arrive(r) \/ Serve(r) \/ ServerAnswers(r)
    \/ Terminated

GSpec == GInit /\ [][GNext]_vars
GTypeOK ==
    /\ TypeOK
    /\ ReflectionTypeOK
    /\ main \in MainPhases /\ status \in {0, 1}
    /\ loop \in LoopPhases /\ tick \in BOOLEAN /\ ctxDone \in BOOLEAN
    /\ request \in [Requests -> [phase : RequestPhases,
                known : ToolMap \cup {NoServer}, bound : ToolMap \cup {NoServer}]]
    /\ settled \in ToolMap \cup {NoServer}

------------------------------------------------------------------------------
\* The two goroutines never reload at once: main's only reload is over before
\* the loop is started, and the loop makes one at a time.  The cache relies on
\* it for its log and tool map, the snapshots for their order.
ReloadsNeverOverlap ==
    \A c, e \in Callers : pc[c] # "idle" /\ pc[e] # "idle" => c = e

\* g was collected entirely after f: no service goes back to a deployment
\* older than one that f has seen.
Advances(f, g) ==
    /\ g # NoServer
    /\ f # NoServer => \A n \in DOMAIN f, m \in DOMAIN g : f[n].epoch <= g[m].epoch

\* A new snapshot never takes a service back to an earlier deployment, and the
\* last good one is kept for as long as reloads fail.
SnapshotsAdvance == [][current' # current => Advances(current, current')]_vars

\* "When a reload succeeds, subsequent MCP requests use the new tool set": a
\* request is bound to the snapshot settled when it arrived or a later one, and
\* is refused only if no reload had succeeded.
SubsequentRequestsUseNewTools ==
    \A r \in Requests :
        LET k == request[r].known
            b == request[r].bound
        IN  /\ request[r].phase = "refused" => k = NoServer
            /\ k # NoServer /\ b # NoServer => k = b \/ Advances(k, b)

\* Outside a publication the tool map that the next difference is computed
\* against is the snapshot being served, also after reloads that failed or were
\* cut short by a cancelled context.
QuietAgreement ==
    (\A c \in Callers : pc[c] \in {"idle", "loading", "registering"}) =>
        /\ tools = IF current = NoServer THEN NoTools ELSE current
        /\ settled = current

\* Exit status 0 means that a signal came while the gateway served, and that
\* every request accepted before or after it was answered.
CleanExit ==
    main = "exited" /\ status = 0 =>
        ctxDone /\ \A r \in Requests : request[r].phase # "dropped"

------------------------------------------------------------------------------
\* The goroutines and timers of the process run.  Nothing is assumed of the
\* server here: a call may never be answered.
GatewayFairness ==
    /\ \A c \in Callers : WF_vars(GReload(c))
    /\ WF_vars(LoadStep)
    /\ WF_vars(StartLoop) /\ WF_vars(Listen)
    /\ WF_vars(Shutdown) /\ WF_vars(Drained) /\ WF_vars(DrainTimeout)
    /\ WF_vars(Tick) /\ WF_vars(StopLoop)
    /\ \A r \in Requests : WF_vars(Serve(r))

\* A downstream that comes back after a crash and answers what it receives.
ServerFairness ==
    /\ WF_vars(ServerStep)
    /\ \A r \in Requests : WF_vars(ServerAnswers(r))

FairSpec == GSpec /\ GatewayFairness
HealthySpec == FairSpec /\ ServerFairness

\* Every accepted request gets an answer, from a server that may be down, stay
\* silent or be out of streams, unless the process ends first.
Answered ==
    \A r \in Requests : request[r].phase = "arrived" ~> request[r].phase \in Ended

\* A signal ends the process whatever it is doing: loading with a silent
\* server, between boot and listening, serving, or draining.
Stops == ctxDone ~> main = "exited"

Latest ==
    LET names == IF NamesOf(Filter) # <<>> THEN NamesOf(Filter)
                 ELSE SortedNames[Listing(Deployed[epoch])]
    IN  [i \in DOMAIN names |-> [service |-> names[i], epoch |-> epoch]]

\* With a reload interval and a server that recovers and answers, the gateway
\* ends up serving the deployment that the server ends up running, whatever
\* reloads failed or were torn on the way.
Converges ==
    ServerFairness /\ Interval =>
        <>[](\/ ctxDone \/ main = "exited"
             \/ current # NoServer /\ Promise!Complete(current, Latest))

\* "initial tool cache reload failed; gateway will keep retrying"
KeepsRetrying == <>(current # NoServer \/ ctxDone \/ main = "exited")

\* "invokes the selected RPC when an MCP client calls the tool": no call ends
\* unsent while the server is up.
InvokesSelectedRPC == \A r \in Requests : request[r].phase # "starved"
==============================================================================
