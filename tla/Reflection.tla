----------------------------- MODULE Reflection ------------------------------
(***************************************************************************)
(* internal/discovery/discovery.go: LoadServices over gRPC reflection,     *)
(* against a downstream server that is redeployed while the load runs.     *)
(*                                                                         *)
(* The load makes one reflection call to list the services (none when the  *)
(* gateway is configured with service names) and one per service for its   *)
(* descriptor.  Every call opens a stream of its own, sends one request    *)
(* and receives one reply; no call ever closes its stream, so the stream   *)
(* lives until the connection breaks or the context of the load ends.      *)
(*                                                                         *)
(* The server is external: it is modelled as far as the calls can tell.    *)
(* Deployed[e] is the set of services of its e-th deployment.  A           *)
(* descriptor is told apart by the service and the deployment it is from.  *)
(***************************************************************************)
EXTENDS ServiceNames

CONSTANTS
    Deployed,     \* a sequence of sets of services, one per deployment
    StreamLimit,  \* streams the server admits on a connection, 0 for any number
    MaxFaults     \* bound: crashes and bad answers of the server

ASSUME DeploymentsAssumption ==
    /\ Deployed \in Seq(SUBSET Services)
    /\ Deployed # <<>>
ASSUME LimitAssumption == StreamLimit \in Nat /\ MaxFaults \in Nat

VARIABLES
    epoch,    \* the deployment the server runs, or ran before it stopped
    up,       \* the server accepts calls
    faults,   \* crashes and bad answers so far
    streams,  \* reflection streams open on the connection (if StreamLimit > 0)
    load      \* the LoadServices call in progress

reflectionVars == <<epoch, up, faults, streams, load>>

Epochs == 1..Len(Deployed)
ServiceAt == [service : Services, epoch : Epochs]

LoadPhases == {"none", "opening", "sent", "replied", "broken", "done", "failed"}
Reply == [kind : {"nothing", "names", "descriptor", "error"},
          names : SUBSET Services, epoch : Epochs]
NoReply == [kind |-> "nothing", names |-> {}, epoch |-> 1]

NoLoad == [phase |-> "none", wanted |-> <<>>, listing |-> FALSE, todo |-> <<>>, got |-> <<>>,
           reply |-> NoReply, since |-> 1, listed |-> 1]

Loading == load.phase \in {"opening", "sent", "replied", "broken"}

\* Streams counted against the limit, with the tool calls that are under way.
Room(calls) == StreamLimit = 0 \/ streams + calls < StreamLimit

RInit ==
    /\ epoch = 1
    /\ up \in BOOLEAN
    /\ faults = 0
    /\ streams = 0
    /\ load = NoLoad

\* A configuration that names no service asks for all.
BeginLoad(wanted) ==
    /\ load.phase = "none"
    /\ load' = [NoLoad EXCEPT !.phase = "opening", !.wanted = wanted,
                              !.todo = NamesOf(wanted), !.listing = (NamesOf(wanted) = <<>>),
                              !.since = epoch, !.listed = epoch]
    /\ UNCHANGED <<epoch, up, faults, streams>>

\* ServerReflectionInfo and Send: blocks while the server admits no stream.
OpenStream(calls) ==
    /\ load.phase = "opening"
    /\ up
    /\ Room(calls)
    /\ streams' = IF StreamLimit = 0 THEN 0 ELSE streams + 1
    /\ load' = [load EXCEPT !.phase = "sent"]
    /\ UNCHANGED <<epoch, up, faults>>

FailLoad == load' = [NoLoad EXCEPT !.phase = "failed"]

OpenFails ==
    /\ load.phase = "opening"
    /\ ~up
    /\ FailLoad
    /\ UNCHANGED <<epoch, up, faults, streams>>

\* The server answers from the deployment it runs now.
Answer ==
    /\ load.phase = "sent"
    /\ up
    /\ load' = [load EXCEPT !.phase = "replied",
            !.reply = [kind |-> IF load.listing THEN "names"
                                ELSE IF Head(load.todo) \in Deployed[epoch]
                                     THEN "descriptor" ELSE "error",
                       names |-> IF load.listing THEN Deployed[epoch] ELSE {},
                       epoch |-> epoch]]
    /\ UNCHANGED <<epoch, up, faults, streams>>

\* An error response, or a descriptor that does not decode.
AnswerBadly ==
    /\ load.phase = "sent"
    /\ up
    /\ faults < MaxFaults
    /\ faults' = faults + 1
    /\ load' = [load EXCEPT !.phase = "replied", !.reply.kind = "error"]
    /\ UNCHANGED <<epoch, up, streams>>

ReceiveNames ==
    /\ load.phase = "replied"
    /\ load.reply.kind = "names"
    /\ LET names == SortedNames[Listing(load.reply.names)]
       IN  load' = [load EXCEPT !.phase = IF names = <<>> THEN "done" ELSE "opening",
                                !.listing = FALSE, !.todo = names, !.reply = NoReply,
                                !.listed = load.reply.epoch]
    /\ UNCHANGED <<epoch, up, faults, streams>>

\* Mutant of ReceiveDescriptor: the descriptors come out in reverse.
ReceiveDescriptorPrepending ==
    /\ load.phase = "replied"
    /\ load.reply.kind = "descriptor"
    /\ LET found == [service |-> Head(load.todo), epoch |-> load.reply.epoch]
       IN  load' = [load EXCEPT !.phase = IF Len(load.todo) = 1 THEN "done" ELSE "opening",
                                !.todo = Tail(load.todo), !.reply = NoReply,
                                !.got = <<found>> \o load.got]
    /\ UNCHANGED <<epoch, up, faults, streams>>

ReceiveDescriptor ==
    /\ load.phase = "replied"
    /\ load.reply.kind = "descriptor"
    /\ LET found == [service |-> Head(load.todo), epoch |-> load.reply.epoch]
       IN  load' = [load EXCEPT !.phase = IF Len(load.todo) = 1 THEN "done" ELSE "opening",
                                !.todo = Tail(load.todo), !.reply = NoReply,
                                !.got = Append(load.got, found)]
    /\ UNCHANGED <<epoch, up, faults, streams>>

\* Mutant of ReceiveError: a service that is not found is left out.
ReceiveErrorSkipping ==
    /\ load.phase = "replied"
    /\ load.reply.kind = "error"
    /\ load.todo # <<>>
    /\ load' = [load EXCEPT !.phase = IF Len(load.todo) = 1 THEN "done" ELSE "opening",
                            !.todo = Tail(load.todo), !.reply = NoReply]
    /\ UNCHANGED <<epoch, up, faults, streams>>

\* Mutant of ReceiveError: the error of LoadService is not looked at, and the
\* nil descriptor that comes with it is kept.
ReceiveErrorKeepingNil ==
    /\ load.phase = "replied"
    /\ load.reply.kind = "error"
    /\ load.todo # <<>>
    /\ load' = [load EXCEPT !.phase = IF Len(load.todo) = 1 THEN "done" ELSE "opening",
                            !.todo = Tail(load.todo), !.reply = NoReply,
                            !.got = Append(load.got, [service |-> Blank, epoch |-> load.reply.epoch])]
    /\ UNCHANGED <<epoch, up, faults, streams>>

\* One failed call fails the whole load.
ReceiveError ==
    /\ \/ load.phase = "broken"
       \/ load.phase = "replied" /\ load.reply.kind = "error"
    /\ FailLoad
    /\ UNCHANGED <<epoch, up, faults, streams>>

\* The context of the load ends, and with it every stream opened under it.
CancelLoad ==
    /\ Loading
    /\ FailLoad
    /\ streams' = 0
    /\ UNCHANGED <<epoch, up, faults>>

\* LoadServices returns to Reload.
EndLoad ==
    /\ load.phase \in {"done", "failed"}
    /\ load' = NoLoad
    /\ UNCHANGED <<epoch, up, faults, streams>>

\* The connection breaks; a reply on its way may be received or lost.
Crash ==
    /\ up
    /\ faults < MaxFaults
    /\ faults' = faults + 1
    /\ up' = FALSE
    /\ streams' = 0
    /\ \/ /\ load.phase \in {"sent", "replied"}
          /\ load' = [load EXCEPT !.phase = "broken"]
       \/ /\ load.phase # "sent"
          /\ UNCHANGED load
    /\ UNCHANGED epoch

Restart ==
    /\ ~up
    /\ up' = TRUE
    /\ epoch' \in {epoch, epoch + 1} \cap Epochs
    /\ UNCHANGED <<faults, streams, load>>

RNext(wanted) ==
    \/ BeginLoad(wanted)
    \/ OpenStream(0) \/ OpenFails \/ Answer \/ AnswerBadly
    \/ ReceiveNames \/ ReceiveDescriptor \/ ReceiveError \/ CancelLoad \/ EndLoad
    \/ Crash \/ Restart

ReflectionTypeOK ==
    /\ epoch \in Epochs
    /\ up \in BOOLEAN
    /\ faults \in 0..MaxFaults
    /\ streams \in Nat
    /\ load \in [phase : LoadPhases, wanted : Seq(Entries(Services)), listing : BOOLEAN,
                 todo : Seq(Services), got : Seq(ServiceAt), reply : Reply,
                 since : Epochs, listed : Epochs]

------------------------------------------------------------------------------
\* What a load has collected was deployed while the load ran: each descriptor
\* comes from a deployment between its start and now that has the service, and
\* a later descriptor never from an earlier deployment.  Descriptors of two
\* deployments do meet in one load when a redeploy falls between its calls.
LoadIsRegular ==
    LET got == load.got IN
    /\ load.since <= load.listed /\ load.listed <= epoch
    /\ \A i \in DOMAIN got :
          /\ got[i].epoch \in load.since..epoch
          /\ load.listed <= got[i].epoch
          /\ got[i].service \in Deployed[got[i].epoch]
    /\ \A i, j \in DOMAIN got : i <= j => got[i].epoch <= got[j].epoch

\* A load that succeeds returns one descriptor for every service that the
\* configuration names, however often and however spelled, in the order of
\* first mention; or else for every service listed by one deployment.  None is
\* skipped and none comes twice, however its calls fell among the redeploys.
LoadIsComplete ==
    load.phase = "done" =>
        LET names == [i \in DOMAIN load.got |-> load.got[i].service] IN
        IF Mentioned(load.wanted) # {} THEN AsMentioned(names, load.wanted)
        ELSE names = SortedNames[Listing(Deployed[load.listed])]
==============================================================================
