------------------------------ MODULE ToolCache ------------------------------
(***************************************************************************)
(* internal/toolcache/cache.go: the snapshot of MCP tools that requests    *)
(* are served from, and the reload that replaces it.                       *)
(*                                                                         *)
(* Any number of goroutines (Callers) may be inside Reload at once, and    *)
(* SetLoader may run at any time.  A reload is split where another         *)
(* goroutine can see the difference: the loader is read under the mutex,   *)
(* the load and the registration of the services work on the goroutine's   *)
(* own data, and the three writes that publish the result (the pointer,    *)
(* the version, the tool map) are separate steps, only the last of which   *)
(* holds the mutex.  The log line comes after all of them.                 *)
(*                                                                         *)
(* A *mcp.Server is represented by the tools registered in it, a map from  *)
(* tool names to the service descriptors whose methods they call.          *)
(***************************************************************************)
EXTENDS ToolMaps, Naturals, Sequences

CONSTANTS
    Callers,      \* goroutines that call Reload
    Loaders,      \* the Loader values SetLoader is called with
    NoLoader,     \* a nil Loader
    Descriptors,  \* service descriptors
    Names,        \* tool names
    Returns,      \* Returns[l]: the lists of descriptors the loader l may return
    NoServer,     \* the nil *mcp.Server held before the first reload
    MaxVersion    \* the largest value of the unsigned version counter

ToolMap == UNION {[S -> Descriptors] : S \in SUBSET Names}

NoTools == [n \in {} |-> NoServer]

ASSUME LoadersAssumption ==
    /\ NoLoader \notin Loaders
    /\ Returns \in [Loaders -> SUBSET Seq(Descriptors)]
ASSUME ToolsAssumption ==
    /\ ToolsOf \in [Descriptors -> SUBSET Names]
    /\ NoServer \notin ToolMap
ASSUME VersionAssumption == MaxVersion \in Nat \ {0}

VARIABLES
    loader,   \* c.loader, guarded by c.mu
    current,  \* c.current, an atomic pointer
    version,  \* c.version, an atomic counter
    tools,    \* c.tools, guarded by c.mu
    pc,       \* pc[c]: how far the Reload of caller c has come
    job,      \* job[c]: the local variables of that Reload
    report    \* report[c]: the version and the difference it is about to log

cacheVars == <<loader, current, version, tools, pc, job, report>>

Phases == {"idle", "loading", "registering", "stored", "versioned", "swapped"}

Job == [loader : Loaders \cup {NoLoader}, services : Seq(Descriptors),
        done : Nat, registered : ToolMap]
Report == [version : 0..MaxVersion, added : SUBSET Names, removed : SUBSET Names]

NoJob == [loader |-> NoLoader, services |-> <<>>, done |-> 0, registered |-> NoTools]
NoReport == [version |-> 0, added |-> {}, removed |-> {}]

\* atomic.Uint64.Add(1), with MaxVersion for the largest uint64
Bump(v) == IF v = MaxVersion THEN 0 ELSE v + 1

Init ==
    /\ loader \in Loaders
    /\ current = NoServer
    /\ version = 0
    /\ tools = NoTools
    /\ pc = [c \in Callers |-> "idle"]
    /\ job = [c \in Callers |-> NoJob]
    /\ report = [c \in Callers |-> NoReport]

SetLoader(l) ==
    /\ loader' = l
    /\ UNCHANGED <<current, version, tools, pc, job, report>>

\* A nil loader ends the reload with an error at once.
BeginReload(c) ==
    /\ pc[c] = "idle"
    /\ loader # NoLoader
    /\ pc' = [pc EXCEPT ![c] = "loading"]
    /\ job' = [job EXCEPT ![c] = [NoJob EXCEPT !.loader = loader]]
    /\ UNCHANGED <<loader, current, version, tools, report>>

\* Mutants of Abandon: a failed reload forgets the tool map, or withdraws the
\* snapshot that is being served.
AbandonForgettingTools(c) ==
    /\ pc' = [pc EXCEPT ![c] = "idle"]
    /\ job' = [job EXCEPT ![c] = NoJob]
    /\ tools' = NoTools
    /\ UNCHANGED <<loader, current, version, report>>
AbandonWithdrawing(c) ==
    /\ pc' = [pc EXCEPT ![c] = "idle"]
    /\ job' = [job EXCEPT ![c] = NoJob]
    /\ current' = NoServer
    /\ UNCHANGED <<loader, tools, version, report>>

\* An error return of Reload: it drops its own data and nothing else.
Abandon(c) ==
    /\ pc' = [pc EXCEPT ![c] = "idle"]
    /\ job' = [job EXCEPT ![c] = NoJob]
    /\ UNCHANGED <<loader, current, version, tools, report>>

LoaderFails(c) ==
    /\ pc[c] = "loading"
    /\ Abandon(c)

LoaderReturns(c, list) ==
    /\ pc[c] = "loading"
    /\ \/ /\ list = <<>>
          /\ Abandon(c)
       \/ /\ list # <<>>
          /\ pc' = [pc EXCEPT ![c] = "registering"]
          /\ job' = [job EXCEPT ![c].services = list]
          /\ UNCHANGED <<loader, current, version, tools, report>>

NextService(c) == job[c].services[job[c].done + 1]

\* RegisterTools cannot fail here: its errors are for a nil server, connection,
\* descriptor or input type.  Reload makes the server, main dials the connection
\* or ends, and no Loader of the code puts a nil descriptor in its list.
RegisterService(c) ==
    /\ pc[c] = "registering"
    /\ job[c].done < Len(job[c].services)
    /\ job' = [job EXCEPT ![c].done = @ + 1,
                          ![c].registered = Claim(@, NextService(c))]
    /\ UNCHANGED <<loader, current, version, tools, pc, report>>

\* Mutants of Store: before every service is registered, or only the first time.
StoreEarly(c) ==
    /\ pc[c] = "registering"
    /\ current' = job[c].registered
    /\ pc' = [pc EXCEPT ![c] = "stored"]
    /\ UNCHANGED <<loader, version, tools, job, report>>
StoreIfUnset(c) ==
    /\ pc[c] = "registering"
    /\ job[c].done = Len(job[c].services)
    /\ current' = IF current = NoServer THEN job[c].registered ELSE current
    /\ pc' = [pc EXCEPT ![c] = "stored"]
    /\ UNCHANGED <<loader, version, tools, job, report>>

\* c.current.Store(server)
Store(c) ==
    /\ pc[c] = "registering"
    /\ job[c].done = Len(job[c].services)
    /\ current' = job[c].registered
    /\ pc' = [pc EXCEPT ![c] = "stored"]
    /\ UNCHANGED <<loader, version, tools, job, report>>

\* Mutant of AddVersion: the increment of a version read earlier.
AddVersionFromLocal(c) ==
    /\ pc[c] = "stored"
    /\ version' = Bump(report[c].version)
    /\ report' = [report EXCEPT ![c] = [NoReport EXCEPT !.version = version']]
    /\ pc' = [pc EXCEPT ![c] = "versioned"]
    /\ UNCHANGED <<loader, current, tools, job>>

\* version := c.version.Add(1)
AddVersion(c) ==
    /\ pc[c] = "stored"
    /\ version' = Bump(version)
    /\ report' = [report EXCEPT ![c] = [NoReport EXCEPT !.version = version']]
    /\ pc' = [pc EXCEPT ![c] = "versioned"]
    /\ UNCHANGED <<loader, current, tools, job>>

\* Mutant of SwapTools: the difference to the snapshot, which is stored already.
SwapToolsAfterServed(c) ==
    /\ pc[c] = "versioned"
    /\ report' = [report EXCEPT
            ![c].added = AddedTools(current, job[c].registered),
            ![c].removed = RemovedTools(current, job[c].registered)]
    /\ tools' = job[c].registered
    /\ pc' = [pc EXCEPT ![c] = "swapped"]
    /\ UNCHANGED <<loader, current, version, job>>

\* diffTools and the swap of c.tools, under c.mu
SwapTools(c) ==
    /\ pc[c] = "versioned"
    /\ report' = [report EXCEPT
            ![c].added = AddedTools(tools, job[c].registered),
            ![c].removed = RemovedTools(tools, job[c].registered)]
    /\ tools' = job[c].registered
    /\ pc' = [pc EXCEPT ![c] = "swapped"]
    /\ UNCHANGED <<loader, current, version, job>>

LogReload(c) ==
    /\ pc[c] = "swapped"
    /\ pc' = [pc EXCEPT ![c] = "idle"]
    /\ job' = [job EXCEPT ![c] = NoJob]
    /\ report' = [report EXCEPT ![c] = NoReport]
    /\ UNCHANGED <<loader, current, version, tools>>

\* Mutant of Load: the loader is read again, after the mutex was released.
LoadAgain(c) ==
    /\ pc[c] = "loading"
    /\ loader # NoLoader
    /\ \E list \in Returns[loader] : LoaderReturns(c, list)

\* loader(ctx, c.conn, c.services) returns, whatever c.loader is by now.
Load(c) ==
    /\ pc[c] = "loading"
    /\ \E list \in Returns[job[c].loader] : LoaderReturns(c, list)

Reload(c) ==
    \/ BeginReload(c)
    \/ LoaderFails(c)
    \/ Load(c)
    \/ RegisterService(c)
    \/ Store(c)
    \/ AddVersion(c)
    \/ SwapTools(c)
    \/ LogReload(c)

Next ==
    \/ \E l \in Loaders \cup {NoLoader} : SetLoader(l)
    \/ \E c \in Callers : Reload(c)

Spec == Init /\ [][Next]_cacheVars

TypeOK ==
    /\ loader \in Loaders \cup {NoLoader}
    /\ current \in ToolMap \cup {NoServer}
    /\ version \in 0..MaxVersion
    /\ tools \in ToolMap
    /\ pc \in [Callers -> Phases]
    /\ job \in [Callers -> Job]
    /\ report \in [Callers -> Report]

\* What a reader of Current may rely on.
Promise == INSTANCE Catalog WITH
    Results <- UNION {Returns[l] : l \in Loaders},
    Nothing <- NoServer,
    served <- current
==============================================================================
