--------------------------- MODULE ToolCacheAudit ----------------------------
(***************************************************************************)
(* ToolCache with history variables, and the properties of the cache.      *)
(* The history is what an operator who reads the log, or a caller of       *)
(* Version, could reconstruct; the cache's own steps are unchanged.        *)
(***************************************************************************)
EXTENDS ToolCache, FiniteSets

VARIABLES
    stores,     \* stores of the pointer so far, counted as the version is
    diffed,     \* tool names, replaying the differences in the order computed
    logged,     \* tool names, replaying the differences in the order logged
    overlapped  \* two reloads were in progress at once

ASSUME CallersAssumption == IsFiniteSet(Callers)

auditVars == <<loader, current, version, tools, pc, job, report,
          stores, diffed, logged, overlapped>>

Replay(names, r) == (names \cup r.added) \ r.removed

Storing == {c \in Callers : pc[c] = "stored"}
Quiet == \A c \in Callers : pc[c] = "idle"

AInit ==
    /\ Init
    /\ stores = 0
    /\ diffed = {}
    /\ logged = {}
    /\ overlapped = FALSE

ABegin(c) ==
    /\ BeginReload(c)
    /\ overlapped' = (overlapped \/ ~Quiet)
    /\ UNCHANGED <<stores, diffed, logged>>

AStore(c) ==
    /\ Store(c)
    /\ stores' = Bump(stores)
    /\ UNCHANGED <<diffed, logged, overlapped>>

ASwap(c) ==
    /\ SwapTools(c)
    /\ diffed' = Replay(diffed, report'[c])
    /\ UNCHANGED <<stores, logged, overlapped>>

ALog(c) ==
    /\ LogReload(c)
    /\ logged' = Replay(logged, report[c])
    /\ UNCHANGED <<stores, diffed, overlapped>>

AOther(c) ==
    /\ \/ LoaderFails(c)
       \/ Load(c)
       \/ RegisterService(c)
       \/ AddVersion(c)
    /\ UNCHANGED <<stores, diffed, logged, overlapped>>

ASetLoader(l) ==
    /\ SetLoader(l)
    /\ UNCHANGED <<stores, diffed, logged, overlapped>>

AReload(c) == ABegin(c) \/ AStore(c) \/ ASwap(c) \/ ALog(c) \/ AOther(c)

ANext ==
    \/ \E l \in Loaders \cup {NoLoader} : ASetLoader(l)
    \/ \E c \in Callers : AReload(c)

ASpec == AInit /\ [][ANext]_auditVars

------------------------------------------------------------------------------
\* Whatever goroutines reload at once, whichever of them fail, and whatever
\* loader is set meanwhile, a reader of Current sees nothing or one complete
\* first-come catalog: a failed or half-registered reload is never visible.
ImplementsCatalog == Promise!Spec

\* The version counts the stores of the pointer, behind by exactly the
\* reloads between c.current.Store and c.version.Add (modulo the bound).
VersionCountsStores ==
    (version + Cardinality(Storing)) % (MaxVersion + 1) = stores

\* The differences reloads compute compose: replaying them in the order of
\* the mutex gives exactly the names of c.tools, for any concurrent reloads.
DiffsTelescope == diffed = DOMAIN tools

Served == IF current = NoServer THEN NoTools ELSE current

\* As long as reloads never overlapped, the tool map, the served snapshot and
\* the sum of the log's tools_added and tools_removed agree between reloads,
\* and inside one they part only between the store of the pointer and the log.
SequentialReloadsAgree ==
    ~overlapped =>
        /\ \A c, e \in Callers : pc[c] # "idle" /\ pc[e] # "idle" => c = e
        /\ \A c \in Callers : pc[c] \in {"stored", "versioned"} =>
              current = job[c].registered /\ logged = DOMAIN tools
        /\ \A c \in Callers : pc[c] = "swapped" =>
              tools = Served /\ DOMAIN tools = Replay(logged, report[c])
        /\ (\A c \in Callers : pc[c] \in {"idle", "loading", "registering"}) =>
              tools = Served /\ logged = DOMAIN tools

\* A Reload that began under one loader registers only what that loader
\* returned, though SetLoader may have replaced the loader since, and at every
\* moment holds the first-come catalog of the services it has come to.
OwnResult(c) ==
    /\ pc[c] # "idle" => job[c].loader \in Loaders
    /\ pc[c] = "loading" => job[c] = [NoJob EXCEPT !.loader = job[c].loader]
    /\ pc[c] \notin {"idle", "loading"} =>
          /\ job[c].services \in Returns[job[c].loader] \ {<<>>}
          /\ job[c].done \in 0..Len(job[c].services)
          /\ Promise!FirstClaims(job[c].registered, job[c].services, job[c].done)

OwnLoaderOnly == \A c \in Callers : OwnResult(c)
==============================================================================
