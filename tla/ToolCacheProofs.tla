--------------------------- MODULE ToolCacheProofs ---------------------------
(***************************************************************************)
(* Proofs about the tool cache, for every set of callers, loaders,         *)
(* services and tool names, whatever the loaders return.                   *)
(***************************************************************************)
EXTENDS ToolCacheAudit, Integers, FiniteSetTheorems, TLAPS

LEMMA NoToolsType == NoTools \in ToolMap /\ DOMAIN NoTools = {}
  <1>1. NoTools \in [{} -> Descriptors]
    BY DEF NoTools
  <1>. QED BY <1>1 DEF ToolMap

LEMMA ToolMapFacts ==
  ASSUME NEW f \in ToolMap
  PROVE  /\ f \in [DOMAIN f -> Descriptors]
         /\ DOMAIN f \subseteq Names
  BY DEF ToolMap

\* A service is registered on top of a well-formed tool map.
LEMMA ClaimType ==
  ASSUME NEW f \in ToolMap, NEW d \in Descriptors
  PROVE  /\ Claim(f, d) \in ToolMap
         /\ DOMAIN Claim(f, d) = DOMAIN f \cup ToolsOf[d]
  <1> DEFINE S == DOMAIN f \cup ToolsOf[d]
  <1>1. S \in SUBSET Names
    BY ToolMapFacts, ToolsAssumption
  <1>2. Claim(f, d) \in [S -> Descriptors]
    BY ToolMapFacts DEF Claim
  <1>. QED BY <1>1, <1>2 DEF ToolMap

LEMMA NoJobType == NoJob \in Job
  BY NoToolsType DEF NoJob, Job

LEMMA NoReportType == NoReport \in Report
  BY VersionAssumption DEF NoReport, Report

LEMMA ReturnsType ==
  ASSUME NEW l \in Loaders, NEW list \in Returns[l]
  PROVE  list \in Seq(Descriptors)
  BY LoadersAssumption

------------------------------------------------------------------------------
\* Every step keeps the types, one caller's step or a change of loader.
LEMMA TypeStep ==
  ASSUME TypeOK, OwnLoaderOnly, [ANext]_auditVars
  PROVE  TypeOK'
  <1> USE DEF TypeOK
  <1>1. ASSUME NEW l \in Loaders \cup {NoLoader}, SetLoader(l)
        PROVE  TypeOK'
    BY <1>1 DEF SetLoader
  <1>2. ASSUME NEW c \in Callers, BeginReload(c)
        PROVE  TypeOK'
    <2>1. [NoJob EXCEPT !.loader = loader] \in Job
      BY NoJobType DEF Job
    <2>. QED BY <1>2, <2>1 DEF BeginReload, Phases
  <1>3. ASSUME NEW c \in Callers, Abandon(c)
        PROVE  TypeOK'
    BY <1>3, NoJobType DEF Abandon, Phases
  <1>4. ASSUME NEW c \in Callers, Load(c)
        PROVE  TypeOK'
    <2>1. PICK list \in Returns[job[c].loader] : LoaderReturns(c, list)
      BY <1>4 DEF Load
    <2>2. CASE list = <<>>
      BY <2>1, <2>2, <1>3 DEF LoaderReturns
    <2>3. CASE list # <<>>
      <3>1. pc[c] = "loading"
        BY <1>4 DEF Load
      <3>2. job[c].loader \in Loaders
        BY <3>1 DEF OwnLoaderOnly, OwnResult
      <3>3. list \in Seq(Descriptors)
        BY <3>2, ReturnsType
      <3>. QED BY <2>1, <2>3, <3>3 DEF LoaderReturns, Phases, Job
    <2>. QED BY <2>2, <2>3
  <1>5. ASSUME NEW c \in Callers, RegisterService(c)
        PROVE  TypeOK'
    <2> DEFINE next == job[c].done + 1
               d == job[c].services[next]
    <2>1. /\ job[c].done \in Nat
          /\ job[c].services \in Seq(Descriptors)
          /\ job[c].registered \in ToolMap
      BY DEF Job
    <2>2. d \in Descriptors
      BY <1>5, <2>1 DEF RegisterService, NextService
    <2>3. Claim(job[c].registered, d) \in ToolMap
      BY <2>1, <2>2, ClaimType
    <2>4. job' = [job EXCEPT ![c].done = next, ![c].registered = Claim(job[c].registered, d)]
      BY <1>5 DEF RegisterService, NextService
    <2>5. job' \in [Callers -> Job]
      <3> DEFINE X == Claim(job[c].registered, d)
      <3>1. X \in ToolMap /\ next \in Nat
        BY <2>1, <2>3
      <3> HIDE DEF X, next
      <3>2. [job[c] EXCEPT !.done = next, !.registered = X] \in Job
        BY <3>1 DEF Job
      <3>3. job' = [job EXCEPT ![c] = [job[c] EXCEPT !.done = next, !.registered = X]]
        BY <2>4 DEF X
      <3>. QED BY <3>2, <3>3
    <2>. QED BY <1>5, <2>5 DEF RegisterService
  <1>6. ASSUME NEW c \in Callers, Store(c)
        PROVE  TypeOK'
    BY <1>6 DEF Store, Phases, Job
  <1>7. ASSUME NEW c \in Callers, AddVersion(c)
        PROVE  TypeOK'
    <2>1. version' \in 0..MaxVersion
      BY <1>7, VersionAssumption DEF AddVersion, Bump
    <2>2. [NoReport EXCEPT !.version = version'] \in Report
      BY <2>1, NoReportType DEF Report
    <2>. QED BY <1>7, <2>1, <2>2 DEF AddVersion, Phases
  <1>8. ASSUME NEW c \in Callers, SwapTools(c)
        PROVE  TypeOK'
    <2>1. tools \in ToolMap /\ job[c].registered \in ToolMap
      BY DEF Job
    <2>2. /\ AddedTools(tools, job[c].registered) \in SUBSET Names
          /\ RemovedTools(tools, job[c].registered) \in SUBSET Names
      BY <2>1, ToolMapFacts DEF AddedTools, RemovedTools
    <2>3. report' \in [Callers -> Report]
      BY <1>8, <2>2 DEF SwapTools, Report
    <2>. QED BY <1>8, <2>1, <2>3 DEF SwapTools, Phases
  <1>9. ASSUME NEW c \in Callers, LogReload(c)
        PROVE  TypeOK'
    BY <1>9, NoJobType, NoReportType DEF LogReload, Phases
  <1>10. CASE UNCHANGED auditVars
    BY <1>10 DEF auditVars
  <1>. QED
    BY <1>1, <1>2, <1>3, <1>4, <1>5, <1>6, <1>7, <1>8, <1>9, <1>10
       DEF ANext, AReload, ABegin, AStore, ASwap, ALog, AOther, ASetLoader,
           LoaderFails

------------------------------------------------------------------------------
\* Registering one more service keeps the map a first-come catalog.
LEMMA ClaimExtends ==
  ASSUME NEW list \in Seq(Descriptors), NEW k \in Nat, k < Len(list),
         NEW f \in ToolMap, Promise!FirstClaims(f, list, k)
  PROVE  Promise!FirstClaims(Claim(f, list[k + 1]), list, k + 1)
  <1> DEFINE d == list[k + 1]
             g == Claim(f, d)
  <1>1. d \in Descriptors
    OBVIOUS
  <1>2. DOMAIN f = Promise!Offers(list, k)
    BY DEF Promise!FirstClaims
  <1>3. DOMAIN g = DOMAIN f \cup ToolsOf[d]
    BY <1>1, ClaimType
  <1>4. Promise!Offers(list, k + 1) = Promise!Offers(list, k) \cup ToolsOf[d]
    <2>1. 1..(k + 1) = (1..k) \cup {k + 1}
      OBVIOUS
    <2>. QED BY <2>1 DEF Promise!Offers
  <1>5. ASSUME NEW n \in DOMAIN g
        PROVE  \E i \in 1..(k + 1) :
                  /\ g[n] = list[i]
                  /\ n \in ToolsOf[list[i]]
                  /\ \A j \in 1..(i - 1) : n \notin ToolsOf[list[j]]
    <2>1. CASE n \in DOMAIN f
      <3>1. g[n] = f[n]
        BY <2>1 DEF Claim
      <3>2. PICK i \in 1..k :
                  /\ f[n] = list[i]
                  /\ n \in ToolsOf[list[i]]
                  /\ \A j \in 1..(i - 1) : n \notin ToolsOf[list[j]]
        BY <2>1 DEF Promise!FirstClaims
      <3>3. i \in 1..(k + 1)
        OBVIOUS
      <3>. QED BY <3>1, <3>2, <3>3
    <2>2. CASE n \notin DOMAIN f
      <3>1. g[n] = list[k + 1]
        BY <2>2, <1>3 DEF Claim
      <3>2. n \in ToolsOf[list[k + 1]]
        BY <2>2, <1>3
      <3>3. \A j \in 1..k : n \notin ToolsOf[list[j]]
        BY <2>2, <1>2 DEF Promise!Offers
      <3>4. (k + 1) - 1 = k /\ k + 1 \in 1..(k + 1)
        OBVIOUS
      <3> HIDE DEF g, d
      <3>. QED BY <3>1, <3>2, <3>3, <3>4
    <2>. QED BY <2>1, <2>2
  <1>6. DOMAIN g = Promise!Offers(list, k + 1)
    BY <1>2, <1>3, <1>4
  <1>. QED BY <1>5, <1>6 DEF Promise!FirstClaims

\* What one caller holds is disturbed by no step of another.
LEMMA OwnResultStep ==
  ASSUME TypeOK, OwnLoaderOnly, NEW c \in Callers, AReload(c)
  PROVE  OwnResult(c)'
  <1> USE DEF OwnResult
  <1>1. OwnResult(c) /\ pc[c] \in Phases /\ job[c] \in Job
    BY DEF OwnLoaderOnly, TypeOK
  <1>2. CASE BeginReload(c)
    BY <1>2 DEF BeginReload, TypeOK, NoJob
  <1>3. CASE Abandon(c)
    BY <1>3 DEF Abandon, TypeOK
  <1>4. CASE Load(c)
    <2>1. PICK list \in Returns[job[c].loader] : LoaderReturns(c, list)
      BY <1>4 DEF Load
    <2>2. CASE list = <<>>
      BY <2>1, <2>2, <1>3 DEF LoaderReturns
    <2>3. CASE list # <<>>
      <3>1. pc[c] = "loading" /\ job[c].done = 0 /\ job[c].registered = NoTools
        BY <1>1, <2>1 DEF LoaderReturns, NoJob
      <3>2. list \in Seq(Descriptors)
        BY <1>1, <3>1, ReturnsType
      <3>3. Promise!FirstClaims(NoTools, list, 0)
        BY NoToolsType DEF Promise!FirstClaims, Promise!Offers
      <3>4. job' = [job EXCEPT ![c].services = list] /\ pc' = [pc EXCEPT ![c] = "registering"]
        BY <2>1, <2>3 DEF LoaderReturns
      <3>5. /\ job'[c].services = list /\ job'[c].done = 0
            /\ job'[c].registered = NoTools /\ job'[c].loader = job[c].loader
            /\ pc'[c] = "registering"
        BY <3>1, <3>4 DEF TypeOK, Job
      <3>6. 0 \in 0..Len(list)
        BY <3>2
      <3>. QED BY <1>1, <2>3, <3>1, <3>3, <3>5, <3>6
    <2>. QED BY <2>2, <2>3
  <1>5. CASE RegisterService(c)
    <2> DEFINE k == job[c].done
               list == job[c].services
    <2>1. /\ pc[c] = "registering" /\ pc' = pc
          /\ k \in Nat /\ list \in Seq(Descriptors) /\ k < Len(list)
          /\ job[c].registered \in ToolMap
      BY <1>1, <1>5 DEF RegisterService, Job
    <2>2. job' = [job EXCEPT ![c].done = k + 1,
                             ![c].registered = Claim(job[c].registered, list[k + 1])]
      BY <1>5 DEF RegisterService, NextService
    <2>3. /\ job'[c].services = list /\ job'[c].loader = job[c].loader
          /\ job'[c].done = k + 1
          /\ job'[c].registered = Claim(job[c].registered, list[k + 1])
      BY <2>2 DEF TypeOK, Job
    <2>4. Promise!FirstClaims(Claim(job[c].registered, list[k + 1]), list, k + 1)
      BY <1>1, <2>1, ClaimExtends
    <2>5. k + 1 \in 0..Len(list)
      BY <2>1
    <2>. QED BY <1>1, <2>1, <2>3, <2>4, <2>5
  <1>6. CASE Store(c) \/ AddVersion(c) \/ SwapTools(c)
    BY <1>1, <1>6 DEF Store, AddVersion, SwapTools, TypeOK
  <1>7. CASE LogReload(c)
    BY <1>7 DEF LogReload, TypeOK
  <1>. QED
    BY <1>2, <1>3, <1>4, <1>5, <1>6, <1>7
       DEF AReload, ABegin, AStore, ASwap, ALog, AOther, LoaderFails

\* The steps of one reload leave the locals of every other caller alone.
LEMMA OthersUnchanged ==
  ASSUME TypeOK, NEW c \in Callers, AReload(c), NEW e \in Callers, e # c
  PROVE  pc'[e] = pc[e] /\ job'[e] = job[e] /\ report'[e] = report[e]
  BY DEF TypeOK, AReload, ABegin, AStore, ASwap, ALog, AOther, BeginReload, LoaderFails,
         Load, LoaderReturns, RegisterService, Abandon, Store,
         AddVersion, SwapTools, LogReload

LEMMA OwnLoaderStep ==
  ASSUME TypeOK, OwnLoaderOnly, [ANext]_auditVars
  PROVE  OwnLoaderOnly'
  <1>1. ASSUME NEW c \in Callers, AReload(c)
        PROVE  OwnLoaderOnly'
    <2>1. ASSUME NEW e \in Callers, e # c
          PROVE  OwnResult(e)'
      BY <1>1, <2>1, OthersUnchanged DEF OwnLoaderOnly, OwnResult
    <2>2. OwnResult(c)'
      BY <1>1, OwnResultStep
    <2>. QED BY <2>1, <2>2 DEF OwnLoaderOnly
  <1>2. ASSUME NEW l \in Loaders \cup {NoLoader}, ASetLoader(l)
        PROVE  OwnLoaderOnly'
    BY <1>2 DEF ASetLoader, SetLoader, OwnLoaderOnly, OwnResult
  <1>3. CASE UNCHANGED auditVars
    BY <1>3 DEF auditVars, OwnLoaderOnly, OwnResult
  <1>. QED BY <1>1, <1>2, <1>3 DEF ANext

------------------------------------------------------------------------------
\* diffTools: adding what is new and dropping what is gone leads from the
\* previous names to the current ones.
LEMMA DiffReplays ==
  ASSUME NEW f, NEW g, NEW r, r.added = AddedTools(f, g), r.removed = RemovedTools(f, g)
  PROVE  Replay(DOMAIN f, r) = DOMAIN g
  BY DEF Replay, AddedTools, RemovedTools

LEMMA SwapReport ==
  ASSUME TypeOK, NEW c \in Callers, SwapTools(c)
  PROVE  /\ report'[c].added = AddedTools(tools, job[c].registered)
         /\ report'[c].removed = RemovedTools(tools, job[c].registered)
         /\ tools' = job[c].registered
  BY DEF SwapTools, TypeOK, Report

LEMMA TelescopeStep ==
  ASSUME TypeOK, DiffsTelescope, [ANext]_auditVars
  PROVE  DiffsTelescope'
  <1> USE DEF DiffsTelescope
  <1>1. ASSUME NEW c \in Callers, ASwap(c)
        PROVE  DiffsTelescope'
    BY <1>1, SwapReport, DiffReplays DEF ASwap
  <1>2. ASSUME NEW c \in Callers, ABegin(c) \/ AStore(c) \/ ALog(c) \/ AOther(c)
        PROVE  DiffsTelescope'
    BY <1>2 DEF ABegin, AStore, ALog, AOther, BeginReload, LoaderFails, Load,
                LoaderReturns, RegisterService, Abandon, Store,
                AddVersion, LogReload
  <1>3. ASSUME NEW l \in Loaders \cup {NoLoader}, ASetLoader(l)
        PROVE  DiffsTelescope'
    BY <1>3 DEF ASetLoader, SetLoader
  <1>4. CASE UNCHANGED auditVars
    BY <1>4 DEF auditVars
  <1>. QED BY <1>1, <1>2, <1>3, <1>4 DEF ANext, AReload

\* Without overlap the caller that takes a step is the only one reloading.
LEMMA OnlyReload ==
  ASSUME SequentialReloadsAgree, ~overlapped, NEW c \in Callers, pc[c] # "idle"
  PROVE  \A e \in Callers : e # c => pc[e] = "idle"
  BY DEF SequentialReloadsAgree

LEMMA SequentialStep ==
  ASSUME TypeOK, SequentialReloadsAgree, [ANext]_auditVars
  PROVE  SequentialReloadsAgree'
  <1> SUFFICES ASSUME ~overlapped' PROVE SequentialReloadsAgree'
    BY DEF SequentialReloadsAgree
  <1>1. ~overlapped
    BY DEF ANext, AReload, ABegin, AStore, ASwap, ALog, AOther, ASetLoader, auditVars
  <1>2. ASSUME NEW c \in Callers, ABegin(c)
        PROVE  SequentialReloadsAgree'
    <2>1. \A e \in Callers : pc[e] = "idle"
      BY <1>2 DEF ABegin, Quiet
    <2>2. tools = Served /\ logged = DOMAIN tools
      BY <1>1, <2>1 DEF SequentialReloadsAgree
    <2>3. /\ pc' = [pc EXCEPT ![c] = "loading"]
          /\ UNCHANGED <<tools, current, logged>>
      BY <1>2 DEF ABegin, BeginReload
    <2>. QED BY <2>1, <2>2, <2>3 DEF SequentialReloadsAgree, Served, TypeOK
  <1>3. ASSUME NEW c \in Callers, pc[c] \in {"loading", "registering"},
               pc' \in [Callers -> Phases], pc'[c] \in {"idle", "loading", "registering"},
               \A e \in Callers : e # c => pc'[e] = pc[e],
               UNCHANGED <<tools, current, logged>>
        PROVE  SequentialReloadsAgree'
    <2>1. \A e \in Callers : e # c => pc[e] = "idle"
      BY <1>1, <1>3, OnlyReload
    <2>2. tools = Served /\ logged = DOMAIN tools
      BY <1>1, <1>3, <2>1 DEF SequentialReloadsAgree
    <2>. QED BY <1>3, <2>1, <2>2 DEF SequentialReloadsAgree, Served
  <1>4. ASSUME NEW c \in Callers, LoaderFails(c) \/ Load(c) \/ RegisterService(c),
               UNCHANGED <<stores, diffed, logged, overlapped>>
        PROVE  SequentialReloadsAgree'
    <2>1. pc[c] \in {"loading", "registering"} /\ UNCHANGED <<tools, current>>
      BY <1>4 DEF LoaderFails, Load, LoaderReturns, RegisterService, Abandon
    <2>2. \/ pc' = pc
          \/ pc' = [pc EXCEPT ![c] = "idle"]
          \/ pc' = [pc EXCEPT ![c] = "registering"]
      BY <1>4 DEF LoaderFails, Load, LoaderReturns, RegisterService, Abandon
    <2>. QED BY <1>3, <1>4, <2>1, <2>2 DEF TypeOK, Phases
  <1>5. ASSUME NEW c \in Callers, AStore(c)
        PROVE  SequentialReloadsAgree'
    <2>1. /\ pc[c] = "registering" /\ pc' = [pc EXCEPT ![c] = "stored"]
          /\ current' = job[c].registered /\ UNCHANGED <<tools, logged, job>>
      BY <1>5 DEF AStore, Store
    <2>2. \A e \in Callers : e # c => pc[e] = "idle"
      BY <1>1, <2>1, OnlyReload
    <2>3. logged = DOMAIN tools
      BY <1>1, <2>1, <2>2 DEF SequentialReloadsAgree
    <2>. QED BY <2>1, <2>2, <2>3 DEF SequentialReloadsAgree, TypeOK
  <1>6. ASSUME NEW c \in Callers, AddVersion(c), UNCHANGED logged
        PROVE  SequentialReloadsAgree'
    <2>1. /\ pc[c] = "stored" /\ pc' = [pc EXCEPT ![c] = "versioned"]
          /\ UNCHANGED <<tools, current, job>>
      BY <1>6 DEF AddVersion
    <2>2. \A e \in Callers : e # c => pc[e] = "idle"
      BY <1>1, <2>1, OnlyReload
    <2>3. current = job[c].registered /\ logged = DOMAIN tools
      BY <1>1, <2>1 DEF SequentialReloadsAgree
    <2>. QED BY <1>6, <2>1, <2>2, <2>3 DEF SequentialReloadsAgree, TypeOK
  <1>7. ASSUME NEW c \in Callers, ASwap(c)
        PROVE  SequentialReloadsAgree'
    <2>1. /\ pc[c] = "versioned" /\ pc' = [pc EXCEPT ![c] = "swapped"]
          /\ UNCHANGED <<current, logged>>
      BY <1>7 DEF ASwap, SwapTools
    <2>2. \A e \in Callers : e # c => pc[e] = "idle"
      BY <1>1, <2>1, OnlyReload
    <2>3. current = job[c].registered /\ logged = DOMAIN tools
      BY <1>1, <2>1 DEF SequentialReloadsAgree
    <2>4. tools' = job[c].registered /\ Replay(logged, report'[c]) = DOMAIN tools'
      BY <1>7, <2>3, SwapReport, DiffReplays DEF ASwap
    <2>5. current # NoServer
      BY <2>3, ToolsAssumption DEF TypeOK, Job
    <2>6. tools' = Served'
      BY <2>1, <2>3, <2>4, <2>5 DEF Served
    <2>. QED BY <2>1, <2>2, <2>4, <2>6 DEF SequentialReloadsAgree, TypeOK
  <1>8. ASSUME NEW c \in Callers, ALog(c)
        PROVE  SequentialReloadsAgree'
    <2>1. /\ pc[c] = "swapped" /\ pc' = [pc EXCEPT ![c] = "idle"]
          /\ logged' = Replay(logged, report[c])
          /\ UNCHANGED <<current, tools>>
      BY <1>8 DEF ALog, LogReload
    <2>2. \A e \in Callers : e # c => pc[e] = "idle"
      BY <1>1, <2>1, OnlyReload
    <2>3. tools = Served /\ DOMAIN tools = Replay(logged, report[c])
      BY <1>1, <2>1 DEF SequentialReloadsAgree
    <2>. QED BY <2>1, <2>2, <2>3 DEF SequentialReloadsAgree, TypeOK, Served
  <1>9. ASSUME NEW l \in Loaders \cup {NoLoader}, ASetLoader(l)
        PROVE  SequentialReloadsAgree'
    BY <1>1, <1>9 DEF ASetLoader, SetLoader, SequentialReloadsAgree, Served
  <1>10. CASE UNCHANGED auditVars
    BY <1>1, <1>10 DEF auditVars, SequentialReloadsAgree, Served
  <1>. QED
    BY <1>2, <1>4, <1>5, <1>6, <1>7, <1>8, <1>9, <1>10 DEF ANext, AReload, AOther

------------------------------------------------------------------------------
IInv == TypeOK /\ OwnLoaderOnly /\ DiffsTelescope /\ SequentialReloadsAgree

\* The conjunction is inductive: a caller's registered map is only well typed
\* because its services came from a loader, hence OwnLoaderOnly beside TypeOK.
LEMMA Inductive == ASpec => []IInv
  <1>1. AInit => IInv
    <2> SUFFICES ASSUME AInit PROVE IInv
      OBVIOUS
    <2>1. TypeOK
      BY NoToolsType, NoJobType, NoReportType, VersionAssumption
         DEF AInit, Init, TypeOK, Phases
    <2>2. OwnLoaderOnly
      BY DEF AInit, Init, OwnLoaderOnly, OwnResult
    <2>3. DiffsTelescope
      BY NoToolsType DEF AInit, Init, DiffsTelescope
    <2>4. SequentialReloadsAgree
      BY NoToolsType DEF AInit, Init, SequentialReloadsAgree, Served
    <2>. QED BY <2>1, <2>2, <2>3, <2>4 DEF IInv
  <1>2. IInv /\ [ANext]_auditVars => IInv'
    BY TypeStep, OwnLoaderStep, TelescopeStep, SequentialStep DEF IInv
  <1>. QED BY <1>1, <1>2, PTL DEF ASpec

\* The variables of the cache and of every reload in progress keep their
\* types: only well-formed tool maps are published or kept.
THEOREM TypeCorrect == ASpec => []TypeOK
  <1>1. IInv => TypeOK
    BY DEF IInv
  <1>. QED BY <1>1, Inductive, PTL

\* A reload registers only services its own loader returned, first come first
\* served, whatever loader is set and whoever else reloads meanwhile.
THEOREM RegistersOwnLoad == ASpec => []OwnLoaderOnly
  <1>1. IInv => OwnLoaderOnly
    BY DEF IInv
  <1>. QED BY <1>1, Inductive, PTL

\* The added and removed names reported by any interleaving of reloads compose
\* to the names of the tool map.
THEOREM ReportsTelescope == ASpec => []DiffsTelescope
  <1>1. IInv => DiffsTelescope
    BY DEF IInv
  <1>. QED BY <1>1, Inductive, PTL

\* Reloads that never overlap keep pointer, tool map and log in agreement.
THEOREM SequentialAgreement == ASpec => []SequentialReloadsAgree
  <1>1. IInv => SequentialReloadsAgree
    BY DEF IInv
  <1>. QED BY <1>1, Inductive, PTL

------------------------------------------------------------------------------
\* Every step of the cache publishes one complete catalog or changes nothing a
\* reader of Current can see.
LEMMA PublishStep ==
  ASSUME IInv, [ANext]_auditVars
  PROVE  [Promise!Publish]_current
  <1>1. ASSUME NEW c \in Callers, AStore(c)
        PROVE  Promise!Publish
    <2> DEFINE list == job[c].services
               f == job[c].registered
    <2>1. /\ pc[c] = "registering" /\ job[c].done = Len(list) /\ current' = f
      BY <1>1 DEF AStore, Store
    <2>2. /\ job[c].loader \in Loaders
          /\ list \in Returns[job[c].loader] \ {<<>>}
          /\ Promise!FirstClaims(f, list, Len(list))
      BY <2>1 DEF IInv, OwnLoaderOnly, OwnResult
    <2>3. f \in [DOMAIN f -> Descriptors]
      BY ToolMapFacts DEF IInv, TypeOK, Job
    <2>4. DOMAIN f = Promise!Offers(list, Len(list))
      BY <2>2 DEF Promise!FirstClaims
    <2>5. Promise!Complete(f, list) /\ f \in [Promise!Offers(list, Len(list)) -> Descriptors]
      BY <2>2, <2>3, <2>4 DEF Promise!Complete
    <2>6. list \in (UNION {Returns[l] : l \in Loaders}) \ {<<>>}
      BY <2>2
    <2> HIDE DEF list, f
    <2>. QED BY <2>1, <2>5, <2>6 DEF Promise!Publish
  <1>2. ASSUME NEW c \in Callers, ABegin(c) \/ ASwap(c) \/ ALog(c) \/ AOther(c)
        PROVE  UNCHANGED current
    BY <1>2 DEF ABegin, ASwap, ALog, AOther, BeginReload, LoaderFails, Load,
                LoaderReturns, RegisterService, Abandon, SwapTools,
                AddVersion, LogReload
  <1>3. ASSUME NEW l \in Loaders \cup {NoLoader}, ASetLoader(l)
        PROVE  UNCHANGED current
    BY <1>3 DEF ASetLoader, SetLoader
  <1>4. CASE UNCHANGED auditVars
    BY <1>4 DEF auditVars
  <1>. QED BY <1>1, <1>2, <1>3, <1>4 DEF ANext, AReload

\* The cache implements the catalog: failed, empty and half-registered reloads
\* are invisible, and a published catalog is only ever replaced by another.
THEOREM RefinesCatalog == ASpec => ImplementsCatalog
  <1>1. AInit => Promise!Init
    BY DEF AInit, Init, Promise!Init
  <1>2. IInv /\ [ANext]_auditVars => [Promise!Publish]_current
    BY PublishStep
  <1>. QED BY <1>1, <1>2, Inductive, PTL DEF ASpec, ImplementsCatalog, Promise!Spec

------------------------------------------------------------------------------
\* Arithmetic of a counter that wraps at M.
LEMMA RemainderUnique ==
  ASSUME NEW M \in Nat \ {0}, NEW a \in Nat, NEW w \in Nat, NEW r \in 0..(M - 1),
         a = r + w * M
  PROVE  a % M = r
  OBVIOUS

LEMMA Quotient ==
  ASSUME NEW M \in Nat \ {0}, NEW a \in Nat
  PROVE  \E r \in 0..(M - 1) : \E w \in Nat : a = r + w * M
  <1> DEFINE q == a \div M
             r == a % M
  <1>1. q \in Nat /\ r \in 0..(M - 1)
    OBVIOUS
  <1>2. a = r + q * M
    OBVIOUS
  <1> HIDE DEF q, r
  <1>. QED BY <1>1, <1>2

\* A full turn leaves the counter where it was.
LEMMA RemainderTurn ==
  ASSUME NEW M \in Nat \ {0}, NEW a \in Nat
  PROVE  (a + M) % M = a % M
  <1>1. PICK r \in 0..(M - 1) : \E w \in Nat : a = r + w * M
    BY Quotient
  <1>2. PICK w \in Nat : a = r + w * M
    BY <1>1
  <1> DEFINE b == a + M
             v == w + 1
  <1>3. b \in Nat /\ v \in Nat /\ b = r + v * M
    BY <1>2
  <1>4. b % M = r
    <2> HIDE DEF b, v
    <2>. QED BY <1>3, RemainderUnique
  <1>. QED BY <1>2, <1>4, RemainderUnique

LEMMA RemainderNext ==
  ASSUME NEW M \in Nat \ {0}, NEW a \in Nat
  PROVE  (a + 1) % M = IF a % M = M - 1 THEN 0 ELSE (a % M) + 1
  <1>1. PICK r \in 0..(M - 1) : \E w \in Nat : a = r + w * M
    BY Quotient
  <1>2. PICK w \in Nat : a = r + w * M
    BY <1>1
  <1>3. a % M = r
    BY <1>2, RemainderUnique
  <1> DEFINE b == a + 1
  <1>4. CASE r = M - 1
    <2> DEFINE v == w + 1
    <2>1. b \in Nat /\ v \in Nat /\ 0 \in 0..(M - 1) /\ b = 0 + v * M
      BY <1>2, <1>4
    <2>2. b % M = 0
      <3> HIDE DEF b, v
      <3>. QED BY <2>1, RemainderUnique
    <2>. QED BY <1>3, <1>4, <2>2
  <1>5. CASE r # M - 1
    <2> DEFINE t == r + 1
    <2>1. b \in Nat /\ t \in 0..(M - 1) /\ b = t + w * M
      BY <1>2, <1>5
    <2>2. b % M = t
      <3> HIDE DEF b, t
      <3>. QED BY <2>1, RemainderUnique
    <2>. QED BY <1>3, <1>5, <2>2
  <1>. QED BY <1>4, <1>5

LEMMA BumpIsNext ==
  ASSUME NEW a \in Nat
  PROVE  (a + 1) % (MaxVersion + 1) = Bump(a % (MaxVersion + 1))
  <1>1. MaxVersion + 1 \in Nat \ {0} /\ (MaxVersion + 1) - 1 = MaxVersion
    BY VersionAssumption
  <1>. QED BY <1>1, RemainderNext, VersionAssumption DEF Bump

LEMMA StoringFinite == IsFiniteSet(Storing) /\ Cardinality(Storing) \in Nat
  BY CallersAssumption, FS_Subset, FS_CardinalityType DEF Storing

LEMMA VersionStep ==
  ASSUME TypeOK, VersionCountsStores, [ANext]_auditVars
  PROVE  VersionCountsStores'
  <1> DEFINE M == MaxVersion + 1
             n == Cardinality(Storing)
  <1>1. n \in Nat /\ version \in 0..MaxVersion /\ MaxVersion \in Nat /\ (version + n) % M = stores
    BY StoringFinite, VersionAssumption DEF TypeOK, VersionCountsStores
  <1>2. ASSUME NEW c \in Callers, AStore(c)
        PROVE  VersionCountsStores'
    <2>1. c \notin Storing /\ Storing' = Storing \cup {c}
      BY <1>2 DEF AStore, Store, Storing, TypeOK
    <2>2. Cardinality(Storing') = n + 1
      BY <2>1, StoringFinite, FS_AddElement
    <2>3. version' = version /\ stores' = Bump(stores)
      BY <1>2 DEF AStore, Store
    <2>4. (version + n) + 1 = version + (n + 1) /\ version + n \in Nat
      BY <1>1
    <2>5. ((version + n) + 1) % M = Bump((version + n) % M)
      BY <2>4, BumpIsNext
    <2>. QED BY <1>1, <2>2, <2>3, <2>4, <2>5 DEF VersionCountsStores
  <1>3. ASSUME NEW c \in Callers, AddVersion(c), UNCHANGED stores
        PROVE  VersionCountsStores'
    <2>1. c \in Storing /\ Storing' = Storing \ {c}
      BY <1>3 DEF AddVersion, Storing, TypeOK
    <2>2. Cardinality(Storing') = n - 1 /\ n # 0
      BY <2>1, StoringFinite, FS_RemoveElement, FS_EmptySet
    <2>3. version' = Bump(version)
      BY <1>3 DEF AddVersion
    <2>4. CASE version # MaxVersion
      <3>1. version' + (n - 1) = version + n
        BY <1>1, <2>3, <2>4 DEF Bump
      <3>. QED BY <1>1, <1>3, <2>2, <3>1 DEF VersionCountsStores
    <2>5. CASE version = MaxVersion
      <3>1. version' = 0 /\ n - 1 \in Nat
        BY <1>1, <2>2, <2>3, <2>5 DEF Bump
      <3>2. version + n = (n - 1) + M /\ version' + (n - 1) = n - 1
        BY <1>1, <2>5, <3>1
      <3>3. ((n - 1) + M) % M = (n - 1) % M
        <4> DEFINE a == n - 1
        <4>1. M \in Nat \ {0} /\ a \in Nat
          BY <1>1, <3>1
        <4> HIDE DEF a, M
        <4>. QED BY <4>1, RemainderTurn DEF a
      <3>. QED BY <1>1, <1>3, <2>2, <3>2, <3>3 DEF VersionCountsStores
    <2>. QED BY <2>4, <2>5
  <1>4. ASSUME UNCHANGED <<version, stores>>, Storing' = Storing
        PROVE  VersionCountsStores'
    BY <1>4 DEF VersionCountsStores
  <1>5. ASSUME NEW c \in Callers, pc[c] # "stored", pc'[c] # "stored",
               \A e \in Callers : e # c => pc'[e] = pc[e]
        PROVE  Storing' = Storing
    BY <1>5 DEF Storing
  <1>6. ASSUME NEW c \in Callers, ABegin(c) \/ ASwap(c) \/ ALog(c)
        PROVE  VersionCountsStores'
    <2>1. pc[c] # "stored" /\ pc'[c] # "stored" /\ UNCHANGED <<version, stores>>
      BY <1>6 DEF ABegin, ASwap, ALog, BeginReload, SwapTools, LogReload, TypeOK
    <2>. QED BY <1>4, <1>5, <1>6, <2>1, OthersUnchanged DEF AReload
  <1>7. ASSUME NEW c \in Callers, AOther(c), ~AddVersion(c)
        PROVE  VersionCountsStores'
    <2>1. pc[c] # "stored" /\ pc'[c] # "stored" /\ UNCHANGED <<version, stores>>
      BY <1>7 DEF AOther, LoaderFails, Load, LoaderReturns, RegisterService,
                  Abandon, TypeOK
    <2>. QED BY <1>4, <1>5, <1>7, <2>1, OthersUnchanged DEF AReload
  <1>8. ASSUME NEW l \in Loaders \cup {NoLoader}, ASetLoader(l)
        PROVE  VersionCountsStores'
    BY <1>4, <1>8 DEF ASetLoader, SetLoader, Storing
  <1>9. CASE UNCHANGED auditVars
    BY <1>4, <1>9 DEF auditVars, Storing
  <1>. QED
    BY <1>2, <1>3, <1>6, <1>7, <1>8, <1>9 DEF ANext, AReload, AOther

\* The version a caller reads is the number of stores, modulo the width of the
\* counter, less the reloads that have stored and not yet counted themselves.
THEOREM VersionCounts == ASpec => []VersionCountsStores
  <1>1. AInit => VersionCountsStores
    <2> SUFFICES ASSUME AInit PROVE VersionCountsStores
      OBVIOUS
    <2>1. Storing = {}
      BY DEF AInit, Init, Storing
    <2>2. Cardinality(Storing) = 0
      BY <2>1, FS_EmptySet
    <2>3. 0 % (MaxVersion + 1) = 0
      BY VersionAssumption, RemainderUnique, 0 = 0 + 0 * (MaxVersion + 1)
    <2>. QED BY <2>2, <2>3 DEF AInit, Init, VersionCountsStores
  <1>2. TypeOK /\ VersionCountsStores /\ [ANext]_auditVars => VersionCountsStores'
    BY VersionStep
  <1>. QED BY <1>1, <1>2, TypeCorrect, PTL DEF ASpec
==============================================================================
