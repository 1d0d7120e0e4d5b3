---------------------------- MODULE RegisterTools ----------------------------
(***************************************************************************)
(* internal/gateway/gateway.go: RegisterTools, called by Reload for one    *)
(* service after another with one name map, over the methods of each.      *)
(*                                                                         *)
(* A method is told apart by what the loop asks of it: whether it streams, *)
(* whether it is annotated, the name it asks for and what becomes of its   *)
(* content template.  A name is the sequence of its parts, so that the     *)
(* prefix of a service and a long name can make the same one.              *)
(***************************************************************************)
EXTENDS Naturals, Sequences

CONSTANTS
    Services,    \* service descriptors
    Methods,     \* method descriptors
    Names,       \* tool names, as sequences of parts
    MethodsOf,   \* MethodsOf[d]: the methods of the service d, in order
    Streaming,   \* the methods that stream in either direction
    Annotated,   \* the methods with a tool annotation
    ToolPrefix,  \* ToolPrefix[d]: annotations.ForService(d).ToolPrefix
    BaseName,    \* BaseName[m]: annotations.ForMethod(m).Name
    BadTemplate, \* the methods whose content template does not parse
    RequireToolAnnotations,
    Batches      \* the lists of services Reload registers

ASSUME MethodsAssumption ==
    /\ MethodsOf \in [Services -> Seq(Methods)]
    /\ \A d \in Services : \A b \in DOMAIN MethodsOf[d] :
          ToolPrefix[d] \o BaseName[MethodsOf[d][b]] \in Names
ASSUME BatchesAssumption == Batches \subseteq Seq(Services)

VARIABLES
    services,   \* the services of this reload
    s,          \* index of the service whose methods are being registered
    i,          \* index of the next method of that service
    server,     \* the tools added to the *mcp.Server: name to method
    registered, \* registeredToolNames: name to service
    warned,     \* methods a warning was logged for
    entry       \* history: registered when RegisterTools was called for s

vars == <<services, s, i, server, registered, warned, entry>>

NoTools == [n \in {} |-> {}]

Put(f, n, v) == [k \in DOMAIN f \cup {n} |-> IF k = n THEN v ELSE f[k]]

Fresh(list) ==
    /\ services' = list
    /\ s' = 1
    /\ i' = 1
    /\ server' = NoTools
    /\ registered' = NoTools
    /\ warned' = {}
    /\ entry' = NoTools

Init ==
    /\ services \in Batches
    /\ s = 1
    /\ i = 1
    /\ server = NoTools
    /\ registered = NoTools
    /\ warned = {}
    /\ entry = NoTools

Service == services[s]
Method == MethodsOf[Service][i]

\* Mutant of Name: the prefix is left out.
NameUnprefixed == BaseName[Method]
\* meta.Name = cfg.serviceToolPrefix + meta.Name
Name == ToolPrefix[Service] \o BaseName[Method]

InLoop == s \in 1..Len(services) /\ i \in 1..Len(MethodsOf[Service])

Wanted(m) == m \notin Streaming /\ (RequireToolAnnotations => m \in Annotated)

\* continue, without a word
SkipMethod ==
    /\ InLoop
    /\ ~Wanted(Method)
    /\ i' = i + 1
    /\ UNCHANGED <<services, s, server, registered, warned, entry>>

\* Mutant: the later method replaces the earlier one.
CollideOverwriting ==
    /\ InLoop
    /\ Wanted(Method)
    /\ Name \in DOMAIN registered
    /\ server' = Put(server, Name, Method)
    /\ registered' = Put(registered, Name, Service)
    /\ warned' = warned \cup {Method}
    /\ i' = i + 1
    /\ UNCHANGED <<services, s, entry>>

\* "tool name collision": the name stays with its service.
Collide ==
    /\ InLoop
    /\ Wanted(Method)
    /\ Name \in DOMAIN registered
    /\ warned' = warned \cup {Method}
    /\ i' = i + 1
    /\ UNCHANGED <<services, s, server, registered, entry>>

\* Mutant: the name is claimed before the template is parsed.
DropTemplateClaiming ==
    /\ InLoop
    /\ Wanted(Method)
    /\ Name \notin DOMAIN registered
    /\ Method \in BadTemplate
    /\ registered' = Put(registered, Name, Service)
    /\ warned' = warned \cup {Method}
    /\ i' = i + 1
    /\ UNCHANGED <<services, s, server, entry>>

\* Mutant: a template that does not parse is skipped like a streaming method.
DropTemplateSilently ==
    /\ InLoop
    /\ Wanted(Method)
    /\ Name \notin DOMAIN registered
    /\ Method \in BadTemplate
    /\ i' = i + 1
    /\ UNCHANGED <<services, s, server, registered, warned, entry>>

\* "invalid tool content template": the method does not get its name.
DropTemplate ==
    /\ InLoop
    /\ Wanted(Method)
    /\ Name \notin DOMAIN registered
    /\ Method \in BadTemplate
    /\ warned' = warned \cup {Method}
    /\ i' = i + 1
    /\ UNCHANGED <<services, s, server, registered, entry>>

\* registerTool, then registeredToolNames[meta.Name] = service
RegisterMethod ==
    /\ InLoop
    /\ Wanted(Method)
    /\ Name \notin DOMAIN registered
    /\ Method \notin BadTemplate
    /\ server' = Put(server, Name, Method)
    /\ registered' = Put(registered, Name, Service)
    /\ i' = i + 1
    /\ UNCHANGED <<services, s, warned, entry>>

\* Mutant: the loop goes on where it stopped in the service before.
ReturnKeepingIndex ==
    /\ s \in 1..Len(services)
    /\ i > Len(MethodsOf[Service])
    /\ s' = s + 1
    /\ entry' = registered
    /\ UNCHANGED <<services, i, server, registered, warned>>

\* RegisterTools returns nil; Reload goes on with the next service.
ReturnToReload ==
    /\ s \in 1..Len(services)
    /\ i > Len(MethodsOf[Service])
    /\ s' = s + 1
    /\ i' = 1
    /\ entry' = registered
    /\ UNCHANGED <<services, server, registered, warned>>

\* The next reload registers into a new server with a new map.
NextReload ==
    /\ s > Len(services)
    /\ \E list \in Batches : Fresh(list)

Next ==
    \/ SkipMethod \/ Collide \/ DropTemplate \/ RegisterMethod
    \/ ReturnToReload \/ NextReload

Spec == Init /\ [][Next]_vars

NamedMap(T) == UNION {[S -> T] : S \in SUBSET Names}

TypeOK ==
    /\ services \in Batches
    /\ s \in 1..(Len(services) + 1)
    /\ i \in Nat \ {0}
    /\ s \in 1..Len(services) => i <= Len(MethodsOf[Service]) + 1
    /\ server \in NamedMap(Methods)
    /\ registered \in NamedMap(Services)
    /\ entry \in NamedMap(Services)
    /\ warned \subseteq Methods

------------------------------------------------------------------------------
Eligible(m) == Wanted(m) /\ m \notin BadTemplate

MethodAt(a, b) == MethodsOf[services[a]][b]
NameAt(a, b) == ToolPrefix[services[a]] \o BaseName[MethodAt(a, b)]

\* The positions whose methods have had their turn, and those before <<a, b>>.
Seen ==
    {p \in UNION {{a} \X (1..Len(MethodsOf[services[a]])) : a \in 1..Len(services)} :
        p[1] < s \/ (p[1] = s /\ p[2] < i)}
Before(p, q) == p[1] < q[1] \/ (p[1] = q[1] /\ p[2] < q[2])
Claims(p, n) == Eligible(MethodAt(p[1], p[2])) /\ NameAt(p[1], p[2]) = n

\* "the first one is kept": a tool calls the first method of its name, in the
\* order of services and methods, that could be registered at all, and belongs
\* to that method's service; every name such a method has is registered.  Names
\* collide with the prefixes of their services: a short name of a service with
\* a prefix and a long one of a service without may be the same.
FirstEligibleWins ==
    /\ \A n \in DOMAIN server : \E p \in Seen :
          /\ Claims(p, n)
          /\ server[n] = MethodAt(p[1], p[2])
          /\ registered[n] = services[p[1]]
          /\ \A q \in Seen : Before(q, p) => ~Claims(q, n)
    /\ \A p \in Seen, n \in Names : Claims(p, n) => n \in DOMAIN server

\* No method disappears silently unless it streams or lacks a required
\* annotation: it serves its name or a warning was logged for it.
EveryMethodAccounted ==
    \A p \in Seen :
        LET m == MethodAt(p[1], p[2])
            n == NameAt(p[1], p[2])
        IN  \/ ~Wanted(m)
            \/ m \in warned
            \/ n \in DOMAIN server /\ server[n] = m

Maps == INSTANCE ToolMaps WITH
    ToolsOf <- [d \in Services |->
        {ToolPrefix[d] \o BaseName[MethodsOf[d][b]] :
            b \in {x \in 1..Len(MethodsOf[d]) : Eligible(MethodsOf[d][x])}}]

\* The loop over the methods of one service does what the tool cache takes it
\* to do in one step.
ServiceIsClaimed ==
    s \in 1..Len(services) /\ i > Len(MethodsOf[Service]) =>
        registered = Maps!Claim(entry, Service)
==============================================================================
