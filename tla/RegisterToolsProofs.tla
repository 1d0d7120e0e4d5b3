-------------------------- MODULE RegisterToolsProofs -------------------------
(***************************************************************************)
(* Proofs about the registration of tools, for every set of services and   *)
(* methods, every naming of them and every list of services to register.   *)
(***************************************************************************)
EXTENDS RegisterTools, TLAPS

\* The names of the eligible methods of d before b.
Done(d, b) == {ToolPrefix[d] \o BaseName[MethodsOf[d][x]] :
                  x \in {y \in 1..Len(MethodsOf[d]) : y < b /\ Eligible(MethodsOf[d][y])}}

\* A tool is added to the server if and only if its name is registered.
SameNames == DOMAIN server = DOMAIN registered

\* The service has so far been given the names of its eligible methods that
\* were free when its turn came.
ClaimedSoFar ==
    s \in 1..Len(services) =>
        /\ DOMAIN registered = DOMAIN entry \cup Done(Service, i)
        /\ \A n \in DOMAIN entry : registered[n] = entry[n]
        /\ \A n \in DOMAIN registered \ DOMAIN entry : registered[n] = Service

------------------------------------------------------------------------------
\* A map with one name put into it.
LEMMA PutFacts ==
  ASSUME NEW f, NEW n, NEW v
  PROVE  /\ DOMAIN Put(f, n, v) = DOMAIN f \cup {n}
         /\ Put(f, n, v)[n] = v
         /\ \A k \in DOMAIN f : k # n => Put(f, n, v)[k] = f[k]
  BY DEF Put

LEMMA PutType ==
  ASSUME NEW T, NEW f \in NamedMap(T), NEW n \in Names, NEW v \in T
  PROVE  Put(f, n, v) \in NamedMap(T)
  <1>1. PICK S \in SUBSET Names : f \in [S -> T]
    BY DEF NamedMap
  <1>2. S \cup {n} \in SUBSET Names /\ Put(f, n, v) \in [S \cup {n} -> T]
    BY <1>1 DEF Put
  <1>. QED BY <1>2 DEF NamedMap

LEMMA NoToolsType ==
  ASSUME NEW T
  PROVE  NoTools \in NamedMap(T) /\ DOMAIN NoTools = {}
  <1>1. {} \in SUBSET Names /\ NoTools \in [{} -> T]
    BY DEF NoTools
  <1>. QED BY <1>1 DEF NamedMap

\* Every index of the loop is one of a service and of a method.
LEMMA IndexFacts ==
  ASSUME TypeOK
  PROVE  /\ Len(services) \in Nat /\ s \in Nat /\ i \in Nat
         /\ \A a \in 1..Len(services) :
               /\ services[a] \in Services
               /\ Len(MethodsOf[services[a]]) \in Nat
               /\ DOMAIN MethodsOf[services[a]] = 1..Len(MethodsOf[services[a]])
               /\ \A b \in 1..Len(MethodsOf[services[a]]) :
                     MethodAt(a, b) \in Methods /\ NameAt(a, b) \in Names
  <1>1. services \in Seq(Services)
    BY BatchesAssumption DEF TypeOK
  <1>2. Len(services) \in Nat /\ s \in Nat /\ i \in Nat
    BY <1>1 DEF TypeOK
  <1>3. ASSUME NEW a \in 1..Len(services)
        PROVE  /\ services[a] \in Services
               /\ MethodsOf[services[a]] \in Seq(Methods)
    BY <1>1, <1>3, MethodsAssumption
  <1>4. ASSUME NEW a \in 1..Len(services), NEW b \in 1..Len(MethodsOf[services[a]])
        PROVE  MethodAt(a, b) \in Methods /\ NameAt(a, b) \in Names
    BY <1>3, MethodsAssumption DEF MethodAt, NameAt
  <1>. QED BY <1>2, <1>3, <1>4

\* The method at this turn, its name and its service.
LEMMA HereFacts ==
  ASSUME TypeOK, InLoop
  PROVE  /\ Method = MethodAt(s, i) /\ Name = NameAt(s, i)
         /\ Method \in Methods /\ Name \in Names /\ Service \in Services
  <1>1. s \in 1..Len(services) /\ i \in 1..Len(MethodsOf[services[s]])
    BY DEF InLoop, Service
  <1>2. Method = MethodAt(s, i) /\ Name = NameAt(s, i)
    BY DEF Method, Name, Service, MethodAt, NameAt
  <1>. QED BY <1>1, <1>2, IndexFacts DEF Service

------------------------------------------------------------------------------
\* A turn of the loop either leaves the maps alone, because the method may not
\* have its name or the name is taken, or gives the name to the method.
LEMMA LoopTurns ==
  ASSUME TypeOK, SkipMethod \/ Collide \/ DropTemplate \/ RegisterMethod
  PROVE  /\ InLoop
         /\ i' = i + 1 /\ services' = services /\ s' = s /\ entry' = entry
         /\ \/ /\ server' = server /\ registered' = registered
               /\ ~Eligible(Method) \/ Name \in DOMAIN registered
            \/ /\ Eligible(Method) /\ Name \notin DOMAIN registered
               /\ server' = Put(server, Name, Method)
               /\ registered' = Put(registered, Name, Service)
         /\ warned \subseteq warned' /\ warned' \subseteq warned \cup {Method}
         /\ \/ ~Wanted(Method) \/ Method \in warned'
            \/ Eligible(Method) /\ Name \notin DOMAIN registered
  BY DEF SkipMethod, Collide, DropTemplate, RegisterMethod, Eligible
\* Every step keeps the types.
LEMMA TypeStep ==
  ASSUME TypeOK, [Next]_vars
  PROVE  TypeOK'
  <1>1. CASE SkipMethod \/ Collide \/ DropTemplate \/ RegisterMethod
    <2>1. /\ Method \in Methods /\ Name \in Names /\ Service \in Services
          /\ services' = services /\ s' = s /\ i' = i + 1 /\ entry' = entry
          /\ warned' \subseteq Methods
      BY <1>1, LoopTurns, HereFacts DEF TypeOK
    <2>2. \A a \in 1..Len(services) : Len(MethodsOf[services[a]]) \in Nat
      BY IndexFacts
    <2>3. i' \in Nat \ {0} /\ (s' \in 1..Len(services') => i' <= Len(MethodsOf[Service'])+ 1)
      BY <1>1, <2>1, <2>2, LoopTurns DEF TypeOK, InLoop, Service
    <2>4. server' \in NamedMap(Methods)
      BY <1>1, <2>1, LoopTurns, PutType DEF TypeOK
    <2>5. registered' \in NamedMap(Services)
      BY <1>1, <2>1, LoopTurns, PutType DEF TypeOK
    <2>. QED BY <2>1, <2>3, <2>4, <2>5 DEF TypeOK
  <1>2. CASE ReturnToReload
    <2>1. Len(services) \in Nat /\ s \in Nat
          /\ \A a \in 1..Len(services) : Len(MethodsOf[services[a]]) \in Nat
      BY IndexFacts
    <2>2. s' \in 1..(Len(services') + 1)
      BY <1>2, <2>1 DEF ReturnToReload
    <2>3. i' \in Nat \ {0} /\ (s' \in 1..Len(services') => i' <= Len(MethodsOf[Service']) + 1)
      BY <1>2, <2>1 DEF ReturnToReload, Service
    <2>. QED BY <1>2, <2>2, <2>3 DEF ReturnToReload, TypeOK
  <1>3. ASSUME NEW list \in Batches, Fresh(list)
        PROVE  TypeOK'
    <2>1. list \in Seq(Services)
      BY BatchesAssumption
    <2>2. \A a \in 1..Len(list) : Len(MethodsOf[list[a]]) \in Nat
      BY <2>1, MethodsAssumption
    <2>3. Len(list) \in Nat
      BY <2>1
    <2>. QED BY <1>3, <2>2, <2>3, NoToolsType DEF Fresh, TypeOK, Service
  <1>4. CASE UNCHANGED vars
    BY <1>4 DEF vars, TypeOK, Service
  <1>. QED BY <1>1, <1>2, <1>3, <1>4 DEF Next, NextReload

\* The types hold before the first reload.
LEMMA InitTyped == Init => TypeOK
  <1> SUFFICES ASSUME Init PROVE TypeOK
    OBVIOUS
  <1>1. services \in Seq(Services) /\ Len(services) \in Nat
    BY BatchesAssumption DEF Init
  <1>2. \A a \in 1..Len(services) : Len(MethodsOf[services[a]]) \in Nat
    BY <1>1, MethodsAssumption
  <1>. QED BY <1>1, <1>2, NoToolsType DEF Init, TypeOK, Service

\* For any methods and any names: every variable keeps its type.
THEOREM RegistersTyped == Spec => []TypeOK
  <1>1. TypeOK /\ [Next]_vars => TypeOK'
    BY TypeStep
  <1>. QED BY <1>1, InitTyped, PTL DEF Spec

------------------------------------------------------------------------------
\* The positions that have had their turn when the loops are at <<x, y>>.
Turns(list, x, y) ==
    {p \in UNION {{a} \X (1..Len(MethodsOf[list[a]])) : a \in 1..Len(list)} :
        p[1] < x \/ (p[1] = x /\ p[2] < y)}

\* A position has had its turn if it comes before the indices of the loops.
LEMMA TurnsAt ==
  ASSUME NEW list, NEW x, NEW y, NEW p
  PROVE  p \in Turns(list, x, y) <=>
            \E a \in 1..Len(list) : \E b \in 1..Len(MethodsOf[list[a]]) :
                p = <<a, b>> /\ (a < x \/ (a = x /\ b < y))
  BY DEF Turns

\* Seen before and after a step.
LEMMA SeenIsTurns == Seen = Turns(services, s, i) /\ Seen' = Turns(services', s', i')
  BY DEF Seen, Turns

\* A turn of the loop adds its own position, the last of all so far.
LEMMA LoopSees ==
  ASSUME TypeOK, SkipMethod \/ Collide \/ DropTemplate \/ RegisterMethod
  PROVE  /\ Seen' = Seen \cup {<<s, i>>}
         /\ \A p \in Seen : ~Before(<<s, i>>, p)
         /\ ~Before(<<s, i>>, <<s, i>>)
         /\ \A p, n : Claims(p, n)' <=> Claims(p, n)
  <1>1. /\ s \in 1..Len(services) /\ i \in 1..Len(MethodsOf[services[s]])
        /\ i' = i + 1 /\ services' = services /\ s' = s
    BY LoopTurns DEF InLoop, Service
  <1>2. /\ Len(services) \in Nat /\ s \in Nat /\ i \in Nat
        /\ \A a \in 1..Len(services) : Len(MethodsOf[services[a]]) \in Nat
    BY IndexFacts
  <1>3. ASSUME NEW p
        PROVE  p \in Seen' <=> p \in Seen \cup {<<s, i>>}
    <2>1. p \in Seen' <=>
            \E a \in 1..Len(services) : \E b \in 1..Len(MethodsOf[services[a]]) :
                p = <<a, b>> /\ (a < s \/ (a = s /\ b < i + 1))
      BY <1>1, SeenIsTurns, TurnsAt
    <2>2. p \in Seen <=>
            \E a \in 1..Len(services) : \E b \in 1..Len(MethodsOf[services[a]]) :
                p = <<a, b>> /\ (a < s \/ (a = s /\ b < i))
      BY SeenIsTurns, TurnsAt
    <2>3. \A b \in Nat : b < i + 1 <=> b < i \/ b = i
      BY <1>2
    <2>. QED BY <1>1, <2>1, <2>2, <2>3
  <1>4. ASSUME NEW p \in Seen
        PROVE  ~Before(<<s, i>>, p)
    <2>1. PICK a \in 1..Len(services) : \E b \in 1..Len(MethodsOf[services[a]]) :
            p = <<a, b>> /\ (a < s \/ (a = s /\ b < i))
      BY SeenIsTurns, TurnsAt
    <2>2. PICK b \in 1..Len(MethodsOf[services[a]]) :
            p = <<a, b>> /\ (a < s \/ (a = s /\ b < i))
      BY <2>1
    <2>. QED BY <1>2, <2>2 DEF Before
  <1>5. ~Before(<<s, i>>, <<s, i>>)
    BY <1>2 DEF Before
  <1>6. \A p, n : Claims(p, n)' <=> Claims(p, n)
    BY <1>1 DEF Claims, Eligible, Wanted, MethodAt, NameAt
  <1>. QED BY <1>3, <1>4, <1>5, <1>6

\* The method at this turn claims its own name, if it may have one.
LEMMA ClaimsHere ==
  ASSUME TypeOK, InLoop
  PROVE  \A n : Claims(<<s, i>>, n) <=> Eligible(Method) /\ Name = n
  BY HereFacts DEF Claims

\* Returning to Reload is no turn.
LEMMA ReturnSees ==
  ASSUME TypeOK, ReturnToReload
  PROVE  Seen' = Seen /\ \A p, n : Claims(p, n)' <=> Claims(p, n)
  <1>1. /\ Len(services) \in Nat /\ s \in Nat /\ i \in Nat
        /\ \A a \in 1..Len(services) : Len(MethodsOf[services[a]]) \in Nat
    BY IndexFacts
  <1>2. /\ i > Len(MethodsOf[services[s]]) /\ s \in 1..Len(services)
        /\ services' = services /\ s' = s + 1 /\ i' = 1
    BY DEF ReturnToReload, Service
  <1>3. ASSUME NEW p
        PROVE  p \in Seen' <=> p \in Seen
    <2>1. ASSUME NEW a \in 1..Len(services), NEW b \in 1..Len(MethodsOf[services[a]])
          PROVE  (a < s + 1 \/ (a = s + 1 /\ b < 1)) <=> (a < s \/ (a = s /\ b < i))
      <3>1. CASE a = s
        BY <1>1, <1>2, <2>1, <3>1
      <3>2. CASE a # s
        BY <1>1, <1>2, <2>1, <3>2
      <3>. QED BY <3>1, <3>2
    <2>2. p \in Seen' <=>
            \E a \in 1..Len(services) : \E b \in 1..Len(MethodsOf[services[a]]) :
                p = <<a, b>> /\ (a < s + 1 \/ (a = s + 1 /\ b < 1))
      BY <1>2, SeenIsTurns, TurnsAt
    <2>3. p \in Seen <=>
            \E a \in 1..Len(services) : \E b \in 1..Len(MethodsOf[services[a]]) :
                p = <<a, b>> /\ (a < s \/ (a = s /\ b < i))
      BY SeenIsTurns, TurnsAt
    <2>. QED BY <2>1, <2>2, <2>3
  <1>4. \A p, n : Claims(p, n)' <=> Claims(p, n)
    BY <1>2 DEF Claims, Eligible, Wanted, MethodAt, NameAt
  <1>. QED BY <1>3, <1>4

\* Nothing has had its turn when a reload begins.
LEMMA NothingSeen ==
  ASSUME NEW list \in Seq(Services)
  PROVE  Turns(list, 1, 1) = {}
  <1> SUFFICES ASSUME NEW p \in Turns(list, 1, 1) PROVE FALSE
    OBVIOUS
  <1>1. PICK a \in 1..Len(list) : \E b \in 1..Len(MethodsOf[list[a]]) :
          p = <<a, b>> /\ (a < 1 \/ (a = 1 /\ b < 1))
    BY TurnsAt
  <1>2. Len(list) \in Nat /\ Len(MethodsOf[list[a]]) \in Nat
    BY MethodsAssumption
  <1>. QED BY <1>1, <1>2
------------------------------------------------------------------------------
\* The maps are made new together and get a name together.
LEMMA SameNamesStep ==
  ASSUME TypeOK, SameNames, [Next]_vars
  PROVE  SameNames'
  <1>1. CASE SkipMethod \/ Collide \/ DropTemplate \/ RegisterMethod
    <2>1. CASE server' = server /\ registered' = registered
      BY <2>1 DEF SameNames
    <2>2. CASE server' = Put(server, Name, Method) /\ registered' = Put(registered, Name, Service)
      <3>1. DOMAIN Put(server, Name, Method) = DOMAIN server \cup {Name}
        BY PutFacts
      <3>2. DOMAIN Put(registered, Name, Service) = DOMAIN registered \cup {Name}
        BY PutFacts
      <3>. QED BY <2>2, <3>1, <3>2 DEF SameNames
    <2>. QED BY <1>1, <2>1, <2>2, LoopTurns
  <1>2. CASE ReturnToReload
    BY <1>2 DEF ReturnToReload, SameNames
  <1>3. CASE NextReload
    BY <1>3 DEF NextReload, Fresh, SameNames
  <1>4. CASE UNCHANGED vars
    BY <1>4 DEF vars, SameNames
  <1>. QED BY <1>1, <1>2, <1>3, <1>4 DEF Next

\* What a fresh reload makes of what has been seen, and a step that changes nothing.
LEMMA FreshSees ==
  ASSUME NextReload
  PROVE  Seen' = {} /\ server' = NoTools /\ registered' = NoTools
  <1>1. PICK list \in Batches : Fresh(list)
    BY DEF NextReload
  <1>. QED BY <1>1, BatchesAssumption, NothingSeen, SeenIsTurns DEF Fresh

LEMMA StutterSees ==
  ASSUME UNCHANGED vars
  PROVE  Seen' = Seen /\ \A p, n : Claims(p, n)' <=> Claims(p, n)
  BY DEF vars, Seen, Claims, Eligible, Wanted, MethodAt, NameAt

\* The first eligible method of a name stays the one served: a position that has
\* its turn later never comes before it, and gets no name that is taken.
LEMMA WinnerStep ==
  ASSUME TypeOK, SameNames, FirstEligibleWins, [Next]_vars
  PROVE  FirstEligibleWins'
  <1>1. CASE SkipMethod \/ Collide \/ DropTemplate \/ RegisterMethod
    <2>0. PICK r, name, method : r = <<s, i>> /\ name = Name /\ method = Method
      OBVIOUS
    <2>1. /\ Seen' = Seen \cup {r}
          /\ \A p \in Seen : ~Before(r, p)
          /\ ~Before(r, r)
          /\ \A p, n : Claims(p, n)' <=> Claims(p, n)
          /\ \A n : Claims(r, n) <=> Eligible(method) /\ name = n
      BY <1>1, <2>0, LoopSees, LoopTurns, ClaimsHere
    <2>2. services' = services /\ MethodAt(s, i) = method /\ services[s] = Service
          /\ name \in Names
      BY <1>1, <2>0, LoopTurns, HereFacts DEF Service
    <2>3. CASE /\ server' = server /\ registered' = registered
               /\ ~Eligible(method) \/ name \in DOMAIN registered
      <3>1. ASSUME NEW n \in DOMAIN server'
            PROVE  \E p \in Seen' :
                      /\ Claims(p, n)'
                      /\ server'[n] = MethodAt(p[1], p[2])'
                      /\ registered'[n] = services'[p[1]]
                      /\ \A q \in Seen' : Before(q, p) => ~Claims(q, n)'
        <4>1. PICK p \in Seen : /\ Claims(p, n)
                                /\ server[n] = MethodAt(p[1], p[2])
                                /\ registered[n] = services[p[1]]
                                /\ \A q \in Seen : Before(q, p) => ~Claims(q, n)
          BY <2>3 DEF FirstEligibleWins
        <4>2. p \in Seen' /\ Claims(p, n)'
          BY <2>1, <4>1
        <4>3. server'[n] = MethodAt(p[1], p[2])' /\ registered'[n] = services'[p[1]]
          BY <2>2, <2>3, <4>1 DEF MethodAt
        <4>4. \A q \in Seen' : Before(q, p) => ~Claims(q, n)'
          BY <2>1, <4>1
        <4>. QED BY <4>2, <4>3, <4>4
      <3>2. ASSUME NEW p \in Seen', NEW n \in Names, Claims(p, n)'
            PROVE  n \in DOMAIN server'
        BY <2>1, <2>3, <3>2 DEF FirstEligibleWins, SameNames
      <3>. QED BY <3>1, <3>2 DEF FirstEligibleWins
    <2>4. CASE /\ Eligible(method) /\ name \notin DOMAIN registered
               /\ server' = Put(server, name, method)
               /\ registered' = Put(registered, name, Service)
      <3>1. DOMAIN server' = DOMAIN server \cup {name}
            /\ server'[name] = method /\ registered'[name] = Service
            /\ \A n \in DOMAIN server :
                  n # name /\ server'[n] = server[n] /\ registered'[n] = registered[n]
        <4>1. /\ DOMAIN Put(server, name, method) = DOMAIN server \cup {name}
              /\ Put(server, name, method)[name] = method
              /\ \A n \in DOMAIN server : n # name => Put(server, name, method)[n] = server[n]
          BY DEF Put
        <4>2. /\ Put(registered, name, Service)[name] = Service
              /\ \A n \in DOMAIN registered :
                    n # name => Put(registered, name, Service)[n] = registered[n]
          BY DEF Put
        <4>. QED BY <2>4, <4>1, <4>2 DEF SameNames
      <3>2. ASSUME NEW n \in DOMAIN server
            PROVE  \E p \in Seen' :
                      /\ Claims(p, n)'
                      /\ server'[n] = MethodAt(p[1], p[2])'
                      /\ registered'[n] = services'[p[1]]
                      /\ \A q \in Seen' : Before(q, p) => ~Claims(q, n)'
        <4>1. PICK p \in Seen : /\ Claims(p, n)
                                /\ server[n] = MethodAt(p[1], p[2])
                                /\ registered[n] = services[p[1]]
                                /\ \A q \in Seen : Before(q, p) => ~Claims(q, n)
          BY DEF FirstEligibleWins
        <4>2. p \in Seen' /\ Claims(p, n)'
          BY <2>1, <4>1
        <4>3. server'[n] = MethodAt(p[1], p[2])' /\ registered'[n] = services'[p[1]]
          BY <2>2, <3>1, <4>1 DEF MethodAt
        <4>4. \A q \in Seen' : Before(q, p) => ~Claims(q, n)'
          BY <2>1, <4>1
        <4>. QED BY <4>2, <4>3, <4>4
      <3>3. \E p \in Seen' :
                      /\ Claims(p, name)'
                      /\ server'[name] = MethodAt(p[1], p[2])'
                      /\ registered'[name] = services'[p[1]]
                      /\ \A q \in Seen' : Before(q, p) => ~Claims(q, name)'
        <4>1. \A q \in Seen : ~Claims(q, name)
          BY <2>2, <2>4 DEF FirstEligibleWins, SameNames
        <4>2. r[1] = s /\ r[2] = i
          BY <2>0
        <4>3. r \in Seen' /\ Claims(r, name)'
          BY <2>1, <2>4
        <4>4. server'[name] = MethodAt(r[1], r[2])' /\ registered'[name] = services'[r[1]]
          <5>1. MethodAt(r[1], r[2])' = MethodAt(s, i)
            BY <2>2, <4>2 DEF MethodAt
          <5>. QED BY <2>2, <3>1, <4>2, <5>1
        <4>5. \A q \in Seen' : Before(q, r) => ~Claims(q, name)'
          BY <2>1, <4>1
        <4>. QED BY <4>3, <4>4, <4>5
      <3>4. ASSUME NEW p \in Seen', NEW n \in Names, Claims(p, n)'
            PROVE  n \in DOMAIN server'
        BY <2>1, <3>1, <3>4 DEF FirstEligibleWins
      <3>5. \A n \in DOMAIN server' : n \in DOMAIN server \/ n = name
        BY <3>1
      <3>6. \A n \in DOMAIN server' : \E p \in Seen' :
                      /\ Claims(p, n)'
                      /\ server'[n] = MethodAt(p[1], p[2])'
                      /\ registered'[n] = services'[p[1]]
                      /\ \A q \in Seen' : Before(q, p) => ~Claims(q, n)'
        <4> TAKE n \in DOMAIN server'
        <4>1. CASE n \in DOMAIN server
          BY <3>2, <4>1
        <4>2. CASE n = name
          BY <3>3, <4>2
        <4>. QED BY <3>5, <4>1, <4>2
      <3>. QED BY <3>4, <3>6 DEF FirstEligibleWins
    <2>. QED BY <1>1, <2>0, <2>3, <2>4, LoopTurns
  <1>2. CASE ReturnToReload
    <2>1. Seen' = Seen /\ \A p, n : Claims(p, n)' <=> Claims(p, n)
      BY <1>2, ReturnSees
    <2>2. server' = server /\ registered' = registered /\ services' = services
      BY <1>2 DEF ReturnToReload
    <2>. QED BY <2>1, <2>2 DEF FirstEligibleWins, MethodAt
  <1>3. CASE NextReload
    BY <1>3, FreshSees DEF FirstEligibleWins, NoTools
  <1>4. CASE UNCHANGED vars
    BY <1>4, StutterSees DEF vars, FirstEligibleWins, MethodAt
  <1>. QED BY <1>1, <1>2, <1>3, <1>4 DEF Next
------------------------------------------------------------------------------
\* The method at position p serves its name, was warned about or is not wanted.
Accounted(p) ==
    LET m == MethodAt(p[1], p[2])
        n == NameAt(p[1], p[2])
    IN  \/ ~Wanted(m)
        \/ m \in warned
        \/ n \in DOMAIN server /\ server[n] = m

\* A later turn takes no tool away and no warning back.
LEMMA AccountedStep ==
  ASSUME TypeOK, SameNames, EveryMethodAccounted, [Next]_vars
  PROVE  EveryMethodAccounted'
  <1>0. EveryMethodAccounted <=> \A p \in Seen : Accounted(p)
    BY DEF EveryMethodAccounted, Accounted
  <1>1. EveryMethodAccounted' <=> \A p \in Seen' : Accounted(p)'
    BY DEF EveryMethodAccounted, Accounted
  <1>2. CASE SkipMethod \/ Collide \/ DropTemplate \/ RegisterMethod
    <2>1. PICK r, name, method : r = <<s, i>> /\ name = Name /\ method = Method
      OBVIOUS
    <2>2. /\ Seen' = Seen \cup {r}
          /\ services' = services /\ warned \subseteq warned'
          /\ MethodAt(r[1], r[2]) = method /\ NameAt(r[1], r[2]) = name
      BY <1>2, <2>1, LoopSees, LoopTurns, HereFacts
    <2>3. \A n \in DOMAIN server : n \in DOMAIN server' /\ server'[n] = server[n]
      <3>1. CASE server' = server
        BY <3>1
      <3>2. CASE Name \notin DOMAIN registered /\ server' = Put(server, Name, Method)
        BY <3>2 DEF Put, SameNames
      <3>. QED BY <1>2, <3>1, <3>2, LoopTurns
    <2>4. ASSUME NEW p \in Seen
          PROVE  Accounted(p)'
      <3>1. Accounted(p)
        BY <1>0
      <3>2. MethodAt(p[1], p[2])' = MethodAt(p[1], p[2]) /\ NameAt(p[1], p[2])' = NameAt(p[1], p[2])
        BY <2>2 DEF MethodAt, NameAt
      <3>. QED BY <2>2, <2>3, <3>1, <3>2 DEF Accounted, Wanted
    <2>5. Accounted(r)'
      <3>1. MethodAt(r[1], r[2])' = method /\ NameAt(r[1], r[2])' = name
        BY <2>2 DEF MethodAt, NameAt
      <3>2. CASE ~Wanted(method) \/ method \in warned'
        BY <3>1, <3>2 DEF Accounted, Wanted
      <3>3. CASE server' = Put(server, name, method)
        BY <3>1, <3>3 DEF Accounted, Put
      <3>4. \/ ~Wanted(method) \/ method \in warned'
            \/ server' = Put(server, name, method)
        BY <1>2, <2>1, LoopTurns
      <3>. QED BY <3>2, <3>3, <3>4
    <2>. QED BY <1>1, <2>2, <2>4, <2>5
  <1>3. CASE ReturnToReload
    <2>1. Seen' = Seen
      BY <1>3, ReturnSees
    <2>2. services' = services /\ server' = server /\ warned' = warned
      BY <1>3 DEF ReturnToReload
    <2>. QED BY <2>1, <2>2 DEF EveryMethodAccounted, MethodAt, NameAt, Wanted
  <1>4. CASE NextReload
    BY <1>4, FreshSees DEF EveryMethodAccounted
  <1>5. CASE UNCHANGED vars
    BY <1>5, StutterSees DEF vars, EveryMethodAccounted, MethodAt, NameAt, Wanted
  <1>. QED BY <1>2, <1>3, <1>4, <1>5 DEF Next

------------------------------------------------------------------------------
\* One more eligible method adds its own name; after the last there are all.
LEMMA DoneSteps ==
  ASSUME NEW d \in Services
  PROVE  /\ Done(d, 1) = {}
         /\ \A b \in 1..Len(MethodsOf[d]) :
               Done(d, b + 1) = Done(d, b) \cup
                   {n \in {ToolPrefix[d] \o BaseName[MethodsOf[d][b]]} : Eligible(MethodsOf[d][b])}
         /\ Done(d, Len(MethodsOf[d]) + 1) =
                {ToolPrefix[d] \o BaseName[MethodsOf[d][b]] :
                    b \in {x \in 1..Len(MethodsOf[d]) : Eligible(MethodsOf[d][x])}}
  <1> DEFINE T(x) == ToolPrefix[d] \o BaseName[MethodsOf[d][x]]
             E(x) == Eligible(MethodsOf[d][x])
             L == Len(MethodsOf[d])
  <1>1. L \in Nat
    BY MethodsAssumption
  <1>2. \A b : Done(d, b) = {T(x) : x \in {y \in 1..L : y < b /\ E(y)}}
    BY DEF Done
  <1> HIDE DEF T, E, L
  <1>3. Done(d, 1) = {}
    BY <1>1, <1>2
  <1>4. ASSUME NEW b \in 1..L
        PROVE  Done(d, b + 1) = Done(d, b) \cup {n \in {T(b)} : E(b)}
    <2>1. \A y \in 1..L : y < b + 1 <=> y < b \/ y = b
      BY <1>1
    <2>2. {y \in 1..L : y < b + 1 /\ E(y)} = {y \in 1..L : y < b /\ E(y)} \cup {y \in {b} : E(y)}
      BY <2>1
    <2>. QED BY <1>2, <2>2
  <1>5. Done(d, L + 1) = {T(b) : b \in {x \in 1..L : E(x)}}
    <2>1. \A y \in 1..L : y < L + 1
      BY <1>1
    <2>2. {y \in 1..L : y < L + 1 /\ E(y)} = {x \in 1..L : E(x)}
      BY <2>1
    <2>. QED BY <1>2, <2>2
  <1>. QED BY <1>3, <1>4, <1>5 DEF T, E, L
\* Each turn adds the name of its method if it is eligible and the name is free;
\* a new service starts from the map it is given.
LEMMA ClaimedStep ==
  ASSUME TypeOK, ClaimedSoFar, [Next]_vars
  PROVE  ClaimedSoFar'
  <1>1. CASE SkipMethod \/ Collide \/ DropTemplate \/ RegisterMethod
    <2>1. PICK d, name, method : d = Service /\ name = Name /\ method = Method
      OBVIOUS
    <2>2. /\ s \in 1..Len(services) /\ i \in 1..Len(MethodsOf[d]) /\ d \in Services
          /\ i' = i + 1 /\ entry' = entry /\ Service' = d /\ s' = s /\ services' = services
          /\ name = ToolPrefix[d] \o BaseName[MethodsOf[d][i]]
          /\ method = MethodsOf[d][i]
      BY <1>1, <2>1, LoopTurns, HereFacts DEF InLoop, Service, Name, Method
    <2>3. Done(Service', i') = Done(d, i) \cup {n \in {name} : Eligible(method)}
      <3>1. Done(d, i + 1) = Done(d, i) \cup
                {n \in {ToolPrefix[d] \o BaseName[MethodsOf[d][i]]} : Eligible(MethodsOf[d][i])}
        BY <2>2, DoneSteps
      <3>. QED BY <2>2, <3>1
    <2>4. /\ DOMAIN registered = DOMAIN entry \cup Done(d, i)
          /\ \A n \in DOMAIN entry : registered[n] = entry[n]
          /\ \A n \in DOMAIN registered \ DOMAIN entry : registered[n] = d
      BY <2>1, <2>2 DEF ClaimedSoFar
    <2>5. CASE registered' = registered /\ (~Eligible(method) \/ name \in DOMAIN registered)
      <3>1. DOMAIN registered' = DOMAIN entry' \cup Done(Service', i')
        BY <2>2, <2>3, <2>4, <2>5
      <3>. QED BY <2>2, <2>4, <2>5, <3>1 DEF ClaimedSoFar
    <2>6. CASE Eligible(method) /\ name \notin DOMAIN registered /\ registered' = Put(registered, name, d)
      <3>1. /\ DOMAIN registered' = DOMAIN registered \cup {name}
            /\ registered'[name] = d
            /\ \A n \in DOMAIN registered : n # name /\ registered'[n] = registered[n]
        BY <2>6 DEF Put
      <3>2. DOMAIN registered' = DOMAIN entry' \cup Done(Service', i')
        BY <2>2, <2>3, <2>4, <2>6, <3>1
      <3>. QED BY <2>2, <2>4, <3>1, <3>2 DEF ClaimedSoFar
    <2>. QED BY <1>1, <2>1, <2>5, <2>6, LoopTurns
  <1>2. CASE ReturnToReload
    <2>1. i' = 1 /\ registered' = registered /\ entry' = registered
      BY <1>2 DEF ReturnToReload
    <2>2. ASSUME s' \in 1..Len(services')
          PROVE  Service' \in Services
      <3>1. TypeOK'
        BY TypeStep
      <3>2. services' \in Seq(Services)
        BY <3>1, BatchesAssumption DEF TypeOK
      <3>. QED BY <2>2, <3>2 DEF Service
    <2>3. s' \in 1..Len(services') => Done(Service', i') = {}
      BY <2>1, <2>2, DoneSteps
    <2>. QED BY <2>1, <2>3 DEF ClaimedSoFar
  <1>3. CASE NextReload
    <2>1. i' = 1 /\ registered' = NoTools /\ entry' = NoTools
      BY <1>3 DEF NextReload, Fresh
    <2>2. ASSUME s' \in 1..Len(services')
          PROVE  Service' \in Services
      <3>1. TypeOK'
        BY TypeStep
      <3>2. services' \in Seq(Services)
        BY <3>1, BatchesAssumption DEF TypeOK
      <3>. QED BY <2>2, <3>2 DEF Service
    <2>3. s' \in 1..Len(services') => Done(Service', i') = {}
      BY <2>1, <2>2, DoneSteps
    <2>. QED BY <2>1, <2>3 DEF ClaimedSoFar, NoTools
  <1>4. CASE UNCHANGED vars
    BY <1>4 DEF vars, ClaimedSoFar, Service
  <1>. QED BY <1>1, <1>2, <1>3, <1>4 DEF Next

------------------------------------------------------------------------------
IInv == TypeOK /\ SameNames /\ FirstEligibleWins /\ EveryMethodAccounted /\ ClaimedSoFar

LEMMA Inductive == Spec => []IInv
  <1>1. Init => SameNames /\ FirstEligibleWins /\ EveryMethodAccounted /\ ClaimedSoFar
    <2> SUFFICES ASSUME Init PROVE SameNames /\ FirstEligibleWins /\ EveryMethodAccounted /\ ClaimedSoFar
      OBVIOUS
    <2>1. /\ services \in Seq(Services) /\ s = 1 /\ i = 1
          /\ server = NoTools /\ registered = NoTools /\ entry = NoTools /\ DOMAIN NoTools = {}
      BY BatchesAssumption DEF Init, NoTools
    <2>2. Seen = {}
      BY <2>1, SeenIsTurns, NothingSeen
    <2>3. s \in 1..Len(services) => Service \in Services
      BY <2>1 DEF Service
    <2>4. ClaimedSoFar
      BY <2>1, <2>3, DoneSteps DEF ClaimedSoFar
    <2>. QED BY <2>1, <2>2, <2>4 DEF SameNames, FirstEligibleWins, EveryMethodAccounted
  <1>2. IInv /\ [Next]_vars => IInv'
    BY TypeStep, SameNamesStep, WinnerStep, AccountedStep, ClaimedStep DEF IInv
  <1>3. Init => IInv
    BY <1>1, InitTyped DEF IInv
  <1>. QED BY <1>2, <1>3, PTL DEF Spec

\* For any services, methods and naming, with or without prefixes: a tool calls
\* the first method of its name that could be registered, belongs to that
\* method's service, and no name of such a method is missing.
THEOREM FirstMethodKeepsName == Spec => []FirstEligibleWins
  <1>1. IInv => FirstEligibleWins
    BY DEF IInv
  <1>. QED BY <1>1, Inductive, PTL

\* For any services and methods: a method that was due is served under its own
\* name, was warned about, streams or lacks a required annotation.
THEOREM NoMethodIsLost == Spec => []EveryMethodAccounted
  <1>1. IInv => EveryMethodAccounted
    BY DEF IInv
  <1>. QED BY <1>1, Inductive, PTL

\* For any services and methods: the loop over the methods of one service does
\* to the names in one go what the tool cache takes it to do.
THEOREM LoopIsClaim == Spec => []ServiceIsClaimed
  <1>1. ASSUME IInv
        PROVE  ServiceIsClaimed
    <2> SUFFICES ASSUME s \in 1..Len(services), i > Len(MethodsOf[Service])
                 PROVE  registered = Maps!Claim(entry, Service)
      BY DEF ServiceIsClaimed
    <2> DEFINE names == {ToolPrefix[Service] \o BaseName[MethodsOf[Service][b]] :
                            b \in {x \in 1..Len(MethodsOf[Service]) :
                                      Eligible(MethodsOf[Service][x])}}
    <2>1. TypeOK /\ ClaimedSoFar
      BY <1>1 DEF IInv
    <2>2. Service \in Services /\ Len(MethodsOf[Service]) \in Nat
      BY <2>1, IndexFacts DEF Service
    <2>3. i = Len(MethodsOf[Service]) + 1
      BY <2>1, <2>2 DEF TypeOK
    <2>4. Done(Service, i) = names
      BY <2>2, <2>3, DoneSteps
    <2>5. Maps!Claim(entry, Service) =
            [n \in DOMAIN entry \cup names |-> IF n \in DOMAIN entry THEN entry[n] ELSE Service]
      BY <2>2 DEF Maps!Claim
    <2>6. /\ DOMAIN registered = DOMAIN entry \cup names
          /\ \A n \in DOMAIN entry : registered[n] = entry[n]
          /\ \A n \in DOMAIN registered \ DOMAIN entry : registered[n] = Service
      BY <2>1, <2>4 DEF ClaimedSoFar
    <2>7. registered \in [DOMAIN registered -> Services]
      BY <2>1 DEF TypeOK, NamedMap
    <2> HIDE DEF names
    <2>. QED BY <2>5, <2>6, <2>7
  <1>. QED BY <1>1, Inductive, PTL
==============================================================================
