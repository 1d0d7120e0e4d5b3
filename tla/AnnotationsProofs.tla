--------------------------- MODULE AnnotationsProofs --------------------------
(***************************************************************************)
(* Proofs about the lookup of annotations, for any files importing each    *)
(* other in any way, cycles included, any options that they declare and    *)
(* any records of an options message.                                      *)
(***************************************************************************)
EXTENDS Annotations, WellFoundedInduction, TLAPS

Frame == [file : Files, i : Nat]

InputType ==
    /\ imports \in [Files -> Seq(Files)]
    /\ declares \in [Files -> SUBSET Extensions]
    /\ linked \in BOOLEAN
    /\ records \in Seq(Record)
    /\ query \in {"method", "service"}

PhaseType ==
    /\ todo \in {<<"tool">>, <<"service", "server">>, <<"server">>, <<>>}
    /\ at \in {"registered", "search", "decode", "done"}
    /\ at = "done" <=> todo = <<>>
    /\ query = "method" => todo \in {<<"tool">>, <<>>}
    /\ query = "service" => todo # <<"tool">>
    /\ r \in Nat \ {0}
    /\ annotated \in BOOLEAN

SearchType ==
    /\ stack \in Seq(Frame)
    /\ seen \subseteq Files
    /\ found \in Files \cup {Nowhere}

TypeInv == InputType /\ PhaseType /\ SearchType

\* What an options message can be, of which Init says why.
OptionsInv ==
    /\ linked => \A k \in DOMAIN records : records[k].sound
    /\ \A ext \in {"tool", "service", "server"} : RecordsOf(ext) # {} => Declared(ext)

\* The file f is still to be searched, as the argument of the innermost call.
Pending(f) == \E k \in DOMAIN stack : stack[k].file = f /\ stack[k].i = 0

\* The j-th import of f is still to be looked at by a call that is active.
Ahead(f, j) == \E k \in DOMAIN stack : stack[k].file = f /\ stack[k].i \in 1..j

\* The search stays within reach; as long as it has found nothing, no file it
\* has seen declares the option, and every import of one has been seen or will
\* be looked at.
SearchInv ==
    at = "search" =>
        /\ \A k \in DOMAIN stack : stack[k].file \in Reachable
        /\ found # Nowhere => found \in Reachable /\ Ext \in declares[found] /\ stack = <<>>
        /\ found = Nowhere =>
              /\ ServiceFile \in seen \/ Pending(ServiceFile)
              /\ \A f \in seen :
                    /\ Ext \notin declares[f]
                    /\ \A j \in DOMAIN imports[f] :
                          imports[f][j] \in seen \/ Pending(imports[f][j]) \/ Ahead(f, j)

------------------------------------------------------------------------------
\* What is within reach: the service's file and the imports of what is.
LEMMA ReachableClosed ==
  ASSUME TypeInv
  PROVE  /\ Reachable \subseteq Files
         /\ ServiceFile \in Reachable
         /\ \A f \in Reachable : \A j \in DOMAIN imports[f] : imports[f][j] \in Reachable
         /\ \A S \in SUBSET Files : Closed(S) => Reachable \subseteq S
  <1>1. ASSUME NEW f \in Reachable, NEW j \in DOMAIN imports[f]
        PROVE  imports[f][j] \in Reachable
    <2>1. imports[f][j] \in Files
      BY <1>1 DEF TypeInv, InputType, Reachable
    <2>. QED BY <1>1, <2>1 DEF Reachable, Closed
  <1>. QED BY <1>1, FilesAssumption DEF Reachable, Closed

LEMMA ExtIsOption ==
  ASSUME TypeInv, at # "done"
  PROVE  /\ Ext \in {"tool", "service", "server"}
         /\ Ext = "tool" => query = "method" /\ todo = <<"tool">>
         /\ Ext = "service" => query = "service" /\ todo = <<"service", "server">>
         /\ Ext = "server" => query = "service" /\ todo = <<"server">>
  <1>1. todo \in {<<"tool">>, <<"service", "server">>, <<"server">>}
    BY DEF TypeInv, PhaseType
  <1>2. CASE todo = <<"tool">>
    BY <1>2 DEF TypeInv, InputType, PhaseType, Ext
  <1>3. CASE todo = <<"service", "server">>
    BY <1>3 DEF TypeInv, InputType, PhaseType, Ext
  <1>4. CASE todo = <<"server">>
    BY <1>4 DEF TypeInv, InputType, PhaseType, Ext
  <1>. QED BY <1>1, <1>2, <1>3, <1>4

\* The end of one lookup leaves the next one, or none.
LEMMA FinishMoves ==
  ASSUME TypeInv, at # "done", Finish
  PROVE  /\ r' = 1
         /\ todo' \in {<<"server">>, <<>>}
         /\ Ext = "service" => todo' = <<"server">> /\ at' = "registered"
         /\ Ext # "service" => todo' = <<>> /\ at' = "done"
  <1>1. todo \in {<<"tool">>, <<"service", "server">>, <<"server">>}
    BY DEF TypeInv, PhaseType
  <1>2. ASSUME NEW e \in {"tool", "server"}, todo = <<e>>
        PROVE  todo' = <<>> /\ at' = "done" /\ Ext # "service"
    <2>1. Len(todo) = 1 /\ Head(todo) = e /\ Tail(todo) = <<>>
      BY <1>2
    <2>. QED BY <1>2, <2>1 DEF Finish, Ext
  <1>3. ASSUME todo = <<"service", "server">>
        PROVE  todo' = <<"server">> /\ at' = "registered" /\ Ext = "service"
    <2>1. Len(todo) = 2 /\ Head(todo) = "service" /\ Tail(todo) = <<"server">>
      BY <1>3
    <2>. QED BY <2>1 DEF Finish, Ext
  <1>4. r' = 1
    BY DEF Finish
  <1>5. CASE todo = <<"tool">>
    BY <1>2, <1>4, <1>5
  <1>6. CASE todo = <<"server">>
    BY <1>2, <1>4, <1>6
  <1>7. CASE todo = <<"service", "server">>
    BY <1>3, <1>4, <1>7
  <1>. QED BY <1>1, <1>5, <1>6, <1>7

------------------------------------------------------------------------------
\* The ways a step goes: to the next option, into a search or out of it, on
\* with the search, or on with the records.
LEMMA Steps ==
  ASSUME Next
  PROVE  /\ UNCHANGED input
         /\ \/ Finish /\ at # "done" /\ UNCHANGED search
            \/ StartSearch /\ at = "registered" /\ UNCHANGED <<todo, r>>
            \/ /\ SkipSeen \/ FindHere \/ EnterFile \/ SearchImport \/ LeaveFile
               /\ at = "search" /\ UNCHANGED <<todo, at, r>>
            \/ Found /\ at' = "decode" /\ UNCHANGED <<todo, search, r>>
            \/ SkipRecord /\ r' = r + 1 /\ UNCHANGED <<todo, at, search>>
  <1>1. CASE FromRegistered \/ NotRegistered
    BY <1>1 DEF FromRegistered, NotRegistered
  <1>2. CASE SkipSeen \/ FindHere \/ EnterFile \/ SearchImport \/ LeaveFile
    BY <1>2 DEF SkipSeen, FindHere, EnterFile, SearchImport, LeaveFile, Searching
  <1>3. CASE NotFound \/ ReadParsed \/ ReadRecord \/ NoRecord
    BY <1>3 DEF NotFound, ReadParsed, ReadRecord, NoRecord, Scanning
  <1>4. CASE Found \/ SkipRecord
    BY <1>4 DEF Found, SkipRecord
  <1>. QED BY <1>1, <1>2, <1>3, <1>4 DEF Next

LEMMA PhaseStep ==
  ASSUME TypeInv, Next
  PROVE  PhaseType'
  <1>1. annotated' \in BOOLEAN /\ query' = query
    <2>1. annotated \in BOOLEAN
      BY DEF TypeInv, PhaseType
    <2>2. annotated' = annotated \/ annotated' = (annotated \/ Ext = "tool")
      BY DEF Next, FromRegistered, NotRegistered, SkipSeen, FindHere, EnterFile, SearchImport,
             LeaveFile, NotFound, Found, ReadParsed, SkipRecord, ReadRecord, NoRecord
    <2>. QED BY <2>1, <2>2, Steps DEF input
  <1>2. CASE Finish /\ at # "done" /\ UNCHANGED search
    <2>1. Ext = "tool" => query = "method"
      BY <1>2, ExtIsOption
    <2>2. Ext = "service" => query = "service"
      BY <1>2, ExtIsOption
    <2>. QED BY <1>1, <1>2, <2>1, <2>2, ExtIsOption, FinishMoves DEF PhaseType
  <1>3. CASE StartSearch /\ at = "registered" /\ UNCHANGED <<todo, r>>
    BY <1>1, <1>3 DEF TypeInv, PhaseType, StartSearch
  <1>4. CASE at = "search" /\ UNCHANGED <<todo, at, r>>
    BY <1>1, <1>4 DEF TypeInv, PhaseType
  <1>5. CASE Found /\ at' = "decode" /\ UNCHANGED <<todo, search, r>>
    BY <1>1, <1>5 DEF TypeInv, PhaseType, Found
  <1>6. CASE SkipRecord /\ r' = r + 1 /\ UNCHANGED <<todo, at, search>>
    BY <1>1, <1>6 DEF TypeInv, PhaseType
  <1>. QED BY <1>2, <1>3, <1>4, <1>5, <1>6, Steps

LEMMA TopIsFrame ==
  ASSUME TypeInv, stack # <<>>
  PROVE  /\ Len(stack) \in Nat \ {0} /\ DOMAIN stack = 1..Len(stack)
         /\ Top \in Frame
         /\ Pop \in Seq(Frame) /\ Len(Pop) = Len(stack) - 1
         /\ \A k \in 1..(Len(stack) - 1) : Pop[k] = stack[k]
  <1>1. stack \in Seq(Frame)
    BY DEF TypeInv, SearchType
  <1>2. Len(stack) \in Nat /\ Len(stack) # 0 /\ DOMAIN stack = 1..Len(stack)
    BY <1>1
  <1>. QED BY <1>1, <1>2 DEF Top, Pop

LEMMA SearchTypeStep ==
  ASSUME TypeInv, Next
  PROVE  SearchType'
  <1>1. CASE UNCHANGED search
    BY <1>1 DEF TypeInv, SearchType, search
  <1>2. CASE StartSearch
    <2>1. [file |-> ServiceFile, i |-> 0] \in Frame
      BY FilesAssumption DEF Frame
    <2>. QED BY <1>2, <2>1 DEF SearchType, StartSearch
  <1>3. CASE SkipSeen \/ LeaveFile
    BY <1>3, TopIsFrame DEF SkipSeen, LeaveFile, Searching, TypeInv, SearchType
  <1>4. CASE FindHere
    <2>1. Top.file \in Files
      BY <1>4, TopIsFrame DEF FindHere, Searching, Frame
    <2>2. stack' \in Seq(Frame)
      BY <1>4 DEF FindHere
    <2>3. seen' \subseteq Files /\ found' \in Files
      BY <1>4, <2>1 DEF FindHere, TypeInv, SearchType
    <2>. QED BY <2>2, <2>3 DEF SearchType
  <1>5. CASE EnterFile
    <2>1. Top \in Frame /\ Len(stack) \in DOMAIN stack /\ stack \in Seq(Frame)
      BY <1>5, TopIsFrame DEF EnterFile, Searching, TypeInv, SearchType
    <2>2. [Top EXCEPT !.i = 1] \in Frame /\ Top.file \in Files
      BY <2>1 DEF Frame
    <2>3. stack' = [stack EXCEPT ![Len(stack)] = [Top EXCEPT !.i = 1]]
      BY <1>5 DEF EnterFile, Top
    <2>4. stack' \in Seq(Frame)
      BY <2>1, <2>2, <2>3
    <2>5. seen' \subseteq Files /\ found' \in Files \cup {Nowhere}
      BY <1>5, <2>2 DEF EnterFile, TypeInv, SearchType
    <2>. QED BY <2>4, <2>5 DEF SearchType
  <1>6. CASE SearchImport
    <2>1. Top \in Frame /\ Len(stack) \in DOMAIN stack /\ stack \in Seq(Frame)
      BY <1>6, TopIsFrame DEF SearchImport, Searching, TypeInv, SearchType
    <2>2. [Top EXCEPT !.i = Top.i + 1] \in Frame /\ Top.file \in Files
      BY <2>1 DEF Frame
    <2>3. [file |-> imports[Top.file][Top.i], i |-> 0] \in Frame
      <3>1. imports[Top.file] \in Seq(Files) /\ Top.i \in DOMAIN imports[Top.file]
        BY <1>6, <2>2 DEF SearchImport, TypeInv, InputType
      <3>. QED BY <3>1 DEF Frame
    <2>4. stack' = Append([stack EXCEPT ![Len(stack)] = [Top EXCEPT !.i = Top.i + 1]],
                          [file |-> imports[Top.file][Top.i], i |-> 0])
      BY <1>6 DEF SearchImport, Top
    <2>. QED BY <1>6, <2>1, <2>2, <2>3, <2>4 DEF SearchImport, TypeInv, SearchType
  <1>. QED BY <1>1, <1>2, <1>3, <1>4, <1>5, <1>6, Steps

\* The first files to look at is the service's.
LEMMA SearchStarts ==
  ASSUME TypeInv, StartSearch, UNCHANGED input
  PROVE  SearchInv'
  <1>1. stack' = <<[file |-> ServiceFile, i |-> 0]>> /\ seen' = {} /\ found' = Nowhere
    BY DEF StartSearch
  <1>2. DOMAIN stack' = {1} /\ stack'[1].file = ServiceFile /\ stack'[1].i = 0
    BY <1>1
  <1>3. ServiceFile \in Reachable'
    BY ReachableClosed DEF Reachable, Closed, input
  <1>4. Pending(ServiceFile)'
    BY <1>2 DEF Pending
  <1>. QED BY <1>1, <1>2, <1>3, <1>4 DEF SearchInv

\* Every step of the search keeps what is still to be seen within its calls.
LEMMA SearchGoesOn ==
  ASSUME TypeInv, SearchInv, UNCHANGED <<input, todo, at>>,
         SkipSeen \/ FindHere \/ EnterFile \/ SearchImport \/ LeaveFile
  PROVE  SearchInv'
  <1> DEFINE n == Len(stack)
  <1>1. at = "search" /\ stack # <<>>
    BY DEF SkipSeen, FindHere, EnterFile, SearchImport, LeaveFile, Searching
  <1>2. /\ n \in Nat \ {0} /\ DOMAIN stack = 1..n
        /\ Top \in Frame /\ Top = stack[n] /\ n \in DOMAIN stack
        /\ Pop \in Seq(Frame) /\ DOMAIN Pop = 1..(n - 1)
        /\ \A k \in 1..(n - 1) : Pop[k] = stack[k] /\ k \in 1..n
    BY <1>1, TopIsFrame DEF Top
  <1>3. /\ Reachable' = Reachable /\ Ext' = Ext /\ declares' = declares /\ imports' = imports
        /\ at' = "search"
    BY <1>1 DEF Reachable, Closed, Ext, input
  <1>4. /\ found = Nowhere
        /\ \A k \in DOMAIN stack : stack[k].file \in Reachable
        /\ ServiceFile \in seen \/ Pending(ServiceFile)
        /\ \A f \in seen :
              /\ Ext \notin declares[f]
              /\ \A j \in DOMAIN imports[f] :
                    imports[f][j] \in seen \/ Pending(imports[f][j]) \/ Ahead(f, j)
    BY <1>1 DEF SearchInv, TypeInv, SearchType
  <1>5. Top.file \in Files /\ Top.i \in Nat /\ Top.file \in Reachable
        /\ imports[Top.file] \in Seq(Files)
    BY <1>2, <1>4 DEF Frame, TypeInv, InputType
  <1>6. \A k \in DOMAIN stack : stack[k].i \in Nat
    <2>1. stack \in Seq(Frame)
      BY DEF TypeInv, SearchType
    <2>2. \A k \in DOMAIN stack : stack[k] \in Frame
      BY <2>1
    <2>. QED BY <2>2 DEF Frame
  <1>12. Len(imports[Top.file]) \in Nat /\ DOMAIN imports[Top.file] = 1..Len(imports[Top.file])
    BY <1>5
  <1>13. PICK top \in Files : top = Top.file
    BY <1>5
  <1> HIDE DEF n
  <1>7. CASE SkipSeen
    <2>1. stack' = Pop /\ seen' = seen /\ found' = found /\ Top.file \in seen /\ Top.i = 0
      BY <1>7 DEF SkipSeen
    <2>2. \A f : Pending(f) => Pending(f)' \/ f \in seen
      BY <1>2, <2>1 DEF Pending
    <2>3. \A f : \A j : Ahead(f, j) => Ahead(f, j)'
      BY <1>2, <2>1 DEF Ahead
    <2>. QED BY <1>2, <1>3, <1>4, <2>1, <2>2, <2>3 DEF SearchInv
  <1>8. CASE LeaveFile
    <2>1. stack' = Pop /\ seen' = seen /\ found' = found /\ Top.i > Len(imports[Top.file])
      BY <1>8 DEF LeaveFile
    <2>2. Len(imports[Top.file]) \in Nat /\ DOMAIN imports[Top.file] = 1..Len(imports[Top.file])
      BY <1>5
    <2>3. \A f : Pending(f) => Pending(f)'
      BY <1>2, <1>5, <2>1, <2>2 DEF Pending
    <2>4. \A f : \A j \in DOMAIN imports[f] : Ahead(f, j) => Ahead(f, j)'
      BY <1>2, <1>5, <2>1, <2>2 DEF Ahead
    <2>. QED BY <1>2, <1>3, <1>4, <2>1, <2>3, <2>4 DEF SearchInv
  <1>9. CASE FindHere
    <2>1. stack' = <<>> /\ found' = Top.file /\ Ext \in declares[Top.file] /\ Top.file # Nowhere
      BY <1>5, <1>9, FilesAssumption DEF FindHere
    <2>2. DOMAIN stack' = {}
      BY <2>1
    <2>. QED BY <1>3, <1>5, <2>1, <2>2 DEF SearchInv
  <1>10. CASE EnterFile
    <2>1. /\ stack' = [stack EXCEPT ![n].i = 1] /\ seen' = seen \cup {Top.file}
          /\ found' = found /\ Top.i = 0 /\ Ext \notin declares[Top.file]
      BY <1>10 DEF EnterFile, n
    <2>2. /\ DOMAIN stack' = 1..n
          /\ stack'[n].file = Top.file /\ stack'[n].i = 1
          /\ \A k \in 1..n : k # n => stack'[k] = stack[k]
      <3>1. DOMAIN Top = {"file", "i"}
        BY <1>2 DEF Frame
      <3>. QED BY <1>2, <2>1, <3>1
    <2>3. \A f : Pending(f) => Pending(f)' \/ f = Top.file
      BY <1>2, <2>2 DEF Pending
    <2>4. \A f : \A j : Ahead(f, j) => Ahead(f, j)'
      BY <1>2, <2>1, <2>2 DEF Ahead
    <2>5. ASSUME NEW j \in DOMAIN imports[top]
          PROVE  Ahead(top, j)'
      <3>1. 1 \in 1..j
        BY <1>12, <1>13
      <3>2. n \in DOMAIN stack' /\ stack'[n].file = top /\ stack'[n].i \in 1..j
        BY <1>2, <1>13, <2>2, <3>1
      <3>. QED BY <3>2 DEF Ahead
    <2>6. \A k \in DOMAIN stack' : stack'[k].file \in Reachable
      BY <1>2, <1>4, <1>5, <2>2
    <2>7. ServiceFile \in seen' \/ Pending(ServiceFile)'
      BY <1>4, <2>1, <2>3
    <2>8. ASSUME NEW f \in seen', NEW j \in DOMAIN imports[f]
          PROVE  imports[f][j] \in seen' \/ Pending(imports[f][j])' \/ Ahead(f, j)'
      <3>1. CASE f = top
        BY <2>5, <2>8, <3>1
      <3>2. ASSUME f \in seen, imports[f][j] \notin seen, ~Ahead(f, j)
            PROVE  imports[f][j] \in seen' \/ Pending(imports[f][j])'
        BY <1>3, <1>4, <2>1, <2>3, <2>8, <3>2
      <3>3. f \in seen \/ f = top
        BY <1>13, <2>1, <2>8
      <3>. QED BY <2>1, <2>4, <3>1, <3>2, <3>3
    <2>9. \A f \in seen' : Ext \notin declares[f]
      BY <1>4, <2>1
    <2>. QED BY <1>3, <1>4, <2>1, <2>6, <2>7, <2>8, <2>9 DEF SearchInv
  <1>11. CASE SearchImport
    <2> DEFINE f0 == imports[Top.file][Top.i]
    <2>1. /\ stack' = Append([stack EXCEPT ![n].i = @ + 1], [file |-> f0, i |-> 0])
          /\ seen' = seen /\ found' = found /\ Top.i \in DOMAIN imports[Top.file]
      BY <1>11 DEF SearchImport, n
    <2>2. f0 \in Reachable /\ Top.i >= 1
      BY <1>5, <2>1, ReachableClosed
    <2> HIDE DEF f0
    <2>3. /\ DOMAIN stack' = 1..(n + 1)
          /\ stack'[n].file = Top.file /\ stack'[n].i = Top.i + 1
          /\ stack'[n + 1].file = f0 /\ stack'[n + 1].i = 0
          /\ \A k \in 1..n : k # n => stack'[k] = stack[k]
      <3> DEFINE turned == [stack EXCEPT ![n] = [Top EXCEPT !.i = Top.i + 1]]
      <3>1. stack' = Append(turned, [file |-> f0, i |-> 0])
        BY <1>2, <2>1
      <3>2. [Top EXCEPT !.i = Top.i + 1] \in Frame
        BY <1>2 DEF Frame
      <3>3. /\ turned \in Seq(Frame) /\ Len(turned) = n /\ DOMAIN turned = 1..n
            /\ turned[n] = [Top EXCEPT !.i = Top.i + 1]
            /\ \A k \in 1..n : k # n => turned[k] = stack[k]
        BY <1>2, <3>2 DEF TypeInv, SearchType, n
      <3> HIDE DEF turned
      <3>4. [Top EXCEPT !.i = Top.i + 1].file = Top.file /\ [Top EXCEPT !.i = Top.i + 1].i = Top.i + 1
        BY <1>2 DEF Frame
      <3>5. /\ DOMAIN stack' = 1..(n + 1) /\ stack'[n + 1] = [file |-> f0, i |-> 0]
            /\ \A k \in 1..n : stack'[k] = turned[k]
        BY <1>2, <3>1, <3>3
      <3>6. n \in 1..n /\ n + 1 \in 1..(n + 1)
        BY <1>2
      <3>7. stack'[n] = [Top EXCEPT !.i = Top.i + 1]
        BY <3>3, <3>5, <3>6
      <3>8. stack'[n].file = Top.file /\ stack'[n].i = Top.i + 1
        BY <3>4, <3>7
      <3>9. stack'[n + 1].file = f0 /\ stack'[n + 1].i = 0
        BY <3>5
      <3>. QED BY <3>3, <3>5, <3>8, <3>9
    <2>4. \A f : Pending(f) => Pending(f)'
      BY <1>2, <2>2, <2>3 DEF Pending
    <2>5. \A f \in Files : \A j \in DOMAIN imports[f] :
              Ahead(f, j) => Ahead(f, j)' \/ Pending(imports[f][j])'
      <3>1. ASSUME NEW f \in Files, NEW j \in DOMAIN imports[f], NEW k \in DOMAIN stack,
                   stack[k].file = f, stack[k].i \in 1..j
            PROVE  Ahead(f, j)' \/ Pending(imports[f][j])'
        <4>1. CASE k # n
          <5>1. k \in DOMAIN stack' /\ stack'[k] = stack[k]
            BY <1>2, <2>3, <4>1
          <5>. QED BY <3>1, <5>1 DEF Ahead
        <4>2. CASE k = n /\ Top.i # j
          <5>0. j \in Nat
            BY DEF TypeInv, InputType
          <5>1. stack'[n].i \in 1..j
            BY <1>2, <1>5, <2>3, <3>1, <4>2, <5>0
          <5>2. n \in DOMAIN stack' /\ stack'[n].file = f
            BY <1>2, <2>3, <3>1, <4>2
          <5>. QED BY <5>1, <5>2 DEF Ahead
        <4>3. CASE k = n /\ Top.i = j
          <5>1. imports'[f][j] = f0
            BY <1>2, <1>3, <3>1, <4>3 DEF f0
          <5>2. n + 1 \in DOMAIN stack' /\ stack'[n + 1].file = f0 /\ stack'[n + 1].i = 0
            BY <1>2, <2>3
          <5>. QED BY <5>1, <5>2 DEF Pending
        <4>. QED BY <4>1, <4>2, <4>3
      <3>. QED BY <3>1 DEF Ahead
    <2>6. \A k \in DOMAIN stack' : stack'[k].file \in Reachable
      BY <1>2, <1>4, <1>5, <2>2, <2>3
    <2>7. seen \subseteq Files
      BY DEF TypeInv, SearchType
    <2>. QED BY <1>3, <1>4, <2>1, <2>4, <2>5, <2>6, <2>7 DEF SearchInv
  <1>. QED BY <1>7, <1>8, <1>9, <1>10, <1>11

\* A search that is over has found the option if and only if a file in reach
\* declares it: otherwise the files seen are closed under imports.
LEMMA SearchDecides ==
  ASSUME TypeInv, SearchInv
  PROVE  FindsWhatIsImported
  <1> SUFFICES ASSUME at = "search", stack = <<>>
               PROVE  /\ found # Nowhere <=> Declared(Ext)
                      /\ found # Nowhere => found \in Reachable /\ Ext \in declares[found]
    BY DEF FindsWhatIsImported
  <1>1. CASE found # Nowhere
    BY <1>1 DEF SearchInv, Declared
  <1>2. CASE found = Nowhere
    <2>1. (\A f : ~Pending(f)) /\ (\A f, j : ~Ahead(f, j))
      BY DEF Pending, Ahead
    <2>2. Closed(seen)
      BY <1>2, <2>1 DEF SearchInv, Closed
    <2>3. seen \in SUBSET Files
      BY DEF TypeInv, SearchType
    <2>4. Reachable \subseteq seen
      BY <2>2, <2>3, ReachableClosed
    <2>. QED BY <1>2, <2>4 DEF SearchInv, Declared
  <1>. QED BY <1>1, <1>2

LEMMA SearchStep ==
  ASSUME TypeInv, SearchInv, Next
  PROVE  SearchInv'
  <1>1. CASE Finish /\ at # "done"
    BY <1>1, FinishMoves DEF SearchInv
  <1>2. CASE StartSearch
    BY <1>2, Steps, SearchStarts
  <1>3. CASE SkipSeen \/ FindHere \/ EnterFile \/ SearchImport \/ LeaveFile
    BY <1>3, SearchGoesOn DEF SkipSeen, FindHere, EnterFile, SearchImport, LeaveFile
  <1>4. CASE Found /\ at' = "decode"
    BY <1>4 DEF SearchInv
  <1>5. CASE SkipRecord /\ UNCHANGED at
    BY <1>5 DEF SearchInv, SkipRecord, Scanning
  <1>. QED BY <1>1, <1>2, <1>3, <1>4, <1>5, Steps

LEMMA SameOptions ==
  ASSUME UNCHANGED input
  PROVE  /\ \A e : RecordsOf(e)' = RecordsOf(e)
         /\ \A e : Parsed(e)' <=> Parsed(e)
         /\ \A e : Readable(e)' = Readable(e)
         /\ Reachable' = Reachable
         /\ \A e : Declared(e)' <=> Declared(e)
  <1>1. records' = records /\ linked' = linked /\ imports' = imports /\ declares' = declares
    BY DEF input
  <1>2. ASSUME NEW e
        PROVE  RecordsOf(e)' = RecordsOf(e)
    BY <1>1 DEF RecordsOf
  <1>3. ASSUME NEW e
        PROVE  Parsed(e)' <=> Parsed(e)
    BY <1>1, <1>2, Zenon DEF Parsed
  <1>4. ASSUME NEW e
        PROVE  Readable(e)' = Readable(e)
    <2>1. CASE Parsed(e)
      BY <1>2, <1>3, <2>1 DEF Readable
    <2>2. CASE ~Parsed(e)
      BY <1>1, <1>2, <1>3, <2>2 DEF Readable
    <2>. QED BY <2>1, <2>2
  <1>5. Reachable' = Reachable
    BY <1>1 DEF Reachable, Closed
  <1>6. ASSUME NEW e
        PROVE  Declared(e)' <=> Declared(e)
    BY <1>1, <1>5 DEF Declared
  <1>. QED BY <1>2, <1>3, <1>4, <1>5, <1>6

LEMMA StutterKeeps ==
  ASSUME TypeInv, SearchInv, OptionsInv, UNCHANGED vars
  PROVE  TypeInv' /\ SearchInv' /\ OptionsInv'
  <1>1. UNCHANGED input
    BY DEF vars
  <1>2. TypeInv'
    BY DEF vars, input, search, TypeInv, InputType, PhaseType, SearchType
  <1>3. OptionsInv'
    BY <1>1, SameOptions DEF OptionsInv, input
  <1>4. SearchInv'
    <2>1. /\ at' = at /\ stack' = stack /\ seen' = seen /\ found' = found
          /\ declares' = declares /\ imports' = imports /\ Ext' = Ext
      BY DEF vars, input, search, Ext
    <2>2. \A f : Pending(f)' <=> Pending(f)
      BY <2>1 DEF Pending
    <2>3. \A f : \A j : Ahead(f, j)' <=> Ahead(f, j)
      BY <2>1 DEF Ahead
    <2>. QED BY <1>1, <2>1, <2>2, <2>3, SameOptions DEF SearchInv
  <1>. QED BY <1>2, <1>3, <1>4

LEMMA StepKeeps ==
  ASSUME TypeInv, SearchInv, OptionsInv, Next
  PROVE  TypeInv' /\ SearchInv' /\ OptionsInv'
  <1>1. UNCHANGED input
    BY Steps
  <1>2. TypeInv'
    BY <1>1, PhaseStep, SearchTypeStep DEF TypeInv, InputType, input
  <1>3. OptionsInv'
    BY <1>1, SameOptions DEF OptionsInv, input
  <1>. QED BY <1>2, <1>3, SearchStep

LEMMA InitKeeps == Init => TypeInv /\ SearchInv /\ OptionsInv
  <1> SUFFICES ASSUME Init
               PROVE  TypeInv /\ SearchInv /\ OptionsInv
    OBVIOUS
  <1>1. InputType
    BY InputsAssumption DEF Init, InputType
  <1>2. PhaseType
    <2>1. at = "registered" /\ at # "done" /\ r \in Nat \ {0}
      BY DEF Init
    <2>4. annotated \in BOOLEAN
      BY Zenon DEF Init
    <2>2. CASE query = "method"
      <3>1. todo = <<"tool">> /\ todo # <<>>
        BY <2>2 DEF Init, Lookups
      <3>. QED BY <2>1, <2>2, <2>4, <3>1, Zenon DEF PhaseType
    <2>3. CASE query = "service"
      <3>1. todo = <<"service", "server">> /\ todo # <<>> /\ todo # <<"tool">>
        BY <2>3 DEF Init, Lookups
      <3>. QED BY <2>1, <2>3, <2>4, <3>1, Zenon DEF PhaseType
    <2>. QED BY <1>1, <2>2, <2>3 DEF InputType
  <1>3. SearchType
    BY DEF Init, SearchType
  <1>. QED BY <1>1, <1>2, <1>3 DEF Init, TypeInv, SearchInv, OptionsInv

\* internal/annotations looks for an option in the file of the service and all
\* its imports, directly or through other files, whatever their shape; nothing
\* within reach is missed for having been seen on another way.
THEOREM SearchIsExhaustive == Spec => []FindsWhatIsImported
  <1>1. Init => TypeInv /\ SearchInv /\ OptionsInv
    BY InitKeeps
  <1>2. TypeInv /\ SearchInv /\ OptionsInv /\ [Next]_vars
            => (TypeInv /\ SearchInv /\ OptionsInv)'
    BY StepKeeps, StutterKeeps
  <1>3. TypeInv /\ SearchInv /\ OptionsInv => FindsWhatIsImported
    BY SearchDecides
  <1>. QED BY <1>1, <1>2, <1>3, PTL DEF Spec

------------------------------------------------------------------------------
\* The options whose lookup is over, and what their readable records give.
Asked == {Lookups(query)[x] : x \in DOMAIN Lookups(query)}
Past == Asked \ {todo[x] : x \in DOMAIN todo}

Given(E, a) == {k \in DOMAIN records :
                   a \in records[k].sets /\ \E e \in E : k \in Readable(e)}

\* m says what the options of E give, and the fallback where they give nothing.
Decided(m, E) == \A a \in Attributes :
    IF Given(E, a) = {} THEN m[a] = 0
    ELSE /\ m[a] \in Given(E, a)
         /\ \A k \in Given(E, a) : records[k].ext = records[m[a]].ext => k <= m[a]

\* An option that was parsed may have been applied before it is looked up in
\* the files as well; no record before r is one of the option at hand.
DataInv ==
    /\ meta \in [Attributes -> Nat]
    /\ \/ Decided(meta, Past)
       \/ at \in {"search", "decode"} /\ Parsed(Ext) /\ Decided(meta, Past \cup {Ext})
    /\ IF at = "decode" THEN \A k \in 1..(r - 1) : k \in DOMAIN records /\ records[k].ext # Ext
       ELSE r = 1
    /\ annotated <=> "tool" \in Past /\ Readable("tool") # {}

LEMMA TupleRanges ==
  /\ {<<>>[x] : x \in DOMAIN <<>>} = {}
  /\ \A e : {<<e>>[x] : x \in DOMAIN <<e>>} = {e}
  /\ \A e, f : {<<e, f>>[x] : x \in DOMAIN <<e, f>>} = {e, f}
  <1>1. {<<>>[x] : x \in DOMAIN <<>>} = {}
    OBVIOUS
  <1>2. ASSUME NEW e
        PROVE  {<<e>>[x] : x \in DOMAIN <<e>>} = {e}
    <2>1. DOMAIN <<e>> = {1} /\ <<e>>[1] = e
      OBVIOUS
    <2>. QED BY <2>1
  <1>3. ASSUME NEW e, NEW f
        PROVE  {<<e, f>>[x] : x \in DOMAIN <<e, f>>} = {e, f}
    <2>1. DOMAIN <<e, f>> = {1, 2} /\ <<e, f>>[1] = e /\ <<e, f>>[2] = f
      OBVIOUS
    <2>. QED BY <2>1
  <1>. QED BY <1>1, <1>2, <1>3

\* What is looked up, in the order of the code.
LEMMA PastIs ==
  ASSUME TypeInv
  PROVE  /\ query = "method" => Asked = {"tool"}
         /\ query = "service" => Asked = {"service", "server"}
         /\ todo = <<>> => Past = Asked
         /\ todo = <<"tool">> => Past = Asked \ {"tool"}
         /\ todo = <<"server">> => Past = Asked \ {"server"}
         /\ todo = <<"service", "server">> => Past = Asked \ {"service", "server"}
  <1>1. query = "method" => Asked = {"tool"}
    BY TupleRanges DEF Asked, Lookups
  <1>2. query = "service" => Asked = {"service", "server"}
    BY TupleRanges DEF Asked, Lookups
  <1>3. /\ todo = <<>> => Past = Asked
        /\ todo = <<"tool">> => Past = Asked \ {"tool"}
        /\ todo = <<"server">> => Past = Asked \ {"server"}
        /\ todo = <<"service", "server">> => Past = Asked \ {"service", "server"}
    BY TupleRanges DEF Past
  <1>. QED BY <1>1, <1>2, <1>3

LEMMA PastFacts ==
  ASSUME TypeInv
  PROVE  /\ at = "done" => Past = Asked
         /\ at # "done" => Ext \notin Past
         /\ Past \subseteq {"tool", "service", "server"}
         /\ "tool" \in Asked <=> query = "method"
  <1>1. query \in {"method", "service"} /\ (at = "done" <=> todo = <<>>)
    BY DEF TypeInv, InputType, PhaseType
  <1>2. Asked \in {{"tool"}, {"service", "server"}} /\ Past \subseteq Asked
    BY <1>1, PastIs DEF Past
  <1>3. at # "done" => Ext \notin Past
    BY PastIs, ExtIsOption
  <1>. QED BY <1>1, <1>2, <1>3, PastIs

\* An option is past when its lookup finishes.
LEMMA PastMoves ==
  ASSUME TypeInv, UNCHANGED input
  PROVE  /\ todo' = todo => Past' = Past
         /\ at # "done" /\ Finish => Past' = Past \cup {Ext}
  <1>1. Asked' = Asked
    BY DEF Asked, input
  <1>2. ASSUME at # "done", Finish
        PROVE  Past' = Past \cup {Ext}
    <2>1. /\ todo' = <<>> => Past' = Asked
          /\ todo' = <<"server">> => Past' = Asked \ {"server"}
      BY <1>1, TupleRanges DEF Past
    <2>2. CASE Ext = "service"
      BY <1>2, <2>1, <2>2, ExtIsOption, FinishMoves, PastIs
    <2>3. CASE Ext = "tool" \/ Ext = "server"
      BY <1>2, <2>1, <2>3, ExtIsOption, FinishMoves, PastIs
    <2>. QED BY <1>2, <2>2, <2>3, ExtIsOption
  <1>. QED BY <1>1, <1>2 DEF Past

------------------------------------------------------------------------------
\* The order of the numbers is well-founded, so sets of them have a least
\* member, and bounded ones a greatest.
LessThan == {p \in Nat \X Nat : p[1] < p[2]}

LEMMA LeastNumber ==
  ASSUME NEW S \in SUBSET Nat, S # {}
  PROVE  \E n \in S : \A m \in S : n <= m
  <1>1. OpToRel(<, Nat) = LessThan
    BY DEF OpToRel, LessThan
  <1>2. IsWellFoundedOn(LessThan, Nat)
    BY <1>1, NatLessThanWellFounded
  <1>3. PICK n \in S : \A m \in S : ~(<<m, n>> \in LessThan)
    BY <1>2, WFMin
  <1>4. \A m \in S : ~(m < n)
    BY <1>3 DEF LessThan
  <1>. QED BY <1>3, <1>4

LEMMA GreatestNumber ==
  ASSUME NEW n \in Nat, NEW S \in SUBSET (1..n), S # {}
  PROVE  \E g \in S : \A k \in S : k <= g
  <1> DEFINE T == {m \in Nat : \E k \in S : m = n - k}
  <1>1. T # {}
    <2>1. PICK k \in S : TRUE
      OBVIOUS
    <2>2. n - k \in T
      BY <2>1
    <2>. QED BY <2>2
  <1>2. PICK m \in T : \A o \in T : m <= o
    BY <1>1, LeastNumber
  <1>3. PICK g \in S : m = n - g
    BY <1>2
  <1>4. ASSUME NEW k \in S
        PROVE  k <= g
    <2>1. n - k \in T
      OBVIOUS
    <2>2. n - g <= n - k
      BY <1>2, <1>3, <2>1
    <2>. QED BY <2>2
  <1>. QED BY <1>4

LEMMA ReadableFacts ==
  ASSUME TypeInv, NEW e
  PROVE  /\ RecordsOf(e) \subseteq DOMAIN records
         /\ Readable(e) \subseteq RecordsOf(e)
         /\ \A k \in RecordsOf(e) : records[k].ext = e
         /\ Parsed(e) => Readable(e) = RecordsOf(e)
  BY DEF RecordsOf, Readable

\* What a parsed option says is applied, for the first or the second time.
LEMMA ParsedDecides ==
  ASSUME TypeInv, NEW m \in [Attributes -> Nat], NEW E, NEW e, Decided(m, E), Parsed(e)
  PROVE  Decided(ApplyParsed(m, e), E \cup {e}) /\ ApplyParsed(m, e) \in [Attributes -> Nat]
  <1> DEFINE given(a) == {k \in RecordsOf(e) : a \in records[k].sets}
  <1>1. Readable(e) = RecordsOf(e)
    BY ReadableFacts
  <1>2. \A a \in Attributes : Given(E \cup {e}, a) = Given(E, a) \cup given(a)
    BY <1>1, ReadableFacts DEF Given
  <1>3. ASSUME NEW a \in Attributes
        PROVE  /\ given(a) = {} => ApplyParsed(m, e)[a] = m[a]
               /\ given(a) # {} => /\ ApplyParsed(m, e)[a] \in given(a)
                                  /\ \A k \in given(a) : k <= ApplyParsed(m, e)[a]
    <2>1. PICK n \in Nat : DOMAIN records = 1..n
      BY DEF TypeInv, InputType
    <2>2. given(a) \in SUBSET (1..n)
      BY <2>1, ReadableFacts
    <2>3. given(a) # {} => \E k \in given(a) : \A j \in given(a) : j <= k
      BY <2>2, GreatestNumber
    <2>4. ApplyParsed(m, e)[a] =
            IF given(a) = {} THEN m[a] ELSE CHOOSE k \in given(a) : \A j \in given(a) : j <= k
      BY DEF ApplyParsed
    <2>. QED BY <2>3, <2>4
  <1>4. ASSUME NEW a \in Attributes
        PROVE  given(a) \subseteq Nat
    BY ReadableFacts DEF TypeInv, InputType
  <1>5. ApplyParsed(m, e) \in [Attributes -> Nat]
    <2>1. \A a \in Attributes : ApplyParsed(m, e)[a] \in Nat
      BY <1>3, <1>4
    <2>2. ApplyParsed(m, e) = [a \in Attributes |-> ApplyParsed(m, e)[a]]
      BY DEF ApplyParsed
    <2>. QED BY <2>1, <2>2
  <1>6. ASSUME NEW a \in Attributes
        PROVE  IF Given(E \cup {e}, a) = {} THEN ApplyParsed(m, e)[a] = 0
               ELSE /\ ApplyParsed(m, e)[a] \in Given(E \cup {e}, a)
                    /\ \A k \in Given(E \cup {e}, a) :
                          records[k].ext = records[ApplyParsed(m, e)[a]].ext
                             => k <= ApplyParsed(m, e)[a]
    <2>1. CASE given(a) = {}
      BY <1>2, <1>3, <2>1 DEF Decided
    <2>2. CASE given(a) # {}
      <3>1. \A k \in Given(E \cup {e}, a) : records[k].ext = e => k \in given(a)
        BY DEF Given, RecordsOf
      <3>2. records[ApplyParsed(m, e)[a]].ext = e
        BY <1>3, <2>2, ReadableFacts
      <3>. QED BY <1>2, <1>3, <2>2, <3>1, <3>2
    <2>. QED BY <2>1, <2>2
  <1>. QED BY <1>5, <1>6 DEF Decided

\* The one readable record of an option is applied for the first time.
LEMMA RecordDecides ==
  ASSUME TypeInv, NEW m \in [Attributes -> Nat], NEW E, NEW e, Decided(m, E),
         NEW r0 \in Nat, Readable(e) = {r0}
  PROVE  Decided(Apply(m, r0), E \cup {e}) /\ Apply(m, r0) \in [Attributes -> Nat]
  <1>1. r0 \in DOMAIN records /\ records[r0].ext = e
    BY ReadableFacts
  <1>2. Apply(m, r0) \in [Attributes -> Nat]
    BY DEF Apply
  <1>3. ASSUME NEW a \in Attributes
        PROVE  IF Given(E \cup {e}, a) = {} THEN Apply(m, r0)[a] = 0
               ELSE /\ Apply(m, r0)[a] \in Given(E \cup {e}, a)
                    /\ \A k \in Given(E \cup {e}, a) :
                          records[k].ext = records[Apply(m, r0)[a]].ext => k <= Apply(m, r0)[a]
    <2>1. CASE a \in records[r0].sets
      <3>1. Apply(m, r0)[a] = r0 /\ r0 \in Given(E \cup {e}, a)
        BY <1>1, <2>1 DEF Apply, Given
      <3>2. \A k \in Given(E \cup {e}, a) : records[k].ext = e => k = r0
        BY ReadableFacts DEF Given
      <3>3. \A k \in Given(E \cup {e}, a) : records[k].ext = e => k <= r0
        BY <3>2
      <3> HIDE DEF Given
      <3>. QED BY <1>1, <3>1, <3>3
    <2>2. CASE a \notin records[r0].sets
      <3>1. Apply(m, r0)[a] = m[a] /\ Given(E \cup {e}, a) = Given(E, a)
        BY <2>2 DEF Apply, Given
      <3>. QED BY <3>1 DEF Decided
    <2>. QED BY <2>1, <2>2
  <1>. QED BY <1>2, <1>3 DEF Decided

LEMMA NothingDecides ==
  ASSUME NEW m, NEW E, NEW e, Decided(m, E), Readable(e) = {}
  PROVE  Decided(m, E \cup {e})
  <1>1. \A a : Given(E \cup {e}, a) = Given(E, a)
    BY DEF Given
  <1>. QED BY <1>1 DEF Decided

LEMMA NoneReadable ==
  ASSUME NEW e, RecordsOf(e) = {}
  PROVE  Readable(e) = {} /\ ~Parsed(e)
  BY DEF Readable, Parsed

\* A linked package has rejected unsound records already.
LEMMA ParsedReadable ==
  ASSUME TypeInv, OptionsInv, NEW e, Parsed(e)
  PROVE  /\ Readable(e) # {}
         /\ \E k \in RecordsOf(e) : records[k].sound /\ \A j \in RecordsOf(e) : k <= j
  <1>1. RecordsOf(e) # {} /\ RecordsOf(e) \in SUBSET Nat /\ linked
    BY ReadableFacts DEF Parsed, TypeInv, InputType
  <1>2. PICK k \in RecordsOf(e) : \A j \in RecordsOf(e) : k <= j
    BY <1>1, LeastNumber
  <1>. QED BY <1>1, <1>2, ReadableFacts DEF OptionsInv

\* Of unparsed records the first one of the option is the one that is read.
LEMMA FirstReadable ==
  ASSUME TypeInv, NEW e, ~Parsed(e), NEW r0 \in DOMAIN records, records[r0].ext = e,
         \A k \in 1..(r0 - 1) : records[k].ext # e
  PROVE  Readable(e) = IF records[r0].sound THEN {r0} ELSE {}
  <1>1. PICK n \in Nat : DOMAIN records = 1..n
    BY DEF TypeInv, InputType
  <1>2. r0 \in RecordsOf(e) /\ \A j \in RecordsOf(e) : r0 <= j /\ (j <= r0 => j = r0)
    BY <1>1 DEF RecordsOf
  <1>3. Readable(e) = {k \in RecordsOf(e) :
                          records[k].sound /\ \A j \in RecordsOf(e) : k <= j}
    BY DEF Readable
  <1>4. \A k \in Readable(e) : k = r0 /\ records[k].sound
    BY <1>2, <1>3
  <1>5. records[r0].sound => r0 \in Readable(e)
    BY <1>2, <1>3
  <1>. QED BY <1>4, <1>5

LEMMA DecidedSame ==
  ASSUME UNCHANGED input
  PROVE  \A m, E : Decided(m, E)' <=> Decided(m, E)
  <1>1. records' = records
    BY DEF input
  <1>2. \A E, a : Given(E, a)' = Given(E, a)
    BY <1>1, SameOptions DEF Given
  <1>. QED BY <1>1, <1>2 DEF Decided

\* The lookup of an option is over, and what it says has been applied.
LEMMA FinishData ==
  ASSUME TypeInv, DataInv, UNCHANGED input, at # "done", Finish,
         meta' \in [Attributes -> Nat], Decided(meta', Past \cup {Ext}),
         annotated' <=> (annotated \/ (Ext = "tool" /\ Readable(Ext) # {}))
  PROVE  DataInv'
  <1>1. Past' = Past \cup {Ext} /\ at' # "decode" /\ r' = 1
    BY PastMoves, FinishMoves DEF Finish
  <1>2. Decided(meta, Past)'
    BY <1>1, DecidedSame
  <1>3. "tool" \in Past' <=> "tool" \in Past \/ Ext = "tool"
    BY <1>1
  <1>4. annotated' <=> "tool" \in Past' /\ Readable("tool")' # {}
    <2>1. annotated <=> "tool" \in Past /\ Readable("tool") # {}
      BY DEF DataInv
    <2>2. Readable("tool")' = Readable("tool")
      BY SameOptions
    <2>. QED BY <1>3, <2>1, <2>2
  <1>. QED BY <1>1, <1>2, <1>4 DEF DataInv

LEMMA DataStep ==
  ASSUME TypeInv, SearchInv, OptionsInv, DataInv, Next
  PROVE  DataInv'
  <1>1. UNCHANGED input /\ Past \subseteq {"tool", "service", "server"}
    BY Steps, PastFacts
  <1>2. meta \in [Attributes -> Nat] /\ annotated \in BOOLEAN
    BY DEF DataInv, TypeInv, PhaseType
  <1>3. at \in {"registered", "search", "decode", "done"} /\ r \in Nat \ {0}
    BY DEF TypeInv, PhaseType
  <1>4. at = "registered" \/ ~Parsed(Ext) => Decided(meta, Past)
    BY DEF DataInv
  <1>5. Parsed(Ext) => Decided(ApplyParsed(meta, Ext), Past \cup {Ext})
                       /\ ApplyParsed(meta, Ext) \in [Attributes -> Nat]
    <2>1. ASSUME Parsed(Ext), Decided(meta, Past \cup {Ext})
          PROVE  Decided(ApplyParsed(meta, Ext), Past \cup {Ext})
                 /\ ApplyParsed(meta, Ext) \in [Attributes -> Nat]
      <3>1. (Past \cup {Ext}) \cup {Ext} = Past \cup {Ext}
        OBVIOUS
      <3>. QED BY <1>2, <2>1, <3>1, ParsedDecides
    <2>. QED BY <1>2, <2>1, ParsedDecides DEF DataInv
  \* Everything the lookup has to say stays as it is.
  <1>6. ASSUME UNCHANGED <<todo, meta, annotated>>
        PROVE  /\ meta' \in [Attributes -> Nat] /\ Ext' = Ext
               /\ Decided(meta, Past) => Decided(meta, Past)'
               /\ Decided(meta, Past \cup {Ext}) => Decided(meta, Past \cup {Ext})'
               /\ Parsed(Ext)' <=> Parsed(Ext)
               /\ annotated' <=> "tool" \in Past' /\ Readable("tool")' # {}
    <2>1. Past' = Past /\ Ext' = Ext
      BY <1>1, <1>6, PastMoves DEF Ext
    <2>2. Decided(meta, Past) => Decided(meta, Past)'
      BY <1>1, <1>6, <2>1, DecidedSame
    <2>3. Decided(meta, Past \cup {Ext}) => Decided(meta, Past \cup {Ext})'
      BY <1>1, <1>6, <2>1, DecidedSame
    <2>4. Parsed(Ext)' <=> Parsed(Ext)
      BY <1>1, <2>1, SameOptions
    <2>5. annotated' <=> "tool" \in Past' /\ Readable("tool")' # {}
      <3>1. Readable("tool")' = Readable("tool")
        BY <1>1, SameOptions
      <3>. QED BY <1>6, <2>1, <3>1 DEF DataInv
    <2>. QED BY <1>2, <1>6, <2>1, <2>2, <2>3, <2>4, <2>5
  <1>7. CASE FromRegistered
    <2>1. /\ at = "registered" /\ Parsed(Ext) /\ meta' = ApplyParsed(meta, Ext)
          /\ annotated' = (annotated \/ Ext = "tool")
      BY <1>7 DEF FromRegistered
    <2>2. Readable(Ext) # {}
      BY <2>1, ParsedReadable
    <2>3. CASE Ext = "service"
      <3>1. StartSearch /\ UNCHANGED <<todo, r>>
        BY <1>7, <2>3 DEF FromRegistered
      <3>2. at' = "search" /\ r' = 1 /\ Past' = Past /\ Ext' = Ext
        BY <1>1, <2>1, <3>1, PastMoves DEF DataInv, StartSearch, Ext
      <3>3. Decided(meta, Past \cup {Ext})'
        BY <1>1, <1>5, <2>1, <3>2, DecidedSame
      <3>4. Parsed(Ext)'
        BY <1>1, <2>1, <3>2, SameOptions
      <3>5. annotated' <=> "tool" \in Past' /\ Readable("tool")' # {}
        <4>1. Readable("tool")' = Readable("tool") /\ (annotated' <=> annotated)
          BY <1>1, <2>1, <2>3, SameOptions
        <4>. QED BY <3>2, <4>1 DEF DataInv
      <3>. QED BY <1>5, <2>1, <3>2, <3>3, <3>4, <3>5 DEF DataInv
    <2>4. CASE Ext # "service"
      <3>1. Finish
        BY <1>7, <2>4 DEF FromRegistered
      <3>. QED BY <1>1, <1>5, <2>1, <2>2, <3>1, FinishData
    <2>. QED BY <2>3, <2>4
  <1>8. CASE NotRegistered
    <2>1. /\ at = "registered" /\ at' = "search" /\ r' = 1 /\ UNCHANGED <<todo, meta, annotated>>
      BY <1>8 DEF NotRegistered, StartSearch, DataInv
    <2>. QED BY <1>4, <1>6, <2>1 DEF DataInv
  <1>9. CASE SkipSeen \/ FindHere \/ EnterFile \/ SearchImport \/ LeaveFile
    <2>1. at = "search" /\ at' = "search" /\ r' = r /\ UNCHANGED <<todo, meta, annotated>>
      BY <1>9 DEF SkipSeen, FindHere, EnterFile, SearchImport, LeaveFile, Searching
    <2>. QED BY <1>6, <2>1 DEF DataInv
  <1>10. ASSUME RecordsOf(Ext) = {}, at # "done", Finish, UNCHANGED <<meta, annotated>>
         PROVE  DataInv'
    <2>1. Readable(Ext) = {} /\ ~Parsed(Ext)
      BY <1>10, NoneReadable
    <2>2. Decided(meta, Past \cup {Ext})
      BY <1>4, <2>1, NothingDecides
    <2>. QED BY <1>1, <1>2, <1>10, <2>1, <2>2, FinishData
  <1>11. CASE NotFound
    <2>1. ~Declared(Ext) /\ at = "search" /\ UNCHANGED <<meta, annotated>> /\ Finish
      BY <1>11, SearchDecides DEF NotFound, FindsWhatIsImported
    <2>2. RecordsOf(Ext) = {}
      BY <2>1, ExtIsOption DEF OptionsInv
    <2>. QED BY <1>10, <2>1, <2>2
  <1>12. CASE Found
    <2>1. /\ at = "search" /\ at' = "decode" /\ r' = 1 /\ UNCHANGED <<todo, meta, annotated>>
      BY <1>12 DEF Found, DataInv
    <2>2. 1..(r' - 1) = {}
      BY <2>1
    <2>. QED BY <1>6, <2>1, <2>2 DEF DataInv
  <1>13. CASE ReadParsed
    <2>1. /\ at = "decode" /\ Parsed(Ext) /\ meta' = ApplyParsed(meta, Ext) /\ Finish
          /\ annotated' = (annotated \/ Ext = "tool")
      BY <1>13 DEF ReadParsed
    <2>2. Readable(Ext) # {}
      BY <2>1, ParsedReadable
    <2>. QED BY <1>1, <1>5, <2>1, <2>2, FinishData
  <1>14. PICK n \in Nat : DOMAIN records = 1..n /\ Len(records) = n
    BY DEF TypeInv, InputType
  <1>15. CASE SkipRecord
    <2>1. /\ at = "decode" /\ at' = "decode" /\ r' = r + 1 /\ UNCHANGED <<todo, meta, annotated>>
          /\ r <= n /\ records[r].ext # Ext /\ records' = records
      BY <1>1, <1>14, <1>15 DEF SkipRecord, Scanning, input
    <2>2. \A k \in 1..(r' - 1) : k \in DOMAIN records' /\ (records')[k].ext # Ext'
      <3>1. \A k \in 1..(r' - 1) : k = r \/ k \in 1..(r - 1)
        BY <1>3, <2>1
      <3>. QED BY <1>3, <1>6, <1>14, <2>1, <3>1 DEF DataInv
    <2>. QED BY <1>6, <2>1, <2>2 DEF DataInv
  <1>16. CASE ReadRecord
    <2>1. /\ at = "decode" /\ ~Parsed(Ext) /\ r \in DOMAIN records /\ records[r].ext = Ext /\ Finish
      BY <1>3, <1>14, <1>16 DEF ReadRecord, Scanning
    <2>2. Readable(Ext) = IF records[r].sound THEN {r} ELSE {}
      BY <2>1, FirstReadable DEF DataInv
    <2>3. CASE records[r].sound
      <3>1. meta' = Apply(meta, r) /\ annotated' = (annotated \/ Ext = "tool")
        BY <1>16, <2>3 DEF ReadRecord
      <3>2. Decided(meta', Past \cup {Ext}) /\ meta' \in [Attributes -> Nat]
        BY <1>2, <1>3, <1>4, <2>1, <2>2, <2>3, <3>1, RecordDecides
      <3>. QED BY <1>1, <2>1, <2>2, <2>3, <3>1, <3>2, FinishData
    <2>4. CASE ~records[r].sound
      <3>1. UNCHANGED <<meta, annotated>>
        BY <1>16, <2>4 DEF ReadRecord
      <3>2. Decided(meta', Past \cup {Ext})
        BY <1>4, <2>1, <2>2, <2>4, <3>1, NothingDecides
      <3>. QED BY <1>1, <1>2, <2>1, <2>2, <2>4, <3>1, <3>2, FinishData
    <2>. QED BY <2>3, <2>4
  <1>17. CASE NoRecord
    <2>1. /\ at = "decode" /\ r > n /\ Finish /\ UNCHANGED <<meta, annotated>>
      BY <1>14, <1>17 DEF NoRecord, Scanning
    <2>2. \A k \in 1..n : records[k].ext # Ext
      BY <1>3, <2>1 DEF DataInv
    <2>3. RecordsOf(Ext) = {}
      BY <1>14, <2>2 DEF RecordsOf
    <2>. QED BY <1>10, <2>1, <2>3
  <1>. QED BY <1>7, <1>8, <1>9, <1>11, <1>12, <1>13, <1>15, <1>16, <1>17 DEF Next

LEMMA DataStutters ==
  ASSUME TypeInv, DataInv, UNCHANGED vars
  PROVE  DataInv'
  <1>1. /\ UNCHANGED input /\ todo' = todo /\ meta' = meta /\ at' = at /\ r' = r
        /\ annotated' = annotated /\ records' = records
    BY DEF vars, input
  <1>2. Past' = Past /\ Ext' = Ext
    BY <1>1, PastMoves DEF Ext
  <1>3. (Decided(meta, Past)' <=> Decided(meta, Past))
        /\ (Decided(meta, Past \cup {Ext})' <=> Decided(meta, Past \cup {Ext}))
    BY <1>1, <1>2, DecidedSame
  <1>4. (Parsed(Ext)' <=> Parsed(Ext)) /\ Readable("tool")' = Readable("tool")
    BY <1>1, <1>2, SameOptions
  <1>. QED BY <1>1, <1>2, <1>3, <1>4 DEF DataInv

LEMMA DataStarts == Init => DataInv
  <1> SUFFICES ASSUME Init
               PROVE  DataInv
    OBVIOUS
  <1>1. TypeInv
    BY InitKeeps
  <1>2. Past = {}
    <2>1. todo = Lookups(query)
      BY DEF Init
    <2>. QED BY <2>1 DEF Past, Asked
  <1>3. \A a : Given({}, a) = {}
    BY DEF Given
  <1>4. meta \in [Attributes -> Nat] /\ Decided(meta, Past)
    BY <1>2, <1>3 DEF Init, Fallback, Decided
  <1>5. r = 1 /\ at # "decode" /\ ~annotated
    BY DEF Init
  <1>. QED BY <1>2, <1>4, <1>5 DEF DataInv

LEMMA LookupInductive == Spec => [](TypeInv /\ OptionsInv /\ DataInv)
  <1>1. Init => TypeInv /\ SearchInv /\ OptionsInv /\ DataInv
    BY InitKeeps, DataStarts
  <1>2. TypeInv /\ SearchInv /\ OptionsInv /\ DataInv /\ [Next]_vars
            => (TypeInv /\ SearchInv /\ OptionsInv /\ DataInv)'
    BY StepKeeps, StutterKeeps, DataStep, DataStutters
  <1>. QED BY <1>1, <1>2, PTL DEF Spec

\* ForMethod and ForService: for every record an options message can hold, in
\* either form, what a lookup says of a tool or a server is what the options
\* say, the last word on a field of a parsed one and the first record of an
\* unparsed one, and the fallback where they say nothing.
THEOREM OptionsAreObeyed == Spec => []OptionsDecide
  <1>1. TypeInv /\ OptionsInv /\ DataInv => OptionsDecide
    <2> SUFFICES ASSUME TypeInv, DataInv, at = "done", NEW a \in Attributes
                 PROVE  LET given == {k \in UNION {Readable(Lookups(query)[x]) :
                                                      x \in DOMAIN Lookups(query)} :
                                         a \in records[k].sets}
                        IN  IF given = {} THEN meta[a] = 0
                            ELSE /\ meta[a] \in given
                                 /\ \A k \in given :
                                       records[k].ext = records[meta[a]].ext => k <= meta[a]
      BY DEF OptionsDecide
    <2>1. Decided(meta, Asked)
      BY PastFacts DEF DataInv
    <2>2. \A e : Readable(e) \subseteq DOMAIN records
      BY ReadableFacts
    <2>3. Given(Asked, a) = {k \in UNION {Readable(Lookups(query)[x]) :
                                             x \in DOMAIN Lookups(query)} :
                                a \in records[k].sets}
      BY <2>2 DEF Given, Asked
    <2>. QED BY <2>1, <2>3 DEF Decided
  <1>. QED BY <1>1, LookupInductive, PTL

\* ToolMetadata.Annotated, which --require-tool-annotations goes by: set exactly
\* if the method has a tool option whose first record can be read.
THEOREM AnnotatedIsAsked == Spec => []AnnotatedIsExplicit
  <1>1. TypeInv /\ OptionsInv /\ DataInv => AnnotatedIsExplicit
    <2> SUFFICES ASSUME TypeInv, OptionsInv, DataInv, at = "done"
                 PROVE  annotated <=> /\ query = "method"
                                      /\ \E k \in RecordsOf("tool") : records[k].sound
                                            /\ \A j \in RecordsOf("tool") : k <= j
      BY DEF AnnotatedIsExplicit
    <2>1. annotated <=> query = "method" /\ Readable("tool") # {}
      BY PastFacts DEF DataInv
    <2>2. CASE Parsed("tool")
      BY <2>1, <2>2, ParsedReadable
    <2>3. CASE ~Parsed("tool")
      BY <2>1, <2>3 DEF Readable
    <2>. QED BY <2>2, <2>3
  <1>. QED BY <1>1, LookupInductive, PTL
==============================================================================
