---------------------------- MODULE ToolCallProofs ---------------------------
(***************************************************************************)
(* Proofs about tool calls, for any number of simultaneous calls, any      *)
(* configured headers, messages, arguments, replies and templates.         *)
(***************************************************************************)
EXTENDS ToolCall, WellFoundedInduction, FiniteSetTheorems, TLAPS

Results == {"none", "bad arguments", "call failed", "bad response",
            "template failed", "structured", "text"}

\* The parts of a call.
Parts == {"ask", "md", "trace", "phase", "payload", "i", "n", "changed", "message",
          "sent", "attached", "out", "result", "text"}

\* What is asked is what protoc and the registration of tools let through.
AskInv(ask) ==
    /\ ask \in Ask
    /\ \A i, j \in DOMAIN ask.input :
          i # j => {ask.input[i].json, ask.input[i].name}
                        \cap {ask.input[j].json, ask.input[j].name} = {}
    /\ \A k \in DOMAIN ask.template : ask.template[k].field \in DOMAIN ask.reply

TypeInv(c) ==
    /\ DOMAIN c = Parts
    /\ AskInv(c.ask)
    /\ c.phase \in {"start", "decode", "repair", "invoke", "sent", "render", "done"}
    /\ DOMAIN c.md \subseteq Headers /\ DOMAIN c.trace \subseteq Headers
    /\ DOMAIN c.attached \subseteq Headers
    /\ c.i \in 1..(Len(c.ask.input) + 1) /\ c.n \in 1..2
    /\ c.phase \in {"start", "decode"} => c.i = 1 /\ c.n = 1
    /\ c.changed \in BOOLEAN /\ c.sent \in BOOLEAN
    /\ DOMAIN c.payload \subseteq Names
    /\ \A x \in DOMAIN c.payload : c.payload[x] \in Values
    /\ DOMAIN c.message \subseteq DOMAIN c.ask.input
    /\ c.result \in Results

\* The context has the headers and the trace of the request from the first step
\* on, and an RPC that was sent has had them.
HeadersInv(list, c) ==
    /\ c.phase # "start" => c.md = Collected(list, c.ask.http) /\ c.trace \in Extracted(c.ask.http)
    /\ c.sent => /\ c.phase # "start"
                 /\ \E injected \in Injections(c.trace) : c.attached = Attached(c.md, injected)

\* A field of the kind takes the value, unquoted, in a repair.
Takes(kind, value) == Wants(kind, value) /\ value \in {"quoted list", "quoted object"}

\* The value at x is the last of the arguments by that name, or that one
\* unquoted, for a field that it belongs to.
Unwrapped(c, x) ==
    LET last == LastValues(c.ask.args)
    IN  \/ c.payload[x] = last[x]
        \/ /\ c.changed
           /\ c.payload[x] = Unquoted(last[x])
           /\ \E j \in DOMAIN c.ask.input :
                 Spells(c.ask.input[j], x) /\ Takes(c.ask.input[j].kind, last[x])

\* The loops have looked at the value at x for the field j.
Tried(c, j, x) == j < c.i \/ (j = c.i /\ c.n = 2 /\ x = c.ask.input[j].json)

\* A value that the loops have looked at needs no unquoting any more, unless
\* its field came under both spellings.
Settled(c, j, x) ==
    \/ ~Takes(c.ask.input[j].kind, c.payload[x])
    \/ \E y \in DOMAIN c.payload : y # x /\ Spells(c.ask.input[j], y)

RepairInv(c) ==
    c.phase = "repair" =>
        /\ ~Decodes(c.ask.input, c.ask.args)
        /\ DOMAIN c.payload = {c.ask.args[m].name : m \in DOMAIN c.ask.args}
        /\ \A x \in DOMAIN c.payload : Unwrapped(c, x)
        /\ \A j \in DOMAIN c.ask.input : \A x \in DOMAIN c.payload :
              Spells(c.ask.input[j], x) /\ Tried(c, j, x) => Settled(c, j, x)

\* What SentAsGiven says of one field of a call.
AsGiven(c, j) ==
    \/ c.message[j] = Given(c.ask, j)
    \/ /\ ~Decodes(c.ask.input, c.ask.args)
       /\ Given(c.ask, j) \in {"quoted list", "quoted object"}
       /\ c.message[j] = Unquoted(Given(c.ask, j))
       /\ Given(c.ask, j) = "quoted list" => c.ask.input[j].kind = "list"
       /\ Given(c.ask, j) = "quoted object" => c.ask.input[j].kind \in MessageKinds \cup {"map"}

MessageInv(c) == \A j \in DOMAIN c.message : AsGiven(c, j)

ReplyInv(c) ==
    LET out == Out(c.ask.reply)
        template == c.ask.template
    IN  /\ c.phase = "render" => c.out = out
        /\ \/ c.text = <<>>
           \/ c.text = [k \in DOMAIN template |-> Piece(out, template[k])]
        /\ c.result = "template failed" => \E k \in DOMAIN template : Fails(out, template[k])
        /\ c.result = "text" => \A k \in DOMAIN template : ~Fails(out, template[k])

Good(list, c) ==
    TypeInv(c) /\ HeadersInv(list, c) /\ RepairInv(c) /\ MessageInv(c) /\ ReplyInv(c)

Inv ==
    /\ configured \in Seq(Entries(Headers))
    /\ \A r \in Calls : Good(configured, call[r])

------------------------------------------------------------------------------
\* The order of the numbers is well-founded, so sets of them have a least
\* member, and bounded ones a greatest.
LessThan == {p \in Nat \X Nat : p[1] < p[2]}

LEMMA LeastNumber ==
  ASSUME NEW S \in SUBSET Nat, S # {}
  PROVE  \E n \in S : \A m \in S : n <= m
  <1>1. OpToRel(<, Nat) = LessThan
    BY DEF OpToRel, LessThan
  <1>2. IsWellFoundedOn(LessThan, Nat)
    BY <1>1, NatLessThanWellFounded
  <1>3. PICK n \in S : \A m \in S : ~(<<m, n>> \in LessThan)
    BY <1>2, WFMin
  <1>4. \A m \in S : ~(m < n)
    BY <1>3 DEF LessThan
  <1>. QED BY <1>3, <1>4

LEMMA GreatestNumber ==
  ASSUME NEW n \in Nat, NEW S \in SUBSET (1..n), S # {}
  PROVE  \E g \in S : \A k \in S : k <= g
  <1> DEFINE T == {m \in Nat : \E k \in S : m = n - k}
  <1>1. T # {}
    <2>1. PICK k \in S : TRUE
      OBVIOUS
    <2>2. n - k \in T
      BY <2>1
    <2>. QED BY <2>2
  <1>2. PICK m \in T : \A o \in T : m <= o
    BY <1>1, LeastNumber
  <1>3. PICK g \in S : m = n - g
    BY <1>2
  <1>4. ASSUME NEW k \in S
        PROVE  k <= g
    <2>1. n - k \in T
      OBVIOUS
    <2>2. n - g <= n - k
      BY <1>2, <1>3, <2>1
    <2>. QED BY <2>2
  <1>. QED BY <1>4

------------------------------------------------------------------------------
LEMMA RemainderUnique ==
  ASSUME NEW M \in Nat \ {0}, NEW a \in Nat, NEW w \in Nat, NEW m \in 0..(M - 1),
         a = m + w * M
  PROVE  a % M = m
  OBVIOUS

\* Of a name that is configured, exactly one entry is kept.
LEMMA KeptOnce ==
  ASSUME NEW list \in Seq(Entries(Headers)), NEW h \in Mentioned(list)
  PROVE  \E p \in DOMAIN list : {i \in Kept(list) : list[i].name = h} = {p}
  <1> DEFINE S == {i \in DOMAIN list : list[i].name = h}
  <1>1. DOMAIN list = 1..Len(list) /\ Len(list) \in Nat
    OBVIOUS
  <1>2. S # {} /\ S \in SUBSET Nat
    BY <1>1 DEF Mentioned, Members
  <1>3. PICK p \in S : \A m \in S : p <= m
    BY <1>2, LeastNumber
  <1>4. h # Blank
    BY DEF Mentioned
  <1>5. p \in Kept(list)
    BY <1>1, <1>3, <1>4 DEF Kept, Repeats
  <1>6. ASSUME NEW i \in Kept(list), list[i].name = h, i # p
        PROVE  FALSE
    <2>1. i \in S /\ ~Repeats(list, i)
      BY <1>6 DEF Kept
    <2>2. p \in 1..(i - 1)
      BY <1>1, <1>3, <1>6, <2>1
    <2>. QED BY <1>3, <2>1, <2>2, <1>6 DEF Repeats
  <1>. QED BY <1>3, <1>5, <1>6

LEMMA KeptMentioned ==
  ASSUME NEW list \in Seq(Entries(Headers)), NEW i \in Kept(list)
  PROVE  list[i].name \in Mentioned(list)
  BY DEF Kept, Mentioned, Members

LEMMA MentionedHeaders ==
  ASSUME NEW list \in Seq(Entries(Headers))
  PROVE  Mentioned(list) \subseteq Headers
  <1>1. \A i \in DOMAIN list : list[i] \in Entries(Headers)
    OBVIOUS
  <1>2. \A i \in DOMAIN list : list[i].name \in Headers \cup {Blank}
    BY <1>1 DEF Entries
  <1>. QED BY <1>2 DEF Mentioned, Members

\* The values of a header that are not empty are a sequence.
LEMMA NonEmptyType ==
  ASSUME NEW S, NEW v \in Seq(S)
  PROVE  /\ Len(NonEmpty(v)) \in Nat
         /\ NonEmpty(v) = [k \in 1..Len(NonEmpty(v)) |-> NonEmpty(v)[k]]
  <1> DEFINE P == {k \in DOMAIN v : v[k] # Blank}
             n == Cardinality(P)
             R == {NonEmpty(v)[k] : k \in 1..n}
  <1>1. P \in SUBSET (1..Len(v)) /\ Len(v) \in Nat
    OBVIOUS
  <1>2. IsFiniteSet(1..Len(v))
    BY <1>1, FS_Interval
  <1>3. n \in Nat
    BY <1>1, <1>2, FS_Subset, FS_CardinalityType
  <1> DEFINE f == NonEmpty(v)
  <1>4. f = [k \in 1..n |-> f[k]]
    BY DEF NonEmpty, Picked
  <1> HIDE DEF n, f
  <1>5. f \in [1..n -> R]
    BY <1>4 DEF f
  <1>6. f \in Seq(R)
    BY <1>3, <1>5
  <1>7. Len(f) = n
    BY <1>3, <1>4, <1>6
  <1>. QED BY <1>3, <1>4, <1>7 DEF f

\* What is collected of a header is what the request has of it, once.
LEMMA CollectedFacts ==
  ASSUME NEW list \in Seq(Entries(Headers)), NEW V, NEW http \in [Headers -> Seq(V)]
  PROVE  LET md == Collected(list, http)
         IN  /\ DOMAIN md \subseteq Mentioned(list)
             /\ \A h \in Mentioned(list) :
                   NonEmpty(http[h]) = IF h \in DOMAIN md THEN md[h] ELSE <<>>
  <1> DEFINE md == Collected(list, http)
             times(h) == Cardinality({i \in Kept(list) : list[i].name = h})
             given(h) == NonEmpty(http[h])
             size(h) == times(h) * Len(given(h))
  <1>1. ASSUME NEW h \in Headers
        PROVE  /\ Len(given(h)) \in Nat
               /\ given(h) = [k \in 1..Len(given(h)) |-> given(h)[k]]
    BY <1>1, NonEmptyType, http[h] \in Seq(V)
  <1>2. ASSUME NEW h \in Mentioned(list)
        PROVE  times(h) = 1
    <2>1. PICK p \in DOMAIN list : {i \in Kept(list) : list[i].name = h} = {p}
      BY <1>2, KeptOnce
    <2>. QED BY <2>1, FS_Singleton
  <1>3. ASSUME NEW h \in Headers \ Mentioned(list)
        PROVE  times(h) = 0
    <2>1. {i \in Kept(list) : list[i].name = h} = {}
      BY <1>3, KeptMentioned
    <2>. QED BY <2>1, FS_EmptySet
  <1>4. DOMAIN md = {h \in Headers : size(h) > 0}
    BY DEF Collected
  <1>5. \A h \in DOMAIN md : md[h] =
            [k \in 1..size(h) |-> given(h)[1 + ((k - 1) % Len(given(h)))]]
    BY DEF Collected
  <1> HIDE DEF md, times, given
  <1>6. DOMAIN md \subseteq Mentioned(list)
    BY <1>1, <1>3, <1>4
  <1>7. ASSUME NEW h \in Mentioned(list)
        PROVE  given(h) = IF h \in DOMAIN md THEN md[h] ELSE <<>>
    <2>1. h \in Headers /\ size(h) = Len(given(h))
      BY <1>1, <1>2, <1>7, MentionedHeaders
    <2>2. CASE Len(given(h)) = 0
      <3>1. h \notin DOMAIN md
        BY <1>4, <2>1, <2>2
      <3>2. given(h) = [k \in 1..0 |-> given(h)[k]]
        BY <1>1, <2>1, <2>2
      <3>. QED BY <3>1, <3>2
    <2>3. CASE Len(given(h)) > 0
      <3>1. h \in DOMAIN md
        BY <1>4, <2>1, <2>3
      <3>2. md[h] = [k \in 1..Len(given(h)) |->
                        given(h)[1 + ((k - 1) % Len(given(h)))]]
        BY <1>5, <2>1, <3>1
      <3>3. \A k \in 1..Len(given(h)) : 1 + ((k - 1) % Len(given(h))) = k
        <4> DEFINE n == Len(given(h))
        <4>1. n \in Nat
          BY <1>1, <2>1
        <4> HIDE DEF n
        <4>2. ASSUME NEW k \in 1..n
              PROVE  1 + ((k - 1) % n) = k
          <5>1. n \in Nat \ {0} /\ k - 1 \in Nat /\ k - 1 \in 0..(n - 1)
            BY <4>1
          <5>2. k - 1 = (k - 1) + 0 * n
            BY <4>1
          <5>3. (k - 1) % n = k - 1
            BY <5>1, <5>2, RemainderUnique, 0 \in Nat
          <5>. QED BY <4>1, <5>3
        <4>. QED BY <4>1, <4>2 DEF n
      <3>4. md[h] = [k \in 1..Len(given(h)) |-> given(h)[k]]
        BY <3>2, <3>3
      <3>. QED BY <1>1, <2>1, <3>1, <3>4
    <2>. QED BY <1>1, <2>1, <2>2, <2>3
  <1>. QED BY <1>6, <1>7 DEF md, given

------------------------------------------------------------------------------
\* Of the members of a name, the map has the value of the last.
LEMMA LastFacts ==
  ASSUME NEW args \in Seq(Member)
  PROVE  /\ DOMAIN LastValues(args) = {args[m].name : m \in DOMAIN args}
         /\ \A x \in DOMAIN LastValues(args) :
               \E m \in DOMAIN args :
                  /\ args[m].name = x
                  /\ \A k \in DOMAIN args : args[k].name = x => k <= m
                  /\ LastValues(args)[x] = args[m].value
         /\ \A x \in DOMAIN LastValues(args) : LastValues(args)[x] \in Values
  <1>1. DOMAIN LastValues(args) = {args[m].name : m \in DOMAIN args}
    BY DEF LastValues
  <1>2. ASSUME NEW x \in DOMAIN LastValues(args)
        PROVE  \E m \in DOMAIN args :
                  /\ args[m].name = x
                  /\ \A k \in DOMAIN args : args[k].name = x => k <= m
                  /\ LastValues(args)[x] = args[m].value
    <2> DEFINE S == {m \in DOMAIN args : args[m].name = x}
               Last(m) == args[m].name = x /\ \A k \in DOMAIN args : args[k].name = x => k <= m
    <2>1. S \in SUBSET (1..Len(args)) /\ S # {} /\ Len(args) \in Nat
      BY <1>1, <1>2
    <2>2. PICK g \in S : \A k \in S : k <= g
      BY <2>1, GreatestNumber
    <2>3. g \in DOMAIN args /\ Last(g)
      BY <2>2
    <2>4. LastValues(args)[x] = args[CHOOSE m \in DOMAIN args : Last(m)].value
      BY <1>1, <1>2 DEF LastValues
    <2> DEFINE h == CHOOSE m \in DOMAIN args : Last(m)
    <2>5. h \in DOMAIN args /\ Last(h)
      BY <2>3
    <2>. QED BY <2>4, <2>5
  <1>3. ASSUME NEW x \in DOMAIN LastValues(args)
        PROVE  LastValues(args)[x] \in Values
    <2>1. PICK m \in DOMAIN args : LastValues(args)[x] = args[m].value
      BY <1>2
    <2>2. args[m] \in Member
      BY <2>1
    <2>. QED BY <2>1, <2>2 DEF Member
  <1>. QED BY <1>1, <1>2, <1>3

\* A name belongs to one field at most.
LEMMA OneField ==
  ASSUME NEW ask, AskInv(ask), NEW x,
         NEW j \in DOMAIN ask.input, Spells(ask.input[j], x),
         NEW k \in DOMAIN ask.input, Spells(ask.input[k], x)
  PROVE  j = k
  BY DEF AskInv, Spells

\* The value of a field is that of its only member.
LEMMA MessageFacts ==
  ASSUME NEW input, NEW members, Decodes(input, members)
  PROVE  /\ DOMAIN Message(input, members) \subseteq DOMAIN input
         /\ \A j \in DOMAIN Message(input, members) : \E m \in DOMAIN members :
               /\ Spells(input[j], members[m].name)
               /\ \A k \in DOMAIN members : Spells(input[j], members[k].name) => k = m
               /\ Message(input, members)[j] = members[m].value
  <1> DEFINE given(j) == {m \in DOMAIN members : Spells(input[j], members[m].name)}
  <1>1. DOMAIN Message(input, members) = {j \in DOMAIN input : given(j) # {}}
    BY DEF Message
  <1>2. ASSUME NEW j \in DOMAIN Message(input, members)
        PROVE  \E m \in DOMAIN members :
               /\ Spells(input[j], members[m].name)
               /\ \A k \in DOMAIN members : Spells(input[j], members[k].name) => k = m
               /\ Message(input, members)[j] = members[m].value
    <2> DEFINE m == CHOOSE x \in given(j) : TRUE
    <2>1. m \in given(j)
      BY <1>1, <1>2
    <2>2. Message(input, members)[j] = members[m].value
      BY <1>1, <1>2 DEF Message
    <2>3. j \in DOMAIN input
      BY <1>1, <1>2
    <2> HIDE DEF m
    <2>4. \A k \in DOMAIN members : Spells(input[j], members[k].name) => k = m
      BY <2>1, <2>3 DEF Decodes
    <2>. QED BY <2>1, <2>2, <2>4
  <1>. QED BY <1>1, <1>2

\* Arguments that decode are taken as they are.
LEMMA DecodedAsGiven ==
  ASSUME NEW c, AskInv(c.ask), Decodes(c.ask.input, c.ask.args),
         c.message = Message(c.ask.input, c.ask.args)
  PROVE  MessageInv(c)
  <1> DEFINE input == c.ask.input
             args == c.ask.args
  <1>1. SUFFICES ASSUME NEW j \in DOMAIN c.message
                 PROVE  c.message[j] = Given(c.ask, j)
    BY DEF MessageInv, AsGiven
  <1>2. PICK m \in DOMAIN args :
          /\ Spells(input[j], args[m].name)
          /\ \A k \in DOMAIN args : Spells(input[j], args[k].name) => k = m
          /\ c.message[j] = args[m].value
    BY MessageFacts
  <1>3. args \in Seq(Member) /\ DOMAIN args \subseteq Nat
    <2>1. args \in Seq(Member)
      BY DEF AskInv, Ask
    <2>. QED BY <2>1
  <1> DEFINE Last(n) == /\ Spells(input[j], args[n].name)
                        /\ \A k \in DOMAIN args : Spells(input[j], args[k].name) => k <= n
  <1>4. Last(m)
    BY <1>2, <1>3
  <1> DEFINE h == CHOOSE n \in DOMAIN args : Last(n)
  <1>5. h \in DOMAIN args /\ Last(h)
    BY <1>4
  <1>6. h = m
    BY <1>2, <1>5
  <1>. QED BY <1>2, <1>6 DEF Given

\* Arguments that decode after a repair are as given but for the quotes.
LEMMA RepairedAsGiven ==
  ASSUME NEW c, NEW d, TypeInv(c), c.phase = "repair", RepairInv(c), d.ask = c.ask,
         Decodes(c.ask.input, Repaired(c)), d.message = Message(c.ask.input, Repaired(c))
  PROVE  MessageInv(d)
  <1> DEFINE input == c.ask.input
             args == c.ask.args
             last == LastValues(args)
  <1>1. AskInv(c.ask) /\ input \in Seq(Field) /\ args \in Seq(Member)
    BY DEF TypeInv, AskInv, Ask
  <1>2. DOMAIN args \subseteq Nat
    BY <1>1
  <1>3. /\ DOMAIN last = {args[m].name : m \in DOMAIN args}
        /\ DOMAIN c.payload = DOMAIN last
        /\ ~Decodes(input, args)
    BY <1>1, LastFacts DEF RepairInv
  <1>4. SUFFICES ASSUME NEW j \in DOMAIN d.message
                 PROVE  AsGiven(d, j)
    BY DEF MessageInv
  <1>5. PICK x \in DOMAIN Repaired(c) :
          /\ Spells(input[j], Repaired(c)[x].name)
          /\ \A k \in DOMAIN Repaired(c) : Spells(input[j], Repaired(c)[k].name) => k = x
          /\ d.message[j] = Repaired(c)[x].value
    BY MessageFacts
  <1>6. /\ x \in DOMAIN last
        /\ Spells(input[j], x)
        /\ \A y \in DOMAIN last : Spells(input[j], y) => y = x
        /\ d.message[j] = c.payload[x]
        /\ j \in DOMAIN input
    <2>1. DOMAIN Repaired(c) = DOMAIN last
      BY <1>3 DEF Repaired
    <2>2. \A y \in DOMAIN last : Repaired(c)[y].name = y /\ Repaired(c)[y].value = c.payload[y]
      BY <1>3 DEF Repaired
    <2>3. j \in DOMAIN input
      BY MessageFacts
    <2>. QED BY <1>5, <2>1, <2>2, <2>3
  <1>7. \A k \in DOMAIN args : Spells(input[j], args[k].name) <=> args[k].name = x
    BY <1>3, <1>6
  <1>8. Given(d.ask, j) = last[x]
    <2> DEFINE First(n) == /\ Spells(input[j], args[n].name)
                           /\ \A k \in DOMAIN args : Spells(input[j], args[k].name) => k <= n
               h == CHOOSE n \in DOMAIN args : First(n)
    <2>1. PICK m \in DOMAIN args : /\ args[m].name = x
                                   /\ \A k \in DOMAIN args : args[k].name = x => k <= m
                                   /\ last[x] = args[m].value
      BY <1>1, <1>6, LastFacts
    <2>2. First(m)
      BY <1>7, <2>1
    <2>3. h \in DOMAIN args /\ First(h)
      BY <2>2
    <2>4. h <= m /\ m <= h
      BY <1>7, <2>1, <2>3
    <2>5. h = m
      BY <1>2, <2>3, <2>4
    <2>6. Given(d.ask, j) = args[h].value
      BY DEF Given
    <2>. QED BY <2>1, <2>5, <2>6
  <1>9. CASE c.payload[x] = last[x]
    BY <1>6, <1>8, <1>9 DEF AsGiven
  <1>10. CASE c.payload[x] # last[x]
    <2>1. Unwrapped(c, x)
      BY <1>3, <1>6 DEF RepairInv
    <2>2. c.payload[x] = Unquoted(last[x])
      BY <1>10, <2>1 DEF Unwrapped
    <2>3. PICK k \in DOMAIN input : Spells(input[k], x) /\ Takes(input[k].kind, last[x])
      BY <1>10, <2>1 DEF Unwrapped
    <2>4. k = j
      BY <1>1, <1>6, <2>3, OneField
    <2>. QED BY <1>3, <1>6, <1>8, <2>2, <2>3, <2>4 DEF AsGiven, Takes, Wants
  <1>. QED BY <1>9, <1>10

------------------------------------------------------------------------------
\* A step of one call leaves the others alone.
LEMMA OneMoves ==
  ASSUME Inv, NEW q \in Calls, NEW d, Becomes(q, d), Good(configured, d)
  PROVE  Inv'
  <1>1. configured' = configured /\ Calls' = Calls
    BY DEF Becomes, Calls
  <1>2. \A r \in Calls : call'[r] = IF r = q THEN d ELSE call[r]
    BY DEF Becomes, Calls
  <1>. QED BY <1>1, <1>2 DEF Inv

LEMMA EndGood ==
  ASSUME NEW list, NEW c, Good(list, c), c.phase # "start", NEW result \in Results \ {"text"},
         result = "template failed" =>
            \E k \in DOMAIN c.ask.template : Fails(Out(c.ask.reply), c.ask.template[k])
  PROVE  Good(list, [c EXCEPT !.phase = "done", !.result = result])
  <1> DEFINE d == [c EXCEPT !.phase = "done", !.result = result]
  <1>1. DOMAIN c = Parts
    BY DEF Good, TypeInv
  <1>2. /\ DOMAIN d = Parts
        /\ d.phase = "done" /\ d.result = result
        /\ \A x \in Parts \ {"phase", "result"} : d[x] = c[x]
    BY <1>1 DEF Parts
  <1> HIDE DEF d
  <1>3. /\ d.ask = c.ask /\ d.md = c.md /\ d.trace = c.trace
        /\ d.payload = c.payload /\ d.i = c.i /\ d.n = c.n
        /\ d.changed = c.changed /\ d.message = c.message /\ d.sent = c.sent
        /\ d.attached = c.attached /\ d.out = c.out /\ d.text = c.text
    BY <1>2 DEF Parts
  <1>4. TypeInv(d)
    BY <1>2, <1>3 DEF Good, TypeInv
  <1>5. HeadersInv(list, d)
    BY <1>2, <1>3 DEF Good, HeadersInv
  <1>6. RepairInv(d)
    BY <1>2 DEF RepairInv
  <1>7. MessageInv(d)
    BY <1>3 DEF Good, MessageInv, AsGiven
  <1>8. ReplyInv(d)
    BY <1>2, <1>3 DEF Good, ReplyInv
  <1>. QED BY <1>4, <1>5, <1>6, <1>7, <1>8 DEF Good, d

LEMMA EndStep ==
  ASSUME Inv, NEW q \in Calls, NEW result \in Results \ {"text"}, End(q, result),
         call[q].phase # "start",
         result = "template failed" =>
            \E k \in DOMAIN call[q].ask.template :
                Fails(Out(call[q].ask.reply), call[q].ask.template[k])
  PROVE  Inv'
  <1>1. Good(configured, call[q])
    BY DEF Inv
  <1> DEFINE d == [call[q] EXCEPT !.phase = "done", !.result = result]
  <1>2. Good(configured, d)
    BY <1>1, EndGood
  <1>3. Becomes(q, d)
    BY DEF End
  <1>. QED BY <1>2, <1>3, OneMoves

------------------------------------------------------------------------------
\* The steps that do not end a call.
LEMMA ServeStep ==
  ASSUME Inv, NEW q \in Calls, Serve(q)
  PROVE  Inv'
  <1> DEFINE c == call[q]
  <1>1. PICK md, trace : /\ md = Collected(configured, c.ask.http)
                         /\ trace \in Extracted(c.ask.http)
                         /\ Becomes(q, [c EXCEPT !.md = Collected(configured, c.ask.http),
                                                 !.trace = trace, !.phase = "decode"])
    BY DEF Serve
  <1> DEFINE d == [c EXCEPT !.md = md, !.trace = trace, !.phase = "decode"]
  <1>2. c.phase = "start" /\ Good(configured, c) /\ DOMAIN c = Parts
    BY DEF Serve, Inv, Good, TypeInv
  <1>3. Becomes(q, d)
    BY <1>1
  <1>4. /\ DOMAIN d = Parts
        /\ d.phase = "decode" /\ d.md = md /\ d.trace = trace
        /\ \A x \in Parts \ {"phase", "md", "trace"} : d[x] = c[x]
    BY <1>2 DEF Parts
  <1> HIDE DEF d
  <1>5. /\ d.ask = c.ask /\ d.payload = c.payload /\ d.i = c.i /\ d.n = c.n
        /\ d.changed = c.changed /\ d.message = c.message /\ d.sent = c.sent
        /\ d.attached = c.attached /\ d.result = c.result /\ d.text = c.text
    BY <1>4 DEF Parts
  <1>6. TypeInv(d)
    <2>1. DOMAIN md \subseteq Headers
      <3>1. configured \in Seq(Entries(Headers)) /\ c.ask.http \in [Headers -> Seq(HeaderValues)]
        BY <1>2 DEF Inv, Good, TypeInv, AskInv, Ask
      <3>2. DOMAIN md \subseteq Mentioned(configured)
        BY <1>1, <3>1, CollectedFacts
      <3>. QED BY <3>1, <3>2, MentionedHeaders
    <2>2. DOMAIN trace \subseteq Headers
      BY <1>1, HeadersAssumption DEF Extracted
    <2>. QED BY <1>2, <1>4, <1>5, <2>1, <2>2 DEF Good, TypeInv
  <1>7. HeadersInv(configured, d)
    BY <1>1, <1>2, <1>4, <1>5 DEF Good, HeadersInv
  <1>8. RepairInv(d)
    BY <1>4 DEF RepairInv
  <1>9. MessageInv(d)
    BY <1>2, <1>5 DEF Good, MessageInv, AsGiven
  <1>10. ReplyInv(d)
    BY <1>2, <1>4, <1>5 DEF Good, ReplyInv
  <1>. QED BY <1>3, <1>6, <1>7, <1>8, <1>9, <1>10, OneMoves DEF Good

LEMMA DecodeStep ==
  ASSUME Inv, NEW q \in Calls, Decode(q)
  PROVE  Inv'
  <1> DEFINE c == call[q]
  <1>1. PICK message : message = Message(c.ask.input, c.ask.args)
    OBVIOUS
  <1> DEFINE d == [c EXCEPT !.message = message, !.phase = "invoke"]
  <1>2. /\ c.phase = "decode" /\ Good(configured, c) /\ DOMAIN c = Parts
        /\ Decodes(c.ask.input, c.ask.args)
    BY DEF Decode, Inv, Good, TypeInv
  <1>3. Becomes(q, d)
    BY <1>1 DEF Decode
  <1>4. /\ DOMAIN d = Parts
        /\ d.phase = "invoke" /\ d.message = message
        /\ \A x \in Parts \ {"phase", "message"} : d[x] = c[x]
    BY <1>2 DEF Parts
  <1> HIDE DEF d
  <1>5. /\ d.ask = c.ask /\ d.md = c.md /\ d.trace = c.trace
        /\ d.payload = c.payload /\ d.i = c.i /\ d.n = c.n
        /\ d.changed = c.changed /\ d.sent = c.sent
        /\ d.attached = c.attached /\ d.result = c.result /\ d.text = c.text
    BY <1>4 DEF Parts
  <1>6. TypeInv(d)
    <2>1. DOMAIN message \subseteq DOMAIN c.ask.input
      BY <1>1, <1>2, MessageFacts
    <2>. QED BY <1>2, <1>4, <1>5, <2>1 DEF Good, TypeInv
  <1>7. HeadersInv(configured, d)
    BY <1>2, <1>4, <1>5 DEF Good, HeadersInv
  <1>8. RepairInv(d)
    BY <1>4 DEF RepairInv
  <1>9. MessageInv(d)
    <2>1. AskInv(d.ask)
      BY <1>6 DEF TypeInv
    <2>2. d.message = Message(d.ask.input, d.ask.args) /\ Decodes(d.ask.input, d.ask.args)
      BY <1>1, <1>2, <1>4, <1>5
    <2>. QED BY <2>1, <2>2, DecodedAsGiven
  <1>10. ReplyInv(d)
    BY <1>2, <1>4, <1>5 DEF Good, ReplyInv
  <1>. QED BY <1>3, <1>6, <1>7, <1>8, <1>9, <1>10, OneMoves DEF Good

LEMMA RetryStep ==
  ASSUME Inv, NEW q \in Calls, Retry(q)
  PROVE  Inv'
  <1> DEFINE c == call[q]
  <1>1. PICK message : message = Message(c.ask.input, Repaired(c))
    OBVIOUS
  <1> DEFINE d == [c EXCEPT !.message = message, !.phase = "invoke"]
  <1>2. /\ c.phase = "repair" /\ Good(configured, c) /\ DOMAIN c = Parts
        /\ Decodes(c.ask.input, Repaired(c))
    BY DEF Retry, RepairEnds, Inv, Good, TypeInv
  <1>3. Becomes(q, d)
    BY <1>1 DEF Retry
  <1>4. /\ DOMAIN d = Parts
        /\ d.phase = "invoke" /\ d.message = message
        /\ \A x \in Parts \ {"phase", "message"} : d[x] = c[x]
    BY <1>2 DEF Parts
  <1> HIDE DEF d
  <1>5. /\ d.ask = c.ask /\ d.md = c.md /\ d.trace = c.trace
        /\ d.payload = c.payload /\ d.i = c.i /\ d.n = c.n
        /\ d.changed = c.changed /\ d.sent = c.sent
        /\ d.attached = c.attached /\ d.result = c.result /\ d.text = c.text
    BY <1>4 DEF Parts
  <1>6. TypeInv(d)
    <2>1. DOMAIN message \subseteq DOMAIN c.ask.input
      BY <1>1, <1>2, MessageFacts
    <2>. QED BY <1>2, <1>4, <1>5, <2>1 DEF Good, TypeInv
  <1>7. HeadersInv(configured, d)
    BY <1>2, <1>4, <1>5 DEF Good, HeadersInv
  <1>8. RepairInv(d)
    BY <1>4 DEF RepairInv
  <1>9. MessageInv(d)
    <2>1. TypeInv(c) /\ RepairInv(c) /\ d.message = Message(c.ask.input, Repaired(c))
      BY <1>1, <1>2, <1>4 DEF Good
    <2> HIDE DEF c
    <2>. QED BY <1>2, <1>5, <2>1, RepairedAsGiven
  <1>10. ReplyInv(d)
    BY <1>2, <1>4, <1>5 DEF Good, ReplyInv
  <1>. QED BY <1>3, <1>6, <1>7, <1>8, <1>9, <1>10, OneMoves DEF Good

LEMMA StartRepairStep ==
  ASSUME Inv, NEW q \in Calls, StartRepair(q)
  PROVE  Inv'
  <1> DEFINE c == call[q]
  <1>1. PICK last : last = LastValues(c.ask.args)
    OBVIOUS
  <1> DEFINE d == [c EXCEPT !.payload = last, !.phase = "repair"]
  <1>2. /\ c.phase = "decode" /\ Good(configured, c) /\ DOMAIN c = Parts
        /\ ~Decodes(c.ask.input, c.ask.args)
    BY DEF StartRepair, Inv, Good, TypeInv
  <1>3. Becomes(q, d)
    BY <1>1 DEF StartRepair
  <1>4. /\ DOMAIN d = Parts
        /\ d.phase = "repair" /\ d.payload = last
        /\ \A x \in Parts \ {"phase", "payload"} : d[x] = c[x]
    BY <1>2 DEF Parts
  <1> HIDE DEF d
  <1>5. /\ d.ask = c.ask /\ d.md = c.md /\ d.trace = c.trace
        /\ d.message = c.message /\ d.i = c.i /\ d.n = c.n
        /\ d.changed = c.changed /\ d.sent = c.sent
        /\ d.attached = c.attached /\ d.result = c.result /\ d.text = c.text
    BY <1>4 DEF Parts
  <1>6. TypeInv(d)
    <2>1. c.ask.args \in Seq(Member)
      BY <1>2 DEF Good, TypeInv, AskInv, Ask
    <2>2. \A m \in DOMAIN c.ask.args : c.ask.args[m] \in Member
      BY <2>1
    <2>3. DOMAIN last \subseteq Names
      <3>1. \A m \in DOMAIN c.ask.args : c.ask.args[m].name \in Names
        BY <2>2 DEF Member
      <3>2. DOMAIN last = {c.ask.args[m].name : m \in DOMAIN c.ask.args}
        BY <1>1, <2>1, LastFacts
      <3>. QED BY <3>1, <3>2
    <2>4. \A x \in DOMAIN last : last[x] \in Values
      BY <1>1, <2>1, LastFacts
    <2>. QED BY <1>2, <1>4, <1>5, <2>3, <2>4 DEF Good, TypeInv
  <1>7. HeadersInv(configured, d)
    BY <1>2, <1>4, <1>5 DEF Good, HeadersInv
  <1>8. RepairInv(d)
    <2>1. c.ask.args \in Seq(Member)
      BY <1>2 DEF Good, TypeInv, AskInv, Ask
    <2>2. DOMAIN last = {c.ask.args[m].name : m \in DOMAIN c.ask.args}
      BY <1>1, <2>1, LastFacts
    <2>3. DOMAIN c.ask.input \subseteq Nat \ {0}
      <3>1. c.ask.input \in Seq(Field)
        BY <1>2 DEF Good, TypeInv, AskInv, Ask
      <3>. QED BY <3>1
    <2>4. d.i = 1 /\ d.n = 1
      BY <1>2, <1>5 DEF Good, TypeInv
    <2>5. ~Decodes(d.ask.input, d.ask.args) /\ d.payload = LastValues(d.ask.args)
      BY <1>1, <1>2, <1>4, <1>5
    <2>6. \A j \in DOMAIN d.ask.input : \A x \in DOMAIN d.payload : ~Tried(d, j, x)
      BY <1>5, <2>3, <2>4 DEF Tried
    <2>. QED BY <1>1, <1>4, <1>5, <2>2, <2>5, <2>6 DEF RepairInv, Unwrapped
  <1>9. MessageInv(d)
    BY <1>2, <1>5 DEF Good, MessageInv, AsGiven
  <1>10. ReplyInv(d)
    BY <1>2, <1>4, <1>5 DEF Good, ReplyInv
  <1>. QED BY <1>3, <1>6, <1>7, <1>8, <1>9, <1>10, OneMoves DEF Good

\* A value is unquoted, for a field that wants it so.
LEMMA UnwrapStep ==
  ASSUME Inv, NEW q \in Calls, UnwrapField(q)
  PROVE  Inv'
  <1> DEFINE c == call[q]
  <1>1. PICK s : s = Spelling(c)
    OBVIOUS
  <1>2. PICK payload : payload = [c.payload EXCEPT ![s] = Unquoted(c.payload[s])]
    OBVIOUS
  <1> DEFINE d == [c EXCEPT !.payload = payload, !.changed = TRUE, !.i = c.i + 1, !.n = 1]
             input == c.ask.input
             last == LastValues(c.ask.args)
  <1>3. /\ c.phase = "repair" /\ Good(configured, c) /\ DOMAIN c = Parts
        /\ c.i \in DOMAIN input
        /\ s \in DOMAIN c.payload
        /\ Takes(input[c.i].kind, c.payload[s])
        /\ Spells(input[c.i], s)
        /\ c.n = 1 => s = input[c.i].json
        /\ c.n # 1 => s = input[c.i].name
    BY <1>1 DEF UnwrapField, InRepair, Unwraps, Inv, Good, TypeInv, Spelling, Current, Takes,
                Spells
  <1>4. Becomes(q, d)
    <2>1. Becomes(q, [c EXCEPT !.payload[s] = Unquoted(c.payload[s]), !.changed = TRUE,
                               !.i = c.i + 1, !.n = 1])
      BY <1>1 DEF UnwrapField
    <2>. QED BY <1>2, <1>3, <2>1 DEF Parts
  <1>5. /\ DOMAIN d = Parts
        /\ d.payload = payload /\ d.changed = TRUE /\ d.i = c.i + 1 /\ d.n = 1
        /\ \A x \in Parts \ {"payload", "changed", "i", "n"} : d[x] = c[x]
    BY <1>3 DEF Parts
  <1> HIDE DEF d
  <1>6. /\ d.ask = c.ask /\ d.md = c.md /\ d.trace = c.trace
        /\ d.message = c.message /\ d.phase = c.phase
        /\ d.sent = c.sent
        /\ d.attached = c.attached /\ d.result = c.result /\ d.text = c.text
    BY <1>5 DEF Parts
  <1>7. /\ DOMAIN payload = DOMAIN c.payload
        /\ payload[s] = Unquoted(c.payload[s])
        /\ \A x \in DOMAIN c.payload \ {s} : payload[x] = c.payload[x]
    BY <1>2, <1>3
  <1>8. /\ AskInv(c.ask) /\ TypeInv(c) /\ RepairInv(c)
        /\ DOMAIN input = 1..Len(input) /\ Len(input) \in Nat
    <2>1. AskInv(c.ask) /\ TypeInv(c) /\ RepairInv(c)
      BY <1>3 DEF Good, TypeInv
    <2>2. input \in Seq(Field)
      BY <2>1 DEF AskInv, Ask
    <2>. QED BY <2>1, <2>2
  <1>9. TypeInv(d)
    <2>1. \A x \in DOMAIN payload : payload[x] \in Values
      BY <1>3, <1>7, <1>8 DEF TypeInv, Unquoted, Values
    <2>2. d.i \in 1..(Len(d.ask.input) + 1)
      BY <1>3, <1>5, <1>6, <1>8
    <2>3. DOMAIN d.payload \subseteq Names
      BY <1>5, <1>7, <1>8 DEF TypeInv
    <2>4. d.n \in 1..2
      BY <1>5
    <2>7. d.changed \in BOOLEAN
      <3>1. d.changed = TRUE
        BY <1>5
      <3>. QED BY <3>1, Zenon
    <2>5. DOMAIN d.payload = DOMAIN payload
      BY <1>5
    <2>6. \A x \in DOMAIN d.payload : d.payload[x] \in Values
      BY <1>5, <2>1
    <2> HIDE DEF input, last
    <2>. QED BY <1>3, <1>5, <1>6, <1>8, <2>2, <2>3, <2>4, <2>6, <2>7 DEF TypeInv
  <1>10. HeadersInv(configured, d)
    BY <1>3, <1>6 DEF Good, HeadersInv
  <1>11. RepairInv(d)
    <2>1. ~Takes(input[c.i].kind, payload[s])
      BY <1>3, <1>7 DEF Takes, Unquoted
    <2>2. ASSUME NEW x \in DOMAIN c.payload
          PROVE  Unwrapped(d, x)
      <3>1. CASE x # s
        <4>1. Unwrapped(c, x)
          BY <1>3, <1>8 DEF RepairInv
        <4>. QED BY <1>5, <1>6, <1>7, <3>1, <4>1 DEF Unwrapped
      <3>2. CASE x = s
        <4>1. c.payload[s] = last[s]
          <5>1. Unwrapped(c, s)
            BY <1>3, <1>8 DEF RepairInv
          <5>2. c.payload[s] # Unquoted(last[s])
            BY <1>3 DEF Takes, Unquoted
          <5>. QED BY <5>1, <5>2 DEF Unwrapped
        <4>. QED BY <1>3, <1>5, <1>6, <1>7, <3>2, <4>1 DEF Unwrapped
      <3>. QED BY <3>1, <3>2
    <2>3. ASSUME NEW j \in DOMAIN input, NEW x \in DOMAIN c.payload,
                 Spells(input[j], x), Tried(d, j, x)
          PROVE  Settled(d, j, x)
      <3>1. j <= c.i
        BY <1>3, <1>5, <1>8, <2>3 DEF Tried
      <3>2. CASE j = c.i /\ x = s
        BY <1>5, <1>6, <2>1, <3>2 DEF Settled
      <3>3. CASE j = c.i /\ x # s
        BY <1>3, <1>5, <1>6, <1>7, <3>3 DEF Settled
      <3>4. CASE j # c.i
        <4>1. x # s
          <5>1. Spells(input[c.i], s) /\ c.i \in DOMAIN input /\ AskInv(c.ask)
            BY <1>3, <1>8
          <5>. QED BY <5>1, <2>3, <3>4, OneField
        <4>2. Tried(c, j, x)
          BY <1>3, <1>8, <3>1, <3>4 DEF Tried
        <4>3. Settled(c, j, x)
          BY <1>3, <1>8, <2>3, <4>2 DEF RepairInv
        <4>. QED BY <1>5, <1>6, <1>7, <4>1, <4>3 DEF Settled
      <3>. QED BY <3>2, <3>3, <3>4
    <2>4. /\ ~Decodes(input, c.ask.args)
          /\ DOMAIN c.payload = {c.ask.args[m].name : m \in DOMAIN c.ask.args}
      BY <1>3, <1>8 DEF RepairInv
    <2>. QED BY <1>5, <1>6, <1>7, <2>2, <2>3, <2>4 DEF RepairInv
  <1>12. MessageInv(d)
    BY <1>3, <1>6 DEF Good, MessageInv, AsGiven
  <1>13. ReplyInv(d)
    BY <1>3, <1>6 DEF Good, ReplyInv
  <1>. QED BY <1>4, <1>9, <1>10, <1>11, <1>12, <1>13, OneMoves DEF Good

LEMMA KeepStep ==
  ASSUME Inv, NEW q \in Calls, KeepField(q)
  PROVE  Inv'
  <1> DEFINE c == call[q]
             input == c.ask.input
  <1>1. PICK s : s = Spelling(c)
    OBVIOUS
  <1>2. /\ c.phase = "repair" /\ Good(configured, c) /\ DOMAIN c = Parts
        /\ c.i \in DOMAIN input /\ c.n \in {1, 2}
        /\ s \in DOMAIN c.payload => ~Takes(input[c.i].kind, c.payload[s])
        /\ c.n = 1 => s = input[c.i].json
        /\ c.n # 1 => s = input[c.i].name
    <2>1. Good(configured, c) /\ TypeInv(c)
      BY DEF Inv, Good
    <2>2. DOMAIN c = Parts /\ c.n \in {1, 2}
      BY <2>1 DEF TypeInv
    <2>3. c.phase = "repair" /\ c.i \in DOMAIN input /\ ~Unwraps(c)
      BY DEF KeepField, InRepair
    <2>4. /\ c.n = 1 => s = input[c.i].json
          /\ c.n # 1 => s = input[c.i].name
      BY <1>1 DEF Spelling, Current
    <2>5. s \in DOMAIN c.payload => ~Takes(input[c.i].kind, c.payload[s])
      BY <1>1, <2>3 DEF Unwraps, Current, Takes
    <2>. QED BY <2>1, <2>2, <2>3, <2>4, <2>5
  <1>3. PICK i, n : /\ c.n = 1 => i = c.i /\ n = 2
                    /\ c.n # 1 => i = c.i + 1 /\ n = 1
    OBVIOUS
  <1> DEFINE d == [c EXCEPT !.i = i, !.n = n]
  <1>4. Becomes(q, d)
    <2>1. CASE c.n = 1
      <3>1. [c EXCEPT !.n = 2] = d
        BY <1>2, <1>3, <2>1 DEF Parts
      <3>. QED BY <2>1, <3>1 DEF KeepField
    <2>2. CASE c.n # 1
      BY <1>3, <2>2 DEF KeepField
    <2>. QED BY <2>1, <2>2
  <1>5. /\ DOMAIN d = Parts
        /\ d.i = i /\ d.n = n
        /\ \A x \in Parts \ {"i", "n"} : d[x] = c[x]
    BY <1>2 DEF Parts
  <1> HIDE DEF d
  <1>6. /\ d.ask = c.ask /\ d.md = c.md /\ d.trace = c.trace
        /\ d.message = c.message /\ d.phase = c.phase
        /\ d.payload = c.payload /\ d.changed = c.changed /\ d.sent = c.sent
        /\ d.attached = c.attached /\ d.result = c.result /\ d.text = c.text
    BY <1>5 DEF Parts
  <1>7. /\ AskInv(c.ask) /\ TypeInv(c) /\ RepairInv(c)
        /\ DOMAIN input = 1..Len(input) /\ Len(input) \in Nat
    <2>1. AskInv(c.ask) /\ TypeInv(c) /\ RepairInv(c)
      BY <1>2 DEF Good, TypeInv
    <2>2. input \in Seq(Field)
      BY <2>1 DEF AskInv, Ask
    <2>. QED BY <2>1, <2>2
  <1>8. TypeInv(d)
    <2>1. d.i \in 1..(Len(d.ask.input) + 1) /\ d.n \in 1..2
      BY <1>2, <1>3, <1>5, <1>6, <1>7
    <2> HIDE DEF input
    <2>. QED BY <1>2, <1>5, <1>6, <1>7, <2>1 DEF TypeInv
  <1>9. HeadersInv(configured, d)
    BY <1>2, <1>6 DEF Good, HeadersInv
  <1>10. RepairInv(d)
    <2>1. ASSUME NEW x \in DOMAIN c.payload
          PROVE  Unwrapped(d, x)
      <3>1. Unwrapped(c, x)
        BY <1>2, <1>7 DEF RepairInv
      <3>. QED BY <1>6, <3>1 DEF Unwrapped
    <2>2. ASSUME NEW j \in DOMAIN input, NEW x \in DOMAIN c.payload,
                 Spells(input[j], x), Tried(d, j, x)
          PROVE  Settled(c, j, x)
      <3>1. CASE Tried(c, j, x)
        BY <1>2, <1>7, <2>2, <3>1 DEF RepairInv
      <3>2. CASE ~Tried(c, j, x)
        <4>1. j = c.i
          BY <1>2, <1>3, <1>5, <1>7, <2>2, <3>2 DEF Tried
        <4>2. x = s
          BY <1>2, <1>3, <1>5, <1>6, <1>7, <2>2, <3>2, <4>1 DEF Tried, Spells
        <4>. QED BY <1>2, <4>1, <4>2 DEF Settled
      <3>. QED BY <3>1, <3>2
    <2>3. /\ ~Decodes(input, c.ask.args)
          /\ DOMAIN c.payload = {c.ask.args[m].name : m \in DOMAIN c.ask.args}
      BY <1>2, <1>7 DEF RepairInv
    <2>4. \A j, x : Settled(d, j, x) <=> Settled(c, j, x)
      BY <1>6 DEF Settled
    <2>. QED BY <1>6, <2>1, <2>2, <2>3, <2>4 DEF RepairInv
  <1>11. MessageInv(d)
    BY <1>2, <1>6 DEF Good, MessageInv, AsGiven
  <1>12. ReplyInv(d)
    BY <1>2, <1>6 DEF Good, ReplyInv
  <1>. QED BY <1>4, <1>8, <1>9, <1>10, <1>11, <1>12, OneMoves DEF Good

LEMMA SendStep ==
  ASSUME Inv, NEW q \in Calls, Send(q)
  PROVE  Inv'
  <1> DEFINE c == call[q]
  <1>1. PICK injected, attached :
          /\ injected \in Injections(c.trace) /\ attached = Attached(c.md, injected)
          /\ Becomes(q, [c EXCEPT !.sent = TRUE, !.attached = Attached(c.md, injected),
                                  !.phase = "sent"])
    BY DEF Send
  <1> DEFINE d == [c EXCEPT !.sent = TRUE, !.attached = attached, !.phase = "sent"]
  <1>2. c.phase = "invoke" /\ Good(configured, c) /\ DOMAIN c = Parts
    BY DEF Send, Inv, Good, TypeInv
  <1>3. Becomes(q, d)
    BY <1>1
  <1>4. /\ DOMAIN d = Parts
        /\ d.phase = "sent" /\ d.sent = TRUE /\ d.attached = attached
        /\ \A x \in Parts \ {"phase", "sent", "attached"} : d[x] = c[x]
    BY <1>2 DEF Parts
  <1> HIDE DEF d
  <1>5. /\ d.ask = c.ask /\ d.md = c.md /\ d.trace = c.trace
        /\ d.payload = c.payload /\ d.i = c.i /\ d.n = c.n
        /\ d.changed = c.changed /\ d.message = c.message
        /\ d.result = c.result /\ d.text = c.text
    BY <1>4 DEF Parts
  <1>6. TypeInv(d)
    <2>1. DOMAIN attached \subseteq Headers
      <3>1. DOMAIN c.md \subseteq Headers /\ DOMAIN c.trace \subseteq Headers
        BY <1>2 DEF Good, TypeInv
      <3>2. DOMAIN injected \subseteq Headers
        BY <1>1, <3>1, HeadersAssumption DEF Injections
      <3>. QED BY <1>1, <3>1, <3>2 DEF Attached
    <2>2. d.sent \in BOOLEAN
      BY <1>4
    <2>. QED BY <1>2, <1>4, <1>5, <2>1, <2>2 DEF Good, TypeInv
  <1>7. HeadersInv(configured, d)
    BY <1>1, <1>2, <1>4, <1>5 DEF Good, HeadersInv
  <1>8. RepairInv(d)
    BY <1>4 DEF RepairInv
  <1>9. MessageInv(d)
    BY <1>2, <1>5 DEF Good, MessageInv, AsGiven
  <1>10. ReplyInv(d)
    BY <1>2, <1>4, <1>5 DEF Good, ReplyInv
  <1>. QED BY <1>3, <1>6, <1>7, <1>8, <1>9, <1>10, OneMoves DEF Good

LEMMA ReceiveStep ==
  ASSUME Inv, NEW q \in Calls, Receive(q)
  PROVE  Inv'
  <1> DEFINE c == call[q]
  <1>1. PICK out : out = Out(c.ask.reply)
    OBVIOUS
  <1> DEFINE d == [c EXCEPT !.out = out, !.phase = "render"]
  <1>2. c.phase = "sent" /\ Good(configured, c) /\ DOMAIN c = Parts
    BY DEF Receive, Inv, Good, TypeInv
  <1>3. Becomes(q, d)
    BY <1>1 DEF Receive
  <1>4. /\ DOMAIN d = Parts
        /\ d.phase = "render" /\ d.out = out
        /\ \A x \in Parts \ {"phase", "out"} : d[x] = c[x]
    BY <1>2 DEF Parts
  <1> HIDE DEF d
  <1>5. /\ d.ask = c.ask /\ d.md = c.md /\ d.trace = c.trace
        /\ d.payload = c.payload /\ d.i = c.i /\ d.n = c.n
        /\ d.changed = c.changed /\ d.message = c.message /\ d.sent = c.sent
        /\ d.attached = c.attached /\ d.result = c.result /\ d.text = c.text
    BY <1>4 DEF Parts
  <1>6. TypeInv(d)
    BY <1>2, <1>4, <1>5 DEF Good, TypeInv
  <1>7. HeadersInv(configured, d)
    BY <1>2, <1>4, <1>5 DEF Good, HeadersInv
  <1>8. RepairInv(d)
    BY <1>4 DEF RepairInv
  <1>9. MessageInv(d)
    BY <1>2, <1>5 DEF Good, MessageInv, AsGiven
  <1>10. ReplyInv(d)
    BY <1>1, <1>2, <1>4, <1>5 DEF Good, ReplyInv
  <1>. QED BY <1>3, <1>6, <1>7, <1>8, <1>9, <1>10, OneMoves DEF Good

LEMMA RenderStep ==
  ASSUME Inv, NEW q \in Calls, Render(q)
  PROVE  Inv'
  <1> DEFINE c == call[q]
  <1>1. PICK text : text = [k \in DOMAIN c.ask.template |-> Piece(c.out, c.ask.template[k])]
    OBVIOUS
  <1> DEFINE d == [c EXCEPT !.phase = "done", !.result = "text", !.text = text]
  <1>2. c.phase = "render" /\ Good(configured, c) /\ DOMAIN c = Parts
    BY DEF Render, Inv, Good, TypeInv
  <1>3. Becomes(q, d)
    BY <1>1 DEF Render
  <1>4. /\ DOMAIN d = Parts
        /\ d.phase = "done" /\ d.result = "text" /\ d.text = text
        /\ \A x \in Parts \ {"phase", "result", "text"} : d[x] = c[x]
    BY <1>2 DEF Parts
  <1> HIDE DEF d
  <1>5. /\ d.ask = c.ask /\ d.md = c.md /\ d.trace = c.trace
        /\ d.payload = c.payload /\ d.i = c.i /\ d.n = c.n
        /\ d.changed = c.changed /\ d.message = c.message /\ d.sent = c.sent
        /\ d.attached = c.attached
    BY <1>4 DEF Parts
  <1>6. TypeInv(d)
    BY <1>2, <1>4, <1>5 DEF Good, TypeInv, Results
  <1>7. HeadersInv(configured, d)
    BY <1>2, <1>4, <1>5 DEF Good, HeadersInv
  <1>8. RepairInv(d)
    BY <1>4 DEF RepairInv
  <1>9. MessageInv(d)
    BY <1>2, <1>5 DEF Good, MessageInv, AsGiven
  <1>10. ReplyInv(d)
    <2>1. c.out = Out(c.ask.reply)
      BY <1>2 DEF Good, ReplyInv
    <2>2. \A k \in DOMAIN c.ask.template : ~Fails(c.out, c.ask.template[k])
      BY DEF Render
    <2>. QED BY <1>1, <1>4, <1>5, <2>1, <2>2 DEF ReplyInv
  <1>. QED BY <1>3, <1>6, <1>7, <1>8, <1>9, <1>10, OneMoves DEF Good

------------------------------------------------------------------------------
LEMMA InitInv == Init => Inv
  <1> SUFFICES ASSUME Init
               PROVE  Inv
    OBVIOUS
  <1>1. configured \in Seq(Entries(Headers))
    BY HeadersAssumption DEF Init
  <1>2. PICK asks \in Scenarios : call = [r \in DOMAIN asks |-> Fresh(asks[r])]
    BY DEF Init
  <1>3. ASSUME NEW r \in Calls
        PROVE  Good(configured, call[r])
    <2> DEFINE c == call[r]
    <2>1. r \in DOMAIN asks /\ c = Fresh(asks[r])
      BY <1>2 DEF Calls
    <2>2. AskInv(asks[r])
      BY <2>1, ScenariosAssumption DEF AskInv
    <2>3. /\ DOMAIN c = Parts
          /\ c.ask = asks[r] /\ c.md = Nothing /\ c.trace = Nothing /\ c.phase = "start" /\ c.payload = Nothing
          /\ c.i = 1 /\ c.n = 1 /\ c.changed = FALSE /\ c.message = Nothing
          /\ c.sent = FALSE /\ c.attached = Nothing /\ c.result = "none" /\ c.text = <<>>
      BY <2>1 DEF Fresh, Parts
    <2> HIDE DEF c
    <2>4. DOMAIN Nothing = {}
      BY DEF Nothing
    <2>5. TypeInv(c)
      <3>1. c.i \in 1..(Len(c.ask.input) + 1)
        <4>1. asks[r].input \in Seq(Field)
          BY <2>2 DEF AskInv, Ask
        <4>2. Len(asks[r].input) \in Nat
          BY <4>1
        <4>. QED BY <2>3, <4>2
      <3>2. c.changed \in BOOLEAN
        BY <2>3, Zenon
      <3>3. c.sent \in BOOLEAN
        BY <2>3, Zenon
      <3>. QED BY <2>2, <2>3, <2>4, <3>1, <3>2, <3>3 DEF TypeInv, Results
    <2>6. HeadersInv(configured, c)
      BY <2>3 DEF HeadersInv
    <2>7. RepairInv(c)
      BY <2>3 DEF RepairInv
    <2>8. MessageInv(c)
      BY <2>3, <2>4 DEF MessageInv
    <2>9. ReplyInv(c)
      BY <2>3 DEF ReplyInv
    <2>. QED BY <2>5, <2>6, <2>7, <2>8, <2>9 DEF Good, c
  <1>. QED BY <1>1, <1>3 DEF Inv

LEMMA StepInv == Inv /\ [Next]_vars => Inv'
  <1> SUFFICES ASSUME Inv, [Next]_vars
               PROVE  Inv'
    OBVIOUS
  <1>1. CASE UNCHANGED vars
    BY <1>1 DEF Inv, vars, Calls
  <1>2. ASSUME NEW q \in Calls, Reject(q)
        PROVE  Inv'
    <2>1. End(q, "bad arguments") /\ call[q].phase # "start"
      BY <1>2 DEF Reject, RepairEnds
    <2>. QED BY <2>1, EndStep, "bad arguments" \in Results DEF Results
  <1>3. ASSUME NEW q \in Calls, InvokeFails(q)
        PROVE  Inv'
    <2>1. End(q, "call failed") /\ call[q].phase # "start"
      BY <1>3 DEF InvokeFails
    <2>. QED BY <2>1, EndStep DEF Results
  <1>4. ASSUME NEW q \in Calls, MarshalFails(q)
        PROVE  Inv'
    <2>1. End(q, "bad response") /\ call[q].phase # "start"
      BY <1>4 DEF MarshalFails
    <2>. QED BY <2>1, EndStep DEF Results
  <1>5. ASSUME NEW q \in Calls, Structured(q)
        PROVE  Inv'
    <2>1. End(q, "structured") /\ call[q].phase # "start"
      BY <1>5 DEF Structured
    <2>. QED BY <2>1, EndStep DEF Results
  <1>6. ASSUME NEW q \in Calls, RenderFails(q)
        PROVE  Inv'
    <2>1. End(q, "template failed") /\ call[q].phase = "render"
      BY <1>6 DEF RenderFails
    <2>2. call[q].out = Out(call[q].ask.reply)
      BY <2>1 DEF Inv, Good, ReplyInv
    <2>3. \E k \in DOMAIN call[q].ask.template :
              Fails(Out(call[q].ask.reply), call[q].ask.template[k])
      BY <1>6, <2>2 DEF RenderFails
    <2>. QED BY <2>1, <2>3, EndStep DEF Results
  <1>. QED BY <1>1, <1>2, <1>3, <1>4, <1>5, <1>6, ServeStep, DecodeStep, StartRepairStep,
              UnwrapStep, KeepStep, RetryStep, SendStep, ReceiveStep, RenderStep DEF Next

LEMMA Invariance == Spec => []Inv
  BY InitInv, StepInv, PTL DEF Spec

------------------------------------------------------------------------------
\* No field that takes strings has a quoted object.
NoQuotedText(c) ==
    \A j \in DOMAIN c.ask.input : c.ask.input[j].kind \in {"StringValue", "Value"} =>
        \A m \in DOMAIN c.ask.args :
            Spells(c.ask.input[j], c.ask.args[m].name) => c.ask.args[m].value # "quoted object"

\* A repair that ends has unquoted what it should, and only that.
LEMMA RepairDecodes ==
  ASSUME NEW c, TypeInv(c), RepairInv(c), RepairEnds(c), OnlyQuoted(c.ask.input, c.ask.args),
         NoQuotedText(c)
  PROVE  c.changed /\ Decodes(c.ask.input, Repaired(c))
  <1> DEFINE input == c.ask.input
             args == c.ask.args
             last == LastValues(args)
  <1>1. /\ AskInv(c.ask) /\ input \in Seq(Field) /\ args \in Seq(Member)
        /\ DOMAIN input = 1..Len(input) /\ Len(input) \in Nat
    <2>1. AskInv(c.ask) /\ input \in Seq(Field) /\ args \in Seq(Member)
      BY DEF TypeInv, AskInv, Ask
    <2> HIDE DEF input, args
    <2>2. DOMAIN input = 1..Len(input) /\ Len(input) \in Nat
      BY <2>1
    <2>. QED BY <2>1, <2>2 DEF input, args
  <1>2. /\ c.phase = "repair" /\ c.i > Len(input) /\ c.i \in Nat
    <2>1. c.i \in 1..(Len(input) + 1)
      BY DEF TypeInv
    <2>. QED BY <1>1, <2>1 DEF RepairEnds
  <1>3. /\ ~Decodes(input, args)
        /\ DOMAIN c.payload = {args[m].name : m \in DOMAIN args}
        /\ \A x \in DOMAIN c.payload : Unwrapped(c, x)
        /\ \A j \in DOMAIN input : \A x \in DOMAIN c.payload :
              Spells(input[j], x) /\ Tried(c, j, x) => Settled(c, j, x)
    BY <1>2 DEF RepairInv
  <1>4. \A j \in DOMAIN input : \A m, k \in DOMAIN args :
          Spells(input[j], args[m].name) /\ Spells(input[j], args[k].name) => m = k
    BY DEF OnlyQuoted
  <1>5. DOMAIN last = DOMAIN c.payload
    BY <1>1, <1>3, LastFacts
  <1>6. ASSUME NEW m \in DOMAIN args
        PROVE  last[args[m].name] = args[m].value
    <2>1. PICK j \in DOMAIN input : Spells(input[j], args[m].name)
      BY DEF OnlyQuoted
    <2>2. PICK k \in DOMAIN args : args[k].name = args[m].name /\ last[args[m].name] = args[k].value
      <3>1. args[m].name \in DOMAIN last
        BY <1>3, <1>5
      <3>. QED BY <1>1, <3>1, LastFacts
    <2>3. k = m
      BY <1>4, <2>1, <2>2
    <2>. QED BY <2>2, <2>3
  <1>7. ASSUME NEW j \in DOMAIN input, NEW x \in DOMAIN c.payload, NEW y \in DOMAIN c.payload,
               Spells(input[j], x), Spells(input[j], y)
        PROVE  x = y
    BY <1>3, <1>4, <1>7
  \* What the field of a name takes, after the repair.
  <1>8. ASSUME NEW x \in DOMAIN c.payload
        PROVE  \E j \in DOMAIN input :
                  Spells(input[j], x) /\ Acceptable(input[j].kind, c.payload[x])
    <2>1. PICK m \in DOMAIN args : args[m].name = x
      BY <1>3
    <2>2. PICK j \in DOMAIN input :
            /\ Spells(input[j], x)
            /\ \/ Acceptable(input[j].kind, args[m].value)
               \/ input[j].kind = "list" /\ args[m].value = "quoted list"
               \/ input[j].kind \in {"map", "message", "Struct"} /\ args[m].value = "quoted object"
      BY <2>1 DEF OnlyQuoted
    <2>3. last[x] = args[m].value
      BY <1>6, <2>1
    <2>4. Settled(c, j, x)
      <3>1. j < c.i
        BY <1>1, <1>2
      <3>. QED BY <1>3, <2>2, <3>1 DEF Tried
    <2>5. ~Takes(input[j].kind, c.payload[x])
      BY <1>7, <2>2, <2>4 DEF Settled
    <2>6. CASE c.payload[x] = last[x]
      <3>1. Acceptable(input[j].kind, args[m].value)
        BY <2>2, <2>3, <2>5, <2>6 DEF Takes, Wants, MessageKinds
      <3>. QED BY <2>2, <2>3, <2>6, <3>1
    <2>7. CASE c.payload[x] # last[x]
      <3>1. /\ c.payload[x] = Unquoted(last[x])
            /\ \E k \in DOMAIN input : Spells(input[k], x) /\ Takes(input[k].kind, last[x])
        BY <1>3, <2>7 DEF Unwrapped
      <3>2. Takes(input[j].kind, last[x])
        BY <1>1, <2>2, <3>1, OneField
      <3>3. CASE last[x] = "quoted list"
        <4>1. input[j].kind = "list"
          BY <3>2, <3>3 DEF Takes, Wants
        <4>. QED BY <2>2, <3>1, <3>3, <4>1 DEF Unquoted, Acceptable
      <3>4. CASE last[x] = "quoted object"
        <4>1. input[j].kind \in MessageKinds \cup {"map"}
          BY <3>2, <3>4 DEF Takes, Wants
        <4>2. input[j].kind \notin {"StringValue", "Value"}
          BY <2>1, <2>2, <2>3, <3>4 DEF NoQuotedText
        <4>3. input[j].kind # "ListValue"
          BY <2>2, <2>3, <3>4 DEF Acceptable
        <4>4. input[j].kind \in {"map", "message", "Struct"}
          BY <4>1, <4>2, <4>3 DEF MessageKinds
        <4>5. c.payload[x] = "object"
          BY <3>1, <3>4 DEF Unquoted
        <4>. QED BY <2>2, <4>4, <4>5 DEF Acceptable
      <3>. QED BY <3>2, <3>3, <3>4 DEF Takes
    <2>. QED BY <2>6, <2>7
  <1>9. Decodes(input, Repaired(c))
    <2>1. DOMAIN Repaired(c) = DOMAIN c.payload
      BY DEF Repaired
    <2>2. \A x \in DOMAIN c.payload :
            Repaired(c)[x].name = x /\ Repaired(c)[x].value = c.payload[x]
      BY DEF Repaired
    <2>. QED BY <1>7, <1>8, <2>1, <2>2 DEF Decodes
  <1>10. c.changed
    <2>1. SUFFICES ASSUME ~c.changed
                   PROVE  Decodes(input, args)
      BY <1>3
    <2>2. \A x \in DOMAIN c.payload : c.payload[x] = last[x]
      BY <1>3, <2>1 DEF Unwrapped
    <2>3. ASSUME NEW m \in DOMAIN args
          PROVE  \E j \in DOMAIN input :
                    Spells(input[j], args[m].name) /\ Acceptable(input[j].kind, args[m].value)
      BY <1>3, <1>6, <1>8, <2>2
    <2> HIDE DEF input, args
    <2>. QED BY <1>4, <2>3 DEF Decodes
  <1>. QED BY <1>9, <1>10

------------------------------------------------------------------------------
\* What the loops of the repair and the maps of a call can hold: neither loop
\* runs past its end, no metadata is of a header that the request does not
\* have, and no argument is sent for a field that the message does not have.
THEOREM TypeCorrect == Spec => []TypeOK
  <1>1. Inv => TypeOK
    <2> SUFFICES ASSUME Inv, NEW r \in Calls
                 PROVE  LET c == call[r] IN
                        /\ c.phase \in {"start", "decode", "repair", "invoke", "sent", "render",
                                        "done"}
                        /\ DOMAIN c.md \subseteq Headers /\ DOMAIN c.trace \subseteq Headers
                        /\ DOMAIN c.attached \subseteq Headers
                        /\ DOMAIN c.payload \subseteq Names
                        /\ \A x \in DOMAIN c.payload : c.payload[x] \in Values
                        /\ c.i \in 1..(Len(c.ask.input) + 1) /\ c.n \in 1..2
                        /\ DOMAIN c.message \subseteq DOMAIN c.ask.input
                        /\ c.result \in {"none", "bad arguments", "call failed", "bad response",
                                         "template failed", "structured", "text"}
                        /\ c.text \in Seq({"text", "", "<no value>"})
      BY DEF TypeOK
    <2> DEFINE c == call[r]
               T == {"text", "", "<no value>"}
    <2>1. Good(configured, c)
      BY DEF Inv
    <2>2. c.text \in Seq(T)
      <3>1. <<>> \in Seq(T)
        OBVIOUS
      <3>2. CASE c.text # <<>>
        <4> DEFINE out == Out(c.ask.reply)
                   template == c.ask.template
        <4>1. /\ template \in Seq(Place)
              /\ c.text = [k \in DOMAIN template |-> Piece(out, template[k])]
          <5>1. template \in Seq(Place)
            BY <2>1 DEF Good, TypeInv, AskInv, Ask
          <5>2. c.text = <<>> \/ c.text = [k \in DOMAIN template |-> Piece(out, template[k])]
            BY <2>1 DEF Good, ReplyInv
          <5>. QED BY <3>2, <5>1, <5>2
        <4> HIDE DEF template, out
        <4>2. \A k \in DOMAIN template : Piece(out, template[k]) \in T
          BY DEF Piece
        <4>3. DOMAIN template = 1..Len(template) /\ Len(template) \in Nat
          BY <4>1
        <4>4. c.text \in [1..Len(template) -> T]
          BY <4>1, <4>2, <4>3
        <4>5. PICK n \in Nat : c.text \in [1..n -> T]
          BY <4>3, <4>4
        <4> HIDE DEF c, T
        <4>. QED BY <4>5
      <3>3. CASE c.text = <<>>
        BY <3>1, <3>3
      <3>. QED BY <3>2, <3>3
    <2>. QED BY <2>1, <2>2 DEF Good, TypeInv, Results
  <1>. QED BY <1>1, Invariance, PTL

\* A call carries every value of the configured headers of its own request and,
\* of the headers of the trace, what comes of that request's or of a span of the
\* gateway's own; nothing else, and no header that gRPC reserves.  For any number
\* of calls, any list of headers and any headers of the requests.
THEOREM OwnHeaders == Spec => []HeadersForwarded
  <1>1. Inv => HeadersForwarded
    <2> SUFFICES ASSUME Inv, NEW r \in Calls, call[r].sent
                 PROVE  LET c == call[r] IN
                        /\ DOMAIN c.attached \cap Reserved = {}
                        /\ \A h \in Headers \ Reserved :
                              LET own == NonEmpty(c.ask.http[h])
                                  attached == IF h \in DOMAIN c.attached THEN c.attached[h]
                                              ELSE <<>>
                              IN  \/ attached = IF h \in Mentioned(configured) THEN own ELSE <<>>
                                  \/ /\ h \in Propagated /\ own # <<>>
                                     /\ attached = <<[from |-> c.ask.http[h]]>>
                                  \/ h \in Minted /\ attached = <<[from |-> <<>>]>>
      BY DEF HeadersForwarded
    <2> DEFINE c == call[r]
               own(h) == NonEmpty(c.ask.http[h])
               attached(h) == IF h \in DOMAIN c.attached THEN c.attached[h] ELSE <<>>
    <2>1. Good(configured, c) /\ configured \in Seq(Entries(Headers))
      BY DEF Inv
    <2>2. PICK md, trace, injected :
            /\ md = Collected(configured, c.ask.http)
            /\ trace \in Extracted(c.ask.http)
            /\ injected \in Injections(trace)
            /\ c.attached = Attached(md, injected)
      BY <2>1 DEF Good, HeadersInv
    <2>3. c.ask.http \in [Headers -> Seq(HeaderValues)]
      BY <2>1 DEF Good, TypeInv, AskInv, Ask
    <2>4. /\ DOMAIN md \subseteq Mentioned(configured)
          /\ \A h \in Mentioned(configured) :
                own(h) = IF h \in DOMAIN md THEN md[h] ELSE <<>>
      BY <2>1, <2>2, <2>3, CollectedFacts
    <2>5. /\ DOMAIN trace \subseteq Propagated
          /\ \A h \in DOMAIN trace : trace[h] = c.ask.http[h] /\ own(h) # <<>>
      BY <2>2 DEF Extracted
    <2>6. /\ DOMAIN injected \subseteq DOMAIN trace \cup Minted
          /\ \A h \in DOMAIN injected :
                injected[h] = [from |-> IF h \in DOMAIN trace THEN trace[h] ELSE <<>>]
      BY <2>2 DEF Injections
    <2>7. /\ DOMAIN c.attached = (DOMAIN md \ Reserved) \cup DOMAIN injected
          /\ \A h \in DOMAIN c.attached :
                c.attached[h] = IF h \in DOMAIN injected THEN <<injected[h]>> ELSE md[h]
      BY <2>2 DEF Attached
    <2> HIDE DEF c, own
    <2>8. DOMAIN c.attached \cap Reserved = {}
      BY <2>5, <2>6, <2>7, HeadersAssumption
    <2>9. ASSUME NEW h \in Headers \ Reserved
          PROVE  \/ attached(h) = IF h \in Mentioned(configured) THEN own(h) ELSE <<>>
                 \/ /\ h \in Propagated /\ own(h) # <<>>
                    /\ attached(h) = <<[from |-> c.ask.http[h]]>>
                 \/ h \in Minted /\ attached(h) = <<[from |-> <<>>]>>
      <3>1. CASE h \in DOMAIN injected /\ h \in DOMAIN trace
        <4>1. h \in Propagated /\ own(h) # <<>> /\ injected[h] = [from |-> c.ask.http[h]]
          BY <2>5, <2>6, <3>1
        <4>2. attached(h) = <<injected[h]>>
          BY <2>7, <3>1
        <4>. QED BY <4>1, <4>2
      <3>2. CASE h \in DOMAIN injected /\ h \notin DOMAIN trace
        <4>1. h \in Minted /\ injected[h] = [from |-> <<>>]
          BY <2>6, <3>2
        <4>2. attached(h) = <<injected[h]>>
          BY <2>7, <3>2
        <4>. QED BY <4>1, <4>2
      <3>3. CASE h \notin DOMAIN injected
        BY <2>4, <2>7, <3>3
      <3>. QED BY <3>1, <3>2, <3>3
    <2>. QED BY <2>8, <2>9 DEF c, own
  <1>. QED BY <1>1, Invariance, PTL

\* No argument is sent that the client did not give, for any message, any
\* arguments and whatever the repair does.
THEOREM ArgumentsAsGiven == Spec => []SentAsGiven
  <1>1. Inv => SentAsGiven
    BY DEF Inv, Good, MessageInv, AsGiven, SentAsGiven
  <1>. QED BY <1>1, Invariance, PTL

\* The repair succeeds where quotes are the only fault of the arguments.
THEOREM RepairSucceeds == Spec => []RepairCompletes
  <1>1. Inv => RepairCompletes
    <2> SUFFICES ASSUME Inv, NEW r \in Calls, RepairEnds(call[r]),
                        OnlyQuoted(call[r].ask.input, call[r].ask.args),
                        NoQuotedText(call[r])
                 PROVE  call[r].changed /\ Decodes(call[r].ask.input, Repaired(call[r]))
      BY DEF RepairCompletes, NoQuotedText
    <2>1. TypeInv(call[r]) /\ RepairInv(call[r])
      BY DEF Inv, Good
    <2>. QED BY <2>1, RepairDecodes
  <1>. QED BY <1>1, Invariance, PTL

\* A template shows what is in the reply, and fails exactly if it takes a field
\* of something that has none, for any reply and any template.
THEOREM TextOfReply == Spec => []RendersReply
  <1>1. Inv => RendersReply
    <2> SUFFICES ASSUME Inv, NEW r \in Calls
                 PROVE  LET c == call[r]
                            At(k) == c.ask.reply[c.ask.template[k].field]
                            how(k) == c.ask.template[k].how
                        IN  /\ \A k \in DOMAIN c.text :
                                 /\ At(k) \in {"text", "message", "repeated", "strings"} => c.text[k] = "text"
                                 /\ At(k) = "empty" => c.text[k] = ""
                                 /\ At(k) = "empty list" /\ how(k) = "range" => c.text[k] = ""
                                 /\ At(k) = "empty message" /\ how(k) = "nested" => c.text[k] = ""
                            /\ c.result = "template failed" =>
                                 \E k \in DOMAIN c.ask.template : Breaks(At(k), how(k))
                            /\ c.result = "text" =>
                                 \A k \in DOMAIN c.ask.template : ~Breaks(At(k), how(k))
      BY DEF RendersReply
    <2> DEFINE c == call[r]
               reply == c.ask.reply
               template == c.ask.template
    <2>1. /\ Good(configured, c)
          /\ \A k \in DOMAIN template : template[k].field \in DOMAIN reply
      BY DEF Inv, Good, TypeInv, AskInv
    <2>2. /\ DOMAIN Out(reply) = {f \in DOMAIN reply : reply[f] # "unset"}
          /\ \A f \in DOMAIN Out(reply) : Out(reply)[f] = reply[f]
      BY DEF Out, Emits
    <2>3. ASSUME NEW k \in DOMAIN c.text
          PROVE  k \in DOMAIN template /\ c.text[k] = Piece(Out(reply), template[k])
      <3>1. \/ c.text = <<>>
            \/ c.text = [n \in DOMAIN template |-> Piece(Out(reply), template[n])]
        BY <2>1 DEF Good, ReplyInv
      <3>2. c.text # <<>>
        BY <2>3
      <3> HIDE DEF c, reply, template
      <3>. QED BY <2>3, <3>1, <3>2
    <2>4. /\ c.result = "template failed" =>
                \E k \in DOMAIN template : Fails(Out(reply), template[k])
          /\ c.result = "text" => \A k \in DOMAIN template : ~Fails(Out(reply), template[k])
      BY <2>1 DEF Good, ReplyInv
    <2>5. ASSUME NEW k \in DOMAIN template
          PROVE  LET there == reply[template[k].field] \notin {"unset", "null"}
                 IN  Piece(Out(reply), template[k]) =
                        IF ~there THEN IF template[k].how = "range" THEN "" ELSE "<no value>"
                        ELSE IF \/ reply[template[k].field] = "empty"
                                \/ /\ reply[template[k].field] = "empty list"
                                   /\ template[k].how = "range"
                                \/ /\ reply[template[k].field] = "empty message"
                                   /\ template[k].how = "nested"
                             THEN "" ELSE "text"
      BY <2>1, <2>2 DEF Piece
    <2>6. \A k \in DOMAIN template : Fails(Out(reply), template[k]) =
              Breaks(reply[template[k].field], template[k].how)
      <3>1. reply \in Seq(FieldStates)
        BY <2>1 DEF Good, TypeInv, AskInv, Ask
      <3>2. \A f \in DOMAIN reply : reply[f] \in FieldStates
        BY <3>1
      <3>. QED BY <2>1, <2>2, <3>2 DEF Fails, Breaks, FieldStates
    <2> HIDE DEF c, reply, template
    <2>. QED BY <2>3, <2>4, <2>5, <2>6 DEF c, reply, template
  <1>. QED BY <1>1, Invariance, PTL

==============================================================================
