--------------------------- MODULE ConfiguredLists ---------------------------
(***************************************************************************)
(* Lists given by repeated flags, --service and --forward-header, as       *)
(* normalizeServiceNames (discovery.go) and normalizedHeaders (handler.go) *)
(* clean them.  An entry is told apart by the name that trimming leaves    *)
(* (for a header also lower-casing), Blank if nothing is left, and by its  *)
(* spelling: a name may be given again with blanks or in capitals.         *)
(***************************************************************************)
EXTENDS Naturals, Sequences, FiniteSets

CONSTANT Blank

Members(list) == {list[i] : i \in DOMAIN list}

Entries(names) == [name : names \cup {Blank}, spelling : {1, 2}]

\* Mutant of Repeats: entries are compared as they were typed.
RepeatsLiterally(list, i) == \E j \in 1..(i - 1) : list[j] = list[i]

Repeats(list, i) == \E j \in 1..(i - 1) : list[j].name = list[i].name

\* Blank entries and repetitions are dropped, the first of each name stays.
Kept(list) == {i \in DOMAIN list : list[i].name # Blank /\ ~Repeats(list, i)}

\* The members of a sequence at some of its positions, in their order.
Picked(s, positions) ==
    LET rank(i) == Cardinality({j \in positions : j <= i})
    IN  [k \in 1..Cardinality(positions) |-> s[CHOOSE i \in positions : rank(i) = k]]

NamesOf(list) == Picked([i \in DOMAIN list |-> list[i].name], Kept(list))

\* The same without an order, to say what is meant.
Mentioned(list) == {e.name : e \in Members(list)} \ {Blank}
==============================================================================
