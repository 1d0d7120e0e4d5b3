------------------------------- MODULE Catalog -------------------------------
(***************************************************************************)
(* What the tool cache promises its readers.  An MCP request finds either  *)
(* no tools at all (nothing was ever discovered) or the complete catalog   *)
(* of one discovery result: every tool that some service of that result    *)
(* offers, each name owned by the first service that offers it.  A catalog *)
(* is replaced as a whole, never edited and never withdrawn.               *)
(***************************************************************************)
EXTENDS Naturals, Sequences

CONSTANTS
    Descriptors,  \* service descriptors, as one load returns them
    ToolsOf,      \* ToolsOf[d]: the tool names the service d offers
    Results,      \* the lists of descriptors a loader may return
    Nothing       \* served before the first catalog

VARIABLE served

Offers(list, k) == UNION {ToolsOf[list[i]] : i \in 1..k}

\* f gives every tool of the first k services to the first service offering it.
FirstClaims(f, list, k) ==
    /\ DOMAIN f = Offers(list, k)
    /\ \A n \in DOMAIN f : \E i \in 1..k :
          /\ f[n] = list[i]
          /\ n \in ToolsOf[list[i]]
          /\ \A j \in 1..(i - 1) : n \notin ToolsOf[list[j]]

Complete(f, list) == FirstClaims(f, list, Len(list))

Init == served = Nothing

Publish ==
    \E list \in Results \ {<<>>} :
        \E f \in [Offers(list, Len(list)) -> Descriptors] :
            /\ Complete(f, list)
            /\ served' = f

Spec == Init /\ [][Publish]_served
==============================================================================
