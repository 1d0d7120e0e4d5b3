----------------------------- MODULE ServiceNames ----------------------------
(***************************************************************************)
(* The services a gateway may find, and the lists of --service entries it  *)
(* is configured with: what the two loaders of internal/discovery share.   *)
(***************************************************************************)
EXTENDS ConfiguredLists

CONSTANTS
    Services,     \* names of gRPC services
    Internal,     \* the names isReflectionService tells apart
    SortedNames,  \* SortedNames[S]: the names of S as sort.Strings leaves them
    Filters       \* the configured lists of services to look at

ASSUME FiltersAssumption == Filters \subseteq Seq(Entries(Services))
ASSUME SortAssumption ==
    \A S \in SUBSET Services :
        /\ SortedNames[S] \in Seq(Services)
        /\ Members(SortedNames[S]) = S

\* What is listed of the services S when none is asked for.
Listing(S) == S \ Internal

FirstMention(list, s) ==
    CHOOSE i \in DOMAIN list : list[i].name = s /\ \A j \in 1..(i - 1) : list[j].name # s

\* Every service that the list mentions, once, in the order of first mention.
AsMentioned(names, list) ==
    /\ Members(names) = Mentioned(list)
    /\ \A i, j \in DOMAIN names :
          i < j => FirstMention(list, names[i]) < FirstMention(list, names[j])
==============================================================================
