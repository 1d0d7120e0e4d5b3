----------------------------- MODULE MCDiscovery -----------------------------
(* Three services and the reflection service.                                *)
(* By reflection, over four deployments: a service is added, another         *)
(* removed, and the last serves reflection only.                             *)
(* In a file of up to four records: accounts comes with the reflection       *)
(* service and, like the first billing, imports common types; the second     *)
(* version drops both and adds catalog; the third has accounts again.  No    *)
(* version has the record "spliced".                                         *)
EXTENDS Discovery, TLC, SequencesExt

CONSTANTS accounts, billing, catalog, reflection

MCServices == {accounts, billing, catalog, reflection}
MCInternal == {reflection}
MCDeployed == <<{accounts, billing, reflection},
                {accounts, billing, catalog, reflection},
                {billing, catalog, reflection},
                {reflection}>>

\* An alphabetical order of the model values.
Rank == (accounts :> 1) @@ (billing :> 2) @@ (catalog :> 3) @@ (reflection :> 4)
MCSortedNames ==
    [S \in SUBSET MCServices |-> SetToSortSeq(S, LAMBDA a, b : Rank[a] < Rank[b])]

Entry(n, s) == [name |-> n, spelling |-> s]
MCFilters == {<<>>, <<Entry(Blank, 1)>>,
              <<Entry(catalog, 1), Entry(Blank, 1), Entry(billing, 1), Entry(catalog, 2)>>}

MCRecords == {"common", "accounts", "billing", "billing 2", "catalog", "spliced"}
MCPathOf == [r \in MCRecords |-> IF r \in {"billing 2", "spliced"} THEN "billing" ELSE r]
MCImportsOf == [r \in MCRecords |-> IF r \in {"accounts", "billing"} THEN {"common"} ELSE {}]
MCServicesOf ==
    [r \in MCRecords |-> CASE r = "common" -> {}
                           [] r = "accounts" -> {accounts, reflection}
                           [] r \in {"billing", "billing 2"} -> {billing}
                           [] r = "catalog" -> {catalog}
                           [] r = "spliced" -> {billing, catalog}]
MCVersions == <<<<"common", "accounts", "billing">>,
                <<"billing 2", "catalog">>,
                <<"common", "accounts", "billing 2", "catalog">>>>
==============================================================================
