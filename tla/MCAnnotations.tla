---------------------------- MODULE MCAnnotations ----------------------------
(* A service whose file imports up to three others in all the ways that have *)
(* no cycle; annotations.proto in its present version, in one that has only  *)
(* the tool option, or not imported; and up to two option records.           *)
EXTENDS Annotations

CONSTANTS service, common, types, annotationsProto, nowhere

MCFiles == {service, common, types, annotationsProto}
Lists(S) == {<<>>} \cup {<<a>> : a \in S} \cup {<<a, b>> : a, b \in S}
    
MCImportGraphs ==
    {[f \in MCFiles |->
        CASE f = service -> s [] f = common -> c [] f = types -> t [] OTHER -> <<>>] :
            s \in {l \in Lists({common, types, annotationsProto}) : \A j, k \in DOMAIN l : l[j] = l[k] => j = k},
            c \in {l \in Lists({types, annotationsProto}) : \A j, k \in DOMAIN l : l[j] = l[k] => j = k},
            t \in {<<>>, <<annotationsProto>>}}
MCExtensions == {"tool", "service", "server", "other"}
MCDeclarations ==
    {[f \in MCFiles |-> IF f = annotationsProto THEN E ELSE {}] :
        E \in {{"tool"}, {"tool", "service", "server"}}}
MCAttributes == {"name", "description", "tool_prefix", "title"}
MCRecords ==
    UNION {[ext : {"tool"}, sets : {{"name"}, {"description"}}, sound : BOOLEAN],
           [ext : {"service"}, sets : {{"tool_prefix"}}, sound : BOOLEAN],
           [ext : {"server"}, sets : {{"title"}}, sound : {TRUE}],
           [ext : {"other"}, sets : {{}}, sound : {TRUE}]}
MCOptions == Lists(MCRecords)
==============================================================================
