------------------------------ MODULE Discovery ------------------------------
(***************************************************************************)
(* The loader of one gateway, as main.go chooses it: LoadServicesFromFile  *)
(* if a descriptor file is configured, LoadServices over reflection        *)
(* otherwise, called again and again for the same list of services.        *)
(***************************************************************************)
EXTENDS Reflection, DescriptorFile

VARIABLES
    source,   \* "file" if cfg.protoDescriptor is set, else "reflection"
    services  \* cfg.services

discoveryVars == <<reflectionVars, fileVars, source, services>>

DInit ==
    /\ RInit
    /\ FInit
    /\ source \in {"reflection", "file"}
    /\ source = "reflection" => exists
    /\ source = "file" => up
    /\ services \in Filters

\* Only what the chosen loader reads is followed.
DNext ==
    /\ \/ source = "reflection" /\ RNext(services) /\ UNCHANGED fileVars
       \/ source = "file" /\ FNext(services) /\ UNCHANGED reflectionVars
    /\ UNCHANGED <<source, services>>

DSpec == DInit /\ [][DNext]_discoveryVars

FairDSpec ==
    /\ DSpec
    /\ WF_discoveryVars(source = "file" /\ Loader(services) /\ UNCHANGED <<reflectionVars, source, services>>)

DTypeOK == ReflectionTypeOK /\ FileTypeOK

\* "you can update the file in place and the gateway picks up the changes
\* without a restart": once the file is left at a version that can be loaded,
\* loads go on succeeding and return that version, whatever was read before.
PicksUpChanges ==
    \A v \in 1..Len(Versions) :
        LET filter == NamesOf(services)
        IN  source = "file" /\ Loads(Versions[v], filter)
                /\ <>[](revision = v /\ exists /\ Written)
            => /\ []<>(read.phase = "done")
               /\ <>[](read.phase = "done" => IsVersion(v, filter))
==============================================================================
