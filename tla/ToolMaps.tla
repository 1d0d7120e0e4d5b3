------------------------------- MODULE ToolMaps ------------------------------
(***************************************************************************)
(* Maps from tool names to the services that own them, as RegisterTools    *)
(* fills them (gateway.go) and diffTools compares them (cache.go).         *)
(***************************************************************************)

CONSTANT ToolsOf  \* ToolsOf[d]: the tool names RegisterTools finds in d

\* A service gets the names of its tools that are not taken.
Claim(registered, d) ==
    [n \in DOMAIN registered \cup ToolsOf[d] |->
        IF n \in DOMAIN registered THEN registered[n] ELSE d]

AddedTools(previous, now) == DOMAIN now \ DOMAIN previous
RemovedTools(previous, now) == DOMAIN previous \ DOMAIN now
==============================================================================
