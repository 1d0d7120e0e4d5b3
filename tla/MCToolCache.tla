---------------------------- MODULE MCToolCache ------------------------------
(* Two concurrent reloads over three services with colliding tool names.    *)
EXTENDS ToolCacheAudit, TLC

CONSTANTS main, other, live, static, alpha, beta, gamma, get, search, put

MCCallers == {main, other}
MCLoaders == {live, static}
MCDescriptors == {alpha, beta, gamma}
MCNames == {get, search, put}

\* Every two services collide.
MCToolsOf ==
    (alpha :> {get, search}) @@ (beta :> {search, put}) @@ (gamma :> {get, put})

\* A discovery that finds nothing, two orders of two services, and a static list
\* of one service or two.
MCReturns == (live :> {<<>>, <<alpha, beta>>, <<beta, alpha>>})
          @@ (static :> {<<gamma>>, <<alpha, gamma>>})
==============================================================================
