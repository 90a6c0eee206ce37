----------------------------- MODULE MCStitching -----------------------------
EXTENDS Stitching

CONSTANTS m, a, b

MCPPI == (m :> 1) @@ (a :> 2) @@ (b :> 4)
MCWidth == (m :> 8) @@ (a :> 12) @@ (b :> 16)
MCHeight == (m :> 12) @@ (a :> 20) @@ (b :> 24)
MCOffset == (m :> 3) @@ (a :> 4) @@ (b :> 8)
MCSwipeEdges ==
    (m :> {"right"}) @@ (a :> Edges) @@ (b :> {"bottom"})

=============================================================================
