--------------------------- MODULE MCRecheckQueue ---------------------------
(***************************************************************************)
(* RecheckQueue with three items, two of them of the same priority (the    *)
(* UI's recheck) and one scheduled by the ticker, and two getters.         *)
(***************************************************************************)
EXTENDS RecheckQueue, TLC

CONSTANTS i1, i2, i3

MCItems == {i1, i2, i3}
MCPriority == (i1 :> 1) @@ (i2 :> 1) @@ (i3 :> 2)
=============================================================================
