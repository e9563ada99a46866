--------------------------- MODULE MCCheckPipeline ---------------------------
(***************************************************************************)
(* CheckPipeline with two pages, two texts and three settings: `sorted'    *)
(* has the filter hash of `plain', `sifted' the other settings of          *)
(* `sorted'.                                                               *)
(***************************************************************************)
EXTENDS CheckPipeline, TLC

CONSTANTS p1, p2, ta, tb, plain, sorted, sifted, h1, h2, o1, o2

MCPages == {p1, p2}
MCTexts == {ta, tb}
MCConfigs == {plain, sorted, sifted}
MCHashOf == plain :> h1 @@ sorted :> h1 @@ sifted :> h2
MCOwnOf == plain :> o1 @@ sorted :> o2 @@ sifted :> o2
MCExtract == plain :> (p1 :> ta @@ p2 :> tb)
          @@ sorted :> (p1 :> tb @@ p2 :> tb)
          @@ sifted :> (p1 :> ta @@ p2 :> Missing)
MCBlocks == plain :> {} @@ sorted :> {tb} @@ sifted :> {}
=============================================================================
