-------------------------------- MODULE MCUpgrade --------------------------------
(* An old text watch and a restock watch. *)
EXTENDS Upgrade, OldDatastore

CONSTANTS text, shop

MCPosition == [w \in Watches |-> IF w = text THEN 0 ELSE 1]
MCOriginals == OldOriginals(text, shop, Tags)
OldStart == {<<"legacy", 24>>}
=============================================================================
