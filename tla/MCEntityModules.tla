-------------------------- MODULE MCEntityModules --------------------------
(* Two entities of one user: a chat or filelist that is closed and opened  *)
(* again, or two hubs, searches or share roots.                            *)
EXTENDS EntityModules, TLC

CONSTANTS e1, e2, c1

EntitiesMC == {e1, e2}
CIDsMC     == {c1}
CIDOfMC    == (e1 :> c1) @@ (e2 :> c1)
=============================================================================
