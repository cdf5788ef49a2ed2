-------------------------- MODULE MCHatchlingSetup --------------------------
(***************************************************************************)
(* Finite instance of HatchlingSetup: a setup and a removal of the default *)
(* alias, a setup of another alias, and a list.                            *)
(***************************************************************************)
EXTENDS HatchlingSetup, TLC

CONSTANTS s1, s2, l1, r1, default, work

MCSetups   == {s1, s2}
MCReaders  == {l1}
MCRemovers == {r1}
MCAliasOf  == s2 :> work @@ [p \in {s1, l1, r1} |-> default]
=============================================================================
