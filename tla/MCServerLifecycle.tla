------------------------- MODULE MCServerLifecycle -------------------------
(***************************************************************************)
(* A finite instance of ServerLifecycle: two replicas of the server over   *)
(* the three files of the repository, where threads refer to buddies.      *)
(***************************************************************************)
EXTENDS ServerLifecycle

CONSTANTS s1, s2

MCProcs == {s1, s2}
MCNeeds == [f \in Files |-> IF f = 2 THEN {1} ELSE {}]
=============================================================================
