----------------------------- MODULE MCRegistry -----------------------------
(***************************************************************************)
(* Finite instance of RegistryClients: three connections, of which two are *)
(* of the same buddy.                                                      *)
(***************************************************************************)
EXTENDS RegistryClients

CONSTANTS c1, c2, c3, b1, b2

MCConns   == {c1, c2, c3}
MCBuddies == {b1, b2}
MCBuddyOf == [c \in MCConns |-> IF c = c3 THEN b2 ELSE b1]
=============================================================================
