------------------------------ MODULE MCRelay ------------------------------
(***************************************************************************)
(* Finite instances of Relay.  A run picks how many requests of each kind  *)
(* there are; every thread asks the one buddy, and every connection is its.*)
(***************************************************************************)
EXTENDS Relay, TLC

CONSTANT b1

MCBuddies == {b1}
MCBuddyOf == [c \in Conns |-> b1]
MCTarget  == [t \in Threads |-> b1]

Symmetry == Permutations(Clarifications) \cup Permutations(Conns)
                \cup Permutations(Polls) \cup Permutations(Closes)
=============================================================================
