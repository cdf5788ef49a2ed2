-------------------------- MODULE MCBuddyBootstrap --------------------------
(***************************************************************************)
(* A finite instance of BuddyBootstrap: commands are alike.                *)
(***************************************************************************)
EXTENDS BuddyBootstrap, TLC

Symmetry == Permutations(Commands)
=============================================================================
