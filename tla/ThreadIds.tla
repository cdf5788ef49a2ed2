----------------------------- MODULE ThreadIds -----------------------------
(***************************************************************************)
(* The identifiers that the tables (Store) and the registry (Registry)     *)
(* have in common.                                                         *)
(***************************************************************************)
CONSTANT Threads   \* thread identifiers, one per POST /v1/threads
=============================================================================
