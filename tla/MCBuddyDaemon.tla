---------------------------- MODULE MCBuddyDaemon ----------------------------
(***************************************************************************)
(* Finite instance of BuddyDaemon: two questions, of which the hook of one  *)
(* lingers, and a queue of one.                                            *)
(***************************************************************************)
EXTENDS BuddyDaemon, TLC

CONSTANTS q1, q2

MCQuestions == {q1, q2}
MCLingering == {q2}
=============================================================================
