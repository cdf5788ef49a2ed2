---------------------------- MODULE BuddyPromise ----------------------------
(***************************************************************************)
(* What the relay sees of a buddy: questions become pending on a           *)
(* connection, each is replied to at most once and in any order, and when  *)
(* the connection is lost so are the replies still to come.  This is how   *)
(* module Relay uses a buddy (WriteFrame, FinishHook, Cut).                 *)
(***************************************************************************)
EXTENDS Integers

CONSTANT Questions

VARIABLES pending,   \* questions sent on a connection that is up, no reply yet
          replies    \* replies[q]: replies received to q

promiseVars == <<pending, replies>>

PromiseInit ==
    /\ pending = {}
    /\ replies = [q \in Questions |-> 0]

Ask(q) ==
    /\ q \notin pending /\ replies[q] = 0
    /\ pending' = pending \cup {q}
    /\ UNCHANGED replies

Reply(q) ==
    /\ q \in pending
    /\ pending' = pending \ {q}
    /\ replies' = [replies EXCEPT ![q] = @ + 1]

Lose ==
    /\ pending' = {}
    /\ UNCHANGED replies

PromiseNext == Lose \/ \E q \in Questions : Ask(q) \/ Reply(q)

PromiseSpec == PromiseInit /\ [][PromiseNext]_promiseVars
=============================================================================
