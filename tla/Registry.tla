------------------------------ MODULE Registry ------------------------------
(***************************************************************************)
(* The in-memory router.Registry (server/internal/router): which           *)
(* connection answers for a buddy, and the reply buffer of each thread.    *)
(* One operator is one section of code under the registry's mutex.         *)
(*                                                                         *)
(* SendQuestion calls the connection's writer after it has released the    *)
(* mutex, so here it is only its locked half; module Relay has the other.  *)
(* DeliverOutFrame looks the channel up under the mutex and pushes after   *)
(* releasing it: a channel removed in between is read by nobody, so the    *)
(* push is taken at the look-up.                                           *)
(***************************************************************************)
EXTENDS Integers, ThreadIds

CONSTANTS Buddies,   \* buddy identifiers
          Conns,     \* WebSocket connections
          BuddyOf,   \* BuddyOf[c]: the buddy whose API key opened c
          NoConn,    \* stands for no connection
          WaiterCap  \* capacity of a waiter channel (4 in the code)

ASSUME BuddyOfAssumption == BuddyOf \in [Conns -> Buddies]
ASSUME NoConnAssumption == NoConn \notin Conns
ASSUME WaiterCapAssumption == WaiterCap \in Nat \ {0}

VARIABLES buddies,   \* buddies[b]: the registered writer and its generation
          gen,       \* the generation counter
          cancelGen, \* cancelGen[c]: generation held by c's cancel func, 0 if c
                     \* has not registered or has called it
          waiters    \* waiters[t]: frames buffered for t, or NoWaiter

registryVars == <<buddies, gen, cancelGen, waiters>>

NoWaiter == -1
NoEntry  == [writer |-> NoConn, gen |-> 0]

\* The states of the registry: a waiter never holds more than its capacity.
RegistryTypeOK ==
    /\ buddies   \in [Buddies -> [writer : Conns \cup {NoConn}, gen : Nat]]
    /\ gen       \in Nat
    /\ cancelGen \in [Conns -> Nat]
    /\ waiters   \in [Threads -> {NoWaiter} \cup 0 .. WaiterCap]

RegistryInit ==
    /\ buddies   = [b \in Buddies |-> NoEntry]
    /\ gen       = 0
    /\ cancelGen = [c \in Conns |-> 0]
    /\ waiters   = [t \in Threads |-> NoWaiter]

Online(b) == buddies[b].writer # NoConn

\* Mutant: a connection does not replace one that is already registered.
RegisterBuddyKeepsFirst(c) ==
    /\ gen' = gen + 1
    /\ IF Online(BuddyOf[c]) THEN UNCHANGED buddies
       ELSE buddies' = [buddies EXCEPT ![BuddyOf[c]] = [writer |-> c, gen |-> gen + 1]]
    /\ cancelGen' = [cancelGen EXCEPT ![c] = gen + 1]
    /\ UNCHANGED waiters

\* A second registration for the same buddy replaces the first.
RegisterBuddy(c) ==
    /\ gen'       = gen + 1
    /\ buddies'   = [buddies EXCEPT ![BuddyOf[c]] = [writer |-> c, gen |-> gen + 1]]
    /\ cancelGen' = [cancelGen EXCEPT ![c] = gen + 1]
    /\ UNCHANGED waiters

\* Mutant: the cancel func does not compare generations.
OwnsAnyEntry(c) == Online(BuddyOf[c])

\* The entry of c's buddy is the one c registered.
OwnsEntry(c) ==
    /\ Online(BuddyOf[c])
    /\ buddies[BuddyOf[c]].gen = cancelGen[c]

\* The cancel func of connection c.
Unregister(c) ==
    /\ \/ OwnsEntry(c) /\ buddies' = [buddies EXCEPT ![BuddyOf[c]] = NoEntry]
       \/ ~ OwnsEntry(c) /\ UNCHANGED buddies
    /\ cancelGen' = [cancelGen EXCEPT ![c] = 0]
    /\ UNCHANGED <<gen, waiters>>

\* The locked half of SendQuestion for an online buddy: make sure thread t
\* has a waiter.  The writer to call next is buddies[b].writer.
EnsureWaiter(t) ==
    /\ waiters' = [waiters EXCEPT ![t] = IF @ = NoWaiter THEN 0 ELSE @]
    /\ UNCHANGED <<buddies, gen, cancelGen>>

\* Mutant: the push does not mind the capacity of the channel.
DeliverOutFrameUnbounded(t) ==
    /\ \/ waiters[t] # NoWaiter /\ waiters' = [waiters EXCEPT ![t] = @ + 1]
       \/ waiters[t] = NoWaiter /\ UNCHANGED waiters
    /\ UNCHANGED <<buddies, gen, cancelGen>>

\* No waiter: the frame is dropped.  A full waiter: the frame is dropped too.
DeliverOutFrame(t) ==
    /\ \/ /\ waiters[t] \in 0 .. WaiterCap - 1
          /\ waiters' = [waiters EXCEPT ![t] = @ + 1]
       \/ /\ waiters[t] \in {NoWaiter, WaiterCap}
          /\ UNCHANGED waiters
    /\ UNCHANGED <<buddies, gen, cancelGen>>

ClearWaiter(t) ==
    /\ waiters' = [waiters EXCEPT ![t] = NoWaiter]
    /\ UNCHANGED <<buddies, gen, cancelGen>>

-----------------------------------------------------------------------------

\* Of the connections a buddy still holds, the registry has the newest: an
\* entry is owned by a connection that has not cancelled, of that buddy, and
\* no other connection of the buddy that has not cancelled is more recent.
EntryIsNewest ==
    \A b \in Buddies : Online(b) =>
        LET c == buddies[b].writer IN
        /\ BuddyOf[c] = b
        /\ cancelGen[c] = buddies[b].gen
        /\ \A d \in Conns \ {c} : BuddyOf[d] = b => cancelGen[d] < cancelGen[c]

\* A buddy goes offline only because the connection registered for it ends;
\* the late cancel of a connection it has replaced does not count.
OnlyOwnerUnregisters ==
    [][ \A b \in Buddies :
            Online(b) /\ ~ Online(b)' => cancelGen'[buddies[b].writer] = 0
      ]_registryVars
=============================================================================
