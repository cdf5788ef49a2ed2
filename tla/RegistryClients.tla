-------------------------- MODULE RegistryClients --------------------------
(***************************************************************************)
(* The registry on its own, called by any number of goroutines in any      *)
(* order: connections register and cancel (a replaced one may cancel long  *)
(* after), handlers send, read loops deliver, WaitForFrame receives and    *)
(* threads are cleared.  Every call is one critical section, so every      *)
(* interleaving of the callers is a sequence of these steps.               *)
(***************************************************************************)
EXTENDS Registry

CONSTANT MaxRegistrations   \* bound on the generation counter

ASSUME MaxRegistrationsAssumption == MaxRegistrations \in Nat

Register(c) ==
    /\ cancelGen[c] = 0
    /\ gen < MaxRegistrations
    /\ RegisterBuddy(c)

Cancel(c) ==
    /\ cancelGen[c] > 0
    /\ Unregister(c)

SendQuestion(t) ==
    /\ \E b \in Buddies : Online(b)
    /\ EnsureWaiter(t)

\* WaitForFrame makes the channel if it is missing, then receives from it.
StartWait(t) ==
    /\ waiters[t] = NoWaiter
    /\ EnsureWaiter(t)

Receive(t) ==
    /\ waiters[t] > 0
    /\ waiters' = [waiters EXCEPT ![t] = @ - 1]
    /\ UNCHANGED <<buddies, gen, cancelGen>>

ClientsNext ==
    \/ \E c \in Conns : Register(c) \/ Cancel(c)
    \/ \E t \in Threads :
           \/ SendQuestion(t)
           \/ StartWait(t)
           \/ Receive(t)
           \/ DeliverOutFrame(t)
           \/ ClearWaiter(t)

RegistrySpec == RegistryInit /\ [][ClientsNext]_registryVars
=============================================================================
