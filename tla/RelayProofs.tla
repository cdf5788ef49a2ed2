---------------------------- MODULE RelayProofs ----------------------------
(***************************************************************************)
(* Safety of the registry, and type correctness and safety of the relay    *)
(* that calls it, for every number of threads, requests and connections,   *)
(* every capacity and every budget of faults.                              *)
(*                                                                         *)
(* First what the registry's critical sections preserve, as theorems of    *)
(* RegistryClients; then what each statement of Store does to the types;   *)
(* then type correctness of the relay, with the facts about what each      *)
(* goroutine holds at its step (InStep) that make it inductive; then the   *)
(* histories of threads, the entry of the registry, and what a hatchling   *)
(* that reads "answered" reads.  The lemmas say what the building blocks   *)
(* of the actions preserve, and one step of the proof that a step          *)
(* preserves an invariant is one action.                                   *)
(***************************************************************************)
EXTENDS Relay, RegistryClients, TLAPS

-----------------------------------------------------------------------------
(* The registry's critical sections.  EntryIsNewest is not inductive: a    *)
(* cancel that finds another connection's entry leaves it alone only       *)
(* because no two connections hold the same generation, which in turn      *)
(* holds because the counter is never behind any of them.                  *)

GenerationsDiffer ==
    /\ \A c \in Conns : cancelGen[c] <= gen
    /\ \A c, d \in Conns : c # d /\ cancelGen[c] > 0 => cancelGen[c] # cancelGen[d]

EntriesAreLive == \A b \in Buddies : Online(b) => buddies[b].gen > 0

RegistryInv ==
    /\ RegistryTypeOK
    /\ GenerationsDiffer
    /\ EntriesAreLive
    /\ EntryIsNewest

LEMMA RegistryInvInit == RegistryInit => RegistryInv
<1> SUFFICES ASSUME RegistryInit PROVE RegistryInv
  OBVIOUS
<1>1. RegistryTypeOK
  BY DEF RegistryInit, RegistryTypeOK, NoEntry, NoWaiter
<1>2. GenerationsDiffer /\ EntriesAreLive /\ EntryIsNewest
  BY DEF RegistryInit, GenerationsDiffer, EntriesAreLive, EntryIsNewest, Online, NoEntry
<1> QED
  BY <1>1, <1>2 DEF RegistryInv

LEMMA RegistryInvKept ==
    ASSUME RegistryInv, UNCHANGED <<buddies, gen, cancelGen>>, RegistryTypeOK'
    PROVE  RegistryInv'
BY DEF RegistryInv, GenerationsDiffer, EntriesAreLive, EntryIsNewest, Online

LEMMA RegisterTyped ==
    ASSUME RegistryTypeOK, NEW c \in Conns, RegisterBuddy(c)
    PROVE  RegistryTypeOK'
<1> DEFINE e == [writer |-> c, gen |-> gen + 1]
<1>1. gen + 1 \in Nat /\ e \in [writer : Conns \cup {NoConn}, gen : Nat]
  BY DEF RegistryTypeOK
<1>2. buddies' = [buddies EXCEPT ![BuddyOf[c]] = e]
  BY DEF RegisterBuddy
<1> HIDE DEF e
<1>3. buddies' \in [Buddies -> [writer : Conns \cup {NoConn}, gen : Nat]]
  BY <1>1, <1>2 DEF RegistryTypeOK
<1> QED
  BY <1>1, <1>3 DEF RegistryTypeOK, RegisterBuddy

LEMMA UnregisterTyped ==
    ASSUME RegistryTypeOK, NEW c \in Conns, Unregister(c)
    PROVE  RegistryTypeOK'
<1>1. NoEntry \in [writer : Conns \cup {NoConn}, gen : Nat]
  BY DEF NoEntry
<1>2. buddies' \in [Buddies -> [writer : Conns \cup {NoConn}, gen : Nat]]
  BY <1>1 DEF RegistryTypeOK, Unregister
<1> QED
  BY <1>2 DEF RegistryTypeOK, Unregister

LEMMA DeliverTyped ==
    ASSUME RegistryTypeOK, NEW t \in Threads, DeliverOutFrame(t)
    PROVE  RegistryTypeOK'
BY WaiterCapAssumption DEF RegistryTypeOK, DeliverOutFrame, NoWaiter

LEMMA EnsureTyped ==
    ASSUME RegistryTypeOK, NEW t \in Threads, EnsureWaiter(t)
    PROVE  RegistryTypeOK'
BY WaiterCapAssumption DEF RegistryTypeOK, EnsureWaiter, NoWaiter

LEMMA ClearTyped ==
    ASSUME RegistryTypeOK, NEW t \in Threads, ClearWaiter(t)
    PROVE  RegistryTypeOK'
BY WaiterCapAssumption DEF RegistryTypeOK, ClearWaiter, NoWaiter

\* The fields of the new entry, and what becomes of every other one.
LEMMA RegisterEffect ==
    ASSUME RegistryTypeOK, NEW c \in Conns, RegisterBuddy(c)
    PROVE  /\ BuddyOf[c] \in Buddies
           /\ gen \in Nat /\ gen' = gen + 1
           /\ buddies'[BuddyOf[c]].writer = c
           /\ buddies'[BuddyOf[c]].gen = gen + 1
           /\ \A b \in Buddies \ {BuddyOf[c]} : buddies'[b] = buddies[b]
           /\ cancelGen'[c] = gen + 1
           /\ \A d \in Conns : cancelGen[d] \in Nat
           /\ \A d \in Conns \ {c} : cancelGen'[d] = cancelGen[d]
<1>1. BuddyOf[c] \in Buddies
  BY BuddyOfAssumption
<1> QED
  BY <1>1 DEF RegistryTypeOK, RegisterBuddy

LEMMA RegisterKeepsInv ==
    ASSUME RegistryInv, NEW c \in Conns, cancelGen[c] = 0, RegisterBuddy(c)
    PROVE  RegistryInv'
<1>0. RegistryTypeOK /\ RegistryTypeOK'
  BY RegisterTyped DEF RegistryInv
<1>1. /\ BuddyOf[c] \in Buddies
      /\ gen \in Nat /\ gen' = gen + 1
      /\ buddies'[BuddyOf[c]].writer = c
      /\ buddies'[BuddyOf[c]].gen = gen + 1
      /\ \A b \in Buddies \ {BuddyOf[c]} : buddies'[b] = buddies[b]
      /\ cancelGen'[c] = gen + 1
      /\ \A d \in Conns : cancelGen[d] \in Nat
      /\ \A d \in Conns \ {c} : cancelGen'[d] = cancelGen[d]
  BY <1>0, RegisterEffect
<1>2. \A d \in Conns : cancelGen[d] <= gen
  BY DEF RegistryInv, GenerationsDiffer
<1>3. GenerationsDiffer'
  BY <1>1, <1>2 DEF RegistryInv, GenerationsDiffer
<1>4. EntriesAreLive'
  BY <1>1 DEF RegistryInv, EntriesAreLive, Online
<1>5. ASSUME NEW b \in Buddies, Online(b)'
      PROVE  /\ BuddyOf[buddies'[b].writer] = b
             /\ cancelGen'[buddies'[b].writer] = buddies'[b].gen
             /\ \A d \in Conns \ {buddies'[b].writer} :
                    BuddyOf[d] = b => cancelGen'[d] < cancelGen'[buddies'[b].writer]
  <2>1. CASE b = BuddyOf[c]
    BY <1>1, <1>2, <2>1
  <2>2. CASE b # BuddyOf[c]
    <3>1. buddies'[b] = buddies[b] /\ Online(b)
      BY <1>1, <1>5, <2>2 DEF Online
    <3>2. /\ BuddyOf[buddies[b].writer] = b
          /\ cancelGen[buddies[b].writer] = buddies[b].gen
          /\ \A d \in Conns \ {buddies[b].writer} :
                 BuddyOf[d] = b => cancelGen[d] < cancelGen[buddies[b].writer]
      BY <3>1 DEF RegistryInv, EntryIsNewest
    <3>3. buddies[b].writer \in Conns
      BY <1>0, <3>1 DEF RegistryTypeOK, Online
    <3>4. buddies[b].writer # c
      BY <2>2, <3>2
    <3> QED
      BY <1>1, <2>2, <3>1, <3>2, <3>3, <3>4
  <2> QED
    BY <2>1, <2>2
<1>6. EntryIsNewest'
  BY <1>5 DEF EntryIsNewest
<1> QED
  BY <1>0, <1>3, <1>4, <1>6 DEF RegistryInv

\* The cancel func removes the entry only of its own connection.
LEMMA CancelRemovesOwn ==
    ASSUME RegistryInv, NEW c \in Conns, OwnsEntry(c)
    PROVE  buddies[BuddyOf[c]].writer = c
<1> DEFINE w == buddies[BuddyOf[c]].writer
<1>1. BuddyOf[c] \in Buddies /\ Online(BuddyOf[c])
  BY BuddyOfAssumption DEF OwnsEntry
<1>2. w \in Conns
  BY <1>1 DEF RegistryInv, RegistryTypeOK, Online
<1>3. cancelGen[w] = cancelGen[c] /\ cancelGen[w] > 0
  BY <1>1 DEF RegistryInv, EntryIsNewest, EntriesAreLive, OwnsEntry
<1> HIDE DEF w
<1>4. w = c
  BY <1>2, <1>3 DEF RegistryInv, GenerationsDiffer
<1> QED
  BY <1>4 DEF w

LEMMA UnregisterKeepsInv ==
    ASSUME RegistryInv, NEW c \in Conns, Unregister(c)
    PROVE  RegistryInv'
<1>0. RegistryTypeOK /\ RegistryTypeOK'
  BY UnregisterTyped DEF RegistryInv
<1>1. /\ BuddyOf[c] \in Buddies
      /\ gen \in Nat /\ gen' = gen
      /\ cancelGen'[c] = 0
      /\ \A d \in Conns : cancelGen[d] \in Nat
      /\ \A d \in Conns \ {c} : cancelGen'[d] = cancelGen[d]
  BY <1>0, BuddyOfAssumption DEF RegistryTypeOK, Unregister
<1>2. \A b \in Buddies : Online(b)' =>
          Online(b) /\ buddies'[b] = buddies[b] /\ buddies[b].writer # c
  <2> SUFFICES ASSUME NEW b \in Buddies, Online(b)'
               PROVE  Online(b) /\ buddies'[b] = buddies[b] /\ buddies[b].writer # c
    OBVIOUS
  <2>1. CASE OwnsEntry(c)
    <3>1. buddies' = [buddies EXCEPT ![BuddyOf[c]] = NoEntry]
      BY <2>1 DEF Unregister
    <3>2. b # BuddyOf[c]
      BY <1>0, <1>1, <3>1 DEF RegistryTypeOK, Online, NoEntry
    <3>3. buddies'[b] = buddies[b] /\ Online(b)
      BY <1>0, <3>1, <3>2 DEF RegistryTypeOK, Online
    <3> QED
      BY <3>2, <3>3 DEF RegistryInv, EntryIsNewest
  <2>2. CASE ~ OwnsEntry(c)
    <3>1. buddies' = buddies /\ Online(b)
      BY <2>2 DEF Unregister, Online
    <3>2. BuddyOf[buddies[b].writer] = b /\ cancelGen[buddies[b].writer] = buddies[b].gen
      BY <3>1 DEF RegistryInv, EntryIsNewest
    <3> QED
      BY <2>2, <3>1, <3>2 DEF OwnsEntry
  <2> QED
    BY <2>1, <2>2
<1>3. GenerationsDiffer'
  BY <1>1 DEF RegistryInv, GenerationsDiffer
<1>4. EntriesAreLive'
  BY <1>2 DEF RegistryInv, EntriesAreLive
<1>5. ASSUME NEW b \in Buddies, Online(b)'
      PROVE  /\ BuddyOf[buddies'[b].writer] = b
             /\ cancelGen'[buddies'[b].writer] = buddies'[b].gen
             /\ \A d \in Conns \ {buddies'[b].writer} :
                    BuddyOf[d] = b => cancelGen'[d] < cancelGen'[buddies'[b].writer]
  <2>1. Online(b) /\ buddies'[b] = buddies[b] /\ buddies[b].writer # c
    BY <1>2, <1>5
  <2>2. buddies[b].writer \in Conns
    BY <1>0, <2>1 DEF RegistryTypeOK, Online
  <2>3. /\ BuddyOf[buddies[b].writer] = b
        /\ cancelGen[buddies[b].writer] = buddies[b].gen
        /\ buddies[b].gen > 0
        /\ \A d \in Conns \ {buddies[b].writer} :
               BuddyOf[d] = b => cancelGen[d] < cancelGen[buddies[b].writer]
    BY <2>1 DEF RegistryInv, EntryIsNewest, EntriesAreLive
  <2> QED
    BY <1>1, <2>1, <2>2, <2>3
<1>6. EntryIsNewest'
  BY <1>5 DEF EntryIsNewest
<1> QED
  BY <1>0, <1>3, <1>4, <1>6 DEF RegistryInv

-----------------------------------------------------------------------------
(* The registry under arbitrary callers, for every number of connections,  *)
(* buddies, threads and registrations.                                     *)

LEMMA RegistryInvStep == RegistryInv /\ [ClientsNext]_registryVars => RegistryInv'
<1> SUFFICES ASSUME RegistryInv, [ClientsNext]_registryVars PROVE RegistryInv'
  OBVIOUS
<1>0. RegistryTypeOK
  BY DEF RegistryInv
<1>1. ASSUME NEW c \in Conns, Register(c) PROVE RegistryInv'
  BY <1>1, RegisterKeepsInv DEF Register
<1>2. ASSUME NEW c \in Conns, Cancel(c) PROVE RegistryInv'
  BY <1>2, UnregisterKeepsInv DEF Cancel
<1>3. ASSUME NEW t \in Threads, SendQuestion(t) \/ StartWait(t) PROVE RegistryInv'
  <2>1. EnsureWaiter(t)
    BY <1>3 DEF SendQuestion, StartWait
  <2> QED
    BY <1>0, <2>1, EnsureTyped, RegistryInvKept DEF EnsureWaiter
<1>4. ASSUME NEW t \in Threads, Receive(t) PROVE RegistryInv'
  <2>1. RegistryTypeOK'
    BY <1>0, <1>4, WaiterCapAssumption DEF RegistryTypeOK, Receive, NoWaiter
  <2> QED
    BY <1>4, <2>1, RegistryInvKept DEF Receive
<1>5. ASSUME NEW t \in Threads, DeliverOutFrame(t) PROVE RegistryInv'
  BY <1>0, <1>5, DeliverTyped, RegistryInvKept DEF DeliverOutFrame
<1>6. ASSUME NEW t \in Threads, ClearWaiter(t) PROVE RegistryInv'
  BY <1>0, <1>6, ClearTyped, RegistryInvKept DEF ClearWaiter
<1>7. CASE UNCHANGED registryVars
  <2>1. RegistryTypeOK'
    BY <1>0, <1>7 DEF RegistryTypeOK, registryVars
  <2> QED
    BY <1>7, <2>1, RegistryInvKept DEF registryVars
<1> QED
  BY <1>1, <1>2, <1>3, <1>4, <1>5, <1>6, <1>7 DEF ClientsNext

\* Under arbitrary callers no waiter is filled past its capacity, and every
\* entry names a connection.
THEOREM RegistryTypes == RegistrySpec => []RegistryTypeOK
<1>1. RegistryInv => RegistryTypeOK
  BY DEF RegistryInv
<1> QED
  BY <1>1, RegistryInvInit, RegistryInvStep, PTL DEF RegistrySpec

\* The registry always answers for a buddy with the newest connection that has
\* not been cancelled, in whatever order connections register, are replaced
\* and cancel.
THEOREM NewestConnectionServes == RegistrySpec => []EntryIsNewest
<1>1. RegistryInv => EntryIsNewest
  BY DEF RegistryInv
<1> QED
  BY <1>1, RegistryInvInit, RegistryInvStep, PTL DEF RegistrySpec

LEMMA StepRemovesOwn ==
    ASSUME RegistryInv, [ClientsNext]_registryVars,
           NEW b \in Buddies, Online(b), ~ Online(b)'
    PROVE  cancelGen'[buddies[b].writer] = 0
<1>1. ASSUME NEW c \in Conns, Register(c) PROVE Online(b)'
  <2>1. RegistryTypeOK /\ RegisterBuddy(c) /\ c # NoConn
    BY <1>1, NoConnAssumption DEF RegistryInv, Register
  <2>2. CASE b = BuddyOf[c]
    BY <2>1, <2>2, RegisterEffect DEF Online
  <2>3. CASE b # BuddyOf[c]
    BY <2>1, <2>3, RegisterEffect DEF Online
  <2> QED
    BY <2>2, <2>3
<1>2. PICK c \in Conns : Cancel(c)
  BY <1>1 DEF ClientsNext, SendQuestion, StartWait, Receive, EnsureWaiter, DeliverOutFrame,
              ClearWaiter, registryVars, Online
<1>3. OwnsEntry(c) /\ b = BuddyOf[c]
  BY <1>2 DEF Cancel, Unregister, Online, RegistryInv, RegistryTypeOK
<1>4. buddies[b].writer = c
  BY <1>3, CancelRemovesOwn
<1> QED
  BY <1>2, <1>4 DEF Cancel, Unregister, RegistryInv, RegistryTypeOK

\* The late cancel of a connection that was replaced never takes a buddy
\* offline: only the connection whose entry it is does.
THEOREM ReplacedConnectionIsHarmless == RegistrySpec => OnlyOwnerUnregisters
<1>1. RegistryInv /\ [ClientsNext]_registryVars =>
          [\A b \in Buddies :
              Online(b) /\ ~ Online(b)' => cancelGen'[buddies[b].writer] = 0]_registryVars
  BY StepRemovesOwn
<1> QED
  BY <1>1, RegistryInvInit, RegistryInvStep, PTL DEF RegistrySpec, OnlyOwnerUnregisters

-----------------------------------------------------------------------------
(* The statements of module Store.                                         *)

USE DEF Statuses, CloseReasons, MsgTypes

LEMMA OpenTyped ==
    ASSUME StoreTypeOK, NEW t \in Threads, ThreadsOpen(t)
    PROVE  StoreTypeOK'
BY DEF StoreTypeOK, ConvTypeOK, ThreadsOpen

LEMMA CloseTyped ==
    ASSUME StoreTypeOK, NEW t \in Threads, NEW why \in CloseReasons, ThreadsClose(t, why)
    PROVE  StoreTypeOK'
<1>1. CASE status[t] = "open"
  BY <1>1 DEF StoreTypeOK, ConvTypeOK, ThreadsClose
<1>2. CASE status[t] # "open"
  BY <1>2 DEF StoreTypeOK, ConvTypeOK, ThreadsClose, storeVars
<1> QED BY <1>1, <1>2

LEMMA IncrementTyped ==
    ASSUME StoreTypeOK, NEW t \in Threads, ThreadsIncrementTurns(t)
    PROVE  StoreTypeOK'
<1>1. turns[t] + 1 \in 0 .. MaxTurns
  BY MaxTurnsAssumption DEF StoreTypeOK, ConvTypeOK, ThreadsIncrementTurns, CanTakeTurn
<1> QED BY <1>1 DEF StoreTypeOK, ConvTypeOK, ThreadsIncrementTurns

LEMMA InsertTyped ==
    ASSUME StoreTypeOK, NEW t \in Threads, NEW m \in MsgTypes, MessagesInsert(t, m)
    PROVE  StoreTypeOK'
<1>1. Append(log[t], m) \in Seq(MsgTypes)
  BY DEF StoreTypeOK, ConvTypeOK
<1> QED BY <1>1 DEF StoreTypeOK, ConvTypeOK, MessagesInsert

LEMMA BumpTyped ==
    ASSUME StoreTypeOK, NEW t \in Threads, MessagesBumpActivity(t)
    PROVE  StoreTypeOK'
BY DEF StoreTypeOK, ConvTypeOK, MessagesBumpActivity

LEMMA IdleTyped ==
    ASSUME StoreTypeOK, NEW t \in Threads, GoesIdle(t)
    PROVE  StoreTypeOK'
BY DEF StoreTypeOK, ConvTypeOK, GoesIdle

HIDE DEF Statuses, CloseReasons, MsgTypes

-----------------------------------------------------------------------------
(* Type correctness.                                                       *)

USE DEF Steps, Outcomes

LEMMA StoreKept ==
    ASSUME StoreTypeOK, UNCHANGED storeVars
    PROVE  StoreTypeOK'
BY DEF StoreTypeOK, ConvTypeOK, storeVars

LEMMA RegistryKept ==
    ASSUME RegistryTypeOK, UNCHANGED registryVars
    PROVE  RegistryTypeOK'
BY DEF RegistryTypeOK, registryVars

LEMMA ConnKept ==
    ASSUME ConnTypeOK, UNCHANGED connVars
    PROVE  ConnTypeOK'
BY DEF ConnTypeOK, connVars

LEMMA RequestKept ==
    ASSUME RequestTypeOK, UNCHANGED requestVars
    PROVE  RequestTypeOK'
BY DEF RequestTypeOK, requestVars

LEMMA InStepKept ==
    ASSUME InStep, UNCHANGED <<pc, thread, writer, srv, cur>>
    PROVE  InStep'
BY DEF InStep

\* A request that goes on, or ends, keeps its types.
LEMMA MoveTyped ==
    ASSUME RequestTypeOK, NEW r \in Requests, NEW step \in Steps, NEW status_ \in Outcomes,
           Goto(r, step) \/ Finish(r, status_), UNCHANGED <<thread, writer, view>>
    PROVE  RequestTypeOK'
BY DEF RequestTypeOK, Goto, Finish

\* A request that knows its thread may go to any step but "push", which needs
\* a writer, and "append" and "bump", which are not for all requests.
LEMMA MoveInStep ==
    ASSUME InStep, RequestTypeOK,
           NEW r \in Requests, NEW step \in Steps \ {"push"}, NEW status_ \in Outcomes,
           Goto(r, step) \/ Finish(r, status_),
           step \in {"append", "bump"} => r \in Threads \cup Clarifications,
           thread[r] \in Threads,
           UNCHANGED <<thread, writer, srv, cur>>
    PROVE  InStep'
<1>1. \A q \in Requests \ {r} : pc'[q] = pc[q]
  BY DEF RequestTypeOK, Goto, Finish
<1>2. pc'[r] \in (Steps \ {"push"}) \cup Outcomes
  BY DEF RequestTypeOK, Goto, Finish
<1>3. pc'[r] \in {"append", "bump"} => r \in Threads \cup Clarifications
  BY DEF RequestTypeOK, Goto, Finish
<1> QED
  BY <1>1, <1>2, <1>3 DEF InStep

\* A database error is counted within its bound.
LEMMA ErrorsTyped ==
    ASSUME TypeOK, NEW r \in Requests, Runs(r) \/ Fails(r) \/ DBFails
    PROVE  dbErrors' \in 0 .. MaxDBErrors
BY BoundsAssumption DEF TypeOK, Runs, Fails, DBFails

-----------------------------------------------------------------------------
(* Hatchling handlers.                                                     *)

LEMMA AskBuddyTyped ==
    ASSUME TypeInv, NEW t \in Threads, AskBuddy(t)
    PROVE  TypeInv'
<1> t \in Requests /\ thread[t] \in Threads
  BY DEF TypeInv, InStep, Requests
<1>1. StoreTypeOK' /\ RegistryTypeOK' /\ ConnTypeOK'
  BY StoreKept, RegistryKept, ConnKept DEF TypeInv, TypeOK, AskBuddy, OthersKept
<1>2. RequestTypeOK' /\ InStep'
  BY MoveTyped, MoveInStep DEF TypeInv, TypeOK, AskBuddy, OthersKept, connVars
<1> QED
  BY <1>1, <1>2 DEF TypeInv, TypeOK, AskBuddy, OthersKept

LEMMA OpenThreadTyped ==
    ASSUME TypeInv, NEW t \in Threads, OpenThread(t)
    PROVE  TypeInv'
<1> t \in Requests /\ thread[t] \in Threads
  BY DEF TypeInv, InStep, Requests
<1>1. StoreTypeOK'
  BY StoreKept, OpenTyped DEF TypeInv, TypeOK, OpenThread
<1>2. RegistryTypeOK' /\ ConnTypeOK' /\ dbErrors' \in 0 .. MaxDBErrors
  BY RegistryKept, ConnKept, ErrorsTyped DEF TypeInv, TypeOK, OpenThread, OthersKept
<1>3. RequestTypeOK' /\ InStep'
  BY MoveTyped, MoveInStep DEF TypeInv, TypeOK, OpenThread, OthersKept, connVars
<1> QED
  BY <1>1, <1>2, <1>3 DEF TypeInv, TypeOK, OpenThread, OthersKept

LEMMA CountQuestionTyped ==
    ASSUME TypeInv, NEW t \in Threads, CountQuestion(t)
    PROVE  TypeInv'
<1> t \in Requests /\ thread[t] \in Threads
  BY DEF TypeInv, InStep, Requests
<1>1. StoreTypeOK'
  BY StoreKept, IncrementTyped DEF TypeInv, TypeOK, CountQuestion
<1>2. RegistryTypeOK' /\ ConnTypeOK' /\ dbErrors' \in 0 .. MaxDBErrors
  BY RegistryKept, ConnKept, ErrorsTyped DEF TypeInv, TypeOK, CountQuestion, OthersKept
<1>3. RequestTypeOK' /\ InStep'
  BY MoveTyped, MoveInStep DEF TypeInv, TypeOK, CountQuestion, OthersKept, connVars
<1> QED
  BY <1>1, <1>2, <1>3 DEF TypeInv, TypeOK, CountQuestion, OthersKept

LEMMA StartClarificationTyped ==
    ASSUME TypeInv, NEW r \in Clarifications, NEW t \in Threads, StartClarification(r, t)
    PROVE  TypeInv'
<1> r \in Requests /\ r \notin Threads
  BY RequestsAssumption DEF Requests
<1>1. StoreTypeOK' /\ RegistryTypeOK' /\ ConnTypeOK'
  BY StoreKept, RegistryKept, ConnKept DEF TypeInv, TypeOK, StartClarification
<1>2. RequestTypeOK'
  BY DEF TypeInv, TypeOK, RequestTypeOK, StartClarification, Goto, Finish
<1>3. InStep'
  BY DEF TypeInv, TypeOK, RequestTypeOK, InStep, StartClarification, Goto, Finish, connVars
<1> QED
  BY <1>1, <1>2, <1>3 DEF TypeInv, TypeOK, StartClarification, faultVars

LEMMA CountClarificationTyped ==
    ASSUME TypeInv, NEW r \in Clarifications, CountClarification(r)
    PROVE  TypeInv'
<1> r \in Requests /\ thread[r] \in Threads
  BY DEF TypeInv, InStep, Requests, CountClarification
<1>1. StoreTypeOK'
  BY StoreKept, IncrementTyped DEF TypeInv, TypeOK, CountClarification
<1>2. RegistryTypeOK' /\ ConnTypeOK' /\ dbErrors' \in 0 .. MaxDBErrors
  BY RegistryKept, ConnKept, ErrorsTyped DEF TypeInv, TypeOK, CountClarification, OthersKept
<1>3. RequestTypeOK' /\ InStep'
  BY MoveTyped, MoveInStep DEF TypeInv, TypeOK, CountClarification, OthersKept, connVars
<1> QED
  BY <1>1, <1>2, <1>3 DEF TypeInv, TypeOK, CountClarification, OthersKept

LEMMA ExplainRefusalTyped ==
    ASSUME TypeInv, NEW r \in Clarifications, ExplainRefusal(r)
    PROVE  TypeInv'
<1> r \in Requests /\ thread[r] \in Threads
  BY DEF TypeInv, InStep, Requests, ExplainRefusal
<1>1. StoreTypeOK' /\ RegistryTypeOK' /\ ConnTypeOK' /\ dbErrors' \in 0 .. MaxDBErrors
  BY StoreKept, RegistryKept, ConnKept, ErrorsTyped
  DEF TypeInv, TypeOK, ExplainRefusal, OthersKept
<1>2. RequestTypeOK' /\ InStep'
  BY MoveTyped, MoveInStep DEF TypeInv, TypeOK, ExplainRefusal, OthersKept, connVars
<1> QED
  BY <1>1, <1>2 DEF TypeInv, TypeOK, ExplainRefusal, OthersKept

LEMMA CloseCappedTyped ==
    ASSUME TypeInv, NEW r \in Clarifications, CloseCapped(r)
    PROVE  TypeInv'
<1> r \in Requests /\ thread[r] \in Threads
  BY DEF TypeInv, InStep, Requests, CloseCapped
<1>1. StoreTypeOK'
  BY StoreKept, CloseTyped DEF TypeInv, TypeOK, CloseCapped, CloseReasons
<1>2. RegistryTypeOK' /\ ConnTypeOK' /\ dbErrors' \in 0 .. MaxDBErrors
  BY RegistryKept, ConnKept, ErrorsTyped DEF TypeInv, TypeOK, CloseCapped, OthersKept
<1>3. RequestTypeOK' /\ InStep'
  BY MoveTyped, MoveInStep DEF TypeInv, TypeOK, CloseCapped, OthersKept, connVars
<1> QED
  BY <1>1, <1>2, <1>3 DEF TypeInv, TypeOK, CloseCapped, OthersKept

LEMMA InsertMessageTyped ==
    ASSUME TypeInv, NEW r \in Requests, InsertMessage(r)
    PROVE  TypeInv'
<1> thread[r] \in Threads /\ Kind(r) \in MsgTypes
  BY DEF TypeInv, InStep, InsertMessage, Kind, MsgTypes
<1>1. StoreTypeOK'
  BY StoreKept, InsertTyped DEF TypeInv, TypeOK, InsertMessage
<1>2. RegistryTypeOK' /\ ConnTypeOK' /\ dbErrors' \in 0 .. MaxDBErrors
  BY RegistryKept, ConnKept, ErrorsTyped DEF TypeInv, TypeOK, InsertMessage, OthersKept
<1>3. r \in Threads \cup Clarifications
  BY DEF TypeInv, InStep, InsertMessage
<1>4. RequestTypeOK' /\ InStep'
  BY <1>3, MoveTyped, MoveInStep DEF TypeInv, TypeOK, InsertMessage, OthersKept, connVars
<1> QED
  BY <1>1, <1>2, <1>4 DEF TypeInv, TypeOK, InsertMessage, OthersKept

LEMMA BumpActivityTyped ==
    ASSUME TypeInv, NEW r \in Requests, BumpActivity(r)
    PROVE  TypeInv'
<1> thread[r] \in Threads
  BY DEF TypeInv, InStep, BumpActivity
<1>1. StoreTypeOK'
  BY StoreKept, BumpTyped DEF TypeInv, TypeOK, BumpActivity
<1>2. RegistryTypeOK' /\ ConnTypeOK' /\ dbErrors' \in 0 .. MaxDBErrors
  BY RegistryKept, ConnKept, ErrorsTyped DEF TypeInv, TypeOK, BumpActivity, OthersKept
<1>3. RequestTypeOK' /\ InStep'
  BY MoveTyped, MoveInStep DEF TypeInv, TypeOK, BumpActivity, OthersKept, connVars
<1> QED
  BY <1>1, <1>2, <1>3 DEF TypeInv, TypeOK, BumpActivity, OthersKept

LEMMA FindWriterTyped ==
    ASSUME TypeInv, NEW r \in Requests, FindWriter(r)
    PROVE  TypeInv'
<1> thread[r] \in Threads /\ Target[thread[r]] \in Buddies
  BY TargetAssumption DEF TypeInv, InStep, FindWriter
<1>1. StoreTypeOK' /\ ConnTypeOK'
  BY StoreKept, ConnKept DEF TypeInv, TypeOK, FindWriter
<1>2. RegistryTypeOK'
  BY WaiterCapAssumption
  DEF TypeInv, TypeOK, RegistryTypeOK, FindWriter, EnsureWaiter, registryVars, NoWaiter
<1>3. RequestTypeOK'
  BY DEF TypeInv, TypeOK, RequestTypeOK, RegistryTypeOK, FindWriter, Goto, Finish, Online
<1>4. InStep'
  BY DEF TypeInv, TypeOK, RequestTypeOK, RegistryTypeOK, InStep, FindWriter, Goto, Finish,
         Online, connVars
<1> QED
  BY <1>1, <1>2, <1>3, <1>4 DEF TypeInv, TypeOK, FindWriter, faultVars

LEMMA PushFrameTyped ==
    ASSUME TypeInv, NEW r \in Requests, PushFrame(r)
    PROVE  TypeInv'
<1> thread[r] \in Threads /\ writer[r] \in Conns
  BY DEF TypeInv, InStep, PushFrame
<1>1. StoreTypeOK' /\ RegistryTypeOK'
  BY StoreKept, RegistryKept DEF TypeInv, TypeOK, PushFrame
<1>2. ConnTypeOK'
  <2> DEFINE f == [type |-> Kind(r), thread |-> thread[r]]
  <2>1. f \in InFrames
    BY DEF Kind, InFrames, InTypes
  <2>2. Append(writeCh[writer[r]], f) \in Seq(InFrames)
    BY <2>1 DEF TypeInv, TypeOK, ConnTypeOK
  <2> HIDE DEF f
  <2>3. \/ writeCh' = [writeCh EXCEPT ![writer[r]] = Append(@, f)]
        \/ UNCHANGED writeCh
    BY DEF PushFrame, f
  <2>4. writeCh' \in [Conns -> Seq(InFrames)]
    BY <2>2, <2>3 DEF TypeInv, TypeOK, ConnTypeOK
  <2> QED
    BY <2>4 DEF TypeInv, TypeOK, ConnTypeOK, PushFrame
<1>3. RequestTypeOK'
  BY DEF TypeInv, TypeOK, RequestTypeOK, PushFrame, Goto, Finish
<1>4. InStep'
  BY DEF TypeInv, TypeOK, RequestTypeOK, InStep, PushFrame, Goto, Finish
<1> QED
  BY <1>1, <1>2, <1>3, <1>4 DEF TypeInv, TypeOK, PushFrame, faultVars

LEMMA StartCloseTyped ==
    ASSUME TypeInv, NEW r \in Closes, NEW t \in Threads, StartClose(r, t)
    PROVE  TypeInv'
<1> r \in Requests /\ r \notin Threads
  BY RequestsAssumption DEF Requests
<1>1. StoreTypeOK' /\ RegistryTypeOK' /\ ConnTypeOK'
  BY StoreKept, RegistryKept, ConnKept DEF TypeInv, TypeOK, StartClose
<1>2. RequestTypeOK'
  BY DEF TypeInv, TypeOK, RequestTypeOK, StartClose, Goto
<1>3. InStep'
  BY DEF TypeInv, TypeOK, RequestTypeOK, InStep, StartClose, Goto, connVars
<1> QED
  BY <1>1, <1>2, <1>3 DEF TypeInv, TypeOK, StartClose, faultVars

LEMMA CloseThreadTyped ==
    ASSUME TypeInv, NEW r \in Closes, CloseThread(r)
    PROVE  TypeInv'
<1> r \in Requests /\ thread[r] \in Threads
  BY DEF TypeInv, InStep, Requests, CloseThread
<1>1. StoreTypeOK'
  BY StoreKept, CloseTyped DEF TypeInv, TypeOK, CloseThread, CloseReasons
<1>2. RegistryTypeOK' /\ ConnTypeOK' /\ dbErrors' \in 0 .. MaxDBErrors
  BY RegistryKept, ConnKept, ErrorsTyped DEF TypeInv, TypeOK, CloseThread, OthersKept
<1>3. RequestTypeOK' /\ InStep'
  BY MoveTyped, MoveInStep DEF TypeInv, TypeOK, CloseThread, OthersKept, connVars
<1> QED
  BY <1>1, <1>2, <1>3 DEF TypeInv, TypeOK, CloseThread, OthersKept

LEMMA FinishCloseTyped ==
    ASSUME TypeInv, NEW r \in Closes, FinishClose(r)
    PROVE  TypeInv'
<1> r \in Requests /\ thread[r] \in Threads
  BY DEF TypeInv, InStep, Requests, FinishClose
<1>1. StoreTypeOK' /\ ConnTypeOK'
  BY StoreKept, ConnKept DEF TypeInv, TypeOK, FinishClose, OthersKept
<1>2. RegistryTypeOK'
  BY DEF TypeInv, TypeOK, RegistryTypeOK, FinishClose, ClearWaiter
<1>3. RequestTypeOK' /\ InStep'
  BY MoveTyped, MoveInStep DEF TypeInv, TypeOK, FinishClose, OthersKept, connVars
<1> QED
  BY <1>1, <1>2, <1>3 DEF TypeInv, TypeOK, FinishClose, OthersKept

LEMMA StartPollTyped ==
    ASSUME TypeInv, NEW r \in Polls, NEW t \in Threads, StartPoll(r, t)
    PROVE  TypeInv'
<1> r \in Requests /\ r \notin Threads
  BY RequestsAssumption DEF Requests
<1>1. StoreTypeOK' /\ RegistryTypeOK' /\ ConnTypeOK'
  BY StoreKept, RegistryKept, ConnKept DEF TypeInv, TypeOK, StartPoll
<1>2. [status |-> status[t], reason |-> reason[t], log |-> << >>] \in Views
  BY DEF TypeInv, TypeOK, StoreTypeOK, ConvTypeOK, Views
<1>3. RequestTypeOK'
  BY <1>2 DEF TypeInv, TypeOK, RequestTypeOK, StartPoll, ReadRow, Goto
<1>4. InStep'
  BY DEF TypeInv, TypeOK, RequestTypeOK, InStep, StartPoll, Goto, connVars
<1> QED
  BY <1>1, <1>3, <1>4 DEF TypeInv, TypeOK, StartPoll, faultVars

LEMMA ReadAgainTyped ==
    ASSUME TypeInv, NEW r \in Polls, ReadAgain(r)
    PROVE  TypeInv'
<1> r \in Requests /\ thread[r] \in Threads
  BY DEF TypeInv, InStep, Requests, ReadAgain
<1>1. StoreTypeOK' /\ RegistryTypeOK' /\ ConnTypeOK' /\ dbErrors' \in 0 .. MaxDBErrors
  BY StoreKept, RegistryKept, ConnKept, ErrorsTyped DEF TypeInv, TypeOK, ReadAgain
<1>2. [status |-> status[thread[r]], reason |-> reason[thread[r]], log |-> << >>] \in Views
  BY DEF TypeInv, TypeOK, StoreTypeOK, ConvTypeOK, Views
<1>3. [status |-> "blank", reason |-> "none", log |-> << >>] \in Views
  BY DEF Views
<1>4. RequestTypeOK'
  BY <1>2, <1>3 DEF TypeInv, TypeOK, RequestTypeOK, ReadAgain, ReadRow, Goto
<1>5. InStep'
  BY MoveInStep DEF TypeInv, TypeOK, ReadAgain, connVars
<1> QED
  BY <1>1, <1>4, <1>5 DEF TypeInv, TypeOK, ReadAgain

LEMMA ListMessagesTyped ==
    ASSUME TypeInv, NEW r \in Polls, ListMessages(r)
    PROVE  TypeInv'
<1> r \in Requests /\ thread[r] \in Threads
  BY DEF TypeInv, InStep, Requests, ListMessages
<1>1. StoreTypeOK' /\ RegistryTypeOK' /\ ConnTypeOK' /\ dbErrors' \in 0 .. MaxDBErrors
  BY StoreKept, RegistryKept, ConnKept, ErrorsTyped DEF TypeInv, TypeOK, ListMessages
<1>2. [view[r] EXCEPT !.log = log[thread[r]]] \in Views
  BY DEF TypeInv, TypeOK, StoreTypeOK, ConvTypeOK, RequestTypeOK, Views
<1>3. view' \in [Polls -> Views]
  BY <1>2 DEF TypeInv, TypeOK, RequestTypeOK, ListMessages
<1>4. RequestTypeOK'
  BY <1>3 DEF TypeInv, TypeOK, RequestTypeOK, ListMessages, Finish
<1>5. InStep'
  BY MoveInStep DEF TypeInv, TypeOK, ListMessages, connVars
<1> QED
  BY <1>1, <1>4, <1>5 DEF TypeInv, TypeOK, ListMessages

LEMMA DisconnectTyped ==
    ASSUME TypeInv, NEW r \in Requests, Disconnect(r)
    PROVE  TypeInv'
<1>1. StoreTypeOK' /\ RegistryTypeOK' /\ ConnTypeOK'
  BY StoreKept, RegistryKept, ConnKept DEF TypeInv, TypeOK, Disconnect, OthersKept
<1>2. RequestTypeOK'
  BY DEF TypeInv, TypeOK, RequestTypeOK, Disconnect, OthersKept
<1>3. InStep'
  BY InStepKept DEF TypeInv, Disconnect, OthersKept, connVars
<1> QED
  BY <1>1, <1>2, <1>3 DEF TypeInv, TypeOK, Disconnect, OthersKept

-----------------------------------------------------------------------------
(* Buddy connections.                                                      *)

LEMMA ConnectTyped ==
    ASSUME TypeInv, NEW c \in Conns, Connect(c)
    PROVE  TypeInv'
<1>1. StoreTypeOK' /\ RequestTypeOK'
  BY StoreKept, RequestKept DEF TypeInv, TypeOK, Connect
<1>2. RegistryTypeOK'
  BY RegisterTyped DEF TypeInv, TypeOK, Connect
<1>3. ConnTypeOK'
  BY DEF TypeInv, TypeOK, ConnTypeOK, Connect
<1>4. InStep'
  BY DEF TypeInv, TypeOK, ConnTypeOK, InStep, Connect, requestVars
<1> QED
  BY <1>1, <1>2, <1>3, <1>4 DEF TypeInv, TypeOK, Connect, faultVars

LEMMA CutTyped ==
    ASSUME TypeInv, NEW c \in Conns, Cut(c)
    PROVE  TypeInv'
<1>1. StoreTypeOK' /\ RegistryTypeOK' /\ RequestTypeOK' /\ InStep'
  BY StoreKept, RegistryKept, RequestKept, InStepKept DEF TypeInv, TypeOK, Cut, requestVars
<1>2. ConnTypeOK'
  BY DEF TypeInv, TypeOK, ConnTypeOK, Cut, NoHooks
<1> QED
  BY <1>1, <1>2 DEF TypeInv, TypeOK, Cut, faultVars

LEMMA WriteFrameTyped ==
    ASSUME TypeInv, NEW c \in Conns, WriteFrame(c)
    PROVE  TypeInv'
<1>1. StoreTypeOK' /\ RegistryTypeOK' /\ RequestTypeOK' /\ InStep'
  BY StoreKept, RegistryKept, RequestKept, InStepKept DEF TypeInv, TypeOK, WriteFrame, requestVars
<1>2. Head(writeCh[c]) \in InFrames /\ Tail(writeCh[c]) \in Seq(InFrames)
  BY DEF TypeInv, TypeOK, ConnTypeOK, WriteFrame
<1>3. Head(writeCh[c]).thread \in Threads
  BY <1>2 DEF InFrames
<1>4. writeCh' \in [Conns -> Seq(InFrames)]
  BY <1>2 DEF TypeInv, TypeOK, ConnTypeOK, WriteFrame
<1>5. hooks' \in [Conns -> [Threads -> Nat]]
  <2> DEFINE t == Head(writeCh[c]).thread
  <2>1. hooks' = [hooks EXCEPT ![c][t] = @ + 1] \/ hooks' = hooks
    BY DEF WriteFrame
  <2>2. t \in Threads /\ hooks \in [Conns -> [Threads -> Nat]]
    BY <1>3 DEF TypeInv, TypeOK, ConnTypeOK
  <2> HIDE DEF t
  <2>3. ASSUME hooks' = [hooks EXCEPT ![c][t] = @ + 1]
        PROVE  hooks' \in [Conns -> [Threads -> Nat]]
    <3>1. hooks[c][t] + 1 \in Nat
      BY <2>2
    <3>2. [hooks[c] EXCEPT ![t] = hooks[c][t] + 1] \in [Threads -> Nat]
      BY <2>2, <3>1
    <3> QED
      BY <2>2, <2>3, <3>2
  <2> QED
    BY <2>1, <2>2, <2>3
<1>5a. mute' \in SUBSET Conns
  BY DEF TypeInv, TypeOK, ConnTypeOK, WriteFrame
<1>6. ConnTypeOK'
  BY <1>4, <1>5, <1>5a DEF TypeInv, TypeOK, ConnTypeOK, WriteFrame
<1> QED
  BY <1>1, <1>6 DEF TypeInv, TypeOK, WriteFrame, faultVars

LEMMA PingTimeoutTyped ==
    ASSUME TypeInv, NEW c \in Conns, PingTimeout(c)
    PROVE  TypeInv'
<1>1. StoreTypeOK' /\ RegistryTypeOK' /\ RequestTypeOK' /\ InStep'
  BY StoreKept, RegistryKept, RequestKept, InStepKept DEF TypeInv, TypeOK, PingTimeout, requestVars
<1>2. ConnTypeOK'
  BY DEF TypeInv, TypeOK, ConnTypeOK, PingTimeout
<1> QED
  BY <1>1, <1>2 DEF TypeInv, TypeOK, PingTimeout, faultVars

LEMMA FinishHookTyped ==
    ASSUME TypeInv, NEW c \in Conns, NEW t \in Threads, FinishHook(c, t)
    PROVE  TypeInv'
<1>1. StoreTypeOK' /\ RegistryTypeOK' /\ RequestTypeOK' /\ InStep'
  BY StoreKept, RegistryKept, RequestKept, InStepKept DEF TypeInv, TypeOK, FinishHook, requestVars
<1>2. hooks' \in [Conns -> [Threads -> Nat]]
  BY DEF TypeInv, TypeOK, ConnTypeOK, FinishHook
<1>3. PICK type \in HookReplies :
          up' = [up EXCEPT ![c] = Append(@, [type |-> type, thread |-> t])]
  BY DEF FinishHook
<1> DEFINE f == [type |-> type, thread |-> t]
<1>4. f \in OutFrames
  BY HookRepliesAssumption DEF OutFrames
<1> HIDE DEF f
<1>5. Append(up[c], f) \in Seq(OutFrames)
  BY <1>4 DEF TypeInv, TypeOK, ConnTypeOK
<1>6. up' = [up EXCEPT ![c] = Append(up[c], f)]
  BY <1>3 DEF f
<1>7. up' \in [Conns -> Seq(OutFrames)]
  BY <1>5, <1>6 DEF TypeInv, TypeOK, ConnTypeOK
<1>8. ConnTypeOK'
  BY <1>2, <1>7 DEF TypeInv, TypeOK, ConnTypeOK, FinishHook
<1> QED
  BY <1>1, <1>8 DEF TypeInv, TypeOK, FinishHook, faultVars

LEMMA ReadFrameTyped ==
    ASSUME TypeInv, NEW c \in Conns, ReadFrame(c)
    PROVE  TypeInv'
<1> DEFINE f == Head(up[c])
<1>1. StoreTypeOK' /\ RequestTypeOK'
  BY StoreKept, RequestKept DEF TypeInv, TypeOK, ReadFrame
<1>2. f \in OutFrames /\ Tail(up[c]) \in Seq(OutFrames)
  BY DEF TypeInv, TypeOK, ConnTypeOK, ReadFrame
<1>3. RegistryTypeOK'
  <2>1. f.thread \in Threads /\ DeliverOutFrame(f.thread)
    BY <1>2 DEF ReadFrame, OutFrames
  <2> HIDE DEF f
  <2> QED
    BY <2>1, DeliverTyped DEF TypeInv, TypeOK
<1>4. up' \in [Conns -> Seq(OutFrames)]
  BY <1>2 DEF TypeInv, TypeOK, ConnTypeOK, ReadFrame
<1>5. /\ srv' \in [Conns -> {"none", "reading", "append", "bump", "close", "closing", "gone"}]
      /\ cur' \in [Conns -> OutFrames \cup {NoFrame}]
  BY <1>2 DEF TypeInv, TypeOK, ConnTypeOK, ReadFrame
<1>6. ConnTypeOK'
  BY <1>4, <1>5 DEF TypeInv, TypeOK, ConnTypeOK, ReadFrame
<1>7. InStep'
  BY <1>2 DEF TypeInv, TypeOK, ConnTypeOK, InStep, ReadFrame, requestVars
<1> QED
  BY <1>1, <1>3, <1>6, <1>7 DEF TypeInv, TypeOK, ReadFrame, faultVars

LEMMA AppendReplyTyped ==
    ASSUME TypeInv, NEW c \in Conns, AppendReply(c)
    PROVE  TypeInv'
<1>1. cur[c] \in OutFrames /\ cur[c].type \in Stored
  BY DEF TypeInv, InStep, AppendReply
<1>2. cur[c].thread \in Threads /\ cur[c].type \in MsgTypes
  BY <1>1 DEF OutFrames, Stored, MsgTypes
<1>3. StoreTypeOK'
  BY <1>2, StoreKept, InsertTyped DEF TypeInv, TypeOK, AppendReply
<1>4. RegistryTypeOK' /\ RequestTypeOK' /\ dbErrors' \in 0 .. MaxDBErrors
  BY RegistryKept, RequestKept, BoundsAssumption DEF TypeInv, TypeOK, AppendReply, DBFails
<1>5. ConnTypeOK'
  BY DEF TypeInv, TypeOK, ConnTypeOK, AppendReply, AfterAppend, ToReading
<1>6. InStep'
  BY <1>1 DEF TypeInv, TypeOK, ConnTypeOK, InStep, AppendReply, AfterAppend, ToReading, requestVars
<1> QED
  BY <1>3, <1>4, <1>5, <1>6 DEF TypeInv, TypeOK, AppendReply

LEMMA BumpReplyTyped ==
    ASSUME TypeInv, NEW c \in Conns, BumpReply(c)
    PROVE  TypeInv'
<1>1. cur[c] \in OutFrames /\ cur[c].type \in Stored
  BY DEF TypeInv, InStep, BumpReply
<1>2. cur[c].thread \in Threads
  BY <1>1 DEF OutFrames
<1>3. StoreTypeOK'
  BY <1>2, StoreKept, BumpTyped DEF TypeInv, TypeOK, BumpReply
<1>4. RegistryTypeOK' /\ RequestTypeOK' /\ dbErrors' \in 0 .. MaxDBErrors
  BY RegistryKept, RequestKept, BoundsAssumption DEF TypeInv, TypeOK, BumpReply, DBFails
<1>5. ConnTypeOK'
  BY DEF TypeInv, TypeOK, ConnTypeOK, BumpReply, AfterAppend, ToReading
<1>6. InStep'
  BY <1>1 DEF TypeInv, TypeOK, ConnTypeOK, InStep, BumpReply, AfterAppend, ToReading, requestVars
<1> QED
  BY <1>3, <1>4, <1>5, <1>6 DEF TypeInv, TypeOK, BumpReply

LEMMA CloseRepliedTyped ==
    ASSUME TypeInv, NEW c \in Conns, CloseReplied(c)
    PROVE  TypeInv'
<1>1. cur[c].thread \in Threads
  BY DEF TypeInv, InStep, CloseReplied, OutFrames
<1>2. StoreTypeOK'
  BY <1>1, StoreKept, CloseTyped DEF TypeInv, TypeOK, CloseReplied, CloseReasons
<1>3. RegistryTypeOK' /\ RequestTypeOK' /\ dbErrors' \in 0 .. MaxDBErrors
  BY RegistryKept, RequestKept, BoundsAssumption DEF TypeInv, TypeOK, CloseReplied, DBFails
<1>4. ConnTypeOK'
  BY DEF TypeInv, TypeOK, ConnTypeOK, CloseReplied, ToReading
<1>5. InStep'
  BY DEF TypeInv, TypeOK, ConnTypeOK, InStep, CloseReplied, ToReading, requestVars
<1> QED
  BY <1>2, <1>3, <1>4, <1>5 DEF TypeInv, TypeOK, CloseReplied

LEMMA ReadFailsTyped ==
    ASSUME TypeInv, NEW c \in Conns, ReadFails(c)
    PROVE  TypeInv'
<1>1. StoreTypeOK' /\ RegistryTypeOK' /\ RequestTypeOK'
  BY StoreKept, RegistryKept, RequestKept DEF TypeInv, TypeOK, ReadFails
<1>2. ConnTypeOK'
  BY DEF TypeInv, TypeOK, ConnTypeOK, ReadFails, NoHooks
<1>3. InStep'
  BY DEF TypeInv, TypeOK, ConnTypeOK, InStep, ReadFails, requestVars
<1> QED
  BY <1>1, <1>2, <1>3 DEF TypeInv, TypeOK, ReadFails, faultVars

LEMMA EndConnTyped ==
    ASSUME TypeInv, NEW c \in Conns, EndConn(c)
    PROVE  TypeInv'
<1>1. StoreTypeOK' /\ RequestTypeOK'
  BY StoreKept, RequestKept DEF TypeInv, TypeOK, EndConn
<1>2. RegistryTypeOK'
  BY UnregisterTyped DEF TypeInv, TypeOK, EndConn
<1>3. ConnTypeOK'
  BY DEF TypeInv, TypeOK, ConnTypeOK, EndConn
<1>4. InStep'
  BY DEF TypeInv, TypeOK, ConnTypeOK, InStep, EndConn, requestVars
<1> QED
  BY <1>1, <1>2, <1>3, <1>4 DEF TypeInv, TypeOK, EndConn, faultVars

-----------------------------------------------------------------------------
(* The sweeper, the clock and a crash.                                     *)

LEMMA SweeperTyped ==
    ASSUME TypeInv, Sweeper
    PROVE  TypeInv'
<1>1. RegistryTypeOK' /\ RequestTypeOK' /\ ConnTypeOK' /\ InStep'
  BY RegistryKept, RequestKept, ConnKept, InStepKept
  DEF TypeInv, TypeOK, Sweeper, SweepList, SweepClose, TimePasses, requestVars, connVars
<1>2. StoreTypeOK'
  BY StoreKept, CloseTyped, IdleTyped
  DEF TypeInv, TypeOK, Sweeper, SweepList, SweepClose, TimePasses, CloseReasons
<1>3. sweep' \in SUBSET Threads
  BY DEF TypeInv, TypeOK, Sweeper, SweepList, SweepClose, TimePasses, ListIdleOpen, StoreTypeOK
<1>4. dbErrors' \in 0 .. MaxDBErrors /\ restarts' \in 0 .. MaxRestarts
  BY BoundsAssumption DEF TypeInv, TypeOK, Sweeper, SweepList, SweepClose, TimePasses, DBFails, faultVars
<1> QED
  BY <1>1, <1>2, <1>3, <1>4 DEF TypeInv, TypeOK

LEMMA RestartTyped ==
    ASSUME TypeInv, Restart
    PROVE  TypeInv'
<1>1. StoreTypeOK'
  BY StoreKept DEF TypeInv, TypeOK, Restart
<1>2. RegistryTypeOK'
  BY DEF Restart, RegistryTypeOK, NoEntry, NoWaiter
<1>3. RequestTypeOK'
  BY DEF TypeInv, TypeOK, RequestTypeOK, Restart, Running
<1>4. ConnTypeOK'
  BY DEF TypeInv, TypeOK, ConnTypeOK, Restart, NoHooks
<1>5. InStep'
  BY DEF TypeInv, TypeOK, RequestTypeOK, ConnTypeOK, InStep, Restart, Running
<1> QED
  BY <1>1, <1>2, <1>3, <1>4, <1>5, BoundsAssumption DEF TypeInv, TypeOK, Restart

-----------------------------------------------------------------------------

LEMMA TypeInvInit == Init => TypeInv
<1> SUFFICES ASSUME Init PROVE TypeInv
  OBVIOUS
<1>1. StoreTypeOK
  <2>1. 0 \in 0 .. MaxTurns
    BY MaxTurnsAssumption
  <2> QED
    BY <2>1 DEF Init, StoreInit, ConvInit, StoreTypeOK, ConvTypeOK, Statuses
<1>2. RegistryTypeOK
  BY DEF Init, RegistryInit, RegistryTypeOK, NoEntry, NoWaiter
<1>3. RequestTypeOK
  BY DEF Init, RequestTypeOK, Views
<1>4. ConnTypeOK
  BY DEF Init, ConnTypeOK
<1>5. InStep
  BY DEF Init, InStep, Requests
<1> QED
  BY <1>1, <1>2, <1>3, <1>4, <1>5, BoundsAssumption DEF Init, TypeInv, TypeOK

LEMMA TypeInvStep == TypeInv /\ [Next]_vars => TypeInv'
<1> SUFFICES ASSUME TypeInv, [Next]_vars PROVE TypeInv'
  OBVIOUS
<1>1. CASE Hatchling
  BY <1>1, AskBuddyTyped, StartClarificationTyped, StartCloseTyped, StartPollTyped,
     DisconnectTyped DEF Hatchling
<1>2. ASSUME NEW r \in Requests, Handler(r)
      PROVE  TypeInv'
  <2>1. CASE r \in Threads /\ OpenStep(r)
    BY <2>1, OpenThreadTyped, CountQuestionTyped DEF OpenStep
  <2>2. CASE r \in Clarifications /\ ClarificationStep(r)
    BY <2>2, CountClarificationTyped, ExplainRefusalTyped, CloseCappedTyped
    DEF ClarificationStep
  <2>3. CASE r \in Threads \cup Clarifications \cup Closes /\ SendStep(r)
    BY <2>3, InsertMessageTyped, BumpActivityTyped, FindWriterTyped, PushFrameTyped
    DEF SendStep
  <2>4. CASE r \in Closes /\ CloseStep(r)
    BY <2>4, CloseThreadTyped, FinishCloseTyped DEF CloseStep
  <2>5. CASE r \in Polls /\ PollStep(r)
    BY <2>5, ReadAgainTyped, ListMessagesTyped DEF PollStep
  <2> QED
    BY <1>2, <2>1, <2>2, <2>3, <2>4, <2>5 DEF Handler
<1>3. ASSUME NEW c \in Conns, Connect(c) \/ Cut(c) \/ WriteFrame(c) \/ PingTimeout(c)
                                 \/ ReadFails(c) \/ EndConn(c)
      PROVE  TypeInv'
  BY <1>3, ConnectTyped, CutTyped, WriteFrameTyped, PingTimeoutTyped, ReadFailsTyped,
     EndConnTyped
<1>4. ASSUME NEW c \in Conns, NEW t \in Threads, FinishHook(c, t)
      PROVE  TypeInv'
  BY <1>4, FinishHookTyped
<1>5. ASSUME NEW c \in Conns, ReadLoop(c)
      PROVE  TypeInv'
  BY <1>5, ReadFrameTyped, AppendReplyTyped, BumpReplyTyped, CloseRepliedTyped DEF ReadLoop
<1>6. CASE Sweeper
  BY <1>6, SweeperTyped
<1>7. CASE Restart
  BY <1>7, RestartTyped
<1>8. CASE UNCHANGED vars
  <2>1. StoreTypeOK' /\ RegistryTypeOK' /\ RequestTypeOK' /\ ConnTypeOK' /\ InStep'
    BY <1>8, StoreKept, RegistryKept, RequestKept, ConnKept, InStepKept
    DEF TypeInv, TypeOK, vars, requestVars, connVars
  <2> QED
    BY <1>8, <2>1 DEF TypeInv, TypeOK, vars, faultVars
<1> QED
  BY <1>1, <1>2, <1>3, <1>4, <1>5, <1>6, <1>7, <1>8 DEF Next, Buddy

\* Every reachable state of the relay is typed, and every goroutine holds what
\* its next step needs: a handler that pushes has a writer, a read loop that
\* stores or closes has a frame of the right type in hand.
THEOREM TypeCorrect == Spec => []TypeInv
<1> QED
  BY TypeInvInit, TypeInvStep, PTL DEF Spec

-----------------------------------------------------------------------------
(* Histories.  Every step of the relay is at most one SQL statement.       *)

Statement ==
    \/ UNCHANGED convVars
    \/ \E t \in Threads :
           \/ ThreadsOpen(t)
           \/ ThreadsIncrementTurns(t)
           \/ \E why \in CloseReasons : ThreadsClose(t, why)
           \/ \E m \in MsgTypes : MessagesInsert(t, m)

LEMMA HandlerStatement ==
    ASSUME TypeInv, NEW r \in Requests, Handler(r)
    PROVE  Statement
<1> USE DEF Statement, convVars, storeVars
<1>1. CASE r \in Threads /\ OpenStep(r)
  BY <1>1 DEF OpenStep, OpenThread, CountQuestion
<1>2. CASE r \in Clarifications /\ ClarificationStep(r)
  <2>1. pc[r] \in {"incr", "cap"} => thread[r] \in Threads
    BY DEF TypeInv, InStep
  <2> QED
    BY <1>2, <2>1 DEF ClarificationStep, CountClarification, ExplainRefusal, CloseCapped,
                      CloseReasons
<1>3. CASE SendStep(r)
  <2>1. CASE InsertMessage(r)
    <3>1. thread[r] \in Threads /\ Kind(r) \in MsgTypes
      BY <2>1 DEF TypeInv, InStep, InsertMessage, Kind, MsgTypes
    <3> QED
      BY <2>1, <3>1 DEF InsertMessage
  <2>2. CASE BumpActivity(r) \/ FindWriter(r) \/ PushFrame(r)
    BY <2>2 DEF BumpActivity, FindWriter, PushFrame, MessagesBumpActivity
  <2> QED
    BY <1>3, <2>1, <2>2 DEF SendStep
<1>4. CASE CloseStep(r)
  <2>1. pc[r] = "close" => thread[r] \in Threads
    BY DEF TypeInv, InStep
  <2> QED
    BY <1>4, <2>1 DEF CloseStep, CloseThread, FinishClose, CloseReasons
<1>5. CASE PollStep(r)
  BY <1>5 DEF PollStep, ReadAgain, ListMessages
<1> QED
  BY <1>1, <1>2, <1>3, <1>4, <1>5 DEF Handler

LEMMA ReadLoopStatement ==
    ASSUME TypeInv, NEW c \in Conns, ReadLoop(c)
    PROVE  Statement
<1> USE DEF Statement, convVars, storeVars
<1>1. CASE ReadFrame(c)
  BY <1>1 DEF ReadFrame
<1>2. CASE AppendReply(c)
  <2>1. cur[c].thread \in Threads /\ cur[c].type \in MsgTypes
    BY <1>2 DEF TypeInv, InStep, AppendReply, OutFrames, Stored, MsgTypes
  <2> QED
    BY <1>2, <2>1 DEF AppendReply
<1>3. CASE BumpReply(c)
  BY <1>3 DEF BumpReply, MessagesBumpActivity
<1>4. CASE CloseReplied(c)
  <2>1. cur[c].thread \in Threads
    BY <1>4 DEF TypeInv, InStep, CloseReplied, OutFrames
  <2> QED
    BY <1>4, <2>1 DEF CloseReplied, CloseReasons
<1> QED
  BY <1>1, <1>2, <1>3, <1>4 DEF ReadLoop

LEMMA StepIsStatement ==
    ASSUME TypeInv, [Next]_vars
    PROVE  Statement
<1>1. CASE Hatchling
  BY <1>1 DEF Hatchling, AskBuddy, StartClarification, StartClose, StartPoll, Disconnect,
              Statement, convVars, storeVars
<1>2. CASE \E r \in Requests : Handler(r)
  BY <1>2, HandlerStatement
<1>3. CASE Buddy
  <2>1. CASE \E c \in Conns : ReadLoop(c)
    BY <2>1, ReadLoopStatement
  <2>2. CASE ~ \E c \in Conns : ReadLoop(c)
    BY <1>3, <2>2 DEF Buddy, Connect, Cut, WriteFrame, PingTimeout, FinishHook, ReadFails, EndConn,
                      Statement, convVars, storeVars
  <2> QED
    BY <2>1, <2>2
<1>4. CASE Sweeper
  BY <1>4 DEF Sweeper, SweepList, SweepClose, TimePasses, GoesIdle, CloseReasons,
              Statement, convVars, storeVars
<1>5. CASE Restart \/ UNCHANGED vars
  BY <1>5 DEF Restart, vars, Statement, convVars, storeVars
<1> QED
  BY <1>1, <1>2, <1>3, <1>4, <1>5 DEF Next

LEMMA StatementKeepsHistory ==
    ASSUME StoreTypeOK, Statement, NEW t \in Threads
    PROVE  HistoryIsKept(t)
<1> USE DEF StoreTypeOK, ConvTypeOK, HistoryIsKept
<1>1. turns[t] \in Int
  BY MaxTurnsAssumption
<1>2. CASE UNCHANGED convVars
  BY <1>2 DEF convVars
<1>3. ASSUME NEW u \in Threads, ThreadsOpen(u) PROVE HistoryIsKept(t)
  BY <1>3 DEF ThreadsOpen
<1>4. ASSUME NEW u \in Threads, ThreadsIncrementTurns(u) PROVE HistoryIsKept(t)
  BY <1>1, <1>4 DEF ThreadsIncrementTurns, CanTakeTurn
<1>5. ASSUME NEW u \in Threads, NEW why \in CloseReasons, ThreadsClose(u, why)
      PROVE  HistoryIsKept(t)
  BY <1>5 DEF ThreadsClose, storeVars
<1>6. ASSUME NEW u \in Threads, NEW m \in MsgTypes, MessagesInsert(u, m)
      PROVE  HistoryIsKept(t)
  <2>1. log'[t] = log[t] \/ log'[t] = Append(log[t], m)
    BY <1>6 DEF MessagesInsert
  <2> QED
    BY <1>6, <2>1 DEF MessagesInsert
<1> QED
  BY <1>2, <1>3, <1>4, <1>5, <1>6 DEF Statement

\* Whatever the handlers, the read loops, the sweeper, lost connections,
\* failing statements and crashes do, no step rewrites the messages of a
\* thread, lowers or skips its turns, or changes the outcome of a closed one.
THEOREM HistoriesKept == Spec => HistoriesAreKept
<1>1. TypeInv /\ [Next]_vars => [\A t \in Threads : HistoryIsKept(t)]_vars
  <2> SUFFICES ASSUME TypeInv, [Next]_vars, NEW t \in Threads PROVE HistoryIsKept(t)
    OBVIOUS
  <2> QED
    BY StepIsStatement, StatementKeepsHistory DEF TypeInv, TypeOK
<1> QED
  BY <1>1, TypeCorrect, PTL DEF Spec, HistoriesAreKept

-----------------------------------------------------------------------------
(* The registry and the connections it names.                              *)

\* A connection holds a generation exactly until its handler returns.
EntryInv ==
    /\ RegistryInv
    /\ \A c \in Conns : Serving(c) <=> cancelGen[c] > 0

LEMMA EntryInvKept ==
    ASSUME EntryInv, TypeInv', UNCHANGED <<buddies, gen, cancelGen>>,
           \A c \in Conns : Serving(c)' <=> Serving(c)
    PROVE  EntryInv'
BY RegistryInvKept DEF EntryInv, TypeInv, TypeOK

LEMMA EntryInvStep ==
    ASSUME TypeInv, TypeInv', EntryInv, [Next]_vars
    PROVE  EntryInv'
<1> USE DEF registryVars, connVars, OthersKept
<1>1. CASE Hatchling
  BY <1>1, EntryInvKept DEF Hatchling, AskBuddy, StartClarification, StartClose, StartPoll,
                            Disconnect, Serving
<1>2. ASSUME NEW r \in Requests, Handler(r)
      PROVE  EntryInv'
  <2>1. UNCHANGED <<buddies, gen, cancelGen, srv>>
    BY <1>2 DEF Handler, OpenStep, OpenThread, CountQuestion, ClarificationStep,
                CountClarification, ExplainRefusal, CloseCapped, SendStep, InsertMessage,
                BumpActivity, FindWriter, EnsureWaiter, PushFrame, CloseStep, CloseThread,
                FinishClose, ClearWaiter, PollStep, ReadAgain, ListMessages
  <2> QED
    BY <2>1, EntryInvKept DEF Serving
<1>3. ASSUME NEW c \in Conns, Connect(c)
      PROVE  EntryInv'
  <2>1. cancelGen[c] = 0 /\ RegisterBuddy(c)
    BY <1>3 DEF Connect, EntryInv, Serving, TypeInv, TypeOK, RegistryTypeOK
  <2>2. RegistryInv'
    BY <2>1, RegisterKeepsInv DEF EntryInv
  <2>3. gen + 1 > 0
    BY DEF TypeInv, TypeOK, RegistryTypeOK
  <2>4. \A d \in Conns : Serving(d)' <=> cancelGen'[d] > 0
    BY <1>3, <2>1, <2>3
    DEF Connect, RegisterBuddy, EntryInv, Serving, TypeInv, TypeOK, RegistryTypeOK, ConnTypeOK
  <2> QED
    BY <2>2, <2>4 DEF EntryInv
<1>4. ASSUME NEW c \in Conns, EndConn(c)
      PROVE  EntryInv'
  <2>1. RegistryInv'
    BY <1>4, UnregisterKeepsInv DEF EndConn, EntryInv
  <2>2. \A d \in Conns : Serving(d)' <=> cancelGen'[d] > 0
    BY <1>4 DEF EndConn, Unregister, EntryInv, Serving, TypeInv, TypeOK, RegistryTypeOK,
                ConnTypeOK
  <2> QED
    BY <2>1, <2>2 DEF EntryInv
<1>5. ASSUME NEW c \in Conns, ReadLoop(c)
      PROVE  EntryInv'
  <2>1. UNCHANGED <<buddies, gen, cancelGen>>
    BY <1>5 DEF ReadLoop, ReadFrame, DeliverOutFrame, AppendReply, BumpReply, CloseReplied
  <2>2. \A d \in Conns : Serving(d)' <=> Serving(d)
    BY <1>5 DEF ReadLoop, ReadFrame, AppendReply, BumpReply, CloseReplied, AfterAppend,
                ToReading, Serving, TypeInv, TypeOK, ConnTypeOK
  <2> QED
    BY <2>1, <2>2, EntryInvKept
<1>6. ASSUME NEW c \in Conns,
             \/ Cut(c) \/ WriteFrame(c) \/ PingTimeout(c) \/ ReadFails(c)
             \/ \E t \in Threads : FinishHook(c, t)
      PROVE  EntryInv'
  <2>1. \A d \in Conns : Serving(d)' <=> Serving(d)
    BY <1>6 DEF Cut, WriteFrame, PingTimeout, ReadFails, FinishHook, Serving, TypeInv, TypeOK,
                ConnTypeOK
  <2> QED
    BY <1>6, <2>1, EntryInvKept DEF Cut, WriteFrame, PingTimeout, ReadFails, FinishHook
<1>7. CASE Sweeper
  BY <1>7, EntryInvKept DEF Sweeper, SweepList, SweepClose, TimePasses, Serving
<1>8. CASE Restart
  <2>1. \A b \in Buddies : ~ Online(b)'
    BY <1>8 DEF Restart, Online, NoEntry
  <2>2. gen' = 0 /\ \A c \in Conns : cancelGen'[c] = 0
    BY <1>8 DEF Restart
  <2>3. RegistryInv'
    BY <2>1, <2>2 DEF RegistryInv, GenerationsDiffer, EntriesAreLive, EntryIsNewest,
                      TypeInv, TypeOK
  <2>4. \A c \in Conns : ~ Serving(c)'
    BY <1>8 DEF Restart, Serving
  <2> QED
    BY <2>2, <2>3, <2>4 DEF EntryInv
<1>9. CASE UNCHANGED vars
  BY <1>9, EntryInvKept DEF vars, Serving
<1> QED
  BY <1>1, <1>2, <1>3, <1>4, <1>5, <1>6, <1>7, <1>8, <1>9 DEF Next, Buddy

LEMMA EntryInvInit == Init => EntryInv
<1>1. Init => RegistryInv
  BY RegistryInvInit DEF Init
<1> QED
  BY <1>1 DEF Init, RegistryInit, EntryInv, Serving

\* A question is routed to the newest connection of its buddy that has not
\* unregistered, one whose handler has not returned, however registrations,
\* losses and crashes interleave.  That handler may be on its way out.
THEOREM EntryServed == Spec => []EntryIsServed
<1>1. EntryInv /\ TypeInv => EntryIsServed
  BY DEF EntryInv, EntryIsServed, RegistryInv, EntriesAreLive, EntryIsNewest, Online,
         TypeInv, TypeOK, RegistryTypeOK
<1>2. TypeInv /\ TypeInv' /\ EntryInv /\ [Next]_vars => EntryInv'
  BY EntryInvStep
<1> QED
  BY <1>1, <1>2, EntryInvInit, TypeCorrect, PTL DEF Spec

-----------------------------------------------------------------------------
(* Answers.  Without database errors "answered" is never said, in a row or *)
(* in the copy of one that a poll holds, before the answer is logged; logs *)
(* only grow, so the list that the poll reads later has it too.            *)

HasAnswer(s) == \E i \in 1 .. Len(s) : s[i] = "answer"

RowsShowAnswer == \A t \in Threads : reason[t] = "answered" => HasAnswer(log[t])

ReadLoopsLogFirst ==
    \A c \in Conns :
        srv[c] \in {"bump", "close"} /\ cur[c].type = "answer" => HasAnswer(log[cur[c].thread])

PollsReadRowFirst ==
    \A r \in Polls :
        /\ pc[r] \in {"wait", "list"} /\ view[r].reason = "answered" => HasAnswer(log[thread[r]])
        /\ pc[r] = "200" /\ view[r].reason = "answered" => HasAnswer(view[r].log)

AnswerParts == RowsShowAnswer /\ ReadLoopsLogFirst /\ PollsReadRowFirst

AnswerInv == dbErrors = 0 => AnswerParts

\* Logs only grow, and so does the count of errors.
LEMMA AnswersStay ==
    ASSUME TypeInv, [Next]_vars
    PROVE  /\ \A t \in Threads : HasAnswer(log[t]) => HasAnswer(log'[t])
           /\ dbErrors' = 0 => dbErrors = 0
<1>1. ASSUME NEW t \in Threads, HasAnswer(log[t])
      PROVE  HasAnswer(log'[t])
  <2>1. HistoryIsKept(t) /\ log[t] \in Seq(MsgTypes)
    BY StepIsStatement, StatementKeepsHistory DEF TypeInv, TypeOK, StoreTypeOK, ConvTypeOK
  <2>2. ASSUME NEW m \in MsgTypes, log'[t] = Append(log[t], m)
        PROVE  HasAnswer(log'[t])
    <3>1. PICK i \in 1 .. Len(log[t]) : log[t][i] = "answer"
      BY <1>1 DEF HasAnswer
    <3>2. i \in 1 .. Len(log'[t]) /\ log'[t][i] = "answer"
      BY <2>1, <2>2, <3>1
    <3> QED
      BY <3>2 DEF HasAnswer
  <2> QED
    BY <1>1, <2>1, <2>2 DEF HistoryIsKept
<1>2. dbErrors \in Nat /\ (dbErrors' = dbErrors \/ dbErrors' = dbErrors + 1)
  <2>1. dbErrors \in Nat
    BY BoundsAssumption DEF TypeInv, TypeOK
  <2> USE DEF OthersKept, faultVars, Runs, Fails, DBFails
  <2>2. CASE Hatchling
    BY <2>1, <2>2 DEF Hatchling, AskBuddy, StartClarification, StartClose, StartPoll, Disconnect
  <2>3. CASE \E r \in Requests : Handler(r)
    BY <2>1, <2>3 DEF Handler, OpenStep, OpenThread, CountQuestion, ClarificationStep,
                CountClarification, ExplainRefusal, CloseCapped, SendStep, InsertMessage,
                BumpActivity, FindWriter, PushFrame, CloseStep, CloseThread, FinishClose,
                PollStep, ReadAgain, ListMessages
  <2>4. CASE Buddy
    BY <2>1, <2>4 DEF Buddy, Connect, Cut, WriteFrame, PingTimeout, FinishHook, ReadFails, EndConn,
                ReadLoop, ReadFrame, AppendReply, BumpReply, CloseReplied
  <2>5. CASE Sweeper
    BY <2>1, <2>5 DEF Sweeper, SweepList, SweepClose, TimePasses
  <2>6. CASE Restart \/ UNCHANGED vars
    BY <2>1, <2>6 DEF Restart, vars
  <2> QED
    BY <2>1, <2>2, <2>3, <2>4, <2>5, <2>6 DEF Next
<1> QED
  BY <1>1, <1>2

\* The three parts, for steps that change little of what they speak about.
LEMMA RowsKept ==
    ASSUME TypeInv, [Next]_vars, RowsShowAnswer,
           \A t \in Threads : reason'[t] = "answered" => reason[t] = "answered"
    PROVE  RowsShowAnswer'
BY AnswersStay DEF RowsShowAnswer

LEMMA ReadLoopsKept ==
    ASSUME TypeInv, [Next]_vars, ReadLoopsLogFirst,
           \A c \in Conns : srv'[c] \in {"bump", "close"} =>
               srv[c] \in {"bump", "close"} /\ cur'[c] = cur[c]
    PROVE  ReadLoopsLogFirst'
<1>1. \A c \in Conns : srv[c] \in {"bump", "close"} => cur[c].thread \in Threads
  BY DEF TypeInv, InStep, OutFrames
<1> QED
  BY <1>1, AnswersStay DEF ReadLoopsLogFirst

LEMMA PollKept ==
    ASSUME TypeInv, [Next]_vars, PollsReadRowFirst,
           NEW r \in Polls,
           pc'[r] = pc[r] \/ pc'[r] = "unseen", thread'[r] = thread[r], view'[r] = view[r]
    PROVE  /\ pc'[r] \in {"wait", "list"} /\ view'[r].reason = "answered" =>
                  HasAnswer(log'[thread'[r]])
           /\ pc'[r] = "200" /\ view'[r].reason = "answered" => HasAnswer(view'[r].log)
<1>1. pc[r] \in {"wait", "list"} => thread[r] \in Threads
  BY DEF TypeInv, InStep, Requests
<1> QED
  BY <1>1, AnswersStay DEF PollsReadRowFirst

LEMMA PollsKept ==
    ASSUME TypeInv, [Next]_vars, PollsReadRowFirst,
           \A r \in Polls : /\ pc'[r] = pc[r] \/ pc'[r] = "unseen"
                            /\ thread'[r] = thread[r] /\ view'[r] = view[r]
    PROVE  PollsReadRowFirst'
BY PollKept DEF PollsReadRowFirst

\* A step about one poll r, which ends in a state where its copy is right.
LEMMA PollMoves ==
    ASSUME TypeInv, [Next]_vars, AnswerParts, NEW r \in Polls,
           UNCHANGED <<reason, srv, cur>>,
           \A q \in Polls \ {r} :
               pc'[q] = pc[q] /\ thread'[q] = thread[q] /\ view'[q] = view[q],
           /\ pc'[r] \in {"wait", "list"} /\ view'[r].reason = "answered" =>
                  HasAnswer(log'[thread'[r]])
           /\ pc'[r] = "200" /\ view'[r].reason = "answered" => HasAnswer(view'[r].log)
    PROVE  AnswerParts'
<1>1. RowsShowAnswer' /\ ReadLoopsLogFirst'
  BY RowsKept, ReadLoopsKept DEF AnswerParts
<1>2. \A q \in Polls \ {r} :
          /\ pc'[q] \in {"wait", "list"} /\ view'[q].reason = "answered" =>
                 HasAnswer(log'[thread'[q]])
          /\ pc'[q] = "200" /\ view'[q].reason = "answered" => HasAnswer(view'[q].log)
  BY PollKept DEF AnswerParts
<1> QED
  BY <1>1, <1>2 DEF AnswerParts, PollsReadRowFirst

LEMMA StartPollShows ==
    ASSUME TypeInv, [Next]_vars, AnswerParts, NEW r \in Polls, NEW t \in Threads, StartPoll(r, t)
    PROVE  AnswerParts'
<1>1. r \in Requests /\ thread'[r] = t /\ view'[r].reason = reason[t] /\ log' = log
  BY DEF StartPoll, ReadRow, Requests, TypeInv, TypeOK, RequestTypeOK, storeVars
<1>2. pc'[r] \in {"wait", "list"}
  BY <1>1 DEF StartPoll, Goto, TypeInv, TypeOK, RequestTypeOK
<1>3. reason[t] = "answered" => HasAnswer(log[t])
  BY DEF AnswerParts, RowsShowAnswer
<1>4. \A q \in Polls \ {r} : pc'[q] = pc[q] /\ thread'[q] = thread[q] /\ view'[q] = view[q]
  BY DEF StartPoll, ReadRow, Goto, Requests, TypeInv, TypeOK, RequestTypeOK
<1>5. UNCHANGED <<reason, srv, cur>>
  BY DEF StartPoll, storeVars, connVars
<1> QED
  BY <1>1, <1>2, <1>3, <1>4, <1>5, PollMoves

LEMMA ReadAgainShows ==
    ASSUME TypeInv, [Next]_vars, AnswerParts, NEW r \in Polls, ReadAgain(r)
    PROVE  AnswerParts'
<1> DEFINE t == thread[r]
<1>1. r \in Requests /\ t \in Threads /\ thread' = thread /\ log' = log
  BY DEF ReadAgain, Requests, TypeInv, InStep, storeVars
<1>2. view'[r].reason \in {reason[t], "none"}
  BY DEF ReadAgain, ReadRow, TypeInv, TypeOK, RequestTypeOK
<1>3. pc'[r] = "list"
  BY <1>1 DEF ReadAgain, Goto, TypeInv, TypeOK, RequestTypeOK
<1>4. \A q \in Polls \ {r} : pc'[q] = pc[q] /\ view'[q] = view[q]
  BY DEF ReadAgain, ReadRow, Goto, Requests, TypeInv, TypeOK, RequestTypeOK
<1>5. UNCHANGED <<reason, srv, cur>>
  BY DEF ReadAgain, storeVars, connVars
<1>6. reason[t] = "answered" => HasAnswer(log[t])
  BY <1>1 DEF AnswerParts, RowsShowAnswer
<1> QED
  BY <1>1, <1>2, <1>3, <1>4, <1>5, <1>6, PollMoves

LEMMA ListMessagesShows ==
    ASSUME TypeInv, [Next]_vars, AnswerParts, NEW r \in Polls, ListMessages(r)
    PROVE  AnswerParts'
<1>1. r \in Requests /\ thread[r] \in Threads /\ thread' = thread /\ log' = log
  BY DEF ListMessages, Requests, TypeInv, InStep, storeVars
<1>2. pc'[r] \in {"200", "500", "unseen"}
  BY <1>1 DEF ListMessages, Finish, TypeInv, TypeOK, RequestTypeOK
<1>3. pc'[r] = "200" => view'[r].reason = view[r].reason /\ view'[r].log = log[thread[r]]
  <2>1. CASE Fails(r) /\ Finish(r, "500")
    BY <1>1, <2>1 DEF Finish, TypeInv, TypeOK, RequestTypeOK
  <2>2. CASE view' = [view EXCEPT ![r].log = log[thread[r]]]
    BY <2>2 DEF TypeInv, TypeOK, RequestTypeOK, Views
  <2> QED
    BY <2>1, <2>2 DEF ListMessages
<1>4. view[r].reason = "answered" => HasAnswer(log[thread[r]])
  BY DEF ListMessages, AnswerParts, PollsReadRowFirst
<1>5. \A q \in Polls \ {r} : pc'[q] = pc[q] /\ view'[q] = view[q]
  BY DEF ListMessages, Finish, Requests, TypeInv, TypeOK, RequestTypeOK
<1>6. UNCHANGED <<reason, srv, cur>>
  BY DEF ListMessages, storeVars, connVars
<1> QED
  BY <1>1, <1>2, <1>3, <1>4, <1>5, <1>6, PollMoves

\* The other handlers: no poll moves, and none says "answered".
LEMMA OtherHandlersShow ==
    ASSUME TypeInv, [Next]_vars, AnswerParts,
           NEW r \in Threads \cup Clarifications \cup Closes,
           \/ r \in Threads /\ (AskBuddy(r) \/ OpenStep(r))
           \/ r \in Clarifications /\ ClarificationStep(r)
           \/ SendStep(r)
           \/ r \in Closes /\ CloseStep(r)
           \/ \E t \in Threads : StartClarification(r, t) \/ StartClose(r, t)
    PROVE  AnswerParts'
<1> DEFINE Moves == /\ pc' \in {[pc EXCEPT ![r] = pc'[r]], pc}
                    /\ thread' \in {[thread EXCEPT ![r] = thread'[r]], thread}
                    /\ UNCHANGED <<view, srv, cur>>
                    /\ \A t \in Threads : reason'[t] = "answered" => reason[t] = "answered"
<1>1. Moves
  <2> USE DEF OthersKept, connVars, storeVars, requestVars, Goto, Finish,
              TypeInv, TypeOK, RequestTypeOK, StoreTypeOK, ConvTypeOK, Requests
  <2>1. CASE AskBuddy(r)
    BY <2>1 DEF AskBuddy
  <2>2. CASE OpenStep(r)
    BY <2>2 DEF OpenStep, OpenThread, CountQuestion, ThreadsOpen, ThreadsIncrementTurns
  <2>3. CASE ClarificationStep(r)
    BY <2>3 DEF ClarificationStep, CountClarification, ExplainRefusal, CloseCapped,
                ThreadsClose, ThreadsIncrementTurns
  <2>4. CASE SendStep(r)
    BY <2>4 DEF SendStep, InsertMessage, BumpActivity, FindWriter, PushFrame,
                MessagesInsert, MessagesBumpActivity
  <2>5. CASE CloseStep(r)
    BY <2>5 DEF CloseStep, CloseThread, FinishClose, ThreadsClose
  <2>6. CASE \E t \in Threads : StartClarification(r, t) \/ StartClose(r, t)
    BY <2>6 DEF StartClarification, StartClose
  <2> QED
    BY <2>1, <2>2, <2>3, <2>4, <2>5, <2>6
<1>2. \A q \in Polls : q # r /\ q \in Requests
  BY RequestsAssumption DEF Requests
<1>3. \A q \in Polls : pc'[q] = pc[q] /\ thread'[q] = thread[q] /\ view'[q] = view[q]
  BY <1>1, <1>2 DEF TypeInv, TypeOK, RequestTypeOK
<1>4. RowsShowAnswer' /\ ReadLoopsLogFirst' /\ PollsReadRowFirst'
  BY <1>1, <1>3, RowsKept, ReadLoopsKept, PollsKept DEF AnswerParts
<1> QED
  BY <1>4 DEF AnswerParts

\* The read loop appends an answer before it goes on to close the thread: an
\* append that fails is a database error.
LEMMA ReadLoopShows ==
    ASSUME TypeInv, [Next]_vars, AnswerParts, dbErrors' = 0, NEW c \in Conns, ReadLoop(c)
    PROVE  AnswerParts'
<1> DEFINE t == cur[c].thread
<1>0. dbErrors = 0 /\ dbErrors' # dbErrors + 1
  BY AnswersStay
<1>1. PollsReadRowFirst'
  BY PollsKept DEF AnswerParts, ReadLoop, ReadFrame, AppendReply, BumpReply, CloseReplied,
                   requestVars
<1>2. CASE ReadFrame(c)
  <2>1. RowsShowAnswer'
    BY <1>2, RowsKept DEF ReadFrame, AnswerParts, storeVars
  <2>2. ReadLoopsLogFirst'
    BY <1>2, ReadLoopsKept DEF ReadFrame, AnswerParts, TypeInv, TypeOK, ConnTypeOK
  <2> QED
    BY <1>1, <2>1, <2>2 DEF AnswerParts
<1>3. CASE AppendReply(c)
  <2>1. /\ MessagesInsert(t, cur[c].type)
        /\ srv' = [srv EXCEPT ![c] = "bump"] /\ cur' = cur
    BY <1>0, <1>3 DEF AppendReply, DBFails
  <2>2. RowsShowAnswer'
    BY <2>1, RowsKept DEF MessagesInsert, AnswerParts
  <2>3. t \in Threads /\ log[t] \in Seq(MsgTypes)
    BY <1>3 DEF AppendReply, TypeInv, TypeOK, InStep, OutFrames, StoreTypeOK, ConvTypeOK
  <2>4. cur[c].type = "answer" => HasAnswer(log'[t])
    <3>1. SUFFICES ASSUME cur[c].type = "answer" PROVE HasAnswer(log'[t])
      OBVIOUS
    <3>2. log'[t] = Append(log[t], "answer")
      BY <2>1, <2>3, <3>1 DEF MessagesInsert, TypeInv, TypeOK, StoreTypeOK, ConvTypeOK
    <3>3. "answer" \in MsgTypes
      BY DEF MsgTypes
    <3>4. Len(log[t]) + 1 \in 1 .. Len(log'[t]) /\ log'[t][Len(log[t]) + 1] = "answer"
      BY <2>3, <3>2, <3>3
    <3> QED
      BY <3>4 DEF HasAnswer
  <2>5. \A d \in Conns \ {c} : srv'[d] = srv[d] /\ cur'[d] = cur[d]
    BY <2>1 DEF TypeInv, TypeOK, ConnTypeOK
  <2>6. \A d \in Conns : srv[d] \in {"bump", "close"} => cur[d].thread \in Threads
    BY DEF TypeInv, InStep, OutFrames
  <2>7. ReadLoopsLogFirst'
    BY <2>1, <2>4, <2>5, <2>6, AnswersStay DEF AnswerParts, ReadLoopsLogFirst
  <2> QED
    BY <1>1, <2>2, <2>7 DEF AnswerParts
<1>4. CASE BumpReply(c)
  <2>1. RowsShowAnswer'
    BY <1>4, RowsKept DEF BumpReply, MessagesBumpActivity, AnswerParts, storeVars
  <2>2. ReadLoopsLogFirst'
    BY <1>4, ReadLoopsKept DEF BumpReply, AfterAppend, ToReading, AnswerParts, TypeInv,
                               TypeOK, ConnTypeOK
  <2> QED
    BY <1>1, <2>1, <2>2 DEF AnswerParts
<1>5. CASE CloseReplied(c)
  <2>1. t \in Threads /\ cur[c].type \in Closing
    BY <1>5 DEF CloseReplied, TypeInv, InStep, OutFrames
  <2>2. \A u \in Threads :
            reason'[u] = "answered" =>
                reason[u] = "answered" \/ (u = t /\ cur[c].type = "answer")
    <3> DEFINE why == IF cur[c].type = "answer" THEN "answered" ELSE "buddy_closed"
    <3>1. reason' = reason \/ reason' = [reason EXCEPT ![t] = why]
      BY <1>5 DEF CloseReplied, ThreadsClose, storeVars
    <3>2. why = "answered" => cur[c].type = "answer"
      OBVIOUS
    <3> HIDE DEF why, t
    <3> QED
      BY <3>1, <3>2 DEF TypeInv, TypeOK, StoreTypeOK, ConvTypeOK
  <2>3. cur[c].type = "answer" => HasAnswer(log[t])
    BY <1>5 DEF CloseReplied, AnswerParts, ReadLoopsLogFirst
  <2>4. RowsShowAnswer'
    BY <2>2, <2>3, AnswersStay DEF AnswerParts, RowsShowAnswer
  <2>5. ReadLoopsLogFirst'
    BY <1>5, ReadLoopsKept DEF CloseReplied, ToReading, AnswerParts, TypeInv, TypeOK,
                               ConnTypeOK
  <2> QED
    BY <1>1, <2>4, <2>5 DEF AnswerParts
<1> QED
  BY <1>2, <1>3, <1>4, <1>5 DEF ReadLoop

\* Connections that come and go, the daemon, the sweeper and a crash.
LEMMA OthersShow ==
    ASSUME TypeInv, [Next]_vars, AnswerParts,
           \/ \E r \in Requests : Disconnect(r)
           \/ \E c \in Conns :
                  \/ Connect(c) \/ Cut(c) \/ WriteFrame(c) \/ PingTimeout(c)
                  \/ ReadFails(c) \/ EndConn(c)
                  \/ \E t \in Threads : FinishHook(c, t)
           \/ Sweeper
           \/ Restart
           \/ UNCHANGED vars
    PROVE  AnswerParts'
<1> USE DEF OthersKept, connVars, storeVars, requestVars, vars
<1>1. /\ \A t \in Threads : reason'[t] = "answered" => reason[t] = "answered"
      /\ \A c \in Conns : srv'[c] \in {"bump", "close"} =>
             srv[c] \in {"bump", "close"} /\ cur'[c] = cur[c]
      /\ \A r \in Polls : /\ pc'[r] = pc[r] \/ pc'[r] = "unseen"
                          /\ thread'[r] = thread[r] /\ view'[r] = view[r]
  <2>1. CASE \E r \in Requests : Disconnect(r)
    BY <2>1 DEF Disconnect
  <2>2. CASE \E c \in Conns : Connect(c) \/ ReadFails(c) \/ EndConn(c)
    BY <2>2 DEF Connect, ReadFails, EndConn, TypeInv, TypeOK, ConnTypeOK
  <2>3. CASE \E c \in Conns : \/ Cut(c) \/ WriteFrame(c) \/ PingTimeout(c)
                              \/ \E t \in Threads : FinishHook(c, t)
    BY <2>3 DEF Cut, WriteFrame, PingTimeout, FinishHook
  <2>4. CASE Sweeper
    BY <2>4 DEF Sweeper, SweepList, SweepClose, TimePasses, GoesIdle, ThreadsClose,
                TypeInv, TypeOK, StoreTypeOK, ConvTypeOK
  <2>5. CASE Restart
    BY <2>5 DEF Restart, Requests
  <2>6. CASE UNCHANGED vars
    BY <2>6
  <2> QED
    BY <2>1, <2>2, <2>3, <2>4, <2>5, <2>6
<1>2. RowsShowAnswer' /\ ReadLoopsLogFirst' /\ PollsReadRowFirst'
  BY <1>1, RowsKept, ReadLoopsKept, PollsKept DEF AnswerParts
<1> QED
  BY <1>2 DEF AnswerParts

LEMMA AnswerInvStep ==
    ASSUME TypeInv, AnswerInv, [Next]_vars
    PROVE  AnswerInv'
<1> SUFFICES ASSUME dbErrors' = 0 PROVE AnswerParts'
  BY DEF AnswerInv
<1>0. AnswerParts
  BY AnswersStay DEF AnswerInv
<1>1. CASE Hatchling
  BY <1>0, <1>1, OtherHandlersShow, StartPollShows, OthersShow DEF Hatchling
<1>2. ASSUME NEW r \in Requests, Handler(r)
      PROVE  AnswerParts'
  <2>1. CASE r \in Polls /\ PollStep(r)
    BY <1>0, <2>1, ReadAgainShows, ListMessagesShows DEF PollStep
  <2>2. CASE ~ (r \in Polls /\ PollStep(r))
    BY <1>0, <1>2, <2>2, OtherHandlersShow DEF Handler
  <2> QED
    BY <2>1, <2>2
<1>3. CASE Buddy
  BY <1>0, <1>3, ReadLoopShows, OthersShow DEF Buddy
<1>4. CASE Sweeper \/ Restart \/ UNCHANGED vars
  BY <1>0, <1>4, OthersShow
<1> QED
  BY <1>1, <1>2, <1>3, <1>4 DEF Next

LEMMA AnswerInvInit == Init => AnswerInv
BY DEF Init, StoreInit, ConvInit, AnswerInv, AnswerParts, RowsShowAnswer, ReadLoopsLogFirst,
       PollsReadRowFirst, Requests

\* As long as no statement has failed by itself, a hatchling that polls and
\* reads a thread closed as answered finds the answer in the same response,
\* although the row and the messages are read by
\* two statements and written by three, with anything in between.
THEOREM AnswerIsShown == Spec => []AnsweredPollShowsAnswer
<1>1. AnswerInv => AnsweredPollShowsAnswer
  BY DEF AnswerInv, AnswerParts, PollsReadRowFirst, HasAnswer, AnsweredPollShowsAnswer
<1>2. TypeInv /\ AnswerInv /\ [Next]_vars => AnswerInv'
  BY AnswerInvStep
<1> QED
  BY <1>1, <1>2, AnswerInvInit, TypeCorrect, PTL DEF Spec

-----------------------------------------------------------------------------
(* Closes.  A close that was not disconnected has closed its thread by the *)
(* time it looks for the buddy, and a closed thread stays closed.          *)

\* A thread whose opener is past the INSERT, or that a close is about, exists.
ThreadsExist ==
    /\ \A t \in Threads :
           pc[t] \in {"append", "bump", "incr", "lookup", "push", "201"} => status[t] # "none"
    /\ \A r \in Closes : pc[r] = "close" => status[thread[r]] # "none"

ClosesFirst(r) ==
    /\ pc[r] \in {"lookup", "push", "clear"} /\ r \notin gone => status[thread[r]] = "closed"
    /\ pc[r] = "204" => status[thread[r]] = "closed"

CloseInv ==
    /\ ThreadsExist
    /\ dbErrors = 0 => \A r \in Closes : ClosesFirst(r)

LEMMA StatusOnlyAdvances ==
    ASSUME TypeInv, [Next]_vars, NEW t \in Threads
    PROVE  /\ status[t] # "none" => status'[t] # "none"
           /\ status[t] = "closed" => status'[t] = "closed"
BY StepIsStatement
DEF Statement, ThreadsOpen, ThreadsIncrementTurns, ThreadsClose, MessagesInsert, convVars,
    storeVars, TypeInv, TypeOK, StoreTypeOK, ConvTypeOK

\* The kinds of requests are disjoint.
LEMMA CloseIsNoOther ==
    ASSUME NEW r \in Closes
    PROVE  r \in Requests /\ r \notin Threads /\ r \notin Clarifications /\ r \notin Polls
BY RequestsAssumption DEF Requests

\* A step that is not one of r moves r nowhere, unless r starts or is cut off.
LEMMA CloseUndisturbed ==
    ASSUME TypeInv, [Next]_vars, NEW r \in Closes, ~ Handler(r)
    PROVE  /\ \/ pc'[r] = pc[r] /\ thread'[r] = thread[r]
              \/ pc'[r] = "unseen"
              \/ /\ pc'[r] = "close"
                 /\ \E t \in Threads : thread'[r] = t /\ pc[t] = "201"
           /\ r \in gone => r \in gone' \/ pc'[r] = "unseen" \/ ~ Running(r)
<1> USE CloseIsNoOther
DEF OthersKept, Goto, Finish, TypeInv, TypeOK, RequestTypeOK, requestVars
<1>1. CASE Hatchling
  BY <1>1 DEF Hatchling, AskBuddy, StartClarification, StartClose, StartPoll, Disconnect
<1>2. ASSUME NEW q \in Requests, Handler(q)
      PROVE  pc'[r] = pc[r] /\ thread'[r] = thread[r] /\ (r \in gone => r \in gone')
  <2>1. q # r
    BY <1>2
  <2> QED
    BY <1>2, <2>1 DEF Handler, OpenStep, OpenThread, CountQuestion, ClarificationStep,
                CountClarification, ExplainRefusal, CloseCapped, SendStep, InsertMessage,
                BumpActivity, FindWriter, PushFrame, CloseStep, CloseThread, FinishClose,
                PollStep, ReadAgain, ListMessages
<1>3. CASE Buddy
  BY <1>3 DEF Buddy, Connect, Cut, WriteFrame, PingTimeout, FinishHook, ReadFails, EndConn,
              ReadLoop, ReadFrame, AppendReply, BumpReply, CloseReplied
<1>4. CASE Sweeper
  BY <1>4 DEF Sweeper, SweepList, SweepClose, TimePasses
<1>5. CASE Restart
  BY <1>5 DEF Restart
<1>6. CASE UNCHANGED vars
  BY <1>6 DEF vars
<1> QED
  BY <1>1, <1>2, <1>3, <1>4, <1>5, <1>6 DEF Next

\* The steps of a close itself.
LEMMA CloseHandlerCloses ==
    ASSUME TypeInv, [Next]_vars, NEW r \in Closes, Handler(r), CloseInv, dbErrors' = 0
    PROVE  ClosesFirst(r)'
<1>1. dbErrors = 0 /\ ClosesFirst(r)
  BY AnswersStay DEF CloseInv
<1>2. r \in Requests /\ (pc[r] \in Steps => thread[r] \in Threads)
  BY CloseIsNoOther DEF TypeInv, InStep
<1>3. pc \in [Requests -> {"idle"} \cup Steps \cup Outcomes]
  BY DEF TypeInv, TypeOK, RequestTypeOK
<1>4. SendStep(r) \/ CloseStep(r)
  BY CloseIsNoOther DEF Handler
<1>5. CASE InsertMessage(r) \/ BumpActivity(r)
  BY <1>2, <1>5, CloseIsNoOther DEF InsertMessage, BumpActivity, TypeInv, InStep
<1>6. CASE FindWriter(r)
  <2>1. pc[r] = "lookup" /\ thread' = thread /\ status' = status
        /\ gone' = gone /\ pc'[r] \in {"push", "clear"}
    BY <1>2, <1>3, <1>6 DEF FindWriter, Goto, storeVars
  <2> QED
    BY <1>1, <2>1 DEF ClosesFirst
<1>7. CASE PushFrame(r)
  <2>1. pc[r] = "push" /\ thread' = thread /\ status' = status
        /\ gone' = gone /\ pc'[r] = "clear"
    BY <1>2, <1>3, <1>7 DEF PushFrame, Goto, storeVars
  <2> QED
    BY <1>1, <2>1 DEF ClosesFirst
<1>8. CASE CloseThread(r)
  <2>1. pc[r] = "close" /\ thread' = thread /\ gone' = gone /\ pc'[r] = "lookup"
    BY <1>2, <1>3, <1>8 DEF CloseThread, Goto, OthersKept
  <2>2. CASE Runs(r) /\ ThreadsClose(thread[r], "hatchling_closed")
    <3>1. status[thread[r]] \in {"open", "closed"}
      BY <1>2, <2>1 DEF CloseInv, ThreadsExist, TypeInv, TypeOK, StoreTypeOK, ConvTypeOK,
                        Statuses
    <3>2. status'[thread[r]] = "closed"
      BY <1>2, <2>1, <2>2, <3>1 DEF ThreadsClose, storeVars, TypeInv, TypeOK, StoreTypeOK,
                                    ConvTypeOK
    <3> QED
      BY <2>1, <3>2 DEF ClosesFirst
  <2>3. CASE Fails(r)
    BY <1>1, <2>1, <2>3 DEF Fails, DBFails, ClosesFirst
  <2> QED
    BY <1>8, <2>2, <2>3 DEF CloseThread
<1>9. CASE FinishClose(r)
  <2>1. pc[r] = "clear" /\ thread' = thread /\ status' = status
        /\ pc'[r] = IF r \in gone THEN "unseen" ELSE "204"
    BY <1>2, <1>3, <1>9 DEF FinishClose, Finish, OthersKept, storeVars
  <2> QED
    BY <1>1, <2>1 DEF ClosesFirst
<1> QED
  BY <1>4, <1>5, <1>6, <1>7, <1>8, <1>9 DEF SendStep, CloseStep

LEMMA CloseStaysClosed ==
    ASSUME TypeInv, TypeInv', [Next]_vars, CloseInv, dbErrors' = 0, NEW r \in Closes
    PROVE  ClosesFirst(r)'
<1>1. CASE Handler(r)
  BY <1>1, CloseHandlerCloses
<1>2. CASE ~ Handler(r)
  <2>1. ClosesFirst(r)
    BY AnswersStay DEF CloseInv
  <2>2. pc[r] \in {"lookup", "push", "clear", "204"} => thread[r] \in Threads
    BY CloseIsNoOther DEF TypeInv, InStep
  <2>3. CASE pc'[r] = pc[r] /\ thread'[r] = thread[r]
    <3>1. pc[r] \in {"lookup", "push", "clear", "204"} /\ status[thread[r]] = "closed" =>
              status'[thread'[r]] = "closed"
      BY <2>2, <2>3, StatusOnlyAdvances
    <3>2. pc'[r] \in {"lookup", "push", "clear"} /\ r \notin gone' => r \notin gone
      BY <1>2, <2>3, CloseUndisturbed DEF Running
    <3> QED
      BY <2>1, <2>3, <3>1, <3>2 DEF ClosesFirst
  <2>4. CASE pc'[r] \in {"unseen", "close"}
    BY <2>4 DEF ClosesFirst
  <2> QED
    BY <1>2, <2>3, <2>4, CloseUndisturbed
<1> QED
  BY <1>1, <1>2

\* An opener comes to the steps after its INSERT only by way of it.
LEMMA OpenersFollowInsert ==
    ASSUME TypeInv, [Next]_vars, NEW t \in Threads,
           pc'[t] \in {"append", "bump", "incr", "lookup", "push", "201"}
    PROVE  \/ pc[t] \in {"append", "bump", "incr", "lookup", "push", "201"}
           \/ ThreadsOpen(t)
<1> USE RequestsAssumption
DEF OthersKept, Goto, Finish, TypeInv, TypeOK, RequestTypeOK, requestVars, Requests
<1>1. CASE Hatchling
  BY <1>1 DEF Hatchling, AskBuddy, StartClarification, StartClose, StartPoll, Disconnect
<1>2. ASSUME NEW q \in Requests, Handler(q), q # t
      PROVE  pc'[t] = pc[t]
  BY <1>2 DEF Handler, OpenStep, OpenThread, CountQuestion, ClarificationStep,
              CountClarification, ExplainRefusal, CloseCapped, SendStep, InsertMessage,
              BumpActivity, FindWriter, PushFrame, CloseStep, CloseThread, FinishClose,
              PollStep, ReadAgain, ListMessages
<1>3. CASE Handler(t)
  <2>1. OpenStep(t) \/ SendStep(t)
    BY <1>3 DEF Handler
  <2> QED
    BY <2>1 DEF OpenStep, OpenThread, CountQuestion, SendStep, InsertMessage, BumpActivity,
                FindWriter, PushFrame
<1>4. CASE Buddy
  BY <1>4 DEF Buddy, Connect, Cut, WriteFrame, PingTimeout, FinishHook, ReadFails, EndConn,
              ReadLoop, ReadFrame, AppendReply, BumpReply, CloseReplied
<1>5. CASE Sweeper
  BY <1>5 DEF Sweeper, SweepList, SweepClose, TimePasses
<1>6. CASE Restart \/ UNCHANGED vars
  BY <1>6 DEF Restart, vars
<1> QED
  BY <1>1, <1>2, <1>3, <1>4, <1>5, <1>6 DEF Next

LEMMA ThreadsExistStep ==
    ASSUME TypeInv, [Next]_vars, ThreadsExist
    PROVE  ThreadsExist'
<1>1. ASSUME NEW t \in Threads,
             pc'[t] \in {"append", "bump", "incr", "lookup", "push", "201"}
      PROVE  status'[t] # "none"
  <2>1. CASE ThreadsOpen(t)
    BY <2>1 DEF ThreadsOpen, TypeInv, TypeOK, StoreTypeOK, ConvTypeOK
  <2>2. CASE pc[t] \in {"append", "bump", "incr", "lookup", "push", "201"}
    BY <2>2, StatusOnlyAdvances DEF ThreadsExist
  <2> QED
    BY <1>1, <2>1, <2>2, OpenersFollowInsert
<1>2. ASSUME NEW r \in Closes, pc'[r] = "close"
      PROVE  status'[thread'[r]] # "none"
  <2>1. CASE Handler(r)
    <3>1. SendStep(r) \/ CloseStep(r)
      BY <2>1, CloseIsNoOther DEF Handler
    <3>2. pc'[r] # "close"
      BY <3>1, CloseIsNoOther
      DEF SendStep, CloseStep, InsertMessage, BumpActivity, FindWriter, PushFrame, CloseThread,
          FinishClose, Goto, Finish, TypeInv, TypeOK, RequestTypeOK
    <3> QED
      BY <1>2, <3>2
  <2>2. CASE ~ Handler(r)
    <3>1. CASE pc[r] = "close" /\ thread'[r] = thread[r]
      <4>1. thread[r] \in Threads
        BY <3>1, CloseIsNoOther DEF TypeInv, InStep
      <4> QED
        BY <3>1, <4>1, StatusOnlyAdvances DEF ThreadsExist
    <3>2. CASE \E t \in Threads : thread'[r] = t /\ pc[t] = "201"
      BY <3>2, StatusOnlyAdvances DEF ThreadsExist
    <3> QED
      BY <1>2, <2>2, <3>1, <3>2, CloseUndisturbed
  <2> QED
    BY <2>1, <2>2
<1> QED
  BY <1>1, <1>2 DEF ThreadsExist

LEMMA CloseInvInit == Init => CloseInv
<1> SUFFICES ASSUME Init PROVE CloseInv
  OBVIOUS
<1>1. \A r \in Requests : pc[r] = "idle"
  BY DEF Init
<1> QED
  BY <1>1, CloseIsNoOther DEF CloseInv, ThreadsExist, ClosesFirst, Requests

\* A hatchling that is told 204 has a closed thread, with any number of
\* requests, disconnections and crashes in between, unless a statement failed
\* by itself: the handler does not look at the error.
THEOREM ClosedIsClosed == Spec => []ClosedMeansClosed
<1>1. TypeInv /\ TypeInv' /\ CloseInv /\ [Next]_vars => CloseInv'
  BY CloseStaysClosed, ThreadsExistStep DEF CloseInv
<1>2. CloseInv => ClosedMeansClosed
  BY DEF CloseInv, ClosesFirst, ClosedMeansClosed
<1> QED
  BY <1>1, <1>2, CloseInvInit, TypeCorrect, PTL DEF Spec
=============================================================================
