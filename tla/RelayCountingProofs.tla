------------------------ MODULE RelayCountingProofs ------------------------
(***************************************************************************)
(* The properties of Relay that count: a reply is recorded for a message   *)
(* of the hatchling of its own, a clarification is paid for with a turn of *)
(* its own, and a reply finds room in the waiter.  Counting here is        *)
(* matching one for one: a set S is no larger than a set T when there is   *)
(* an injection from S to T (the community modules' ExistsInjection), and  *)
(* each step of the relay carries the matching on.  Cardinalities come in  *)
(* only at the end, when the properties themselves are proved.             *)
(*                                                                         *)
(* The last part puts all invariants of the relay together and shows that  *)
(* it implements the conversation: a message of the buddy needs one of the *)
(* hatchling before it, which is what the matchings say.                   *)
(***************************************************************************)
EXTENDS RelayProofs, FunctionTheorems, FiniteSetTheorems

-----------------------------------------------------------------------------
(* Matchings.                                                              *)

\* A one-to-one function is a matching, and a matching is one.
LEMMA FunctionMatches ==
    ASSUME NEW S, NEW T, NEW f \in [S -> T], \A x, y \in S : f[x] = f[y] => x = y
    PROVE  ExistsInjection(S, T)
BY DEF ExistsInjection, Injection, IsInjective

LEMMA MatchingFunction ==
    ASSUME NEW S, NEW T, ExistsInjection(S, T)
    PROVE  \E f \in [S -> T] : \A x, y \in S : f[x] = f[y] => x = y
BY DEF ExistsInjection, Injection, IsInjective

LEMMA SubsetMatches ==
    ASSUME NEW S, NEW T, S \subseteq T
    PROVE  ExistsInjection(S, T)
<1> DEFINE f == [x \in S |-> x]
<1>1. f \in [S -> T] /\ \A x, y \in S : f[x] = f[y] => x = y
  OBVIOUS
<1> QED
  BY <1>1, FunctionMatches

\* A smaller set is matched with a larger one.
LEMMA MatchingWidened ==
    ASSUME NEW S, NEW T, NEW S2, NEW T2,
           ExistsInjection(S2, S), ExistsInjection(S, T), T \subseteq T2
    PROVE  ExistsInjection(S2, T2)
<1>1. ExistsInjection(T, T2)
  BY SubsetMatches
<1>2. ExistsInjection(S, T2)
  BY <1>1, Fun_ExistsInjTransitive
<1> QED
  BY <1>2, Fun_ExistsInjTransitive

\* One more on either side.
LEMMA MatchingExtended ==
    ASSUME NEW S, NEW T, NEW S2, NEW T2, NEW x, NEW y,
           ExistsInjection(S, T), S2 \subseteq S \cup {x},
           T \subseteq T2, y \in T2, y \notin T
    PROVE  ExistsInjection(S2, T2)
<1>1. PICK f \in [S -> T] : \A a, b \in S : f[a] = f[b] => a = b
  BY MatchingFunction
<1> DEFINE g == [z \in S2 |-> IF z \in S THEN f[z] ELSE y]
<1>2. g \in [S2 -> T2]
  BY <1>1
<1>3. \A a, b \in S2 : g[a] = g[b] => a = b
  BY <1>1
<1> QED
  BY <1>2, <1>3, FunctionMatches

\* One element makes place for another.
LEMMA Replaced ==
    ASSUME NEW S, NEW S2, NEW a, NEW b, a \in S, S2 \subseteq (S \ {a}) \cup {b}
    PROVE  ExistsInjection(S2, S)
<1> DEFINE g == [z \in S2 |-> IF z \in S \ {a} THEN z ELSE a]
<1>1. g \in [S2 -> S] /\ \A x, y \in S2 : g[x] = g[y] => x = y
  OBVIOUS
<1> QED
  BY <1>1, FunctionMatches

\* Two disjoint parts, of which the first is matched and the second shrinks.
LEMMA MatchingJoined ==
    ASSUME NEW P, NEW P2, NEW C, NEW C2,
           ExistsInjection(P2, P), C2 \subseteq C, P \cap C = {}
    PROVE  ExistsInjection(P2 \cup C2, P \cup C)
<1>1. PICK f \in [P2 -> P] : \A a, b \in P2 : f[a] = f[b] => a = b
  BY MatchingFunction
<1> DEFINE g == [z \in P2 \cup C2 |-> IF z \in P2 THEN f[z] ELSE z]
<1>2. g \in [P2 \cup C2 -> P \cup C]
  BY <1>1
<1>3. \A a, b \in P2 \cup C2 : g[a] = g[b] => a = b
  BY <1>1
<1> QED
  BY <1>2, <1>3, FunctionMatches

\* An element a of the first part is left out and makes place for one, b, in
\* the second.
LEMMA MatchingMoved ==
    ASSUME NEW P, NEW P2, NEW C, NEW C2, NEW a, NEW b,
           a \in P, ExistsInjection(P2, P \ {a}), C2 \subseteq C \cup {b}, P \cap C = {}
    PROVE  ExistsInjection(P2 \cup C2, P \cup C)
<1>1. PICK f \in [P2 -> P \ {a}] : \A x, y \in P2 : f[x] = f[y] => x = y
  BY MatchingFunction
<1> DEFINE g == [z \in P2 \cup C2 |-> IF z \in P2 THEN f[z] ELSE IF z \in C THEN z ELSE a]
<1>2. g \in [P2 \cup C2 -> P \cup C]
  BY <1>1
<1>3. \A x, y \in P2 \cup C2 : g[x] = g[y] => x = y
  <2> SUFFICES ASSUME NEW x \in P2 \cup C2, NEW y \in P2 \cup C2, g[x] = g[y]
               PROVE  x = y
    OBVIOUS
  <2>1. CASE x \in P2 /\ y \in P2
    BY <1>1, <2>1
  <2>2. CASE x \notin P2 \/ y \notin P2
    BY <1>1, <2>2
  <2> QED
    BY <2>1, <2>2
<1> QED
  BY <1>2, <1>3, FunctionMatches

-----------------------------------------------------------------------------
(* Who is matched.  What the hatchling put on record about thread t, and   *)
(* what became of it: a frame about to be pushed, a frame queued, a hook   *)
(* that runs, a reply not yet read, and at the end a reply at hand or on   *)
(* record, or one that waits in the thread's waiter.                       *)

Asks(t) == {i \in 1 .. Len(log[t]) : log[t][i] \in FromHatchling}

\* The message of r is on record and its frame is not pushed.
IsSending(r) ==
    \/ r \in Threads /\ pc[r] \in {"bump", "incr", "lookup", "push"}
    \/ r \in Clarifications /\ pc[r] \in {"bump", "lookup", "push"}

Sending(t) == {"request"} \X {r \in Requests : IsSending(r) /\ thread[r] = t} \X {0}

Queued(t) ==
    {d \in {"queued"} \X Conns \X Nat :
        /\ d[3] \in 1 .. Len(writeCh[d[2]])
        /\ writeCh[d[2]][d[3]].thread = t
        /\ writeCh[d[2]][d[3]].type # "close"}

Hooked(t) == {d \in {"hook"} \X Conns \X Nat : d[3] \in 1 .. hooks[d[2]][t]}

Replied(t) ==
    {d \in {"up"} \X Conns \X Nat :
        d[3] \in 1 .. Len(up[d[2]]) /\ up[d[2]][d[3]].thread = t}

Pending(t) == Sending(t) \cup Queued(t) \cup Hooked(t) \cup Replied(t)

InHand(t) == {"cur"} \X {c \in Conns : srv[c] = "append" /\ cur[c].thread = t} \X {0}

OnRecord(t) == {"log"} \X {t} \X {i \in 1 .. Len(log[t]) : log[t][i] \in Stored}

Recorded(t) == InHand(t) \cup OnRecord(t)

Waiting(t) == {"waiter"} \X {t} \X (1 .. waiters[t])

\* One reply, in whatever form, for one message; and room in the waiter.
RepliesInv == \A t \in Threads : ExistsInjection(Pending(t) \cup Recorded(t), Asks(t))

WaitersInv == \A t \in Threads : ExistsInjection(Pending(t) \cup Waiting(t), Asks(t))

LEMMA PendingIsApart ==
    ASSUME NEW t
    PROVE  Pending(t) \cap Recorded(t) = {} /\ Pending(t) \cap Waiting(t) = {}
BY DEF Pending, Sending, Queued, Hooked, Replied, Recorded, InHand, OnRecord, Waiting

-----------------------------------------------------------------------------
(* Which steps touch what is counted.                                      *)

\* The frames between a handler and a read loop.
flightVars == <<writeCh, hooks, up>>

LEMMA FlightMoves ==
    ASSUME [Next]_vars
    PROVE  \/ UNCHANGED flightVars
           \/ \E r \in Threads \cup Clarifications \cup Closes : PushFrame(r)
           \/ \E c \in Conns : WriteFrame(c) \/ ReadFrame(c) \/ Cut(c) \/ ReadFails(c) \/ EndConn(c)
           \/ \E c \in Conns, t \in Threads : FinishHook(c, t)
           \/ Restart
<1> USE DEF OthersKept, connVars, flightVars
<1>1. CASE Hatchling
  BY <1>1 DEF Hatchling, AskBuddy, StartClarification, StartClose, StartPoll, Disconnect
<1>2. ASSUME NEW r \in Requests, Handler(r),
             ~ (r \in Threads \cup Clarifications \cup Closes /\ PushFrame(r))
      PROVE  UNCHANGED flightVars
  BY <1>2 DEF Handler, OpenStep, OpenThread, CountQuestion, ClarificationStep,
              CountClarification, ExplainRefusal, CloseCapped, SendStep, InsertMessage,
              BumpActivity, FindWriter, CloseStep, CloseThread, FinishClose,
              PollStep, ReadAgain, ListMessages
<1>3. ASSUME NEW c \in Conns, Connect(c) \/ PingTimeout(c) \/ AppendReply(c)
                                 \/ BumpReply(c) \/ CloseReplied(c)
      PROVE  UNCHANGED flightVars
  BY <1>3 DEF Connect, PingTimeout, AppendReply, BumpReply, CloseReplied
<1>4. CASE Sweeper
  BY <1>4 DEF Sweeper, SweepList, SweepClose, TimePasses
<1>5. CASE UNCHANGED vars
  BY <1>5 DEF vars
<1> QED
  BY <1>1, <1>2, <1>3, <1>4, <1>5 DEF Next, Buddy, ReadLoop

\* A request starts to send when its message is logged, keeps its thread
\* meanwhile, and stops at the latest when it has pushed its frame.
LEMMA SendingMoves ==
    ASSUME TypeInv, [Next]_vars, NEW r \in Requests, IsSending(r)'
    PROVE  /\ ~ PushFrame(r)
           /\ \/ IsSending(r) /\ thread'[r] = thread[r]
              \/ InsertMessage(r) /\ MessagesInsert(thread[r], Kind(r)) /\ UNCHANGED thread
<1> USE RequestsAssumption
DEF OthersKept, Goto, Finish, TypeInv, TypeOK, RequestTypeOK, requestVars, Requests, IsSending
<1> ~ PushFrame(r)
  BY DEF PushFrame
<1>1. CASE Hatchling
  BY <1>1 DEF Hatchling, AskBuddy, StartClarification, StartClose, StartPoll, Disconnect
<1>2. ASSUME NEW q \in Requests, Handler(q), q # r
      PROVE  pc'[r] = pc[r] /\ thread'[r] = thread[r]
  BY <1>2 DEF Handler, OpenStep, OpenThread, CountQuestion, ClarificationStep,
              CountClarification, ExplainRefusal, CloseCapped, SendStep, InsertMessage,
              BumpActivity, FindWriter, PushFrame, CloseStep, CloseThread, FinishClose,
              PollStep, ReadAgain, ListMessages
<1>3. ASSUME Handler(r)
      PROVE  \/ IsSending(r) /\ thread'[r] = thread[r]
             \/ InsertMessage(r) /\ MessagesInsert(thread[r], Kind(r)) /\ UNCHANGED thread
  <2>1. CASE OpenStep(r)
    BY <2>1 DEF OpenStep, OpenThread, CountQuestion
  <2>2. CASE ClarificationStep(r)
    BY <2>2 DEF ClarificationStep, CountClarification, ExplainRefusal, CloseCapped
  <2>3. CASE InsertMessage(r)
    BY <2>3 DEF InsertMessage
  <2>4. CASE BumpActivity(r) \/ FindWriter(r)
    BY <2>4 DEF BumpActivity, FindWriter
  <2>5. CASE r \in Closes /\ CloseStep(r)
    BY <2>5 DEF CloseStep, CloseThread, FinishClose
  <2>6. CASE PollStep(r)
    BY <2>6 DEF PollStep, ReadAgain, ListMessages
  <2> QED
    BY <1>3, <2>1, <2>2, <2>3, <2>4, <2>5, <2>6 DEF Handler, SendStep
<1>4. CASE Buddy
  BY <1>4 DEF Buddy, Connect, Cut, WriteFrame, PingTimeout, FinishHook, ReadFails, EndConn,
              ReadLoop, ReadFrame, AppendReply, BumpReply, CloseReplied
<1>5. CASE Sweeper
  BY <1>5 DEF Sweeper, SweepList, SweepClose, TimePasses
<1>6. CASE Restart
  BY <1>6 DEF Restart, Running
<1>7. CASE UNCHANGED vars
  BY <1>7 DEF vars
<1> QED
  BY <1>1, <1>2, <1>3, <1>4, <1>5, <1>6, <1>7 DEF Next

\* The message of request r about t is logged in this step.
Asking(r, t) == InsertMessage(r) /\ thread[r] = t /\ MessagesInsert(t, Kind(r))

LEMMA SendingShrinks ==
    ASSUME TypeInv, [Next]_vars, NEW t \in Threads, ~ \E r \in Requests : Asking(r, t)
    PROVE  Sending(t)' \subseteq Sending(t)
<1> SUFFICES ASSUME NEW r \in Requests, IsSending(r)', thread'[r] = t
             PROVE  IsSending(r) /\ thread[r] = t
  BY DEF Sending
<1> QED
  BY SendingMoves DEF Asking

LEMMA SendingGrows ==
    ASSUME TypeInv, [Next]_vars, NEW t \in Threads, NEW r \in Requests, Asking(r, t)
    PROVE  Sending(t)' \subseteq Sending(t) \cup {<<"request", r, 0>>}
<1> SUFFICES ASSUME NEW q \in Requests \ {r}, IsSending(q)', thread'[q] = t
             PROVE  IsSending(q) /\ thread[q] = t
  BY DEF Sending
<1>1. pc[q] = "append" => pc'[q] = "append"
  BY DEF Asking, InsertMessage, Goto, Finish, TypeInv, TypeOK, RequestTypeOK
<1>2. ~ InsertMessage(q)
  BY <1>1 DEF InsertMessage, Goto, Finish, TypeInv, TypeOK, RequestTypeOK
<1> QED
  BY <1>2, SendingMoves

\* While the frames stay where they are, what is pending does too, except for
\* a request that starts to send.
LEMMA PendingKept ==
    ASSUME TypeInv, [Next]_vars, NEW t \in Threads, UNCHANGED flightVars,
           ~ \E r \in Requests : Asking(r, t)
    PROVE  Pending(t)' \subseteq Pending(t)
<1>1. Queued(t)' = Queued(t) /\ Hooked(t)' = Hooked(t) /\ Replied(t)' = Replied(t)
  BY DEF flightVars, Queued, Hooked, Replied
<1> QED
  BY <1>1, SendingShrinks DEF Pending

LEMMA PendingGrows ==
    ASSUME TypeInv, [Next]_vars, NEW t \in Threads, UNCHANGED flightVars,
           NEW r \in Requests, Asking(r, t)
    PROVE  Pending(t)' \subseteq Pending(t) \cup {<<"request", r, 0>>}
<1>1. Queued(t)' = Queued(t) /\ Hooked(t)' = Hooked(t) /\ Replied(t)' = Replied(t)
  BY DEF flightVars, Queued, Hooked, Replied
<1> QED
  BY <1>1, SendingGrows DEF Pending

\* A lost connection takes its frames with it, and a crash takes all.
LEMMA PendingLost ==
    ASSUME TypeInv, [Next]_vars, NEW t \in Threads, ~ \E r \in Requests : Asking(r, t),
           \/ \E c \in Conns : Cut(c) \/ ReadFails(c) \/ EndConn(c)
           \/ Restart
    PROVE  Pending(t)' \subseteq Pending(t)
<1> /\ writeCh \in [Conns -> Seq(InFrames)]
    /\ hooks \in [Conns -> [Threads -> Nat]]
    /\ up \in [Conns -> Seq(OutFrames)]
  BY DEF TypeInv, TypeOK, ConnTypeOK
<1>1. \A d \in Conns : writeCh'[d] = writeCh[d] \/ writeCh'[d] = << >>
  BY DEF Cut, ReadFails, EndConn, Restart
<1>2. \A d \in Conns : hooks'[d] = hooks[d] \/ hooks'[d] = NoHooks
  BY DEF Cut, ReadFails, EndConn, Restart
<1>3. \A d \in Conns : up'[d] = up[d] \/ up'[d] = << >>
  BY DEF Cut, ReadFails, EndConn, Restart
<1>4. Queued(t)' \subseteq Queued(t)
  BY <1>1 DEF Queued
<1>5. Hooked(t)' \subseteq Hooked(t)
  <2> SUFFICES ASSUME NEW d \in Conns, NEW i \in 1 .. hooks'[d][t]
               PROVE  i \in 1 .. hooks[d][t]
    BY DEF Hooked
  <2>1. NoHooks[t] = 0
    BY DEF NoHooks
  <2>2. hooks'[d] # NoHooks
    BY <2>1
  <2> QED
    BY <1>2, <2>2
<1>6. Replied(t)' \subseteq Replied(t)
  BY <1>3 DEF Replied
<1> QED
  BY <1>4, <1>5, <1>6, SendingShrinks DEF Pending

\* A frame that is pushed takes the place of its request; it may be dropped.
LEMMA PendingPushed ==
    ASSUME TypeInv, [Next]_vars, NEW t \in Threads,
           NEW r \in Threads \cup Clarifications \cup Closes, PushFrame(r)
    PROVE  ExistsInjection(Pending(t)', Pending(t))
<1> DEFINE c == writer[r]
           f == [type |-> Kind(r), thread |-> thread[r]]
           q == <<"queued", c, Len(writeCh[c]) + 1>>
           a == <<"request", r, 0>>
<1> r \in Requests
  BY DEF Requests
<1>1. c \in Conns /\ writeCh[c] \in Seq(InFrames) /\ thread[r] \in Threads
  BY DEF TypeInv, TypeOK, ConnTypeOK, InStep, PushFrame
<1>2. ~ \E s \in Requests : Asking(s, t)
  <2>1. \A s \in Requests : pc[s] = "append" => pc'[s] = "append"
    BY DEF PushFrame, Goto, Finish, TypeInv, TypeOK, RequestTypeOK
  <2> QED
    BY <2>1 DEF Asking, InsertMessage, Goto, Finish, TypeInv, TypeOK, RequestTypeOK
<1>3. Sending(t)' \subseteq Sending(t) \ {a}
  <2>1. a \notin Sending(t)'
    <3>1. ~ IsSending(r)'
      BY SendingMoves
    <3> QED
      BY <3>1 DEF Sending
  <2> QED
    BY <1>2, <2>1, SendingShrinks
<1>4. Hooked(t)' = Hooked(t) /\ Replied(t)' = Replied(t)
  BY DEF PushFrame, Hooked, Replied
<1>5. CASE writeCh' = writeCh \/ thread[r] # t \/ r \in Closes
  <2>1. Queued(t)' \subseteq Queued(t)
    <3>1. CASE writeCh' = writeCh
      BY <3>1 DEF Queued
    <3>2. CASE /\ writeCh' = [writeCh EXCEPT ![c] = Append(@, f)]
               /\ thread[r] # t \/ r \in Closes
      <4>1. f.thread # t \/ f.type = "close"
        BY <3>2, CloseIsNoOther DEF Kind
      <4>2. f \in InFrames
        BY <1>1 DEF Kind, InFrames, InTypes
      <4> HIDE DEF f, c
      <4>3. writeCh'[c] = Append(writeCh[c], f) /\ \A d \in Conns \ {c} : writeCh'[d] = writeCh[d]
        BY <1>1, <3>2 DEF TypeInv, TypeOK, ConnTypeOK
      <4>4. \A i \in 1 .. Len(writeCh'[c]) :
                \/ i \in 1 .. Len(writeCh[c]) /\ writeCh'[c][i] = writeCh[c][i]
                \/ writeCh'[c][i] = f
        BY <1>1, <4>2, <4>3
      <4> QED
        BY <4>1, <4>3, <4>4 DEF Queued
    <3> QED
      BY <1>5, <3>1, <3>2 DEF PushFrame
  <2>2. Pending(t)' \subseteq Pending(t)
    BY <1>3, <1>4, <2>1 DEF Pending
  <2> QED
    BY <2>2, SubsetMatches
<1>6. CASE /\ writeCh' = [writeCh EXCEPT ![c] = Append(@, f)]
           /\ thread[r] = t /\ r \notin Closes
  <2>1. f \in InFrames
    BY <1>1 DEF Kind, InFrames, InTypes
  <2>2. a \in Pending(t)
    BY <1>6 DEF Pending, Sending, IsSending, PushFrame
  <2>3. Queued(t)' \subseteq Queued(t) \cup {q}
    <3> HIDE DEF f, c
    <3>1. writeCh'[c] = Append(writeCh[c], f) /\ \A d \in Conns \ {c} : writeCh'[d] = writeCh[d]
      BY <1>1, <1>6 DEF TypeInv, TypeOK, ConnTypeOK
    <3>2. \A i \in 1 .. Len(writeCh'[c]) :
              \/ i \in 1 .. Len(writeCh[c]) /\ writeCh'[c][i] = writeCh[c][i]
              \/ i = Len(writeCh[c]) + 1
      BY <1>1, <2>1, <3>1
    <3> QED
      BY <3>1, <3>2 DEF Queued
  <2>4. Pending(t)' \subseteq (Pending(t) \ {a}) \cup {q}
    <3>1. a \notin Queued(t) /\ a \notin Hooked(t) /\ a \notin Replied(t)
      BY DEF Queued, Hooked, Replied
    <3> QED
      BY <1>3, <1>4, <2>3, <3>1 DEF Pending
  <2> QED
    BY <2>2, <2>4, Replaced
<1> QED
  BY <1>5, <1>6 DEF PushFrame

LEMMA TailShifts ==
    ASSUME NEW S, NEW s \in Seq(S), s # << >>
    PROVE  /\ Len(s) \in Nat /\ Len(Tail(s)) = Len(s) - 1
           /\ \A i \in 1 .. Len(s) - 1 : Tail(s)[i] = s[i + 1]
OBVIOUS

\* The rest of a queue moves up by one: nothing is matched with its head.
LEMMA QueueShifts ==
    ASSUME TypeInv, NEW t, NEW c \in Conns, writeCh[c] # << >>,
           writeCh' = [writeCh EXCEPT ![c] = Tail(@)]
    PROVE  ExistsInjection(Queued(t)', Queued(t) \ {<<"queued", c, 1>>})
<1> DEFINE g == [d \in Queued(t)' |-> IF d[2] = c THEN <<"queued", c, d[3] + 1>> ELSE d]
<1>1. /\ writeCh'[c] = Tail(writeCh[c]) /\ writeCh[c] \in Seq(InFrames)
      /\ \A d \in Conns \ {c} : writeCh'[d] = writeCh[d]
  BY DEF TypeInv, TypeOK, ConnTypeOK
<1>2. \A i \in 1 .. Len(writeCh'[c]) :
          i + 1 \in 1 .. Len(writeCh[c]) /\ writeCh'[c][i] = writeCh[c][i + 1]
  <2>1. /\ Len(writeCh[c]) \in Nat /\ Len(writeCh'[c]) = Len(writeCh[c]) - 1
        /\ \A i \in 1 .. Len(writeCh[c]) - 1 : writeCh'[c][i] = writeCh[c][i + 1]
    BY <1>1, TailShifts
  <2> QED
    BY <2>1
<1>3. ASSUME NEW d \in Queued(t)'
      PROVE  g[d] \in Queued(t) \ {<<"queued", c, 1>>}
  <2>1. CASE d[2] = c
    <3>1. d[3] \in 1 .. Len(writeCh'[c]) /\ d[3] + 1 \in Nat /\ d[3] + 1 # 1
      BY <2>1 DEF Queued
    <3> QED
      BY <1>2, <2>1, <3>1 DEF Queued
  <2>2. CASE d[2] # c
    <3>1. g[d] = d /\ d # <<"queued", c, 1>>
      BY <2>2
    <3>2. d[2] \in Conns \ {c} /\ writeCh'[d[2]] = writeCh[d[2]]
      BY <1>1, <2>2 DEF Queued
    <3> QED
      BY <3>1, <3>2 DEF Queued
  <2> QED
    BY <2>1, <2>2
<1>4. \A x, y \in Queued(t)' : g[x] = g[y] => x = y
  <2>1. \A x \in Queued(t)' : x = <<"queued", x[2], x[3]>> /\ x[3] \in Nat
    BY DEF Queued
  <2> QED
    BY <2>1
<1>5. g \in [Queued(t)' -> Queued(t) \ {<<"queued", c, 1>>}]
  BY <1>3
<1> HIDE DEF g
<1> QED
  BY <1>4, <1>5, FunctionMatches

LEMMA RepliesShift ==
    ASSUME TypeInv, NEW t, NEW c \in Conns, up[c] # << >>,
           up' = [up EXCEPT ![c] = Tail(@)]
    PROVE  ExistsInjection(Replied(t)', Replied(t) \ {<<"up", c, 1>>})
<1> DEFINE g == [d \in Replied(t)' |-> IF d[2] = c THEN <<"up", c, d[3] + 1>> ELSE d]
<1>1. /\ up'[c] = Tail(up[c]) /\ up[c] \in Seq(OutFrames)
      /\ \A d \in Conns \ {c} : up'[d] = up[d]
  BY DEF TypeInv, TypeOK, ConnTypeOK
<1>2. \A i \in 1 .. Len(up'[c]) :
          i + 1 \in 1 .. Len(up[c]) /\ up'[c][i] = up[c][i + 1]
  <2>1. /\ Len(up[c]) \in Nat /\ Len(up'[c]) = Len(up[c]) - 1
        /\ \A i \in 1 .. Len(up[c]) - 1 : up'[c][i] = up[c][i + 1]
    BY <1>1, TailShifts
  <2> QED
    BY <2>1
<1>3. ASSUME NEW d \in Replied(t)'
      PROVE  g[d] \in Replied(t) \ {<<"up", c, 1>>}
  <2>1. CASE d[2] = c
    <3>1. d[3] \in 1 .. Len(up'[c]) /\ d[3] + 1 \in Nat /\ d[3] + 1 # 1
      BY <2>1 DEF Replied
    <3> QED
      BY <1>2, <2>1, <3>1 DEF Replied
  <2>2. CASE d[2] # c
    <3>1. g[d] = d /\ d # <<"up", c, 1>>
      BY <2>2
    <3>2. d[2] \in Conns \ {c} /\ up'[d[2]] = up[d[2]]
      BY <1>1, <2>2 DEF Replied
    <3> QED
      BY <3>1, <3>2 DEF Replied
  <2> QED
    BY <2>1, <2>2
<1>4. \A x, y \in Replied(t)' : g[x] = g[y] => x = y
  <2>1. \A x \in Replied(t)' : x = <<"up", x[2], x[3]>> /\ x[3] \in Nat
    BY DEF Replied
  <2> QED
    BY <2>1
<1>5. g \in [Replied(t)' -> Replied(t) \ {<<"up", c, 1>>}]
  BY <1>3
<1> HIDE DEF g
<1> QED
  BY <1>4, <1>5, FunctionMatches

\* Steps of the buddy's side and of the writer goroutine log nothing.
LEMMA NobodyAsks ==
    ASSUME TypeInv, NEW t \in Threads, UNCHANGED pc
    PROVE  ~ \E r \in Requests : Asking(r, t)
BY DEF Asking, InsertMessage, Goto, Finish, TypeInv, TypeOK, RequestTypeOK

\* The frame that is written becomes a hook, or nothing.
LEMMA PendingWritten ==
    ASSUME TypeInv, [Next]_vars, NEW t \in Threads, NEW c \in Conns, WriteFrame(c)
    PROVE  ExistsInjection(Pending(t)', Pending(t))
<1> DEFINE f == Head(writeCh[c])
           a == <<"queued", c, 1>>
           h == <<"hook", c, hooks[c][t] + 1>>
           Others == Sending(t) \cup Hooked(t) \cup Replied(t)
<1>1. f \in InFrames /\ 1 \in 1 .. Len(writeCh[c]) /\ f = writeCh[c][1]
  BY DEF WriteFrame, TypeInv, TypeOK, ConnTypeOK
<1>2. ExistsInjection(Queued(t)', Queued(t) \ {a})
  BY QueueShifts DEF WriteFrame
<1>3. Sending(t)' \subseteq Sending(t) /\ Replied(t)' = Replied(t)
  <2>1. UNCHANGED <<pc, up>>
    BY DEF WriteFrame, requestVars
  <2> QED
    BY <2>1, NobodyAsks, SendingShrinks DEF Replied
<1>4. Queued(t) \cap Others = {}
  BY DEF Queued, Sending, Hooked, Replied
<1>5. CASE /\ hooks' = [hooks EXCEPT ![c][f.thread] = @ + 1]
           /\ f.type # "close" /\ f.thread = t
  <2>1. a \in Queued(t)
    BY <1>1, <1>5 DEF Queued
  <2>2. Hooked(t)' \subseteq Hooked(t) \cup {h}
    <3> HIDE DEF f
    <3>1. hooks'[c][t] = hooks[c][t] + 1 /\ \A d \in Conns \ {c} : hooks'[d][t] = hooks[d][t]
      BY <1>5 DEF TypeInv, TypeOK, ConnTypeOK
    <3>2. hooks[c][t] \in Nat
      BY DEF TypeInv, TypeOK, ConnTypeOK
    <3> QED
      BY <3>1, <3>2 DEF Hooked
  <2>3. Others' \subseteq Others \cup {h}
    BY <1>3, <2>2
  <2> HIDE DEF a, h, Others
  <2>4. ExistsInjection(Queued(t)' \cup Others', Queued(t) \cup Others)
    BY <1>2, <1>4, <2>1, <2>3, MatchingMoved
  <2> QED
    BY <2>4 DEF Pending, Others
<1>6. CASE hooks' = hooks \/ (hooks' = [hooks EXCEPT ![c][f.thread] = @ + 1] /\ f.thread # t)
  <2>1. \A d \in Conns : hooks'[d][t] = hooks[d][t]
    <3>1. f.thread \in Threads /\ hooks \in [Conns -> [Threads -> Nat]]
      BY <1>1 DEF TypeInv, TypeOK, ConnTypeOK, InFrames
    <3> HIDE DEF f
    <3> QED
      BY <1>6, <3>1
  <2>2. Others' \subseteq Others
    BY <1>3, <2>1 DEF Hooked
  <2>3. ExistsInjection(Queued(t)', Queued(t))
    <3>1. Queued(t) \ {a} \subseteq Queued(t)
      OBVIOUS
    <3> QED
      BY <1>2, <3>1, SubsetMatches, Fun_ExistsInjTransitive
  <2> HIDE DEF Others
  <2>4. ExistsInjection(Queued(t)' \cup Others', Queued(t) \cup Others)
    BY <1>4, <2>2, <2>3, MatchingJoined
  <2> QED
    BY <2>4 DEF Pending, Others
<1> QED
  BY <1>1, <1>5, <1>6 DEF WriteFrame

\* A hook that ends becomes the frame of its reply.
LEMMA PendingAnswered ==
    ASSUME TypeInv, [Next]_vars, NEW t \in Threads, NEW c \in Conns, NEW u \in Threads,
           FinishHook(c, u)
    PROVE  ExistsInjection(Pending(t)', Pending(t))
<1> DEFINE a == <<"hook", c, hooks[c][t]>>
           b == <<"up", c, Len(up[c]) + 1>>
<1>1. PICK type \in HookReplies :
          up' = [up EXCEPT ![c] = Append(@, [type |-> type, thread |-> u])]
  BY DEF FinishHook
<1> DEFINE f == [type |-> type, thread |-> u]
<1>2. f \in OutFrames /\ f.thread = u
  BY HookRepliesAssumption DEF OutFrames
<1>3. Sending(t)' \subseteq Sending(t) /\ Queued(t)' = Queued(t)
  <2>1. UNCHANGED <<pc, writeCh>>
    BY DEF FinishHook, requestVars
  <2> QED
    BY <2>1, NobodyAsks, SendingShrinks DEF Queued
<1>4. /\ up[c] \in Seq(OutFrames) /\ up'[c] = Append(up[c], f)
      /\ \A d \in Conns \ {c} : up'[d] = up[d]
  <2> HIDE DEF f
  <2>1. up' = [up EXCEPT ![c] = Append(@, f)]
    BY <1>1 DEF f
  <2> QED
    BY <2>1 DEF TypeInv, TypeOK, ConnTypeOK
<1> HIDE DEF f
<1>5. \A i \in 1 .. Len(up'[c]) :
          \/ i \in 1 .. Len(up[c]) /\ up'[c][i] = up[c][i]
          \/ i = Len(up[c]) + 1 /\ up'[c][i] = f
  BY <1>2, <1>4
<1>6. hooks[c][u] \in Nat \ {0} /\ hooks' = [hooks EXCEPT ![c][u] = @ - 1]
  BY DEF FinishHook, TypeInv, TypeOK, ConnTypeOK
<1>7. CASE u = t
  <2>1. a \in Hooked(t)
    BY <1>6, <1>7 DEF Hooked
  <2>2. Hooked(t)' \subseteq Hooked(t) \ {a}
    <3>1. hooks'[c][t] = hooks[c][t] - 1 /\ \A d \in Conns \ {c} : hooks'[d][t] = hooks[d][t]
      BY <1>6, <1>7 DEF TypeInv, TypeOK, ConnTypeOK
    <3> QED
      BY <1>6, <1>7, <3>1 DEF Hooked
  <2>3. Replied(t)' \subseteq Replied(t) \cup {b}
    BY <1>4, <1>5 DEF Replied
  <2>4. a \notin Sending(t) /\ a \notin Queued(t) /\ a \notin Replied(t)
    BY DEF Sending, Queued, Replied
  <2> HIDE DEF a, b
  <2>5. Pending(t)' \subseteq (Pending(t) \ {a}) \cup {b}
    BY <1>3, <2>2, <2>3, <2>4 DEF Pending
  <2> QED
    BY <2>1, <2>5, Replaced DEF Pending
<1>8. CASE u # t
  <2>1. Hooked(t)' = Hooked(t)
    <3>1. \A d \in Conns : hooks'[d][t] = hooks[d][t]
      BY <1>6, <1>8 DEF TypeInv, TypeOK, ConnTypeOK
    <3> QED
      BY <3>1 DEF Hooked
  <2>2. Replied(t)' \subseteq Replied(t)
    BY <1>2, <1>4, <1>5, <1>8 DEF Replied
  <2>3. Pending(t)' \subseteq Pending(t)
    BY <1>3, <2>1, <2>2 DEF Pending
  <2> QED
    BY <2>3, SubsetMatches
<1> QED
  BY <1>7, <1>8

\* A reply that is read is pending no more.
LEMMA PendingRead ==
    ASSUME TypeInv, [Next]_vars, NEW t \in Threads, NEW c \in Conns, ReadFrame(c)
    PROVE  /\ ExistsInjection(Pending(t)', Pending(t) \ {<<"up", c, 1>>})
           /\ Head(up[c]).thread = t => <<"up", c, 1>> \in Pending(t)
<1> DEFINE a == <<"up", c, 1>>
           Others == Sending(t) \cup Queued(t) \cup Hooked(t)
<1>1. ExistsInjection(Replied(t)', Replied(t) \ {a})
  BY RepliesShift DEF ReadFrame
<1>2. Others' \subseteq Others
  <2>1. UNCHANGED <<pc, writeCh, hooks>>
    BY DEF ReadFrame, requestVars
  <2> QED
    BY <2>1, NobodyAsks, SendingShrinks DEF Queued, Hooked
<1>3. (Replied(t) \ {a}) \cap Others = {} /\ a \notin Others
  BY DEF Replied, Sending, Queued, Hooked
<1>4. ExistsInjection(Replied(t)' \cup Others', (Replied(t) \ {a}) \cup Others)
  <2> HIDE DEF a, Others
  <2> QED
    BY <1>1, <1>2, <1>3, MatchingJoined
<1>5. (Replied(t) \ {a}) \cup Others = Pending(t) \ {a} /\ Replied(t)' \cup Others' = Pending(t)'
  <2> HIDE DEF a
  <2> QED
    BY <1>3 DEF Pending
<1>6. Head(up[c]).thread = t => a \in Replied(t)
  <2>1. 1 \in 1 .. Len(up[c]) /\ Head(up[c]) = up[c][1]
    BY DEF ReadFrame, TypeInv, TypeOK, ConnTypeOK
  <2> QED
    BY <2>1 DEF Replied
<1> QED
  BY <1>4, <1>5, <1>6 DEF Pending

\* Nothing is pending twice: but for a message that is logged in this step,
\* what is pending after it is matched with what was pending before.
LEMMA PendingStep ==
    ASSUME TypeInv, [Next]_vars, NEW t \in Threads, ~ \E r \in Requests : Asking(r, t)
    PROVE  ExistsInjection(Pending(t)', Pending(t))
<1>1. CASE UNCHANGED flightVars
  BY <1>1, PendingKept, SubsetMatches
<1>2. CASE \E r \in Threads \cup Clarifications \cup Closes : PushFrame(r)
  BY <1>2, PendingPushed
<1>3. CASE (\E c \in Conns : Cut(c) \/ ReadFails(c) \/ EndConn(c)) \/ Restart
  BY <1>3, PendingLost, SubsetMatches
<1>4. CASE \E c \in Conns : WriteFrame(c)
  BY <1>4, PendingWritten
<1>5. CASE \E c \in Conns, u \in Threads : FinishHook(c, u)
  BY <1>5, PendingAnswered
<1>6. ASSUME NEW c \in Conns, ReadFrame(c)
      PROVE  ExistsInjection(Pending(t)', Pending(t))
  <2>1. ExistsInjection(Pending(t)', Pending(t) \ {<<"up", c, 1>>})
    BY <1>6, PendingRead
  <2>2. ExistsInjection(Pending(t) \ {<<"up", c, 1>>}, Pending(t))
    BY SubsetMatches
  <2> QED
    BY <2>1, <2>2, Fun_ExistsInjTransitive
<1> QED
  BY <1>1, <1>2, <1>3, <1>4, <1>5, <1>6, FlightMoves

\* Messages are logged by the handlers and by the read loops.
LEMMA LogMoves ==
    ASSUME TypeInv, [Next]_vars, NEW t \in Threads
    PROVE  \/ log'[t] = log[t]
           \/ \E r \in Threads \cup Clarifications : Asking(r, t)
           \/ \E c \in Conns : /\ AppendReply(c) /\ cur[c].thread = t
                               /\ MessagesInsert(t, cur[c].type)
<1> USE DEF storeVars
<1>1. CASE Hatchling
  BY <1>1 DEF Hatchling, AskBuddy, StartClarification, StartClose, StartPoll, Disconnect
<1>2. ASSUME NEW r \in Requests, Handler(r), ~ InsertMessage(r)
      PROVE  log' = log
  BY <1>2 DEF Handler, OpenStep, OpenThread, CountQuestion, ClarificationStep,
              CountClarification, ExplainRefusal, CloseCapped, SendStep, BumpActivity,
              FindWriter, PushFrame, CloseStep, CloseThread, FinishClose, PollStep, ReadAgain,
              ListMessages, ThreadsOpen, ThreadsIncrementTurns, ThreadsClose,
              MessagesBumpActivity
<1>3. ASSUME NEW r \in Requests, InsertMessage(r)
      PROVE  log'[t] = log[t] \/ (r \in Threads \cup Clarifications /\ Asking(r, t))
  <2>1. r \in Threads \cup Clarifications
    BY <1>3 DEF InsertMessage, TypeInv, InStep
  <2> QED
    BY <1>3, <2>1 DEF InsertMessage, Asking, MessagesInsert, TypeInv, TypeOK, StoreTypeOK, ConvTypeOK
<1>4. ASSUME NEW c \in Conns, AppendReply(c)
      PROVE  log'[t] = log[t] \/ (cur[c].thread = t /\ MessagesInsert(t, cur[c].type))
  BY <1>4 DEF AppendReply, MessagesInsert, TypeInv, TypeOK, StoreTypeOK, ConvTypeOK
<1>5. CASE Buddy /\ ~ \E c \in Conns : AppendReply(c)
  BY <1>5 DEF Buddy, Connect, Cut, WriteFrame, PingTimeout, FinishHook, ReadFails, EndConn,
              ReadLoop, ReadFrame, BumpReply, CloseReplied, ThreadsClose, MessagesBumpActivity
<1>6. CASE Sweeper
  BY <1>6 DEF Sweeper, SweepList, SweepClose, TimePasses, ThreadsClose, GoesIdle
<1>7. CASE Restart \/ UNCHANGED vars
  BY <1>7 DEF Restart, vars
<1> QED
  BY <1>1, <1>2, <1>3, <1>4, <1>5, <1>6, <1>7 DEF Next

LEMMA AsksStay ==
    ASSUME TypeInv, [Next]_vars, NEW t \in Threads
    PROVE  Asks(t) \subseteq Asks(t)'
<1>1. HistoryIsKept(t) /\ log[t] \in Seq(MsgTypes)
  BY StepIsStatement, StatementKeepsHistory DEF TypeInv, TypeOK, StoreTypeOK, ConvTypeOK
<1>2. CASE log'[t] = log[t]
  BY <1>2 DEF Asks
<1>3. ASSUME NEW m \in MsgTypes, log'[t] = Append(log[t], m)
      PROVE  Asks(t) \subseteq Asks(t)'
  <2>1. \A i \in 1 .. Len(log[t]) : i \in 1 .. Len(log'[t]) /\ log'[t][i] = log[t][i]
    BY <1>1, <1>3
  <2> QED
    BY <2>1 DEF Asks
<1> QED
  BY <1>1, <1>2, <1>3 DEF HistoryIsKept

\* What a message logged about t does to the counts.
LEMMA LogAppended ==
    ASSUME TypeInv, NEW t \in Threads, NEW m \in MsgTypes, MessagesInsert(t, m)
    PROVE  /\ Len(log[t]) + 1 \in Nat \ (1 .. Len(log[t]))
           /\ m \in FromHatchling => Len(log[t]) + 1 \in Asks(t)'
           /\ Asks(t)' \subseteq Asks(t) \cup {Len(log[t]) + 1}
           /\ m \notin FromHatchling => Asks(t)' = Asks(t)
           /\ m \notin Stored => OnRecord(t)' = OnRecord(t)
           /\ OnRecord(t)' \subseteq OnRecord(t) \cup {<<"log", t, Len(log[t]) + 1>>}
<1>1. log[t] \in Seq(MsgTypes) /\ log'[t] = Append(log[t], m)
  BY DEF MessagesInsert, TypeInv, TypeOK, StoreTypeOK, ConvTypeOK
<1>2. /\ Len(log[t]) \in Nat /\ Len(log'[t]) = Len(log[t]) + 1
      /\ log'[t][Len(log[t]) + 1] = m
      /\ \A i \in 1 .. Len(log[t]) : log'[t][i] = log[t][i]
  BY <1>1
<1>3. \A i \in 1 .. Len(log'[t]) :
          \/ i \in 1 .. Len(log[t]) /\ log'[t][i] = log[t][i]
          \/ i = Len(log[t]) + 1 /\ log'[t][i] = m
  BY <1>2
<1>4. 1 .. Len(log[t]) \subseteq 1 .. Len(log'[t]) /\ Len(log[t]) + 1 \in 1 .. Len(log'[t])
  BY <1>2
<1>5. /\ m \in FromHatchling => Len(log[t]) + 1 \in Asks(t)'
      /\ Asks(t)' \subseteq Asks(t) \cup {Len(log[t]) + 1}
      /\ m \notin FromHatchling => Asks(t)' = Asks(t)
  BY <1>2, <1>3, <1>4 DEF Asks
<1>6. /\ m \notin Stored => OnRecord(t)' = OnRecord(t)
      /\ OnRecord(t)' \subseteq OnRecord(t) \cup {<<"log", t, Len(log[t]) + 1>>}
  BY <1>2, <1>3, <1>4 DEF OnRecord
<1> QED
  BY <1>2, <1>5, <1>6

-----------------------------------------------------------------------------
(* Replies.                                                                *)

\* A read loop has a reply to log only when it has read one.
LEMMA InHandKept ==
    ASSUME TypeInv, [Next]_vars, NEW c \in Conns, ~ ReadFrame(c), srv'[c] = "append"
    PROVE  srv[c] = "append" /\ cur'[c] = cur[c] /\ ~ AppendReply(c)
<1> USE DEF connVars, OthersKept, TypeInv, TypeOK, ConnTypeOK
<1>0. ~ AppendReply(c)
  BY DEF AppendReply, AfterAppend, ToReading
<1>1. CASE Hatchling
  BY <1>0, <1>1 DEF Hatchling, AskBuddy, StartClarification, StartClose, StartPoll, Disconnect
<1>2. CASE \E r \in Requests : Handler(r)
  BY <1>0, <1>2 DEF Handler, OpenStep, OpenThread, CountQuestion, ClarificationStep,
              CountClarification, ExplainRefusal, CloseCapped, SendStep, InsertMessage,
              BumpActivity, FindWriter, PushFrame, CloseStep, CloseThread, FinishClose,
              PollStep, ReadAgain, ListMessages
<1>3. ASSUME NEW d \in Conns, Connect(d) \/ ReadFails(d) \/ EndConn(d) \/ ReadLoop(d)
      PROVE  srv[c] = "append" /\ cur'[c] = cur[c]
  <2>1. CASE d = c
    BY <1>0, <1>3, <2>1 DEF Connect, ReadFails, EndConn, ReadLoop, BumpReply, CloseReplied,
                            AfterAppend, ToReading
  <2>2. CASE d # c
    BY <1>3, <2>2 DEF Connect, ReadFails, EndConn, ReadLoop, ReadFrame, AppendReply, BumpReply,
                      CloseReplied, AfterAppend, ToReading
  <2> QED
    BY <2>1, <2>2
<1>4. ASSUME NEW d \in Conns,
             Cut(d) \/ WriteFrame(d) \/ PingTimeout(d) \/ \E t \in Threads : FinishHook(d, t)
      PROVE  srv[c] = "append" /\ cur'[c] = cur[c]
  BY <1>4 DEF Cut, WriteFrame, PingTimeout, FinishHook
<1>5. CASE Sweeper
  BY <1>0, <1>5 DEF Sweeper, SweepList, SweepClose, TimePasses
<1>6. CASE Restart
  BY <1>6 DEF Restart
<1>7. CASE UNCHANGED vars
  BY <1>0, <1>7 DEF vars
<1> QED
  BY <1>0, <1>1, <1>2, <1>3, <1>4, <1>5, <1>6, <1>7 DEF Next, Buddy

\* A message of the hatchling is one more to be answered.
LEMMA RepliesAsked ==
    ASSUME TypeInv, [Next]_vars, NEW t \in Threads,
           ExistsInjection(Pending(t) \cup Recorded(t), Asks(t)),
           NEW r \in Threads \cup Clarifications, Asking(r, t)
    PROVE  ExistsInjection(Pending(t)' \cup Recorded(t)', Asks(t)')
<1> DEFINE n == Len(log[t]) + 1
<1>1. r \in Requests /\ Kind(r) \in FromHatchling /\ Kind(r) \in MsgTypes
      /\ Kind(r) \notin Stored
  BY DEF Requests, Kind, FromHatchling, MsgTypes, Stored
<1>2. UNCHANGED <<writeCh, hooks, up, srv, cur>>
  BY DEF Asking, InsertMessage, OthersKept, connVars
<1>3. Pending(t)' \subseteq Pending(t) \cup {<<"request", r, 0>>}
  BY <1>1, <1>2, PendingGrows DEF flightVars
<1>4. n \in Asks(t)' /\ n \notin Asks(t) /\ Asks(t) \subseteq Asks(t)'
      /\ OnRecord(t)' = OnRecord(t)
  BY <1>1, LogAppended, AsksStay DEF Asking, Asks
<1>5. Recorded(t)' = Recorded(t)
  BY <1>2, <1>4 DEF Recorded, InHand
<1> HIDE DEF n
<1> DEFINE a == <<"request", r, 0>>
           P == Pending(t) \cup Recorded(t)
           P2 == Pending(t)' \cup Recorded(t)'
<1>6. P2 \subseteq P \cup {a} /\ ExistsInjection(P, Asks(t))
  BY <1>3, <1>5
<1> HIDE DEF a, P, P2
<1>7. ExistsInjection(P2, Asks(t)')
  BY <1>4, <1>6, MatchingExtended
<1> QED
  BY <1>7 DEF P2

\* The reply in hand goes on record, or is lost.
LEMMA RepliesAppended ==
    ASSUME TypeInv, [Next]_vars, NEW t \in Threads,
           ExistsInjection(Pending(t) \cup Recorded(t), Asks(t)),
           NEW c \in Conns, AppendReply(c)
    PROVE  ExistsInjection(Pending(t)' \cup Recorded(t)', Asks(t)')
<1> DEFINE a == <<"cur", c, 0>>
           b == <<"log", t, Len(log[t]) + 1>>
<1>1. UNCHANGED <<writeCh, hooks, up, pc>>
  BY DEF AppendReply, requestVars
<1>2. Pending(t)' \subseteq Pending(t)
  BY <1>1, NobodyAsks, PendingKept DEF flightVars
<1>3. InHand(t)' \subseteq InHand(t) \ {a}
  <2>1. srv'[c] # "append"
    BY DEF AppendReply, AfterAppend, ToReading, TypeInv, TypeOK, ConnTypeOK
  <2>2. \A d \in Conns \ {c} : srv'[d] = srv[d] /\ cur'[d] = cur[d]
    BY DEF AppendReply, AfterAppend, ToReading, TypeInv, TypeOK, ConnTypeOK
  <2> QED
    BY <2>1, <2>2 DEF InHand
<1>4. a \notin Pending(t) /\ a \notin OnRecord(t)
  BY DEF Pending, Sending, Queued, Hooked, Replied, OnRecord
<1>5. ExistsInjection(Pending(t)' \cup Recorded(t)', Pending(t) \cup Recorded(t))
  <2>1. CASE log'[t] = log[t]
    <3>1. Recorded(t)' \subseteq Recorded(t)
      BY <1>3, <2>1 DEF Recorded, OnRecord
    <3>2. Pending(t)' \cup Recorded(t)' \subseteq Pending(t) \cup Recorded(t)
      BY <1>2, <3>1
    <3> QED
      BY <3>2, SubsetMatches
  <2>2. CASE cur[c].thread = t /\ MessagesInsert(t, cur[c].type)
    <3>1. cur[c].type \in MsgTypes /\ a \in InHand(t)
      BY <2>2 DEF AppendReply, TypeInv, InStep, Stored, MsgTypes, InHand
    <3>2. OnRecord(t)' \subseteq OnRecord(t) \cup {b}
      BY <2>2, <3>1, LogAppended
    <3> HIDE DEF a, b
    <3>3. Pending(t)' \cup Recorded(t)' \subseteq ((Pending(t) \cup Recorded(t)) \ {a}) \cup {b}
      BY <1>2, <1>3, <1>4, <3>2 DEF Recorded
    <3>4. a \in Pending(t) \cup Recorded(t)
      BY <3>1 DEF Recorded
    <3> QED
      BY <3>3, <3>4, Replaced
  <2>3. log'[t] = log[t] \/ (cur[c].thread = t /\ MessagesInsert(t, cur[c].type))
    BY DEF AppendReply, MessagesInsert, storeVars, TypeInv, TypeOK, StoreTypeOK, ConvTypeOK
  <2> QED
    BY <2>1, <2>2, <2>3
<1> QED
  BY <1>5, AsksStay, MatchingWidened

\* A reply that is read is in hand, or of a type that is not stored.
LEMMA RepliesRead ==
    ASSUME TypeInv, [Next]_vars, NEW t \in Threads,
           ExistsInjection(Pending(t) \cup Recorded(t), Asks(t)),
           NEW c \in Conns, ReadFrame(c)
    PROVE  ExistsInjection(Pending(t)' \cup Recorded(t)', Asks(t)')
<1> DEFINE a == <<"up", c, 1>>
           b == <<"cur", c, 0>>
<1>1. /\ ExistsInjection(Pending(t)', Pending(t) \ {a})
      /\ Head(up[c]).thread = t => a \in Pending(t)
  BY PendingRead
<1>2. OnRecord(t)' = OnRecord(t)
  BY DEF ReadFrame, OnRecord, storeVars
<1>3. \A d \in Conns \ {c} : srv'[d] = srv[d] /\ cur'[d] = cur[d]
  BY DEF ReadFrame, TypeInv, TypeOK, ConnTypeOK
<1>4. Pending(t) \cap Recorded(t) = {}
  BY PendingIsApart
<1>5. ExistsInjection(Pending(t)' \cup Recorded(t)', Pending(t) \cup Recorded(t))
  <2>1. CASE Head(up[c]).thread = t
    <3>1. Recorded(t)' \subseteq Recorded(t) \cup {b}
      BY <1>2, <1>3 DEF Recorded, InHand
    <3> HIDE DEF a, b
    <3> QED
      BY <1>1, <1>4, <2>1, <3>1, MatchingMoved
  <2>2. CASE Head(up[c]).thread # t
    <3>1. srv'[c] = "append" => cur'[c] = Head(up[c])
      BY DEF ReadFrame, TypeInv, TypeOK, ConnTypeOK
    <3>2. Recorded(t)' \subseteq Recorded(t)
      BY <1>2, <1>3, <2>2, <3>1 DEF Recorded, InHand
    <3> HIDE DEF a
    <3>3. ExistsInjection(Pending(t)', Pending(t))
      BY <1>1, SubsetMatches, Fun_ExistsInjTransitive
    <3> QED
      BY <1>4, <3>2, <3>3, MatchingJoined
  <2> QED
    BY <2>1, <2>2
<1> QED
  BY <1>5, AsksStay, MatchingWidened

LEMMA RepliesStep ==
    ASSUME TypeInv, [Next]_vars, RepliesInv
    PROVE  RepliesInv'
<1> SUFFICES ASSUME NEW t \in Threads
             PROVE  ExistsInjection(Pending(t)' \cup Recorded(t)', Asks(t)')
  BY DEF RepliesInv
<1>1. ExistsInjection(Pending(t) \cup Recorded(t), Asks(t))
  BY DEF RepliesInv
<1>2. CASE \E r \in Threads \cup Clarifications : Asking(r, t)
  BY <1>1, <1>2, RepliesAsked
<1>3. CASE \E c \in Conns : AppendReply(c) \/ ReadFrame(c)
  BY <1>1, <1>3, RepliesAppended, RepliesRead
<1>4. CASE /\ ~ \E r \in Threads \cup Clarifications : Asking(r, t)
           /\ ~ \E c \in Conns : AppendReply(c) \/ ReadFrame(c)
  <2>1. ~ \E r \in Requests : Asking(r, t)
    BY <1>4 DEF Asking, InsertMessage, TypeInv, InStep
  <2>2. ExistsInjection(Pending(t)', Pending(t))
    BY <2>1, PendingStep
  <2>3. log'[t] = log[t]
    BY <1>4, LogMoves
  <2>4. Recorded(t)' \subseteq Recorded(t)
    BY <1>4, <2>3, InHandKept DEF Recorded, InHand, OnRecord
  <2>5. ExistsInjection(Pending(t)' \cup Recorded(t)', Pending(t) \cup Recorded(t))
    BY <2>2, <2>4, PendingIsApart, MatchingJoined
  <2> QED
    BY <1>1, <2>5, AsksStay, MatchingWidened
<1> QED
  BY <1>2, <1>3, <1>4

LEMMA NothingIsPending ==
    ASSUME Init, NEW t \in Threads
    PROVE  Pending(t) = {} /\ Recorded(t) = {} /\ Waiting(t) = {}
<1>1. \A r \in Requests : pc[r] = "idle"
  BY DEF Init
<1>2. \A c \in Conns : /\ srv[c] = "none" /\ writeCh[c] = << >> /\ up[c] = << >>
                       /\ hooks[c][t] = 0
  BY DEF Init
<1>3. log[t] = << >> /\ waiters[t] = -1
  BY DEF Init, StoreInit, ConvInit, RegistryInit, NoWaiter
<1>4. Sending(t) = {} /\ InHand(t) = {}
  BY <1>1, <1>2 DEF Sending, IsSending, InHand, Requests
<1>5. Queued(t) = {} /\ Hooked(t) = {} /\ Replied(t) = {}
  BY <1>2 DEF Queued, Hooked, Replied
<1>6. OnRecord(t) = {} /\ Waiting(t) = {}
  BY <1>3 DEF OnRecord, Waiting
<1> QED
  BY <1>4, <1>5, <1>6 DEF Pending, Recorded

LEMMA RepliesInit == Init => RepliesInv
<1> SUFFICES ASSUME Init, NEW t \in Threads
             PROVE  ExistsInjection(Pending(t) \cup Recorded(t), Asks(t))
  BY DEF RepliesInv
<1>1. Pending(t) \cup Recorded(t) \subseteq Asks(t)
  BY NothingIsPending
<1> QED
  BY <1>1, SubsetMatches

LEMMA RepliesAlways == Spec => []RepliesInv
<1>1. TypeInv /\ RepliesInv /\ [Next]_vars => RepliesInv'
  BY RepliesStep
<1> QED
  BY <1>1, RepliesInit, TypeCorrect, PTL DEF Spec

\* A set that is matched with a finite one is no larger.
LEMMA MatchedIsNoLarger ==
    ASSUME NEW S, NEW T, IsFiniteSet(T), ExistsInjection(S, T)
    PROVE  IsFiniteSet(S) /\ Cardinality(S) <= Cardinality(T)
<1>1. PICK f \in Injection(S, T) : TRUE
  BY DEF ExistsInjection
<1> QED
  BY <1>1, FS_Injection

LEMMA AsksAreFinite ==
    ASSUME TypeInv, NEW t \in Threads
    PROVE  IsFiniteSet(Asks(t))
<1>1. Len(log[t]) \in Nat
  BY DEF TypeInv, TypeOK, StoreTypeOK, ConvTypeOK
<1>2. IsFiniteSet(1 .. Len(log[t]))
  BY <1>1, FS_Interval
<1> QED
  BY <1>2, FS_Subset DEF Asks

\* Whatever is dropped, replaced, lost or restarted, in any order: a thread has
\* no more messages of the buddy on record than messages of the hatchling, so
\* no reply is recorded twice and none before what it replies to.
THEOREM RepliesMatched == Spec => []RepliesAreMatched
<1>1. ASSUME TypeInv, RepliesInv, NEW t \in Threads
      PROVE  Count(t, Stored) <= Count(t, FromHatchling)
  <2> DEFINE S == {i \in 1 .. Len(log[t]) : log[t][i] \in Stored}
             f == [i \in S |-> <<"log", t, i>>]
  <2>1. f \in [S -> Pending(t) \cup Recorded(t)] /\ \A i, j \in S : f[i] = f[j] => i = j
    BY DEF Recorded, OnRecord
  <2>2. ExistsInjection(S, Pending(t) \cup Recorded(t))
    <3> HIDE DEF f, S
    <3> QED
      BY <2>1, FunctionMatches
  <2>3. ExistsInjection(S, Asks(t))
    <3> HIDE DEF S
    <3> QED
      BY <1>1, <2>2, Fun_ExistsInjTransitive DEF RepliesInv
  <2> HIDE DEF S
  <2>4. Cardinality(S) <= Cardinality(Asks(t))
    BY <1>1, <2>3, AsksAreFinite, MatchedIsNoLarger
  <2> QED
    BY <2>4 DEF S, Asks, Count
<1>2. TypeInv /\ RepliesInv => RepliesAreMatched
  BY <1>1 DEF RepliesAreMatched
<1> QED
  BY <1>2, RepliesAlways, TypeCorrect, PTL

-----------------------------------------------------------------------------
(* Waiters.                                                                *)

\* Only a frame that is read about t fills the waiter of t.
LEMMA WaiterFills ==
    ASSUME TypeInv, [Next]_vars, NEW t \in Threads
    PROVE  \/ Waiting(t)' \subseteq Waiting(t)
           \/ \E c \in Conns : ReadFrame(c) /\ Head(up[c]).thread = t
<1>0. waiters \in [Threads -> {-1} \cup 0 .. WaiterCap] /\ WaiterCap \in Nat
  BY WaiterCapAssumption DEF TypeInv, TypeOK, RegistryTypeOK, NoWaiter
<1>1. SUFFICES ASSUME ~ \E c \in Conns : ReadFrame(c) /\ Head(up[c]).thread = t
               PROVE  waiters'[t] = waiters[t] \/ waiters'[t] \in {-1, 0}
  <2>1. CASE waiters'[t] = waiters[t]
    BY <2>1 DEF Waiting
  <2>2. CASE waiters'[t] \in {-1, 0}
    <3>1. 1 .. waiters'[t] = {}
      BY <2>2
    <3> QED
      BY <3>1 DEF Waiting
  <2> QED
    BY <1>1, <2>1, <2>2
<1> USE DEF OthersKept, registryVars
<1>2. CASE Hatchling
  BY <1>2 DEF Hatchling, AskBuddy, StartClarification, StartClose, StartPoll, Disconnect
<1>3. ASSUME NEW r \in Requests, Handler(r), ~ FindWriter(r), ~ FinishClose(r)
      PROVE  waiters' = waiters
  BY <1>3 DEF Handler, OpenStep, OpenThread, CountQuestion, ClarificationStep,
              CountClarification, ExplainRefusal, CloseCapped, SendStep, InsertMessage,
              BumpActivity, PushFrame, CloseStep, CloseThread, PollStep, ReadAgain, ListMessages
<1>4. ASSUME NEW r \in Requests, FindWriter(r)
      PROVE  waiters'[t] = waiters[t] \/ waiters'[t] \in {-1, 0}
  BY <1>0, <1>4 DEF FindWriter, EnsureWaiter, NoWaiter
<1>5. ASSUME NEW r \in Requests, FinishClose(r)
      PROVE  waiters'[t] = waiters[t] \/ waiters'[t] \in {-1, 0}
  BY <1>0, <1>5 DEF FinishClose, ClearWaiter, NoWaiter
<1>6. ASSUME NEW c \in Conns, ReadFrame(c)
      PROVE  waiters'[t] = waiters[t]
  <2>1. Head(up[c]).thread # t
    BY <1>1, <1>6
  <2> QED
    BY <1>0, <1>6, <2>1 DEF ReadFrame, DeliverOutFrame
<1>7. CASE Buddy /\ ~ \E c \in Conns : ReadFrame(c)
  BY <1>7 DEF Buddy, Connect, RegisterBuddy, Cut, WriteFrame, PingTimeout, FinishHook, ReadFails,
              EndConn, Unregister, ReadLoop, AppendReply, BumpReply, CloseReplied
<1>8. CASE Sweeper
  BY <1>8 DEF Sweeper, SweepList, SweepClose, TimePasses
<1>9. CASE Restart
  BY <1>9 DEF Restart, NoWaiter
<1>10. CASE UNCHANGED vars
  BY <1>10 DEF vars
<1> QED
  BY <1>2, <1>3, <1>4, <1>5, <1>6, <1>7, <1>8, <1>9, <1>10 DEF Next

\* A frame that is read takes at most the next place in the waiter.
LEMMA WaitersRead ==
    ASSUME TypeInv, [Next]_vars, NEW t \in Threads,
           NEW c \in Conns, ReadFrame(c), Head(up[c]).thread = t
    PROVE  ExistsInjection(Pending(t)' \cup Waiting(t)', Pending(t) \cup Waiting(t))
<1> DEFINE a == <<"up", c, 1>>
           b == <<"waiter", t, waiters[t] + 1>>
<1>1. a \in Pending(t) /\ ExistsInjection(Pending(t)', Pending(t) \ {a})
  BY PendingRead
<1>2. Waiting(t)' \subseteq Waiting(t) \cup {b}
  <2>1. waiters'[t] = waiters[t] \/ (waiters[t] \in Nat /\ waiters'[t] = waiters[t] + 1)
    BY WaiterCapAssumption DEF ReadFrame, DeliverOutFrame, TypeInv, TypeOK, RegistryTypeOK
  <2>2. \A i \in 1 .. waiters'[t] : i \in 1 .. waiters[t] \/ i = waiters[t] + 1
    BY <2>1
  <2> QED
    BY <2>2 DEF Waiting
<1>3. Pending(t) \cap Waiting(t) = {}
  BY PendingIsApart
<1> HIDE DEF a, b
<1> QED
  BY <1>1, <1>2, <1>3, MatchingMoved

\* A message of the hatchling is one more that a frame may come back for.
LEMMA WaitersAsked ==
    ASSUME TypeInv, [Next]_vars, NEW t \in Threads,
           ExistsInjection(Pending(t) \cup Waiting(t), Asks(t)),
           NEW r \in Threads \cup Clarifications, Asking(r, t)
    PROVE  ExistsInjection(Pending(t)' \cup Waiting(t)', Asks(t)')
<1> DEFINE n == Len(log[t]) + 1
           a == <<"request", r, 0>>
           P == Pending(t) \cup Waiting(t)
           P2 == Pending(t)' \cup Waiting(t)'
<1>1. r \in Requests /\ Kind(r) \in FromHatchling /\ Kind(r) \in MsgTypes
  BY DEF Requests, Kind, FromHatchling, MsgTypes
<1>2. UNCHANGED <<writeCh, hooks, up, waiters>>
  BY DEF Asking, InsertMessage, OthersKept, connVars, registryVars
<1>3. Pending(t)' \subseteq Pending(t) \cup {a} /\ Waiting(t)' = Waiting(t)
  BY <1>1, <1>2, PendingGrows DEF flightVars, Waiting
<1>4. n \in Asks(t)' /\ n \notin Asks(t) /\ Asks(t) \subseteq Asks(t)'
  BY <1>1, LogAppended, AsksStay DEF Asking, Asks
<1>5. P2 \subseteq P \cup {a} /\ ExistsInjection(P, Asks(t))
  BY <1>3
<1> HIDE DEF n, a, P, P2
<1>6. ExistsInjection(P2, Asks(t)')
  BY <1>4, <1>5, MatchingExtended
<1> QED
  BY <1>6 DEF P2

LEMMA WaitersStep ==
    ASSUME TypeInv, [Next]_vars, WaitersInv
    PROVE  WaitersInv'
<1> SUFFICES ASSUME NEW t \in Threads
             PROVE  ExistsInjection(Pending(t)' \cup Waiting(t)', Asks(t)')
  BY DEF WaitersInv
<1>1. ExistsInjection(Pending(t) \cup Waiting(t), Asks(t))
  BY DEF WaitersInv
<1>2. CASE \E r \in Threads \cup Clarifications : Asking(r, t)
  BY <1>1, <1>2, WaitersAsked
<1>3. CASE ~ \E r \in Threads \cup Clarifications : Asking(r, t)
  <2>1. ~ \E r \in Requests : Asking(r, t)
    BY <1>3 DEF Asking, InsertMessage, TypeInv, InStep
  <2>2. ExistsInjection(Pending(t)', Pending(t))
    BY <2>1, PendingStep
  <2>3. ExistsInjection(Pending(t)' \cup Waiting(t)', Pending(t) \cup Waiting(t))
    BY <2>2, WaiterFills, WaitersRead, PendingIsApart, MatchingJoined
  <2> QED
    BY <1>1, <2>3, AsksStay, MatchingWidened
<1> QED
  BY <1>2, <1>3

LEMMA WaitersAlways == Spec => []WaitersInv
<1>1. Init => WaitersInv
  <2> SUFFICES ASSUME Init, NEW t \in Threads
               PROVE  ExistsInjection(Pending(t) \cup Waiting(t), Asks(t))
    BY DEF WaitersInv
  <2>1. Pending(t) \cup Waiting(t) \subseteq Asks(t)
    BY NothingIsPending
  <2> QED
    BY <2>1, SubsetMatches
<1>2. TypeInv /\ WaitersInv /\ [Next]_vars => WaitersInv'
  BY WaitersStep
<1> QED
  BY <1>1, <1>2, TypeCorrect, PTL DEF Spec

-----------------------------------------------------------------------------
(* Turns.                                                                  *)

\* A request moves by a step of its own, or it starts, or a crash ends it.
LEMMA RequestMoves ==
    ASSUME TypeInv, [Next]_vars, NEW r \in Requests
    PROVE  \/ pc'[r] = pc[r] /\ thread'[r] = thread[r]
           \/ Handler(r)
           \/ r \in Threads /\ AskBuddy(r)
           \/ \E t \in Threads : \/ r \in Clarifications /\ StartClarification(r, t)
                                 \/ r \in Closes /\ StartClose(r, t)
                                 \/ r \in Polls /\ StartPoll(r, t)
           \/ pc'[r] = "unseen" /\ pc[r] \in Steps /\ thread'[r] = thread[r]
<1> USE DEF OthersKept, Goto, Finish, TypeInv, TypeOK, RequestTypeOK, requestVars
<1>1. ASSUME NEW q \in Requests, q # r,
             \/ q \in Threads /\ AskBuddy(q)
             \/ \E t \in Threads : \/ StartClarification(q, t) \/ StartClose(q, t)
                                   \/ StartPoll(q, t)
      PROVE  pc'[r] = pc[r] /\ thread'[r] = thread[r]
  BY <1>1 DEF AskBuddy, StartClarification, StartClose, StartPoll
<1>2. ASSUME NEW q \in Requests, Disconnect(q)
      PROVE  pc'[r] = pc[r] /\ thread'[r] = thread[r]
  BY <1>2 DEF Disconnect
<1>3. ASSUME NEW q \in Requests, Handler(q), q # r
      PROVE  pc'[r] = pc[r] /\ thread'[r] = thread[r]
  BY <1>3 DEF Handler, OpenStep, OpenThread, CountQuestion, ClarificationStep,
              CountClarification, ExplainRefusal, CloseCapped, SendStep, InsertMessage,
              BumpActivity, FindWriter, PushFrame, CloseStep, CloseThread, FinishClose,
              PollStep, ReadAgain, ListMessages
<1>4. CASE Buddy
  BY <1>4 DEF Buddy, Connect, Cut, WriteFrame, PingTimeout, FinishHook, ReadFails, EndConn,
              ReadLoop, ReadFrame, AppendReply, BumpReply, CloseReplied
<1>5. CASE Sweeper
  BY <1>5 DEF Sweeper, SweepList, SweepClose, TimePasses
<1>6. CASE Restart
  BY <1>6 DEF Restart, Running
<1>7. CASE UNCHANGED vars
  BY <1>7 DEF vars
<1>8. CASE Hatchling
  BY <1>1, <1>2, <1>8, RequestsAssumption DEF Hatchling, Requests
<1> QED
  BY <1>3, <1>4, <1>5, <1>6, <1>7, <1>8 DEF Next

\* What is answered with a 201 stays so.
LEMMA OpenedStays ==
    ASSUME TypeInv, [Next]_vars, NEW t \in Threads, pc[t] = "201"
    PROVE  pc'[t] = "201"
<1> t \in Requests /\ t \notin Clarifications /\ t \notin Closes /\ t \notin Polls
  BY RequestsAssumption DEF Requests
<1>1. ~ Handler(t) /\ ~ AskBuddy(t)
  BY DEF Handler, OpenStep, OpenThread, CountQuestion, SendStep, InsertMessage, BumpActivity,
         FindWriter, PushFrame, AskBuddy
<1> QED
  BY <1>1, RequestMoves DEF Steps

\* The messages about a thread that count: no other request is about it before
\* the hatchling has its 201, and until then it logs the question at most, once.
KnowsThread ==
    \A r \in Requests \ Threads :
        pc[r] # "idle" => thread[r] \in Threads /\ pc[thread[r]] = "201"

AsksFirst(t) ==
    /\ pc[t] \in {"idle", "insert", "append"} => Asks(t) = {}
    /\ pc[t] # "201" => /\ \A i \in Asks(t) : log[t][i] = "question"
                        /\ \A i, j \in Asks(t) : i = j

FirstInv == KnowsThread /\ \A t \in Threads : AsksFirst(t)

LEMMA KnowsThreadStep ==
    ASSUME TypeInv, [Next]_vars, KnowsThread
    PROVE  KnowsThread'
<1> SUFFICES ASSUME NEW r \in Requests, r \notin Threads, pc'[r] # "idle"
             PROVE  thread'[r] \in Threads /\ pc'[thread'[r]] = "201"
  BY DEF KnowsThread, Requests
<1>1. CASE pc[r] # "idle" /\ thread'[r] = thread[r]
  BY <1>1, OpenedStays DEF KnowsThread
<1>2. ASSUME NEW t \in Threads, pc[t] = "201", thread'[r] = t
      PROVE  thread'[r] \in Threads /\ pc'[thread'[r]] = "201"
  BY <1>2, OpenedStays
<1>3. CASE \E t \in Threads : StartClarification(r, t) \/ StartClose(r, t) \/ StartPoll(r, t)
  <2>1. PICK t \in Threads : StartClarification(r, t) \/ StartClose(r, t) \/ StartPoll(r, t)
    BY <1>3
  <2>2. pc[t] = "201" /\ thread'[r] = t
    BY <2>1 DEF StartClarification, StartClose, StartPoll, TypeInv, TypeOK, RequestTypeOK
  <2> QED
    BY <1>2, <2>2
<1>4. CASE Handler(r)
  <2>1. pc[r] # "idle" /\ thread' = thread
    BY <1>4 DEF Handler, OpenStep, OpenThread, CountQuestion, ClarificationStep,
              CountClarification, ExplainRefusal, CloseCapped, SendStep, InsertMessage,
              BumpActivity, FindWriter, PushFrame, CloseStep, CloseThread, FinishClose,
              PollStep, ReadAgain, ListMessages, OthersKept
  <2> QED
    BY <1>1, <2>1
<1> QED
  BY <1>1, <1>3, <1>4, RequestMoves DEF Steps

\* A message that is logged is one more, and its request goes on.
LEMMA AskingGoesOn ==
    ASSUME TypeInv, NEW t \in Threads, NEW r \in Requests, Asking(r, t)
    PROVE  log'[t] # log[t] /\ pc'[r] = "bump"
<1>1. log[t] \in Seq(MsgTypes) /\ log \in [Threads -> Seq(MsgTypes)]
  BY DEF TypeInv, TypeOK, StoreTypeOK, ConvTypeOK
<1>2. log'[t] = Append(log[t], Kind(r))
  BY <1>1 DEF Asking, MessagesInsert
<1>3. Len(log'[t]) = Len(log[t]) + 1 /\ Len(log[t]) \in Nat
  BY <1>1, <1>2
<1>4. log'[t] # log[t]
  BY <1>3
<1>5. Goto(r, "bump")
  BY <1>4 DEF Asking, InsertMessage, storeVars
<1> QED
  BY <1>4, <1>5 DEF Goto, TypeInv, TypeOK, RequestTypeOK

\* What is added to the messages that count.
LEMMA AsksGrow ==
    ASSUME TypeInv, [Next]_vars, NEW t \in Threads
    PROVE  \/ /\ Asks(t)' = Asks(t)
              /\ \A i \in Asks(t) : log'[t][i] = log[t][i]
              /\ ~ \E r \in Requests : Asking(r, t)
           \/ \E r \in Threads \cup Clarifications :
                  /\ Asking(r, t)
                  /\ Asks(t)' \subseteq Asks(t) \cup {Len(log[t]) + 1}
                  /\ log'[t][Len(log[t]) + 1] = Kind(r)
<1>1. log[t] \in Seq(MsgTypes) /\ log \in [Threads -> Seq(MsgTypes)]
  BY DEF TypeInv, TypeOK, StoreTypeOK, ConvTypeOK
<1>2. ASSUME NEW r \in Threads \cup Clarifications, Asking(r, t)
      PROVE  /\ Asks(t)' \subseteq Asks(t) \cup {Len(log[t]) + 1}
             /\ log'[t][Len(log[t]) + 1] = Kind(r)
  <2>1. Kind(r) \in MsgTypes
    BY DEF Kind, MsgTypes
  <2>2. log'[t] = Append(log[t], Kind(r))
    BY <1>1, <1>2 DEF Asking, MessagesInsert
  <2> QED
    BY <1>1, <1>2, <2>1, <2>2, LogAppended DEF Asking
<1>3. ASSUME NEW m \in MsgTypes, m \notin FromHatchling, MessagesInsert(t, m)
      PROVE  Asks(t)' = Asks(t) /\ \A i \in Asks(t) : log'[t][i] = log[t][i]
  <2>1. log'[t] = Append(log[t], m)
    BY <1>1, <1>3 DEF MessagesInsert
  <2>2. \A i \in 1 .. Len(log[t]) : log'[t][i] = log[t][i]
    BY <1>1, <2>1
  <2>3. Asks(t)' = Asks(t)
    BY <1>3, LogAppended
  <2> QED
    BY <2>2, <2>3 DEF Asks
<1>4. ASSUME NEW c \in Conns, AppendReply(c), cur[c].thread = t, MessagesInsert(t, cur[c].type)
      PROVE  /\ Asks(t)' = Asks(t) /\ \A i \in Asks(t) : log'[t][i] = log[t][i]
             /\ ~ \E r \in Requests : Asking(r, t)
  <2>1. cur[c].type \in MsgTypes /\ cur[c].type \notin FromHatchling
    BY <1>4 DEF AppendReply, TypeInv, InStep, Stored, MsgTypes, FromHatchling
  <2>2. UNCHANGED pc
    BY <1>4 DEF AppendReply, requestVars
  <2> QED
    BY <1>3, <1>4, <2>1, <2>2, NobodyAsks
<1>5. CASE log'[t] = log[t]
  <2>1. ~ \E r \in Requests : Asking(r, t)
    BY <1>5, AskingGoesOn
  <2> QED
    BY <1>5, <2>1 DEF Asks
<1> QED
  BY <1>2, <1>4, <1>5, LogMoves

LEMMA AsksFirstStep ==
    ASSUME TypeInv, [Next]_vars, FirstInv, NEW t \in Threads
    PROVE  AsksFirst(t)'
<1> t \in Requests /\ thread[t] = t /\ t \notin Clarifications
  BY RequestsAssumption DEF TypeInv, InStep, Requests
<1>0. AsksFirst(t)
  BY DEF FirstInv
<1>1. CASE \E r \in Threads \cup Clarifications : Asking(r, t)
  <2>1. PICK r \in Threads \cup Clarifications :
            /\ Asking(r, t)
            /\ Asks(t)' \subseteq Asks(t) \cup {Len(log[t]) + 1}
            /\ log'[t][Len(log[t]) + 1] = Kind(r)
    BY <1>1, AsksGrow DEF Requests
  <2>2. CASE r \in Clarifications
    <3>1. pc[t] = "201"
      BY <2>1, <2>2, RequestsAssumption DEF Asking, InsertMessage, FirstInv, KnowsThread, Requests
    <3>2. pc'[t] = "201"
      BY <3>1, OpenedStays
    <3> QED
      BY <3>2 DEF AsksFirst
  <2>3. CASE r \in Threads
    <3>1. r = t /\ pc[t] = "append" /\ pc'[t] = "bump"
      BY <2>1, <2>3, AskingGoesOn DEF Asking, InsertMessage, TypeInv, InStep, Requests
    <3>2. Asks(t) = {} /\ Kind(r) = "question"
      BY <1>0, <3>1 DEF AsksFirst, Kind
    <3>3. Asks(t)' \subseteq {Len(log[t]) + 1}
      BY <2>1, <3>2
    <3> QED
      BY <2>1, <3>1, <3>2, <3>3 DEF AsksFirst
  <2> QED
    BY <2>2, <2>3
<1>2. CASE ~ \E r \in Threads \cup Clarifications : Asking(r, t)
  <2>1. Asks(t)' = Asks(t) /\ \A i \in Asks(t) : log'[t][i] = log[t][i]
    BY <1>2, AsksGrow
  <2>2. pc'[t] \in {"idle", "insert", "append"} => pc[t] \in {"idle", "insert", "append"}
    <3>1. pc'[t] = pc[t] \/ Handler(t) \/ AskBuddy(t) \/ pc'[t] = "unseen"
      BY RequestMoves, RequestsAssumption
    <3> QED
      BY <3>1, RequestsAssumption
      DEF Handler, OpenStep, OpenThread, CountQuestion, SendStep, InsertMessage, BumpActivity,
          FindWriter, PushFrame, AskBuddy, Goto, Finish, TypeInv, TypeOK, RequestTypeOK, Requests
  <2>3. pc'[t] # "201" => pc[t] # "201"
    BY OpenedStays
  <2> QED
    BY <1>0, <2>1, <2>2, <2>3 DEF AsksFirst
<1> QED
  BY <1>1, <1>2

LEMMA FirstAlways == Spec => []FirstInv
<1>1. Init => FirstInv
  <2> SUFFICES ASSUME Init PROVE FirstInv
    OBVIOUS
  <2>1. \A r \in Requests : pc[r] = "idle"
    BY DEF Init
  <2>2. \A t \in Threads : log[t] = << >>
    BY DEF Init, StoreInit, ConvInit
  <2>3. ASSUME NEW t \in Threads PROVE Asks(t) = {}
    <3>1. Len(log[t]) = 0
      BY <2>2
    <3> QED
      BY <3>1 DEF Asks
  <2> QED
    BY <2>1, <2>3 DEF FirstInv, KnowsThread, AsksFirst
<1>2. TypeInv /\ FirstInv /\ [Next]_vars => FirstInv'
  BY KnowsThreadStep, AsksFirstStep DEF FirstInv
<1> QED
  BY <1>1, <1>2, TypeCorrect, PTL DEF Spec

\* What was charged to a thread: a message of the hatchling on record, or a
\* clarification that took its turn and is still to be logged.
Paying(t) == {"request"} \X {r \in Clarifications : pc[r] = "append" /\ thread[r] = t} \X {0}

Charged(t) == ({"log"} \X {t} \X Asks(t)) \cup Paying(t)

\* Once the question was counted, everything charged has a turn of its own.
PaidInv ==
    \A t \in Threads :
        pc[t] \in {"lookup", "push", "201"} => ExistsInjection(Charged(t), 1 .. turns[t])

\* A clarification is about to be logged only when it has taken its turn.
LEMMA PayingMoves ==
    ASSUME TypeInv, [Next]_vars, NEW r \in Clarifications, pc'[r] = "append"
    PROVE  \/ pc[r] = "append" /\ thread'[r] = thread[r]
           \/ /\ CountClarification(r) /\ ThreadsIncrementTurns(thread[r])
              /\ thread'[r] = thread[r]
<1> r \in Requests /\ r \notin Threads /\ r \notin Closes /\ r \notin Polls
  BY RequestsAssumption DEF Requests
<1> USE DEF Goto, Finish, TypeInv, TypeOK, RequestTypeOK
<1>1. CASE Handler(r)
  <2>1. ClarificationStep(r) \/ SendStep(r)
    BY <1>1 DEF Handler
  <2>2. thread' = thread
    BY <2>1 DEF ClarificationStep, CountClarification, ExplainRefusal, CloseCapped, SendStep,
                InsertMessage, BumpActivity, FindWriter, PushFrame, OthersKept
  <2>3. CASE CountClarification(r)
    BY <2>2, <2>3 DEF CountClarification
  <2>4. CASE ~ CountClarification(r)
    BY <2>1, <2>2, <2>4 DEF ClarificationStep, ExplainRefusal, CloseCapped, SendStep,
                            InsertMessage, BumpActivity, FindWriter, PushFrame
  <2> QED
    BY <2>3, <2>4
<1>2. ASSUME NEW t \in Threads, StartClarification(r, t)
      PROVE  FALSE
  BY <1>2 DEF StartClarification
<1> QED
  BY <1>1, <1>2, RequestMoves

\* An opener comes to the steps after IncrementTurns only by way of it.
LEMMA OpenersCount ==
    ASSUME TypeInv, [Next]_vars, NEW t \in Threads, pc'[t] \in {"lookup", "push", "201"}
    PROVE  \/ pc[t] \in {"lookup", "push", "201"}
           \/ CountQuestion(t) /\ ThreadsIncrementTurns(t)
<1> t \in Requests /\ t \notin Clarifications /\ t \notin Closes /\ t \notin Polls
  BY RequestsAssumption DEF Requests
<1>1. CASE Handler(t)
  <2>1. OpenStep(t) \/ SendStep(t)
    BY <1>1 DEF Handler
  <2> QED
    BY <2>1 DEF OpenStep, OpenThread, CountQuestion, SendStep, InsertMessage, BumpActivity,
                FindWriter, PushFrame, Goto, Finish, TypeInv, TypeOK, RequestTypeOK
<1>2. CASE AskBuddy(t)
  BY <1>2 DEF AskBuddy, Goto, Finish, TypeInv, TypeOK, RequestTypeOK
<1> QED
  BY <1>1, <1>2, RequestMoves

\* One turn more.
LEMMA TurnTaken ==
    ASSUME TypeInv, NEW t \in Threads, ThreadsIncrementTurns(t)
    PROVE  /\ turns[t] \in Nat /\ turns'[t] = turns[t] + 1
           /\ 1 .. turns[t] \subseteq 1 .. turns'[t]
           /\ turns'[t] \in 1 .. turns'[t] /\ turns'[t] \notin 1 .. turns[t]
<1>1. turns[t] \in Nat /\ turns'[t] = turns[t] + 1
  BY MaxTurnsAssumption DEF ThreadsIncrementTurns, TypeInv, TypeOK, StoreTypeOK, ConvTypeOK
<1> QED
  BY <1>1

LEMMA TurnsStay ==
    ASSUME TypeInv, [Next]_vars, NEW t \in Threads
    PROVE  1 .. turns[t] \subseteq 1 .. turns'[t]
<1>1. turns[t] \in Nat /\ turns'[t] \in {turns[t], turns[t] + 1}
  BY StepIsStatement, StatementKeepsHistory, MaxTurnsAssumption
  DEF HistoryIsKept, TypeInv, TypeOK, StoreTypeOK, ConvTypeOK
<1> QED
  BY <1>1

\* The question takes the first turn: nothing else was charged before it.
LEMMA QuestionPaid ==
    ASSUME TypeInv, [Next]_vars, FirstInv, NEW t \in Threads,
           CountQuestion(t), ThreadsIncrementTurns(t)
    PROVE  ExistsInjection(Charged(t)', 1 .. turns'[t])
<1> t \in Requests /\ t \notin Clarifications
  BY RequestsAssumption DEF Requests
<1>1. pc[t] = "incr" /\ UNCHANGED <<thread, log>>
  BY DEF CountQuestion, OthersKept, ThreadsIncrementTurns
<1>2. Paying(t)' = {}
  <2> SUFFICES ASSUME NEW r \in Clarifications, pc'[r] = "append", thread'[r] = t
               PROVE  FALSE
    BY DEF Paying
  <2>1. pc'[r] = pc[r] /\ r \in Requests \ Threads
    BY RequestsAssumption
    DEF CountQuestion, Goto, Finish, TypeInv, TypeOK, RequestTypeOK, Requests
  <2> QED
    BY <1>1, <2>1 DEF FirstInv, KnowsThread
<1>3. Asks(t)' = Asks(t) /\ \A i, j \in Asks(t) : i = j
  BY <1>1 DEF FirstInv, AsksFirst, Asks
<1>4. CASE Asks(t) = {}
  <2>1. Charged(t)' = {}
    BY <1>2, <1>3, <1>4 DEF Charged
  <2> QED
    BY <2>1, SubsetMatches
<1>5. ASSUME NEW i \in Asks(t)
      PROVE  ExistsInjection(Charged(t)', 1 .. turns'[t])
  <2> DEFINE a == <<"log", t, i>>
             b == turns'[t]
             S2 == Charged(t)'
             T2 == 1 .. turns'[t]
  <2>1. S2 \subseteq {} \cup {a}
    BY <1>2, <1>3 DEF Charged
  <2>2. b \in T2
    BY TurnTaken
  <2>3. ExistsInjection({}, {})
    BY SubsetMatches
  <2> HIDE DEF a, b, S2, T2
  <2>4. ExistsInjection(S2, T2)
    BY <2>1, <2>2, <2>3, MatchingExtended
  <2> QED
    BY <2>4 DEF S2, T2
<1> QED
  BY <1>4, <1>5

\* A clarification takes a turn before it is logged.
LEMMA ClarificationPaid ==
    ASSUME TypeInv, [Next]_vars, NEW t \in Threads,
           ExistsInjection(Charged(t), 1 .. turns[t]),
           NEW r \in Clarifications, CountClarification(r), thread[r] = t,
           ThreadsIncrementTurns(t)
    PROVE  ExistsInjection(Charged(t)', 1 .. turns'[t])
<1> DEFINE a == <<"request", r, 0>>
           b == turns'[t]
           S == Charged(t)
           S2 == Charged(t)'
           T == 1 .. turns[t]
           T2 == 1 .. turns'[t]
<1>1. Asks(t)' = Asks(t) /\ thread' = thread
  BY DEF CountClarification, ThreadsIncrementTurns, OthersKept, Asks
<1>2. \A q \in Clarifications \ {r} : pc'[q] = pc[q]
  BY DEF CountClarification, Goto, TypeInv, TypeOK, RequestTypeOK, Requests
<1>3. S2 \subseteq S \cup {a}
  BY <1>1, <1>2 DEF Charged, Paying
<1>4. T \subseteq T2 /\ b \in T2 /\ b \notin T
  BY TurnTaken
<1>5. ExistsInjection(S, T)
  OBVIOUS
<1> HIDE DEF a, b, S, S2, T, T2
<1>6. ExistsInjection(S2, T2)
  BY ONLY <1>3, <1>4, <1>5, MatchingExtended
<1> QED
  BY <1>6 DEF S2, T2

\* A clarification that is logged is no longer about to be.
LEMMA ChargedAsks ==
    ASSUME TypeInv, [Next]_vars, NEW t \in Threads, NEW r \in Clarifications, Asking(r, t)
    PROVE  ExistsInjection(Charged(t)', Charged(t))
<1> DEFINE a == <<"request", r, 0>>
           b == <<"log", t, Len(log[t]) + 1>>
           S == Charged(t)
           S2 == Charged(t)'
<1> r \in Requests
  BY DEF Requests
<1>1. Kind(r) \in MsgTypes
  BY DEF Kind, MsgTypes
<1>2. Asks(t)' \subseteq Asks(t) \cup {Len(log[t]) + 1}
  BY <1>1, LogAppended DEF Asking
<1>3. pc'[r] = "bump" /\ thread' = thread
  BY AskingGoesOn DEF Asking, InsertMessage, OthersKept
<1>4. \A q \in Clarifications \ {r} : pc'[q] = pc[q]
  BY DEF Asking, InsertMessage, Goto, Finish, TypeInv, TypeOK, RequestTypeOK, Requests
<1>5. Paying(t)' \subseteq Paying(t) \ {a}
  BY <1>3, <1>4 DEF Paying
<1>6. a \in S
  BY DEF Charged, Paying, Asking, InsertMessage
<1>7. S2 \subseteq (S \ {a}) \cup {b}
  BY <1>2, <1>5 DEF Charged
<1> HIDE DEF a, b, S, S2
<1>8. ExistsInjection(S2, S)
  BY <1>6, <1>7, Replaced
<1> QED
  BY <1>8 DEF S, S2

LEMMA PaidStays ==
    ASSUME TypeInv, [Next]_vars, NEW t \in Threads,
           ExistsInjection(Charged(t), 1 .. turns[t]), ExistsInjection(Charged(t)', Charged(t))
    PROVE  ExistsInjection(Charged(t)', 1 .. turns'[t])
<1> DEFINE S == Charged(t)
           S2 == Charged(t)'
           T == 1 .. turns[t]
           T2 == 1 .. turns'[t]
<1>1. ExistsInjection(S, T) /\ ExistsInjection(S2, S) /\ T \subseteq T2
  BY TurnsStay
<1> HIDE DEF S, S2, T, T2
<1>2. ExistsInjection(S2, T2)
  BY <1>1, MatchingWidened
<1> QED
  BY <1>2 DEF S2, T2

LEMMA PaidStep ==
    ASSUME TypeInv, [Next]_vars, FirstInv, PaidInv
    PROVE  PaidInv'
<1> SUFFICES ASSUME NEW t \in Threads, pc'[t] \in {"lookup", "push", "201"}
             PROVE  ExistsInjection(Charged(t)', 1 .. turns'[t])
  BY DEF PaidInv
<1>1. CASE CountQuestion(t) /\ ThreadsIncrementTurns(t)
  BY <1>1, QuestionPaid
<1>2. CASE pc[t] \in {"lookup", "push", "201"}
  <2>1. ExistsInjection(Charged(t), 1 .. turns[t])
    BY <1>2 DEF PaidInv
  <2>2. CASE \E r \in Clarifications :
                 CountClarification(r) /\ thread[r] = t /\ ThreadsIncrementTurns(t)
    BY <2>1, <2>2, ClarificationPaid
  <2>3. CASE \E r \in Clarifications : Asking(r, t)
    BY <2>1, <2>3, ChargedAsks, PaidStays
  <2>4. CASE /\ ~ \E r \in Clarifications : Asking(r, t)
             /\ ~ \E r \in Clarifications :
                      CountClarification(r) /\ thread[r] = t /\ ThreadsIncrementTurns(t)
    <3>1. ~ \E r \in Threads \cup Clarifications : Asking(r, t)
      <4>1. ASSUME NEW r \in Threads, Asking(r, t) PROVE FALSE
        BY <1>2, <4>1 DEF Asking, InsertMessage, TypeInv, InStep
      <4> QED
        BY <2>4, <4>1
    <3>2. Asks(t)' = Asks(t)
      BY <3>1, AsksGrow
    <3>3. Paying(t)' \subseteq Paying(t)
      BY <2>4, PayingMoves DEF Paying
    <3>4. Charged(t)' \subseteq Charged(t)
      BY <3>2, <3>3 DEF Charged
    <3> QED
      BY <2>1, <3>4, SubsetMatches, PaidStays
  <2> QED
    BY <2>2, <2>3, <2>4
<1> QED
  BY <1>1, <1>2, OpenersCount

LEMMA PaidAlways == Spec => []PaidInv
<1>1. Init => PaidInv
  BY DEF Init, PaidInv, Requests
<1>2. TypeInv /\ FirstInv /\ PaidInv /\ [Next]_vars => PaidInv'
  BY PaidStep
<1> QED
  BY <1>1, <1>2, FirstAlways, TypeCorrect, PTL DEF Spec

\* Clarifications come after the 201, so after the question was counted: every
\* clarification on record has a turn of its own besides the question's, with
\* any number of clarifications at once, refused, cut off or half done.
THEOREM ClarificationsPaid == Spec => []ClarificationsArePaid
<1>1. ASSUME TypeInv, FirstInv, PaidInv, NEW t \in Threads, Count(t, {"clarification"}) > 0
      PROVE  Count(t, FromHatchling) <= turns[t]
  <2> DEFINE f == [i \in Asks(t) |-> <<"log", t, i>>]
             T == 1 .. turns[t]
  <2>1. turns[t] \in Nat
    BY <1>1, MaxTurnsAssumption DEF TypeInv, TypeOK, StoreTypeOK, ConvTypeOK
  <2>2. pc[t] = "201"
    <3> DEFINE S == {i \in 1 .. Len(log[t]) : log[t][i] \in {"clarification"}}
    <3>1. S # {}
      <4>1. Cardinality(S) > 0
        BY <1>1 DEF Count
      <4> HIDE DEF S
      <4> QED
        BY <4>1, FS_EmptySet
    <3>2. PICK i \in 1 .. Len(log[t]) : log[t][i] = "clarification"
      BY <3>1
    <3>3. i \in Asks(t)
      BY <3>2 DEF Asks, FromHatchling
    <3> QED
      BY <1>1, <3>2, <3>3 DEF FirstInv, AsksFirst
  <2>3. ExistsInjection(Charged(t), T)
    BY <1>1, <2>2 DEF PaidInv
  <2>4. f \in [Asks(t) -> Charged(t)] /\ \A i, j \in Asks(t) : f[i] = f[j] => i = j
    BY DEF Charged
  <2> HIDE DEF f
  <2>5. ExistsInjection(Asks(t), Charged(t))
    BY <2>4, FunctionMatches
  <2>6. IsFiniteSet(T) /\ Cardinality(T) = turns[t]
    BY <2>1, FS_Interval
  <2> HIDE DEF T
  <2>7. Cardinality(Asks(t)) <= Cardinality(T)
    BY <2>3, <2>5, <2>6, Fun_ExistsInjTransitive, MatchedIsNoLarger
  <2> QED
    BY <2>6, <2>7 DEF Count, Asks
<1>2. TypeInv /\ FirstInv /\ PaidInv => ClarificationsArePaid
  BY <1>1 DEF ClarificationsArePaid
<1> QED
  BY <1>2, FirstAlways, PaidAlways, TypeCorrect, PTL

\* No thread has more messages of the hatchling than turns.
LEMMA AsksAreFew ==
    ASSUME TypeInv, FirstInv, PaidInv, NEW t \in Threads
    PROVE  ExistsInjection(Asks(t), 1 .. MaxTurns)
<1> DEFINE T == 1 .. turns[t]
           M == 1 .. MaxTurns
<1>1. turns[t] \in 0 .. MaxTurns /\ T \subseteq M /\ 1 \in M
  BY MaxTurnsAssumption DEF TypeInv, TypeOK, StoreTypeOK, ConvTypeOK
<1>2. CASE pc[t] = "201"
  <2> DEFINE f == [i \in Asks(t) |-> <<"log", t, i>>]
  <2>1. f \in [Asks(t) -> Charged(t)] /\ \A i, j \in Asks(t) : f[i] = f[j] => i = j
    BY DEF Charged
  <2> HIDE DEF f
  <2>2. ExistsInjection(Asks(t), Charged(t))
    BY <2>1, FunctionMatches
  <2>3. ExistsInjection(Charged(t), T)
    BY <1>2 DEF PaidInv
  <2> HIDE DEF T, M
  <2> QED
    BY <1>1, <2>2, <2>3, MatchingWidened DEF M
<1>3. CASE pc[t] # "201"
  <2> DEFINE g == [i \in Asks(t) |-> 1]
  <2>1. g \in [Asks(t) -> M] /\ \A i, j \in Asks(t) : g[i] = g[j] => i = j
    BY <1>1, <1>3 DEF FirstInv, AsksFirst
  <2> HIDE DEF g, M
  <2> QED
    BY <2>1, FunctionMatches DEF M
<1> QED
  BY <1>2, <1>3

\* Nothing drains a waiter in production, and yet a reply that is about to be
\* delivered finds room in it as long as the turn cap is no larger than the
\* waiter: the frames in it and the one at hand came back for different
\* messages of the hatchling, and those took turns.  The code has a cap of 3
\* turns and waiters for 4 frames.
THEOREM WaitersHaveRoom == MaxTurns <= WaiterCap /\ Spec => []WaiterHasRoom
<1> SUFFICES ASSUME MaxTurns <= WaiterCap
             PROVE  Spec => []WaiterHasRoom
  OBVIOUS
<1>1. ASSUME TypeInv, WaitersInv, FirstInv, PaidInv,
             NEW c \in Conns, srv[c] = "reading", up[c] # << >>
      PROVE  waiters[Head(up[c]).thread] < WaiterCap
  <2> DEFINE t == Head(up[c]).thread
             a == <<"up", c, 1>>
             n == waiters[t] + 1
             W == Pending(t) \cup Waiting(t)
             f == [i \in 1 .. n |-> IF i = n THEN a ELSE <<"waiter", t, i>>]
  <2>1. t \in Threads /\ a \in Replied(t)
    <3>1. up[c] \in Seq(OutFrames)
      BY <1>1 DEF TypeInv, TypeOK, ConnTypeOK
    <3>2. 1 \in 1 .. Len(up[c]) /\ Head(up[c]) = up[c][1] /\ Head(up[c]) \in OutFrames
      BY <1>1, <3>1
    <3> QED
      BY <3>2 DEF Replied, OutFrames
  <2>2. waiters[t] \in {-1} \cup Nat /\ WaiterCap \in Nat /\ MaxTurns \in Nat \ {0}
    BY <1>1, <2>1, WaiterCapAssumption, MaxTurnsAssumption
    DEF TypeInv, TypeOK, RegistryTypeOK, NoWaiter
  <2>3. CASE waiters[t] = -1
    BY <2>2, <2>3
  <2>4. CASE waiters[t] \in Nat
    <3>1. n \in Nat
      BY <2>4
    <3>2. \A i \in 1 .. n : i # n => i \in 1 .. waiters[t]
      BY <2>4
    <3>3. f \in [1 .. n -> W]
      BY <2>1, <3>2 DEF Pending, Waiting
    <3>4. \A i, j \in 1 .. n : f[i] = f[j] => i = j
      OBVIOUS
    <3> HIDE DEF f, W
    <3>5. ExistsInjection(1 .. n, W)
      BY <3>3, <3>4, FunctionMatches
    <3>6. ExistsInjection(W, Asks(t)) /\ ExistsInjection(Asks(t), 1 .. MaxTurns)
      BY <1>1, <2>1, AsksAreFew DEF WaitersInv, W
    <3> HIDE DEF n, t
    <3>7. ExistsInjection(1 .. n, 1 .. MaxTurns)
      BY <3>5, <3>6, Fun_ExistsInjTransitive
    <3>8. n <= MaxTurns
      BY <2>2, <3>1, <3>7, Fun_NatInjLeq
    <3> QED
      BY <2>2, <3>8 DEF n, t
  <2> QED
    BY <2>2, <2>3, <2>4
<1>2. TypeInv /\ WaitersInv /\ FirstInv /\ PaidInv => WaiterHasRoom
  BY <1>1 DEF WaiterHasRoom
<1> QED
  BY <1>2, WaitersAlways, FirstAlways, PaidAlways, TypeCorrect, PTL

-----------------------------------------------------------------------------
(* The relay implements module Conversation.  With no database error, every *)
(* statement of a handler, a read loop or the sweeper is one of the four   *)
(* steps that a thread promises, or changes nothing that the two agents    *)
(* can see.                                                                *)

\* A thread with a message exists; past the INSERT of the question it has one.
LogInv ==
    \A t \in Threads :
        /\ log[t] # << >> => status[t] # "none"
        /\ pc[t] \in {"bump", "incr", "lookup", "push", "201"} => log[t] # << >>

\* A clarification that is about to report the cap was refused by the WHERE
\* clause, unless its hatchling is gone: then it closes nothing.
CapInv ==
    dbErrors = 0 =>
        \A r \in Clarifications :
            pc[r] \in {"why", "cap"} /\ r \notin gone =>
                status[thread[r]] = "closed" \/ turns[thread[r]] = MaxTurns

\* A message in hand or on record was preceded by one of the hatchling.
LEMMA RecordedIsAsked ==
    ASSUME RepliesInv, NEW t \in Threads, Asks(t) = {}
    PROVE  Recorded(t) = {}
<1>1. PICK f \in [Pending(t) \cup Recorded(t) -> Asks(t)] :
          \A x, y \in Pending(t) \cup Recorded(t) : f[x] = f[y] => x = y
  BY MatchingFunction DEF RepliesInv
<1> QED
  BY <1>1

\* Until the hatchling's question is on record the log is empty.
LEMMA NothingLoggedFirst ==
    ASSUME TypeInv, RepliesInv, NEW t \in Threads, Asks(t) = {}
    PROVE  log[t] = << >>
<1>1. log[t] \in Seq(MsgTypes)
  BY DEF TypeInv, TypeOK, StoreTypeOK, ConvTypeOK
<1>2. OnRecord(t) = {}
  BY RecordedIsAsked DEF Recorded
<1>3. ASSUME log[t] # << >> PROVE FALSE
  <2>1. 1 \in 1 .. Len(log[t]) /\ log[t][1] \in MsgTypes
    BY <1>1, <1>3
  <2>2. log[t][1] \in Stored \cup FromHatchling
    BY <2>1 DEF MsgTypes, Stored, FromHatchling
  <2>3. <<"log", t, 1>> \in OnRecord(t) \/ 1 \in Asks(t)
    BY <2>1, <2>2 DEF OnRecord, Asks
  <2> QED
    BY <1>2, <2>3
<1> QED
  BY <1>3

\* An opener comes to the steps after its message only by way of it.
LEMMA OpenersAsk ==
    ASSUME TypeInv, [Next]_vars, NEW t \in Threads,
           pc'[t] \in {"bump", "incr", "lookup", "push", "201"}
    PROVE  \/ pc[t] \in {"bump", "incr", "lookup", "push", "201"}
           \/ Asking(t, t)
<1> t \in Requests /\ t \notin Clarifications /\ t \notin Closes /\ t \notin Polls
  BY RequestsAssumption DEF Requests
<1>1. CASE Handler(t)
  <2>1. OpenStep(t) \/ SendStep(t)
    BY <1>1 DEF Handler
  <2> QED
    BY <2>1 DEF OpenStep, OpenThread, CountQuestion, SendStep, InsertMessage, BumpActivity,
                FindWriter, PushFrame, Goto, Finish, TypeInv, TypeOK, RequestTypeOK, InStep,
                Asking
<1>2. CASE AskBuddy(t)
  BY <1>2 DEF AskBuddy, Goto, Finish, TypeInv, TypeOK, RequestTypeOK
<1> QED
  BY <1>1, <1>2, RequestMoves

\* A log that has a message keeps one.
LEMMA LogStays ==
    ASSUME TypeInv, [Next]_vars, NEW t \in Threads, log[t] # << >>
    PROVE  log'[t] # << >>
<1>1. HistoryIsKept(t) /\ log[t] \in Seq(MsgTypes)
  BY StepIsStatement, StatementKeepsHistory DEF TypeInv, TypeOK, StoreTypeOK, ConvTypeOK
<1>2. ASSUME NEW m \in MsgTypes, log'[t] = Append(log[t], m)
      PROVE  log'[t] # << >>
  <2>1. Len(log'[t]) = Len(log[t]) + 1 /\ Len(log[t]) \in Nat
    BY <1>1, <1>2
  <2> QED
    BY <2>1
<1> QED
  BY <1>1, <1>2 DEF HistoryIsKept

LEMMA LogInvStep ==
    ASSUME TypeInv, [Next]_vars, LogInv, ThreadsExist, FirstInv, RepliesInv
    PROVE  LogInv'
<1> SUFFICES ASSUME NEW t \in Threads
             PROVE  /\ log'[t] # << >> => status'[t] # "none"
                    /\ pc'[t] \in {"bump", "incr", "lookup", "push", "201"} => log'[t] # << >>
  BY DEF LogInv
<1>1. ASSUME NEW r \in Threads \cup Clarifications, Asking(r, t)
      PROVE  status[t] # "none" /\ log'[t] # << >>
  <2>1. pc[t] \in {"append", "201"}
    BY <1>1, RequestsAssumption
    DEF Asking, InsertMessage, TypeInv, InStep, FirstInv, KnowsThread, Requests
  <2>2. log[t] \in Seq(MsgTypes) /\ log'[t] = Append(log[t], Kind(r))
    BY <1>1 DEF Asking, MessagesInsert, TypeInv, TypeOK, StoreTypeOK, ConvTypeOK
  <2>3. Len(log'[t]) = Len(log[t]) + 1 /\ Len(log[t]) \in Nat
    BY <2>2
  <2>4. log'[t] # << >>
    BY <2>3
  <2> QED
    BY <2>1, <2>4 DEF ThreadsExist
<1>2. ASSUME NEW c \in Conns, AppendReply(c), cur[c].thread = t
      PROVE  log[t] # << >>
  <2>1. <<"cur", c, 0>> \in Recorded(t)
    BY <1>2 DEF AppendReply, Recorded, InHand
  <2>2. Asks(t) # {}
    BY <2>1, RecordedIsAsked
  <2>3. Len(log[t]) # 0
    BY <2>2 DEF Asks
  <2> QED
    BY <2>3
<1>3. log'[t] # << >> => status'[t] # "none"
  BY <1>1, <1>2, LogMoves, StatusOnlyAdvances DEF LogInv
<1>4. pc'[t] \in {"bump", "incr", "lookup", "push", "201"} => log'[t] # << >>
  BY <1>1, OpenersAsk, LogStays DEF LogInv
<1> QED
  BY <1>3, <1>4

LEMMA CapInvStep ==
    ASSUME TypeInv, TypeInv', [Next]_vars, CapInv, ThreadsExist, FirstInv
    PROVE  CapInv'
<1> SUFFICES ASSUME dbErrors' = 0, NEW r \in Clarifications,
                    pc'[r] \in {"why", "cap"}, r \notin gone'
             PROVE  status'[thread'[r]] = "closed" \/ turns'[thread'[r]] = MaxTurns
  BY DEF CapInv
<1> DEFINE t == thread[r]
<1> r \in Requests /\ r \notin Threads /\ r \notin Closes /\ r \notin Polls
  BY RequestsAssumption DEF Requests
<1>0. dbErrors = 0 /\ dbErrors' # dbErrors + 1
  BY AnswersStay
<1>1. pc[r] # "idle" => t \in Threads /\ status[t] \in {"open", "closed"}
  BY DEF FirstInv, KnowsThread, ThreadsExist, TypeInv, TypeOK, StoreTypeOK, ConvTypeOK, Statuses
<1>2. ASSUME t \in Threads, status[t] = "closed" \/ turns[t] = MaxTurns
      PROVE  status'[t] = "closed" \/ turns'[t] = MaxTurns
  <2>1. turns'[t] \in {turns[t], turns[t] + 1} /\ turns'[t] \in 0 .. MaxTurns
    BY <1>2, StepIsStatement, StatementKeepsHistory
    DEF HistoryIsKept, TypeInv, TypeOK, StoreTypeOK, ConvTypeOK
  <2>2. turns[t] = MaxTurns => turns'[t] = MaxTurns
    BY <2>1, MaxTurnsAssumption
  <2> QED
    BY <1>2, <2>2, StatusOnlyAdvances
<1>3. CASE pc[r] \in {"why", "cap"} /\ r \notin gone /\ thread'[r] = t
  BY <1>0, <1>1, <1>2, <1>3 DEF CapInv
<1>4. CASE Handler(r)
  <2>1. ClarificationStep(r) \/ SendStep(r)
    BY <1>4 DEF Handler
  <2>2. CASE CountClarification(r)
    <3>1. pc[r] = "incr" /\ thread' = thread /\ pc'[r] = "why" /\ gone' = gone
      BY <2>2 DEF CountClarification, Goto, TypeInv, TypeOK, RequestTypeOK, OthersKept
    <3>2. ~ Fails(r)
      BY <1>0, <3>1 DEF Fails, DBFails
    <3>3. ~ CanTakeTurn(t)
      BY <2>2, <3>1, <3>2 DEF CountClarification, Goto, TypeInv, TypeOK, RequestTypeOK
    <3>4. status[t] = "closed" \/ turns[t] = MaxTurns
      BY <1>1, <3>1, <3>3, MaxTurnsAssumption
      DEF CanTakeTurn, TypeInv, TypeOK, StoreTypeOK, ConvTypeOK
    <3> QED
      BY <1>1, <1>2, <3>1, <3>4
  <2>3. CASE ExplainRefusal(r)
    <3>1. pc[r] = "why" /\ thread' = thread /\ gone' \subseteq gone
      BY <2>3 DEF ExplainRefusal, Goto, Finish, OthersKept
    <3>2. gone' = gone
      BY <2>3 DEF ExplainRefusal, Goto, Finish, TypeInv, TypeOK, RequestTypeOK
    <3> QED
      BY <1>3, <3>1, <3>2
  <2>4. CASE CloseCapped(r) \/ SendStep(r)
    BY <2>4 DEF CloseCapped, SendStep, InsertMessage, BumpActivity, FindWriter, PushFrame,
                Goto, Finish, TypeInv, TypeOK, RequestTypeOK
  <2> QED
    BY <2>1, <2>2, <2>3, <2>4 DEF ClarificationStep
<1>5. CASE pc'[r] = pc[r] /\ thread'[r] = thread[r] /\ ~ Handler(r)
  <2>1. r \in gone => r \in gone'
    <3> USE DEF OthersKept, Goto, Finish, TypeInv, TypeOK, RequestTypeOK, requestVars
    <3>1. CASE Hatchling
      BY <1>5, <3>1 DEF Hatchling, AskBuddy, StartClarification, StartClose, StartPoll,
                        Disconnect
    <3>2. ASSUME NEW q \in Requests, Handler(q)
          PROVE  r \in gone => r \in gone'
      <4>1. q # r
        BY <1>5, <3>2
      <4> QED
        BY <3>2, <4>1 DEF Handler, OpenStep, OpenThread, CountQuestion, ClarificationStep,
              CountClarification, ExplainRefusal, CloseCapped, SendStep, InsertMessage,
              BumpActivity, FindWriter, PushFrame, CloseStep, CloseThread, FinishClose,
              PollStep, ReadAgain, ListMessages
    <3>3. CASE Buddy
      BY <3>3 DEF Buddy, Connect, Cut, WriteFrame, PingTimeout, FinishHook, ReadFails, EndConn,
                  ReadLoop, ReadFrame, AppendReply, BumpReply, CloseReplied
    <3>4. CASE Sweeper
      BY <3>4 DEF Sweeper, SweepList, SweepClose, TimePasses
    <3>5. CASE Restart
      BY <1>5, <3>5 DEF Restart, Running, Steps
    <3>6. CASE UNCHANGED vars
      BY <3>6 DEF vars
    <3> QED
      BY <3>1, <3>2, <3>3, <3>4, <3>5, <3>6 DEF Next
  <2> QED
    BY <1>3, <1>5, <2>1
<1>6. ASSUME NEW u \in Threads, StartClarification(r, u)
      PROVE  FALSE
  BY <1>6 DEF StartClarification, Goto, Finish, TypeInv, TypeOK, RequestTypeOK
<1> QED
  BY <1>4, <1>5, <1>6, RequestMoves

\* What a step of the relay is judged against.
RelayInv ==
    TypeInv /\ AnswerInv /\ LogInv /\ CapInv /\ ThreadsExist /\ FirstInv /\ RepliesInv

LEMMA RelayInvAlways == Spec => []RelayInv
<1>1. Init => LogInv /\ CapInv
  <2> SUFFICES ASSUME Init PROVE LogInv /\ CapInv
    OBVIOUS
  <2>1. \A r \in Requests : pc[r] = "idle"
    BY DEF Init
  <2>2. \A t \in Threads : log[t] = << >>
    BY DEF Init, StoreInit, ConvInit
  <2> QED
    BY <2>1, <2>2 DEF LogInv, CapInv, Requests
<1>2. Init => AnswerInv /\ ThreadsExist
  BY AnswerInvInit, CloseInvInit DEF CloseInv
<1>3. TypeInv /\ TypeInv' /\ AnswerInv /\ LogInv /\ CapInv /\ ThreadsExist /\ FirstInv
      /\ RepliesInv /\ [Next]_vars => AnswerInv' /\ LogInv' /\ CapInv' /\ ThreadsExist'
  BY AnswerInvStep, LogInvStep, CapInvStep, ThreadsExistStep
<1> QED
  BY <1>1, <1>2, <1>3, FirstAlways, RepliesAlways, TypeCorrect, PTL DEF Spec, RelayInv

\* A message for a thread that exists, the question when it is the first one.
LEMMA InsertPosts ==
    ASSUME NEW t \in Threads, NEW m \in MsgTypes, MessagesInsert(t, m),
           status[t] # "none", m = "question" <=> log[t] = << >>
    PROVE  ConvNext
<1>1. Post(t, m)
  BY DEF Post, MessagesInsert
<1> QED
  BY <1>1 DEF ConvNext

\* A turn is only taken where there is a message.
LEMMA IncrementTakesTurn ==
    ASSUME NEW t \in Threads, ThreadsIncrementTurns(t), log[t] # << >>
    PROVE  ConvNext
<1>1. TakeTurn(t)
  BY DEF TakeTurn, ThreadsIncrementTurns, CanTakeTurn
<1> QED
  BY <1>1 DEF ConvNext

\* A close either finds the thread closed or closes it for a reason that is true.
LEMMA CloseIsTrue ==
    ASSUME NEW t \in Threads, NEW why \in CloseReasons, ThreadsClose(t, why),
           why = "answered" => Logged(t, "answer"),
           why = "turn_cap_reached" => status[t] # "open" \/ turns[t] = MaxTurns
    PROVE  [ConvNext]_convVars
<1>1. CASE status[t] = "open"
  <2>1. Close(t, why)
    BY <1>1 DEF Close, ThreadsClose
  <2> QED
    BY <2>1 DEF ConvNext
<1>2. CASE status[t] # "open"
  BY <1>2 DEF ThreadsClose, storeVars, convVars
<1> QED
  BY <1>1, <1>2

LEMMA HandlerConverses ==
    ASSUME RelayInv, dbErrors = 0, NEW r \in Requests, Handler(r)
    PROVE  [ConvNext]_convVars
<1> USE DEF RelayInv
<1>1. CASE r \in Threads /\ OpenStep(r)
  <2>1. CASE OpenThread(r)
    <3>1. CASE ThreadsOpen(r)
      <4>1. Open(r)
        BY <3>1 DEF ThreadsOpen, Open
      <4> QED
        BY <1>1, <4>1 DEF ConvNext
    <3>2. CASE UNCHANGED storeVars
      BY <3>2 DEF storeVars, convVars
    <3> QED
      BY <2>1, <3>1, <3>2 DEF OpenThread
  <2>2. CASE CountQuestion(r)
    <3>1. CASE ThreadsIncrementTurns(r)
      <4>1. log[r] # << >>
        BY <1>1, <2>2 DEF CountQuestion, LogInv
      <4> QED
        BY <1>1, <3>1, <4>1, IncrementTakesTurn
    <3>2. CASE UNCHANGED storeVars
      BY <3>2 DEF storeVars, convVars
    <3> QED
      BY <2>2, <3>1, <3>2 DEF CountQuestion
  <2> QED
    BY <1>1, <2>1, <2>2 DEF OpenStep
<1>2. CASE r \in Clarifications /\ ClarificationStep(r)
  <2> DEFINE t == thread[r]
  <2>1. r \notin Threads
    BY <1>2, RequestsAssumption
  <2>2. pc[r] # "idle" => t \in Threads /\ log[t] # << >>
    BY <2>1 DEF FirstInv, KnowsThread, LogInv
  <2>3. CASE CountClarification(r)
    <3>1. CASE ThreadsIncrementTurns(t)
      BY <2>2, <2>3, <3>1, IncrementTakesTurn DEF CountClarification
    <3>2. CASE UNCHANGED storeVars
      BY <3>2 DEF storeVars, convVars
    <3> QED
      BY <2>3, <3>1, <3>2 DEF CountClarification
  <2>4. CASE ExplainRefusal(r)
    BY <2>4 DEF ExplainRefusal, storeVars, convVars
  <2>5. CASE CloseCapped(r)
    <3>1. CASE Runs(r) /\ ThreadsClose(t, "turn_cap_reached")
      <4>1. status[t] = "closed" \/ turns[t] = MaxTurns
        BY <1>2, <2>5, <3>1 DEF CloseCapped, CapInv, Runs
      <4>2. t \in Threads
        BY <2>2, <2>5 DEF CloseCapped
      <4> HIDE DEF t
      <4> QED
        BY <3>1, <4>1, <4>2, CloseIsTrue DEF CloseReasons
    <3>2. CASE UNCHANGED storeVars
      BY <3>2 DEF storeVars, convVars
    <3> QED
      BY <2>5, <3>1, <3>2 DEF CloseCapped
  <2> QED
    BY <1>2, <2>3, <2>4, <2>5 DEF ClarificationStep
<1>3. CASE SendStep(r)
  <2>1. CASE InsertMessage(r)
    <3> DEFINE t == thread[r]
    <3>1. t \in Threads /\ r \in Threads \cup Clarifications /\ pc[r] = "append"
      BY <2>1 DEF TypeInv, InStep, InsertMessage
    <3>2. CASE MessagesInsert(t, Kind(r)) /\ r \in Threads
      <4>1. t = r /\ Kind(r) = "question"
        BY <3>2 DEF Kind, TypeInv, InStep
      <4>2. status[t] # "none"
        BY <3>1, <3>2, <4>1 DEF ThreadsExist
      <4>3. log[t] = << >>
        BY <3>1, <3>2, <4>1, NothingLoggedFirst DEF FirstInv, AsksFirst
      <4> HIDE DEF t
      <4> QED
        BY <3>1, <3>2, <4>1, <4>2, <4>3, InsertPosts DEF MsgTypes
    <3>3. CASE MessagesInsert(t, Kind(r)) /\ r \notin Threads
      <4>1. Kind(r) = "clarification"
        BY <3>1, <3>3 DEF Kind
      <4>2. log[t] # << >> /\ status[t] # "none"
        BY <3>1, <3>3 DEF FirstInv, KnowsThread, LogInv
      <4> HIDE DEF t
      <4> QED
        BY <3>1, <3>3, <4>1, <4>2, InsertPosts DEF MsgTypes
    <3>4. CASE UNCHANGED storeVars
      BY <3>4 DEF storeVars, convVars
    <3> QED
      BY <2>1, <3>2, <3>3, <3>4 DEF InsertMessage
  <2>2. CASE BumpActivity(r) \/ FindWriter(r) \/ PushFrame(r)
    BY <2>2 DEF BumpActivity, FindWriter, PushFrame, MessagesBumpActivity, storeVars, convVars
  <2> QED
    BY <1>3, <2>1, <2>2 DEF SendStep
<1>4. CASE CloseStep(r)
  <2>1. CASE CloseThread(r)
    <3>1. thread[r] \in Threads
      BY <2>1 DEF CloseThread, TypeInv, InStep
    <3>2. CASE ThreadsClose(thread[r], "hatchling_closed")
      BY <3>1, <3>2, CloseIsTrue DEF CloseReasons
    <3>3. CASE UNCHANGED storeVars
      BY <3>3 DEF storeVars, convVars
    <3> QED
      BY <2>1, <3>2, <3>3 DEF CloseThread
  <2>2. CASE FinishClose(r)
    BY <2>2 DEF FinishClose, storeVars, convVars
  <2> QED
    BY <1>4, <2>1, <2>2 DEF CloseStep
<1>5. CASE PollStep(r)
  BY <1>5 DEF PollStep, ReadAgain, ListMessages, storeVars, convVars
<1> QED
  BY <1>1, <1>2, <1>3, <1>4, <1>5 DEF Handler

LEMMA ReadLoopConverses ==
    ASSUME RelayInv, dbErrors = 0, NEW c \in Conns, ReadLoop(c)
    PROVE  [ConvNext]_convVars
<1> USE DEF RelayInv
<1> DEFINE t == cur[c].thread
<1>1. srv[c] \in {"append", "bump", "close"} => t \in Threads /\ cur[c].type \in Stored
  BY DEF TypeInv, InStep, OutFrames
<1>2. CASE ReadFrame(c) \/ BumpReply(c)
  BY <1>2 DEF ReadFrame, BumpReply, MessagesBumpActivity, storeVars, convVars
<1>3. CASE AppendReply(c)
  <2>1. CASE MessagesInsert(t, cur[c].type)
    <3>1. t \in Threads /\ cur[c].type \in Stored /\ srv[c] = "append"
      BY <1>1, <1>3 DEF AppendReply
    <3>2. <<"cur", c, 0>> \in Recorded(t)
      BY <3>1 DEF Recorded, InHand
    <3>3. Asks(t) # {}
      BY <3>1, <3>2, RecordedIsAsked
    <3>4. Len(log[t]) # 0
      BY <3>3 DEF Asks
    <3>5. log[t] # << >>
      BY <3>4
    <3>6. status[t] # "none"
      BY <3>1, <3>5 DEF LogInv
    <3>7. cur[c].type \in MsgTypes /\ cur[c].type # "question"
      BY <3>1 DEF Stored, MsgTypes
    <3> HIDE DEF t
    <3> QED
      BY <2>1, <3>1, <3>5, <3>6, <3>7, InsertPosts
  <2>2. CASE UNCHANGED storeVars
    BY <2>2 DEF storeVars, convVars
  <2> QED
    BY <1>3, <2>1, <2>2 DEF AppendReply
<1>4. CASE CloseReplied(c)
  <2> DEFINE why == IF cur[c].type = "answer" THEN "answered" ELSE "buddy_closed"
  <2>1. CASE ThreadsClose(t, why)
    <3>1. t \in Threads /\ srv[c] = "close"
      BY <1>1, <1>4 DEF CloseReplied
    <3>2. why = "answered" => Logged(t, "answer")
      BY <3>1 DEF AnswerInv, AnswerParts, ReadLoopsLogFirst, HasAnswer, Logged
    <3>3. why \in CloseReasons /\ why # "turn_cap_reached"
      BY DEF CloseReasons
    <3> HIDE DEF t, why
    <3> QED
      BY <2>1, <3>1, <3>2, <3>3, CloseIsTrue
  <2>2. CASE UNCHANGED storeVars
    BY <2>2 DEF storeVars, convVars
  <2> QED
    BY <1>4, <2>1, <2>2 DEF CloseReplied
<1> QED
  BY <1>2, <1>3, <1>4 DEF ReadLoop

LEMMA StepConverses ==
    ASSUME RelayInv, dbErrors = 0, [Next]_vars
    PROVE  [ConvNext]_convVars
<1> USE DEF storeVars, convVars
<1>1. CASE Hatchling
  BY <1>1 DEF Hatchling, AskBuddy, StartClarification, StartClose, StartPoll, Disconnect
<1>2. CASE \E r \in Requests : Handler(r)
  BY <1>2, HandlerConverses
<1>3. CASE \E c \in Conns : ReadLoop(c)
  BY <1>3, ReadLoopConverses
<1>4. CASE Buddy /\ ~ \E c \in Conns : ReadLoop(c)
  BY <1>4 DEF Buddy, Connect, Cut, WriteFrame, PingTimeout, FinishHook, ReadFails, EndConn
<1>5. CASE Sweeper
  <2>1. CASE SweepList \/ \E t \in Threads : TimePasses(t)
    BY <2>1 DEF SweepList, TimePasses, GoesIdle
  <2>2. ASSUME NEW t \in Threads, SweepClose(t)
        PROVE  [ConvNext]_convVars
    <3>1. CASE ThreadsClose(t, "idle_timeout")
      BY <3>1, CloseIsTrue DEF CloseReasons
    <3>2. CASE UNCHANGED storeVars
      BY <3>2
    <3> QED
      BY <2>2, <3>1, <3>2 DEF SweepClose
  <2> QED
    BY <1>5, <2>1, <2>2 DEF Sweeper
<1>6. CASE Restart \/ UNCHANGED vars
  BY <1>6 DEF Restart, vars
<1> QED
  BY <1>1, <1>2, <1>3, <1>4, <1>5, <1>6 DEF Next

\* As long as no database error occurs, the handlers, the read loops and the
\* sweeper together keep the promise of module Conversation, for any number of
\* threads, requests, connections, disconnections and crashes: the question is
\* logged once and first, a turn is charged only to an open thread with its
\* question on record, and a thread is closed once, for a reason that is true.
\* An error would break it by design: CloseCapped reports the cap for any
\* error of the UPDATE, and the read loop closes a thread as answered though
\* the INSERT of the answer failed.
THEOREM ImplementsConversation == Spec /\ [](dbErrors = 0) => ConvSpec
<1>1. Init => ConvInit
  BY DEF Init, StoreInit
<1>2. RelayInv /\ dbErrors = 0 /\ [Next]_vars => [ConvNext]_convVars
  BY StepConverses
<1> QED
  BY <1>1, <1>2, RelayInvAlways, PTL DEF Spec, ConvSpec

\* What an agent may conclude from a row and its messages.
LEMMA ConvTyped == ConvSpec => []ConvTypeOK
<1> USE MaxTurnsAssumption
<1>1. ConvInit => ConvTypeOK
  BY DEF ConvInit, ConvTypeOK, Statuses
<1>2. ConvTypeOK /\ [ConvNext]_convVars => ConvTypeOK'
  <2> SUFFICES ASSUME ConvTypeOK, [ConvNext]_convVars PROVE ConvTypeOK'
    OBVIOUS
  <2> USE DEF ConvTypeOK
  <2>1. ASSUME NEW t \in Threads, Open(t) PROVE ConvTypeOK'
    BY <2>1 DEF Open, Statuses
  <2>2. ASSUME NEW t \in Threads, NEW m \in MsgTypes, Post(t, m) PROVE ConvTypeOK'
    <3>1. Append(log[t], m) \in Seq(MsgTypes)
      BY <2>2
    <3> QED
      BY <2>2, <3>1 DEF Post
  <2>3. ASSUME NEW t \in Threads, TakeTurn(t) PROVE ConvTypeOK'
    <3>1. turns[t] + 1 \in 0 .. MaxTurns
      BY <2>3 DEF TakeTurn
    <3> QED
      BY <2>3, <3>1 DEF TakeTurn
  <2>4. ASSUME NEW t \in Threads, NEW why \in CloseReasons, Close(t, why) PROVE ConvTypeOK'
    BY <2>4 DEF Close, Statuses
  <2>5. CASE UNCHANGED convVars
    BY <2>5 DEF convVars
  <2> QED
    BY <2>1, <2>2, <2>3, <2>4, <2>5 DEF ConvNext
<1> QED
  BY <1>1, <1>2, PTL DEF ConvSpec

LEMMA RowsStayTruthful ==
    ASSUME ConvTypeOK, [ConvNext]_convVars, NEW u \in Threads, RowIsTruthful(u)
    PROVE  RowIsTruthful(u)'
<1> USE DEF ConvTypeOK, RowIsTruthful, Logged
<1>1. ASSUME NEW t \in Threads, Open(t) PROVE RowIsTruthful(u)'
  BY <1>1 DEF Open
<1>2. ASSUME NEW t \in Threads, NEW m \in MsgTypes, Post(t, m)
      PROVE  RowIsTruthful(u)'
  <2>1. /\ log'[t] = Append(log[t], m) /\ log[t] \in Seq(MsgTypes)
        /\ t # u => log'[u] = log[u]
    BY <1>2 DEF Post
  <2>2. /\ Len(log[t]) \in Nat /\ Len(log'[t]) = Len(log[t]) + 1
        /\ log'[t][Len(log[t]) + 1] = m
        /\ \A i \in 1 .. Len(log[t]) : i \in 1 .. Len(log'[t]) /\ log'[t][i] = log[t][i]
    BY <2>1
  <2>3. log'[t] # << >>
    BY <2>2
  <2>4. log[t] = << >> => log'[t][1] = "question"
    <3>1. log[t] = << >> => Len(log[t]) = 0 /\ m = "question"
      BY <1>2 DEF Post
    <3> QED
      BY <2>2, <3>1
  <2>5. log[t] # << >> => log'[t][1] = log[t][1]
    <3>1. log[t] # << >> => 1 \in 1 .. Len(log[t])
      BY <2>1
    <3> QED
      BY <2>2, <3>1
  <2> QED
    BY <1>2, <2>1, <2>2, <2>3, <2>4, <2>5 DEF Post
<1>3. ASSUME NEW t \in Threads, TakeTurn(t) PROVE RowIsTruthful(u)'
  <2>1. turns[t] \in 0 .. MaxTurns /\ turns[t] # MaxTurns
    BY <1>3, MaxTurnsAssumption DEF TakeTurn
  <2>2. CASE t = u
    <3>1. reason[u] = "none"
      BY <1>3, <2>2 DEF TakeTurn
    <3> QED
      BY <1>3, <2>1, <2>2, <3>1 DEF TakeTurn
  <2>3. CASE t # u
    BY <1>3, <2>3 DEF TakeTurn
  <2> QED
    BY <2>2, <2>3
<1>4. ASSUME NEW t \in Threads, NEW why \in CloseReasons, Close(t, why)
      PROVE  RowIsTruthful(u)'
  BY <1>4 DEF Close, CloseReasons
<1>5. CASE UNCHANGED convVars
  BY <1>5 DEF convVars
<1> QED
  BY <1>1, <1>2, <1>3, <1>4, <1>5 DEF ConvNext

\* An agent that reads a thread's row and its messages may believe them: the
\* thread has a reason exactly when it is closed, "answered" comes with an
\* answer, "turn_cap_reached" with all turns used, and a thread that took a
\* turn or holds a message starts with its question.
THEOREM RowsAreTruthful ==
    Spec /\ [](dbErrors = 0) => [](\A t \in Threads : RowIsTruthful(t))
<1>1. ConvInit => \A t \in Threads : RowIsTruthful(t)
  <2> SUFFICES ASSUME ConvInit, NEW t \in Threads PROVE RowIsTruthful(t)
    OBVIOUS
  <2>1. status[t] = "none" /\ reason[t] = "none" /\ turns[t] = 0 /\ log[t] = << >>
    BY DEF ConvInit
  <2> QED
    BY <2>1 DEF RowIsTruthful
<1>2. ConvTypeOK /\ (\A t \in Threads : RowIsTruthful(t)) /\ [ConvNext]_convVars
          => (\A t \in Threads : RowIsTruthful(t))'
  BY RowsStayTruthful
<1>3. ConvSpec => [](\A t \in Threads : RowIsTruthful(t))
  BY <1>1, <1>2, ConvTyped, PTL DEF ConvSpec
<1> QED
  BY <1>3, ImplementsConversation, PTL
=============================================================================
