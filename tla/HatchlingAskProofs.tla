------------------------- MODULE HatchlingAskProofs -------------------------
(***************************************************************************)
(* The loop of clawgard-hatchling-ask, for any number of processes and any *)
(* turn cap: it never sends a clarification that nobody asked for.  The    *)
(* loop decides on a view of the log that may be old by the time it sends; *)
(* the decision stays right because in every prefix of the log the         *)
(* clarifications are no more than the requests, and because nobody but    *)
(* the process itself logs clarifications.                                 *)
(***************************************************************************)
EXTENDS HatchlingAsk, FiniteSetTheorems, TLAPS

USE DEF Statuses, CloseReasons, MsgTypes

Phases == InFlight \cup {"idle", "look", "prompt", "done", "failed"}

AskTypeOK ==
    /\ ConvTypeOK
    /\ phase     \in [Threads -> Phases]
    /\ view      \in [Threads -> [status : Statuses, log : Seq(MsgTypes)]]
    /\ turnsUsed \in [Threads -> Nat]

\* How many of the first n messages of t have type m.
CountTo(t, m, n) == Cardinality({i \in 1 .. n : log[t][i] = m})

Requested(t) == CountTo(t, "clarification_request", Len(log[t]))
Sent(t)      == CountTo(t, "clarification", Len(log[t]))

\* In every prefix of the log, clarifications are no more than requests.
RepliesFollow(t) ==
    \A n \in 0 .. Len(log[t]) :
        CountTo(t, "clarification", n) <= CountTo(t, "clarification_request", n)

\* A view is a prefix of the log.  What the process has not seen when it looks
\* at its view are no clarifications: it logs them itself.
ViewIsOld(t) ==
    /\ Len(view[t].log) <= Len(log[t])
    /\ \A i \in 1 .. Len(view[t].log) : view[t].log[i] = log[t][i]
    /\ phase[t] = "look" =>
           \A i \in 1 .. Len(log[t]) : log[t][i] = "clarification" => i <= Len(view[t].log)

\* From the prompt to the INSERT a request is unanswered; a turn of the process
\* is one of its clarifications, but for the one that it is sending.
RequestIsOpen(t) ==
    /\ phase[t] \in {"prompt", "count", "append"} => Sent(t) < Requested(t)
    /\ phase[t] \notin {"count", "append", "failed"} => turnsUsed[t] <= Sent(t)
    /\ phase[t] \in {"count", "append"} => turnsUsed[t] <= Sent(t) + 1
    /\ turnsUsed[t] <= Requested(t)

AskInv(t) == RepliesFollow(t) /\ ViewIsOld(t) /\ RequestIsOpen(t)

-----------------------------------------------------------------------------
(* Types.                                                                  *)

LEMMA AskTypeInit == Init => AskTypeOK
BY MaxTurnsAssumption DEF Init, ConvInit, AskTypeOK, ConvTypeOK, Phases

\* Every step changes the conversation by a step of module Conversation.
LEMMA AskConverses ==
    ASSUME [Next]_vars
    PROVE  [ConvNext]_convVars
<1>1. ASSUME NEW t \in Threads, OpenStep(t) \/ CountReply(t) \/ AppendReply(t)
      PROVE  [ConvNext]_convVars
  BY <1>1 DEF OpenStep, CountReply, AppendReply, ConvNext
<1>2. ASSUME NEW t \in Threads,
             \/ \E m \in FromBuddy : BuddyPosts(t, m)
             \/ \E why \in CloseReasons : ThreadCloses(t, why)
      PROVE  [ConvNext]_convVars
  BY <1>2 DEF BuddyPosts, ThreadCloses, FromBuddy, ConvNext
<1>3. ASSUME NEW t \in Threads,
             StartAsk(t) \/ Opened(t) \/ ReadRow(t) \/ ReadMessages(t) \/ Look(t) \/ Reply(t)
             \/ Accepted(t) \/ Fail(t)
      PROVE  UNCHANGED convVars
  BY <1>3 DEF StartAsk, Opened, ReadRow, ReadMessages, Look, Reply, Accepted, Fail, convVars
<1> QED
  BY <1>1, <1>2, <1>3 DEF Next, Process, vars, convVars

LEMMA ConvTyped ==
    ASSUME ConvTypeOK, [ConvNext]_convVars
    PROVE  ConvTypeOK'
<1> USE MaxTurnsAssumption DEF ConvTypeOK
<1>1. ASSUME NEW t \in Threads, Open(t) PROVE ConvTypeOK'
  BY <1>1 DEF Open
<1>2. ASSUME NEW t \in Threads, NEW m \in MsgTypes, Post(t, m) PROVE ConvTypeOK'
  <2>1. Append(log[t], m) \in Seq(MsgTypes)
    BY <1>2
  <2> QED
    BY <1>2, <2>1 DEF Post
<1>3. ASSUME NEW t \in Threads, TakeTurn(t) PROVE ConvTypeOK'
  <2>1. turns[t] + 1 \in 0 .. MaxTurns
    BY <1>3 DEF TakeTurn
  <2> QED
    BY <1>3, <2>1 DEF TakeTurn
<1>4. ASSUME NEW t \in Threads, NEW why \in CloseReasons, Close(t, why) PROVE ConvTypeOK'
  BY <1>4 DEF Close
<1>5. CASE UNCHANGED convVars
  BY <1>5 DEF convVars
<1> QED
  BY <1>1, <1>2, <1>3, <1>4, <1>5 DEF ConvNext

LEMMA AskTypeStep ==
    ASSUME AskTypeOK, [Next]_vars
    PROVE  AskTypeOK'
<1> USE DEF AskTypeOK, Phases, InFlight, Goto, askVars
<1>1. ConvTypeOK'
  BY AskConverses, ConvTyped
<1>2. ASSUME NEW t \in Threads,
             StartAsk(t) \/ OpenStep(t) \/ Opened(t) \/ CountReply(t) \/ AppendReply(t)
             \/ Accepted(t) \/ Fail(t)
      PROVE  AskTypeOK'
  BY <1>1, <1>2 DEF StartAsk, OpenStep, Opened, CountReply, AppendReply, Accepted, Fail
<1>3. ASSUME NEW t \in Threads, ReadRow(t) PROVE AskTypeOK'
  <2>1. status[t] \in Statuses
    BY DEF ConvTypeOK
  <2>2. [view[t] EXCEPT !.status = status[t]] \in [status : Statuses, log : Seq(MsgTypes)]
    BY <2>1
  <2>3. view' = [view EXCEPT ![t] = [view[t] EXCEPT !.status = status[t]]]
    BY <1>3 DEF ReadRow
  <2> QED
    BY <1>1, <1>3, <2>2, <2>3 DEF ReadRow
<1>4. ASSUME NEW t \in Threads, ReadMessages(t) PROVE AskTypeOK'
  <2>1. log[t] \in Seq(MsgTypes)
    BY DEF ConvTypeOK
  <2>2. [view[t] EXCEPT !.log = log[t]] \in [status : Statuses, log : Seq(MsgTypes)]
    BY <2>1
  <2>3. view' = [view EXCEPT ![t] = [view[t] EXCEPT !.log = log[t]]]
    BY <1>4 DEF ReadMessages
  <2> QED
    BY <1>1, <1>4, <2>2, <2>3 DEF ReadMessages
<1>5. ASSUME NEW t \in Threads, Look(t) \/ Reply(t) PROVE AskTypeOK'
  <2>1. PICK next \in {"done", "prompt", "row", "count"} : phase' = [phase EXCEPT ![t] = next]
    BY <1>5 DEF Look, Reply
  <2>2. view' = view /\ (turnsUsed' = turnsUsed \/ turnsUsed' = [turnsUsed EXCEPT ![t] = @ + 1])
    BY <1>5 DEF Look, Reply
  <2>3. turnsUsed' \in [Threads -> Nat]
    BY <2>2
  <2> QED
    BY <1>1, <2>1, <2>2, <2>3
<1>6. ASSUME NEW t \in Threads,
             \/ \E m \in FromBuddy : BuddyPosts(t, m)
             \/ \E why \in CloseReasons : ThreadCloses(t, why)
      PROVE  AskTypeOK'
  BY <1>1, <1>6 DEF BuddyPosts, ThreadCloses
<1>7. CASE UNCHANGED vars
  BY <1>1, <1>7 DEF vars
<1> QED
  BY <1>2, <1>3, <1>4, <1>5, <1>6, <1>7 DEF Next, Process

LEMMA AskTyped == Spec => []AskTypeOK
BY AskTypeInit, AskTypeStep, PTL DEF Spec

-----------------------------------------------------------------------------
(* Counting.                                                               *)

LEMMA CountsAreFinite ==
    ASSUME NEW t \in Threads, NEW m, NEW n \in Nat
    PROVE  IsFiniteSet({i \in 1 .. n : log[t][i] = m}) /\ CountTo(t, m, n) \in Nat
<1> DEFINE S == {i \in 1 .. n : log[t][i] = m}
<1>1. IsFiniteSet(1 .. n) /\ S \in SUBSET (1 .. n)
  BY FS_Interval
<1> HIDE DEF S
<1>2. IsFiniteSet(S) /\ Cardinality(S) \in Nat
  BY <1>1, FS_Subset, FS_CardinalityType
<1> QED
  BY <1>2 DEF S, CountTo

\* What a message that is logged does to the log, and to the counts.
LEMMA LogAppended ==
    ASSUME AskTypeOK, NEW t \in Threads, NEW m \in MsgTypes,
           Post(t, m), NEW L, L = Len(log[t])
    PROVE  /\ L \in Nat /\ Len(log'[t]) = L + 1
           /\ \A i \in 1 .. L : log'[t][i] = log[t][i]
           /\ log'[t][L + 1] = m
<1>1. log[t] \in Seq(MsgTypes) /\ log'[t] = Append(log[t], m)
  BY DEF AskTypeOK, ConvTypeOK, Post
<1> QED
  BY <1>1

LEMMA CountAppended ==
    ASSUME AskTypeOK, NEW t \in Threads, NEW m \in MsgTypes,
           Post(t, m), NEW L, L = Len(log[t]), NEW x
    PROVE  /\ \A n \in 0 .. L : CountTo(t, x, n)' = CountTo(t, x, n)
           /\ m = x => CountTo(t, x, L + 1)' = CountTo(t, x, L) + 1
           /\ m # x => CountTo(t, x, L + 1)' = CountTo(t, x, L)
<1>1. /\ L \in Nat /\ Len(log'[t]) = L + 1
      /\ \A i \in 1 .. L : log'[t][i] = log[t][i]
      /\ log'[t][L + 1] = m
  BY LogAppended
<1>3. ASSUME NEW n \in 0 .. L
      PROVE  {i \in 1 .. n : log'[t][i] = x} = {i \in 1 .. n : log[t][i] = x}
  <2>1. \A i \in 1 .. n : i \in 1 .. L
    BY <1>1
  <2> QED
    BY <1>1, <2>1
<1>4. \A n \in 0 .. L : CountTo(t, x, n)' = CountTo(t, x, n)
  BY <1>3 DEF CountTo
<1> DEFINE S == {i \in 1 .. L : log[t][i] = x}
           T == {i \in 1 .. (L + 1) : log'[t][i] = x}
<1>5. IsFiniteSet(S) /\ CountTo(t, x, L) = Cardinality(S) /\ CountTo(t, x, L + 1)' = Cardinality(T)
  BY <1>1, CountsAreFinite DEF CountTo
<1>6. \A i \in 1 .. (L + 1) : i \in 1 .. L \/ i = L + 1
  BY <1>1
<1>7. L + 1 \in 1 .. (L + 1) /\ L + 1 \notin 1 .. L /\ 1 .. L \subseteq 1 .. (L + 1)
  BY <1>1
<1>8. m = x => T = S \cup {L + 1}
  BY <1>1, <1>6, <1>7
<1>9. m # x => T = S
  BY <1>1, <1>6, <1>7
<1>10. L + 1 \notin S
  BY <1>7
<1> HIDE DEF S, T
<1>11. m = x => Cardinality(T) = Cardinality(S) + 1
  BY <1>5, <1>8, <1>10, FS_AddElement
<1> QED
  BY <1>1, <1>4, <1>5, <1>9, <1>11

\* A request with no later clarification makes the requests more.
LEMMA OpenRequestCounts ==
    ASSUME AskTypeOK, NEW t \in Threads, RepliesFollow(t),
           NEW i \in 1 .. Len(log[t]), log[t][i] = "clarification_request",
           \A j \in 1 .. Len(log[t]) : log[t][j] = "clarification" => j <= i
    PROVE  Sent(t) < Requested(t)
<1> DEFINE L == Len(log[t])
           C == {j \in 1 .. L : log[t][j] = "clarification"}
           B == {j \in 1 .. (i - 1) : log[t][j] = "clarification"}
           R == {j \in 1 .. L : log[t][j] = "clarification_request"}
           Q == {j \in 1 .. (i - 1) : log[t][j] = "clarification_request"}
<1>1. L \in Nat /\ i - 1 \in 0 .. L /\ i - 1 \in Nat
  BY DEF AskTypeOK, ConvTypeOK
<1>2. \A j \in 1 .. (i - 1) : j \in 1 .. L
  BY <1>1
<1>3. C = B
  <2>1. ASSUME NEW j \in C PROVE j \in B
    <3>1. j \in 1 .. L /\ log[t][j] = "clarification" /\ j <= i /\ j # i
      OBVIOUS
    <3> QED
      BY <1>1, <3>1
  <2> QED
    BY <1>2, <2>1
<1>4. Q \cup {i} \in SUBSET R /\ i \notin Q
  BY <1>2
<1>5. IsFiniteSet(Q) /\ IsFiniteSet(R)
      /\ Cardinality(B) \in Nat /\ Cardinality(Q) \in Nat /\ Cardinality(R) \in Nat
  BY <1>1, CountsAreFinite DEF CountTo
<1>6. Cardinality(B) <= Cardinality(Q)
  BY <1>1 DEF RepliesFollow, CountTo
<1>7. Sent(t) = Cardinality(C) /\ Requested(t) = Cardinality(R)
  BY DEF Sent, Requested, CountTo
<1> HIDE DEF L, C, B, R, Q
<1>8. Cardinality(Q \cup {i}) = Cardinality(Q) + 1
  BY <1>4, <1>5, FS_AddElement
<1>9. Cardinality(Q \cup {i}) <= Cardinality(R)
  BY <1>4, <1>5, FS_Subset
<1> QED
  BY <1>3, <1>5, <1>6, <1>7, <1>8, <1>9

-----------------------------------------------------------------------------
(* The invariant.                                                          *)

\* A step after which the log, the view and the turns of a process are the
\* same, and that brings it to no look, prompt or count.
LEMMA QuietStep ==
    ASSUME NEW t \in Threads, AskInv(t), log'[t] = log[t], turnsUsed'[t] = turnsUsed[t],
           view'[t].log = view[t].log,
           \/ phase'[t] = phase[t]
           \/ /\ phase[t] \notin {"count", "append", "failed"}
              /\ phase'[t] \notin {"look", "prompt", "count", "append"}
           \/ phase[t] = "count" /\ phase'[t] \in {"append", "failed"}
           \/ phase'[t] = "failed"
    PROVE  AskInv(t)'
<1>1. RepliesFollow(t)' /\ Sent(t)' = Sent(t) /\ Requested(t)' = Requested(t)
  BY DEF AskInv, RepliesFollow, Sent, Requested, CountTo
<1>2. ViewIsOld(t)'
  BY DEF AskInv, ViewIsOld
<1>3. RequestIsOpen(t)'
  BY <1>1 DEF AskInv, RequestIsOpen
<1> QED
  BY <1>1, <1>2, <1>3 DEF AskInv

\* The relay logs a message that the process did not send.
LEMMA OthersPost ==
    ASSUME AskTypeOK, NEW t \in Threads, AskInv(t), NEW m \in MsgTypes, Post(t, m),
           m # "clarification", UNCHANGED askVars
    PROVE  AskInv(t)'
<1> PICK L : L = Len(log[t])
  OBVIOUS
<1> DEFINE C(n) == CountTo(t, "clarification", n)
           R(n) == CountTo(t, "clarification_request", n)
<1>1. /\ L \in Nat /\ Len(log'[t]) = L + 1
      /\ \A i \in 1 .. L : log'[t][i] = log[t][i]
      /\ log'[t][L + 1] = m
  BY LogAppended
<1>2. /\ \A n \in 0 .. L : C(n)' = C(n)
      /\ C(L + 1)' = C(L)
  BY CountAppended
<1>3. /\ \A n \in 0 .. L : R(n)' = R(n)
      /\ R(L + 1)' \in {R(L), R(L) + 1}
  BY CountAppended
<1>4. \A n \in 0 .. L : C(n) \in Nat /\ R(n) \in Nat /\ C(n) <= R(n)
  <2>1. \A n \in 0 .. L : n \in Nat
    BY <1>1
  <2>2. \A n \in 0 .. L : C(n) \in Nat /\ R(n) \in Nat
    BY <2>1, CountsAreFinite
  <2> QED
    BY <2>2 DEF AskInv, RepliesFollow
<1>5. \A n \in 0 .. (L + 1) : n \in 0 .. L \/ n = L + 1
  BY <1>1
<1>6. L \in 0 .. L
  BY <1>1
<1>7. RepliesFollow(t)'
  <2>1. \A n \in 0 .. (L + 1) : C(n)' <= R(n)'
    <3> HIDE DEF C, R
    <3> QED
      BY <1>2, <1>3, <1>4, <1>5, <1>6
  <2> QED
    BY <1>1, <2>1 DEF RepliesFollow
<1>8. ViewIsOld(t)'
  <2>1. view' = view /\ phase' = phase
    BY DEF askVars
  <2>2. Len(view[t].log) \in Nat /\ Len(view[t].log) <= L
    BY DEF AskTypeOK, AskInv, ViewIsOld
  <2>3. \A i \in 1 .. Len(view[t].log) : i \in 1 .. L
    BY <1>1, <2>2
  <2>4. \A i \in 1 .. (L + 1) : i \in 1 .. L \/ i = L + 1
    BY <1>1
  <2> QED
    BY <1>1, <2>1, <2>2, <2>3, <2>4 DEF AskInv, ViewIsOld
<1>9. RequestIsOpen(t)'
  <2>1. turnsUsed' = turnsUsed /\ phase' = phase /\ turnsUsed[t] \in Nat
    BY DEF askVars, AskTypeOK
  <2>2. Sent(t)' = C(L) /\ Requested(t)' \in {R(L), R(L) + 1}
    <3>1. Sent(t)' = C(L + 1)' /\ Requested(t)' = R(L + 1)'
      BY <1>1 DEF Sent, Requested, CountTo
    <3> QED
      BY <1>2, <1>3, <3>1
  <2>3. Sent(t) = C(L) /\ Requested(t) = R(L)
    BY DEF Sent, Requested
  <2>4. C(L) \in Nat /\ R(L) \in Nat
    BY <1>4, <1>6
  <2> HIDE DEF C, R
  <2> QED
    BY <2>1, <2>2, <2>3, <2>4 DEF AskInv, RequestIsOpen
<1> QED
  BY <1>7, <1>8, <1>9 DEF AskInv
\* The view that is read is the whole log, and the process logs nothing until
\* it has looked at it.
LEMMA ReadMessagesKeeps ==
    ASSUME AskTypeOK, NEW t \in Threads, AskInv(t), ReadMessages(t)
    PROVE  AskInv(t)'
<1>1. /\ phase[t] = "list" /\ phase'[t] = "look" /\ log' = log /\ turnsUsed' = turnsUsed
      /\ view'[t].log = log[t]
  BY DEF ReadMessages, Goto, AskTypeOK, convVars
<1>2. RepliesFollow(t)' /\ Sent(t)' = Sent(t) /\ Requested(t)' = Requested(t)
  BY <1>1 DEF AskInv, RepliesFollow, Sent, Requested, CountTo
<1>3. ViewIsOld(t)'
  <2>1. Len(log[t]) \in Nat
    BY DEF AskTypeOK, ConvTypeOK
  <2> QED
    BY <1>1, <2>1 DEF ViewIsOld
<1>4. RequestIsOpen(t)'
  BY <1>1, <1>2 DEF AskInv, RequestIsOpen
<1> QED
  BY <1>2, <1>3, <1>4 DEF AskInv

\* What the process takes for an open request is one: what it has not seen yet
\* answers nothing.
LEMMA LookKeeps ==
    ASSUME AskTypeOK, NEW t \in Threads, AskInv(t), Look(t)
    PROVE  AskInv(t)'
<1>1. /\ phase[t] = "look" /\ log' = log /\ view' = view /\ turnsUsed' = turnsUsed
      /\ phase'[t] \in {"done", "prompt", "row"}
      /\ phase'[t] = "prompt" => AsksNow(t)
  BY DEF Look, Goto, AskTypeOK, convVars
<1>2. CASE phase'[t] # "prompt"
  BY <1>1, <1>2, QuietStep
<1>3. CASE phase'[t] = "prompt"
  <2>1. PICK i \in Those(t, {"clarification_request"}) :
            \A j \in Those(t, {"clarification_request", "clarification"}) : j <= i
    BY <1>1, <1>3 DEF AsksNow
  <2>2. Len(view[t].log) \in Nat /\ Len(log[t]) \in Nat /\ Len(view[t].log) <= Len(log[t])
    BY DEF AskTypeOK, ConvTypeOK, AskInv, ViewIsOld
  <2>3. /\ i \in 1 .. Len(view[t].log) /\ i \in 1 .. Len(log[t])
        /\ log[t][i] = "clarification_request"
    BY <2>1, <2>2 DEF Those, AskInv, ViewIsOld
  <2>4. ASSUME NEW j \in 1 .. Len(log[t]), log[t][j] = "clarification"
        PROVE  j <= i
    <3>1. j \in 1 .. Len(view[t].log)
      BY <1>1, <2>2, <2>4 DEF AskInv, ViewIsOld
    <3>2. view[t].log[j] = "clarification"
      BY <2>4, <3>1 DEF AskInv, ViewIsOld
    <3> QED
      BY <2>1, <3>1, <3>2 DEF Those
  <2>5. Sent(t) < Requested(t)
    BY <2>3, <2>4, OpenRequestCounts DEF AskInv
  <2>6. RepliesFollow(t)' /\ Sent(t)' = Sent(t) /\ Requested(t)' = Requested(t)
    BY <1>1 DEF AskInv, RepliesFollow, Sent, Requested, CountTo
  <2>7. ViewIsOld(t)'
    BY <1>1, <1>3 DEF AskInv, ViewIsOld
  <2>8. RequestIsOpen(t)'
    BY <1>1, <1>3, <2>5, <2>6 DEF AskInv, RequestIsOpen
  <2> QED
    BY <2>6, <2>7, <2>8 DEF AskInv
<1> QED
  BY <1>2, <1>3

LEMMA ReplyKeeps ==
    ASSUME AskTypeOK, NEW t \in Threads, AskInv(t), Reply(t)
    PROVE  AskInv(t)'
<1>1. /\ phase[t] = "prompt" /\ phase'[t] = "count" /\ log' = log /\ view' = view
      /\ turnsUsed'[t] = turnsUsed[t] + 1 /\ turnsUsed[t] \in Nat
  BY DEF Reply, Goto, AskTypeOK, convVars
<1>2. RepliesFollow(t)' /\ Sent(t)' = Sent(t) /\ Requested(t)' = Requested(t)
  BY <1>1 DEF AskInv, RepliesFollow, Sent, Requested, CountTo
<1>3. Sent(t) \in Nat /\ Requested(t) \in Nat
  <2>1. Len(log[t]) \in Nat
    BY DEF AskTypeOK, ConvTypeOK
  <2> QED
    BY <2>1, CountsAreFinite DEF Sent, Requested
<1>4. ViewIsOld(t)'
  BY <1>1 DEF AskInv, ViewIsOld
<1>5. RequestIsOpen(t)'
  BY <1>1, <1>2, <1>3 DEF AskInv, RequestIsOpen
<1> QED
  BY <1>2, <1>4, <1>5 DEF AskInv

\* The clarification is the one that the request was open for.
LEMMA AppendReplyKeeps ==
    ASSUME AskTypeOK, NEW t \in Threads, AskInv(t), AppendReply(t)
    PROVE  AskInv(t)'
<1> PICK L : L = Len(log[t])
  OBVIOUS
<1> DEFINE C(n) == CountTo(t, "clarification", n)
           R(n) == CountTo(t, "clarification_request", n)
<1>0. Post(t, "clarification")
  BY DEF AppendReply
<1>1. /\ L \in Nat /\ Len(log'[t]) = L + 1
      /\ \A i \in 1 .. L : log'[t][i] = log[t][i]
      /\ log'[t][L + 1] = "clarification"
  BY <1>0, LogAppended
<1>2. /\ \A n \in 0 .. L : C(n)' = C(n)
      /\ C(L + 1)' = C(L) + 1
  BY <1>0, CountAppended
<1>3. /\ \A n \in 0 .. L : R(n)' = R(n)
      /\ R(L + 1)' = R(L)
  BY <1>0, CountAppended
<1>4. \A n \in 0 .. L : C(n) \in Nat /\ R(n) \in Nat /\ C(n) <= R(n)
  <2>1. \A n \in 0 .. L : n \in Nat
    BY <1>1
  <2>2. \A n \in 0 .. L : C(n) \in Nat /\ R(n) \in Nat
    BY <2>1, CountsAreFinite
  <2> QED
    BY <2>2 DEF AskInv, RepliesFollow
<1>5. /\ phase[t] = "append" /\ phase'[t] = "sent"
      /\ view' = view /\ turnsUsed' = turnsUsed /\ turnsUsed[t] \in Nat
  BY DEF AppendReply, Goto, AskTypeOK
<1>6. /\ Sent(t) = C(L) /\ Requested(t) = R(L)
      /\ Sent(t)' = C(L + 1)' /\ Requested(t)' = R(L + 1)'
  BY <1>1 DEF Sent, Requested, CountTo
<1>7. C(L) < R(L) /\ L \in 0 .. L
  BY <1>1, <1>5, <1>6 DEF AskInv, RequestIsOpen
<1>8. RepliesFollow(t)'
  <2>1. \A n \in 0 .. (L + 1) : n \in 0 .. L \/ n = L + 1
    BY <1>1
  <2>2. \A n \in 0 .. (L + 1) : C(n)' <= R(n)'
    <3> HIDE DEF C, R
    <3> QED
      BY <1>2, <1>3, <1>4, <1>7, <2>1
  <2> QED
    BY <1>1, <2>2 DEF RepliesFollow
<1>9. ViewIsOld(t)'
  <2>1. Len(view[t].log) \in Nat /\ Len(view[t].log) <= L
    BY DEF AskTypeOK, AskInv, ViewIsOld
  <2>2. \A i \in 1 .. Len(view[t].log) : i \in 1 .. L
    BY <1>1, <2>1
  <2> QED
    BY <1>1, <1>5, <2>1, <2>2 DEF AskInv, ViewIsOld
<1>10. RequestIsOpen(t)'
  <2>1. C(L) \in Nat /\ R(L) \in Nat
    BY <1>4, <1>7
  <2> HIDE DEF C, R
  <2> QED
    BY <1>2, <1>3, <1>5, <1>6, <1>7, <2>1 DEF AskInv, RequestIsOpen
<1> QED
  BY <1>8, <1>9, <1>10 DEF AskInv

\* The other steps of a process and of the relay log nothing.
LEMMA OtherStepKeeps ==
    ASSUME AskTypeOK, NEW t \in Threads, AskInv(t),
           \/ StartAsk(t) \/ Opened(t) \/ ReadRow(t) \/ CountReply(t) \/ Accepted(t) \/ Fail(t)
           \/ \E why \in CloseReasons : ThreadCloses(t, why)
    PROVE  AskInv(t)'
<1> USE DEF Goto, AskTypeOK, convVars, askVars
<1>1. log' = log /\ turnsUsed' = turnsUsed /\ view'[t].log = view[t].log
  BY DEF StartAsk, Opened, ReadRow, CountReply, Accepted, Fail, ThreadCloses, Close, TakeTurn
<1>2. CASE StartAsk(t) \/ Opened(t) \/ ReadRow(t) \/ Accepted(t)
  <2>1. /\ phase[t] \notin {"count", "append", "failed"}
        /\ phase'[t] \notin {"look", "prompt", "count", "append"}
    BY <1>2 DEF StartAsk, Opened, ReadRow, Accepted
  <2> QED
    BY <1>1, <2>1, QuietStep
<1>3. CASE CountReply(t)
  <2>1. phase[t] = "count" /\ phase'[t] \in {"append", "failed"}
    BY <1>3 DEF CountReply
  <2> QED
    BY <1>1, <2>1, QuietStep
<1>4. CASE Fail(t)
  <2>1. phase'[t] = "failed"
    BY <1>4 DEF Fail
  <2> QED
    BY <1>1, <2>1, QuietStep
<1>5. CASE \E why \in CloseReasons : ThreadCloses(t, why)
  <2>1. phase'[t] = phase[t]
    BY <1>5 DEF ThreadCloses
  <2> QED
    BY <1>1, <2>1, QuietStep
<1> QED
  BY <1>2, <1>3, <1>4, <1>5

\* Of the messages that other steps log none is a clarification.
LEMMA PostStepKeeps ==
    ASSUME AskTypeOK, NEW t \in Threads, AskInv(t),
           OpenStep(t) \/ \E m \in FromBuddy : BuddyPosts(t, m)
    PROVE  AskInv(t)'
<1>1. CASE Post(t, "question") /\ UNCHANGED askVars
  BY <1>1, OthersPost
<1>2. CASE (Open(t) \/ TakeTurn(t)) /\ UNCHANGED askVars
  BY <1>2, QuietStep DEF Open, TakeTurn, askVars
<1>3. ASSUME NEW m \in FromBuddy, BuddyPosts(t, m)
      PROVE  AskInv(t)'
  <2>1. m \in MsgTypes /\ m # "clarification"
    BY DEF FromBuddy
  <2>2. Post(t, m) /\ UNCHANGED askVars
    BY <1>3 DEF BuddyPosts
  <2> QED
    BY <2>1, <2>2, OthersPost
<1> QED
  BY <1>1, <1>2, <1>3 DEF OpenStep

\* A step of another process leaves this one and its thread alone.
LEMMA OneThreadMoves ==
    ASSUME AskTypeOK, NEW t \in Threads, AskInv(t), NEW u \in Threads, u # t,
           \/ StartAsk(u) \/ Process(u) \/ Fail(u)
           \/ \E m \in FromBuddy : BuddyPosts(u, m)
           \/ \E why \in CloseReasons : ThreadCloses(u, why)
    PROVE  AskInv(t)'
<1> USE DEF Goto, AskTypeOK, ConvTypeOK, convVars, askVars
<1>1. log'[t] = log[t]
  BY DEF Process, StartAsk, OpenStep, Opened, ReadRow, ReadMessages, Look, Reply, CountReply,
         AppendReply, Accepted, Fail, BuddyPosts, ThreadCloses, Open, Post, TakeTurn, Close
<1>2. phase'[t] = phase[t] /\ turnsUsed'[t] = turnsUsed[t] /\ view'[t] = view[t]
  BY DEF Process, StartAsk, OpenStep, Opened, ReadRow, ReadMessages, Look, Reply, CountReply,
         AppendReply, Accepted, Fail, BuddyPosts, ThreadCloses
<1> QED
  BY <1>1, <1>2, QuietStep

LEMMA AskInvAlways == Spec => [](\A t \in Threads : AskInv(t))
<1>1. Init => \A t \in Threads : AskInv(t)
  <2> SUFFICES ASSUME Init, NEW t \in Threads PROVE AskInv(t)
    OBVIOUS
  <2>1. log[t] = << >> /\ view[t].log = << >> /\ phase[t] = "idle" /\ turnsUsed[t] = 0
    BY DEF Init, ConvInit
  <2>2. Len(log[t]) = 0 /\ Len(view[t].log) = 0
    BY <2>1
  <2>3. \A m : {i \in 1 .. 0 : log[t][i] = m} = {}
    OBVIOUS
  <2>4. \A m : CountTo(t, m, 0) = 0
    BY <2>3, FS_EmptySet DEF CountTo
  <2> QED
    BY <2>1, <2>2, <2>4 DEF AskInv, RepliesFollow, ViewIsOld, RequestIsOpen, Sent, Requested
<1>2. ASSUME AskTypeOK, \A t \in Threads : AskInv(t), [Next]_vars
      PROVE  (\A t \in Threads : AskInv(t))'
  <2> SUFFICES ASSUME NEW t \in Threads PROVE AskInv(t)'
    OBVIOUS
  <2>1. AskInv(t)
    BY <1>2
  <2>2. CASE UNCHANGED vars
    BY <2>1, <2>2, QuietStep DEF vars, convVars, askVars
  <2>3. CASE Next
    BY <1>2, <2>1, <2>3, OneThreadMoves, ReadMessagesKeeps, LookKeeps, ReplyKeeps,
       AppendReplyKeeps, OtherStepKeeps, PostStepKeeps
    DEF Next, Process
  <2> QED
    BY <1>2, <2>2, <2>3
<1> QED
  BY <1>1, <1>2, AskTyped, PTL DEF Spec

-----------------------------------------------------------------------------

\* The loop of clawgard-hatchling-ask sends a clarification only for a request
\* of the buddy of its own, and spends a turn of its budget on no other, for
\* any number of processes, whatever the buddy, the sweeper and failed
\* requests do between the reads of a poll, the prompt and the reply.
THEOREM OneReplyEach == Spec => []OneReplyPerRequest
<1>1. ASSUME AskTypeOK, NEW t \in Threads, AskInv(t)
      PROVE  /\ Count(t, {"clarification"}) <= Count(t, {"clarification_request"})
             /\ turnsUsed[t] <= Count(t, {"clarification_request"})
  <2>1. Len(log[t]) \in Nat
    BY DEF AskTypeOK, ConvTypeOK
  <2>2. Count(t, {"clarification"}) = Sent(t) /\ Count(t, {"clarification_request"}) = Requested(t)
    <3>1. \A m : {i \in 1 .. Len(log[t]) : log[t][i] \in {m}} = {i \in 1 .. Len(log[t]) : log[t][i] = m}
      OBVIOUS
    <3> QED
      BY <3>1 DEF Count, Sent, Requested, CountTo
  <2>3. Sent(t) <= Requested(t)
    BY <1>1, <2>1 DEF AskInv, RepliesFollow, Sent, Requested
  <2> QED
    BY <1>1, <2>2, <2>3 DEF AskInv, RequestIsOpen
<1>2. AskTypeOK /\ (\A t \in Threads : AskInv(t)) => OneReplyPerRequest
  BY <1>1 DEF OneReplyPerRequest
<1> QED
  BY <1>2, AskTyped, AskInvAlways, PTL
=============================================================================
