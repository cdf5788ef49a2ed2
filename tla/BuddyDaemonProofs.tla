-------------------------- MODULE BuddyDaemonProofs --------------------------
(***************************************************************************)
(* The daemon for any number of questions and sessions and any capacity of *)
(* the write queue: an error of Send is final, a Send that waits has       *)
(* its request somewhere, and the daemon implements BuddyPromise.          *)
(***************************************************************************)
EXTENDS BuddyDaemon, TLAPS

\* The request of q is between Enqueue and the writer's answer.
InFlight(q, s) ==
    /\ sentOn[q] = s
    /\ handler[q] \in {"await", "cancelled"}
    /\ done[q] = "empty"

\* A queue holds each request once, and not the one that is being written.
QueuesOK ==
    \A s \in Sessions : \A i \in 1 .. Len(writes[s]) :
        /\ InFlight(writes[s][i], s)
        /\ received[writes[s][i]] = 0
        /\ ~ Writing(s, writes[s][i])
        /\ \A j \in 1 .. Len(writes[s]) : writes[s][j] = writes[s][i] => j = i

WritersOK ==
    \A s \in Sessions :
        /\ Busy(s) => InFlight(writing[s], s)
        /\ writer[s] = "write" => received[writing[s]] = 0

AnswersOK ==
    \A q \in Questions :
        /\ handler[q] \in {"none", "hook", "send", "closed"} =>
               done[q] = "empty" /\ received[q] = 0
        /\ handler[q] = "failed" => done[q] = "failed"

\* A question waits to be read on the session it was sent on, once.
InboxesOK ==
    \A s \in Sessions : \A i \in 1 .. Len(inbox[s]) :
        /\ sentOn[inbox[s][i]] = s
        /\ handler[inbox[s][i]] = "none"
        /\ \A j \in 1 .. Len(inbox[s]) : inbox[s][j] = inbox[s][i] => j = i

\* Only the session that is being read can be up, and none is ahead of it.
SessionsOK ==
    /\ \A s \in Sessions : conn[s] = "up" => s = session /\ phase = "read"
    /\ \A q \in Questions : sentOn[q] <= session

DaemonInv ==
    /\ DaemonTypeOK
    /\ QueuesOK
    /\ WritersOK
    /\ AnswersOK
    /\ InboxesOK
    /\ SessionsOK
    /\ WaitsForAnswer

-----------------------------------------------------------------------------
(* Steps that leave most of the invariant alone.                           *)

LEMMA QueuesKept ==
    ASSUME QueuesOK, UNCHANGED <<writes, writer, writing, sentOn, done, received>>,
           \A q \in Questions : handler[q] \in {"await", "cancelled"}
                                    => handler'[q] \in {"await", "cancelled"},
           DaemonTypeOK
    PROVE  QueuesOK'
BY DEF QueuesOK, InFlight, Writing, Busy, DaemonTypeOK

LEMMA WritersKept ==
    ASSUME WritersOK, UNCHANGED <<writer, writing, sentOn, done, received>>,
           \A q \in Questions : handler[q] \in {"await", "cancelled"}
                                    => handler'[q] \in {"await", "cancelled"},
           DaemonTypeOK
    PROVE  WritersOK'
BY DEF WritersOK, InFlight, Busy, DaemonTypeOK

LEMMA InboxesKept ==
    ASSUME InboxesOK, UNCHANGED <<inbox, sentOn>>,
           \A q \in Questions : handler[q] = "none" => handler'[q] = "none",
           DaemonTypeOK
    PROVE  InboxesOK'
BY DEF InboxesOK, DaemonTypeOK

LEMMA WaitsKept ==
    ASSUME WaitsForAnswer, UNCHANGED <<writes, writer, writing, sentOn, done, received>>,
           \A q \in Questions : handler'[q] = "await" => handler[q] = "await"
    PROVE  WaitsForAnswer'
BY DEF WaitsForAnswer, Queued, Writing, Busy

-----------------------------------------------------------------------------
(* The supervisor, the relay and the network.                              *)

LEMMA NextWaitTyped ==
    ASSUME wait \in 0 .. MaxWait
    PROVE  NextWait \in 0 .. MaxWait
BY BackoffAssumption DEF NextWait

LEMMA AfterRunOnceTyped ==
    ASSUME DaemonTypeOK, AfterRunOnce
    PROVE  phase' \in {"stopped", "wait"} /\ wait' \in 0 .. MaxWait
BY NextWaitTyped DEF AfterRunOnce, DaemonTypeOK

\* What the writers, the inboxes and the handlers hold is left alone.
LEMMA HoldingsKept ==
    ASSUME DaemonInv, UNCHANGED <<inbox, writes, writing, sentOn, handler, done, received>>,
           \A s \in Sessions, state \in {"write", "written"} :
                writer'[s] = state <=> writer[s] = state
    PROVE  QueuesOK' /\ WritersOK' /\ AnswersOK' /\ InboxesOK' /\ WaitsForAnswer'
<1> USE DEF DaemonInv, Busy
<1>1. QueuesOK'
  BY DEF QueuesOK, InFlight, Writing
<1>2. WritersOK'
  BY DEF WritersOK, InFlight
<1>3. AnswersOK' /\ InboxesOK'
  BY DEF AnswersOK, InboxesOK
<1>4. WaitsForAnswer'
  BY DEF WaitsForAnswer, Queued, Writing, DaemonTypeOK
<1> QED
  BY <1>1, <1>2, <1>3, <1>4

LEMMA DialKeeps ==
    ASSUME DaemonInv, Dial
    PROVE  DaemonInv'
<1> USE DEF DaemonInv, Busy
<1>1. session + 1 \in Sessions /\ session \in Nat
  BY MaxSessionsAssumption DEF Dial, DaemonTypeOK, Sessions
<1>2. DaemonTypeOK'
  BY <1>1, MaxSessionsAssumption DEF DaemonTypeOK, Dial, Sessions
<1>3. writer' = [writer EXCEPT ![session + 1] = "select"] /\ conn[session + 1] # "up"
  BY <1>1 DEF Dial, SessionsOK
<1>4. \A s \in Sessions : Busy(s) => s # session + 1
  <2>1. \A s \in Sessions : Busy(s) => writing[s] \in Questions /\ sentOn[writing[s]] = s
    BY DEF DaemonTypeOK, WritersOK, InFlight
  <2> QED
    BY <1>1, <2>1 DEF SessionsOK
<1>5. \A s \in Sessions, state \in {"write", "written"} :
         writer'[s] = state <=> writer[s] = state
  BY <1>1, <1>3, <1>4 DEF DaemonTypeOK
<1>6. QueuesOK' /\ WritersOK' /\ AnswersOK' /\ InboxesOK' /\ WaitsForAnswer'
  BY <1>5, HoldingsKept DEF Dial
<1>7. SessionsOK'
  BY <1>1 DEF SessionsOK, Dial, DaemonTypeOK
<1> QED
  BY <1>2, <1>6, <1>7

LEMMA SupervisorKeeps ==
    ASSUME DaemonInv, DialFails \/ ReadFails \/ WaitOver \/ Cancel
    PROVE  DaemonInv'
<1> USE DEF DaemonInv, Busy, sessionVars
<1>1. UNCHANGED <<session, inbox, writes, writer, writing, sentOn, handler, done, received>>
  BY DEF DialFails, ReadFails, WaitOver, Cancel
<1>2. QueuesOK' /\ WritersOK' /\ AnswersOK' /\ InboxesOK' /\ WaitsForAnswer'
  BY <1>1, HoldingsKept
<1>3. CASE DialFails
  BY <1>1, <1>2, <1>3, AfterRunOnceTyped DEF DialFails, DaemonTypeOK, SessionsOK
<1>4. CASE ReadFails
  <2>1. session \in Sessions
    BY <1>4, MaxSessionsAssumption DEF ReadFails, DaemonTypeOK, Sessions
  <2>2. DaemonTypeOK'
    BY <1>1, <1>4, <2>1, AfterRunOnceTyped DEF ReadFails, DaemonTypeOK
  <2>3. SessionsOK'
    BY <1>1, <1>4, <2>1, AfterRunOnceTyped DEF ReadFails, DaemonTypeOK, SessionsOK
  <2> QED
    BY <1>2, <2>2, <2>3
<1>5. CASE WaitOver
  BY <1>1, <1>2, <1>5 DEF WaitOver, DaemonTypeOK, SessionsOK
<1>6. CASE Cancel
  BY <1>1, <1>2, <1>6 DEF Cancel, DaemonTypeOK, SessionsOK
<1> QED
  BY <1>3, <1>4, <1>5, <1>6

LEMMA ReadFrameKeeps ==
    ASSUME DaemonInv, ReadFrame
    PROVE  DaemonInv'
<1> USE DEF DaemonInv, Busy, daemonVars
<1> DEFINE q == Head(inbox[session])
<1>1. /\ session \in Sessions /\ inbox[session] \in Seq(Questions) /\ inbox[session] # << >>
      /\ q \in Questions /\ sentOn[q] = session /\ handler[q] = "none"
      /\ q = inbox[session][1] /\ 1 \in 1 .. Len(inbox[session])
  BY MaxSessionsAssumption DEF ReadFrame, DaemonTypeOK, Sessions, InboxesOK
<1>2. /\ inbox' = [inbox EXCEPT ![session] = Tail(@)]
      /\ handler' = [handler EXCEPT ![q] = "hook"]
      /\ UNCHANGED <<daemonVars, conn, closed, writes, writer, writing, sentOn, done, received>>
  BY DEF ReadFrame
<1> HIDE DEF q
<1>3. DaemonTypeOK'
  BY <1>1, <1>2 DEF DaemonTypeOK
<1>4. QueuesOK' /\ WritersOK' /\ WaitsForAnswer'
  BY <1>1, <1>2, QueuesKept, WritersKept, WaitsKept DEF DaemonTypeOK
<1>5. AnswersOK' /\ SessionsOK'
  BY <1>1, <1>2 DEF AnswersOK, SessionsOK, DaemonTypeOK
<1>6. InboxesOK'
  <2> SUFFICES ASSUME NEW s \in Sessions, NEW i \in 1 .. Len(inbox'[s])
               PROVE  /\ sentOn[inbox'[s][i]] = s
                      /\ handler'[inbox'[s][i]] = "none"
                      /\ \A j \in 1 .. Len(inbox'[s]) : inbox'[s][j] = inbox'[s][i] => j = i
    BY <1>2 DEF InboxesOK
  <2>1. CASE s # session
    <3>1. inbox'[s] = inbox[s]
      BY <1>1, <1>2, <2>1 DEF DaemonTypeOK
    <3>2. inbox[s][i] \in Questions /\ inbox[s][i] # q
      BY <1>1, <2>1, <3>1 DEF InboxesOK, DaemonTypeOK
    <3>3. /\ sentOn[inbox[s][i]] = s /\ handler[inbox[s][i]] = "none"
          /\ \A j \in 1 .. Len(inbox[s]) : inbox[s][j] = inbox[s][i] => j = i
      BY <3>1 DEF InboxesOK
    <3>4. handler'[inbox[s][i]] = handler[inbox[s][i]]
      BY <1>2, <3>2 DEF DaemonTypeOK
    <3> QED
      BY <3>1, <3>3, <3>4
  <2>2. CASE s = session
    <3>1. /\ inbox'[s] = Tail(inbox[s])
          /\ Len(inbox'[s]) = Len(inbox[s]) - 1
          /\ \A j \in 1 .. Len(inbox'[s]) : inbox'[s][j] = inbox[s][j + 1]
      BY <1>1, <1>2, <2>2 DEF DaemonTypeOK
    <3>2. i + 1 \in 1 .. Len(inbox[s]) /\ inbox[s][i + 1] \in Questions
      BY <1>1, <2>2, <3>1
    <3>3. inbox[s][i + 1] # q
      BY <1>1, <2>2, <3>2 DEF InboxesOK
    <3>4. handler'[inbox[s][i + 1]] = "none" /\ sentOn[inbox[s][i + 1]] = s
      BY <1>2, <3>2, <3>3 DEF InboxesOK, DaemonTypeOK
    <3>5. ASSUME NEW j \in 1 .. Len(inbox'[s]), inbox'[s][j] = inbox'[s][i]
          PROVE  j = i
      <4>1. j + 1 \in 1 .. Len(inbox[s]) /\ inbox[s][j + 1] = inbox[s][i + 1]
        BY <1>1, <2>2, <3>1, <3>5
      <4>2. j + 1 = i + 1
        BY <3>2, <4>1 DEF InboxesOK
      <4> QED
        BY <4>2
    <3> QED
      BY <3>1, <3>4, <3>5
  <2> QED
    BY <2>1, <2>2
<1> QED
  BY <1>3, <1>4, <1>5, <1>6

LEMMA SendQuestionKeeps ==
    ASSUME DaemonInv, NEW q \in Questions, SendQuestion(q)
    PROVE  DaemonInv'
<1> USE DEF DaemonInv, Busy, daemonVars
<1>1. /\ session \in Sessions /\ sentOn[q] = 0 /\ handler[q] = "none" /\ conn[session] = "up"
      /\ inbox[session] \in Seq(Questions)
  BY MaxSessionsAssumption DEF SendQuestion, DaemonTypeOK, Sessions
<1>2. /\ sentOn' = [sentOn EXCEPT ![q] = session]
      /\ inbox' = [inbox EXCEPT ![session] = Append(@, q)]
      /\ UNCHANGED <<daemonVars, conn, closed, writes, writer, writing, handler, done, received>>
  BY DEF SendQuestion
<1>3. DaemonTypeOK'
  BY <1>1, <1>2 DEF DaemonTypeOK, Sessions
<1>4. \A r \in Questions : handler[r] # "none" => sentOn'[r] = sentOn[r]
  BY <1>1, <1>2 DEF DaemonTypeOK
<1>5. QueuesOK' /\ WritersOK' /\ WaitsForAnswer'
  <2>1. \A s \in Sessions : \A i \in 1 .. Len(writes[s]) :
            writes[s][i] \in Questions /\ (InFlight(writes[s][i], s) => InFlight(writes[s][i], s)')
    BY <1>2, <1>4 DEF DaemonTypeOK, InFlight
  <2>2. QueuesOK'
    BY <1>2, <2>1 DEF QueuesOK, Writing
  <2>3. WritersOK'
    BY <1>2, <1>4 DEF WritersOK, InFlight, DaemonTypeOK
  <2>4. WaitsForAnswer'
    <3>1. \A s \in Sessions, r \in Questions :
             (Writing(s, r)' <=> Writing(s, r)) /\ (Queued(s, r)' <=> Queued(s, r))
      BY <1>2 DEF Writing, Queued
    <3>2. \A r \in Questions : handler[r] = "await" => sentOn'[r] = sentOn[r] /\ sentOn[r] \in Sessions
      BY <1>4 DEF DaemonTypeOK
    <3> QED
      BY <1>2, <3>1, <3>2 DEF WaitsForAnswer
  <2> QED
    BY <2>2, <2>3, <2>4
<1>6. AnswersOK' /\ SessionsOK'
  BY <1>1, <1>2 DEF AnswersOK, SessionsOK, DaemonTypeOK
<1>7. InboxesOK'
  <2> SUFFICES ASSUME NEW s \in Sessions, NEW i \in 1 .. Len(inbox'[s])
               PROVE  /\ sentOn'[inbox'[s][i]] = s
                      /\ handler[inbox'[s][i]] = "none"
                      /\ \A j \in 1 .. Len(inbox'[s]) : inbox'[s][j] = inbox'[s][i] => j = i
    BY <1>2 DEF InboxesOK
  <2>1. \A j \in 1 .. Len(inbox[s]) : inbox[s][j] # q
    BY <1>1, MaxSessionsAssumption DEF InboxesOK, Sessions
  <2>2. CASE s # session
    <3>1. inbox'[s] = inbox[s]
      BY <1>1, <1>2, <2>2 DEF DaemonTypeOK
    <3> QED
      BY <1>2, <2>1, <3>1 DEF InboxesOK, DaemonTypeOK
  <2>3. CASE s = session
    <3>1. /\ inbox'[s] = Append(inbox[s], q)
          /\ Len(inbox'[s]) = Len(inbox[s]) + 1
          /\ \A j \in 1 .. Len(inbox[s]) : inbox'[s][j] = inbox[s][j]
          /\ inbox'[s][Len(inbox[s]) + 1] = q
      BY <1>1, <1>2, <2>3 DEF DaemonTypeOK
    <3> QED
      BY <1>1, <1>2, <2>1, <2>3, <3>1 DEF InboxesOK, DaemonTypeOK
  <2> QED
    BY <2>2, <2>3
<1> QED
  BY <1>3, <1>5, <1>6, <1>7

LEMMA LoseConnKeeps ==
    ASSUME DaemonInv, LoseConn
    PROVE  DaemonInv'
<1> USE DEF DaemonInv, Busy, daemonVars
<1>1. UNCHANGED <<daemonVars, inbox, writes, writer, writing, sentOn, handler, done, received>>
  BY DEF LoseConn
<1>2. DaemonTypeOK' /\ SessionsOK'
  BY DEF LoseConn, DaemonTypeOK, SessionsOK
<1>3. QueuesOK' /\ WritersOK' /\ InboxesOK' /\ WaitsForAnswer' /\ AnswersOK'
  BY <1>1, QueuesKept, WritersKept, InboxesKept, WaitsKept DEF AnswersOK
<1> QED
  BY <1>2, <1>3

-----------------------------------------------------------------------------
(* Senders.                                                                *)

\* Handlers move without touching a queue.
LEMMA HandlerKeeps ==
    ASSUME DaemonInv, NEW q \in Questions,
           HookEnds(q) \/ SendClosed(q) \/ SendCancelled(q) \/ SendReturns(q)
    PROVE  DaemonInv'
<1> USE DEF DaemonInv, Busy, daemonVars, sessionVars
<1>1. PICK to \in {"send"} \cup Ended : handler' = [handler EXCEPT ![q] = to]
  BY DEF HookEnds, SendClosed, SendCancelled, SendReturns, DaemonTypeOK, Ended
<1>2. /\ handler[q] \in {"hook", "send", "await"}
      /\ handler[q] = "await" => \/ handler'[q] = "cancelled"
                                 \/ handler'[q] = done[q] /\ done[q] # "empty"
      /\ handler[q] # "await" => handler'[q] \in {"send", "closed", "cancelled"}
  BY DEF HookEnds, SendClosed, SendCancelled, SendReturns, DaemonTypeOK
<1>3. UNCHANGED <<daemonVars, sessionVars, sentOn, done, received>>
  BY DEF HookEnds, SendClosed, SendCancelled, SendReturns
<1>4. DaemonTypeOK'
  BY <1>1, <1>2, <1>3 DEF DaemonTypeOK, Ended
<1>5. ASSUME NEW r \in Questions, NEW s \in Sessions, InFlight(r, s)
      PROVE  InFlight(r, s)'
  BY <1>1, <1>2, <1>3, <1>5 DEF InFlight, DaemonTypeOK
<1>6. QueuesOK'
  <2>1. \A s \in Sessions : \A i \in 1 .. Len(writes[s]) : writes[s][i] \in Questions
    BY DEF DaemonTypeOK
  <2> QED
    BY <1>3, <1>5, <2>1 DEF QueuesOK, Writing
<1>7. WritersOK'
  BY <1>3, <1>5 DEF WritersOK, DaemonTypeOK
<1>8. AnswersOK'
  BY <1>1, <1>2, <1>3 DEF AnswersOK, DaemonTypeOK
<1>9. InboxesOK'
  BY <1>1, <1>2, <1>3, InboxesKept DEF DaemonTypeOK
<1>10. SessionsOK'
  BY <1>3 DEF SessionsOK
<1>11. WaitsForAnswer'
  <2>1. \A r \in Questions : handler'[r] = "await" => handler[r] = "await"
    BY <1>1, <1>2 DEF DaemonTypeOK, Ended
  <2> QED
    BY <1>3, <2>1, WaitsKept
<1> QED
  BY <1>4, <1>6, <1>7, <1>8, <1>9, <1>10, <1>11

LEMMA EnqueueKeeps ==
    ASSUME DaemonInv, NEW q \in Questions, Enqueue(q)
    PROVE  DaemonInv'
<1> USE DEF DaemonInv, Busy, daemonVars
<1>1. PICK s \in Sessions : sentOn[q] = s
  BY DEF Enqueue, DaemonTypeOK
<1>2. handler[q] = "send" /\ done[q] = "empty" /\ received[q] = 0 /\ writes[s] \in Seq(Questions)
  BY DEF Enqueue, DaemonTypeOK, AnswersOK
<1>3. /\ writes' = [writes EXCEPT ![s] = Append(@, q)]
      /\ handler' = [handler EXCEPT ![q] = "await"]
      /\ UNCHANGED <<daemonVars, conn, inbox, closed, writer, writing, sentOn, done, received>>
  BY <1>1 DEF Enqueue
<1>4. DaemonTypeOK'
  BY <1>2, <1>3, <1>1 DEF DaemonTypeOK
<1>5. \A r \in Questions, d \in Sessions : InFlight(r, d) => r # q /\ InFlight(r, d)'
  BY <1>2, <1>3 DEF InFlight, DaemonTypeOK
<1>6. InFlight(q, s)'
  BY <1>2, <1>3, <1>1 DEF InFlight, DaemonTypeOK
<1>7. \A d \in Sessions : ~ Writing(d, q)
  BY <1>5 DEF WritersOK, Writing
<1>8. QueuesOK'
  <2> SUFFICES ASSUME NEW d \in Sessions, NEW i \in 1 .. Len(writes'[d]),
                      NEW x, x = writes'[d][i]
               PROVE  /\ InFlight(x, d)'
                      /\ received'[x] = 0
                      /\ ~ Writing(d, x)'
                      /\ \A j \in 1 .. Len(writes'[d]) : writes'[d][j] = x => j = i
    BY DEF QueuesOK
  <2>1. \A j \in 1 .. Len(writes[d]) : writes[d][j] # q
    BY <1>5 DEF QueuesOK, DaemonTypeOK
  <2>2. ASSUME i \in 1 .. Len(writes[d]), x = writes[d][i]
        PROVE  /\ InFlight(x, d)' /\ received[x] = 0 /\ ~ Writing(d, x)
               /\ \A j \in 1 .. Len(writes[d]) : writes[d][j] = x => j = i
    <3>1. x \in Questions
      BY <2>2 DEF DaemonTypeOK
    <3> QED
      BY <1>5, <2>2, <3>1 DEF QueuesOK
  <2>3. CASE d # s
    <3>1. writes'[d] = writes[d]
      BY <1>2, <1>3, <2>3 DEF DaemonTypeOK
    <3> QED
      BY <1>3, <2>2, <3>1 DEF Writing
  <2>4. CASE d = s
    <3>1. /\ Len(writes'[d]) = Len(writes[d]) + 1
          /\ \A j \in 1 .. Len(writes[d]) : writes'[d][j] = writes[d][j]
          /\ writes'[d][Len(writes[d]) + 1] = q
      BY <1>2, <1>3, <2>4 DEF DaemonTypeOK
    <3>2. CASE i = Len(writes[d]) + 1
      <4>1. x = q /\ InFlight(x, d)' /\ received[x] = 0 /\ ~ Writing(d, x)
        BY <1>2, <1>6, <1>7, <2>4, <3>1, <3>2
      <4> QED
        BY <1>2, <1>3, <2>1, <2>4, <3>1, <3>2, <4>1 DEF Writing
    <3>3. CASE i # Len(writes[d]) + 1
      <4>1. i \in 1 .. Len(writes[d]) /\ x = writes[d][i] /\ x # q
        BY <1>2, <2>1, <2>4, <3>1, <3>3
      <4> QED
        BY <1>2, <1>3, <2>2, <2>4, <3>1, <4>1 DEF Writing
    <3> QED
      BY <3>2, <3>3
  <2> QED
    BY <2>3, <2>4
<1>9. WritersOK'
  BY <1>3, <1>5 DEF WritersOK, DaemonTypeOK
<1>10. AnswersOK' /\ SessionsOK'
  BY <1>2, <1>3 DEF AnswersOK, SessionsOK, DaemonTypeOK
<1>11. InboxesOK'
  BY <1>2, <1>3, InboxesKept DEF DaemonTypeOK
<1>12. WaitsForAnswer'
  <2>1. \A d \in Sessions, r \in Questions : Queued(d, r) => Queued(d, r)'
    <3> SUFFICES ASSUME NEW d \in Sessions, NEW r \in Questions,
                        NEW i \in 1 .. Len(writes[d]), writes[d][i] = r
                 PROVE  i \in 1 .. Len(writes'[d]) /\ writes'[d][i] = r
      BY DEF Queued
    <3> QED
      BY <1>2, <1>3 DEF DaemonTypeOK
  <2>2. Queued(s, q)'
    <3>1. Len(writes'[s]) \in 1 .. Len(writes'[s]) /\ writes'[s][Len(writes'[s])] = q
      BY <1>2, <1>3 DEF DaemonTypeOK
    <3> QED
      BY <3>1 DEF Queued
  <2>3. \A r \in Questions \ {q} : handler'[r] = handler[r] /\ (handler[r] # "none" => sentOn[r] \in Sessions)
    BY <1>3 DEF DaemonTypeOK
  <2> QED
    BY <1>3, <1>1, <2>1, <2>2, <2>3 DEF WaitsForAnswer, Writing
<1> QED
  BY <1>4, <1>8, <1>9, <1>10, <1>11, <1>12

-----------------------------------------------------------------------------
(* The writer goroutine of a session.                                      *)

LEMMA TakeWriteKeeps ==
    ASSUME DaemonInv, NEW s \in Sessions, TakeWrite(s)
    PROVE  DaemonInv'
<1> USE DEF DaemonInv, Busy, daemonVars
<1>1. PICK q \in Questions : q = writes[s][1]
  BY DEF TakeWrite, DaemonTypeOK
<1>2. /\ writer[s] = "select" /\ writes[s] \in Seq(Questions) /\ writes[s] # << >>
      /\ writer'  = [writer EXCEPT ![s] = "write"]
      /\ writing' = [writing EXCEPT ![s] = q]
      /\ writes'  = [writes EXCEPT ![s] = Tail(@)]
      /\ UNCHANGED <<daemonVars, conn, inbox, closed, sentOn, handler, done, received>>
  BY <1>1 DEF TakeWrite, DaemonTypeOK
<1>3. 1 \in 1 .. Len(writes[s]) /\ InFlight(q, s) /\ received[q] = 0
  BY <1>1, <1>2 DEF QueuesOK
<1>4. DaemonTypeOK'
  BY <1>2 DEF DaemonTypeOK
<1>5. /\ Len(writes'[s]) = Len(writes[s]) - 1
      /\ \A j \in 1 .. Len(writes'[s]) :
            j + 1 \in 1 .. Len(writes[s]) /\ writes'[s][j] = writes[s][j + 1]
      /\ \A d \in Sessions \ {s} : writes'[d] = writes[d]
  BY <1>2 DEF DaemonTypeOK
<1>6. WritersOK'
  <2>1. writer'[s] = "write" /\ writing'[s] = q
    BY <1>2 DEF DaemonTypeOK
  <2>2. \A d \in Sessions \ {s} : writer'[d] = writer[d] /\ writing'[d] = writing[d]
    BY <1>2 DEF DaemonTypeOK
  <2> QED
    BY <1>2, <1>3, <2>1, <2>2 DEF WritersOK, InFlight
<1>7. QueuesOK'
  <2> SUFFICES ASSUME NEW d \in Sessions, NEW i \in 1 .. Len(writes'[d]),
                      NEW x, x = writes'[d][i]
               PROVE  /\ InFlight(x, d)'
                      /\ received'[x] = 0
                      /\ ~ Writing(d, x)'
                      /\ \A j \in 1 .. Len(writes'[d]) : writes'[d][j] = x => j = i
    BY DEF QueuesOK
  <2>1. CASE d # s
    BY <1>2, <1>5, <2>1 DEF QueuesOK, Writing, InFlight, DaemonTypeOK
  <2>2. CASE d = s
    <3>1. i + 1 \in 1 .. Len(writes[s]) /\ x = writes[s][i + 1] /\ i + 1 # 1
      BY <1>5, <2>2
    <3>2. InFlight(x, d) /\ received[x] = 0 /\ x # q
      BY <1>1, <1>3, <2>2, <3>1 DEF QueuesOK
    <3>3. ~ Writing(d, x)'
      BY <1>2, <2>2, <3>2 DEF Writing, DaemonTypeOK
    <3>4. ASSUME NEW j \in 1 .. Len(writes'[d]), writes'[d][j] = x
          PROVE  j = i
      <4>1. j + 1 \in 1 .. Len(writes[s]) /\ writes[s][j + 1] = writes[s][i + 1]
        BY <1>5, <2>2, <3>1, <3>4
      <4>2. j + 1 = i + 1
        BY <3>1, <4>1 DEF QueuesOK
      <4> QED
        BY <4>2
    <3> QED
      BY <1>2, <3>2, <3>3, <3>4 DEF InFlight
  <2> QED
    BY <2>1, <2>2
<1>8. AnswersOK' /\ SessionsOK' /\ InboxesOK'
  <2>1. UNCHANGED <<phase, session, conn, inbox, sentOn, handler, done, received>>
    BY <1>2
  <2>2. AnswersOK'
    BY <2>1 DEF AnswersOK
  <2>3. SessionsOK'
    BY <2>1 DEF SessionsOK
  <2>4. InboxesOK'
    BY <2>1, InboxesKept
  <2> QED
    BY <2>2, <2>3, <2>4
<1>9. WaitsForAnswer'
  <2> SUFFICES ASSUME NEW r \in Questions, handler[r] = "await", done[r] = "empty"
               PROVE  Writing(sentOn[r], r)' \/ Queued(sentOn[r], r)'
    BY <1>2 DEF WaitsForAnswer, Writing, Queued
  <2>1. PICK d \in Sessions : d = sentOn[r]
    BY DEF DaemonTypeOK
  <2>2. Writing(d, r) \/ Queued(d, r)
    BY <2>1 DEF WaitsForAnswer
  <2>3. CASE d # s
    BY <1>2, <1>5, <2>1, <2>2, <2>3 DEF Writing, Queued, DaemonTypeOK
  <2>4. CASE d = s /\ r = q
    BY <1>2, <2>1, <2>4 DEF Writing, DaemonTypeOK
  <2>5. CASE d = s /\ r # q
    <3>1. PICK i \in 1 .. Len(writes[s]) : writes[s][i] = r
      BY <1>2, <2>2, <2>5 DEF Queued, Writing
    <3>2. i # 1
      BY <1>1, <2>5, <3>1
    <3>3. i - 1 \in 1 .. Len(writes'[s]) /\ writes'[s][i - 1] = r
      BY <1>2, <1>5, <3>1, <3>2
    <3> QED
      BY <1>2, <2>1, <2>5, <3>3 DEF Queued
  <2> QED
    BY <2>3, <2>4, <2>5
<1> QED
  BY <1>4, <1>6, <1>7, <1>8, <1>9

LEMMA StopWriterKeeps ==
    ASSUME DaemonInv, NEW s \in Sessions, StopWriter(s)
    PROVE  DaemonInv'
<1> USE DEF DaemonInv, Busy, daemonVars
<1>1. /\ writer[s] = "select" /\ writer' = [writer EXCEPT ![s] = "returned"]
      /\ UNCHANGED <<daemonVars, conn, inbox, closed, writes, writing, sentOn, handler, done,
                     received>>
  BY DEF StopWriter
<1>2. \A d \in Sessions, state \in {"write", "written"} :
         writer'[d] = state <=> writer[d] = state
  BY <1>1 DEF DaemonTypeOK
<1>3. DaemonTypeOK' /\ SessionsOK'
  BY <1>1 DEF DaemonTypeOK, SessionsOK
<1> QED
  BY <1>1, <1>2, <1>3, HoldingsKept

LEMMA ArriveKeeps ==
    ASSUME DaemonInv, NEW s \in Sessions, Arrive(s)
    PROVE  DaemonInv'
<1> USE DEF DaemonInv, Busy, daemonVars
<1>1. PICK q \in Questions : q = writing[s]
  BY DEF Arrive, DaemonTypeOK
<1>2. /\ writer[s] = "write" /\ Writing(s, q) /\ InFlight(q, s)
      /\ received' = [received EXCEPT ![q] = @ + 1]
      /\ writer'   = [writer EXCEPT ![s] = "written"]
      /\ UNCHANGED <<daemonVars, conn, inbox, closed, writes, writing, sentOn, handler, done>>
  BY <1>1 DEF Arrive, WritersOK, Writing
<1>3. DaemonTypeOK'
  BY <1>1, <1>2 DEF DaemonTypeOK
<1>4. \A d \in Sessions : Busy(d)' <=> Busy(d)
  BY <1>2 DEF Busy, DaemonTypeOK
<1>5. \A r \in Questions, d \in Sessions :
         /\ InFlight(r, d)' <=> InFlight(r, d)
         /\ Writing(d, r)' <=> Writing(d, r)
  BY <1>2, <1>4 DEF InFlight, Writing
<1>6. \A r \in Questions : r # q => received'[r] = received[r]
  BY <1>2 DEF DaemonTypeOK
<1>7. QueuesOK'
  <2> SUFFICES ASSUME NEW d \in Sessions, NEW i \in 1 .. Len(writes[d]),
                      NEW x \in Questions, x = writes[d][i]
               PROVE  /\ InFlight(x, d)' /\ received'[x] = 0 /\ ~ Writing(d, x)'
                      /\ \A j \in 1 .. Len(writes[d]) : writes[d][j] = x => j = i
    BY <1>2 DEF QueuesOK, DaemonTypeOK, InFlight, Writing
  <2>1. InFlight(x, d) /\ received[x] = 0 /\ ~ Writing(d, x)
    BY DEF QueuesOK
  <2>2. x # q
    BY <1>2, <2>1 DEF InFlight
  <2> QED
    BY <1>5, <1>6, <2>1, <2>2 DEF QueuesOK
<1>8. WritersOK'
  <2> SUFFICES ASSUME NEW d \in Sessions, NEW x \in Questions, Writing(d, x)
               PROVE  InFlight(x, d)' /\ (writer'[d] = "write" => received'[x] = 0)
    BY <1>2, <1>4, <1>3 DEF WritersOK, Writing, DaemonTypeOK, InFlight
  <2>1. InFlight(x, d) /\ (writer[d] = "write" => received[x] = 0)
    BY DEF WritersOK, Writing
  <2>2. writer'[d] = "write" => writer[d] = "write" /\ x # q
    BY <1>2, <2>1 DEF DaemonTypeOK, InFlight
  <2> QED
    BY <1>5, <1>6, <2>1, <2>2
<1>9. AnswersOK'
  BY <1>2, <1>6 DEF AnswersOK, InFlight
<1>10. InboxesOK' /\ SessionsOK'
  <2>1. UNCHANGED <<phase, session, conn, inbox, sentOn, handler>>
    BY <1>2
  <2>2. InboxesOK'
    BY <2>1, InboxesKept
  <2>3. SessionsOK'
    BY <2>1 DEF SessionsOK
  <2> QED
    BY <2>2, <2>3
<1>11. WaitsForAnswer'
  <2>1. \A r \in Questions : handler[r] = "await" => sentOn[r] \in Sessions
    BY DEF DaemonTypeOK
  <2> QED
    BY <1>2, <1>4, <2>1 DEF WaitsForAnswer, Queued, Writing
<1> QED
  BY <1>3, <1>7, <1>8, <1>9, <1>10, <1>11

LEMMA WriteReturnsKeeps ==
    ASSUME DaemonInv, NEW s \in Sessions, WriteSucceeds(s) \/ WriteFails(s)
    PROVE  DaemonInv'
<1> USE DEF DaemonInv, Busy, daemonVars
<1>1. PICK q \in Questions : q = writing[s] /\ Writing(s, q) /\ InFlight(q, s)
  BY DEF WriteSucceeds, WriteFails, DaemonTypeOK, WritersOK, Writing
<1>2. PICK answer \in {"ok", "failed"} : done' = [done EXCEPT ![q] = answer]
  BY <1>1 DEF WriteSucceeds, WriteFails
<1>3. /\ writer'  = [writer EXCEPT ![s] = "select"]
      /\ writing' = [writing EXCEPT ![s] = NoQuestion]
      /\ conn' \in {conn, [conn EXCEPT ![s] = "dead"]}
      /\ UNCHANGED <<daemonVars, inbox, closed, writes, sentOn, handler, received>>
  BY DEF WriteSucceeds, WriteFails
<1>4. DaemonTypeOK'
  BY <1>2, <1>3 DEF DaemonTypeOK
<1>5. \A d \in Sessions : d # s => writer'[d] = writer[d] /\ writing'[d] = writing[d]
  BY <1>3 DEF DaemonTypeOK
<1>6. \A d \in Sessions, r \in Questions : Writing(d, r)' => d # s /\ Writing(d, r)
  BY <1>3, <1>5 DEF Writing, DaemonTypeOK
<1>7. \A d \in Sessions, r \in Questions : InFlight(r, d) /\ r # q => InFlight(r, d)'
  BY <1>2, <1>3 DEF InFlight, DaemonTypeOK
<1>8. QueuesOK'
  <2> SUFFICES ASSUME NEW d \in Sessions, NEW i \in 1 .. Len(writes[d]),
                      NEW x \in Questions, x = writes[d][i]
               PROVE  /\ InFlight(x, d)' /\ received[x] = 0 /\ ~ Writing(d, x)'
                      /\ \A j \in 1 .. Len(writes[d]) : writes[d][j] = x => j = i
    <3>1. UNCHANGED <<writes, received>>
      BY <1>3
    <3>2. \A d \in Sessions : \A i \in 1 .. Len(writes[d]) : writes[d][i] \in Questions
      BY DEF DaemonTypeOK
    <3> QED
      BY <3>1, <3>2 DEF QueuesOK
  <2>1. InFlight(x, d) /\ received[x] = 0 /\ ~ Writing(d, x)
    BY DEF QueuesOK
  <2>2. x # q
    BY <1>1, <2>1 DEF InFlight
  <2> QED
    BY <1>6, <1>7, <2>1, <2>2 DEF QueuesOK
<1>9. WritersOK'
  <2> SUFFICES ASSUME NEW d \in Sessions, NEW x \in Questions, Writing(d, x)'
               PROVE  InFlight(x, d)' /\ (writer'[d] = "write" => received[x] = 0)
    <3>1. UNCHANGED received
      BY <1>3
    <3> QED
      BY <1>4, <3>1 DEF WritersOK, Writing, DaemonTypeOK
  <2>1. d # s /\ Writing(d, x)
    BY <1>6
  <2>2. InFlight(x, d) /\ x # q
    BY <1>1, <2>1 DEF WritersOK, Writing, InFlight
  <2>3. writer'[d] = "write" => received[x] = 0
    BY <1>5, <2>1 DEF WritersOK, Writing
  <2> QED
    BY <1>7, <2>2, <2>3
<1>10. AnswersOK'
  <2> SUFFICES ASSUME NEW r \in Questions
               PROVE  /\ handler[r] \in {"none", "hook", "send", "closed"} =>
                            done'[r] = "empty" /\ received[r] = 0
                      /\ handler[r] = "failed" => done'[r] = "failed"
    BY <1>3 DEF AnswersOK
  <2>1. CASE r # q
    BY <1>2, <2>1 DEF AnswersOK, DaemonTypeOK
  <2>2. CASE r = q
    BY <1>1, <2>2 DEF InFlight
  <2> QED
    BY <2>1, <2>2
<1>11. InboxesOK' /\ SessionsOK'
  <2>1. \A d \in Sessions : conn'[d] = "up" => conn[d] = "up"
    BY <1>3 DEF DaemonTypeOK
  <2> QED
    BY <1>3, <2>1 DEF InboxesOK, SessionsOK
<1>12. WaitsForAnswer'
  <2> SUFFICES ASSUME NEW r \in Questions, handler[r] = "await", done'[r] = "empty"
               PROVE  Writing(sentOn[r], r)' \/ Queued(sentOn[r], r)'
    BY <1>3 DEF WaitsForAnswer, Writing, Queued
  <2>1. r # q /\ done[r] = "empty" /\ sentOn[r] \in Sessions
    BY <1>2 DEF DaemonTypeOK
  <2>2. Writing(sentOn[r], r) \/ Queued(sentOn[r], r)
    BY <2>1 DEF WaitsForAnswer
  <2>3. CASE sentOn[r] = s
    BY <1>1, <1>3, <2>1, <2>2, <2>3 DEF Writing, Queued
  <2>4. CASE sentOn[r] # s
    BY <1>3, <1>5, <2>1, <2>2, <2>4 DEF Writing, Queued
  <2> QED
    BY <2>3, <2>4
<1> QED
  BY <1>4, <1>8, <1>9, <1>10, <1>11, <1>12

-----------------------------------------------------------------------------

LEMMA DaemonInvInit ==
    ASSUME Init
    PROVE  DaemonInv
<1> USE BackoffAssumption, MaxSessionsAssumption DEF Init, Busy
<1>1. DaemonTypeOK
  <2>1. << >> \in Seq(Questions) /\ 0 \in 0 .. MaxWait /\ 0 \in 0 .. MaxSessions /\ 0 \in Nat
    OBVIOUS
  <2>2. /\ inbox \in [Sessions -> Seq(Questions)] /\ writes \in [Sessions -> Seq(Questions)]
        /\ sentOn \in [Questions -> 0 .. MaxSessions] /\ received \in [Questions -> Nat]
    BY <2>1
  <2> QED
    BY <2>1, <2>2 DEF DaemonTypeOK, Ended
<1>2. QueuesOK /\ InboxesOK
  BY DEF QueuesOK, InboxesOK
<1>3. WritersOK /\ AnswersOK /\ SessionsOK /\ WaitsForAnswer
  BY DEF WritersOK, AnswersOK, SessionsOK, WaitsForAnswer
<1> QED
  BY <1>1, <1>2, <1>3 DEF DaemonInv

LEMMA DaemonInvStep ==
    ASSUME DaemonInv, [Next]_vars
    PROVE  DaemonInv'
<1>1. CASE UNCHANGED vars
  <2>1. UNCHANGED <<daemonVars, conn, inbox, closed, writes, writer, writing, sentOn, handler,
                    done, received>>
    BY <1>1 DEF vars, sessionVars
  <2>2. DaemonTypeOK' /\ SessionsOK'
    BY <2>1 DEF daemonVars, DaemonInv, DaemonTypeOK, SessionsOK, Busy
  <2> QED
    BY <2>1, <2>2, HoldingsKept DEF DaemonInv
<1>2. CASE Process
  <2>1. CASE Supervisor
    BY <2>1, DialKeeps, SupervisorKeeps, ReadFrameKeeps DEF Supervisor
  <2>2. CASE Cancel
    BY <2>2, SupervisorKeeps
  <2>3. CASE \E q \in Questions : HookEnds(q) \/ Send(q)
    BY <2>3, HandlerKeeps, EnqueueKeeps DEF Send
  <2>4. CASE \E s \in Sessions : WriteLoop(s)
    BY <2>4, TakeWriteKeeps, StopWriterKeeps, ArriveKeeps, WriteReturnsKeeps DEF WriteLoop, Write
  <2> QED
    BY <1>2, <2>1, <2>2, <2>3, <2>4 DEF Process
<1>3. CASE LoseConn
  BY <1>3, LoseConnKeeps
<1>4. CASE \E q \in Questions : SendQuestion(q)
  BY <1>4, SendQuestionKeeps
<1> QED
  BY <1>1, <1>2, <1>3, <1>4 DEF Next

LEMMA DaemonInvAlways == Spec => []DaemonInv
BY DaemonInvInit, DaemonInvStep, PTL DEF Spec

LEMMA ErrorIsFinalFollows ==
    ASSUME DaemonInv
    PROVE  ErrorIsFinal
<1> SUFFICES ASSUME NEW q \in Questions, handler[q] \in {"closed", "failed"}
             PROVE  /\ \A s \in Sessions : ~ Queued(s, q) /\ ~ Writing(s, q)
                    /\ handler[q] = "closed" => received[q] = 0
  BY DEF ErrorIsFinal
<1>1. \A s \in Sessions : ~ InFlight(q, s)
  BY DEF InFlight
<1>2. \A s \in Sessions : ~ Queued(s, q) /\ ~ Writing(s, q)
  BY <1>1 DEF DaemonInv, QueuesOK, WritersOK, Queued, Writing
<1>3. handler[q] = "closed" => received[q] = 0
  BY DEF DaemonInv, AnswersOK
<1> QED
  BY <1>2, <1>3

\* The sets and functions of the daemon keep their types, and the wait before
\* the next dial never passes the configured maximum (backoff.go), for any
\* number of questions and sessions.
THEOREM DaemonTypeCorrect == Spec => []DaemonTypeOK
<1>1. DaemonInv => DaemonTypeOK
  BY DEF DaemonInv
<1> QED
  BY <1>1, DaemonInvAlways, PTL

\* A Send that waits has its request in the queue of its session, in the hands
\* of the writer goroutine, or answered, whatever the capacity of the queue.
THEOREM DaemonWaits == Spec => []WaitsForAnswer
<1>1. DaemonInv => WaitsForAnswer
  BY DEF DaemonInv
<1> QED
  BY <1>1, DaemonInvAlways, PTL

\* An error of Send other than the end of the daemon means that the reply was
\* not delivered and will not be.
THEOREM ErrorsAreTrue == Spec => []ErrorIsFinal
BY ErrorIsFinalFollows, DaemonInvAlways, PTL

-----------------------------------------------------------------------------
(* The daemon implements BuddyPromise.                                     *)

\* The questions that are unanswered were sent on the session that is read.
LEMMA UnansweredOnSession ==
    ASSUME DaemonInv
    PROVE  \A q \in Unanswered : sentOn[q] = session /\ session \in Sessions
BY MaxSessionsAssumption DEF DaemonInv, SessionsOK, DaemonTypeOK, Sessions, Unanswered

\* A connection that goes down takes every pending question with it, or none.
LEMMA ConnDownIsLose ==
    ASSUME DaemonInv, UNCHANGED <<sentOn, received>>,
           NEW s \in Sessions, NEW state \in {"lost", "dead"},
           conn' = [conn EXCEPT ![s] = state]
    PROVE  [Promise!PromiseNext]_(Promise!promiseVars)
<1>1. CASE s = session
  <2>1. Unanswered' = {}
    BY <1>1 DEF Unanswered, DaemonInv, DaemonTypeOK, SessionsOK, Sessions
  <2> QED
    BY <2>1 DEF Promise!PromiseNext, Promise!Lose
<1>2. CASE s # session
  <2>1. conn[s] # "up"
    BY <1>2 DEF DaemonInv, SessionsOK
  <2>2. \A q \in Questions : sentOn[q] > 0 => sentOn[q] \in Sessions
    BY MaxSessionsAssumption DEF DaemonInv, DaemonTypeOK, Sessions
  <2>3. \A d \in Sessions : conn'[d] = "up" <=> conn[d] = "up"
    BY <2>1 DEF DaemonInv, DaemonTypeOK
  <2>4. Unanswered' = Unanswered
    BY <2>2, <2>3 DEF Unanswered
  <2> QED
    BY <2>4 DEF Promise!promiseVars
<1> QED
  BY <1>1, <1>2

LEMMA ArriveIsReply ==
    ASSUME DaemonInv, NEW s \in Sessions, Arrive(s)
    PROVE  [Promise!PromiseNext]_(Promise!promiseVars)
<1>1. PICK q \in Questions : q = writing[s]
  BY DEF Arrive, DaemonInv, DaemonTypeOK, Busy
<1>2. /\ sentOn[q] = s /\ s > 0 /\ received[q] = 0 /\ conn[s] = "up"
      /\ received' = [received EXCEPT ![q] = @ + 1] /\ UNCHANGED <<conn, sentOn>>
  BY <1>1 DEF Arrive, DaemonInv, WritersOK, InFlight, Busy, Sessions
<1>3. q \in Unanswered /\ Unanswered' = Unanswered \ {q}
  BY <1>1, <1>2 DEF Unanswered, DaemonInv, DaemonTypeOK
<1> QED
  BY <1>2, <1>3 DEF Promise!PromiseNext, Promise!Reply

LEMMA SendQuestionIsAsk ==
    ASSUME DaemonInv, NEW q \in Questions, SendQuestion(q)
    PROVE  Promise!Ask(q)
<1>1. sentOn[q] = 0 /\ session > 0 /\ conn[session] = "up" /\ sentOn' = [sentOn EXCEPT ![q] = session]
      /\ UNCHANGED <<conn, received>>
  BY DEF SendQuestion
<1>2. received[q] = 0
  <2>1. handler[q] = "none"
    BY <1>1, MaxSessionsAssumption DEF DaemonInv, DaemonTypeOK, Sessions
  <2> QED
    BY <2>1 DEF DaemonInv, AnswersOK
<1>3. q \notin Unanswered /\ Unanswered' = Unanswered \cup {q}
  BY <1>1, <1>2 DEF Unanswered, DaemonInv, DaemonTypeOK
<1> QED
  BY <1>1, <1>2, <1>3 DEF Promise!Ask

LEMMA PromiseStep ==
    ASSUME DaemonInv, [Next]_vars
    PROVE  [Promise!PromiseNext]_(Promise!promiseVars)
<1>1. ASSUME UNCHANGED <<conn, sentOn, received>>
      PROVE  UNCHANGED Promise!promiseVars
  BY <1>1 DEF Unanswered, Promise!promiseVars
<1>2. CASE Dial
  <2>1. /\ UNCHANGED <<sentOn, received>> /\ conn' = [conn EXCEPT ![session + 1] = "up"]
        /\ session \in Nat
    BY <1>2, MaxSessionsAssumption DEF Dial, DaemonInv, DaemonTypeOK
  <2>2. \A q \in Questions : sentOn[q] # session + 1
    BY <2>1, MaxSessionsAssumption DEF DaemonInv, DaemonTypeOK, SessionsOK
  <2>3. \A q \in Questions : sentOn[q] > 0 => conn'[sentOn[q]] = conn[sentOn[q]]
    BY <2>1, <2>2, MaxSessionsAssumption DEF DaemonInv, DaemonTypeOK, Sessions
  <2>4. Unanswered' = Unanswered
    BY <2>1, <2>3 DEF Unanswered
  <2> QED
    BY <2>1, <2>4 DEF Promise!promiseVars
<1>3. CASE ReadFails
  <2>1. session \in Sessions
    BY <1>3, MaxSessionsAssumption DEF ReadFails, DaemonInv, DaemonTypeOK, Sessions
  <2> QED
    BY <1>3, <2>1, ConnDownIsLose DEF ReadFails
<1>4. CASE DialFails \/ ReadFrame \/ WaitOver \/ Cancel
  BY <1>1, <1>4 DEF DialFails, ReadFrame, WaitOver, Cancel, sessionVars
<1>5. CASE \E q \in Questions : HookEnds(q) \/ Send(q)
  BY <1>1, <1>5 DEF HookEnds, Send, Enqueue, SendClosed, SendCancelled, SendReturns, sessionVars
<1>6. CASE \E s \in Sessions : WriteLoop(s)
  <2> SUFFICES ASSUME NEW s \in Sessions, WriteLoop(s)
               PROVE  [Promise!PromiseNext]_(Promise!promiseVars)
    BY <1>6
  <2>1. CASE Arrive(s)
    BY <2>1, ArriveIsReply
  <2>2. CASE WriteFails(s)
    BY <2>2, ConnDownIsLose DEF WriteFails
  <2>3. CASE TakeWrite(s) \/ StopWriter(s) \/ WriteSucceeds(s)
    BY <1>1, <2>3 DEF TakeWrite, StopWriter, WriteSucceeds
  <2> QED
    BY <2>1, <2>2, <2>3 DEF WriteLoop, Write
<1>7. CASE LoseConn
  <2>1. session \in Sessions
    BY <1>7, MaxSessionsAssumption DEF LoseConn, DaemonInv, DaemonTypeOK, Sessions
  <2> QED
    BY <1>7, <2>1, ConnDownIsLose DEF LoseConn
<1>8. CASE \E q \in Questions : SendQuestion(q)
  BY <1>8, SendQuestionIsAsk DEF Promise!PromiseNext
<1>9. CASE UNCHANGED vars
  BY <1>1, <1>9 DEF vars, sessionVars
<1> QED
  BY <1>2, <1>3, <1>4, <1>5, <1>6, <1>7, <1>8, <1>9 DEF Next, Process, Supervisor

\* The daemon implements what the relay counts on: each question is replied to
\* at most once, on the connection it came on and while that is up, for any
\* number of questions and sessions.
THEOREM DaemonKeepsPromise == Spec => KeepsPromise
<1>1. Init => Promise!PromiseInit
  BY DEF Init, Promise!PromiseInit, Unanswered
<1> QED
  BY <1>1, PromiseStep, DaemonInvAlways, PTL DEF Spec, KeepsPromise, Promise!PromiseSpec
=============================================================================
