----------------------------- MODULE BuddyDaemon -----------------------------
(***************************************************************************)
(* The buddy daemon (buddy-cli): the supervisor that dials, serves a       *)
(* session until it fails and waits before it dials again; the session     *)
(* with its one writer goroutine and its queue of writes; and a goroutine  *)
(* per question that runs the hook and sends one reply.                    *)
(*                                                                         *)
(* Sessions are numbered in the order they are dialled.  A question is a   *)
(* frame of type "question" or "clarification"; other frames end their     *)
(* goroutine at once and malformed ones are skipped, so both are left out, *)
(* as is the reply's type: a hook that fails sends a frame like any other. *)
(***************************************************************************)
EXTENDS Integers, Sequences, FiniteSets

CONSTANTS
    Questions,     \* frames that the relay may send
    NoQuestion,    \* stands for no frame
    Lingering,     \* questions whose hook leaves a child that keeps its
                   \* stdout open: cmd.Run waits for it, timeout or not
    QueueCap,      \* capacity of Session.writes (16 in the code)
    InitialWait,   \* BackoffConfig
    MaxWait,
    MaxSessions    \* bound on the sessions dialled

ASSUME NoQuestionAssumption == NoQuestion \notin Questions
ASSUME LingeringAssumption == Lingering \subseteq Questions
ASSUME QueueCapAssumption == QueueCap \in Nat \ {0}
ASSUME BackoffAssumption ==
    InitialWait \in Nat \ {0} /\ MaxWait \in Nat /\ InitialWait <= MaxWait
ASSUME MaxSessionsAssumption == MaxSessions \in Nat

Sessions == 1 .. MaxSessions

VARIABLES
    phase,     \* the supervisor: "dial", "read", "wait", "stopped"
    ctxDone,   \* the daemon was told to stop
    wait,      \* Backoff.current
    session,   \* the latest session, 0 before the first
    conn,      \* conn[s]: "none", "up", "lost" at the far end, "dead" at both
    inbox,     \* inbox[s]: questions sent to the daemon and not yet read
    closed,    \* sessions whose closed channel is closed
    writes,    \* writes[s]: questions whose replies are queued
    writer,    \* writer[s]: "none", "select", "write", "written" once the
               \* frame has arrived, "returned"
    writing,   \* writing[s]: the question whose reply is being written
    sentOn,    \* sentOn[q]: the session q was sent on, 0 if it was not
    handler,   \* handler[q]: the goroutine that handles q
    done,      \* done[q]: what its done channel holds
    received   \* received[q]: replies to q that reached the relay

daemonVars  == <<phase, ctxDone, wait, session>>
sessionVars == <<conn, inbox, closed, writes, writer, writing>>
vars == <<daemonVars, sessionVars, sentOn, handler, done, received>>

-----------------------------------------------------------------------------

Init ==
    /\ phase    = "dial"
    /\ ctxDone  = FALSE
    /\ wait     = 0
    /\ session  = 0
    /\ conn     = [s \in Sessions |-> "none"]
    /\ inbox    = [s \in Sessions |-> << >>]
    /\ closed   = {}
    /\ writes   = [s \in Sessions |-> << >>]
    /\ writer   = [s \in Sessions |-> "none"]
    /\ writing  = [s \in Sessions |-> NoQuestion]
    /\ sentOn   = [q \in Questions |-> 0]
    /\ handler  = [q \in Questions |-> "none"]
    /\ done     = [q \in Questions |-> "empty"]
    /\ received = [q \in Questions |-> 0]

-----------------------------------------------------------------------------
(* The supervisor, and Session.Run in the same goroutine.                  *)

\* Mutant: the doubled wait is not cut to the maximum.
NextWaitUncapped == IF wait = 0 THEN InitialWait ELSE 2 * wait

\* Backoff.Next, without the jitter.
NextWait == IF wait = 0 THEN InitialWait
            ELSE IF 2 * wait > MaxWait THEN MaxWait ELSE 2 * wait

\* runOnce returns an error, as it always does, and RunSupervisor looks at the
\* context first.
AfterRunOnce ==
    \/ ctxDone /\ phase' = "stopped" /\ UNCHANGED wait
    \/ ~ ctxDone /\ phase' = "wait" /\ wait' = NextWait

Dial ==
    /\ phase = "dial" /\ ~ ctxDone /\ session < MaxSessions
    /\ session' = session + 1
    /\ conn'    = [conn EXCEPT ![session + 1] = "up"]
    /\ writer'  = [writer EXCEPT ![session + 1] = "select"]
    /\ phase'   = "read"
    /\ UNCHANGED <<ctxDone, wait, inbox, closed, writes, writing, sentOn, handler, done, received>>

DialFails ==
    /\ phase = "dial"
    /\ AfterRunOnce
    /\ UNCHANGED <<ctxDone, session, sessionVars, sentOn, handler, done, received>>

\* A frame is read and a goroutine started for it.
ReadFrame ==
    /\ phase = "read" /\ conn[session] # "dead" /\ inbox[session] # << >>
    /\ inbox'   = [inbox EXCEPT ![session] = Tail(@)]
    /\ handler' = [handler EXCEPT ![Head(inbox[session])] = "hook"]
    /\ UNCHANGED <<daemonVars, conn, closed, writes, writer, writing, sentOn, done, received>>

\* Mutant: Read is not given the daemon's context.
ReadFailsWhenLost ==
    /\ phase = "read" /\ conn[session] # "up"
    /\ conn'   = [conn EXCEPT ![session] = "dead"]
    /\ closed' = closed \cup {session}
    /\ AfterRunOnce
    /\ UNCHANGED <<ctxDone, session, inbox, writes, writer, writing, sentOn, handler, done,
                   received>>

\* Read returns an error: Run shuts the session down.
ReadFails ==
    /\ phase = "read" /\ (conn[session] # "up" \/ ctxDone)
    /\ conn'   = [conn EXCEPT ![session] = "dead"]
    /\ closed' = closed \cup {session}
    /\ AfterRunOnce
    /\ UNCHANGED <<ctxDone, session, inbox, writes, writer, writing, sentOn, handler, done,
                   received>>

\* The timer of the backoff fires, or the context ends the wait.
WaitOver ==
    /\ phase = "wait"
    /\ phase' = IF ctxDone THEN "stopped" ELSE "dial"
    /\ UNCHANGED <<ctxDone, wait, session, sessionVars, sentOn, handler, done, received>>

\* SIGINT or SIGTERM.
Cancel ==
    /\ ~ ctxDone
    /\ ctxDone' = TRUE
    /\ UNCHANGED <<phase, wait, session, sessionVars, sentOn, handler, done, received>>

-----------------------------------------------------------------------------
(* handleFrame: the hook, then Session.Send.                               *)

\* Mutant: a hook that fails ends the goroutine without a close frame.
HookEndsSilently(q) ==
    /\ handler[q] = "hook"
    /\ \E next \in {"send", "failed"} : handler' = [handler EXCEPT ![q] = next]
    /\ UNCHANGED <<daemonVars, sessionVars, sentOn, done, received>>

\* The hook responds, fails, or is killed by its timeout or by the context.
HookEnds(q) ==
    /\ handler[q] = "hook"
    /\ handler' = [handler EXCEPT ![q] = "send"]
    /\ UNCHANGED <<daemonVars, sessionVars, sentOn, done, received>>

\* The first select of Send takes any of the cases that are ready.
Enqueue(q) ==
    /\ handler[q] = "send" /\ Len(writes[sentOn[q]]) < QueueCap
    /\ writes'  = [writes EXCEPT ![sentOn[q]] = Append(@, q)]
    /\ handler' = [handler EXCEPT ![q] = "await"]
    /\ UNCHANGED <<daemonVars, conn, inbox, closed, writer, writing, sentOn, done, received>>

\* Mutant: the second select has the case of a closed session too.
SendClosedTwice(q) ==
    /\ handler[q] \in {"send", "await"} /\ sentOn[q] \in closed
    /\ handler' = [handler EXCEPT ![q] = "closed"]
    /\ UNCHANGED <<daemonVars, sessionVars, sentOn, done, received>>

SendClosed(q) ==
    /\ handler[q] = "send" /\ sentOn[q] \in closed
    /\ handler' = [handler EXCEPT ![q] = "closed"]
    /\ UNCHANGED <<daemonVars, sessionVars, sentOn, done, received>>

SendCancelled(q) ==
    /\ handler[q] \in {"send", "await"} /\ ctxDone
    /\ handler' = [handler EXCEPT ![q] = "cancelled"]
    /\ UNCHANGED <<daemonVars, sessionVars, sentOn, done, received>>

\* The second select: the writer goroutine has answered.
SendReturns(q) ==
    /\ handler[q] = "await" /\ done[q] # "empty"
    /\ handler' = [handler EXCEPT ![q] = done[q]]
    /\ UNCHANGED <<daemonVars, sessionVars, sentOn, done, received>>

-----------------------------------------------------------------------------
(* writeLoop, one goroutine per session.                                   *)

Busy(s) == writer[s] \in {"write", "written"}

\* Mutant: a request stays in the queue until it is written.
TakeWriteLeavesIt(s) ==
    /\ writer[s] = "select" /\ writes[s] # << >>
    /\ writer'  = [writer EXCEPT ![s] = "write"]
    /\ writing' = [writing EXCEPT ![s] = Head(writes[s])]
    /\ UNCHANGED <<daemonVars, conn, inbox, closed, writes, sentOn, handler, done, received>>

TakeWrite(s) ==
    /\ writer[s] = "select" /\ writes[s] # << >>
    /\ writer'  = [writer EXCEPT ![s] = "write"]
    /\ writing' = [writing EXCEPT ![s] = Head(writes[s])]
    /\ writes'  = [writes EXCEPT ![s] = Tail(@)]
    /\ UNCHANGED <<daemonVars, conn, inbox, closed, sentOn, handler, done, received>>

\* The select may take this case while requests are still queued.
StopWriter(s) ==
    /\ writer[s] = "select" /\ s \in closed
    /\ writer' = [writer EXCEPT ![s] = "returned"]
    /\ UNCHANGED <<daemonVars, conn, inbox, closed, writes, writing, sentOn, handler, done,
                   received>>

\* conn.Write: the frame arrives, if it does, before Write returns.
Arrive(s) ==
    /\ writer[s] = "write" /\ conn[s] = "up"
    /\ received' = [received EXCEPT ![writing[s]] = @ + 1]
    /\ writer'   = [writer EXCEPT ![s] = "written"]
    /\ UNCHANGED <<daemonVars, conn, inbox, closed, writes, writing, sentOn, handler, done>>

\* Write takes a frame for sent although the far end is gone.
WriteSucceeds(s) ==
    /\ writer[s] = "written" \/ (writer[s] = "write" /\ conn[s] = "lost")
    /\ done'    = [done EXCEPT ![writing[s]] = "ok"]
    /\ writer'  = [writer EXCEPT ![s] = "select"]
    /\ writing' = [writing EXCEPT ![s] = NoQuestion]
    /\ UNCHANGED <<daemonVars, conn, inbox, closed, writes, sentOn, handler, received>>

\* Mutant: the writer goroutine returns when a write fails.
WriteFailsForGood(s) ==
    /\ Busy(s) /\ (conn[s] # "up" \/ ctxDone)
    /\ conn'    = [conn EXCEPT ![s] = "dead"]
    /\ writer'  = [writer EXCEPT ![s] = "returned"]
    /\ writing' = [writing EXCEPT ![s] = NoQuestion]
    /\ UNCHANGED <<daemonVars, inbox, closed, writes, sentOn, handler, done, received>>

\* A write that fails closes the connection; its frame may have arrived.
WriteFails(s) ==
    /\ Busy(s) /\ (conn[s] # "up" \/ ctxDone)
    /\ conn'    = [conn EXCEPT ![s] = "dead"]
    /\ done'    = [done EXCEPT ![writing[s]] = "failed"]
    /\ writer'  = [writer EXCEPT ![s] = "select"]
    /\ writing' = [writing EXCEPT ![s] = NoQuestion]
    /\ UNCHANGED <<daemonVars, inbox, closed, writes, sentOn, handler, received>>

-----------------------------------------------------------------------------
(* The relay and the network.                                              *)

SendQuestion(q) ==
    /\ sentOn[q] = 0 /\ session > 0 /\ conn[session] = "up"
    /\ sentOn' = [sentOn EXCEPT ![q] = session]
    /\ inbox'  = [inbox EXCEPT ![session] = Append(@, q)]
    /\ UNCHANGED <<daemonVars, conn, closed, writes, writer, writing, handler, done, received>>

LoseConn ==
    /\ session > 0 /\ conn[session] = "up"
    /\ conn' = [conn EXCEPT ![session] = "lost"]
    /\ UNCHANGED <<daemonVars, inbox, closed, writes, writer, writing, sentOn, handler, done,
                   received>>

-----------------------------------------------------------------------------

Supervisor == Dial \/ DialFails \/ ReadFrame \/ ReadFails \/ WaitOver

Send(q) == Enqueue(q) \/ SendClosed(q) \/ SendCancelled(q) \/ SendReturns(q)

Write(s) == Arrive(s) \/ WriteSucceeds(s) \/ WriteFails(s)

WriteLoop(s) == TakeWrite(s) \/ StopWriter(s) \/ Write(s)

\* When the supervisor returns, so does the process, with its goroutines.
Process ==
    /\ phase # "stopped"
    /\ \/ Supervisor
       \/ Cancel
       \/ \E q \in Questions : HookEnds(q) \/ Send(q)
       \/ \E s \in Sessions : WriteLoop(s)

Next == Process \/ LoseConn \/ \E q \in Questions : SendQuestion(q)

Spec == Init /\ [][Next]_vars

\* Goroutines run, timers fire, and hooks end, by themselves or by their
\* timeout, unless they leave a child behind.  Nobody has to ask or to stop.
Fairness ==
    /\ WF_vars(phase # "stopped" /\ Supervisor)
    /\ \A q \in Questions : WF_vars(phase # "stopped" /\ Send(q))
    /\ \A q \in Questions \ Lingering : WF_vars(phase # "stopped" /\ HookEnds(q))
    /\ \A s \in Sessions : WF_vars(phase # "stopped" /\ WriteLoop(s))

FairSpec == Spec /\ Fairness

-----------------------------------------------------------------------------

Ended == {"ok", "failed", "closed", "cancelled"}

\* The states of the daemon: the wait stays within the maximum of Backoff.Next,
\* and only a question of a session that was dialled has a goroutine.
DaemonTypeOK ==
    /\ phase \in {"dial", "read", "wait", "stopped"}
    /\ ctxDone \in BOOLEAN
    /\ wait \in 0 .. MaxWait
    /\ session \in 0 .. MaxSessions
    /\ phase = "read" => session > 0
    /\ conn \in [Sessions -> {"none", "up", "lost", "dead"}]
    /\ inbox \in [Sessions -> Seq(Questions)]
    /\ closed \in SUBSET Sessions
    /\ writes \in [Sessions -> Seq(Questions)]
    /\ writer \in [Sessions -> {"none", "select", "write", "written", "returned"}]
    /\ writing \in [Sessions -> Questions \cup {NoQuestion}]
    /\ \A s \in Sessions : Busy(s) => writing[s] \in Questions
    /\ sentOn \in [Questions -> 0 .. MaxSessions]
    /\ handler \in [Questions -> {"none", "hook", "send", "await"} \cup Ended]
    /\ \A q \in Questions : handler[q] # "none" => sentOn[q] \in Sessions
    /\ done \in [Questions -> {"empty", "ok", "failed"}]
    /\ received \in [Questions -> Nat]

Queued(s, q) == \E i \in 1 .. Len(writes[s]) : writes[s][i] = q

Writing(s, q) == Busy(s) /\ writing[s] = q

\* A Send that waits has its request in the queue, in the hands of the writer
\* goroutine, or answered: the only sender that can wait in vain is one whose
\* session closed with the request still queued.
WaitsForAnswer ==
    \A q \in Questions :
        handler[q] = "await" =>
            \/ done[q] # "empty"
            \/ Writing(sentOn[q], q)
            \/ Queued(sentOn[q], q)

\* A Send that reports an error other than the daemon's own end leaves nothing
\* behind that could still be delivered; and when it reports a closed session,
\* nothing was delivered.
ErrorIsFinal ==
    \A q \in Questions :
        handler[q] \in {"closed", "failed"} =>
            /\ \A s \in Sessions : ~ Queued(s, q) /\ ~ Writing(s, q)
            /\ handler[q] = "closed" => received[q] = 0

-----------------------------------------------------------------------------
(* The daemon keeps the promise that the relay counts on.                  *)

Unanswered ==
    {q \in Questions : /\ sentOn[q] > 0
                       /\ conn[sentOn[q]] = "up"
                       /\ received[q] = 0}

Promise == INSTANCE BuddyPromise WITH pending <- Unanswered, replies <- received

\* Questions are replied to at most once, on the connection they came on, for
\* as long as it is up.
KeepsPromise == Promise!PromiseSpec

\* And every question is replied to or its connection is lost, whatever its
\* hook does, if only the hook leaves nobody behind.
QuestionsAreSettled ==
    \A q \in Questions \ Lingering : q \in Unanswered ~> q \notin Unanswered

\* A daemon that is told to stop stops, whatever its hooks do.
StopsWhenCancelled == ctxDone ~> phase = "stopped"
=============================================================================
