---------------------------- MODULE HatchlingAsk ----------------------------
(***************************************************************************)
(* clawgard-hatchling-ask (skills/hatchling-skill/src/ask.ts): one process  *)
(* opens a thread, polls it, prints what the buddy says, asks its user for  *)
(* a reply to each clarification request, and ends when the thread closes.  *)
(*                                                                         *)
(* The relay is what module Conversation promises of it, which module Relay *)
(* implements, and RepliesAreMatched of Relay: the buddy's messages never   *)
(* outnumber the hatchling's.  A process is named by its thread.  A message *)
(* is known by its place in the log, which is in created_at order.          *)
(***************************************************************************)
EXTENDS Conversation, FiniteSets

CONSTANT NamesAgree   \* TRUE when the messages in a response have the field
                      \* names of the OpenAPI document, FALSE when they have
                      \* those that store.Message is encoded with

ASSUME NamesAgreeAssumption == NamesAgree \in BOOLEAN

VARIABLES
    phase,       \* phase[t]: what the process does next, or how it ended
    view,        \* view[t]: the row and the messages that the last poll read
    printed,     \* printed[t]: the messages printed
    turnsUsed    \* turnsUsed[t]: hatchlingTurnsUsed

askVars == <<phase, view, printed, turnsUsed>>
vars == <<convVars, askVars>>

TURN_CAP == 3

FromBuddy == {"answer", "clarification_request", "close"}

Count(t, types) == Cardinality({i \in 1 .. Len(log[t]) : log[t][i] \in types})

\* Statuses of a process that waits for a response of the relay.
InFlight == {"opening", "row", "list", "count", "append", "sent"}

Goto(t, step) == phase' = [phase EXCEPT ![t] = step]

Init ==
    /\ ConvInit
    /\ phase     = [t \in Threads |-> "idle"]
    /\ view      = [t \in Threads |-> [status |-> "none", log |-> << >>]]
    /\ printed   = [t \in Threads |-> {}]
    /\ turnsUsed = [t \in Threads |-> 0]

-----------------------------------------------------------------------------
(* POST /v1/threads.                                                       *)

StartAsk(t) ==
    /\ phase[t] = "idle"
    /\ Goto(t, "opening")
    /\ UNCHANGED <<convVars, view, printed, turnsUsed>>

\* What the relay does for the POST: the row, the question, its turn.
OpenStep(t) ==
    /\ phase[t] = "opening"
    /\ \/ Open(t)
       \/ Post(t, "question")
       \/ turns[t] = 0 /\ TakeTurn(t)
    /\ UNCHANGED askVars

\* 201, or 500 when the thread was closed before its turn was charged.
Opened(t) ==
    /\ phase[t] = "opening"
    /\ \/ turns[t] = 1 /\ Goto(t, "row")
       \/ turns[t] = 0 /\ status[t] = "closed" /\ Goto(t, "failed")
    /\ UNCHANGED <<convVars, view, printed, turnsUsed>>

-----------------------------------------------------------------------------
(* GET /v1/threads/{id}?waitSeconds=25.  `since' is not sent, so the wait   *)
(* ends at once: the question is on record.  The relay reads the row, then  *)
(* the messages.                                                           *)

ReadRow(t) ==
    /\ phase[t] = "row"
    /\ view' = [view EXCEPT ![t].status = status[t]]
    /\ Goto(t, "list")
    /\ UNCHANGED <<convVars, printed, turnsUsed>>

ReadMessages(t) ==
    /\ phase[t] = "list"
    /\ view' = [view EXCEPT ![t].log = log[t]]
    /\ Goto(t, "look")
    /\ UNCHANGED <<convVars, printed, turnsUsed>>

\* The messages of the view with one of these types, as far as the process
\* can tell: m.role and m.type are undefined when the names differ.
Those(t, types) ==
    {i \in 1 .. Len(view[t].log) : NamesAgree /\ view[t].log[i] \in types}

\* Mutant: every request counts as open, answered or not.
AsksNowAlways(t) == Those(t, {"clarification_request"}) # {}

\* The latest request of the buddy has no later clarification.
AsksNow(t) ==
    \E i \in Those(t, {"clarification_request"}) :
        \A j \in Those(t, {"clarification_request", "clarification"}) : j <= i

\* Mutant: the loop returns before it prints.
LookReturnsFirst(t) ==
    /\ phase[t] = "look"
    /\ printed' = IF view[t].status = "closed" THEN printed
                  ELSE [printed EXCEPT ![t] = @ \cup Those(t, FromBuddy)]
    /\ Goto(t, IF view[t].status = "closed" THEN "done"
               ELSE IF AsksNow(t) /\ turnsUsed[t] < TURN_CAP THEN "prompt"
               ELSE "row")
    /\ UNCHANGED <<convVars, view, turnsUsed>>

\* Everything of the buddy is printed, some of it again: only the message
\* printed last is remembered.
Look(t) ==
    /\ phase[t] = "look"
    /\ printed' = [printed EXCEPT ![t] = @ \cup Those(t, FromBuddy)]
    /\ \/ view[t].status = "closed" /\ Goto(t, "done")
       \/ /\ view[t].status # "closed"
          /\ AsksNow(t) /\ turnsUsed[t] < TURN_CAP
          /\ Goto(t, "prompt")
       \/ /\ view[t].status # "closed"
          /\ ~ (AsksNow(t) /\ turnsUsed[t] < TURN_CAP)
          /\ Goto(t, "row")
    /\ UNCHANGED <<convVars, view, turnsUsed>>

-----------------------------------------------------------------------------
(* POST /v1/threads/{id}/messages.                                         *)

\* The user's line, or the end of standard input.
Reply(t) ==
    /\ phase[t] = "prompt"
    /\ turnsUsed' = [turnsUsed EXCEPT ![t] = @ + 1]
    /\ Goto(t, "count")
    /\ UNCHANGED <<convVars, view, printed>>

\* The relay charges a turn, or answers 409: the thread is closed, or its
\* turns are used up and it is closed now.
CountReply(t) ==
    /\ phase[t] = "count"
    /\ \/ TakeTurn(t) /\ Goto(t, "append")
       \/ /\ status[t] = "open" /\ turns[t] = MaxTurns
          /\ Close(t, "turn_cap_reached")
          /\ Goto(t, "failed")
       \/ status[t] = "closed" /\ Goto(t, "failed") /\ UNCHANGED convVars
    /\ UNCHANGED <<view, printed, turnsUsed>>

AppendReply(t) ==
    /\ phase[t] = "append"
    /\ Post(t, "clarification")
    /\ Goto(t, "sent")
    /\ UNCHANGED <<view, printed, turnsUsed>>

Accepted(t) ==
    /\ phase[t] = "sent"
    /\ Goto(t, "row")
    /\ UNCHANGED <<convVars, view, printed, turnsUsed>>

\* apiFetch: no response in time, no connection, or an error status.  Nothing
\* is tried again, and the thread is left as it is.
Fail(t) ==
    /\ phase[t] \in InFlight
    /\ Goto(t, "failed")
    /\ UNCHANGED <<convVars, view, printed, turnsUsed>>

-----------------------------------------------------------------------------
(* The buddy, the sweeper and the relay's other clients.                   *)

\* The question is sent to the buddy after its turn is charged.
BuddyPosts(t, m) ==
    /\ turns[t] > 0
    /\ Count(t, FromBuddy) < Count(t, {"question", "clarification"})
    /\ Post(t, m)
    /\ UNCHANGED askVars

ThreadCloses(t, why) ==
    /\ Close(t, why)
    /\ UNCHANGED askVars

Process(t) ==
    \/ OpenStep(t)
    \/ Opened(t)
    \/ ReadRow(t)
    \/ ReadMessages(t)
    \/ Look(t)
    \/ Reply(t)
    \/ CountReply(t)
    \/ AppendReply(t)
    \/ Accepted(t)

Next ==
    \E t \in Threads :
        \/ StartAsk(t)
        \/ Process(t)
        \/ Fail(t)
        \/ \E m \in FromBuddy : BuddyPosts(t, m)
        \/ \E why \in CloseReasons : ThreadCloses(t, why)

Spec == Init /\ [][Next]_vars

\* The process and the relay's handlers run and the user answers a prompt.
\* No buddy has to reply and nobody has to close the thread.
FairSpec == Spec /\ \A t \in Threads : WF_vars(Process(t))

-----------------------------------------------------------------------------

\* Each clarification that is sent answers a request of its own: the loop
\* never takes an answered request for an open one and spends a turn on it,
\* whatever is logged between the two reads of a poll.
OneReplyPerRequest ==
    \A t \in Threads :
        /\ Count(t, {"clarification"}) <= Count(t, {"clarification_request"})
        /\ turnsUsed[t] <= Count(t, {"clarification_request"})

\* An answer that closed the thread is printed, unless a request failed: the
\* loop prints before it looks at the status, and the status was read before
\* the messages, so "closed" never hides an answer.
AnswerIsPrinted ==
    \A t \in Threads :
        reason[t] = "answered" ~>
            \/ \E i \in printed[t] : log[t][i] = "answer"
            \/ phase[t] = "failed"
=============================================================================
