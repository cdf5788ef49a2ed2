---------------------------- MODULE Conversation ----------------------------
(***************************************************************************)
(* What a thread promises to the two agents that talk through it, with no  *)
(* server, connection or database in sight.  A thread is opened once, takes *)
(* a bounded number of turns, is closed once, and its log only grows.      *)
(*                                                                         *)
(* Module Relay extends this one and is shown to implement ConvSpec over    *)
(* the same four variables: its handlers, the buddy read loop and the      *)
(* sweeper are the only writers of a thread.                               *)
(***************************************************************************)
EXTENDS Integers, Sequences, ThreadIds

CONSTANT MaxTurns   \* turns a thread may take: the cap in the UPDATE of
                    \* IncrementTurns and in the CHECK of the migration (3)

ASSUME MaxTurnsAssumption == MaxTurns \in Nat \ {0}

VARIABLES status,    \* status[t]: "none" before the thread exists, "open", "closed"
          turns,     \* turns[t]: turns taken
          reason,    \* reason[t]: why it was closed, "none" while it is not
          log        \* log[t]: the types of its messages, oldest first

convVars == <<status, turns, reason, log>>

Statuses == {"none", "open", "closed"}

CloseReasons == {"answered", "buddy_closed", "hatchling_closed",
                 "turn_cap_reached", "idle_timeout"}

MsgTypes == {"question", "clarification",                      \* from the hatchling
             "answer", "clarification_request", "close"}       \* from the buddy

\* A message of type m is in the log of thread t.
Logged(t, m) == \E i \in 1 .. Len(log[t]) : log[t][i] = m

-----------------------------------------------------------------------------

ConvInit ==
    /\ status = [t \in Threads |-> "none"]
    /\ turns  = [t \in Threads |-> 0]
    /\ reason = [t \in Threads |-> "none"]
    /\ log    = [t \in Threads |-> << >>]

Open(t) ==
    /\ status[t] = "none"
    /\ status' = [status EXCEPT ![t] = "open"]
    /\ UNCHANGED <<turns, reason, log>>

\* A message is logged.  The question comes first and only once.  Nothing
\* forbids a message to a closed thread: a late reply is still recorded.
Post(t, m) ==
    /\ status[t] # "none"
    /\ m = "question" <=> log[t] = << >>
    /\ log' = [log EXCEPT ![t] = Append(@, m)]
    /\ UNCHANGED <<status, turns, reason>>

\* A turn is charged, only to an open thread whose question is on record.
TakeTurn(t) ==
    /\ status[t] = "open"
    /\ log[t] # << >>
    /\ turns[t] < MaxTurns
    /\ turns' = [turns EXCEPT ![t] = @ + 1]
    /\ UNCHANGED <<status, reason, log>>

\* The thread is closed, once, for a reason that is true of it.
Close(t, why) ==
    /\ status[t] = "open"
    /\ why = "answered" => Logged(t, "answer")
    /\ why = "turn_cap_reached" => turns[t] = MaxTurns
    /\ status' = [status EXCEPT ![t] = "closed"]
    /\ reason' = [reason EXCEPT ![t] = why]
    /\ UNCHANGED <<turns, log>>

ConvNext ==
    \E t \in Threads :
        \/ Open(t)
        \/ \E m \in MsgTypes : Post(t, m)
        \/ TakeTurn(t)
        \/ \E why \in CloseReasons : Close(t, why)

ConvSpec == ConvInit /\ [][ConvNext]_convVars

-----------------------------------------------------------------------------

ConvTypeOK ==
    /\ status \in [Threads -> Statuses]
    /\ turns  \in [Threads -> 0 .. MaxTurns]
    /\ reason \in [Threads -> CloseReasons \cup {"none"}]
    /\ log    \in [Threads -> Seq(MsgTypes)]

\* What a reader of one thread row and its messages may conclude: the reason
\* is set exactly when the thread is closed, "answered" means there is an
\* answer to read, "turn_cap_reached" means the turns are used up, and a
\* thread that took a turn or holds a message starts with its question.
RowIsTruthful(t) ==
    /\ reason[t] = "none" <=> status[t] # "closed"
    /\ reason[t] = "answered" => Logged(t, "answer")
    /\ reason[t] = "turn_cap_reached" => turns[t] = MaxTurns
    /\ turns[t] > 0 => log[t] # << >>
    /\ log[t] # << >> => log[t][1] = "question"

\* What a step may never do to a thread: lower its turns or charge two at
\* once, rewrite its log, or touch the outcome of a closed one.
HistoryIsKept(t) ==
    /\ turns'[t] \in {turns[t], turns[t] + 1}
    /\ \/ log'[t] = log[t]
       \/ \E m \in MsgTypes : log'[t] = Append(log[t], m)
    /\ status[t] = "closed" =>
           /\ status'[t] = "closed"
           /\ reason'[t] = reason[t]
           /\ turns'[t] = turns[t]
=============================================================================
