------------------------------- MODULE Store -------------------------------
(***************************************************************************)
(* The threads and messages tables (server/internal/store), as the SQL     *)
(* statements that touch them.  One operator is one statement: Postgres    *)
(* runs each atomically, and no transaction spans two of them.             *)
(*                                                                         *)
(* Time is abstracted to what the sweeper's cutoff can tell apart: `idle'  *)
(* is the set of open threads whose last_activity_at is older than the     *)
(* idle limit.  Writing last_activity_at = NOW() takes a thread out of it. *)
(***************************************************************************)
EXTENDS Conversation   \* status, turns and reason are columns of threads,
                       \* log is the messages of a thread in created_at order

VARIABLE idle          \* open threads past the idle cutoff

storeVars == <<status, turns, reason, idle, log>>

StoreTypeOK ==
    /\ ConvTypeOK
    /\ idle \in SUBSET Threads

StoreInit ==
    /\ ConvInit
    /\ idle = {}

\* INSERT INTO threads: defaults are status 'open' and turns 0.
ThreadsOpen(t) ==
    /\ status[t] = "none"
    /\ status' = [status EXCEPT ![t] = "open"]
    /\ UNCHANGED <<turns, reason, idle, log>>

\* Mutant: the UPDATE has no AND status='open'.
ThreadsCloseAgain(t, why) ==
    /\ status' = [status EXCEPT ![t] = "closed"]
    /\ reason' = [reason EXCEPT ![t] = why]
    /\ idle'   = idle \ {t}
    /\ UNCHANGED <<turns, log>>

\* UPDATE threads SET status='closed' ... WHERE status='open': the first
\* reason wins, a second close changes no row and is not an error.
ThreadsClose(t, why) ==
    \/ /\ status[t] = "open"
       /\ status' = [status EXCEPT ![t] = "closed"]
       /\ reason' = [reason EXCEPT ![t] = why]
       /\ idle'   = idle \ {t}
       /\ UNCHANGED <<turns, log>>
    \/ /\ status[t] # "open"
       /\ UNCHANGED storeVars

\* Mutants: the UPDATE has no AND turns < 3, or no AND status='open'.
CanTakeTurnUncapped(t) == status[t] = "open"
CanTakeTurnWhenClosed(t) == turns[t] < MaxTurns

\* The WHERE clause of the UPDATE in IncrementTurns, and its effect.
CanTakeTurn(t) == status[t] = "open" /\ turns[t] < MaxTurns

ThreadsIncrementTurns(t) ==
    /\ CanTakeTurn(t)
    /\ turns' = [turns EXCEPT ![t] = @ + 1]
    /\ idle'  = idle \ {t}
    /\ UNCHANGED <<status, reason, log>>

\* The two statements of Messages.Append.  Neither looks at the status.
MessagesInsert(t, m) ==
    /\ log' = [log EXCEPT ![t] = Append(@, m)]
    /\ UNCHANGED <<status, turns, reason, idle>>

MessagesBumpActivity(t) ==
    /\ idle' = idle \ {t}
    /\ UNCHANGED <<status, turns, reason, log>>

\* Mutant: only threads that took a turn are listed.
ListIdleStarted == {t \in idle : status[t] = "open" /\ turns[t] > 0}

\* SELECT ... WHERE status='open' AND last_activity_at < cutoff.
ListIdleOpen == {t \in idle : status[t] = "open"}

\* The clock passes the idle limit for an open thread.
GoesIdle(t) ==
    /\ status[t] = "open"
    /\ t \notin idle
    /\ idle' = idle \cup {t}
    /\ UNCHANGED <<status, turns, reason, log>>
=============================================================================
