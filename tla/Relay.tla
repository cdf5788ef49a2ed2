------------------------------- MODULE Relay -------------------------------
(***************************************************************************)
(* The relay between hatchlings and buddies: the hatchling HTTP handlers   *)
(* (server/internal/api/hatchling.go), the buddy WebSocket handler         *)
(* (api/buddy_ws.go) with the daemon at its other end (buddy-cli), and the *)
(* idle sweeper (server/internal/sweeper), over the tables of module Store *)
(* and the registry of module Registry.                                    *)
(*                                                                         *)
(* A handler is a goroutine; it takes one step per SQL statement or        *)
(* registry call, and anything may run between two of its steps.  The      *)
(* context of a handler's statements is the request's: once the hatchling  *)
(* disconnects they all fail, while the registry calls still go through.   *)
(*                                                                         *)
(* A thread is named by the POST /v1/threads that opens it, so Threads is  *)
(* also the set of open requests.  A message is its type.  The checks made *)
(* before the first statement (JSON, identity, ownership, ACL) only refuse *)
(* a request and are left out.                                             *)
(***************************************************************************)
EXTENDS Store, Registry, FiniteSets

CONSTANTS
    Target,          \* Target[t]: the buddy that the question of t is for
    NoThread,        \* stands for no thread
    Clarifications,  \* POST /v1/threads/{id}/messages requests
    Closes,          \* POST /v1/threads/{id}/close requests
    Polls,           \* GET /v1/threads/{id} requests
    WriteCap,        \* capacity of a connection's writeCh (16 in the code)
    HookReplies,     \* reply types a buddy's hook may produce
    Impatient,       \* requests whose hatchling may disconnect
    Flaky,           \* connections on which a ping may go unanswered
    MaxDBErrors,     \* bound on transient database errors
    MaxRestarts      \* bound on server crashes

Requests == Threads \cup Clarifications \cup Closes \cup Polls

ASSUME TargetAssumption == Target \in [Threads -> Buddies]
ASSUME NoThreadAssumption == NoThread \notin Threads
ASSUME RequestsAssumption ==
    /\ Clarifications \cap Threads = {}
    /\ Closes \cap (Threads \cup Clarifications) = {}
    /\ Polls \cap (Threads \cup Clarifications \cup Closes) = {}
ASSUME WriteCapAssumption == WriteCap \in Nat \ {0}
ASSUME BoundsAssumption == MaxDBErrors \in Nat /\ MaxRestarts \in Nat

VARIABLES
    \* server memory: hatchling handlers
    pc,        \* pc[r]: next step of request r, or the status it ended with
    thread,    \* thread[r]: the thread r is about
    writer,    \* writer[r]: the writer SendQuestion found for r
    gone,      \* running requests whose hatchling has disconnected
    view,      \* view[r]: what poll r has read
    \* server memory: buddy connections
    srv,       \* srv[c]: where the handler of c is
    cur,       \* cur[c]: the frame the read loop is handling
    writeCh,   \* writeCh[c]: frames queued for the buddy
    mute,      \* connections whose writer goroutine has returned
    \* server memory: the sweeper
    sweep,     \* threads listed as idle and still to be closed
    \* the network and the buddy's daemon
    link,      \* link[c]: "none", "up", or "cut" at the buddy's end
    hooks,     \* hooks[c][t]: hook processes running for thread t
    up,        \* up[c]: frames sent by the buddy and not yet read
    \* faults
    dbErrors, restarts

requestVars  == <<pc, thread, writer, gone, view>>
connVars     == <<srv, cur, writeCh, mute, link, hooks, up>>
faultVars    == <<dbErrors, restarts>>
vars == <<storeVars, registryVars, requestVars, connVars, sweep, faultVars>>

-----------------------------------------------------------------------------
(* Frames, and the steps of a handler.                                     *)

InTypes  == {"question", "clarification", "close"}
OutTypes == {"answer", "clarification_request", "close", "other"}
InFrames  == [type : InTypes, thread : Threads]
OutFrames == [type : OutTypes, thread : Threads]
NoFrame   == [type |-> "none", thread |-> NoThread]

\* The reply types buddy_ws.go stores, and those that close the thread.
Stored  == {"answer", "clarification_request", "close"}
Closing == {"answer", "close"}

ASSUME HookRepliesAssumption == HookReplies \subseteq OutTypes

\* The type of the message and of the frame that request r sends.
Kind(r) == IF r \in Threads THEN "question"
           ELSE IF r \in Clarifications THEN "clarification" ELSE "close"

Steps == {"insert", "append", "bump", "incr", "why", "cap", "close",
          "lookup", "push", "clear", "wait", "list"}

\* How a request ends: an HTTP status, or nobody to see it.
Outcomes == {"200", "201", "202", "204", "409", "500", "503", "unseen"}

Running(r) == pc[r] \in Steps

Goto(r, step) ==
    /\ pc' = [pc EXCEPT ![r] = step]
    /\ UNCHANGED gone

Finish(r, status_) ==
    /\ pc' = [pc EXCEPT ![r] = IF r \in gone THEN "unseen" ELSE status_]
    /\ gone' = gone \ {r}

\* A statement of handler r is run, or it fails: always once the hatchling is
\* gone, and now and then because the database does.
Runs(r) == r \notin gone /\ UNCHANGED dbErrors

DBFails == dbErrors < MaxDBErrors /\ dbErrors' = dbErrors + 1

Fails(r) == \/ r \in gone /\ UNCHANGED dbErrors
            \/ r \notin gone /\ DBFails

\* What the steps of a handler leave alone besides the store, the registry,
\* pc, gone and dbErrors.
OthersKept == UNCHANGED <<thread, writer, view, connVars, sweep, restarts>>

-----------------------------------------------------------------------------

Init ==
    /\ StoreInit
    /\ RegistryInit
    /\ pc      = [r \in Requests |-> "idle"]
    /\ thread  = [r \in Requests |-> IF r \in Threads THEN r ELSE NoThread]
    /\ writer  = [r \in Requests |-> NoConn]
    /\ gone    = {}
    /\ view    = [r \in Polls |-> [status |-> "blank", reason |-> "none", log |-> << >>]]
    /\ srv     = [c \in Conns |-> "none"]
    /\ cur     = [c \in Conns |-> NoFrame]
    /\ writeCh = [c \in Conns |-> << >>]
    /\ mute    = {}
    /\ sweep   = {}
    /\ link    = [c \in Conns |-> "none"]
    /\ hooks   = [c \in Conns |-> [t \in Threads |-> 0]]
    /\ up      = [c \in Conns |-> << >>]
    /\ dbErrors = 0
    /\ restarts = 0

-----------------------------------------------------------------------------
(* POST /v1/threads: Online, Threads.Open, Messages.Append, IncrementTurns, *)
(* SendQuestion.                                                            *)

\* hatchlingOpenThread up to the Online check.
AskBuddy(t) ==
    /\ pc[t] = "idle"
    /\ \/ Online(Target[t]) /\ Goto(t, "insert")
       \/ ~ Online(Target[t]) /\ Finish(t, "503")
    /\ UNCHANGED <<storeVars, registryVars, dbErrors>> /\ OthersKept

OpenThread(t) ==
    /\ pc[t] = "insert"
    /\ \/ Runs(t) /\ ThreadsOpen(t) /\ Goto(t, "append")
       \/ Fails(t) /\ UNCHANGED storeVars /\ Finish(t, "500")
    /\ UNCHANGED registryVars /\ OthersKept

\* An IncrementTurns that changes no row ends the open with a 500 as well.
CountQuestion(t) ==
    /\ pc[t] = "incr" /\ t \in Threads
    /\ \/ Runs(t) /\ ThreadsIncrementTurns(t) /\ Goto(t, "lookup")
       \/ Runs(t) /\ ~ CanTakeTurn(t) /\ UNCHANGED storeVars /\ Finish(t, "500")
       \/ Fails(t) /\ UNCHANGED storeVars /\ Finish(t, "500")
    /\ UNCHANGED registryVars /\ OthersKept

-----------------------------------------------------------------------------
(* POST /v1/threads/{id}/messages: Get, IncrementTurns, Messages.Append,   *)
(* SendQuestion.  A hatchling knows the id of a thread from the 201.       *)

StartClarification(r, t) ==
    /\ pc[r] = "idle" /\ pc[t] = "201"
    /\ \/ status[t] = "open" /\ Goto(r, "incr")
       \/ status[t] # "open" /\ Finish(r, "409")
    /\ thread' = [thread EXCEPT ![r] = t]
    /\ UNCHANGED <<storeVars, registryVars, writer, view, connVars, sweep, faultVars>>

\* Mutant: the error of IncrementTurns is ignored.
CountClarificationFree(r) ==
    /\ pc[r] = "incr" /\ r \in Clarifications
    /\ \/ Runs(r) /\ ThreadsIncrementTurns(thread[r])
       \/ Runs(r) /\ ~ CanTakeTurn(thread[r]) /\ UNCHANGED storeVars
       \/ Fails(r) /\ UNCHANGED storeVars
    /\ Goto(r, "append")
    /\ UNCHANGED registryVars /\ OthersKept

\* Any error of the UPDATE sends IncrementTurns to look for the cause.
CountClarification(r) ==
    /\ pc[r] = "incr" /\ r \in Clarifications
    /\ \/ Runs(r) /\ ThreadsIncrementTurns(thread[r]) /\ Goto(r, "append")
       \/ Runs(r) /\ ~ CanTakeTurn(thread[r]) /\ UNCHANGED storeVars /\ Goto(r, "why")
       \/ Fails(r) /\ UNCHANGED storeVars /\ Goto(r, "why")
    /\ UNCHANGED registryVars /\ OthersKept

\* The Get in IncrementTurns: closed is ErrThreadClosed (500), anything else
\* is ErrTurnCapExceeded.
ExplainRefusal(r) ==
    /\ pc[r] = "why"
    /\ \/ Runs(r) /\ status[thread[r]] # "closed" /\ Goto(r, "cap")
       \/ Runs(r) /\ status[thread[r]] = "closed" /\ Finish(r, "500")
       \/ Fails(r) /\ Finish(r, "500")
    /\ UNCHANGED <<storeVars, registryVars>> /\ OthersKept

\* The error of this Close is ignored.
CloseCapped(r) ==
    /\ pc[r] = "cap"
    /\ \/ Runs(r) /\ ThreadsClose(thread[r], "turn_cap_reached")
       \/ Fails(r) /\ UNCHANGED storeVars
    /\ Finish(r, "409")
    /\ UNCHANGED registryVars /\ OthersKept

-----------------------------------------------------------------------------
(* Messages.Append and SendQuestion, as open and clarification share them. *)

InsertMessage(r) ==
    /\ pc[r] = "append"
    /\ \/ Runs(r) /\ MessagesInsert(thread[r], Kind(r)) /\ Goto(r, "bump")
       \/ Fails(r) /\ UNCHANGED storeVars /\ Finish(r, "500")
    /\ UNCHANGED registryVars /\ OthersKept

\* The error of this UPDATE is ignored.
BumpActivity(r) ==
    /\ pc[r] = "bump"
    /\ \/ Runs(r) /\ MessagesBumpActivity(thread[r])
       \/ Fails(r) /\ UNCHANGED storeVars
    /\ Goto(r, IF r \in Threads THEN "incr" ELSE "lookup")
    /\ UNCHANGED registryVars /\ OthersKept

\* The locked half of SendQuestion.  Only closeThread ignores ErrBuddyOffline.
FindWriter(r) ==
    /\ pc[r] = "lookup"
    /\ LET b == Target[thread[r]] IN
       \/ /\ Online(b)
          /\ EnsureWaiter(thread[r])
          /\ writer' = [writer EXCEPT ![r] = buddies[b].writer]
          /\ Goto(r, "push")
       \/ /\ ~ Online(b)
          /\ IF r \in Closes THEN Goto(r, "clear") ELSE Finish(r, "503")
          /\ UNCHANGED <<registryVars, writer>>
    /\ UNCHANGED <<storeVars, thread, view, connVars, sweep, faultVars>>

\* The writer func, called after the registry is unlocked: the connection may
\* have ended meanwhile, and a frame for a full writeCh is dropped.  Either
\* way SendQuestion reports success.
PushFrame(r) ==
    /\ pc[r] = "push"
    /\ LET c == writer[r] IN
       \/ /\ Len(writeCh[c]) < WriteCap
          /\ writeCh' = [writeCh EXCEPT ![c] =
                 Append(@, [type |-> Kind(r), thread |-> thread[r]])]
       \/ Len(writeCh[c]) >= WriteCap /\ UNCHANGED writeCh
    /\ writer' = [writer EXCEPT ![r] = NoConn]
    /\ IF r \in Closes THEN Goto(r, "clear")
       ELSE Finish(r, IF r \in Threads THEN "201" ELSE "202")
    /\ UNCHANGED <<storeVars, registryVars, thread, view, srv, cur, mute, sweep,
                   link, hooks, up, faultVars>>

-----------------------------------------------------------------------------
(* POST /v1/threads/{id}/close: Get, Close, SendQuestion, ClearWaiter, all  *)
(* errors after the Get ignored.                                           *)

StartClose(r, t) ==
    /\ pc[r] = "idle" /\ pc[t] = "201"
    /\ Goto(r, "close")
    /\ thread' = [thread EXCEPT ![r] = t]
    /\ UNCHANGED <<storeVars, registryVars, writer, view, connVars, sweep, faultVars>>

\* Mutant: the thread is left to the sweeper.
CloseThreadForgotten(r) ==
    /\ pc[r] = "close"
    /\ Goto(r, "lookup")
    /\ UNCHANGED <<storeVars, registryVars, dbErrors>> /\ OthersKept

CloseThread(r) ==
    /\ pc[r] = "close"
    /\ \/ Runs(r) /\ ThreadsClose(thread[r], "hatchling_closed")
       \/ Fails(r) /\ UNCHANGED storeVars
    /\ Goto(r, "lookup")
    /\ UNCHANGED registryVars /\ OthersKept

FinishClose(r) ==
    /\ pc[r] = "clear"
    /\ ClearWaiter(thread[r])
    /\ Finish(r, "204")
    /\ UNCHANGED <<storeVars, dbErrors>> /\ OthersKept

-----------------------------------------------------------------------------
(* GET /v1/threads/{id}: Get; with waitSeconds a loop of ListSince and then *)
(* Get again; List.  The loop only decides when to go on.                  *)

ReadRow(r, t) ==
    view' = [view EXCEPT ![r] = [status |-> status[t], reason |-> reason[t], log |-> << >>]]

StartPoll(r, t) ==
    /\ pc[r] = "idle" /\ pc[t] = "201"
    /\ ReadRow(r, t)
    /\ \/ Goto(r, "wait")
       \/ Goto(r, "list")
    /\ thread' = [thread EXCEPT ![r] = t]
    /\ UNCHANGED <<storeVars, registryVars, writer, connVars, sweep, faultVars>>

\* The second Get; its error is ignored and leaves a row of zero values.
ReadAgain(r) ==
    /\ pc[r] = "wait"
    /\ \/ Runs(r) /\ ReadRow(r, thread[r])
       \/ /\ Fails(r)
          /\ view' = [view EXCEPT ![r] = [status |-> "blank", reason |-> "none", log |-> << >>]]
    /\ Goto(r, "list")
    /\ UNCHANGED <<storeVars, registryVars, thread, writer, connVars, sweep, restarts>>

ListMessages(r) ==
    /\ pc[r] = "list"
    /\ \/ /\ Runs(r)
          /\ view' = [view EXCEPT ![r].log = log[thread[r]]]
          /\ Finish(r, "200")
       \/ Fails(r) /\ UNCHANGED view /\ Finish(r, "500")
    /\ UNCHANGED <<storeVars, registryVars, thread, writer, connVars, sweep, restarts>>

\* The hatchling of a running request disconnects.
Disconnect(r) ==
    /\ r \in Impatient /\ Running(r) /\ r \notin gone
    /\ gone' = gone \cup {r}
    /\ UNCHANGED <<storeVars, registryVars, pc, dbErrors>> /\ OthersKept

-----------------------------------------------------------------------------
(* GET /v1/buddy/connect, and the daemon (buddy-cli) at the other end.     *)

NoHooks == [t \in Threads |-> 0]

\* The daemon dials; the handler accepts and registers.  A daemon may redial
\* before the server notices that the previous connection is dead, and two
\* daemons may share a key, so nothing is asked of the buddy's other
\* connections.
Connect(c) ==
    /\ srv[c] = "none" /\ link[c] = "none"
    /\ srv'  = [srv EXCEPT ![c] = "reading"]
    /\ link' = [link EXCEPT ![c] = "up"]
    /\ RegisterBuddy(c)
    /\ UNCHANGED <<storeVars, requestVars, cur, writeCh, mute, hooks, up, sweep, faultVars>>

\* The buddy's end is lost: its daemon stops or the network does.  Replies of
\* its hooks go to a dead session; frames already sent may still be read.
Cut(c) ==
    /\ link[c] = "up"
    /\ link'  = [link EXCEPT ![c] = "cut"]
    /\ hooks' = [hooks EXCEPT ![c] = NoHooks]
    /\ UNCHANGED <<storeVars, registryVars, requestVars, srv, cur, writeCh, mute, up,
                   sweep, faultVars>>

\* The handler of c has registered and has not returned.
Serving(c) == srv[c] \notin {"none", "gone"}

\* Mutant: a frame stays queued after it was sent.
WriteFrameAgain(c) ==
    /\ Serving(c) /\ c \notin mute /\ writeCh[c] # << >>
    /\ link[c] = "up" /\ Head(writeCh[c]).type # "close"
    /\ hooks' = [hooks EXCEPT ![c][Head(writeCh[c]).thread] = @ + 1]
    /\ UNCHANGED <<storeVars, registryVars, requestVars, srv, cur, writeCh, mute, link, up,
                   sweep, faultVars>>

\* The writer goroutine sends a frame.  At the other end handleFrame starts a
\* hook for a question or a clarification, and ignores a close.  A write to
\* a dead peer is lost, and may fail and end the goroutine.
WriteFrame(c) ==
    /\ Serving(c) /\ c \notin mute /\ writeCh[c] # << >>
    /\ writeCh' = [writeCh EXCEPT ![c] = Tail(@)]
    /\ LET f == Head(writeCh[c]) IN
       \/ /\ link[c] = "up"
          /\ f.type \in {"question", "clarification"}
          /\ hooks' = [hooks EXCEPT ![c][f.thread] = @ + 1]
          /\ UNCHANGED mute
       \/ /\ link[c] = "up" /\ f.type = "close"
          /\ UNCHANGED <<hooks, mute>>
       \/ /\ link[c] = "cut"
          /\ mute' \in {mute, mute \cup {c}}
          /\ UNCHANGED hooks
    /\ UNCHANGED <<storeVars, registryVars, requestVars, srv, cur, link, up, sweep, faultVars>>

\* A ping goes unanswered for ten seconds: the writer goroutine returns.  The
\* handler does not tell the read loop or the registry; whether the WebSocket
\* library closes the connection then is left open (see ReadFails).
PingTimeout(c) ==
    /\ c \in Flaky /\ Serving(c) /\ c \notin mute
    /\ mute' = mute \cup {c}
    /\ UNCHANGED <<storeVars, registryVars, requestVars, srv, cur, writeCh, link, hooks, up,
                   sweep, faultVars>>

\* A hook ends, by itself, by an error or by its timeout, and its one reply is
\* sent.  Hooks run side by side and end in any order.
FinishHook(c, t) ==
    /\ hooks[c][t] > 0
    /\ hooks' = [hooks EXCEPT ![c][t] = @ - 1]
    /\ \E type \in HookReplies :
           up' = [up EXCEPT ![c] = Append(@, [type |-> type, thread |-> t])]
    /\ UNCHANGED <<storeVars, registryVars, requestVars, srv, cur, writeCh, mute, link,
                   sweep, faultVars>>

ToReading(c) ==
    /\ srv' = [srv EXCEPT ![c] = "reading"]
    /\ cur' = [cur EXCEPT ![c] = NoFrame]

\* Mutant: a frame that a waiter took is not stored, its thread is closed.
ReadFrameDeliveredOnly(c) ==
    /\ srv[c] = "reading" /\ up[c] # << >>
    /\ up' = [up EXCEPT ![c] = Tail(@)]
    /\ LET f == Head(up[c]) IN
       /\ DeliverOutFrame(f.thread)
       /\ f.type \in Stored
       /\ srv' = [srv EXCEPT ![c] = IF waiters[f.thread] = NoWaiter THEN "append" ELSE "close"]
       /\ cur' = [cur EXCEPT ![c] = f]
    /\ UNCHANGED <<storeVars, requestVars, writeCh, mute, link, hooks, sweep, faultVars>>

\* Mutant: only the frames that close a thread are stored.
ReadFrameFinalsOnly(c) ==
    /\ srv[c] = "reading" /\ up[c] # << >>
    /\ up' = [up EXCEPT ![c] = Tail(@)]
    /\ LET f == Head(up[c]) IN
       /\ DeliverOutFrame(f.thread)
       /\ \/ /\ f.type \in Closing
             /\ srv' = [srv EXCEPT ![c] = "append"]
             /\ cur' = [cur EXCEPT ![c] = f]
          \/ f.type \notin Closing /\ UNCHANGED <<srv, cur>>
    /\ UNCHANGED <<storeVars, requestVars, writeCh, mute, link, hooks, sweep, faultVars>>

\* The read loop takes a frame and delivers it to the thread's waiter; a frame
\* of an unknown type goes no further.
ReadFrame(c) ==
    /\ srv[c] = "reading" /\ up[c] # << >>
    /\ up' = [up EXCEPT ![c] = Tail(@)]
    /\ LET f == Head(up[c]) IN
       /\ DeliverOutFrame(f.thread)
       /\ \/ /\ f.type \in Stored
             /\ srv' = [srv EXCEPT ![c] = "append"]
             /\ cur' = [cur EXCEPT ![c] = f]
          \/ f.type \notin Stored /\ UNCHANGED <<srv, cur>>
    /\ UNCHANGED <<storeVars, requestVars, writeCh, mute, link, hooks, sweep, faultVars>>

AfterAppend(c) ==
    \/ cur[c].type \in Closing /\ srv' = [srv EXCEPT ![c] = "close"] /\ UNCHANGED cur
    \/ cur[c].type \notin Closing /\ ToReading(c)

\* Messages.Append; its error is ignored, and skips the UPDATE that follows.
AppendReply(c) ==
    /\ srv[c] = "append"
    /\ \/ /\ MessagesInsert(cur[c].thread, cur[c].type)
          /\ srv' = [srv EXCEPT ![c] = "bump"]
          /\ UNCHANGED <<cur, dbErrors>>
       \/ DBFails /\ UNCHANGED storeVars /\ AfterAppend(c)
    /\ UNCHANGED <<registryVars, requestVars, writeCh, mute, link, hooks, up, sweep, restarts>>

BumpReply(c) ==
    /\ srv[c] = "bump"
    /\ \/ MessagesBumpActivity(cur[c].thread) /\ UNCHANGED dbErrors
       \/ DBFails /\ UNCHANGED storeVars
    /\ AfterAppend(c)
    /\ UNCHANGED <<registryVars, requestVars, writeCh, mute, link, hooks, up, sweep, restarts>>

\* Threads.Close with "answered", or with the reason of a close frame.
CloseReplied(c) ==
    /\ srv[c] = "close"
    /\ \/ /\ ThreadsClose(cur[c].thread,
                 IF cur[c].type = "answer" THEN "answered" ELSE "buddy_closed")
          /\ UNCHANGED dbErrors
       \/ DBFails /\ UNCHANGED storeVars
    /\ ToReading(c)
    /\ UNCHANGED <<registryVars, requestVars, writeCh, mute, link, hooks, up, sweep, restarts>>

\* Read fails, because the peer is dead or because the failed write or ping
\* closed the connection: the loop ends, cancel ends the writer goroutine, and
\* the connection is closed.  What the buddy had sent and was not read is lost.
\* The registry still names the connection: SendQuestion goes on to queue
\* frames for it, which nobody writes.
ReadFails(c) ==
    /\ srv[c] = "reading" /\ (link[c] = "cut" \/ c \in mute)
    /\ srv'   = [srv EXCEPT ![c] = "closing"]
    /\ link'  = [link EXCEPT ![c] = "cut"]
    /\ hooks' = [hooks EXCEPT ![c] = NoHooks]
    /\ mute'  = mute \cup {c}
    /\ up'    = [up EXCEPT ![c] = << >>]
    /\ UNCHANGED <<storeVars, registryVars, requestVars, cur, writeCh, sweep, faultVars>>

\* Mutant: no deferred unregister.
EndConnKeepsEntry(c) ==
    /\ srv[c] = "closing"
    /\ srv'     = [srv EXCEPT ![c] = "gone"]
    /\ mute'    = mute \ {c}
    /\ writeCh' = [writeCh EXCEPT ![c] = << >>]
    /\ UNCHANGED <<storeVars, registryVars, requestVars, cur, link, hooks, up, sweep, faultVars>>

\* The close handshake is over and the writer goroutine has returned: the
\* deferred unregister runs and the handler returns.
EndConn(c) ==
    /\ srv[c] = "closing"
    /\ srv'     = [srv EXCEPT ![c] = "gone"]
    /\ mute'    = mute \ {c}
    /\ writeCh' = [writeCh EXCEPT ![c] = << >>]
    /\ Unregister(c)
    /\ UNCHANGED <<storeVars, requestVars, cur, link, hooks, up, sweep, faultVars>>

-----------------------------------------------------------------------------
(* The sweeper: list the idle threads, then close them one by one.         *)

SweepList ==
    /\ sweep = {} /\ ListIdleOpen # {}
    /\ sweep' = ListIdleOpen
    /\ UNCHANGED <<storeVars, registryVars, requestVars, connVars, faultVars>>

SweepClose(t) ==
    /\ t \in sweep
    /\ \/ ThreadsClose(t, "idle_timeout") /\ UNCHANGED dbErrors
       \/ DBFails /\ UNCHANGED storeVars
    /\ sweep' = sweep \ {t}
    /\ UNCHANGED <<registryVars, requestVars, connVars, restarts>>

TimePasses(t) ==
    /\ GoesIdle(t)
    /\ UNCHANGED <<registryVars, requestVars, connVars, sweep, faultVars>>

\* The server process dies and is started again: the tables survive it, its
\* memory and its connections do not.
Restart ==
    /\ restarts < MaxRestarts
    /\ restarts' = restarts + 1
    /\ buddies'  = [b \in Buddies |-> NoEntry]
    /\ gen'      = 0
    /\ cancelGen' = [c \in Conns |-> 0]
    /\ waiters'  = [t \in Threads |-> NoWaiter]
    /\ pc'       = [r \in Requests |-> IF Running(r) THEN "unseen" ELSE pc[r]]
    /\ writer'   = [r \in Requests |-> NoConn]
    /\ gone'     = {}
    /\ srv'      = [c \in Conns |-> IF srv[c] = "none" THEN "none" ELSE "gone"]
    /\ link'     = [c \in Conns |-> IF link[c] = "none" THEN "none" ELSE "cut"]
    /\ cur'      = [c \in Conns |-> NoFrame]
    /\ writeCh'  = [c \in Conns |-> << >>]
    /\ mute'     = {}
    /\ hooks'    = [c \in Conns |-> NoHooks]
    /\ up'       = [c \in Conns |-> << >>]
    /\ sweep'    = {}
    /\ UNCHANGED <<storeVars, thread, view, dbErrors>>

-----------------------------------------------------------------------------

Hatchling ==
    \/ \E t \in Threads : AskBuddy(t)
    \/ \E t \in Threads :
           \/ \E r \in Clarifications : StartClarification(r, t)
           \/ \E r \in Closes : StartClose(r, t)
           \/ \E r \in Polls : StartPoll(r, t)
    \/ \E r \in Requests : Disconnect(r)

OpenStep(t) == OpenThread(t) \/ CountQuestion(t)

ClarificationStep(r) == CountClarification(r) \/ ExplainRefusal(r) \/ CloseCapped(r)

SendStep(r) == InsertMessage(r) \/ BumpActivity(r) \/ FindWriter(r) \/ PushFrame(r)

CloseStep(r) == CloseThread(r) \/ FinishClose(r)

PollStep(r) == ReadAgain(r) \/ ListMessages(r)

Handler(r) ==
    \/ r \in Threads /\ OpenStep(r)
    \/ r \in Clarifications /\ ClarificationStep(r)
    \/ r \in Threads \cup Clarifications \cup Closes /\ SendStep(r)
    \/ r \in Closes /\ CloseStep(r)
    \/ r \in Polls /\ PollStep(r)

ReadLoop(c) == ReadFrame(c) \/ AppendReply(c) \/ BumpReply(c) \/ CloseReplied(c)

Buddy ==
    \E c \in Conns :
        \/ Connect(c)
        \/ Cut(c)
        \/ WriteFrame(c)
        \/ PingTimeout(c)
        \/ \E t \in Threads : FinishHook(c, t)
        \/ ReadLoop(c)
        \/ ReadFails(c)
        \/ EndConn(c)

Sweeper == SweepList \/ \E t \in Threads : SweepClose(t) \/ TimePasses(t)

Next ==
    \/ Hatchling
    \/ \E r \in Requests : Handler(r)
    \/ Buddy
    \/ Sweeper
    \/ Restart

Spec == Init /\ [][Next]_vars

\* Goroutines run, a hook ends by itself or by its timeout, time passes and
\* the sweeper's ticker fires.  Nobody has to ask, dial, or stay connected.
Fairness ==
    /\ \A r \in Requests : WF_vars(Handler(r))
    /\ \A c \in Conns :
           /\ WF_vars(ReadLoop(c))
           /\ WF_vars(WriteFrame(c))
           /\ \A t \in Threads : WF_vars(FinishHook(c, t))
    /\ WF_vars(SweepList)
    /\ \A t \in Threads : WF_vars(SweepClose(t)) /\ WF_vars(TimePasses(t))

FairSpec == Spec /\ Fairness

-----------------------------------------------------------------------------
(* Types.                                                                  *)

Views == [status : Statuses \cup {"blank"},
          reason : CloseReasons \cup {"none"},
          log    : Seq(MsgTypes)]

RequestTypeOK ==
    /\ pc      \in [Requests -> {"idle"} \cup Steps \cup Outcomes]
    /\ thread  \in [Requests -> Threads \cup {NoThread}]
    /\ writer  \in [Requests -> Conns \cup {NoConn}]
    /\ gone    \in SUBSET Requests
    /\ view    \in [Polls -> Views]

ConnTypeOK ==
    /\ srv     \in [Conns -> {"none", "reading", "append", "bump", "close", "closing", "gone"}]
    /\ cur     \in [Conns -> OutFrames \cup {NoFrame}]
    /\ writeCh \in [Conns -> Seq(InFrames)]
    /\ mute    \in SUBSET Conns
    /\ link    \in [Conns -> {"none", "up", "cut"}]
    /\ hooks   \in [Conns -> [Threads -> Nat]]
    /\ up      \in [Conns -> Seq(OutFrames)]

TypeOK ==
    /\ StoreTypeOK
    /\ RegistryTypeOK
    /\ RequestTypeOK
    /\ ConnTypeOK
    /\ sweep    \in SUBSET Threads
    /\ dbErrors \in 0 .. MaxDBErrors
    /\ restarts \in 0 .. MaxRestarts

\* What a goroutine holds at the step it is at: a handler knows its thread and
\* found a writer before it pushes; only opens and clarifications append; a
\* read loop between Read and the next Read has a stored frame in hand.
InStep ==
    /\ \A t \in Threads : thread[t] = t
    /\ \A r \in Requests :
           /\ pc[r] # "idle" /\ pc[r] # "unseen" => thread[r] \in Threads
           /\ pc[r] = "push" => writer[r] \in Conns
           /\ pc[r] \in {"append", "bump"} => r \in Threads \cup Clarifications
    /\ \A c \in Conns :
           /\ srv[c] \in {"append", "bump", "close"} =>
                  cur[c] \in OutFrames /\ cur[c].type \in Stored
           /\ srv[c] = "close" => cur[c].type \in Closing

\* Every goroutine of the server holds what its next step needs.
TypeInv == TypeOK /\ InStep

-----------------------------------------------------------------------------
(* Safety.                                                                 *)

\* As long as no statement fails by itself, a hatchling that reads "closed,
\* answered" has the answer in the same response: getThread reads the row
\* before the messages, and the read loop appends the answer before it closes
\* the thread.  After a database error this is false: the read loop ignores
\* the error of Append and closes the thread as answered all the same.
AnsweredPollShowsAnswer ==
    \A r \in Polls :
        pc[r] = "200" /\ view[r].reason = "answered" /\ dbErrors = 0 =>
            \E i \in 1 .. Len(view[r].log) : view[r].log[i] = "answer"

Count(t, types) == Cardinality({i \in 1 .. Len(log[t]) : log[t][i] \in types})

FromHatchling == {"question", "clarification"}

\* A buddy's message always answers a hatchling's message of its own: whatever
\* is dropped, replaced or restarted, no reply is recorded twice and none is
\* recorded before what it replies to.
RepliesAreMatched ==
    \A t \in Threads : Count(t, Stored) <= Count(t, FromHatchling)

\* Every clarification on record was paid for with a turn of its own, besides
\* the turn of the question.
ClarificationsArePaid ==
    \A t \in Threads :
        Count(t, {"clarification"}) > 0 => Count(t, FromHatchling) <= turns[t]

\* The comment in DeliverOutFrame counts on the turn cap: a reply that is
\* about to be delivered to a waiter finds room in it, although nothing ever
\* drains a waiter in production.
WaiterHasRoom ==
    \A c \in Conns :
        srv[c] = "reading" /\ up[c] # << >> => waiters[Head(up[c]).thread] < WaiterCap

\* See module Registry.  The connection it names is one whose handler has not
\* returned: a crash, a replacement or the end of a connection leaves no entry
\* behind that nobody would remove.  The handler may be past its read loop, on
\* its way to unregister, and its writer goroutine may have given up.
EntryIsServed ==
    /\ EntryIsNewest
    /\ \A b \in Buddies : Online(b) => Serving(buddies[b].writer)

\* A hatchling that is told 204 has a closed thread (the API documents the
\* status as "Closed."), although a request whose hatchling is gone closes
\* nothing and a crash may come between any two steps.  A database error is
\* the exception: the handler ignores the error of Close.
ClosedMeansClosed ==
    \A r \in Closes : pc[r] = "204" /\ dbErrors = 0 => status[thread[r]] = "closed"

\* Whatever fails, no step lowers or skips turns, rewrites the log of a thread
\* or touches the outcome of a closed one.
HistoriesAreKept == [][ \A t \in Threads : HistoryIsKept(t) ]_vars

-----------------------------------------------------------------------------
(* Liveness.                                                               *)

\* No thread stays open for ever: not one whose opener was told 500 or 503,
\* nor one whose buddy is gone or whose server crashed.
ThreadsAreClosed ==
    \A t \in Threads : status[t] = "open" ~> status[t] = "closed"

\* A question that is queued on a connection gets a reply on record, with four
\* exceptions: this connection is lost, its writer goroutine has returned, the
\* hook replied with a type that the read loop does not store, or a statement
\* failed.  A question that found the queue full is never queued, and its
\* hatchling has a 201 all the same.
QuestionIsAnswered ==
    \A t \in Threads, c \in Conns :
        (\E i \in DOMAIN writeCh[c] :
             writeCh[c][i] = [type |-> "question", thread |-> t]) ~>
            \/ Count(t, Stored) > 0
            \/ link[c] = "cut" \/ c \in mute
            \/ \E i \in DOMAIN up[c] : up[c][i].thread = t /\ up[c][i].type \notin Stored
            \/ dbErrors > 0
=============================================================================
