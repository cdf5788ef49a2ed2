# Clawgard in TLA+

Clawgard relays questions between coding agents. A *hatchling* (an agent with a
question) calls the relay over HTTP; the relay pushes the question over a
WebSocket to a *buddy* (a daemon beside another agent), whose hook produces a
reply; the hatchling polls for it. This directory holds the specification of the
relay (conversations, access, migrations, logins), of the buddy's daemon and the skill that
installs it, and of the hatchling's commands, the TLC configurations that check it on small
instances, and the TLAPS proofs of the statements that matter most. Paths such as `threads.go:88` are
relative to the package named next to them under `src/`.

1. [Inventory](#1-inventory) · 2. [Modules](#2-modules) · 3. [How the model reads the code](#3-how-the-model-reads-the-code) ·
4. [Runs](#4-runs) · 5. [Fairness](#5-fairness) · 6. [Proofs](#6-proofs) ·
7. [Findings](#7-findings) · 8. [Not modelled](#8-not-modelled) · 9. [Plan](#9-plan)

## 1. Inventory

`PROJECT.json` lists every component with its sources and status, and every
hazard with the line where it bites. In short:

| component | state it keeps | operations | what makes it correct |
|---|---|---|---|
| **Threads and messages tables** `server/internal/store` | rows `threads` (status, turns, close_reason, last_activity_at), `messages` | `Open`, `IncrementTurns`, `Close`, `Append` (insert + activity update), `ListIdleOpen`; each statement atomic, no transaction | closed once, first reason wins; turns bounded and never lowered; log only grows |
| **Buddy registry** `server/internal/router` | `buddies` (writer, generation), generation counter, reply channels `waiters` (capacity 4) | `RegisterBuddy`, its cancel func, `SendQuestion`, `DeliverOutFrame`, `WaitForFrame`, `ClearWaiter`, `Online`; one mutex | the entry is the newest live connection; a replaced connection's late cancel is harmless |
| **Hatchling API** `server/internal/api/hatchling.go` | only goroutine locals | open, read with long poll, clarify, close | what a status code tells the hatchling is true of the thread |
| **Buddy WebSocket handler** `server/internal/api/buddy_ws.go` | `writeCh` (capacity 16), writer goroutine, read loop | register, write and ping, read and store replies, unregister | an answer is on record before the thread says answered; no reply stored twice |
| **Idle sweeper** `server/internal/sweeper` | the list it is working through | list idle, close each | every thread is closed in the end; only idle ones are swept |
| **Server lifecycle** `server/internal/server`, `cmd` | processes of `serve` and `migrate` | migrate, listen, stop on SIGTERM, crash | a server serves on a whole schema; what a crash leaves is a truthful conversation |
| **Buddy daemon** `buddy-cli` | session write queue, running hooks, backoff | dial, dispatch a hook per frame, reply once, redial | every question produces one reply; a lost session ends its senders |
| **Device-code login** `api/oidc_device.go`, `hatchling-skill/src/lib/oidc.ts` | rows `device_codes` | initiate, poll for the token, approve, expire | a token means an approval; a login ends, and gives up only for a cause |
| **Buddies table, admin API, access control** `store/buddies.go`, `api/admin.go`, `api/middleware.go` | rows `buddies` | create, update, rotate, delete; `ListForCaller`, `aclAllows`, the API-key lookup; the paged list of threads | a revoked key or access is dead; the list a caller sees agrees with what it may ask; paging misses no thread but ties |
| **Dashboard login** `api/auth_callback.go`, `session.go`, `me.go` | map of pending states in the memory of one process | begin, call back | a state lets one callback through, and is refused for a cause |
| **Schema migrations** `store/migrate.go` | `schema_migrations` and the tables | apply missing files in order, a transaction each | applied once and whole, also by several processes that are stopped anywhere |
| **Hatchling setup** `hatchling-skill/src/setup.ts`, `lib/config.ts` | `config.json`, one token file per alias, the old token file | set up, remove, migrate, resolve; no lock between commands | only genuine tokens are stored; the old token is not lost |
| **Hatchling ask** `hatchling-skill/src/ask.ts`, `list.ts` | turns used, messages printed | open, poll, reply | each request is replied to once; the loop shows the answer before it ends |
| **Buddy skill bootstrap** `skills/buddy-skill` | `setup.lock`, cached binary, `.part` files | lock, check, download, verify, rename, chmod, run, release | only a verified binary runs; the lock tells the truth |
| OpenClaw bridge, dashboard, configuration, health, static files | – | – | see section 8 |

**Interactions.** Hatchling handlers, buddy read loops and the sweeper share the
two tables (statement by statement) and the registry (critical section by
critical section), and nothing else synchronises them. `SendQuestion` hands a
frame to a connection's `writeCh` *after* it has released the registry's mutex.
The writer goroutine of a connection feeds the daemon, the daemon runs one hook
per question frame, and its replies come back through the read loop, which
delivers them to the waiter and then stores them. A hatchling command and the relay
share one `device_codes` row per login; commands share the files of one user. Administrators
change rows of `buddies` while daemons compare their keys with them and hatchlings ask. Replicas
share the database and nothing else: registry, waiters and login states are each process's own.

**Hard behaviours.** Checks that are stale by the time they are used (status
before `IncrementTurns`, `Online` before `SendQuestion`, the sweeper's list);
several statements without a transaction where a crash, a cancelled request
context or a database error may fall between any two; dropped frames reported
as success; connections replaced before they are known to be dead; a writer
goroutine that ends without telling anybody; a buffer that nothing drains and
that relies on the turn cap of another component. In the daemon: senders that wait
for a writer goroutine that has stopped, a hook that outlives its timeout. On the
hatchling's and the buddy's disk: commands that are killed, or overlap, between checking a file
and writing or running it. Replicas that migrate at once; a browser that repeats its callback, or
reaches another replica; rows that change between an access check and its use; a client that
pages while rows are committed out of order.

## 2. Modules

| module | extends | models |
|---|---|---|
| `ThreadIds` | | the constant `Threads`, which tables and registry share |
| `Conversation` | `ThreadIds` | **abstract specification**: what a thread promises to two agents, with no server, connection or database |
| `Store` | `Conversation` | the tables, one operator per SQL statement |
| `Registry` | `ThreadIds` | the registry, one operator per critical section |
| `RegistryClients` | `Registry` | the registry on its own under arbitrary callers |
| `Relay` | `Store`, `Registry` | the composition: handlers, connections and daemons, sweeper, crashes |
| `BuddyPromise` | | **abstract specification**: a question is replied to at most once, on its connection, while it is up; what `Relay` uses of a daemon |
| `BuddyDaemon` | | the daemon: supervisor, sessions with writer goroutine and queue, one goroutine and hook per question |
| `HatchlingSetup` | | the hatchling's files under overlapping commands, and the device-code login that fills them |
| `Buddies` | | the `buddies` table, one operator per statement, and the two access rules |
| `Directory` | `Buddies` | the composition: admin API, connecting daemons, opening hatchlings, the paged listing of threads |
| `Migrations` | | `store.Migrate` in any number of processes over one database |
| `ServerLifecycle` | `Migrations` | the processes from start to end, and the browser logins that live in one of them |
| `BuddyBootstrap` | | the buddy skill's lock, cached binary and download |
| `HatchlingAsk` | `Conversation` | the ask loop against what a conversation promises |
| `MC*` | | finite instances for TLC |
| `RelayProofs` (relay and registry), `RelayCountingProofs` (counting, refinement), `BuddyDaemonProofs`, `HatchlingSetupProofs`, `HatchlingAskProofs`, `DirectoryProofs`, `ServerLifecycleProofs`, `BuddyBootstrapProofs` | | theorems and proofs (section 6) |

`Relay` extends `Store`, which extends `Conversation`: the abstract variables
`status`, `turns`, `reason`, `log` *are* the columns, so the refinement mapping is
the identity on those four and hides everything else. `ConvSpec` is a PROPERTY
of the run `relay_conversation`.

`Relay` shows the daemon only as its connection does: `WriteFrame` is `BuddyPromise`'s
`Ask`, `FinishHook` its `Reply`, `Cut` its `Lose`. `BuddyDaemon` implements
`BuddyPromise` (`KeepsPromise`, with the questions of live connections that have no reply
yet as `pending`), which is why `Relay` may take that for granted.

In the same way `HatchlingAsk` takes the relay for the `Conversation` that `Relay` implements, plus
what `RepliesAreMatched` adds: the buddy never has more messages in a log than the hatchling. And
`Directory` stops where `Relay` begins: its `OpenThread` is the same statement, and of the registry
it uses only what `EntryIsNewest` promises.

### State and actions against the code

| variable | in the code |
|---|---|
| `status`, `turns`, `reason` | columns of `threads` (`0002_threads.sql`) |
| `log[t]` | `messages` of the thread in `created_at` order, each reduced to its type |
| `idle` | open threads with `last_activity_at` older than the sweeper's cutoff |
| `buddies`, `gen`, `cancelGen`, `waiters` | fields of `Registry`; `cancelGen[c]` is the generation captured by the cancel closure |
| `pc`, `thread`, `writer`, `gone`, `view` | a handler goroutine: its next statement (or the status it returned), its thread, the writer func `SendQuestion` found, whether its request context is cancelled, what a poll has read |
| `srv`, `cur` | where the handler of a connection is (reading, storing a frame, closing the connection) and the frame it is storing |
| `writeCh`, `mute` | the queue of `buddy_ws.go:48` and whether its writer goroutine has returned |
| `sweep` | the slice that `RunOnce` ranges over |
| `link`, `hooks`, `up` (Relay) | the network and the daemon: connection state at the buddy's end, hook processes, frames on their way to the server |
| `phase`, `ctxDone`, `wait`, `session` | `RunSupervisor`: where it is, its context, `Backoff.current`, sessions dialled so far |
| `conn`, `inbox`, `closed`, `writes`, `writer`, `writing` | a `Session`: its connection, unread frames, `closed`, `writes`, and what its writer goroutine does |
| `handler`, `done`, `received` | the goroutine of a question (hook, then the two selects of `Send`), its `done` channel, replies that arrived |
| `config`, `token`, `legacy` | `config.json` as a set of aliases, `tokens/<alias>.token`, `hatchling.token` |
| `pc`, `read`, `linked` (HatchlingSetup) | a command: its next operation, the profiles it read, whether the token file it has open is still the one on disk |
| `code`, `approvals`, `expired` | rows of `device_codes`, and what users and clock did to them |
| `rows`, `keys` | table `buddies`, deleted rows included; a key is the number of its issue and stands for its hash |
| `conn`, `entry`, `open` | connecting daemons, the registry's entry of each buddy, `POST /v1/threads` up to its INSERT |
| `born`, `shown`, `walk` | `created_at` and visibility of the opened rows; a client of `GET /v1/admin/threads` |
| `bodies`, `recorded`, `proc` | tables that exist, rows of `schema_migrations`, and the statement each process is at (an open transaction is a process at `recording` or `committing`) |
| `states`, `login`, `home`, `spent`, `call` | `memoryStateStore` of each process; the browser's logins and callbacks; the codes the identity provider has taken |
| `lock`, `binary`, `part`, `at` | `setup.lock`, the cached binary with its execute bit, `.part` files, the step of each command |
| `phase`, `view`, `printed`, `turnsUsed` (HatchlingAsk) | `runAsk`: its next step, what its last poll read, what it has printed, `hatchlingTurnsUsed` |

| code | actions |
|---|---|
| `POST /v1/threads` | `AskBuddy`, `OpenThread`, `InsertMessage`, `BumpActivity`, `CountQuestion`, `FindWriter`, `PushFrame` |
| `POST …/messages` | `StartClarification`, `CountClarification`, `ExplainRefusal`, `CloseCapped`, `InsertMessage`, `BumpActivity`, `FindWriter`, `PushFrame` |
| `POST …/close` | `StartClose`, `CloseThread`, `FindWriter`, `PushFrame`, `FinishClose` |
| `GET /v1/threads/{id}` | `StartPoll`, `ReadAgain`, `ListMessages` |
| a client that goes away | `Disconnect` |
| `buddyConnect` | `Connect`, `ReadFrame`, `AppendReply`, `BumpReply`, `CloseReplied`, `WriteFrame`, `PingTimeout`, `ReadFails`, `EndConn` |
| daemon | `WriteFrame` (starts a hook), `FinishHook`, `Cut` |
| sweeper | `SweepList`, `SweepClose`, `TimePasses` |
| process | `Restart` |
| `RunSupervisor`, `runOnce` | `Dial`, `DialFails`, `ReadFrame`, `ReadFails`, `WaitOver`, `Cancel` |
| `handleFrame`, `Session.Send` | `HookEnds`, `Enqueue`, `SendClosed`, `SendCancelled`, `SendReturns` |
| `Session.writeLoop` | `TakeWrite`, `StopWriter`, `Arrive`, `WriteSucceeds`, `WriteFails` |
| `migrateLegacyToken` | `LooksForLegacy`, `LooksForTarget`, `ReadLegacy`, `CreateTarget`, `CopyLegacy`, `UnlinkLegacy` |
| `initiateDeviceCode`, `pollForToken`, `/v1/auth/oidc/*` | `Initiate`, `AskForToken`, `SelectCode`, `DeleteCode`, `TakeToken`, `LoginFails`, `Approve`, `Expire` |
| `writeConfig`, `writeToken`, `removeAlias` | `StartRemoval`, `ReadConfig`, `TruncateConfig`, `RewriteConfig`, `TruncateToken`, `StoreToken`, `ForgetToken` |
| `resolveConfig` of list and ask | `Resolve` |
| `/v1/admin/buddies` behind `AdminMiddlewareWithSession` | `adminCreateBuddy`, `adminUpdateBuddy`, `adminRotateBuddyKey`, `adminDeleteBuddy` |
| `handleBuddyConnect` up to `RegisterBuddy` | `Dial`, `lookupBuddyByAPIKey`, `Serve`, `EndConn` |
| `hatchlingOpenThread` up to `Threads.Open` | `Ask`, `GetByID`, `Online`, `OpenThread` |
| `adminListThreads` | `StartWalk`, `ListWithFilter` |
| `store.Migrate` | `CreateLedger`, `Check`, `Apply`, `Record`, `Commit`, `CommitUnconfirmed`, `Abort` |
| `main`, `server.New`, `Server.Run` | `Start`, `MigrateStep`, `Listen`, `Terminate`, `RunReturns`, `Crash` |
| `/auth/login`, `/auth/callback` | `Login`, `CallBack`, `Take`, `Exchange` (`Authorize`, `GrowOld` from outside) |
| `bootstrapBinary`, `runSetup`, `runStart` | `Acquire`, `Look`, `onDiskSha`, `RemoveCached`, `LookAgain`, `Spawn`, `ChildExits`, `Release` |
| `downloadAndVerify` | `Fetch`, `Verify`, `Rename`, `Chmod`, `Discard` |
| `runAsk` | `StartAsk`, `Look`, `Reply`, `Accepted`, `Fail`; the relay's part of its requests is `OpenStep`, `Opened`, `ReadRow`, `ReadMessages`, `CountReply`, `AppendReply` |

## 3. How the model reads the code

* **Grain.** One step per SQL statement or registry call. Postgres runs each
  statement atomically, the registry holds its mutex for each call, and everything
  may run in between. `Messages.Append` is two statements (INSERT, then UPDATE of
  the activity with its error ignored), so it is two steps.
* **Cancelled requests.** Every statement of a handler uses the request's context.
  Once the hatchling is gone (`Disconnect`) each of its statements fails, while the
  registry calls, which take no context, still happen. The read loop and the
  sweeper do not run under a hatchling's context.
* **Database errors.** Any statement may fail, up to `MaxDBErrors` times; each
  caller does what its code does with the error, which is often to ignore it.
* **Threads are named by the POST that opens them**, so `Threads` doubles as the
  set of open requests. A request runs once; its `pc` ends as the status it
  returned.
* **Messages and frames are their types** (and their thread). Contents never
  decide anything in the server.
* **Time** is what the sweeper's cutoff can tell apart: `GoesIdle` moves an open
  thread into `idle`, and each statement that writes `last_activity_at = NOW()`
  takes it out. The idle limit is not related to the length of other steps, so a
  thread may go idle in the middle of anything.
* **Waiters** only count the frames they hold: in production nothing receives from
  them (`WaitForFrame` is called by tests only; `RegistryClients` models it).
* **A full `writeCh`** drops the frame and the hatchling is still told 201 or 202.
* **Connections.** A daemon may redial before the server has noticed that the
  previous connection is dead, and two daemons may share a key, so `Connect` asks
  nothing of other connections. After a failed write or ping the writer goroutine
  returns without telling the read loop; whether the WebSocket library closes the
  connection then is left open: `ReadFails` may follow, and is not fair. After the
  loop's break the handler cancels, closes the connection with a handshake of seconds and
  waits for the writer goroutine (`buddy_ws.go:138`) before the deferred `unregister`
  runs: in between (`closing`) the registry still names the connection, and what
  `SendQuestion` queues for it is written by nobody. `EndConn` ends the window; it is not
  fair either.
* **Left out of the handlers** of `Relay`: authentication, ownership and ACL checks (the API key and
  the ACL are in `Directory`) and JSON errors, all before the first statement and only able to
  refuse; `last_seen` of a buddy, which only the dashboard reads; malformed frames, which change nothing
  else; the close frame's reason text (`buddy_closed` stands for all of them).

* **The daemon.** One step per channel operation and per outcome of a read, write, dial
  or hook. A write may arrive and still be reported as failed, and may be reported as sent
  when the far end is gone. When the supervisor returns the process ends with all its
  goroutines. Frames other than questions and clarifications end their goroutine at once and
  are left out; so is a reply's type, for a hook that fails sends a frame like any other.
  A *lingering* hook is one whose child keeps its stdout open: `cmd.Run` then waits past the
  timeout.
* **Files.** `writeFileSync` is two steps, truncate and write; a command that is killed, or whose
  disk is full, stops between any two steps. A write lands on the file it opened, also when
  another command has unlinked it (`linked`), and may leave the end of another command's
  longer contents (`Garbled`). `existsSync` and the `readFileSync` after it are one step where
  nothing deletes the file in between. Environment overrides and modes are left out.
* **Login.** Any failing statement, network error or client timeout ends a login (`LoginFails`):
  `handleDeviceToken` reports every error as an error code that `pollForToken` throws on. No code
  under `src/` sets `approved_email`; `Approve` stands for the page that the comment on
  `MountDeviceCode` announces.

* **Access.** What a credential resolves to is a parameter: a session email, and a bearer that is the
  dev admin key or a user's token, which never makes an administrator because `server.New` passes no
  admin groups. A PATCH without users hands NULL to a NOT NULL column, so `UpdatePossible` asks for
  them; a name stays taken after its buddy is deleted, because UNIQUE covers all rows. Every statement
  may fail, which ends its request. A group that is NULL is read as `""` by `scanBuddy` and equals an
  empty group of a token in Go, while SQL's `=` is not true of it: `Null` stands for both and may be
  among the groups of a token (`GroupsOf`).
* **Paging.** `created_at` is `NOW()`, the time at which a transaction began, and not unique: each INSERT
  takes the clock's time or moves it on (`born`), and rows become visible in any order. The query has no
  tie-breaker, so each page is cut from an order of its own choice among those that put younger rows
  first (`Orders`).
* **Migrations.** A transaction disappears with its process. `CREATE TABLE` waits for another open
  transaction that creates the same table and fails once the table is there. A `COMMIT` may succeed
  with its confirmation lost. Any other statement may fail, which also covers the race of two
  `CREATE TABLE IF NOT EXISTS`.
* **Stopping.** `Serve` returns as soon as `Shutdown` has closed the listener, `Run` returns with it
  and `main` ends: nothing waits for requests that are running, so `RunReturns` cuts them.
* **Bootstrap.** A file is its content (`good` has the compiled-in hash) and its execute bit. Node ends
  on a signal without running `finally`, so `Kill` leaves everything as it is.
* **Ask.** `since` is not sent, so the long poll ends at once, the question being on record. Order of
  `created_at` is order in the log. One failed request ends the command.

Bounds, all named constants: `MaxTurns` (3 in the code), `WaiterCap` (4), `WriteCap`
(16), `MaxDBErrors`, `MaxRestarts`, `MaxRegistrations`, `QueueCap` (16 in the
code), `InitialWait` and `MaxWait`, `MaxSessions`, `MaxKills`, `MaxRemovals`, `MaxFaults`,
`MaxKeys`, `PageSize` (25 in the code), `NFiles` (3 in the repository, 3 in the run), and the finite sets
of requests, connections, questions and commands.

## 4. Runs

| run | instance | checks | shows |
|---|---|---|---|
| `registry` | 3 connections of 2 buddies, ≤ 5 registrations, waiter of 2 | `RegistryTypeOK`, `EntryIsNewest`, `OnlyOwnerUnregisters` | replaced connections may cancel at any time |
| `relay_conversation` | 1 thread, 2 clarifications, 1 close, cap 2, waiter 2, leaving hatchlings, 1 crash | `ConvSpec`, `ClosedMeansClosed`, `TypeInv`, `ClarificationsArePaid`, `RepliesAreMatched`, `WaiterHasRoom` | the relay implements the abstract conversation; a 204 means closed; clarifications compete for the last turn; no reply is recorded twice or unasked; the reply buffer never overflows |
| `relay_liveness` | 1 question, 1 poll, 2 connections, queue of 1, an unanswered ping, 1 database error, 1 crash, a hook with any type of reply, a leaving hatchling and poll | `EntryIsServed`, `AnsweredPollShowsAnswer`, `HistoriesAreKept`, `ThreadsAreClosed`, `QuestionIsAnswered` | the registry names no connection whose handler has returned; whatever fails, histories are kept and every thread ends, also those whose opening failed half way; as long as no statement fails, a poll that says answered shows the answer, and a queued question gets a reply on record unless its own connection was lost or muted, or its hook replied with an unknown type |
| `daemon` | 2 questions, 2 sessions, queue of 1, wait 1 to 3, one lingering hook | `KeepsPromise`, `QuestionsAreSettled`, `WaitsForAnswer`, `ErrorIsFinal`, `StopsWhenCancelled`, `DaemonTypeOK` | at most one reply per question and one in the end; nobody waits in vain while its session lives; the daemon stops |
| `setup` | 2 setups, a removal, a list, 2 aliases, 1 kill, 1 failed request | `TokensAreGenuine`, `LegacyIsKept`, `GivesUpForCause`, `LoginEnds`, `TypeOK` | overlapping and killed commands store only genuine tokens; logins end, and for a cause |
| `access` | 2 buddies, 2 names, 4 people, 1 group and the empty one, 6 ACL bodies, 2 keys, 1 connection, 2 asking hatchlings; or 1 open buddy, 3 asking hatchlings of 2 users and 1 walk with pages of 1 | `AskableIsListed`, `OldKeysAreDead`, `RevocationIsFinal`, `WalkMissesNothing`, `TypeOK` | the two access rules agree for every stored ACL, up to the buddy's owner and a group mode without a group; rotated keys and revoked accesses are dead; a walk sees every thread that was there when it began and shares its `created_at` with no other |
| `lifecycle` | 2 replicas, 3 files, 2 faults, 2 logins, 2 callbacks | `SchemaIsWhole`, `ServersComeUp`, `OneExchangePerState`, `RefusedForCause`, `LifecycleTypeOK` | concurrent and interrupted migrations leave the schema whole and block nobody for ever; login states are spent once |
| `bootstrap` | 3 commands, any binary left before, 2 kills, 2 failures, 1 removal of a live lock | `OnlyVerifiedRuns`, `LockIsTruthful`, `BootstrapTypeOK` | nothing unverified is executed, even with the lock broken; the lock is otherwise exact |
| `ask` | 1 process, cap 3 | `OneReplyPerRequest`, `AnswerIsPrinted` | no turn is spent on a request that was answered; the answer is shown before the loop ends |
| `doc_*` | see section 7 | one documented claim each | TLC finds the claim violated |

Every definition of the properties carries a comment that says which behaviour of
the code it is about.

**Why these bounds are enough to be interesting.** Threads do not interact except
through one connection's queue, so one thread suffices for everything that is
about one conversation; in `relay_liveness` a queue of one is full after the question.
`HatchlingAsk` takes one process for the same reason, with the real cap. Two connections of a buddy are what replacing needs; `registry` adds a third, of
another buddy. One more clarification than the turns left makes the cap bite
(`relay_conversation` lowers the cap to two so that two clarifications do; the others
that lower it do so only to keep the instance small). One error and one crash reach
every pair "statement, then fault"; pairs of errors are left to the proofs, which hold
for every budget. `WaiterHasRoom` needs a cap that does not exceed the waiter; the run gives
both the value two, which is tighter than the code's 3 and 4. Two questions and a queue of one make a sender
of the daemon wait for room, two sessions make a reply late for its connection, and a wait of
1, 2, 3 reaches the maximum in one doubling that overshoots it. Two setups overlap on
`config.json`, a setup, a removal and a list of the same alias on its token file. In `access` two keys
are one rotation, two buddies make one name collide. Administrators and a client that pages have nothing to do with each other, so the
constraint `Instances` explores the two apart. Pages of one put every tie at the edge of a page, and let a third thread
that comes late push one not yet seen to the next page. Two replicas are what fails over each other's migrations; two callbacks
of one login are a reload, and of two logins what a store of one state would mix up. In `bootstrap`
one command may hash while a second, let in by a human, replaces the file and a third executes it.

`CHECK_DEADLOCK FALSE` appears in every run because requests and connections are
finite: a hatchling asks once, a connection that has ended does not return, and when
all are done the system rightly stops. Symmetry is used only in runs that check
invariants.

## 5. Fairness

`FairSpec` asks weak fairness of what the Go scheduler, Postgres and the operating
system run by themselves: each handler's next step, each read loop, each writer
goroutine, the end of each hook (by itself or by the timeout in `hook.go`), the
sweeper's ticker and its closes, and the passage of time. It does **not** ask that
anybody dials, asks, stays connected or answers pings, nor that the read loop of a
dead connection notices, nor that its handler gets past the close handshake. In `BuddyDaemon` the supervisor, senders and writer goroutines run and
hooks end, unless they linger; nobody has to ask, to stop, or to lose a connection. In
`HatchlingSetup` commands and relay run, time passes, and the user answers the prompt that asks whether
to open a browser (`setup.ts:63`); nobody has to approve.
In `ServerLifecycle` a process goes on with its statements and one that has ended is started again by
whatever runs the container, which is external (the image's entry point, a restart policy); faults
are bounded, for a server that is killed for ever never serves. In `HatchlingAsk` the process and the
relay's handlers run and the user answers a prompt; no buddy has to reply. `registry`, `access` and
`bootstrap` check safety only and ask for no fairness.

`ThreadsAreClosed` is what the sweeper is for; it needs nothing of the buddy. A database
error may make one sweep's close fail and the next sweep repeats it; with a database
that fails for ever nothing would be closed, hence the bound on errors.
`QuestionIsAnswered` is about a question that is queued on a connection, and it has four exceptions, in
each of which the hatchling is told 201, the code neither resends nor tells it, and the thread is left
to the sweeper: this connection is lost (another one of the buddy's does not count); its writer goroutine has returned; the hook
replied with a type that the read loop does not store (`hook.go:112` lets any through); a statement failed, with which a reply may be
read and never stored. A question that finds its queue full is never queued, and the property says nothing of it; in the
run the question is always the first frame of its queue. That a hook in `Relay` ends with a reply is what
`QuestionsAreSettled` shows of the daemon, but for lingering hooks.

## 6. Proofs

TLAPS checks the following for every set of threads, requests, buddies, connections, people, ACLs,
commands, processes and logins, every capacity and every budget of faults. The only assumptions are
the named ones of the modules: request kinds are disjoint, a name for "none" (`NoThread`, `NoConn`,
`NoBuddy`, `NoEmail`, `NoProc`, `NoLogin`, `NoCommand`) is no member of the set it completes, capacities and page
size are positive and budgets natural numbers, every thread has a target, every connection a buddy and
every opening request a caller, administrators are people, and the processes that serve are processes.

| theorem | statement | argument |
|---|---|---|
| `RelayProofs!TypeCorrect` | `Spec => []TypeInv` | `TypeInv` is `TypeOK` with `InStep`: what a goroutine holds at the step it is at (a handler past its start knows its thread, one about to push has a writer, a read loop between two reads holds a stored frame). `TypeOK` alone is not inductive: typing `log'` or `status'` needs the thread in hand to be a thread. One lemma per action |
| `RelayProofs!HistoriesKept` | `Spec => HistoriesAreKept` | every step of the whole relay is at most one SQL statement of `Store` (`StepIsStatement`), and no statement rewrites a history (`StatementKeepsHistory`) |
| `RelayProofs!EntryServed` | `Spec => []EntryIsServed` | `EntryInv`: `RegistryInv`, and a connection holds a generation exactly until its handler returns, the close handshake included |
| `RelayProofs!AnswerIsShown` | `Spec => []AnsweredPollShowsAnswer` | `AnswerInv`: as long as no statement has failed by itself, a row says answered only when the answer is logged, a read loop past its append has logged its answer, and a poll's copy of the row is not ahead of the log; logs only grow (from `StepIsStatement`) |
| `RelayProofs!ClosedIsClosed` | `Spec => []ClosedMeansClosed` | `CloseInv`: a handler works on a thread whose row exists (`ThreadsExist`), and without database errors a close handler past its UPDATE has a closed thread (`ClosesFirst`); no statement reopens one |
| `RelayProofs!RegistryTypes` | `RegistrySpec => []RegistryTypeOK` | part of `RegistryInv`, below |
| `RelayProofs!NewestConnectionServes` | `RegistrySpec => []EntryIsNewest` | `RegistryInv`: generations that are held differ and do not exceed the counter, and an entry's generation is the one its own connection holds |
| `RelayProofs!ReplacedConnectionIsHarmless` | `RegistrySpec => OnlyOwnerUnregisters` | from `RegistryInv`: only the connection whose generation is the entry's can remove it |
| `RelayCountingProofs!ImplementsConversation` | `Spec /\ [](dbErrors = 0) => ConvSpec` | `RelayInv`: `AnswerInv`, a log past its INSERT is not empty (`LogInv`), a refused clarification has no turn left (`CapInv`), and a message of the buddy has one of the hatchling before it (`RepliesInv`). Then one step per action: it is a step of `Conversation` or a stutter on the four shared variables |
| `RelayCountingProofs!RowsAreTruthful` | `Spec /\ [](dbErrors = 0) => [](\A t \in Threads : RowIsTruthful(t))` | inductive in `Conversation`, carried over by the refinement |
| `RelayCountingProofs!RepliesMatched` | `Spec => []RepliesAreMatched` | `RepliesInv`: an injection takes every reply that is on record *or may still come* (a push about to happen, a frame queued, a hook, a reply under way or in a read loop's hands) to a message of the hatchling. Moving a frame moves an element, dropping or losing one drops an element, and a new push has a new message |
| `RelayCountingProofs!ClarificationsPaid` | `Spec => []ClarificationsArePaid` | `PaidInv`: once the question is counted, an injection takes every message on record, and every clarification that has taken its turn and is not yet on record, to a turn; before that the log holds one question at most (`FirstInv`) |
| `RelayCountingProofs!WaitersHaveRoom` | `MaxTurns <= WaiterCap /\ Spec => []WaiterHasRoom` | `WaitersInv`: as `RepliesInv`, with the frames in the waiter in the place of those on record; then `PaidInv` bounds the messages by `MaxTurns` |
| `BuddyDaemonProofs!DaemonKeepsPromise` | `Spec => KeepsPromise` | `DaemonInv`: a question is in one place only (inbox, hook, queue, hands of the writer, answered), and only the writer that holds it can make it arrive; then every step maps to `Ask`, `Reply`, `Lose` or a stutter |
| `BuddyDaemonProofs!DaemonWaits`, `ErrorsAreTrue`, `DaemonTypeCorrect` | `Spec => []WaitsForAnswer`, `[]ErrorIsFinal`, `[]DaemonTypeOK` | from the same invariant |
| `HatchlingSetupProofs!TokensStayGenuine` | `Spec => []TokensAreGenuine` | `SetupInv`: a setup past the relay's SELECT has been approved, and only setups reach the steps that store a token |
| `HatchlingSetupProofs!LegacyTokenKept` | `Spec => []LegacyIsKept` | `KeptInv`: until the default is replaced, a token file that exists holds the old token or is open in the hands of a command that will write it, so whoever deletes the old file may |
| `HatchlingSetupProofs!LoginsEndForCause` | `Spec => []GivesUpForCause` | faults and expiry are never undone, and only a fault or an expired code leads to the two outcomes |
| `HatchlingSetupProofs!SetupTypeCorrect` | `Spec => []TypeOK` | part of `SetupInv` |
| `DirectoryProofs!AccessRulesAgree` | `Spec => []AskableIsListed` | `DirectoryInv`: the admin API stores an ACL only after the enum check, so every row has a known mode; on such rows the SQL and the Go rule are equivalent, but for the owner, whom SQL lets see, and for a group that is NULL, which Go takes for an empty group in a token |
| `DirectoryProofs!AdminsOwnBuddies` | `Spec => []OwnersAreAdmins` | part of `DirectoryInv`: the caller that becomes the owner has passed the middleware |
| `DirectoryProofs!DeadKeysStayDead` | `Spec => OldKeysAreDead` | `Doomed`: a connection whose key is of no live row, or whose daemon was turned away; key numbers are never issued twice, so no step revives it |
| `DirectoryProofs!RevocationHolds` | `Spec => RevocationIsFinal` | `Waiting`: a request that has not yet passed its access check stays so as long as it may not ask; the temporal step carries "never again" through the induction |
| `DirectoryProofs!DirectoryTypes` | `Spec => []TypeOK` | part of `DirectoryInv` |
| `DirectoryProofs!WalksMissNothing` | `Spec => []WalkMissesNothing` | `WalkInv`: what was due and ranks before the current page has been seen. In whatever order a query returns ties, a thread without one is at its rank, the number of listed ones that are younger (`PositionIsRank`), and positions leave no gap (`PositionsAreFilled`), so a page that is not full is the last. Ranks only grow, whatever is inserted or committed late; what has a tie keeps it |
| `ServerLifecycleProofs!SchemaStaysWhole` | `Spec => []SchemaIsWhole` | `SchemaInv`: a process at a file has found every earlier one recorded, and tables and ledger change in one commit |
| `ServerLifecycleProofs!StatesAreSpentOnce` | `Spec => []OneExchangePerState` | `LoginInv`: a state lives in the memory of the process that made it only (`StatesAtHome`), and who has taken it leaves none behind (`TakenIsGone`) |
| `ServerLifecycleProofs!RefusalsHaveCauses` | `Spec => []RefusedForCause` | `StatesAreAccounted`, also in `LoginInv`: a started login's state is still at home, old, lost with its process, or taken |
| `ServerLifecycleProofs!LifecycleTypes` | `Spec => []LifecycleTypeOK` | from both invariants |
| `BuddyBootstrapProofs!OnlyVerifiedBinariesRun` | `Spec => []OnlyVerifiedRuns` | `CacheInv`: only verified `.part` files are renamed, and a cache that a command has hashed is never bad afterwards, although others may replace or remove it |
| `BuddyBootstrapProofs!LockStaysTruthful`, `BootstrapTypes` | `Spec => []LockIsTruthful`, `[]BootstrapTypeOK` | inductive together with `CacheInv` |
| `HatchlingAskProofs!OneReplyEach` | `Spec => []OneReplyPerRequest` | `AskInv`: in every prefix of the log clarifications are no more than requests (`RepliesFollow`); the view that a decision rests on is a prefix of the log that lacks no clarification (`ViewIsOld`), for only the process itself logs them; so a request found open is still open at the INSERT (`RequestIsOpen`) |

**Counting.** "No more of these than of those" says too little to be inductive: it does not say which reply
belongs to which message. The invariants of `RelayCountingProofs` therefore say that there is an injection
(`ExistsInjection` of the community modules), which each step extends, restricts or leaves alone, and
cardinalities enter in the last step of each theorem. What a matching forgets, as
which frame is paired with which message, is nothing the relay knows either: a reply names its thread only.

**Hypotheses.** Two theorems have one beyond the assumptions. `MaxTurns <= WaiterCap` is 3 <= 4 in the code and the
very reason that the comment in `DeliverOutFrame` gives; without it the property is false. `[](dbErrors = 0)`
excludes statements that fail by themselves while the hatchling is there, and no other fault: hatchlings
leave in the middle of their requests, connections and the process end at any point. It is needed because
of what section 7 says of `IncrementTurns`: after such an error the handler reports the cap with turns to
spare, which no conversation promises. It is what the run `relay_conversation` fixes by `MaxDBErrors = 0`.

**Only model-checked** are the liveness properties (`ThreadsAreClosed`, `QuestionIsAnswered`,
`QuestionsAreSettled`, `StopsWhenCancelled`, `LoginEnds`, `ServersComeUp`, `AnswerIsPrinted`): the
prover can treat neither liveness under fairness nor ENABLED. Every other property of a passing run is a
theorem. The runs that expect a violation have, of course, none.

## 7. Findings

Each has a run in which TLC finds what the documentation says violated.

* `doc_legacy_token`: a command killed between truncating and writing `tokens/default.token` leaves an
  empty file that the next one takes for a finished migration, and it deletes the old token
  (`config.ts:106`); the project's README promises a migration without user action.
* `doc_retry_runs`: `download.ts:48` renames the verified `.part` file, of mode 0600, before line 50
  makes it executable. A command killed in between leaves a cached binary with the right hash that
  nothing will ever `chmod` again, so every later command fails to spawn it;
  `skills/buddy-skill/README.md:76` says to remove the lock and retry.
* `doc_ask_answer`: `toThreadResp` (`admin.go:266`) encodes `store.Message`, which has no json tags, so the
  messages arrive with `ID`, `Role`, `Type` and `Content` while `ask.ts:53` and `ask.ts:62` read
  `m.role`, `m.type` and `m.id`. Against the real server `ask` prints nothing and replies to nothing;
  `e2e.test.ts:97` expects the answer, in a test that is skipped unless `CLAWGARD_E2E` is set, and the
  unit tests serve lower-case names.

`ask.cfg` takes the names of the OpenAPI document on both sides (`NamesAgree`), or there would be
nothing left of the loop to check; `doc_ask_answer.cfg` takes them as they are.

**Known, without a run of their own.** The models reach them, but for what is said of `ask.ts:67`:

* `SKILL.md:88` of the hatchling skill promises up to three clarification turns. `hatchlingOpenThread`
  charges a turn for the question itself (`hatchling.go:97`), so the third clarification is refused and
  closes the thread; `ask`'s own cap of three is never what ends it.
* `RunOnce` closes each thread of a list it read before and `Close` looks only at the status, so a
  thread that saw activity since the list is closed as idle (`sweeper.go:44`).
* `IncrementTurns` takes any error of its UPDATE for a refusal; after a transient error on an open
  thread it reports the cap, and the handler closes the thread as `turn_cap_reached` with turns to
  spare (`threads.go:99`).
* `runOnce` returns what `Dial` or `Session.Run` return, and both only return on an error, so the
  `bo.Reset()` of `supervisor.go` is never reached: the wait after a session doubles, up to the maximum,
  however long the session lasted.
* `hatchlingCloseThread` ignores the error of `Close`, so after a database error a 204 may be sent for a
  thread that stays open until the sweeper comes; `ClosedMeansClosed` excludes database errors for
  that reason.
* `buddy_ws.go:115` ignores the error of `Append`, and line 126 closes the thread as answered all the same:
  after a database error a poll may say answered and show no answer. `AnsweredPollShowsAnswer` excludes
  database errors for that reason.
* A reply of a type that the read loop does not know is let through by the daemon (`hook.go:112`), delivered
  to the waiter and stored by nobody (`buddy_ws.go:105`); the question stays unanswered until the sweeper comes.
* A connection in its close handshake (`buddy_ws.go:138`), or whose writer goroutine has returned after a ping
  (`buddy_ws.go:77`), is still registered: the buddy counts as online, and a question to it is told 201 and goes nowhere.
* In the daemon, a sender whose request is in the queue when the writer goroutine stops waits until the daemon
  ends (`session.go:61`); `WaitsForAnswer` exempts it.
* A buddy of mode group without a group is open to a caller whose token has an empty group
  (`hatchling.go:275`), and is not in its listing (`buddies.go:109`); `AskableIsListed` names this case.
* `threads.go:150` orders by `created_at` alone, so threads of one time may change places between two pages,
  and a client that pages may miss one; `WalkMissesNothing` exempts them.
* `ask.ts:67` compares `createdAt` as strings, whose fractions of a second vary in length, so it may take an
  answered request for an open one or the reverse; `HatchlingAsk` takes the order of the log and does not reach this.
* A setup killed between the profile and the token (`setup.ts:77`) leaves a profile without a token, or with the
  token of an earlier login.
* A connection made before its key was rotated, or its buddy deleted, keeps serving
  (`buddy_ws.go:33` checks once); `OldKeysAreDead` is about daemons that dial later.
* A PATCH of an ACL without `users` is a NULL in a NOT NULL column and ends as 500 (`buddies.go:158`);
  the name of a deleted buddy stays taken.
* `ask` never sends `since`, so once the question is on record its long poll returns at once and the loop
  polls without pause; it remembers only the last message it printed, so with two or more buddy
  messages it prints them again; one failed poll ends it.
* Node does not run `finally` on a signal: a bootstrap stopped with Ctrl-C leaves its lock and its
  `.part` file.
* `src/README.md:43` warns that concurrent migrations can deadlock or partially apply. The model finds
  neither: a transaction per file leaves the schema whole, and a replica that loses the race fails and
  is started again (`SchemaIsWhole`, `ServersComeUp`). `serve` always migrates.

## 8. Not modelled

* **Buddy CLI commands and key store**: prompts, flags and one file with one writer.
* **OpenClaw bridge**: one hook implementation; `HookReplies` covers every type of reply it may give.
* **Dashboard**: a view of the API.
* **Configuration, health, static files**: parsing and I/O without a protocol; the wiring of routes and the
  discovery of the OIDC provider at start, whose failure ends the process as `Crash` does after the
  migrations.
* **Of the dashboard's login**: cookies, their signature and expiry, logout, and the mock login of
  development. Verification of tokens is cryptography and third-party; it refuses or accepts.
* **Of the buddy skill**: Cosign and the paths of Windows; the hash is what admits a binary.
* **Of the hatchling's commands**: `resolveBuddyTarget` and the output of `list`, which change nothing.
* **Of the admin API**: `adminGetThread`, which only reads; the filters of the listing other than the
  caller's email; descriptions and `last_seen`.
* **Of the relay**: the length of a reply, hence the read limit of the WebSocket library, which ends the
  connection; the turn number told to hooks (`supervisor.go:77`); `Threads.TouchActivity` has no caller.

## 9. Plan

Done, in this order: the core (`Store`, `Registry`, `Relay`, `Conversation`); `BuddyDaemon`; the
device-code login with the configuration files (`HatchlingSetup`); `Buddies` and `Directory`;
`Migrations` and `ServerLifecycle`; `BuddyBootstrap`; `HatchlingAsk`. The proofs
followed the modules; the last ones were the refinement of the conversation and the counting properties. Left:

1. **What helps the liveness properties**: the steps that their leads-to arguments rest on, as action
   properties (a swept thread is not reopened, an expired login does not go back to waiting).
2. **Multiple replicas of the relay**: `Relay` has one process; registries of several behind a balancer
   would show which questions a replica drops because the buddy is connected to another.
